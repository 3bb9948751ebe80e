SPECIFICATION Spec
CONSTANTS
    Session = {a, b}
    Shape = {wide}
    MaxWs = 2
    MaxRequests = 2
    MaxCommits = 1
INVARIANT QuietMeansSaved
