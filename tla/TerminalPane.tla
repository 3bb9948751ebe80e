---------------------------- MODULE TerminalPane ----------------------------
(***************************************************************************)
(* One terminal pane of the browser (frontend/src/lib/Terminal.svelte):    *)
(* how it connects, which takes a token from the server first, and how it  *)
(* gives a connection up; together with the server's side of a connection: *)
(* the login that the request needs and the token store.                   *)
(*                                                                         *)
(* Between the fetch of a token and its answer, and between the creation   *)
(* of a socket and its events, anything else may happen to the pane.  The  *)
(* bytes of the terminal, its size and its looks are left out.             *)
(***************************************************************************)
EXTENDS WsTokens, SequencesExt

CONSTANTS
    Session,       \* sessions the pane can show (with their hosts)
    MaxSockets,    \* bound: sockets of the pane at a time
    MaxFetches     \* bound: fetches of a token in flight

ASSUME PaneBoundsAssumption ==
    /\ MaxSockets \in Nat
    /\ MaxFetches \in Nat

Slot == 1 .. MaxSockets
NoSocket == 0

VARIABLES
    mounted,      \* the component exists
    opened,       \* finishInit has opened the terminal
    target,       \* session and host of the pane
    ws,           \* the component's socket, or NoSocket
    sockets,      \* its sockets that have not closed yet, in slots
    fetches,      \* fetches of /api/ws-token, sent or answered, oldest first
    connected, connecting, error,    \* what the header shows
    authenticated,   \* the browser's cookie is that of a login
    overtaken     \* history: the pane connected or disconnected during a fetch

flags == <<connected, connecting, error>>
paneVars == <<mounted, opened, target, ws, sockets, fetches, flags, overtaken>>
vars == <<paneVars, authenticated, tokenVars>>

\* A socket is connecting, open, or closing, which it has been closed here for,
\* with its close handler taken off; "aborted" is one that had not been open.
Closed == [state |-> "closed"]

Init ==
    /\ TokensInit
    /\ mounted = TRUE
    /\ opened = FALSE
    /\ target \in Session
    /\ ws = NoSocket
    /\ sockets = [n \in Slot |-> Closed]
    /\ fetches = <<>>
    /\ connected = FALSE
    /\ connecting = FALSE
    /\ error = FALSE
    /\ authenticated = TRUE
    /\ overtaken = FALSE

Live(n) == sockets[n].state \in {"connecting", "open"}

-----------------------------------------------------------------------------
(* The component.                                                           *)

\* connect, when the socket variable is `socket`: it returns at once if there
\* is a live one, and else asks for a token.
Connect(socket) ==
    IF socket # NoSocket
    THEN UNCHANGED <<fetches, connecting, error, overtaken>>
    ELSE /\ Len(fetches) < MaxFetches
         /\ fetches' = Append(fetches, [stage |-> "sent", token |-> NoToken])
         /\ connecting' = TRUE
         /\ error' = FALSE
         /\ overtaken' = (overtaken \/ fetches # <<>>)

\* Faulty variant: the socket of the session before is let go, not closed.
DisconnectLetsGo ==
    /\ ws' = NoSocket
    /\ connected' = FALSE
    /\ UNCHANGED sockets

\* disconnect.  It lowers `connecting` as well, which its callers go on to
\* raise or to leave.
Disconnect ==
    /\ ws' = NoSocket
    /\ connected' = FALSE
    /\ sockets' = IF ws = NoSocket THEN sockets
                  ELSE [sockets EXCEPT ![ws].state =
                           IF @ = "connecting" THEN "aborted" ELSE "closing"]

\* The layout is there and xterm opens: finishInit ends with connect.
FinishInit ==
    /\ mounted
    /\ ~opened
    /\ opened' = TRUE
    /\ Connect(ws)
    /\ UNCHANGED <<mounted, target, ws, sockets, connected, authenticated, tokenVars>>

\* The effect on session and host: disconnect, clear, connect.
ChangeSession(s) ==
    /\ mounted
    /\ s # target
    /\ target' = s
    /\ Disconnect
    /\ Connect(NoSocket)
    /\ UNCHANGED <<mounted, opened, authenticated, tokenVars>>

\* The button that the header and the error panel show.
ReconnectTerminal ==
    /\ mounted
    /\ error /\ ~connected /\ ~connecting
    /\ Disconnect
    /\ Connect(NoSocket)
    /\ UNCHANGED <<mounted, opened, target, authenticated, tokenVars>>

\* onDestroy.
Destroy ==
    /\ mounted
    /\ mounted' = FALSE
    /\ Disconnect
    /\ connecting' = FALSE
    /\ overtaken' = (overtaken \/ fetches # <<>>)
    /\ UNCHANGED <<opened, target, fetches, error, authenticated, tokenVars>>

\* The answer to a fetch has come: the socket is made for what the pane shows
\* by now, and is the pane's, whatever has become of the pane.  An answer that
\* refuses is parsed like any other and leaves the token undefined.
TokenArrives(i) ==
    /\ fetches[i].stage = "answered"
    /\ \E n \in Slot : sockets[n] = Closed
    /\ ws' = Min({n \in Slot : sockets[n] = Closed})
    /\ sockets' = [sockets EXCEPT ![ws'] = [state |-> "connecting", session |-> target,
                                            token |-> fetches[i].token]]
    /\ fetches' = RemoveAt(fetches, i)
    /\ UNCHANGED <<mounted, opened, target, flags, overtaken, authenticated, tokenVars>>

\* Faulty variant: nothing takes the note of a failed fetch.
FetchFailsQuietly(i) ==
    /\ fetches' = RemoveAt(fetches, i)
    /\ UNCHANGED <<mounted, opened, target, ws, sockets, flags, overtaken,
                   authenticated, tokenVars>>

\* The network fails, or the answer is no JSON: the catch of connect.
FetchFails(i) ==
    /\ fetches' = RemoveAt(fetches, i)
    /\ connecting' = FALSE
    /\ error' = TRUE
    /\ UNCHANGED <<mounted, opened, target, ws, sockets, connected, overtaken,
                   authenticated, tokenVars>>

\* A closed socket's effect on the flags; an error event does the same.
ShowClosed ==
    /\ connected' = FALSE
    /\ connecting' = FALSE
    /\ error' = TRUE

\* The handshake fails or the connection ends: an error event, if there is
\* one, and the close event, which takes the variable whoever it names.
SocketCloses(n) ==
    /\ Live(n)
    /\ sockets' = [sockets EXCEPT ![n] = Closed]
    /\ ws' = NoSocket
    /\ ShowClosed
    /\ UNCHANGED <<mounted, opened, target, fetches, overtaken, authenticated, tokenVars>>

\* A socket closed here has closed.  One that was still connecting emits an
\* error, whose handler disconnect has left in place.
ClosedSocketEnds(n) ==
    /\ sockets[n].state \in {"aborted", "closing"}
    /\ sockets' = [sockets EXCEPT ![n] = Closed]
    /\ IF sockets[n].state = "aborted" THEN ShowClosed ELSE UNCHANGED flags
    /\ UNCHANGED <<mounted, opened, target, ws, fetches, overtaken, authenticated, tokenVars>>

-----------------------------------------------------------------------------
(* The server.                                                              *)

\* GET /api/ws-token: the hook of auth.js refuses who is not logged in, and a
\* rate limit may refuse anyone.
TokenRequestArrives(i) ==
    /\ fetches[i].stage = "sent"
    /\ \/ /\ authenticated
          /\ Generate
          /\ fetches' = [fetches EXCEPT ![i] = [stage |-> "answered", token |-> issued']]
       \/ /\ fetches' = [fetches EXCEPT ![i].stage = "answered"]
          /\ UNCHANGED tokenVars
    /\ UNCHANGED <<mounted, opened, target, ws, sockets, flags, overtaken, authenticated>>

\* The upgrade of a socket: the hook lets only the logged in pass, and then
\* authorizeWebSocketRequest, for which that is enough, looks at the token
\* and so uses it up.  A refusal is SocketCloses.
SocketOpens(n) ==
    /\ sockets[n].state = "connecting"
    /\ authenticated
    /\ Validate(sockets[n].token)
    /\ sockets' = [sockets EXCEPT ![n].state = "open", ![n].token = NoToken]
    /\ connected' = TRUE
    /\ connecting' = FALSE
    /\ error' = FALSE
    /\ UNCHANGED <<mounted, opened, target, ws, fetches, overtaken, authenticated>>

\* POST /auth/logout, in another tab for instance; open sockets stay open.
Logout ==
    /\ authenticated
    /\ authenticated' = FALSE
    /\ UNCHANGED <<paneVars, tokenVars>>

\* POST /auth/login with the right password.
Login ==
    /\ ~authenticated
    /\ authenticated' = TRUE
    /\ UNCHANGED <<paneVars, tokenVars>>

Tick ==
    /\ TokensAge
    /\ UNCHANGED <<paneVars, authenticated>>

Next ==
    \/ FinishInit
    \/ \E s \in Session : ChangeSession(s)
    \/ ReconnectTerminal
    \/ Destroy
    \/ \E i \in DOMAIN fetches :
          TokenArrives(i) \/ FetchFails(i) \/ TokenRequestArrives(i)
    \/ \E n \in Slot :
          SocketCloses(n) \/ ClosedSocketEnds(n) \/ SocketOpens(n)
    \/ Logout
    \/ Login
    \/ Tick

Spec == Init /\ [][Next]_vars

-----------------------------------------------------------------------------
(* Safety.                                                                  *)

\* What the header shows has a reason, whatever old sockets and fetches still
\* do: a pane shown as live has an open socket, and one shown as connecting
\* has a fetch or a handshake whose end will change it.
HeaderHasAReason ==
    /\ connected => \E n \in Slot : sockets[n].state = "open"
    /\ connecting => \/ fetches # <<>>
                     \/ \E n \in Slot : sockets[n].state = "connecting"

\* As long as no connect was overtaken during its fetch, the only live socket
\* is the one the pane knows, shows and will close: of a pane that is there,
\* and to the session it shows.
StraySocketWasOvertaken ==
    ~overtaken => \A n \in Slot :
        Live(n) => n = ws /\ mounted /\ sockets[n].session = target

\* A token on its way to a socket is one the server still knows, unless it
\* has expired or as many newer ones as the map can hold pushed it out.
HeldTokenIsKnown ==
    \A t \in {fetches[i].token : i \in DOMAIN fetches}
          \cup {sockets[n].token : n \in {m \in Slot : sockets[m].state = "connecting"}} :
        t # NoToken => \/ t \in tokens
                       \/ tokenAge[t] >= Ttl
                       \/ issued - t >= MaxTokens
=============================================================================
