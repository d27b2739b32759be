------------------------------ MODULE Realtime ------------------------------
(***************************************************************************)
(* The realtime channel: the WebSockets between the tabs of the PWA and    *)
(* the ApprovalHub objects of the Worker, one hub for each id of a push    *)
(* subscription.  A tab has a React effect that runs again whenever        *)
(* subscription.id changes.  Each run of it has a closure of its own, with *)
(* the flag "closed", a timer and the socket it opened last; the events of *)
(* a socket come to the run that opened it, however late.                  *)
(*                                                                         *)
(* Runs are numbered, and each has an id of its own, as every save gives a *)
(* new one.  A hub keeps its end of a socket until it sees the other end   *)
(* close, fails to send, or is evicted.  Pings are left out.               *)
(***************************************************************************)
EXTENDS Naturals

CONSTANTS Clients,  \* tabs
          MaxRuns,  \* bound on the runs of the effect
          NoClient

ASSUME RealtimeAssumption == NoClient \notin Clients /\ MaxRuns \in Nat

VARIABLES
    effect,    \* the runs of the effect
    current,   \* the run each tab is in, 0 before it has a subscription
    sessions   \* the runs whose socket a hub holds

rtVars == <<effect, current, sessions>>

Runs  == 1..MaxRuns
Unrun == [win |-> NoClient, closed |-> FALSE, timer |-> FALSE, socket |-> "none", inbox |-> 0]

Run ==
    [win    : Clients \union {NoClient},
     closed : BOOLEAN,
     timer  : BOOLEAN,  \* reconnectTimer
     socket : {"none", "connecting", "open", "closing", "closed"},
     inbox  : 0..1]     \* a message on its way

RealtimeTypeOK ==
    /\ effect \in [Runs -> Run]
    /\ current \in [Clients -> 0..MaxRuns]
    /\ sessions \subseteq Runs

RealtimeInit ==
    /\ effect = [r \in Runs |-> Unrun]
    /\ current = [w \in Clients |-> 0]
    /\ sessions = {}

-----------------------------------------------------------------------------
\* connect
Connecting(e) == [e EXCEPT !.socket = "connecting", !.timer = FALSE]

\* socket.close(): its close event is still to come.
Closing(e) ==
    [e EXCEPT !.socket = IF @ \in {"connecting", "open"} THEN "closing" ELSE @, !.inbox = 0]

\* Mutant: the flag is not set, and the late event of the socket reconnects.
CleanedUpNot(e) == Closing([e EXCEPT !.timer = FALSE])

\* The cleanup of a run.
CleanedUp(e) == Closing([e EXCEPT !.closed = TRUE, !.timer = FALSE])

\* A save has been answered: the old run is cleaned up and the next one starts.
Subscribed(w, r) ==
    /\ effect[r] = Unrun /\ \A q \in 1..(r - 1) : effect[q] # Unrun
    /\ effect' = [q \in Runs |->
           CASE q = r          -> Connecting([Unrun EXCEPT !.win = w])
             [] q = current[w] -> CleanedUp(effect[q])
             [] OTHER          -> effect[q]]
    /\ current' = [current EXCEPT ![w] = r]
    /\ UNCHANGED sessions

\* /api/realtime: the hub of the id accepts the socket, and it opens.
Accept(r) ==
    /\ effect[r].socket = "connecting"
    /\ effect' = [effect EXCEPT ![r].socket = "open"]
    /\ sessions' = sessions \union {r}
    /\ UNCHANGED current

\* The connection fails or breaks, or the hub is evicted.
Lose(r) ==
    /\ effect[r].socket \in {"connecting", "open"}
    /\ effect' = [effect EXCEPT ![r] = Closing(effect[r])]
    /\ UNCHANGED <<current, sessions>>

\* The close event: in two seconds the run connects again, if it is the
\* current one.
CloseEvent(r) ==
    /\ effect[r].socket = "closing"
    /\ effect' = [effect EXCEPT ![r].socket = "closed", ![r].timer = ~effect[r].closed]
    /\ UNCHANGED <<current, sessions>>

Reconnect(r) ==
    /\ effect[r].timer /\ ~effect[r].closed
    /\ effect' = [effect EXCEPT ![r] = Connecting(effect[r])]
    /\ UNCHANGED <<current, sessions>>

\* The hub sees that the other end has closed.
ServerClose(r) ==
    /\ r \in sessions /\ effect[r].socket # "open"
    /\ sessions' = sessions \ {r}
    /\ UNCHANGED <<effect, current>>

\* A session that cannot be sent to is deleted.
Send(r) ==
    /\ \/ /\ effect[r].socket = "open"
          /\ effect' = [effect EXCEPT ![r].inbox = 1]
          /\ UNCHANGED sessions
       \/ /\ effect[r].socket # "open"
          /\ sessions' = sessions \ {r}
          /\ UNCHANGED effect
    /\ UNCHANGED current

\* A request for run r's id goes to the hub of that id.
Publish(r) == r \in sessions /\ Send(r)

\* A message becomes a toast.
Hear(r) ==
    /\ effect[r].inbox = 1
    /\ effect' = [effect EXCEPT ![r].inbox = 0]
    /\ UNCHANGED <<current, sessions>>

RealtimeNext ==
    \E r \in Runs :
       \/ \E w \in Clients : Subscribed(w, r)
       \/ Accept(r) \/ Lose(r) \/ CloseEvent(r) \/ Reconnect(r) \/ ServerClose(r)
       \/ Publish(r) \/ Hear(r)

RealtimeSpec == RealtimeInit /\ [][RealtimeNext]_rtVars

-----------------------------------------------------------------------------
\* However late the events of its sockets and timers come, a tab has at most
\* one socket, for the id that it knows, and the hub of that id holds the
\* other end of it: no request is shown twice, or for another subscription,
\* and none that is published to an open socket is lost.
OneSocket ==
    \A r \in Runs :
        /\ effect[r].socket \in {"connecting", "open"} => current[effect[r].win] = r
        /\ effect[r].socket = "open" => r \in sessions
=============================================================================
