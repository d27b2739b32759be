-------------------------- MODULE MCNotifications ---------------------------
(***************************************************************************)
(* The two channels for TLC, one of them in each behaviour: pushes, with   *)
(* one tab and more than one request, or with several tabs; or sockets.    *)
(***************************************************************************)
EXTENDS Notifications, Realtime, TLC

VARIABLE channel

MCInit == PushInit /\ RealtimeInit /\ channel \in {"push", "socket"}

MCNext ==
    /\ \/ channel = "push" /\ PushNext /\ UNCHANGED rtVars
       \/ channel = "socket" /\ RealtimeNext /\ UNCHANGED pushVars
    /\ UNCHANGED channel

MCSpec == MCInit /\ [][MCNext]_<<channel, pushVars, rtVars>>

\* Where several tabs are open, only one request is followed.
Few ==
    \/ \E t \in Tabs : \A u \in Tabs \ {t} : tab[u].pc = "closed"
    \/ \A r \in Requests : r = 1 \/ req[r].pc = "none"

Symmetric == Permutations(Tabs) \union Permutations(Clients)
=============================================================================
