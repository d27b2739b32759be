----------------------- MODULE MCBrowserSessionVault -----------------------
(***************************************************************************)
(* The vault for TLC, from two starting points: an empty vault, with a     *)
(* creation and any second request; and a vault that holds the artifact    *)
(* which r1 created, with any two later requests.                          *)
(***************************************************************************)
EXTENDS BrowserSessionVault, TLC

CONSTANTS r1, r2, r3, s1

Symmetric ==
    Permutations(Handlers) \union Permutations({r2, r3}) \union Permutations(SessionIds)

\* r1 creates, and the other two ask for any access.
CreateFirst ==
    {[r \in {r1, r2, r3} |-> CASE r = r1 -> "create"
                               [] r = r2 -> m2
                               [] r = r3 -> m3] : m2, m3 \in AccessModes}

\* Init, with r3 denied.
FirstInit ==
    /\ now = 0
    /\ access \in {f \in CreateFirst : f[r3] = "restore" /\ f[r2] # "restore"}
    /\ approval = [r \in Requests |-> IF r = r3 THEN "denied" ELSE "pending"]
    /\ grant = [r \in Requests |-> None]
    /\ sess = [s \in SessionIds |-> NoSession]
    /\ lease = [r \in Requests |-> NoLease]
    /\ artifact = [s \in SessionIds |-> None]
    /\ resolved = {}
    /\ used = {}
    /\ hnd = [h \in Handlers |-> Idle]
    /\ acked = {}
    /\ revoking = {}

\* r1 has created s1 and its artifact is stored; the PWA has resolved s1.
StoredInit ==
    /\ now = MaxTime - 1
    /\ access \in {f \in CreateFirst : f[r2] # "create" /\ f[r3] # "create"}
    /\ approval = [r \in Requests |-> IF r = r1 THEN "approved" ELSE "pending"]
    /\ grant = [r \in Requests |-> IF r = r1 THEN s1 ELSE None]
    /\ sess = [s \in SessionIds |->
                 IF s = s1 THEN [state |-> "healthy", etag |-> r1, updated |-> 0]
                 ELSE NoSession]
    /\ lease = [r \in Requests |->
                  IF r = r1 THEN [state |-> "consumed", sid |-> s1, base |-> None,
                                  expires |-> LeaseTtl, got |-> None, slot |-> FALSE]
                  ELSE NoLease]
    /\ artifact = [s \in SessionIds |-> IF s = s1 THEN r1 ELSE None]
    /\ resolved = {s1}
    /\ used = {s1}
    /\ hnd = [h \in Handlers |-> Idle]
    /\ acked = {s1}
    /\ revoking = {}

MCSpec == (FirstInit \/ StoredInit) /\ [][Next]_vars

\* Once a session has left "creating" nothing reads its updated_at.
View ==
    <<now, access, approval, grant,
      [s \in SessionIds |-> IF sess[s].state = "creating" THEN sess[s]
                            ELSE [sess[s] EXCEPT !.updated = 0]],
      lease, artifact, resolved, used, hnd, acked, revoking>>
=============================================================================
