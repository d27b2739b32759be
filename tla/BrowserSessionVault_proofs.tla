--------------------- MODULE BrowserSessionVault_proofs ---------------------
(***************************************************************************)
(* Proofs about BrowserSessionVault, for every set of requests, sessions   *)
(* and handlers, every workload, every clock bound, and every lease time   *)
(* that does not exceed the clean-up age (TimeAssumption).                 *)
(***************************************************************************)
EXTENDS BrowserSessionVault, TLAPS

(***************************************************************************)
(* Type correctness.                                                       *)
(***************************************************************************)
LEMMA NullRows == /\ NoSession \in SessionRow
                  /\ NoLease \in LeaseRow
                  /\ Idle \in HandlerState
BY DEF NoSession, SessionRow, NoLease, LeaseRow, Idle, HandlerState, ETags

LEMMA ConsumedType ==
    ASSUME NEW l \in LeaseRow
    PROVE  /\ Consumed(l) \in LeaseRow
           /\ Consumed(l).sid = l.sid
           /\ Consumed(l).expires = l.expires
           /\ Consumed(l).state = "consumed"
           /\ ~Consumed(l).slot
BY DEF Consumed, LeaseRow

LEMMA CleanTypes ==
    ASSUME TypeOK
    PROVE  /\ CleanLeases \in [Requests -> LeaseRow]
           /\ CleanSessions \in [SessionIds -> SessionRow]
BY NullRows DEF TypeOK, CleanLeases, CleanSessions

\* What ensureSchema leaves behind is well typed.
LEMMA EnsureSchemaType ==
    ASSUME TypeOK, EnsureSchema
    PROVE  /\ lease' \in [Requests -> LeaseRow]
           /\ sess' \in [SessionIds -> SessionRow]
BY CleanTypes DEF EnsureSchema

LEMMA TypeInit == Init => TypeOK
BY NullRows, WorkloadAssumption DEF Init, TypeOK, ETags, Idle, Placed

\* A handler's next local state, if it is well typed, keeps hnd well typed.
LocalsOK == /\ hnd \in [Handlers -> HandlerState]
            /\ \A h \in Handlers : Placed(hnd[h])

LEMMA LocalStep ==
    ASSUME TypeOK, NEW h \in Handlers, NEW local \in HandlerState, Placed(local),
           hnd' = [hnd EXCEPT ![h] = local]
    PROVE  LocalsOK'
BY DEF TypeOK, LocalsOK, Placed

LEMMA BeginType ==
    ASSUME TypeOK, NEW h \in Handlers, NEW local \in HandlerState, Placed(local),
           Begin(h, local)
    PROVE  /\ lease' \in [Requests -> LeaseRow]
           /\ sess' \in [SessionIds -> SessionRow]
           /\ LocalsOK'
BY EnsureSchemaType, LocalStep DEF Begin

LEMMA ReplyType ==
    ASSUME TypeOK, NEW h \in Handlers, Reply(h)
    PROVE  LocalsOK'
BY NullRows, LocalStep DEF Reply, Placed, Idle

LEMMA GotoType ==
    ASSUME TypeOK, NEW h \in Handlers,
           NEW pc \in {"batch", "put", "finish", "undo", "revoke"},
           hnd[h].sid \in SessionIds, pc # "revoke" => hnd[h].req \in Requests,
           Goto(h, pc)
    PROVE  LocalsOK'
<1> DEFINE local == [hnd[h] EXCEPT !.pc = pc]
<1>1. hnd[h] \in HandlerState
  BY DEF TypeOK
<1>2. local \in HandlerState /\ Placed(local)
  BY <1>1 DEF HandlerState, Placed
<1>3. hnd' = [hnd EXCEPT ![h] = local]
  BY DEF Goto
<1> QED
  BY <1>2, <1>3, LocalStep

LEMMA AfterReconcileType ==
    ASSUME TypeOK, NEW h \in Handlers, NEW e \in ETags, NEW c \in BOOLEAN,
           hnd[h].pc # "idle", AfterReconcile(h, e, c)
    PROVE  resolved' \subseteq SessionIds /\ LocalsOK'
<1> DEFINE r    == hnd[h].req
           next == IF access[r] = "restore" THEN "batch" ELSE "slot"
           local == [hnd[h] EXCEPT !.pc = next, !.etag = e, !.creating = FALSE]
<1>1. hnd[h] \in HandlerState /\ hnd[h].sid \in SessionIds /\ resolved \subseteq SessionIds
  BY DEF TypeOK, Placed
<1>2. CASE r = None
  BY <1>1, <1>2, ReplyType DEF AfterReconcile
<1>3. CASE r # None
  <2>1. UNCHANGED resolved
    BY <1>3 DEF AfterReconcile
  <2>2. CASE Reply(h)
    BY <1>1, <2>1, <2>2, ReplyType
  <2>3. CASE hnd' = [hnd EXCEPT ![h] = local]
    <3>1. r \in Requests
      BY <1>1, <1>3 DEF HandlerState
    <3>2. local \in HandlerState /\ Placed(local)
      BY <1>1, <3>1 DEF HandlerState, Placed
    <3> QED
      BY <1>1, <2>1, <2>3, <3>2, LocalStep
  <2> QED
    BY <1>3, <2>2, <2>3 DEF AfterReconcile
<1> QED
  BY <1>2, <1>3

LEMMA StartType ==
    ASSUME TypeOK, NEW h \in Handlers, NEW r \in Requests,
           NEW pc \in {"fetch", "claim"}, StartWith(h, r, pc)
    PROVE  TypeOK'
<1> DEFINE local == [Idle EXCEPT !.pc = pc, !.req = r, !.sid = CleanLeases[r].sid,
                                 !.etag = CleanLeases[r].base]
<1>1. CleanLeases[r].sid \in SessionIds /\ CleanLeases[r].base \in ETags
  BY CleanTypes DEF StartWith, HasLease, TypeOK, LeaseRow
<1>2. local \in HandlerState /\ Placed(local)
  BY <1>1, NullRows DEF HandlerState, Placed, Idle
<1>3. Begin(h, local)
  BY DEF StartWith
<1> QED
  BY <1>2, <1>3, BeginType DEF StartWith, TypeOK, LocalsOK, histVars

LEMMA GrantType ==
    ASSUME TypeOK, NEW h \in Handlers, Granting(h)
    PROVE  TypeOK'
<1>1. ASSUME NEW r \in Requests, StartCreateGrant(h, r) PROVE TypeOK'
  <2>1. PICK s \in SessionIds \ used, e \in now + 1 .. now + LeaseTtl :
          /\ used' = used \union {s}
          /\ Begin(h, [Idle EXCEPT !.pc = "slot", !.req = r, !.sid = s,
                                   !.at = now, !.exp = e])
    BY <1>1 DEF StartCreateGrant, Offered
  <2> DEFINE local == [Idle EXCEPT !.pc = "slot", !.req = r, !.sid = s,
                                   !.at = now, !.exp = e]
  <2>2. e \in Nat /\ now \in Nat
    BY TimeAssumption DEF TypeOK
  <2>3. local \in HandlerState /\ Placed(local)
    BY <2>2, NullRows DEF HandlerState, Placed, Idle
  <2> QED
    BY <1>1, <2>1, <2>3, BeginType DEF StartCreateGrant, TypeOK, LocalsOK, histVars
<1>2. ASSUME NEW r \in Requests, StartGrant(h, r) PROVE TypeOK'
  <2>1. PICK s \in resolved, e \in now + 1 .. now + LeaseTtl :
          Begin(h, [Idle EXCEPT !.pc = "head", !.req = r, !.sid = s,
                                !.etag = CleanSessions[s].etag,
                                !.creating = CleanSessions[s].state = "creating",
                                !.at = now, !.exp = e])
    BY <1>2 DEF StartGrant, Offered
  <2> DEFINE local == [Idle EXCEPT !.pc = "head", !.req = r, !.sid = s,
                                   !.etag = CleanSessions[s].etag,
                                   !.creating = CleanSessions[s].state = "creating",
                                   !.at = now, !.exp = e]
  <2>2. e \in Nat /\ now \in Nat /\ s \in SessionIds
    BY TimeAssumption DEF TypeOK
  <2>3. CleanSessions[s].etag \in ETags
    BY <2>2, CleanTypes DEF SessionRow
  <2>4. local \in HandlerState /\ Placed(local)
    BY <2>2, <2>3, NullRows DEF HandlerState, Placed, Idle
  <2> QED
    BY <1>2, <2>1, <2>4, BeginType DEF StartGrant, TypeOK, LocalsOK, histVars
<1>3. CASE FreeSlots(h)
  <2>1. lease' \in [Requests -> LeaseRow]
    BY <1>3, ConsumedType DEF FreeSlots, TypeOK
  <2>2. LocalsOK'
    BY <1>3, ReplyType, GotoType DEF FreeSlots, TypeOK, Placed
  <2> QED
    BY <1>3, <2>1, <2>2 DEF FreeSlots, TypeOK, LocalsOK, histVars
<1>4. CASE GrantBatch(h)
  <2>1. hnd[h] \in HandlerState /\ hnd[h].req \in Requests /\ hnd[h].sid \in SessionIds
    BY <1>4 DEF GrantBatch, TypeOK, Placed
  <2>2. sess' \in [SessionIds -> SessionRow]
    BY <1>4, <2>1 DEF GrantBatch, TypeOK, SessionRow, HandlerState, ETags
  <2>3. lease' \in [Requests -> LeaseRow]
    BY <1>4, <2>1 DEF GrantBatch, TypeOK, LeaseRow, HandlerState, ETags
  <2>4. approval' \in [Requests -> {"pending", "approved", "denied"}]
    BY <1>4 DEF GrantBatch, TypeOK
  <2>5. grant' \in [Requests -> SessionIds \union {None}]
    BY <1>4, <2>1 DEF GrantBatch, TypeOK
  <2>6. LocalsOK'
    BY <1>4, ReplyType DEF GrantBatch
  <2> QED
    BY <1>4, <2>2, <2>3, <2>4, <2>5, <2>6 DEF GrantBatch, TypeOK, LocalsOK, histVars
<1>5. CASE GrantRejected(h)
  BY <1>5, ReplyType DEF GrantRejected, TypeOK, LocalsOK, dbVars, histVars
<1> QED
  BY <1>1, <1>2, <1>3, <1>4, <1>5 DEF Granting

LEMMA CommitType ==
    ASSUME TypeOK, NEW h \in Handlers, Committing(h)
    PROVE  TypeOK'
<1> USE DEF histVars
<1>0. /\ hnd[h] \in HandlerState
      /\ hnd[h].pc \in {"claim", "put", "finish", "undo"} =>
            hnd[h].req \in Requests /\ hnd[h].sid \in SessionIds
  BY DEF TypeOK, Placed
<1>1. ASSUME NEW r \in Requests, StartPut(h, r) PROVE TypeOK'
  BY <1>1, StartType DEF StartPut
<1>2. CASE Claim(h)
  <2>1. lease' \in [Requests -> LeaseRow]
    BY <1>0, <1>2, ConsumedType DEF Claim, TypeOK
  <2>2. LocalsOK'
    BY <1>0, <1>2, ReplyType, GotoType DEF Claim
  <2> QED
    BY <1>2, <2>1, <2>2 DEF Claim, TypeOK, LocalsOK
<1>3. CASE Put(h)
  <2>1. artifact' \in [SessionIds -> ETags]
    BY <1>0, <1>3 DEF Put, TypeOK, StoredETag, ETags
  <2>2. LocalsOK'
    BY <1>0, <1>3, ReplyType, GotoType DEF Put
  <2> QED
    BY <1>3, <2>1, <2>2 DEF Put, TypeOK, LocalsOK, dbVars
<1>4. CASE Finish(h)
  <2>1. sess' \in [SessionIds -> SessionRow]
    BY <1>0, <1>4 DEF Finish, TypeOK, StoredETag, SessionRow, ETags
  <2>2. acked' \subseteq SessionIds
    BY <1>0, <1>4 DEF Finish, TypeOK
  <2>3. LocalsOK'
    BY <1>0, <1>4, ReplyType, GotoType DEF Finish
  <2> QED
    BY <1>4, <2>1, <2>2, <2>3 DEF Finish, TypeOK, LocalsOK
<1>5. CASE Undo(h)
  <2>1. artifact' \in [SessionIds -> ETags]
    BY <1>0, <1>5 DEF Undo, TypeOK, ETags
  <2> QED
    BY <1>5, <2>1, ReplyType DEF Undo, TypeOK, LocalsOK, dbVars
<1> QED
  BY <1>1, <1>2, <1>3, <1>4, <1>5 DEF Committing

LEMMA StopType ==
    ASSUME TypeOK, NEW h \in Handlers, Aborting(h) \/ Revoking(h)
    PROVE  TypeOK'
<1> USE DEF histVars
<1>0. hnd[h].pc # "idle" => hnd[h].sid \in SessionIds
  BY DEF TypeOK, Placed
<1>1. ASSUME NEW r \in Requests, StartAbort(h, r) PROVE TypeOK'
  <2>1. PICK reauth \in BOOLEAN :
          Begin(h, [Idle EXCEPT !.pc = "abort", !.req = r,
                                !.sid = CleanLeases[r].sid, !.reauth = reauth])
    BY <1>1 DEF StartAbort
  <2> DEFINE local == [Idle EXCEPT !.pc = "abort", !.req = r,
                                   !.sid = CleanLeases[r].sid, !.reauth = reauth]
  <2>2. CleanLeases[r].sid \in SessionIds
    BY <1>1 DEF StartAbort, HasLease, TypeOK
  <2>3. local \in HandlerState /\ Placed(local)
    BY <2>2, NullRows DEF HandlerState, Placed, Idle
  <2> QED
    BY <1>1, <2>1, <2>3, BeginType DEF StartAbort, TypeOK, LocalsOK
<1>2. CASE AbortBatch(h)
  <2>1. lease' \in [Requests -> LeaseRow]
    BY <1>2, ConsumedType DEF AbortBatch, TypeOK
  <2>2. sess' \in [SessionIds -> SessionRow]
    <3>1. ASSUME NEW s \in SessionIds
          PROVE  [sess[s] EXCEPT !.state = "reauth_required", !.updated = now]
                    \in SessionRow
      BY DEF TypeOK, SessionRow
    <3>2. \/ sess' = sess
          \/ sess' = [sess EXCEPT ![hnd[h].sid] = NoSession]
          \/ sess' = [sess EXCEPT ![hnd[h].sid] =
                         [sess[hnd[h].sid] EXCEPT !.state = "reauth_required",
                                                  !.updated = now]]
      BY <1>2 DEF AbortBatch
    <3> QED
      BY <1>0, <1>2, <3>1, <3>2, NullRows DEF AbortBatch, TypeOK
  <2> QED
    BY <1>2, <2>1, <2>2, ReplyType DEF AbortBatch, TypeOK, LocalsOK
<1>3. ASSUME NEW s \in SessionIds, StartRevoke(h, s) PROVE TypeOK'
  <2> DEFINE local == [Idle EXCEPT !.pc = "erase", !.sid = s]
  <2>1. local \in HandlerState /\ Placed(local)
    BY NullRows DEF HandlerState, Placed, Idle
  <2> QED
    BY <1>3, <2>1, BeginType DEF StartRevoke, TypeOK, LocalsOK
<1>4. CASE Erase(h)
  <2>1. artifact' \in [SessionIds -> ETags]
    BY <1>4 DEF Erase, TypeOK, ETags
  <2>2. LocalsOK'
    BY <1>0, <1>4, GotoType DEF Erase
  <2> QED
    BY <1>4, <2>1, <2>2 DEF Erase, TypeOK, LocalsOK, dbVars
<1>5. CASE RevokeBatch(h)
  <2>1. lease' \in [Requests -> LeaseRow]
    BY <1>5, ConsumedType DEF RevokeBatch, RevokedLeases, TypeOK
  <2>2. sess' \in [SessionIds -> SessionRow]
    BY <1>5 DEF RevokeBatch, TypeOK, SessionRow, ETags
  <2> QED
    BY <1>5, <2>1, <2>2, ReplyType DEF RevokeBatch, TypeOK, LocalsOK
<1> QED
  BY <1>1, <1>2, <1>3, <1>4, <1>5 DEF Aborting, Revoking

LEMMA ReconcileType ==
    ASSUME TypeOK, NEW h \in Handlers, StartResolve(h) \/ Reconciling(h)
    PROVE  TypeOK'
<1> USE DEF histVars
<1>0. hnd[h] \in HandlerState /\ (hnd[h].pc # "idle" => hnd[h].sid \in SessionIds)
  BY DEF TypeOK, Placed
<1>1. CASE StartResolve(h)
  <2>1. PICK s \in SessionIds :
          Begin(h, [Idle EXCEPT !.pc = "head", !.sid = s,
                                !.etag = CleanSessions[s].etag,
                                !.creating = CleanSessions[s].state = "creating"])
    BY <1>1 DEF StartResolve
  <2> DEFINE local == [Idle EXCEPT !.pc = "head", !.sid = s,
                                   !.etag = CleanSessions[s].etag,
                                   !.creating = CleanSessions[s].state = "creating"]
  <2>2. CleanSessions[s].etag \in ETags
    BY CleanTypes DEF SessionRow
  <2>3. local \in HandlerState /\ Placed(local)
    BY <2>2, NullRows DEF HandlerState, Placed, Idle
  <2> QED
    BY <1>1, <2>1, <2>3, BeginType DEF StartResolve, TypeOK, LocalsOK
<1>2. CASE HeadUnchanged(h)
  <2>1. hnd[h].etag \in ETags /\ hnd[h].creating \in BOOLEAN
    BY <1>0 DEF HandlerState
  <2>2. resolved' \subseteq SessionIds /\ LocalsOK'
    BY <1>2, <2>1, AfterReconcileType DEF HeadUnchanged
  <2> QED
    BY <1>2, <2>2 DEF HeadUnchanged, TypeOK, LocalsOK, dbVars
<1>3. CASE HeadChanged(h)
  <2> DEFINE local == [hnd[h] EXCEPT !.pc = "heal", !.etag = artifact[hnd[h].sid]]
  <2>1. artifact[hnd[h].sid] \in ETags
    BY <1>0, <1>3 DEF HeadChanged, TypeOK
  <2>2. local \in HandlerState /\ Placed(local)
    BY <1>0, <1>3, <2>1 DEF HeadChanged, HandlerState, Placed
  <2>3. hnd' = [hnd EXCEPT ![h] = local]
    BY <1>3 DEF HeadChanged
  <2> QED
    BY <1>3, <2>2, <2>3, LocalStep DEF HeadChanged, TypeOK, LocalsOK, dbVars
<1>4. CASE Heal(h)
  <2>1. hnd[h].etag \in ETags
    BY <1>0 DEF HandlerState
  <2>2. sess' \in [SessionIds -> SessionRow]
    BY <1>4, <2>1 DEF Heal, TypeOK, SessionRow
  <2>3. resolved' \subseteq SessionIds /\ LocalsOK'
    BY <1>4, <2>1, AfterReconcileType DEF Heal
  <2> QED
    BY <1>4, <2>2, <2>3 DEF Heal, TypeOK, LocalsOK
<1> QED
  BY <1>1, <1>2, <1>3, <1>4 DEF Reconciling

LEMMA RestoreType ==
    ASSUME TypeOK, NEW h \in Handlers, Restoring(h)
    PROVE  TypeOK'
<1> USE DEF histVars
<1>0. /\ hnd[h] \in HandlerState
      /\ hnd[h].pc \in {"fetch", "deliver"} =>
            hnd[h].req \in Requests /\ hnd[h].sid \in SessionIds
  BY DEF TypeOK, Placed
<1>1. ASSUME NEW r \in Requests, StartGet(h, r) PROVE TypeOK'
  BY <1>1, StartType DEF StartGet
<1>2. CASE Fetch(h)
  <2> DEFINE local == [hnd[h] EXCEPT !.pc = "deliver", !.etag = artifact[hnd[h].sid]]
  <2>1. artifact[hnd[h].sid] \in ETags
    BY <1>0, <1>2 DEF Fetch, TypeOK
  <2>2. local \in HandlerState /\ Placed(local)
    BY <1>0, <1>2, <2>1 DEF Fetch, HandlerState, Placed
  <2>3. hnd' = [hnd EXCEPT ![h] = local] \/ Reply(h)
    BY <1>2 DEF Fetch
  <2>4. LocalsOK'
    BY <2>2, <2>3, LocalStep, ReplyType
  <2> QED
    BY <1>2, <2>4 DEF Fetch, TypeOK, LocalsOK, dbVars
<1>3. CASE Deliver(h)
  <2>1. lease' \in [Requests -> LeaseRow]
    <3> DEFINE row == [lease[hnd[h].req] EXCEPT !.got = hnd[h].etag]
    <3>1. row \in LeaseRow
      <4>1. lease[hnd[h].req] \in LeaseRow /\ hnd[h].etag \in ETags
        BY <1>0, <1>3 DEF Deliver, TypeOK, HandlerState
      <4> QED
        BY <4>1 DEF LeaseRow
    <3>2. lease' = lease \/ lease' = [lease EXCEPT ![hnd[h].req] = row]
      BY <1>3 DEF Deliver
    <3> HIDE DEF row
    <3> QED
      BY <3>1, <3>2 DEF TypeOK
  <2> QED
    BY <1>3, <2>1, ReplyType DEF Deliver, TypeOK, LocalsOK
<1> QED
  BY <1>1, <1>2, <1>3 DEF Restoring

LEMMA TypeStep == TypeOK /\ [Next]_vars => TypeOK'
<1> SUFFICES ASSUME TypeOK, [Next]_vars PROVE TypeOK'
  OBVIOUS
<1>1. CASE Tick
  BY <1>1 DEF Tick, TypeOK, dbVars, histVars
<1>2. CASE OtherCall
  BY <1>2, EnsureSchemaType DEF OtherCall, TypeOK, histVars
<1>3. ASSUME NEW r \in Requests, Decide(r) PROVE TypeOK'
  BY <1>3, CleanTypes DEF Decide, TypeOK, histVars
<1>4. ASSUME NEW h \in Handlers, Crash(h) PROVE TypeOK'
  BY <1>4, ReplyType DEF Crash, TypeOK, LocalsOK, dbVars, histVars
<1>5. CASE UNCHANGED vars
  BY <1>5 DEF vars, TypeOK
<1> QED
  BY <1>1, <1>2, <1>3, <1>4, <1>5, ReconcileType, GrantType, RestoreType, CommitType,
     StopType
  DEF Next

\* Every variable of the vault, and the local state of every handler, keeps
\* its type through all interleavings and deaths of the handlers.
THEOREM VaultTypeCorrect == Spec => []TypeOK
BY TypeInit, TypeStep, PTL DEF Spec

-----------------------------------------------------------------------------
(***************************************************************************)
(* At most one writer.                                                     *)
(*                                                                         *)
(* SingleWriter speaks of leases that are open and have not expired; it is *)
(* not inductive, because the grant batch does not look at expiry: what    *)
(* stops it is the UNIQUE index on writer_slot.  The invariant is about    *)
(* slots: every open write lease occupies its session's slot, and no two   *)
(* leases occupy one slot.                                                 *)
(***************************************************************************)
SlotHeld ==
    \A r \in Requests :
        lease[r].state = "open" /\ access[r] \in WriteModes => lease[r].slot

SlotUnique ==
    \A r1, r2 \in Requests :
        lease[r1].slot /\ lease[r2].slot /\ lease[r1].sid = lease[r2].sid => r1 = r2

SlotInv == SlotHeld /\ SlotUnique

\* m is what can become of the lease row l without a new grant.
Narrows(l, m) ==
    /\ m.slot => l.slot /\ m.sid = l.sid /\ m.state = l.state
    /\ m.state = "open" => /\ l.state = "open"
                           /\ m.slot = l.slot
                           /\ m.sid = l.sid
                           /\ m.expires = l.expires
    /\ m.state # "none" => /\ l.state # "none"
                           /\ m.sid = l.sid
                           /\ m.expires = l.expires
                           /\ m.base = l.base
                           /\ l.got # None => m.got = l.got
    /\ m.state = "none" => m \in {l, NoLease}

LEMMA NarrowsCases ==
    ASSUME NEW l \in LeaseRow
    PROVE  /\ Narrows(l, l)
           /\ Narrows(l, NoLease)
           /\ l.state # "none" => Narrows(l, Consumed(l))
           /\ l.state # "none" /\ l.got = None =>
                 \A e \in ETags : Narrows(l, [l EXCEPT !.got = e])
<1>1. Narrows(l, l) /\ Narrows(l, NoLease)
  BY DEF Narrows, NoLease
<1>2. l.state # "none" => Narrows(l, Consumed(l))
  BY DEF Narrows, Consumed, LeaseRow
<1>3. ASSUME NEW e \in ETags, l.state # "none", l.got = None
      PROVE  Narrows(l, [l EXCEPT !.got = e])
  BY <1>3 DEF Narrows, LeaseRow
<1> QED
  BY <1>1, <1>2, <1>3

LEMMA CleanNarrows ==
    ASSUME TypeOK, lease' = CleanLeases
    PROVE  \A r \in Requests : Narrows(lease[r], lease'[r])
BY NarrowsCases DEF TypeOK, CleanLeases

\* A row that occupies a slot, or that any statement consumes, exists.
RowsExist == \A r \in Requests : lease[r].slot => lease[r].state # "none"

\* Some rows are consumed, the others stay as they are.
Consuming ==
    \A r \in Requests :
        \/ lease'[r] = lease[r]
        \/ lease[r].state # "none" /\ lease'[r] = Consumed(lease[r])

\* What a step does to the lease table: one of four things.
LEMMA LeaseCases ==
    ASSUME TypeOK, RowsExist, [Next]_vars
    PROVE  /\ access' = access
           /\ \/ \E h \in Handlers : GrantBatch(h) \/ Deliver(h)
              \/ EnsureSchema
              \/ Consuming
<1> DEFINE Goal ==
        /\ access' = access
        /\ (\E h \in Handlers : GrantBatch(h) \/ Deliver(h)) \/ EnsureSchema \/ Consuming
<1> USE DEF dbVars, histVars
<1>0. \A r \in Requests : lease[r] \in LeaseRow
  BY DEF TypeOK
<1>a. UNCHANGED <<access, lease>> => Goal
  BY DEF Consuming
<1>c. ASSUME NEW h \in Handlers, NEW local, Begin(h, local), access' = access PROVE Goal
  BY <1>c DEF Begin
<1>d. ASSUME NEW h \in Handlers, NEW r \in Requests, NEW pc, StartWith(h, r, pc) PROVE Goal
  BY <1>c, <1>d DEF StartWith
<1>1. CASE Tick
  BY <1>1, <1>a DEF Tick
<1>2. CASE OtherCall
  BY <1>2 DEF OtherCall
<1>3. ASSUME NEW r \in Requests, Decide(r) PROVE Goal
  BY <1>3 DEF Decide, EnsureSchema
<1>4. ASSUME NEW h \in Handlers, StartResolve(h) PROVE Goal
  BY <1>4, <1>c DEF StartResolve
<1>5. ASSUME NEW h \in Handlers, Reconciling(h) PROVE Goal
  BY <1>5, <1>a DEF Reconciling, HeadUnchanged, HeadChanged, Heal
<1>6. ASSUME NEW h \in Handlers, Granting(h) PROVE Goal
  <2>1. ASSUME NEW r \in Requests, StartCreateGrant(h, r) PROVE Goal
    BY <2>1, <1>c DEF StartCreateGrant
  <2>2. ASSUME NEW r \in Requests, StartGrant(h, r) PROVE Goal
    BY <2>2, <1>c DEF StartGrant
  <2>3. CASE FreeSlots(h)
    BY <2>3, <1>0 DEF FreeSlots, RowsExist, Consuming
  <2>4. CASE GrantBatch(h)
    BY <2>4 DEF GrantBatch
  <2>5. CASE GrantRejected(h)
    BY <2>5, <1>a DEF GrantRejected
  <2> QED
    BY <1>6, <2>1, <2>2, <2>3, <2>4, <2>5 DEF Granting
<1>7. ASSUME NEW h \in Handlers, Restoring(h) PROVE Goal
  <2>1. ASSUME NEW r \in Requests, StartGet(h, r) PROVE Goal
    BY <2>1, <1>d DEF StartGet
  <2>2. CASE Fetch(h)
    BY <2>2, <1>a DEF Fetch
  <2>3. CASE Deliver(h)
    BY <2>3 DEF Deliver
  <2> QED
    BY <1>7, <2>1, <2>2, <2>3 DEF Restoring
<1>8. ASSUME NEW h \in Handlers, Committing(h) PROVE Goal
  <2>1. ASSUME NEW r \in Requests, StartPut(h, r) PROVE Goal
    BY <2>1, <1>d DEF StartPut
  <2>2. CASE Claim(h)
    BY <2>2 DEF Claim, Claimable, IsActive, Consuming, TypeOK
  <2>3. CASE Put(h)
    BY <2>3, <1>a DEF Put
  <2>4. CASE Finish(h)
    BY <2>4, <1>a DEF Finish
  <2>5. CASE Undo(h)
    BY <2>5, <1>a DEF Undo
  <2> QED
    BY <1>8, <2>1, <2>2, <2>3, <2>4, <2>5 DEF Committing
<1>9. ASSUME NEW h \in Handlers, Aborting(h) PROVE Goal
  <2>1. ASSUME NEW r \in Requests, StartAbort(h, r) PROVE Goal
    BY <2>1, <1>c DEF StartAbort
  <2>2. CASE AbortBatch(h)
    BY <2>2 DEF AbortBatch, Consuming, TypeOK
  <2> QED
    BY <1>9, <2>1, <2>2 DEF Aborting
<1>10. ASSUME NEW h \in Handlers, Revoking(h) PROVE Goal
  <2>1. ASSUME NEW s \in SessionIds, StartRevoke(h, s) PROVE Goal
    BY <2>1, <1>c DEF StartRevoke
  <2>2. CASE Erase(h)
    BY <2>2, <1>a DEF Erase
  <2>3. CASE RevokeBatch(h)
    BY <2>3 DEF RevokeBatch, RevokedLeases, Consuming
  <2> QED
    BY <1>10, <2>1, <2>2, <2>3 DEF Revoking
<1>11. ASSUME NEW h \in Handlers, Crash(h) PROVE Goal
  BY <1>11, <1>a DEF Crash
<1>12. CASE UNCHANGED vars
  BY <1>12, <1>a DEF vars
<1> QED
  BY <1>1, <1>2, <1>3, <1>4, <1>5, <1>6, <1>7, <1>8, <1>9, <1>10, <1>11, <1>12
  DEF Next

\* The delivery marks the row its handler read, if that is still active.
LEMMA DeliverMarks ==
    ASSUME TypeOK, NEW h \in Handlers, Deliver(h), NEW r \in Requests
    PROVE  \/ lease'[r] = lease[r]
           \/ /\ r = hnd[h].req
              /\ OwnRow(h) /\ IsActive(lease[r]) /\ lease[r].got = None
              /\ lease'[r] = [lease[r] EXCEPT !.got = hnd[h].etag]
BY DEF Deliver, TypeOK

\* Only the grant batch writes a lease row anew; every other step narrows.
LEMMA LeaseStep ==
    ASSUME TypeOK, RowsExist, [Next]_vars
    PROVE  /\ access' = access
           /\ \/ \E h \in Handlers : GrantBatch(h)
              \/ \A r \in Requests : Narrows(lease[r], lease'[r])
<1>1. \A r \in Requests : lease[r] \in LeaseRow
  BY DEF TypeOK
<1>2. ASSUME NEW h \in Handlers, Deliver(h), NEW r \in Requests
      PROVE  Narrows(lease[r], lease'[r])
  <2>1. hnd[h].etag \in ETags
    BY DEF TypeOK, HandlerState
  <2>2. CASE lease'[r] = lease[r]
    BY <1>1, <2>2, NarrowsCases
  <2>3. CASE /\ lease[r].state # "none" /\ lease[r].got = None
             /\ lease'[r] = [lease[r] EXCEPT !.got = hnd[h].etag]
    BY <1>1, <2>1, <2>3, NarrowsCases
  <2> QED
    BY <1>2, <2>2, <2>3, DeliverMarks DEF IsActive
<1>3. ASSUME Consuming, NEW r \in Requests PROVE Narrows(lease[r], lease'[r])
  BY <1>1, <1>3, NarrowsCases DEF Consuming
<1> QED
  BY <1>2, <1>3, LeaseCases, CleanNarrows DEF EnsureSchema

LEMMA SlotInit == Init => SlotInv /\ RowsExist
BY DEF Init, SlotInv, SlotHeld, SlotUnique, RowsExist, NoLease

LEMMA SlotStep ==
    ASSUME TypeOK, SlotInv, RowsExist, [Next]_vars
    PROVE  SlotInv' /\ RowsExist'
<1>1. CASE \A r \in Requests : Narrows(lease[r], lease'[r])
  <2>1. access' = access
    BY LeaseStep
  <2>2. SlotHeld'
    BY <1>1, <2>1 DEF Narrows, SlotInv, SlotHeld
  <2>3. SlotUnique'
    BY <1>1, ZenonT(60) DEF Narrows, SlotInv, SlotUnique
  <2>4. RowsExist'
    <3> SUFFICES ASSUME NEW r \in Requests, lease'[r].slot
                 PROVE  lease'[r].state # "none"
      BY DEF RowsExist
    <3> QED
      BY <1>1 DEF Narrows, RowsExist
  <2> QED
    BY <2>2, <2>3, <2>4 DEF SlotInv
<1>2. ASSUME NEW h \in Handlers, GrantBatch(h) PROVE SlotInv' /\ RowsExist'
  <2> DEFINE r == hnd[h].req
             s == hnd[h].sid
  <2>1. r \in Requests /\ access' = access /\ access \in [Requests -> AccessModes]
    BY <1>2 DEF GrantBatch, TypeOK, Placed
  <2>2. lease' = [lease EXCEPT ![r] =
                    [state |-> "open", sid |-> s, base |-> hnd[h].etag,
                     expires |-> hnd[h].exp, got |-> None,
                     slot |-> access[r] # "restore"]]
    BY <1>2 DEF GrantBatch
  <2>3. /\ lease'[r].slot = (access[r] # "restore")
        /\ lease'[r].sid = s
        /\ lease'[r].state = "open"
        /\ \A q \in Requests \ {r} : lease'[q] = lease[q]
    BY <2>1, <2>2 DEF TypeOK
  <2>4. access[r] # "restore" =>
            \A q \in Requests : ~(lease[q].sid = s /\ lease[q].slot)
    BY <1>2 DEF GrantBatch, Constraints, SlotFree
  <2>5. SlotHeld'
    BY <2>1, <2>3 DEF SlotInv, SlotHeld, WriteModes
  <2>6. SlotUnique'
    <3> HIDE DEF r, s
    <3>1. \A r1, r2 \in Requests \ {r} :
             /\ lease'[r1].slot
             /\ lease'[r2].slot
             /\ lease'[r1].sid = lease'[r2].sid
             => r1 = r2
      BY <2>3 DEF SlotInv, SlotUnique
    <3>2. lease'[r].slot => \A q \in Requests \ {r} :
             ~(lease'[q].slot /\ lease'[q].sid = s)
      BY <2>3, <2>4
    <3> QED
      BY <2>1, <2>3, <3>1, <3>2 DEF SlotUnique
  <2>7. RowsExist'
    BY <2>1, <2>3 DEF RowsExist
  <2> QED
    BY <2>5, <2>6, <2>7 DEF SlotInv
<1> QED
  BY <1>1, <1>2, LeaseStep

LEMMA SlotInvImplies == SlotInv => SingleWriter
BY DEF SlotInv, SlotHeld, SlotUnique, SingleWriter, Writes, IsActive

\* However many grants, claims, aborts and revocations interleave, and
\* whatever handlers die on the way, a session never has two lease holders
\* that may both commit.
THEOREM VaultSingleWriter == Spec => []SingleWriter
<1>1. Init => TypeOK /\ SlotInv /\ RowsExist
  BY TypeInit, SlotInit
<1>2. TypeOK /\ SlotInv /\ RowsExist /\ [Next]_vars => (TypeOK /\ SlotInv /\ RowsExist)'
  BY TypeStep, SlotStep
<1> QED
  BY <1>1, <1>2, SlotInvImplies, PTL DEF Spec

-----------------------------------------------------------------------------
(***************************************************************************)
(* Clean-up is never blocked.                                              *)
(*                                                                         *)
(* The second DELETE of ensureSchema would fail if a session still in      *)
(* "creating" were old enough to be dropped while a consumed lease row of  *)
(* it had not expired.  The argument: the only lease of such a session is  *)
(* the one its creation was granted with, whose expiry lies at most        *)
(* LeaseTtl after the row's updated_at; so once the row is older than      *)
(* StaleAfter that lease has expired, and the first DELETE took it.  That  *)
(* no other grant reaches a session in "creating" needs the rest of the    *)
(* invariant: the PWA only learns of sessions that left that state, a      *)
(* session never returns to it, and a creation's id is known to nobody     *)
(* before its batch.                                                       *)
(***************************************************************************)
\* The handler is on its way to the grant batch of a creation.
Creating(l) == l.pc \in {"slot", "batch"} /\ access[l.req] = "create"

\* The handler takes its session to have left "creating".
Returning(l) ==
    \/ l.pc = "head" /\ ~l.creating
    \/ l.pc \in {"head", "heal"} /\ l.req # None
    \/ l.pc \in {"slot", "batch"} /\ access[l.req] # "create"

UsedInv ==
    /\ \A s \in SessionIds : sess[s].state # "absent" => s \in used
    /\ resolved \subseteq used
    /\ \A h \in Handlers : hnd[h].pc # "idle" => hnd[h].sid \in used
    /\ \A r \in Requests : lease[r].state # "none" => lease[r].sid \in used

Unknown(h) ==
    LET s == hnd[h].sid
    IN  /\ sess[s].state = "absent"
        /\ s \notin resolved
        /\ \A g \in Handlers \ {h} : hnd[g].pc # "idle" => hnd[g].sid # s
        /\ \A r \in Requests : lease[r].state # "none" => lease[r].sid # s

FreshInv ==
    \A h \in Handlers :
        Creating(hnd[h]) => Unknown(h) /\ hnd[h].exp <= hnd[h].at + LeaseTtl

LeftInv ==
    /\ \A s \in resolved : sess[s].state # "creating"
    /\ \A h \in Handlers :
          /\ Returning(hnd[h]) => sess[hnd[h].sid].state # "creating"
          /\ hnd[h].pc \in {"head", "heal"} /\ hnd[h].req # None =>
                access[hnd[h].req] # "create"

ExpiryInv ==
    \A r \in Requests :
        lease[r].state # "none" /\ sess[lease[r].sid].state = "creating" =>
            lease[r].expires <= sess[lease[r].sid].updated + LeaseTtl

CreationInv == UsedInv /\ FreshInv /\ LeftInv /\ ExpiryInv

\* The id is known to a handler's local state, a row or the PWA.
Known(h, s) ==
    \/ hnd[h].pc # "idle" /\ hnd[h].sid = s
    \/ s \in resolved
    \/ sess[s].state # "absent"
    \/ \E r \in Requests : lease[r].state # "none" /\ lease[r].sid = s

\* m is what can become of the session row l outside the grant batch.
Settles(l, m) ==
    /\ m.state = "creating" => m = l
    /\ l.state = "absent" => m.state = "absent"

\* h goes to the local state l without breaking the invariant.
Fits(h, l) ==
    \/ l.pc = "idle"
    \/ /\ Known(h, l.sid)
       /\ Creating(l) => /\ Creating(hnd[h])
                         /\ l.sid = hnd[h].sid
                         /\ l.at = hnd[h].at
                         /\ l.exp = hnd[h].exp
       /\ Returning(l) => sess'[l.sid].state # "creating"
       /\ l.pc \in {"head", "heal"} /\ l.req # None => access[l.req] # "create"

ResolvedFits(h) ==
    \/ resolved' = resolved
    \/ /\ resolved' = resolved \union {hnd[h].sid}
       /\ hnd[h].pc # "idle"
       /\ ~Creating(hnd[h])
       /\ sess'[hnd[h].sid].state # "creating"

\* What every step does that neither draws a new id nor runs a grant batch.
LEMMA CreationKept ==
    ASSUME TypeOK, CreationInv, TypeOK',
           NEW h \in Handlers, NEW l \in HandlerState,
           hnd' = [hnd EXCEPT ![h] = l], Fits(h, l), ResolvedFits(h),
           access' = access, used' = used,
           \A s \in SessionIds : Settles(sess[s], sess'[s]),
           \A r \in Requests : Narrows(lease[r], lease'[r])
    PROVE  CreationInv'
<1> USE DEF CreationInv
<1>0. /\ hnd'[h] = l
      /\ \A g \in Handlers \ {h} : hnd'[g] = hnd[g]
      /\ \A g \in Handlers : hnd'[g].pc # "idle" => hnd'[g].sid \in SessionIds
      /\ \A g \in Handlers : hnd[g].pc # "idle" => hnd[g].sid \in SessionIds
      /\ resolved \subseteq SessionIds
  BY DEF TypeOK, Placed
<1>1. \A r \in Requests :
         lease'[r].state # "none" => /\ lease[r].state # "none"
                                     /\ lease'[r].sid = lease[r].sid
                                     /\ lease'[r].expires = lease[r].expires
  BY DEF Narrows
<1>2. \A s \in SessionIds : /\ sess'[s].state = "creating" => sess'[s] = sess[s]
                            /\ sess[s].state = "absent" => sess'[s].state = "absent"
  BY DEF Settles
<1>3. UsedInv'
  <2>1. \A s \in SessionIds : Known(h, s) => s \in used
    BY DEF Known, UsedInv
  <2>2. \A s \in SessionIds : sess'[s].state # "absent" => s \in used'
    BY <1>2 DEF UsedInv
  <2>3. resolved' \subseteq used'
    BY <2>1 DEF ResolvedFits, UsedInv
  <2>4. \A g \in Handlers : hnd'[g].pc # "idle" => hnd'[g].sid \in used'
    BY <1>0, <2>1 DEF Fits, UsedInv
  <2>5. \A r \in Requests : lease'[r].state # "none" => lease'[r].sid \in used'
    BY <1>1 DEF UsedInv
  <2> QED
    BY <2>2, <2>3, <2>4, <2>5 DEF UsedInv
<1>4. FreshInv'
  <2> SUFFICES ASSUME NEW g \in Handlers, Creating(hnd[g])'
               PROVE  Unknown(g)' /\ hnd'[g].exp <= hnd'[g].at + LeaseTtl
    BY DEF FreshInv
  <2> DEFINE s == hnd'[g].sid
  <2>1. /\ Creating(hnd[g])
        /\ s = hnd[g].sid
        /\ hnd'[g].at = hnd[g].at
        /\ hnd'[g].exp = hnd[g].exp
    BY <1>0 DEF Fits, Creating
  <2>2. Unknown(g) /\ hnd[g].exp <= hnd[g].at + LeaseTtl
    BY <2>1 DEF FreshInv
  <2>3. s \in SessionIds
    BY <1>0, <2>1 DEF Creating
  <2>4. sess'[s].state = "absent"
    BY <1>2, <2>1, <2>2, <2>3 DEF Unknown
  <2>5. g # h => ~Known(h, s)
    BY <2>1, <2>2 DEF Unknown, Known
  <2>6. s \notin resolved'
    <3>1. s \notin resolved
      BY <2>1, <2>2 DEF Unknown
    <3>2. CASE g = h
      BY <3>1, <3>2, <2>1 DEF ResolvedFits
    <3>3. CASE g # h
      BY <3>1, <3>3, <2>5 DEF ResolvedFits, Known
    <3> QED
      BY <3>2, <3>3
  <2>7. \A k \in Handlers \ {g} : hnd'[k].pc # "idle" => hnd'[k].sid # s
    <3> SUFFICES ASSUME NEW k \in Handlers \ {g}, hnd'[k].pc # "idle", hnd'[k].sid = s
                 PROVE  FALSE
      OBVIOUS
    <3>1. CASE k = h
      BY <3>1, <1>0, <2>5 DEF Fits
    <3>2. CASE k # h
      BY <3>2, <1>0, <2>1, <2>2 DEF Unknown
    <3> QED
      BY <3>1, <3>2
  <2>8. \A r \in Requests : lease'[r].state # "none" => lease'[r].sid # s
    BY <1>1, <2>1, <2>2 DEF Unknown
  <2> QED
    BY <2>1, <2>2, <2>4, <2>6, <2>7, <2>8 DEF Unknown
<1>5. LeftInv'
  <2>1. \A s \in resolved' : sess'[s].state # "creating"
    <3> SUFFICES ASSUME NEW s \in resolved' PROVE sess'[s].state # "creating"
      OBVIOUS
    <3>1. CASE s \in resolved
      BY <3>1, <1>0, <1>2 DEF LeftInv
    <3>2. CASE s \notin resolved
      BY <3>2 DEF ResolvedFits
    <3> QED
      BY <3>1, <3>2
  <2>2. ASSUME NEW g \in Handlers
        PROVE  /\ Returning(hnd[g])' => sess'[hnd'[g].sid].state # "creating"
               /\ hnd'[g].pc \in {"head", "heal"} /\ hnd'[g].req # None =>
                     access'[hnd'[g].req] # "create"
    <3>1. CASE g = h
      BY <3>1, <1>0 DEF Fits, Returning
    <3>2. CASE g # h
      <4>1. hnd'[g] = hnd[g]
        BY <3>2, <1>0
      <4>2. Returning(hnd[g])' => Returning(hnd[g]) /\ hnd[g].sid \in SessionIds
        BY <4>1, <1>0 DEF Returning
      <4> QED
        BY <4>1, <4>2, <1>2 DEF LeftInv
    <3> QED
      BY <3>1, <3>2
  <2> QED
    BY <2>1, <2>2 DEF LeftInv
<1>6. ExpiryInv'
  <2> SUFFICES ASSUME NEW r \in Requests, lease'[r].state # "none",
                      sess'[lease'[r].sid].state = "creating"
               PROVE  lease'[r].expires <= sess'[lease'[r].sid].updated + LeaseTtl
    BY DEF ExpiryInv
  <2>1. lease'[r].sid \in SessionIds
    BY <1>3 DEF UsedInv, TypeOK
  <2> QED
    BY <1>1, <1>2, <2>1 DEF ExpiryInv
<1> QED
  BY <1>3, <1>4, <1>5, <1>6

LEMMA CleanSettles ==
    ASSUME TypeOK, sess' = CleanSessions
    PROVE  \A s \in SessionIds : Settles(sess[s], sess'[s])
BY DEF TypeOK, CleanSessions, Settles, NoSession

\* A session a call finds after the clean-up was there before it, unchanged.
LEMMA FoundBefore ==
    ASSUME TypeOK, NEW s \in SessionIds, CleanSessions[s].state # "absent"
    PROVE  CleanSessions[s] = sess[s]
BY DEF TypeOK, CleanSessions, NoSession

LEMMA Unmoved ==
    ASSUME TypeOK
    PROVE  /\ sess' = sess => \A s \in SessionIds : Settles(sess[s], sess'[s])
           /\ lease' = lease => \A r \in Requests : Narrows(lease[r], lease'[r])
BY NarrowsCases DEF TypeOK, Settles

\* The same when no handler moves.
LEMMA CreationKeptIdle ==
    ASSUME TypeOK, CreationInv, TypeOK',
           UNCHANGED <<hnd, resolved, access, used>>,
           \A s \in SessionIds : Settles(sess[s], sess'[s]),
           \A r \in Requests : Narrows(lease[r], lease'[r])
    PROVE  CreationInv'
<1>1. ASSUME NEW h \in Handlers PROVE CreationInv'
  <2> DEFINE l == hnd[h]
  <2>1. l \in HandlerState /\ hnd' = [hnd EXCEPT ![h] = l]
    BY DEF TypeOK
  <2>2. l.pc # "idle" => l.sid \in SessionIds
    BY DEF TypeOK, Placed
  <2>3. Fits(h, l)
    BY <2>2 DEF Fits, Known, CreationInv, LeftInv, Settles
  <2> QED
    BY <2>1, <2>3, CreationKept DEF ResolvedFits
<1>2. CASE Handlers = {}
  <2>1. UsedInv'
    BY <1>2 DEF CreationInv, UsedInv, Settles, Narrows
  <2>2. FreshInv' /\ LeftInv'
    BY <1>2 DEF CreationInv, FreshInv, LeftInv, Settles, TypeOK
  <2>3. ASSUME NEW r \in Requests, lease'[r].state # "none",
               sess'[lease'[r].sid].state = "creating"
        PROVE  lease'[r].expires <= sess'[lease'[r].sid].updated + LeaseTtl
    <3>1. lease'[r].sid \in SessionIds
      BY <2>1, <2>3 DEF UsedInv, TypeOK
    <3> QED
      BY <2>3, <3>1 DEF CreationInv, ExpiryInv, Settles, Narrows
  <2> QED
    BY <2>1, <2>2, <2>3 DEF CreationInv, ExpiryInv
<1> QED
  BY <1>1, <1>2

\* A handler that starts on a session it knows, at a point where neither
\* Creating nor Returning says anything of it, or at "head" (see the uses).
LEMMA CreationBegin ==
    ASSUME TypeOK, CreationInv, TypeOK', NEW h \in Handlers,
           NEW l \in HandlerState, Begin(h, l), Known(h, l.sid),
           l.sid \in SessionIds, ~Creating(l),
           Returning(l) => sess[l.sid].state # "creating",
           l.pc \in {"head", "heal"} /\ l.req # None => access[l.req] # "create",
           UNCHANGED <<resolved, access, used>>
    PROVE  CreationInv'
<1>1. /\ \A s \in SessionIds : Settles(sess[s], sess'[s])
      /\ \A r \in Requests : Narrows(lease[r], lease'[r])
  BY CleanSettles, CleanNarrows DEF Begin, EnsureSchema
<1>2. Fits(h, l)
  BY <1>1 DEF Fits, Settles
<1> QED
  BY <1>1, <1>2, CreationKept DEF Begin, ResolvedFits

LEMMA CreationStart ==
    ASSUME TypeOK, CreationInv, TypeOK', NEW h \in Handlers, NEW r \in Requests,
           NEW pc \in {"fetch", "claim"}, StartWith(h, r, pc)
    PROVE  CreationInv'
<1> DEFINE s == CleanLeases[r].sid
           l == [Idle EXCEPT !.pc = pc, !.req = r, !.sid = s,
                             !.etag = CleanLeases[r].base]
<1>1. s \in SessionIds /\ CleanLeases[r].base \in ETags
  BY CleanTypes DEF StartWith, HasLease, TypeOK, LeaseRow
<1>2. l \in HandlerState
  BY <1>1, NullRows DEF HandlerState
<1>3. Known(h, s)
  BY <1>1, FoundBefore DEF StartWith, Known
<1>4. l.pc = pc /\ l.sid = s /\ Begin(h, l)
  BY DEF StartWith, Idle
<1> HIDE DEF l
<1>5. ~Creating(l) /\ ~Returning(l) /\ l.pc \notin {"head", "heal"}
  BY <1>4 DEF Creating, Returning
<1> QED
  BY <1>1, <1>2, <1>3, <1>4, <1>5, CreationBegin DEF StartWith

\* A handler that goes on, or stops, past the point of the grant batch.
LEMMA CreationGoto ==
    ASSUME TypeOK, CreationInv, TypeOK', NEW h \in Handlers,
           \/ Reply(h)
           \/ \E pc \in {"deliver", "put", "finish", "undo", "revoke"},
                 e \in ETags :
                   hnd' = [hnd EXCEPT ![h] = [@ EXCEPT !.pc = pc, !.etag = e]]
           \/ \E pc \in {"put", "finish", "undo", "revoke"} : Goto(h, pc),
           Reply(h) \/ hnd[h].pc # "idle",
           UNCHANGED <<resolved, access, used>>,
           \A s \in SessionIds : Settles(sess[s], sess'[s]),
           \A r \in Requests : Narrows(lease[r], lease'[r])
    PROVE  CreationInv'
<1>1. CASE Reply(h)
  BY <1>1, NullRows, CreationKept DEF Reply, Fits, ResolvedFits, Idle
<1>2. ASSUME NEW pc \in {"deliver", "put", "finish", "undo", "revoke"},
             NEW l \in HandlerState, l.pc = pc, l.sid = hnd[h].sid,
             hnd' = [hnd EXCEPT ![h] = l], hnd[h].pc # "idle"
      PROVE  CreationInv'
  <2>1. Fits(h, l)
    BY <1>2 DEF Fits, Known, Creating, Returning
  <2> QED
    BY <1>2, <2>1, CreationKept DEF ResolvedFits
<1>3. hnd[h] \in HandlerState
  BY DEF TypeOK
<1>4. ASSUME NEW pc \in {"deliver", "put", "finish", "undo", "revoke"}, NEW e \in ETags,
             hnd' = [hnd EXCEPT ![h] = [@ EXCEPT !.pc = pc, !.etag = e]],
             hnd[h].pc # "idle"
      PROVE  CreationInv'
  <2> DEFINE l == [hnd[h] EXCEPT !.pc = pc, !.etag = e]
  <2>1. l \in HandlerState /\ l.pc = pc /\ l.sid = hnd[h].sid
    BY <1>3 DEF HandlerState
  <2>2. hnd' = [hnd EXCEPT ![h] = l]
    BY <1>4
  <2> HIDE DEF l
  <2> QED
    BY <1>2, <1>4, <2>1, <2>2
<1>5. ASSUME NEW pc \in {"put", "finish", "undo", "revoke"}, Goto(h, pc),
             hnd[h].pc # "idle"
      PROVE  CreationInv'
  <2> DEFINE l == [hnd[h] EXCEPT !.pc = pc]
  <2>1. l \in HandlerState /\ l.pc = pc /\ l.sid = hnd[h].sid
    BY <1>3 DEF HandlerState
  <2>2. hnd' = [hnd EXCEPT ![h] = l]
    BY <1>5 DEF Goto
  <2> HIDE DEF l
  <2> QED
    BY <1>2, <1>5, <2>1, <2>2
<1> QED
  BY <1>1, <1>4, <1>5

LEMMA CreationAfterReconcile ==
    ASSUME TypeOK, CreationInv, TypeOK', NEW h \in Handlers,
           NEW e \in ETags, NEW c \in BOOLEAN, AfterReconcile(h, e, c),
           hnd[h].pc \in {"head", "heal"},
           hnd[h].req # None \/ ~c => sess'[hnd[h].sid].state # "creating",
           UNCHANGED <<access, used>>,
           \A s \in SessionIds : Settles(sess[s], sess'[s]),
           \A r \in Requests : Narrows(lease[r], lease'[r])
    PROVE  CreationInv'
<1> DEFINE r == hnd[h].req
           s == hnd[h].sid
           next == IF access[r] = "restore" THEN "batch" ELSE "slot"
           l == [hnd[h] EXCEPT !.pc = next, !.etag = e, !.creating = FALSE]
<1>0. hnd[h] \in HandlerState /\ ~Creating(hnd[h])
  BY DEF TypeOK, Creating
<1>1. CASE r = None
  <2>1. ResolvedFits(h) /\ Reply(h)
    BY <1>0, <1>1 DEF AfterReconcile, ResolvedFits
  <2> QED
    BY <2>1, NullRows, CreationKept DEF Reply, Fits, Idle
<1>2. CASE r # None
  <2>1. UNCHANGED resolved
    BY <1>2 DEF AfterReconcile
  <2>2. CASE Reply(h)
    BY <2>1, <2>2, NullRows, CreationKept DEF Reply, Fits, ResolvedFits, Idle
  <2>3. CASE hnd' = [hnd EXCEPT ![h] = l]
    <3>1. /\ l \in HandlerState
          /\ l.pc \in {"slot", "batch"}
          /\ l.req = r
          /\ l.sid = s
      BY <1>0 DEF HandlerState
    <3>2. access[r] # "create"
      BY <1>2 DEF CreationInv, LeftInv
    <3> HIDE DEF l
    <3>3. Fits(h, l)
      BY <1>2, <3>1, <3>2 DEF Fits, Known, Creating, Returning
    <3> QED
      BY <2>1, <2>3, <3>1, <3>3, CreationKept DEF ResolvedFits
  <2> QED
    BY <1>2, <2>2, <2>3 DEF AfterReconcile
<1> QED
  BY <1>1, <1>2

LEMMA CreationReconcile ==
    ASSUME TypeOK, CreationInv, TypeOK', NEW h \in Handlers,
           StartResolve(h) \/ Reconciling(h)
    PROVE  CreationInv'
<1> USE DEF dbVars
<1>0. /\ hnd[h] \in HandlerState
      /\ hnd[h].pc # "idle" => hnd[h].sid \in SessionIds
  BY DEF TypeOK, Placed
<1>1. CASE StartResolve(h)
  <2>1. PICK s \in SessionIds :
          /\ CleanSessions[s].state # "absent"
          /\ Begin(h, [Idle EXCEPT !.pc = "head", !.sid = s,
                                   !.etag = CleanSessions[s].etag,
                                   !.creating = CleanSessions[s].state = "creating"])
    BY <1>1 DEF StartResolve
  <2> DEFINE l == [Idle EXCEPT !.pc = "head", !.sid = s,
                               !.etag = CleanSessions[s].etag,
                               !.creating = CleanSessions[s].state = "creating"]
  <2>2. CleanSessions[s] = sess[s] /\ sess[s] \in SessionRow
    BY <2>1, FoundBefore DEF TypeOK
  <2>3. l \in HandlerState
    BY <2>2, NullRows DEF HandlerState, SessionRow
  <2>4. /\ Begin(h, l)
        /\ l.pc = "head" /\ l.sid = s /\ l.req = None
        /\ l.creating = (sess[s].state = "creating")
    BY <2>1, <2>2 DEF Idle
  <2> HIDE DEF l
  <2>5. Known(h, l.sid) /\ ~Creating(l)
    BY <2>1, <2>2, <2>4 DEF Known, Creating
  <2>6. Returning(l) => sess[l.sid].state # "creating"
    BY <2>4 DEF Returning
  <2> QED
    BY <1>1, <2>3, <2>4, <2>5, <2>6, CreationBegin DEF StartResolve
<1>2. CASE HeadUnchanged(h)
  <2>1. hnd[h].etag \in ETags /\ hnd[h].creating \in BOOLEAN
    BY <1>0 DEF HandlerState
  <2>2. hnd[h].req # None \/ ~hnd[h].creating => sess'[hnd[h].sid].state # "creating"
    BY <1>2 DEF HeadUnchanged, CreationInv, LeftInv, Returning
  <2> QED
    BY <1>2, <2>1, <2>2, Unmoved, CreationAfterReconcile DEF HeadUnchanged
<1>3. CASE HeadChanged(h)
  <2> DEFINE l == [hnd[h] EXCEPT !.pc = "heal", !.etag = artifact[hnd[h].sid]]
  <2>1. artifact[hnd[h].sid] \in ETags
    BY <1>0, <1>3 DEF HeadChanged, TypeOK
  <2>2. /\ l \in HandlerState
        /\ l.pc = "heal" /\ l.sid = hnd[h].sid /\ l.req = hnd[h].req
    BY <1>0, <2>1 DEF HandlerState
  <2>3. hnd' = [hnd EXCEPT ![h] = l]
    BY <1>3 DEF HeadChanged
  <2> HIDE DEF l
  <2>4. Fits(h, l)
    BY <1>3, <2>2 DEF HeadChanged, Fits, Known, Creating, Returning, CreationInv, LeftInv
  <2> QED
    BY <1>3, <2>2, <2>3, <2>4, Unmoved, CreationKept DEF HeadChanged, ResolvedFits
<1>4. CASE Heal(h)
  <2>1. hnd[h].etag \in ETags /\ hnd[h].sid \in SessionIds
    BY <1>0, <1>4 DEF Heal, HandlerState
  <2>2. \A s \in SessionIds : Settles(sess[s], sess'[s])
    BY <1>4 DEF Heal, Settles, TypeOK
  <2>3. sess'[hnd[h].sid].state # "creating"
    BY <1>4, <2>1 DEF Heal, TypeOK
  <2> QED
    BY <1>4, <2>1, <2>2, <2>3, Unmoved, CreationAfterReconcile DEF Heal
<1> QED
  BY <1>1, <1>2, <1>3, <1>4 DEF Reconciling

\* A creation's id is drawn: nobody knows it.
LEMMA CreationDrawn ==
    ASSUME TypeOK, CreationInv, TypeOK', NEW h \in Handlers, NEW r \in Requests,
           StartCreateGrant(h, r)
    PROVE  CreationInv'
<1> USE DEF CreationInv
<1>1. PICK s \in SessionIds \ used, e \in now + 1 .. now + LeaseTtl :
        /\ used' = used \union {s}
        /\ Begin(h, [Idle EXCEPT !.pc = "slot", !.req = r, !.sid = s,
                                 !.at = now, !.exp = e])
  BY DEF StartCreateGrant, Offered
<1> DEFINE l == [Idle EXCEPT !.pc = "slot", !.req = r, !.sid = s,
                             !.at = now, !.exp = e]
<1>2. /\ l.pc = "slot" /\ l.req = r /\ l.sid = s
      /\ l.exp <= l.at + LeaseTtl
      /\ l.creating = FALSE
  BY TimeAssumption DEF Idle, TypeOK
<1>3. hnd' = [hnd EXCEPT ![h] = l] /\ hnd[h].pc = "idle"
  BY <1>1 DEF Begin
<1> HIDE DEF l
<1>4. /\ hnd'[h] = l
      /\ \A g \in Handlers \ {h} : hnd'[g] = hnd[g]
  BY <1>3 DEF TypeOK
<1>5. /\ access' = access /\ resolved' = resolved /\ access[r] = "create"
      /\ used \subseteq used' /\ s \in used' /\ s \notin used
      /\ \A q \in SessionIds : Settles(sess[q], sess'[q])
      /\ \A q \in Requests : Narrows(lease[q], lease'[q])
  BY <1>1, CleanSettles, CleanNarrows DEF StartCreateGrant, Begin, EnsureSchema
<1>6. /\ \A q \in SessionIds : /\ sess'[q].state = "creating" => sess'[q] = sess[q]
                               /\ sess[q].state = "absent" => sess'[q].state = "absent"
      /\ \A q \in Requests : lease'[q].state # "none" =>
              /\ lease[q].state # "none"
              /\ lease'[q].sid = lease[q].sid
              /\ lease'[q].expires = lease[q].expires
  BY <1>5 DEF Settles, Narrows
<1>7. /\ \A g \in Handlers : hnd[g].pc # "idle" => hnd[g].sid \in SessionIds
      /\ resolved \subseteq SessionIds
  BY DEF TypeOK, Placed
<1>8. UsedInv'
  BY <1>2, <1>4, <1>5, <1>6 DEF UsedInv
<1>9. FreshInv'
  <2> SUFFICES ASSUME NEW g \in Handlers, Creating(hnd[g])'
               PROVE  Unknown(g)' /\ hnd'[g].exp <= hnd'[g].at + LeaseTtl
    BY DEF FreshInv
  <2>1. CASE g = h
    <3>1. sess'[s].state = "absent"
      BY <1>1, <1>6 DEF UsedInv
    <3>2. s \notin resolved'
      BY <1>5 DEF UsedInv
    <3>3. \A k \in Handlers \ {h} : hnd'[k].pc # "idle" => hnd'[k].sid # s
      BY <1>4, <1>5 DEF UsedInv
    <3>4. \A q \in Requests : lease'[q].state # "none" => lease'[q].sid # s
      BY <1>5, <1>6 DEF UsedInv
    <3> QED
      BY <2>1, <1>2, <1>4, <3>1, <3>2, <3>3, <3>4 DEF Unknown
  <2>2. CASE g # h
    <3>1. hnd'[g] = hnd[g] /\ Creating(hnd[g])
      BY <2>2, <1>4, <1>5 DEF Creating
    <3>2. Unknown(g) /\ hnd[g].exp <= hnd[g].at + LeaseTtl
      BY <3>1 DEF FreshInv
    <3>3. hnd[g].sid \in SessionIds /\ hnd[g].sid \in used
      BY <3>1, <1>7 DEF Creating, UsedInv
    <3> QED
      BY <3>1, <3>2, <3>3, <1>2, <1>4, <1>5, <1>6 DEF Unknown
  <2> QED
    BY <2>1, <2>2
<1>10. LeftInv'
  <2>1. \A q \in resolved' : sess'[q].state # "creating"
    BY <1>5, <1>6, <1>7 DEF LeftInv
  <2>2. ASSUME NEW g \in Handlers
        PROVE  /\ Returning(hnd[g])' => sess'[hnd'[g].sid].state # "creating"
               /\ hnd'[g].pc \in {"head", "heal"} /\ hnd'[g].req # None =>
                     access'[hnd'[g].req] # "create"
    <3>1. CASE g = h
      BY <3>1, <1>2, <1>4, <1>5 DEF Returning
    <3>2. CASE g # h
      <4>1. hnd'[g] = hnd[g]
        BY <3>2, <1>4
      <4>2. Returning(hnd[g])' => Returning(hnd[g]) /\ hnd[g].sid \in SessionIds
        BY <4>1, <1>5, <1>7 DEF Returning
      <4> QED
        BY <4>1, <4>2, <1>5, <1>6 DEF LeftInv
    <3> QED
      BY <3>1, <3>2
  <2> QED
    BY <2>1, <2>2 DEF LeftInv
<1>11. ExpiryInv'
  <2> SUFFICES ASSUME NEW q \in Requests, lease'[q].state # "none",
                      sess'[lease'[q].sid].state = "creating"
               PROVE  lease'[q].expires <= sess'[lease'[q].sid].updated + LeaseTtl
    BY DEF ExpiryInv
  <2>1. lease[q].sid \in SessionIds
    BY <1>6 DEF UsedInv, TypeOK
  <2> QED
    BY <1>6, <2>1 DEF ExpiryInv
<1> QED
  BY <1>8, <1>9, <1>10, <1>11

\* The grant batch of a creation makes the only row that is "creating", and
\* its only lease; that of any other request meets a session past that state.
LEMMA CreationBatch ==
    ASSUME TypeOK, CreationInv, TypeOK', NEW h \in Handlers, GrantBatch(h)
    PROVE  CreationInv'
<1> USE DEF CreationInv
<1> DEFINE r == hnd[h].req
           s == hnd[h].sid
           new == [state |-> "open", sid |-> s, base |-> hnd[h].etag,
                   expires |-> hnd[h].exp, got |-> None,
                   slot |-> access[r] # "restore"]
<1>1. /\ r \in Requests /\ s \in SessionIds /\ s \in used
      /\ hnd[h].pc = "batch"
      /\ hnd[h] \in HandlerState
  BY DEF GrantBatch, TypeOK, Placed, UsedInv
<1>2. /\ access' = access /\ resolved' = resolved /\ used' = used
      /\ lease' = [lease EXCEPT ![r] = new]
      /\ hnd' = [hnd EXCEPT ![h] = Idle]
  BY DEF GrantBatch, Reply
<1>3. /\ lease'[r].sid = s /\ lease'[r].expires = hnd[h].exp
      /\ \A q \in Requests \ {r} : lease'[q] = lease[q]
      /\ hnd'[h].pc = "idle"
      /\ \A g \in Handlers \ {h} : hnd'[g] = hnd[g]
  BY <1>1, <1>2 DEF TypeOK, Idle
<1>4. /\ \A q \in SessionIds \ {s} : sess'[q] = sess[q]
      /\ access[r] = "create" =>
            sess'[s].state = "creating" /\ sess'[s].updated = hnd[h].at
      /\ access[r] # "create" => sess'[s] = sess[s] /\ sess[s].state # "absent"
  BY <1>1 DEF GrantBatch, Constraints, TypeOK
<1>5. /\ access[r] = "create" => Unknown(h) /\ hnd[h].exp <= hnd[h].at + LeaseTtl
      /\ access[r] # "create" => sess[s].state # "creating"
  BY <1>1 DEF FreshInv, LeftInv, Creating, Returning
<1>6. \A g \in Handlers \ {h} : hnd[g].pc # "idle" =>
          hnd[g].sid \in SessionIds /\ (access[r] = "create" => hnd[g].sid # s)
  BY <1>5 DEF Unknown, TypeOK, Placed
<1>7. UsedInv'
  <2>1. \A q \in SessionIds : sess'[q].state # "absent" => q \in used'
    BY <1>1, <1>2, <1>4 DEF UsedInv
  <2> QED
    BY <1>1, <1>2, <1>3, <2>1 DEF UsedInv
<1>8. FreshInv'
  <2> SUFFICES ASSUME NEW g \in Handlers, Creating(hnd[g])'
               PROVE  Unknown(g)' /\ hnd'[g].exp <= hnd'[g].at + LeaseTtl
    BY DEF FreshInv
  <2>1. g # h /\ hnd'[g] = hnd[g] /\ Creating(hnd[g])
    BY <1>2, <1>3 DEF Creating
  <2>2. Unknown(g) /\ hnd[g].exp <= hnd[g].at + LeaseTtl
    BY <2>1 DEF FreshInv
  <2>3. hnd[g].sid \in SessionIds /\ hnd[g].sid # s
    BY <1>1, <1>6, <2>1, <2>2 DEF Creating, Unknown
  <2> QED
    BY <1>2, <1>3, <1>4, <2>1, <2>2, <2>3 DEF Unknown
<1>9. LeftInv'
  <2>1. \A q \in resolved' : sess'[q].state # "creating"
    <3>1. resolved \subseteq SessionIds
      BY DEF TypeOK
    <3> QED
      BY <3>1, <1>2, <1>4, <1>5 DEF LeftInv, Unknown
  <2>2. ASSUME NEW g \in Handlers
        PROVE  /\ Returning(hnd[g])' => sess'[hnd'[g].sid].state # "creating"
               /\ hnd'[g].pc \in {"head", "heal"} /\ hnd'[g].req # None =>
                     access'[hnd'[g].req] # "create"
    <3>1. CASE g = h
      BY <3>1, <1>3 DEF Returning
    <3>2. CASE g # h
      <4>1. hnd'[g] = hnd[g]
        BY <3>2, <1>3
      <4>2. Returning(hnd[g])' => Returning(hnd[g]) /\ hnd[g].pc # "idle"
        BY <4>1, <1>2 DEF Returning
      <4> QED
        BY <3>2, <4>1, <4>2, <1>2, <1>4, <1>5, <1>6 DEF LeftInv
    <3> QED
      BY <3>1, <3>2
  <2> QED
    BY <2>1, <2>2 DEF LeftInv
<1>10. ExpiryInv'
  <2> SUFFICES ASSUME NEW q \in Requests, lease'[q].state # "none",
                      sess'[lease'[q].sid].state = "creating"
               PROVE  lease'[q].expires <= sess'[lease'[q].sid].updated + LeaseTtl
    BY DEF ExpiryInv
  <2>1. CASE q = r
    BY <2>1, <1>3, <1>4, <1>5
  <2>2. CASE q # r
    <3>1. lease'[q] = lease[q] /\ lease[q].sid \in SessionIds
      BY <2>2, <1>3 DEF UsedInv, TypeOK
    <3>2. lease[q].sid = s => access[r] # "create"
      BY <3>1, <1>5 DEF Unknown
    <3> QED
      BY <3>1, <3>2, <1>4 DEF ExpiryInv
  <2> QED
    BY <2>1, <2>2
<1> QED
  BY <1>7, <1>8, <1>9, <1>10

LEMMA CreationGrant ==
    ASSUME TypeOK, RowsExist, CreationInv, TypeOK', NEW h \in Handlers, Granting(h)
    PROVE  CreationInv'
<1> USE DEF dbVars
<1>0. \A r \in Requests : lease[r] \in LeaseRow
  BY DEF TypeOK
<1>1. ASSUME NEW r \in Requests, StartGrant(h, r) PROVE CreationInv'
  <2>1. PICK s \in resolved, e \in now + 1 .. now + LeaseTtl :
          /\ CleanSessions[s].state # "absent"
          /\ Begin(h, [Idle EXCEPT !.pc = "head", !.req = r, !.sid = s,
                                   !.etag = CleanSessions[s].etag,
                                   !.creating = CleanSessions[s].state = "creating",
                                   !.at = now, !.exp = e])
    BY <1>1 DEF StartGrant, Offered
  <2> DEFINE l == [Idle EXCEPT !.pc = "head", !.req = r, !.sid = s,
                               !.etag = CleanSessions[s].etag,
                               !.creating = CleanSessions[s].state = "creating",
                               !.at = now, !.exp = e]
  <2>2. e \in Nat /\ now \in Nat /\ s \in SessionIds
    BY TimeAssumption DEF TypeOK
  <2>3. CleanSessions[s].etag \in ETags
    BY <2>2, CleanTypes DEF SessionRow
  <2>4. l \in HandlerState
    BY <2>2, <2>3, NullRows DEF HandlerState
  <2>5. Begin(h, l) /\ l.pc = "head" /\ l.sid = s /\ l.req = r
    BY <2>1 DEF Idle
  <2> HIDE DEF l
  <2>6. sess[s].state # "creating"
    BY DEF CreationInv, LeftInv
  <2>7. Known(h, l.sid) /\ ~Creating(l)
    BY <2>5 DEF Known, Creating
  <2> QED
    BY <1>1, <2>2, <2>4, <2>5, <2>6, <2>7, CreationBegin DEF StartGrant
<1>2. CASE FreeSlots(h)
  <2>1. \A r \in Requests : Narrows(lease[r], lease'[r])
    BY <1>0, <1>2, NarrowsCases DEF FreeSlots, RowsExist
  <2>2. CASE Reply(h)
    BY <1>2, <2>1, <2>2, Unmoved, CreationGoto DEF FreeSlots
  <2>3. CASE Goto(h, "batch")
    <3> DEFINE l == [hnd[h] EXCEPT !.pc = "batch"]
    <3>1. hnd[h] \in HandlerState
      BY DEF TypeOK
    <3>2. /\ l \in HandlerState /\ hnd' = [hnd EXCEPT ![h] = l]
          /\ l.pc = "batch" /\ l.sid = hnd[h].sid /\ l.req = hnd[h].req
          /\ l.at = hnd[h].at /\ l.exp = hnd[h].exp
      BY <2>3, <3>1 DEF Goto, HandlerState
    <3> HIDE DEF l
    <3>3. Fits(h, l)
      BY <1>2, <3>2
      DEF FreeSlots, Fits, Known, Creating, Returning, CreationInv, LeftInv
    <3> QED
      BY <1>2, <2>1, <3>2, <3>3, Unmoved, CreationKept DEF FreeSlots, ResolvedFits
  <2> QED
    BY <1>2, <2>2, <2>3 DEF FreeSlots
<1>3. CASE GrantRejected(h)
  BY <1>3, Unmoved, CreationGoto DEF GrantRejected
<1> QED
  BY <1>1, <1>2, <1>3, CreationDrawn, CreationBatch DEF Granting

LEMMA CreationStop ==
    ASSUME TypeOK, CreationInv, TypeOK', NEW h \in Handlers,
           Aborting(h) \/ Revoking(h),
           \A r \in Requests : Narrows(lease[r], lease'[r])
    PROVE  CreationInv'
<1> USE DEF dbVars, histVars
<1>1. ASSUME NEW r \in Requests, StartAbort(h, r) PROVE CreationInv'
  <2> DEFINE s == CleanLeases[r].sid
  <2>1. PICK reauth \in BOOLEAN :
          Begin(h, [Idle EXCEPT !.pc = "abort", !.req = r, !.sid = s, !.reauth = reauth])
    BY <1>1 DEF StartAbort
  <2> DEFINE l == [Idle EXCEPT !.pc = "abort", !.req = r, !.sid = s, !.reauth = reauth]
  <2>2. s \in SessionIds /\ lease[r].state # "none" /\ lease[r].sid = s
    BY <1>1, CleanTypes DEF StartAbort, HasLease, IsActive, CleanLeases, NoLease, TypeOK
  <2>3. l \in HandlerState
    BY <2>2, NullRows DEF HandlerState
  <2>4. Begin(h, l) /\ l.pc = "abort" /\ l.sid = s
    BY <2>1 DEF Idle
  <2> HIDE DEF l
  <2>5. Known(h, l.sid) /\ ~Creating(l) /\ ~Returning(l)
    BY <2>2, <2>4 DEF Known, Creating, Returning
  <2> QED
    BY <1>1, <2>2, <2>3, <2>4, <2>5, CreationBegin DEF StartAbort
<1>2. CASE AbortBatch(h)
  <2>1. ASSUME NEW s \in SessionIds PROVE Settles(sess[s], sess'[s])
    <3>1. sess[s] \in SessionRow
      BY DEF TypeOK
    <3>2. \/ sess'[s] = sess[s]
          \/ sess'[s] = NoSession
          \/ /\ sess[s].state # "absent"
             /\ sess'[s] = [sess[s] EXCEPT !.state = "reauth_required", !.updated = now]
      BY <1>2, ZenonT(40) DEF AbortBatch, RowLive, TypeOK
    <3>3. CASE /\ sess[s].state # "absent"
               /\ sess'[s] = [sess[s] EXCEPT !.state = "reauth_required", !.updated = now]
      <4>1. sess'[s].state = "reauth_required"
        BY <3>1, <3>3 DEF SessionRow
      <4> QED
        BY <3>3, <4>1 DEF Settles
    <3> QED
      BY <3>2, <3>3 DEF Settles, NoSession
  <2> QED
    BY <1>2, <2>1, CreationGoto DEF AbortBatch
<1>3. ASSUME NEW s \in SessionIds, StartRevoke(h, s) PROVE CreationInv'
  <2> DEFINE l == [Idle EXCEPT !.pc = "erase", !.sid = s]
  <2>1. l \in HandlerState
    BY NullRows DEF HandlerState
  <2>2. Begin(h, l) /\ l.pc = "erase" /\ l.sid = s
    BY <1>3 DEF StartRevoke, Idle
  <2> HIDE DEF l
  <2>3. sess[s].state # "absent"
    BY <1>3, FoundBefore DEF StartRevoke
  <2>4. Known(h, l.sid) /\ ~Creating(l) /\ ~Returning(l)
    BY <2>2, <2>3 DEF Known, Creating, Returning
  <2> QED
    BY <1>3, <2>1, <2>2, <2>4, CreationBegin DEF StartRevoke
<1>4. CASE Erase(h)
  BY <1>4, Unmoved, CreationGoto DEF Erase
<1>5. CASE RevokeBatch(h)
  <2>1. \A s \in SessionIds : Settles(sess[s], sess'[s])
    BY <1>5 DEF RevokeBatch, Settles, TypeOK
  <2> QED
    BY <1>5, <2>1, CreationGoto DEF RevokeBatch
<1> QED
  BY <1>1, <1>2, <1>3, <1>4, <1>5 DEF Aborting, Revoking

LEMMA CreationCommit ==
    ASSUME TypeOK, CreationInv, TypeOK', NEW h \in Handlers,
           Restoring(h) \/ Committing(h),
           \A r \in Requests : Narrows(lease[r], lease'[r])
    PROVE  CreationInv'
<1> USE DEF dbVars, histVars
<1>1. ASSUME NEW r \in Requests, StartGet(h, r) \/ StartPut(h, r) PROVE CreationInv'
  BY <1>1, CreationStart DEF StartGet, StartPut
<1>2. CASE Fetch(h)
  <2>1. artifact[hnd[h].sid] \in ETags
    BY <1>2 DEF Fetch, TypeOK, Placed
  <2> QED
    BY <1>2, <2>1, Unmoved, CreationGoto DEF Fetch
<1>3. CASE Deliver(h)
  BY <1>3, Unmoved, CreationGoto DEF Deliver
<1>4. CASE Claim(h)
  BY <1>4, Unmoved, CreationGoto DEF Claim
<1>5. CASE Put(h)
  BY <1>5, Unmoved, CreationGoto DEF Put
<1>6. CASE Finish(h)
  <2>1. \A s \in SessionIds : Settles(sess[s], sess'[s])
    BY <1>6 DEF Finish, RowLive, Settles, TypeOK
  <2> QED
    BY <1>6, <2>1, CreationGoto DEF Finish
<1>7. CASE Undo(h)
  BY <1>7, Unmoved, CreationGoto DEF Undo
<1> QED
  BY <1>1, <1>2, <1>3, <1>4, <1>5, <1>6, <1>7 DEF Restoring, Committing

LEMMA CreationStep ==
    ASSUME TypeOK, RowsExist, CreationInv, [Next]_vars
    PROVE  CreationInv'
<1> USE DEF dbVars, histVars
<1>0. TypeOK'
  BY TypeStep
<1>1. ASSUME NEW h \in Handlers, GrantBatch(h) PROVE CreationInv'
  BY <1>0, <1>1, CreationBatch
<1>2. CASE \A r \in Requests : Narrows(lease[r], lease'[r])
  <2>1. CASE Tick
    BY <1>0, <1>2, <2>1, Unmoved, CreationKeptIdle DEF Tick
  <2>2. CASE OtherCall
    BY <1>0, <1>2, <2>2, CleanSettles, CreationKeptIdle DEF OtherCall, EnsureSchema
  <2>3. ASSUME NEW r \in Requests, Decide(r) PROVE CreationInv'
    BY <1>0, <1>2, <2>3, CleanSettles, CreationKeptIdle DEF Decide
  <2>4. ASSUME NEW h \in Handlers, StartResolve(h) \/ Reconciling(h) PROVE CreationInv'
    BY <1>0, <2>4, CreationReconcile
  <2>5. ASSUME NEW h \in Handlers, Granting(h) PROVE CreationInv'
    BY <1>0, <2>5, CreationGrant
  <2>6. ASSUME NEW h \in Handlers, Restoring(h) \/ Committing(h) PROVE CreationInv'
    BY <1>0, <1>2, <2>6, CreationCommit
  <2>7. ASSUME NEW h \in Handlers, Aborting(h) \/ Revoking(h) PROVE CreationInv'
    BY <1>0, <1>2, <2>7, CreationStop
  <2>8. ASSUME NEW h \in Handlers, Crash(h) PROVE CreationInv'
    BY <1>0, <1>2, <2>8, Unmoved, CreationGoto DEF Crash
  <2>9. CASE UNCHANGED vars
    BY <1>0, <1>2, <2>9, Unmoved, CreationKeptIdle DEF vars
  <2> QED
    BY <2>1, <2>2, <2>3, <2>4, <2>5, <2>6, <2>7, <2>8, <2>9 DEF Next
<1> QED
  BY <1>1, <1>2, LeaseStep

LEMMA CreationInit == Init => CreationInv
BY DEF Init, CreationInv, UsedInv, FreshInv, LeftInv, ExpiryInv, Creating,
       Returning, Idle, NoSession, NoLease

LEMMA CreationInvImplies == TypeOK /\ CreationInv => CleanupNeverBlocked
<1> SUFFICES ASSUME TypeOK, CreationInv, SchemaBlocked PROVE FALSE
  BY DEF CleanupNeverBlocked
<1>1. PICK s \in SessionIds, r \in Requests :
        Doomed(s) /\ CleanLeases[r].state # "none" /\ CleanLeases[r].sid = s
  BY DEF SchemaBlocked
<1>2. CleanLeases[r] = lease[r]
  BY <1>1 DEF CleanLeases, NoLease
<1>3. lease[r].state # "none" /\ lease[r].sid = s /\ ~(lease[r].expires <= now)
  BY <1>1, <1>2 DEF CleanLeases, Doomed, NoLease
<1>4. /\ sess[s].state = "creating"
      /\ sess[s].updated + StaleAfter < now
      /\ sess[s].updated \in Nat /\ lease[r].expires \in Nat /\ now \in Nat
  BY <1>1 DEF Doomed, StaleCreating, TypeOK, SessionRow, LeaseRow
<1>5. lease[r].expires <= sess[s].updated + LeaseTtl
  BY <1>3, <1>4 DEF CreationInv, ExpiryInv
<1> QED
  BY <1>3, <1>4, <1>5, TimeAssumption

\* The FOREIGN KEY of the lease table never makes the clean-up of ensureSchema
\* fail, as long as a lease does not outlive the age at which an unfinished
\* creation is dropped (two minutes and ten minutes in the code).
THEOREM VaultCleanupNeverBlocked == Spec => []CleanupNeverBlocked
<1> DEFINE IInv == TypeOK /\ SlotInv /\ RowsExist /\ CreationInv
<1>1. Init => IInv
  BY TypeInit, SlotInit, CreationInit
<1>2. IInv /\ [Next]_vars => IInv'
  BY TypeStep, SlotStep, CreationStep
<1>3. IInv => CleanupNeverBlocked
  BY CreationInvImplies
<1> QED
  BY <1>1, <1>2, <1>3, PTL DEF Spec

-----------------------------------------------------------------------------
(***************************************************************************)
(* A revoked session stays revoked.                                        *)
(***************************************************************************)
\* No row of the session s is left, or none that is open.
NoRows(s)     == \A r \in Requests : lease[r].state # "none" => lease[r].sid # s
NoOpenRows(s) == \A r \in Requests : lease[r].state = "open" => lease[r].sid # s

Healing(s) ==
    \E h \in Handlers : /\ hnd[h].pc = "heal" /\ hnd[h].sid = s
                        /\ hnd'[h].pc # "heal"
                        /\ sess'[s].etag = hnd[h].etag

\* What becomes of the session row s, outside the grant batch: it is dropped,
\* healed, recorded (by a commit or as needing a login) or revoked.
Drops(s)   == sess[s].state = "creating" /\ sess'[s] = NoSession /\ NoRows(s)'
Heals(s)   == sess[s].state # "absent" /\ sess'[s].state = "healthy" /\ Healing(s)
Records(s) == /\ RowLive(s)
              /\ sess'[s].state \in {"healthy", "reauth_required"}
              /\ sess'[s].etag = sess[s].etag \/ sess'[s].etag \in Requests
Revokes(s) == /\ sess[s].state # "absent" /\ sess'[s].state = "revoked"
              /\ NoOpenRows(s)'
              /\ \E h \in Handlers : hnd[h].pc = "revoke" /\ hnd[h].sid = s

SessMoves(s) ==
    sess'[s] = sess[s] \/ Drops(s) \/ Heals(s) \/ Records(s) \/ Revokes(s)

LEMMA CleanMoves ==
    ASSUME TypeOK, EnsureSchema, NEW s \in SessionIds
    PROVE  SessMoves(s)
<1>1. CASE Doomed(s)
  <2>1. sess[s].state = "creating" /\ sess'[s] = NoSession
    BY <1>1 DEF EnsureSchema, CleanSessions, Doomed, StaleCreating
  <2>2. ASSUME NEW r \in Requests, lease'[r].state # "none" PROVE lease'[r].sid # s
    BY <1>1, <2>2 DEF EnsureSchema, SchemaBlocked
  <2> QED
    BY <2>1, <2>2 DEF SessMoves, Drops, NoRows
<1>2. CASE ~Doomed(s)
  BY <1>2 DEF EnsureSchema, CleanSessions, SessMoves
<1> QED
  BY <1>1, <1>2

LEMMA HealMoves ==
    ASSUME TypeOK, NEW h \in Handlers, Heal(h), NEW s \in SessionIds
    PROVE  SessMoves(s)
<1>1. hnd'[h].pc # "heal"
  <2>1. hnd[h] \in HandlerState /\ hnd \in [Handlers -> HandlerState]
    BY DEF TypeOK
  <2>2. \/ hnd' = [hnd EXCEPT ![h] = Idle]
        \/ \E pc \in {"batch", "slot"} :
              hnd' = [hnd EXCEPT ![h] =
                        [@ EXCEPT !.pc = pc, !.etag = hnd[h].etag, !.creating = FALSE]]
    BY DEF Heal, AfterReconcile, Reply
  <2>3. CASE hnd' = [hnd EXCEPT ![h] = Idle]
    BY <2>1, <2>3 DEF Idle
  <2>4. ASSUME NEW pc \in {"batch", "slot"},
               hnd' = [hnd EXCEPT ![h] =
                         [@ EXCEPT !.pc = pc, !.etag = hnd[h].etag, !.creating = FALSE]]
        PROVE  hnd'[h].pc # "heal"
    <3> DEFINE l == [hnd[h] EXCEPT !.pc = pc, !.etag = hnd[h].etag, !.creating = FALSE]
    <3>1. l.pc = pc
      BY <2>1 DEF HandlerState
    <3>2. hnd'[h] = l
      BY <2>1, <2>4
    <3> QED
      BY <3>1, <3>2
  <2> QED
    BY <2>2, <2>3, <2>4
<1> QED
  BY <1>1 DEF Heal, SessMoves, Heals, Healing, TypeOK

LEMMA StopMoves ==
    ASSUME TypeOK, NEW h \in Handlers, AbortBatch(h) \/ RevokeBatch(h),
           NEW s \in SessionIds
    PROVE  SessMoves(s)
<1>0. sess[s] \in SessionRow
  BY DEF TypeOK
<1>1. CASE AbortBatch(h)
  <2>1. CASE s # hnd[h].sid \/ AbortRollsBack(h)
    BY <1>1, <2>1 DEF AbortBatch, SessMoves, TypeOK
  <2>2. CASE s = hnd[h].sid /\ ~AbortRollsBack(h) /\ AbortDeletes(h)
    <3>1. sess[s].state = "creating" /\ sess'[s] = NoSession
      BY <1>1, <2>2 DEF AbortBatch, AbortDeletes, TypeOK
    <3>2. ASSUME NEW r \in Requests, lease'[r].state # "none" PROVE lease'[r].sid # s
      <4>1. lease[r].state # "none" => lease[r].sid # s
        BY <2>2 DEF AbortRollsBack
      <4>2. \/ lease'[r] = lease[r]
            \/ lease[r].state = "open" /\ lease'[r] = Consumed(lease[r])
        BY <1>1, <2>2 DEF AbortBatch, TypeOK
      <4> QED
        BY <3>2, <4>1, <4>2, ConsumedType DEF TypeOK
    <3> QED
      BY <3>1, <3>2 DEF SessMoves, Drops, NoRows
  <2>3. CASE s = hnd[h].sid /\ ~AbortRollsBack(h) /\ ~AbortDeletes(h)
    <3>1. \/ sess'[s] = sess[s]
          \/ /\ RowLive(s)
             /\ sess'[s] = [sess[s] EXCEPT !.state = "reauth_required", !.updated = now]
      BY <1>1, <2>3 DEF AbortBatch, TypeOK
    <3> QED
      BY <1>0, <3>1 DEF SessMoves, Records, SessionRow
  <2> QED
    BY <2>1, <2>2, <2>3
<1>2. CASE RevokeBatch(h)
  <2>1. CASE s # hnd[h].sid \/ sess[s].state = "absent"
    BY <1>2, <2>1 DEF RevokeBatch, SessMoves, TypeOK
  <2>2. CASE s = hnd[h].sid /\ sess[s].state # "absent"
    <3>1. sess'[s].state = "revoked"
      BY <1>2, <2>2 DEF RevokeBatch, TypeOK
    <3>2. NoOpenRows(s)'
      BY <1>2, <2>2, ConsumedType DEF RevokeBatch, RevokedLeases, NoOpenRows, TypeOK
    <3> QED
      BY <1>2, <2>2, <3>1, <3>2 DEF RevokeBatch, SessMoves, Revokes
  <2> QED
    BY <2>1, <2>2
<1> QED
  BY <1>1, <1>2

LEMMA SessionStep ==
    ASSUME TypeOK, [Next]_vars, NEW s \in SessionIds
    PROVE  (\E h \in Handlers : GrantBatch(h)) \/ SessMoves(s)
<1> USE DEF dbVars, histVars
<1>a. UNCHANGED sess => SessMoves(s)
  BY DEF SessMoves
<1>b. ASSUME NEW h \in Handlers, NEW local, Begin(h, local) PROVE SessMoves(s)
  BY <1>b, CleanMoves DEF Begin
<1>c. ASSUME NEW h \in Handlers, NEW r \in Requests, NEW pc, StartWith(h, r, pc)
      PROVE  SessMoves(s)
  BY <1>b, <1>c DEF StartWith
<1>1. CASE Tick \/ OtherCall \/ UNCHANGED vars
  BY <1>1, <1>a, CleanMoves DEF Tick, OtherCall, vars
<1>2. ASSUME NEW r \in Requests, Decide(r) PROVE SessMoves(s)
  BY <1>2, CleanMoves DEF Decide, EnsureSchema
<1>3. ASSUME NEW h \in Handlers, StartResolve(h) PROVE SessMoves(s)
  BY <1>3, <1>b DEF StartResolve
<1>4. ASSUME NEW h \in Handlers, Reconciling(h) PROVE SessMoves(s)
  BY <1>4, <1>a, HealMoves DEF Reconciling, HeadUnchanged, HeadChanged
<1>5. ASSUME NEW h \in Handlers, Granting(h), ~GrantBatch(h) PROVE SessMoves(s)
  <2>1. ASSUME NEW r \in Requests, StartCreateGrant(h, r) \/ StartGrant(h, r)
        PROVE  SessMoves(s)
    BY <2>1, <1>b DEF StartCreateGrant, StartGrant
  <2> QED
    BY <1>5, <2>1, <1>a DEF Granting, FreeSlots, GrantRejected
<1>6. ASSUME NEW h \in Handlers, Restoring(h) PROVE SessMoves(s)
  BY <1>6, <1>a, <1>c DEF Restoring, StartGet, Fetch, Deliver
<1>7. ASSUME NEW h \in Handlers, Committing(h) PROVE SessMoves(s)
  <2>1. CASE Finish(h)
    <3>1. hnd[h].req \in Requests
      BY <2>1 DEF Finish, TypeOK, Placed
    <3> QED
      BY <2>1, <3>1 DEF Finish, SessMoves, Records, StoredETag, TypeOK
  <2> QED
    BY <1>7, <2>1, <1>a, <1>c DEF Committing, StartPut, Claim, Put, Undo
<1>8. ASSUME NEW h \in Handlers, Aborting(h) \/ Revoking(h) PROVE SessMoves(s)
  BY <1>8, <1>a, <1>b, StopMoves DEF Aborting, Revoking, StartAbort, StartRevoke, Erase
<1>9. ASSUME NEW h \in Handlers, Crash(h) PROVE SessMoves(s)
  BY <1>9, <1>a DEF Crash
<1> QED
  BY <1>1, <1>2, <1>3, <1>4, <1>5, <1>6, <1>7, <1>8, <1>9 DEF Next

\* The grant batch adds at most the session row of a creation.
LEMMA BatchAdds ==
    ASSUME TypeOK, NEW h \in Handlers, GrantBatch(h), NEW s \in SessionIds
    PROVE  \/ sess'[s] = sess[s]
           \/ /\ s = hnd[h].sid /\ access[hnd[h].req] = "create"
              /\ sess[s].state = "absent"
              /\ sess'[s].state = "creating"
BY DEF GrantBatch, Constraints, TypeOK

\* No commit, abort, expiry, clean-up or new grant brings a revoked session
\* back; only a reconciliation that was already past its R2 head can.
THEOREM VaultRevokedUnlessHealed == Spec => RevokedUnlessHealed
<1> DEFINE A == \A s \in SessionIds :
                  sess[s].state = "revoked" /\ sess'[s].state # "revoked" =>
                      \E h \in Handlers :
                          hnd[h].pc = "heal" /\ hnd[h].sid = s /\ hnd'[h].pc # "heal"
<1>1. TypeOK /\ [Next]_vars => A
  <2> SUFFICES ASSUME TypeOK, [Next]_vars, NEW s \in SessionIds,
                      sess[s].state = "revoked", sess'[s].state # "revoked"
               PROVE  Healing(s)
    BY DEF Healing
  <2>1. SessMoves(s)
    BY SessionStep, BatchAdds
  <2> QED
    BY <2>1 DEF SessMoves, Drops, Heals, Records, Revokes, RowLive
<1>2. TypeOK /\ [Next]_vars => [A]_vars
  BY <1>1
<1> QED
  BY <1>2, VaultTypeCorrect, PTL DEF Spec, RevokedUnlessHealed

-----------------------------------------------------------------------------
(***************************************************************************)
(* Holders of a capability: what a handler read of its lease still holds.  *)
(*                                                                         *)
(* The invariant follows a capability from its grant to the end of its     *)
(* commit.  The grant ciphertext is written once, so all calls that        *)
(* present the capability of a request work on the session sealed in it    *)
(* (GrantOnce, HolderOK).  The lease row of a request is dropped only by   *)
(* the clean-up of an unfinished creation, so the row of any other request *)
(* is there for ever, with its base (RowInv, KeepsRow); a creation that is *)
(* granted again gets another session id (FreshInv).                       *)
(***************************************************************************)
Holder(l) ==
    l.pc \in {"fetch", "deliver", "claim", "put", "finish", "undo", "abort"}

Committer(l) == l.pc \in {"put", "finish", "undo"}

Reads(r) == access[r] \in {"restore", "restore_and_update"}

GrantOnce == \A r \in Requests : grant[r] # None => approval[r] # "pending"

RowOK(r) ==
    /\ lease[r].state = "none" => lease[r].base = None /\ lease[r].got = None
    /\ access[r] = "create" => lease[r].base = None
    /\ lease[r].got \in {None, lease[r].base}
    /\ lease[r].got # None => Reads(r)
    /\ lease[r].state # "none" =>
          /\ lease[r].sid \in SessionIds
          /\ Reads(r) => lease[r].base # None
          /\ sess[lease[r].sid].state = "creating" => access[r] = "create"

RowInv == \A r \in Requests : RowOK(r)

\* The base that a grant is about to record.
BaseOK(l) ==
    l.pc \in {"slot", "batch"} => /\ access[l.req] = "create" => l.etag = None
                                  /\ Reads(l.req) => l.etag # None

BatchInv == \A h \in Handlers : BaseOK(hnd[h])

KeepsRow(l) ==
    access[l.req] # "create" =>
        /\ lease[l.req].state # "none"
        /\ lease[l.req].sid = l.sid
        /\ l.pc # "abort" => lease[l.req].base = l.etag

ModeOK(l) ==
    /\ l.pc \in {"fetch", "deliver"} => Reads(l.req)
    /\ l.pc = "claim" \/ Committer(l) =>
          /\ access[l.req] \in WriteModes
          /\ access[l.req] = "restore_and_update" => lease[l.req].got # None

Open(l) == lease[l.req].sid = l.sid /\ lease[l.req].state = "open"

HolderOK(l) ==
    Holder(l) =>
        /\ l.sid = grant[l.req]
        /\ KeepsRow(l)
        /\ ModeOK(l)
        /\ l.pc \in {"fetch", "deliver", "claim"} /\ Open(l) =>
              sess[l.sid].state \notin {"absent", "revoked"}
        /\ Committer(l) => ~Open(l)

OneCommitter ==
    \A g, h \in Handlers, r \in Requests : Commits(g, r) /\ Commits(h, r) => g = h

HolderInv == (\A h \in Handlers : HolderOK(hnd[h])) /\ OneCommitter

VaultInv == /\ TypeOK
            /\ SlotInv /\ RowsExist
            /\ CreationInv
            /\ GrantOnce /\ RowInv /\ BatchInv
            /\ HolderInv

\* Handler h takes a step.
Acts(h) ==
    \/ StartResolve(h)
    \/ Reconciling(h)
    \/ Granting(h)
    \/ Restoring(h)
    \/ Committing(h)
    \/ Aborting(h)
    \/ Revoking(h)
    \/ Crash(h)

\* An action of h moves no other handler.
LEMMA OthersStay ==
    ASSUME TypeOK, NEW h \in Handlers, Acts(h)
    PROVE  \A g \in Handlers \ {h} : hnd'[g] = hnd[g]
<1> DEFINE Moves == \E l : hnd' = [hnd EXCEPT ![h] = l]
<1>1. Reply(h) => Moves
  BY DEF Reply
<1>2. ASSUME NEW pc, Goto(h, pc) PROVE Moves
  BY <1>2 DEF Goto
<1>3. ASSUME NEW l, Begin(h, l) PROVE Moves
  BY <1>3 DEF Begin
<1>4. ASSUME NEW e, NEW c, AfterReconcile(h, e, c) PROVE Moves
  BY <1>1, <1>4 DEF AfterReconcile
<1>5. ASSUME NEW r \in Requests, NEW pc, StartWith(h, r, pc) PROVE Moves
  BY <1>3, <1>5 DEF StartWith
<1>6. StartResolve(h) => Moves
  BY <1>3 DEF StartResolve
<1>7. Reconciling(h) => Moves
  BY <1>4 DEF Reconciling, HeadUnchanged, HeadChanged, Heal
<1>8. Granting(h) => Moves
  BY <1>1, <1>2, <1>3
  DEF Granting, StartCreateGrant, StartGrant, FreeSlots, GrantBatch, GrantRejected
<1>9. Restoring(h) => Moves
  BY <1>1, <1>5 DEF Restoring, StartGet, Fetch, Deliver
<1>10. Committing(h) => Moves
  BY <1>1, <1>2, <1>5 DEF Committing, StartPut, Claim, Put, Finish, Undo
<1>11. Aborting(h) \/ Revoking(h) \/ Crash(h) => Moves
  BY <1>1, <1>2, <1>3
  DEF Aborting, StartAbort, AbortBatch, Revoking, StartRevoke, Erase, RevokeBatch, Crash
<1>12. Moves
  BY <1>6, <1>7, <1>8, <1>9, <1>10, <1>11 DEF Acts
<1> QED
  BY <1>12 DEF TypeOK

LEMMA HandlerStep ==
    ASSUME TypeOK, [Next]_vars, NEW h \in Handlers
    PROVE  hnd'[h] = hnd[h] \/ Acts(h)
<1>1. CASE Tick \/ OtherCall \/ UNCHANGED vars
  BY <1>1 DEF Tick, OtherCall, vars
<1>2. ASSUME NEW r \in Requests, Decide(r) PROVE hnd'[h] = hnd[h]
  BY <1>2 DEF Decide
<1>3. ASSUME NEW g \in Handlers, Acts(g) PROVE hnd'[h] = hnd[h] \/ Acts(h)
  BY <1>3, OthersStay
<1> QED
  BY <1>1, <1>2, <1>3 DEF Next, Acts

\* The capability sealed in a grant, and the approval that carries it, stay.
LEMMA GrantStep ==
    ASSUME TypeOK, GrantOnce, [Next]_vars
    PROVE  GrantOnce' /\ \A r \in Requests : grant[r] # None => grant'[r] = grant[r]
<1> DEFINE Goal == GrantOnce' /\ \A r \in Requests : grant[r] # None => grant'[r] = grant[r]
<1> USE DEF dbVars, histVars
<1>a. UNCHANGED <<approval, grant>> => Goal
  BY DEF GrantOnce
<1>1. CASE Tick \/ OtherCall \/ UNCHANGED vars
  BY <1>1, <1>a DEF Tick, OtherCall, vars
<1>2. ASSUME NEW r \in Requests, Decide(r) PROVE Goal
  BY <1>2 DEF Decide, GrantOnce, TypeOK
<1>3. ASSUME NEW h \in Handlers, StartResolve(h) \/ Reconciling(h) PROVE Goal
  BY <1>3, <1>a DEF StartResolve, Reconciling, HeadUnchanged, HeadChanged, Heal
<1>4. ASSUME NEW h \in Handlers, GrantBatch(h) PROVE Goal
  <2>1. hnd[h].req \in Requests /\ hnd[h].sid \in SessionIds
    BY <1>4 DEF GrantBatch, TypeOK, Placed
  <2> QED
    BY <1>4, <2>1 DEF GrantBatch, GrantOnce, TypeOK
<1>5. ASSUME NEW h \in Handlers, Granting(h) PROVE Goal
  BY <1>4, <1>5, <1>a DEF Granting, StartCreateGrant, StartGrant, FreeSlots, GrantRejected
<1>6. ASSUME NEW h \in Handlers, Restoring(h) PROVE Goal
  BY <1>6, <1>a DEF Restoring, StartGet, StartWith, Fetch, Deliver
<1>7. ASSUME NEW h \in Handlers, Committing(h) PROVE Goal
  BY <1>7, <1>a DEF Committing, StartPut, StartWith, Claim, Put, Finish, Undo
<1>8. ASSUME NEW h \in Handlers, Aborting(h) \/ Revoking(h) \/ Crash(h) PROVE Goal
  BY <1>8, <1>a DEF Aborting, StartAbort, AbortBatch, Revoking, StartRevoke, Erase,
                    RevokeBatch, Crash
<1> QED
  BY <1>1, <1>2, <1>3, <1>5, <1>6, <1>7, <1>8 DEF Next

\* A row vanishes only by the clean-up of an unfinished creation.
LEMMA RowVanishes ==
    ASSUME TypeOK, RowsExist, RowInv, [Next]_vars, NEW r \in Requests,
           lease[r].state # "none", lease'[r].state = "none"
    PROVE  access[r] = "create"
<1>1. CASE EnsureSchema
  <2>1. sess[lease[r].sid].state = "creating"
    BY <1>1 DEF EnsureSchema, CleanLeases, StaleCreating
  <2> QED
    BY <2>1 DEF RowInv, RowOK
<1>2. ASSUME NEW h \in Handlers, GrantBatch(h) PROVE FALSE
  BY <1>2 DEF GrantBatch, TypeOK
<1>3. ASSUME NEW h \in Handlers, Deliver(h) PROVE FALSE
  <2>1. lease[r] \in LeaseRow
    BY DEF TypeOK
  <2>2. CASE lease'[r] = [lease[r] EXCEPT !.got = hnd[h].etag]
    BY <2>1, <2>2 DEF LeaseRow
  <2> QED
    BY <1>3, <2>2, DeliverMarks
<1>4. CASE Consuming
  BY <1>4, ConsumedType DEF Consuming, TypeOK
<1> QED
  BY <1>1, <1>2, <1>3, <1>4, LeaseCases

\* What the grant batch of h writes, and where.
LEMMA BatchRow ==
    ASSUME TypeOK, NEW h \in Handlers, GrantBatch(h)
    PROVE  /\ hnd[h].pc = "batch" /\ hnd[h].req \in Requests /\ hnd[h].sid \in SessionIds
           /\ lease[hnd[h].req].state = "none"
           /\ lease'[hnd[h].req].state = "open"
           /\ lease'[hnd[h].req].sid = hnd[h].sid
           /\ lease'[hnd[h].req].base = hnd[h].etag
           /\ lease'[hnd[h].req].expires = hnd[h].exp
           /\ lease'[hnd[h].req].got = None
           /\ \A q \in Requests \ {hnd[h].req} : lease'[q] = lease[q]
           /\ UNCHANGED <<now, access, artifact, resolved, used, histVars>>
           /\ hnd'[h] = Idle
BY DEF GrantBatch, Constraints, TypeOK, Placed, Reply

\* While a handler holds a capability, its row only narrows, and does not give
\* way to another row that the handler could take for it.
LEMMA HolderRow ==
    ASSUME VaultInv, [Next]_vars, NEW h \in Handlers, Holder(hnd[h])
    PROVE  LET l == hnd[h]
               r == hnd[h].req
           IN  /\ r \in Requests /\ l.sid \in SessionIds
               /\ access' = access /\ grant'[r] = grant[r]
               /\ lease'[r].state = "open" /\ lease'[r].sid = l.sid => Open(l)
               /\ access[r] # "create" =>
                     /\ lease'[r].state # "none"
                     /\ lease'[r].sid = lease[r].sid
                     /\ lease'[r].base = lease[r].base
                     /\ lease[r].got # None => lease'[r].got = lease[r].got
<1> USE DEF VaultInv
<1> DEFINE l == hnd[h]
           r == l.req
           Row == access[r] # "create" =>
                     /\ lease'[r].state # "none"
                     /\ lease'[r].sid = lease[r].sid
                     /\ lease'[r].base = lease[r].base
                     /\ lease[r].got # None => lease'[r].got = lease[r].got
           Same == lease'[r].state = "open" /\ lease'[r].sid = l.sid => Open(l)
<1>1. r \in Requests /\ l.sid \in SessionIds
  BY DEF Holder, TypeOK, Placed
<1>2. /\ l.sid = grant[r]
      /\ access[r] # "create" => lease[r].state # "none"
  BY DEF HolderInv, HolderOK, KeepsRow
<1>3. access' = access /\ grant'[r] = grant[r]
  BY <1>1, <1>2, GrantStep, LeaseStep, NoneAssumption
<1>4. ASSUME NEW g \in Handlers, GrantBatch(g) PROVE Row /\ Same
  <2>1. CASE hnd[g].req = r
    <3>1. access[r] = "create" /\ lease'[r].sid = hnd[g].sid /\ hnd[g].pc = "batch"
      BY <1>2, <1>4, <2>1, BatchRow
    <3>2. Unknown(g)
      BY <2>1, <3>1 DEF CreationInv, FreshInv, Creating
    <3>3. hnd[g].sid # l.sid
      BY <3>1, <3>2 DEF Unknown, Holder
    <3> QED
      BY <3>1, <3>3
  <2>2. CASE hnd[g].req # r
    BY <1>1, <1>2, <1>4, <2>2, BatchRow DEF Open
  <2> QED
    BY <2>1, <2>2
<1>5. ASSUME \A q \in Requests : Narrows(lease[q], lease'[q]) PROVE Row /\ Same
  <2>1. Same
    BY <1>1, <1>5 DEF Narrows, Open
  <2>2. Row
    <3>1. access[r] # "create" => lease'[r].state # "none"
      BY <1>1, <1>2, RowVanishes
    <3> QED
      BY <1>1, <1>5, <3>1 DEF Narrows
  <2> QED
    BY <2>1, <2>2
<1>6. Row /\ Same
  <2> HIDE DEF Row, Same
  <2> QED
    BY <1>4, <1>5, LeaseStep
<1> QED
  BY <1>1, <1>3, <1>6

\* A session with an open row in the hands of a handler is not taken away.
LEMMA HolderSession ==
    ASSUME VaultInv, [Next]_vars, NEW s \in SessionIds, NEW r \in Requests,
           sess[s].state \notin {"absent", "revoked"},
           lease'[r].state = "open", lease'[r].sid = s
    PROVE  sess'[s].state \notin {"absent", "revoked"}
<1> USE DEF VaultInv
<1>1. ASSUME NEW g \in Handlers, GrantBatch(g)
      PROVE  sess'[s].state \notin {"absent", "revoked"}
  BY <1>1, BatchAdds
<1>2. CASE SessMoves(s)
  BY <1>2 DEF SessMoves, Drops, NoRows, Heals, Records, Revokes, NoOpenRows
<1> QED
  BY <1>1, <1>2, SessionStep

\* A handler that does not move keeps what it holds.
LEMMA HolderKept ==
    ASSUME VaultInv, [Next]_vars, NEW h \in Handlers, hnd'[h] = hnd[h]
    PROVE  HolderOK(hnd[h])'
<1> USE DEF VaultInv
<1> SUFFICES ASSUME Holder(hnd[h]) PROVE HolderOK(hnd[h])'
  BY DEF HolderOK, Holder
<1> DEFINE l == hnd[h]
           r == l.req
<1>1. HolderOK(l)
  BY DEF HolderInv
<1>2. r \in Requests /\ l.sid \in SessionIds
  BY HolderRow
<1>3. Open(hnd[h])' => Open(l)
  BY HolderRow DEF Open
<1>4. KeepsRow(hnd[h])'
  BY <1>1, HolderRow DEF HolderOK, KeepsRow
<1>5. ModeOK(hnd[h])'
  BY <1>1, HolderRow DEF HolderOK, ModeOK, Committer, Reads
<1>6. l.pc \in {"fetch", "deliver", "claim"} /\ Open(hnd[h])' =>
          sess'[l.sid].state \notin {"absent", "revoked"}
  BY <1>1, <1>2, <1>3, HolderSession DEF HolderOK, Open
<1>7. Committer(hnd[h])' => ~Open(hnd[h])'
  BY <1>1, <1>3 DEF HolderOK, Committer
<1>8. hnd'[h].sid = grant'[hnd'[h].req]
  BY <1>1, HolderRow DEF HolderOK
<1> QED
  BY <1>4, <1>5, <1>6, <1>7, <1>8 DEF HolderOK

\* The local state a step leaves its handler in.
LEMMA NextLocal ==
    ASSUME TypeOK, NEW h \in Handlers
    PROVE  /\ Reply(h) => hnd'[h] = Idle
           /\ \A l : Begin(h, l) => hnd'[h] = l
           /\ \A pc : Goto(h, pc) => /\ hnd'[h].pc = pc
                                     /\ hnd'[h].req = hnd[h].req
                                     /\ hnd'[h].sid = hnd[h].sid
                                     /\ hnd'[h].etag = hnd[h].etag
<1>1. hnd[h] \in HandlerState /\ hnd \in [Handlers -> HandlerState]
  BY DEF TypeOK
<1>2. (Reply(h) => hnd'[h] = Idle) /\ \A l : Begin(h, l) => hnd'[h] = l
  BY <1>1 DEF Reply, Begin
<1>3. ASSUME NEW pc, Goto(h, pc)
      PROVE  /\ hnd'[h].pc = pc
             /\ hnd'[h].req = hnd[h].req
             /\ hnd'[h].sid = hnd[h].sid
             /\ hnd'[h].etag = hnd[h].etag
  <2>1. hnd'[h] = [hnd[h] EXCEPT !.pc = pc]
    BY <1>1, <1>3 DEF Goto
  <2> QED
    BY <1>1, <2>1 DEF HandlerState
<1> QED
  BY <1>2, <1>3

\* A grant goes on to its batch with an artifact, if it is to restore one.
LEMMA ReconciledLocal ==
    ASSUME TypeOK, NEW h \in Handlers, NEW e, NEW c, AfterReconcile(h, e, c)
    PROVE  \/ hnd'[h] = Idle
           \/ /\ hnd[h].req # None
              /\ hnd'[h].pc \in {"slot", "batch"}
              /\ hnd'[h].req = hnd[h].req
              /\ hnd'[h].sid = hnd[h].sid
              /\ hnd'[h].etag = e
              /\ Reads(hnd[h].req) => e # None
<1> DEFINE r    == hnd[h].req
           next == IF access[r] = "restore" THEN "batch" ELSE "slot"
           l    == [hnd[h] EXCEPT !.pc = next, !.etag = e, !.creating = FALSE]
<1>1. CASE Reply(h)
  BY <1>1, NextLocal
<1>2. CASE /\ hnd' = [hnd EXCEPT ![h] = l] /\ r # None
           /\ Reads(r) => e # None
  <2>1. hnd[h] \in HandlerState /\ hnd'[h] = l
    BY <1>2 DEF TypeOK
  <2>2. l.pc = next /\ l.req = r /\ l.sid = hnd[h].sid /\ l.etag = e
    BY <2>1 DEF HandlerState
  <2> HIDE DEF l
  <2> QED
    BY <1>2, <2>1, <2>2
<1> QED
  BY <1>1, <1>2 DEF AfterReconcile, Reads

\* Where each first step of a call leaves its handler.
LEMMA StartsAt ==
    ASSUME TypeOK, NEW h \in Handlers
    PROVE  /\ StartResolve(h) => hnd'[h].pc = "head"
           /\ \A r \in Requests :
                 /\ StartCreateGrant(h, r) => /\ hnd'[h].pc = "slot"
                                              /\ hnd'[h].req = r
                                              /\ hnd'[h].etag = None
                 /\ StartGrant(h, r) => hnd'[h].pc = "head"
                 /\ StartGet(h, r)   => hnd'[h].pc = "fetch"
                 /\ StartPut(h, r)   => hnd'[h].pc = "claim"
                 /\ StartAbort(h, r) => hnd'[h].pc = "abort"
           /\ \A s \in SessionIds : StartRevoke(h, s) => hnd'[h].pc = "erase"
<1>1. ASSUME StartResolve(h) PROVE hnd'[h].pc = "head"
  <2>1. PICK s \in SessionIds :
          Begin(h, [Idle EXCEPT !.pc = "head", !.sid = s,
                                !.etag = CleanSessions[s].etag,
                                !.creating = CleanSessions[s].state = "creating"])
    BY <1>1 DEF StartResolve
  <2> DEFINE l == [Idle EXCEPT !.pc = "head", !.sid = s,
                               !.etag = CleanSessions[s].etag,
                               !.creating = CleanSessions[s].state = "creating"]
  <2>2. Begin(h, l) /\ l.pc = "head"
    BY <2>1 DEF Idle
  <2> HIDE DEF l
  <2> QED
    BY <2>2, NextLocal
<1>2. ASSUME NEW r \in Requests, StartCreateGrant(h, r)
      PROVE  hnd'[h].pc = "slot" /\ hnd'[h].req = r /\ hnd'[h].etag = None
  <2>1. PICK s \in SessionIds, e \in now + 1 .. now + LeaseTtl :
          Begin(h, [Idle EXCEPT !.pc = "slot", !.req = r, !.sid = s,
                                !.at = now, !.exp = e])
    BY <1>2 DEF StartCreateGrant, Offered
  <2> DEFINE l == [Idle EXCEPT !.pc = "slot", !.req = r, !.sid = s,
                               !.at = now, !.exp = e]
  <2>2. Begin(h, l) /\ l.pc = "slot" /\ l.req = r /\ l.etag = None
    BY <2>1 DEF Idle
  <2> HIDE DEF l
  <2> QED
    BY <2>2, NextLocal
<1>3. ASSUME NEW r \in Requests, StartGrant(h, r) PROVE hnd'[h].pc = "head"
  <2>1. PICK s \in resolved, e \in now + 1 .. now + LeaseTtl :
          Begin(h, [Idle EXCEPT !.pc = "head", !.req = r, !.sid = s,
                                !.etag = CleanSessions[s].etag,
                                !.creating = CleanSessions[s].state = "creating",
                                !.at = now, !.exp = e])
    BY <1>3 DEF StartGrant, Offered
  <2> DEFINE l == [Idle EXCEPT !.pc = "head", !.req = r, !.sid = s,
                               !.etag = CleanSessions[s].etag,
                               !.creating = CleanSessions[s].state = "creating",
                               !.at = now, !.exp = e]
  <2>2. Begin(h, l) /\ l.pc = "head"
    BY <2>1 DEF Idle
  <2> HIDE DEF l
  <2> QED
    BY <2>2, NextLocal
<1>4. ASSUME NEW r \in Requests, NEW pc, StartWith(h, r, pc) PROVE hnd'[h].pc = pc
  BY <1>4, NextLocal, ZenonT(40) DEF StartWith, Idle
<1>5. ASSUME NEW r \in Requests, StartAbort(h, r) PROVE hnd'[h].pc = "abort"
  <2>1. PICK reauth \in BOOLEAN :
          Begin(h, [Idle EXCEPT !.pc = "abort", !.req = r,
                                !.sid = CleanLeases[r].sid, !.reauth = reauth])
    BY <1>5 DEF StartAbort
  <2> DEFINE l == [Idle EXCEPT !.pc = "abort", !.req = r,
                               !.sid = CleanLeases[r].sid, !.reauth = reauth]
  <2>2. Begin(h, l) /\ l.pc = "abort"
    BY <2>1 DEF Idle
  <2> HIDE DEF l
  <2> QED
    BY <2>2, NextLocal
<1>6. ASSUME NEW s \in SessionIds, StartRevoke(h, s) PROVE hnd'[h].pc = "erase"
  BY <1>6, NextLocal, ZenonT(40) DEF StartRevoke, Idle
<1> QED
  BY <1>1, <1>2, <1>3, <1>4, <1>5, <1>6 DEF StartGet, StartPut

\* The same for the two steps that remember what R2 returned.
LEMMA ReadsAt ==
    ASSUME TypeOK, NEW h \in Handlers
    PROVE  /\ HeadChanged(h) => /\ hnd'[h].pc = "heal"
                                /\ hnd'[h].sid = hnd[h].sid
                                /\ hnd'[h].etag = artifact[hnd[h].sid]
           /\ Fetch(h) => \/ Reply(h)
                          \/ /\ hnd'[h].pc = "deliver"
                             /\ hnd'[h].req = hnd[h].req
                             /\ hnd'[h].sid = hnd[h].sid
                             /\ hnd'[h].etag = artifact[hnd[h].sid]
<1>1. ASSUME NEW pc, NEW e, hnd' = [hnd EXCEPT ![h] = [@ EXCEPT !.pc = pc, !.etag = e]]
      PROVE  /\ hnd'[h].pc = pc /\ hnd'[h].etag = e
             /\ hnd'[h].req = hnd[h].req /\ hnd'[h].sid = hnd[h].sid
  <2> DEFINE l == [hnd[h] EXCEPT !.pc = pc, !.etag = e]
  <2>1. hnd[h] \in HandlerState /\ hnd'[h] = l
    BY <1>1 DEF TypeOK
  <2>2. l.pc = pc /\ l.etag = e /\ l.req = hnd[h].req /\ l.sid = hnd[h].sid
    BY <2>1 DEF HandlerState
  <2> HIDE DEF l
  <2> QED
    BY <2>1, <2>2
<1>2. ASSUME HeadChanged(h)
      PROVE  hnd' = [hnd EXCEPT ![h] = [@ EXCEPT !.pc = "heal",
                                                 !.etag = artifact[hnd[h].sid]]]
  BY <1>2 DEF HeadChanged
<1>3. ASSUME Fetch(h), ~Reply(h)
      PROVE  hnd' = [hnd EXCEPT ![h] = [@ EXCEPT !.pc = "deliver",
                                                 !.etag = artifact[hnd[h].sid]]]
  BY <1>3 DEF Fetch
<1> QED
  BY <1>1, <1>2, <1>3

\* The steps that leave their handler holding a capability.
Presents(h) ==
    \/ \E r \in Requests : StartGet(h, r) \/ StartPut(h, r) \/ StartAbort(h, r)
    \/ Fetch(h) \/ Claim(h) \/ Put(h) \/ Finish(h)

LEMMA HolderEnters ==
    ASSUME TypeOK, NEW h \in Handlers, Acts(h)
    PROVE  ~Holder(hnd[h])' \/ Presents(h)
<1> USE DEF Holder
<1>1. hnd'[h] = Idle => ~Holder(hnd[h])'
  BY DEF Idle
<1>2. CASE StartResolve(h)
  BY <1>2, StartsAt
<1>3. CASE Reconciling(h)
  <2>1. ASSUME NEW e, NEW c, AfterReconcile(h, e, c) PROVE ~Holder(hnd[h])'
    BY <1>1, <2>1, ReconciledLocal
  <2> QED
    BY <1>3, <2>1, ReadsAt DEF Reconciling, HeadUnchanged, Heal
<1>4. CASE Granting(h)
  BY <1>1, <1>4, StartsAt, NextLocal DEF Granting, FreeSlots, GrantBatch, GrantRejected
<1>5. CASE Restoring(h) \/ Committing(h)
  BY <1>1, <1>5, NextLocal DEF Restoring, Deliver, Committing, Undo, Presents
<1>6. CASE Aborting(h)
  BY <1>1, <1>6, NextLocal DEF Aborting, AbortBatch, Presents
<1>7. CASE Revoking(h)
  BY <1>1, <1>7, StartsAt, NextLocal DEF Revoking, Erase, RevokeBatch
<1>8. CASE Crash(h)
  BY <1>1, <1>8, NextLocal DEF Crash
<1> QED
  BY <1>2, <1>3, <1>4, <1>5, <1>6, <1>7, <1>8 DEF Acts

LEMMA HolderStarts ==
    ASSUME VaultInv, NEW h \in Handlers, NEW r \in Requests,
           NEW pc \in {"fetch", "claim"}, StartWith(h, r, pc),
           pc = "fetch" => Reads(r),
           pc = "claim" => /\ access[r] \in WriteModes
                           /\ access[r] = "restore_and_update" => lease[r].got # None
    PROVE  HolderOK(hnd[h])'
<1> USE DEF VaultInv
<1> DEFINE row == CleanLeases[r]
           l   == [Idle EXCEPT !.pc = pc, !.req = r, !.sid = row.sid, !.etag = row.base]
<1>1. hnd'[h] = l /\ UNCHANGED <<access, grant>>
  BY NextLocal DEF StartWith
<1>2. l.pc = pc /\ l.req = r /\ l.sid = row.sid /\ l.etag = row.base
  BY DEF Idle
<1>3. lease'[r] = row /\ row = lease[r] /\ row.state = "open" /\ row.sid = grant[r]
  BY DEF StartWith, Begin, EnsureSchema, HasLease, IsActive, CleanLeases, NoLease
<1>4. sess'[row.sid].state \notin {"absent", "revoked"}
  BY DEF StartWith, Begin, EnsureSchema
<1> HIDE DEF l, row
<1>5. KeepsRow(hnd[h])'
  BY <1>1, <1>2, <1>3 DEF KeepsRow
<1>6. ModeOK(hnd[h])'
  BY <1>1, <1>2, <1>3 DEF ModeOK, Committer, Reads
<1>7. ~Committer(hnd[h])'
  BY <1>1, <1>2 DEF Committer
<1> QED
  BY <1>1, <1>2, <1>3, <1>4, <1>5, <1>6, <1>7 DEF HolderOK

LEMMA HolderAborts ==
    ASSUME VaultInv, NEW h \in Handlers, NEW r \in Requests, StartAbort(h, r)
    PROVE  HolderOK(hnd[h])'
<1> USE DEF VaultInv
<1>1. PICK reauth \in BOOLEAN :
        Begin(h, [Idle EXCEPT !.pc = "abort", !.req = r,
                              !.sid = CleanLeases[r].sid, !.reauth = reauth])
  BY DEF StartAbort
<1> DEFINE l == [Idle EXCEPT !.pc = "abort", !.req = r,
                             !.sid = CleanLeases[r].sid, !.reauth = reauth]
<1>2. Begin(h, l) /\ l.pc = "abort" /\ l.req = r /\ l.sid = CleanLeases[r].sid
  BY <1>1 DEF Idle
<1> HIDE DEF l
<1>3. hnd'[h] = l /\ UNCHANGED <<access, grant>>
  BY <1>2, NextLocal DEF StartAbort
<1>4. lease'[r].state = "open" /\ l.sid = grant[r] /\ lease'[r].sid = l.sid
  BY <1>2 DEF StartAbort, Begin, EnsureSchema, HasLease, IsActive
<1>5. KeepsRow(hnd[h])' /\ ModeOK(hnd[h])' /\ ~Committer(hnd[h])'
  BY <1>2, <1>3, <1>4 DEF KeepsRow, ModeOK, Committer
<1> QED
  BY <1>2, <1>3, <1>4, <1>5 DEF HolderOK

\* A handler that goes on under its capability keeps what it holds: the
\* facts about the row stay, and it commits only once the row is consumed.
LEMMA HolderGoesOn ==
    ASSUME VaultInv, [Next]_vars, NEW h \in Handlers, Holder(hnd[h]),
           hnd[h].pc # "abort",
           hnd'[h].req = hnd[h].req, hnd'[h].sid = hnd[h].sid,
           hnd'[h].etag = hnd[h].etag,
           \/ hnd[h].pc = "fetch" /\ hnd'[h].pc = "deliver" /\ UNCHANGED sess
           \/ /\ hnd[h].pc = "claim" \/ Committer(hnd[h])
              /\ Committer(hnd[h])'
              /\ ~Open(hnd[h])'
    PROVE  HolderOK(hnd[h])'
<1> USE DEF VaultInv
<1> DEFINE l == hnd[h]
           r == hnd[h].req
<1>1. HolderOK(l)
  BY DEF HolderInv
<1>2. hnd'[h].sid = grant'[hnd'[h].req]
  BY <1>1, HolderRow DEF HolderOK
<1>3. KeepsRow(hnd[h])'
  BY <1>1, HolderRow DEF HolderOK, KeepsRow
<1>4. ModeOK(hnd[h])'
  BY <1>1, HolderRow DEF HolderOK, ModeOK, Committer, Reads
<1>5. CASE hnd[h].pc = "fetch" /\ hnd'[h].pc = "deliver" /\ UNCHANGED sess
  <2>1. Open(hnd[h])' => Open(l)
    BY HolderRow DEF Open
  <2> QED
    BY <1>1, <1>2, <1>3, <1>4, <1>5, <2>1 DEF HolderOK, Committer
<1>6. CASE Committer(hnd[h])' /\ ~Open(hnd[h])'
  BY <1>2, <1>3, <1>4, <1>6 DEF HolderOK, Committer
<1> QED
  BY <1>5, <1>6

LEMMA HolderMoves ==
    ASSUME VaultInv, [Next]_vars, NEW h \in Handlers, Presents(h)
    PROVE  HolderOK(hnd[h])'
<1> USE DEF VaultInv
<1>0. HolderOK(hnd[h]) /\ hnd[h] \in HandlerState
  BY DEF HolderInv, TypeOK
<1>1. ASSUME NEW r \in Requests, StartGet(h, r) \/ StartPut(h, r) \/ StartAbort(h, r)
      PROVE  HolderOK(hnd[h])'
  BY <1>1, HolderStarts, HolderAborts DEF StartGet, StartPut, Reads
<1>2. CASE Reply(h)
  BY <1>2, NextLocal DEF HolderOK, Holder, Idle
<1>3. CASE Fetch(h) /\ ~Reply(h)
  <2>1. /\ Holder(hnd[h]) /\ hnd[h].pc = "fetch"
        /\ UNCHANGED <<lease, sess>>
        /\ artifact[hnd[h].sid] # None
        /\ hnd[h].etag = None \/ artifact[hnd[h].sid] = hnd[h].etag
        /\ hnd' = [hnd EXCEPT ![h] = [@ EXCEPT !.pc = "deliver",
                                               !.etag = artifact[hnd[h].sid]]]
    BY <1>3 DEF Fetch, Holder, dbVars
  <2>2. hnd[h].etag = lease[hnd[h].req].base /\ hnd[h].etag # None
    <3>1. Reads(hnd[h].req) /\ hnd[h].req \in Requests
      BY <1>0, <2>1, HolderRow DEF HolderOK, ModeOK
    <3>2. access[hnd[h].req] # "create"
      BY <3>1 DEF Reads
    <3> QED
      BY <1>0, <2>1, <3>1, <3>2 DEF HolderOK, KeepsRow, RowInv, RowOK
  <2>3. /\ hnd'[h].pc = "deliver" /\ hnd'[h].req = hnd[h].req
        /\ hnd'[h].sid = hnd[h].sid /\ hnd'[h].etag = hnd[h].etag
    BY <1>3, <2>1, <2>2, ReadsAt
  <2> QED
    BY <2>1, <2>3, HolderGoesOn
<1>4. CASE Claim(h) /\ ~Reply(h)
  <2>1. /\ hnd[h].pc = "claim" /\ Goto(h, "put")
        /\ lease' = [lease EXCEPT ![hnd[h].req] = Consumed(@)]
    BY <1>4 DEF Claim
  <2>2. Holder(hnd[h])
    BY <2>1 DEF Holder
  <2>3. lease'[hnd[h].req].state # "open"
    BY <2>1, <2>2, HolderRow, ConsumedType DEF TypeOK
  <2> QED
    BY <2>1, <2>2, <2>3, NextLocal, HolderGoesOn DEF Committer, Open
<1>5. CASE (Put(h) \/ Finish(h)) /\ ~Reply(h)
  <2>1. /\ Committer(hnd[h])
        /\ Goto(h, "finish") \/ Goto(h, "undo")
        /\ UNCHANGED lease
    BY <1>5 DEF Put, Finish, Committer, dbVars
  <2>2. Holder(hnd[h]) /\ hnd[h].pc # "abort" /\ ~Open(hnd[h])
    BY <1>0, <2>1 DEF Holder, Committer, HolderOK
  <2> QED
    BY <2>1, <2>2, NextLocal, HolderGoesOn DEF Committer, Open
<1> QED
  BY <1>1, <1>2, <1>3, <1>4, <1>5 DEF Presents

\* A handler comes to commit only by the claim of an open row.
LEMMA CommitsFrom ==
    ASSUME VaultInv, [Next]_vars, NEW h \in Handlers, NEW r \in Requests, Commits(h, r)'
    PROVE  \/ Commits(h, r)
           \/ /\ Claim(h) /\ Acts(h) /\ hnd[h].pc = "claim" /\ hnd[h].req = r
              /\ Open(hnd[h])
<1> USE DEF VaultInv
<1>1. CASE hnd'[h] = hnd[h]
  BY <1>1 DEF Commits
<1>2. CASE Acts(h)
  <2>1. Presents(h)
    BY <1>2, HolderEnters DEF Holder, Commits
  <2>2. ~Reply(h)
    BY NextLocal DEF Commits, Idle
  <2>3. ~Fetch(h) /\ \A q \in Requests :
            ~StartGet(h, q) /\ ~StartPut(h, q) /\ ~StartAbort(h, q)
    BY <2>2, StartsAt, ReadsAt DEF Commits
  <2>7. CASE Claim(h)
    <3>1. Goto(h, "put") /\ hnd[h].pc = "claim" /\ OwnRow(h) /\ Claimable(lease[hnd[h].req])
      BY <2>2, <2>7 DEF Claim
    <3> QED
      BY <1>2, <2>7, <3>1, NextLocal DEF Commits, Open, OwnRow, Claimable, IsActive
  <2>8. CASE Put(h) \/ Finish(h)
    BY <2>2, <2>8, NextLocal DEF Put, Finish, Commits
  <2> QED
    BY <2>1, <2>3, <2>7, <2>8 DEF Presents
<1> QED
  BY <1>1, <1>2, HandlerStep

LEMMA OneCommitterStep ==
    ASSUME VaultInv, [Next]_vars
    PROVE  OneCommitter'
<1> USE DEF VaultInv
<1>1. ASSUME NEW g \in Handlers, NEW h \in Handlers, NEW r \in Requests, g # h,
             Commits(g, r), Commits(h, r)', Claim(h), hnd[h].req = r, Open(hnd[h]),
             hnd[h].pc = "claim"
      PROVE  FALSE
  <2>1. HolderOK(hnd[g]) /\ HolderOK(hnd[h])
    BY DEF HolderInv
  <2>2. hnd[g].sid = hnd[h].sid /\ ~Open(hnd[g])
    BY <1>1, <2>1 DEF HolderOK, Holder, Commits, Committer
  <2> QED
    BY <1>1, <2>2 DEF Open, Commits
<1> SUFFICES ASSUME NEW g \in Handlers, NEW h \in Handlers, NEW r \in Requests,
                    Commits(g, r)', Commits(h, r)', g # h
             PROVE  FALSE
  BY DEF OneCommitter
<1>2. CASE Commits(g, r) /\ Commits(h, r)
  BY <1>2 DEF HolderInv, OneCommitter
<1>3. CASE ~Commits(h, r)
  <2>1. /\ Claim(h) /\ Acts(h) /\ hnd[h].req = r /\ Open(hnd[h])
        /\ hnd[h].pc = "claim"
    BY <1>3, CommitsFrom
  <2>2. hnd'[g] = hnd[g]
    BY <2>1, OthersStay
  <2> QED
    BY <1>1, <2>1, <2>2 DEF Commits
<1>4. CASE ~Commits(g, r)
  <2>1. /\ Claim(g) /\ Acts(g) /\ hnd[g].req = r /\ Open(hnd[g])
        /\ hnd[g].pc = "claim"
    BY <1>4, CommitsFrom
  <2>2. hnd'[h] = hnd[h]
    BY <2>1, OthersStay
  <2> QED
    BY <1>1, <2>1, <2>2 DEF Commits
<1> QED
  BY <1>2, <1>3, <1>4

LEMMA HolderStep ==
    ASSUME VaultInv, [Next]_vars
    PROVE  HolderInv'
<1> USE DEF VaultInv
<1>1. ASSUME NEW h \in Handlers PROVE HolderOK(hnd[h])'
  <2>1. CASE hnd'[h] = hnd[h]
    BY <2>1, HolderKept
  <2>2. CASE Acts(h)
    BY <2>2, HolderEnters, HolderMoves DEF HolderOK
  <2> QED
    BY <2>1, <2>2, HandlerStep
<1> QED
  BY <1>1, OneCommitterStep DEF HolderInv

\* What a grant is about to record as its base.
LEMMA BatchStep ==
    ASSUME VaultInv, [Next]_vars
    PROVE  BatchInv'
<1> USE DEF VaultInv
<1> SUFFICES ASSUME NEW h \in Handlers, hnd'[h].pc \in {"slot", "batch"}
             PROVE  BaseOK(hnd[h])'
  BY DEF BatchInv, BaseOK
<1>0. access' = access /\ hnd[h] \in HandlerState
  BY LeaseStep DEF TypeOK
<1>1. ASSUME hnd'[h].req = hnd[h].req, hnd'[h].etag = hnd[h].etag,
             hnd[h].pc \in {"slot", "batch"}
      PROVE  BaseOK(hnd[h])'
  BY <1>0, <1>1 DEF BatchInv, BaseOK, Reads
<1>2. CASE hnd'[h] = hnd[h]
  BY <1>1, <1>2
<1>3. CASE Acts(h)
  <2>1. ~Reply(h)
    BY NextLocal DEF Idle
  <2>2. ASSUME NEW e, NEW c, AfterReconcile(h, e, c), hnd[h].pc \in {"head", "heal"}
        PROVE  BaseOK(hnd[h])'
    <3>1. /\ hnd[h].req # None /\ hnd'[h].req = hnd[h].req /\ hnd'[h].etag = e
          /\ Reads(hnd[h].req) => e # None
      BY <2>1, <2>2, ReconciledLocal DEF Idle
    <3>2. access[hnd[h].req] # "create"
      BY <2>2, <3>1 DEF CreationInv, LeftInv
    <3> QED
      BY <1>0, <3>1, <3>2 DEF BaseOK, Reads
  <2>3. CASE Reconciling(h)
    BY <2>2, <2>3, ReadsAt DEF Reconciling, HeadUnchanged, Heal
  <2>4. ASSUME NEW r \in Requests, StartCreateGrant(h, r) PROVE BaseOK(hnd[h])'
    BY <1>0, <2>4, StartsAt DEF StartCreateGrant, BaseOK, Reads
  <2>5. CASE FreeSlots(h)
    BY <1>1, <2>1, <2>5, NextLocal DEF FreeSlots
  <2>6. CASE Granting(h)
    BY <2>1, <2>4, <2>5, <2>6, StartsAt DEF Granting, GrantBatch, GrantRejected
  <2>7. ~Restoring(h) /\ ~Committing(h) /\ ~Aborting(h) /\ ~Revoking(h) /\ ~Crash(h)
    BY <2>1, StartsAt, ReadsAt, NextLocal
    DEF Restoring, Deliver, Committing, Claim, Put, Finish, Undo, Aborting, AbortBatch,
        Revoking, Erase, RevokeBatch, Crash
  <2> QED
    BY <1>3, <2>3, <2>6, <2>7, StartsAt DEF Acts
<1> QED
  BY <1>2, <1>3, HandlerStep

\* What is delivered is the base the capability was issued against.
LEMMA GotStep ==
    ASSUME VaultInv, [Next]_vars, ~\E h \in Handlers : GrantBatch(h),
           NEW r \in Requests, lease'[r].state # "none"
    PROVE  \/ lease'[r].got = lease[r].got
           \/ Reads(r) /\ lease'[r].got = lease[r].base
<1> USE DEF VaultInv
<1>0. lease[r] \in LeaseRow
  BY DEF TypeOK
<1>1. CASE EnsureSchema
  BY <1>1 DEF EnsureSchema, CleanLeases, NoLease
<1>2. CASE Consuming
  BY <1>0, <1>2 DEF Consuming, Consumed, LeaseRow
<1>3. ASSUME NEW h \in Handlers, Deliver(h)
      PROVE  \/ lease'[r].got = lease[r].got
             \/ Reads(r) /\ lease'[r].got = lease[r].base
  <2>1. CASE lease'[r] = lease[r]
    BY <2>1
  <2>2. CASE /\ r = hnd[h].req
             /\ lease'[r] = [lease[r] EXCEPT !.got = hnd[h].etag]
    <3>1. hnd[h].pc = "deliver" /\ HolderOK(hnd[h])
      BY <1>3 DEF Deliver, HolderInv
    <3>2. Reads(r) /\ hnd[h].etag = lease[r].base
      BY <2>2, <3>1 DEF HolderOK, Holder, ModeOK, KeepsRow, Reads
    <3>3. lease'[r].got = hnd[h].etag
      BY <1>0, <2>2 DEF LeaseRow
    <3> QED
      BY <3>2, <3>3
  <2> QED
    BY <1>3, <2>1, <2>2, DeliverMarks
<1> QED
  BY <1>1, <1>2, <1>3, LeaseCases

LEMMA RowStep ==
    ASSUME VaultInv, [Next]_vars
    PROVE  RowInv'
<1> USE DEF VaultInv
<1> SUFFICES ASSUME NEW r \in Requests PROVE RowOK(r)'
  BY DEF RowInv
<1>0. access' = access /\ RowOK(r)
  BY LeaseStep DEF RowInv
<1>1. ASSUME NEW h \in Handlers, GrantBatch(h) PROVE RowOK(r)'
  <2> DEFINE s == hnd[h].sid
  <2>1. /\ hnd[h].pc = "batch" /\ hnd[h].req \in Requests /\ s \in SessionIds
        /\ access[hnd[h].req] = "create" => Unknown(h)
        /\ access[hnd[h].req] # "create" => sess[s].state # "creating"
    BY <1>1, BatchRow DEF CreationInv, FreshInv, LeftInv, Creating, Returning
  <2>2. CASE hnd[h].req = r
    <3>1. /\ lease'[r].state = "open" /\ lease'[r].sid = s
          /\ lease'[r].base = hnd[h].etag /\ lease'[r].got = None
      BY <1>1, <2>2, BatchRow
    <3>2. /\ access[r] = "create" => hnd[h].etag = None
          /\ Reads(r) => hnd[h].etag # None
      BY <2>1, <2>2 DEF BatchInv, BaseOK
    <3>3. sess'[s].state = "creating" => access[r] = "create"
      BY <1>1, <2>1, <2>2, BatchAdds
    <3> QED
      BY <1>0, <2>1, <3>1, <3>2, <3>3 DEF RowOK, Reads
  <2>3. CASE hnd[h].req # r
    <3>1. lease'[r] = lease[r]
      BY <1>1, <2>3, BatchRow
    <3>2. ASSUME lease[r].state # "none", sess'[lease[r].sid].state = "creating"
          PROVE  sess[lease[r].sid].state = "creating"
      <4>1. lease[r].sid \in SessionIds
        BY <1>0, <3>2 DEF RowOK
      <4> QED
        BY <1>1, <2>1, <3>2, <4>1, BatchAdds DEF Unknown
    <3> QED
      BY <1>0, <3>1, <3>2 DEF RowOK, Reads
  <2> QED
    BY <2>2, <2>3
<1>2. CASE ~\E h \in Handlers : GrantBatch(h)
  <2>1. Narrows(lease[r], lease'[r])
    BY <1>2, LeaseStep
  <2>2. CASE lease'[r].state = "none"
    <3>1. lease'[r].base = None /\ lease'[r].got = None
      BY <1>0, <2>1, <2>2 DEF Narrows, NoLease, RowOK
    <3> QED
      BY <1>0, <2>2, <3>1 DEF RowOK
  <2>3. CASE lease'[r].state # "none"
    <3>1. /\ lease[r].state # "none"
          /\ lease'[r].sid = lease[r].sid
          /\ lease'[r].base = lease[r].base
      BY <2>1, <2>3 DEF Narrows
    <3>2. \/ lease'[r].got = lease[r].got
          \/ Reads(r) /\ lease'[r].got = lease[r].base
      BY <1>2, <2>3, GotStep
    <3>3. SessMoves(lease[r].sid)
      BY <1>0, <1>2, <3>1, SessionStep DEF RowOK
    <3>4. sess'[lease[r].sid].state = "creating" => sess[lease[r].sid].state = "creating"
      BY <3>3 DEF SessMoves, Drops, Heals, Records, Revokes, NoSession
    <3> QED
      BY <1>0, <2>3, <3>1, <3>2, <3>4 DEF RowOK, Reads
  <2> QED
    BY <2>2, <2>3
<1> QED
  BY <1>1, <1>2

LEMMA VaultInit == Init => VaultInv
<1> SUFFICES ASSUME Init PROVE VaultInv
  OBVIOUS
<1>1. TypeOK /\ SlotInv /\ RowsExist /\ CreationInv
  BY TypeInit, SlotInit, CreationInit
<1>2. GrantOnce /\ RowInv
  BY DEF Init, GrantOnce, RowInv, RowOK, NoLease
<1>3. BatchInv /\ HolderInv
  BY DEF Init, BatchInv, BaseOK, HolderInv, HolderOK, Holder, OneCommitter, Commits, Idle
<1> QED
  BY <1>1, <1>2, <1>3 DEF VaultInv

LEMMA VaultStep == VaultInv /\ [Next]_vars => VaultInv'
<1> SUFFICES ASSUME VaultInv, [Next]_vars PROVE VaultInv'
  OBVIOUS
<1>1. (TypeOK /\ SlotInv /\ RowsExist /\ CreationInv)'
  BY TypeStep, SlotStep, CreationStep DEF VaultInv
<1>2. (GrantOnce /\ RowInv /\ BatchInv /\ HolderInv)'
  BY GrantStep, RowStep, BatchStep, HolderStep DEF VaultInv
<1> QED
  BY <1>1, <1>2 DEF VaultInv

LEMMA VaultInvariant == Spec => []VaultInv
BY VaultInit, VaultStep, PTL DEF Spec

\* However often a holder repeats its PUT, and whatever clean-ups, late grants
\* and deaths come between, one of them at a time gets past the claim, and the
\* lease is not open again after it.
THEOREM VaultOneCommit == Spec => []OneCommitPerCapability
<1>1. VaultInv => OneCommitPerCapability
  <2> SUFFICES ASSUME VaultInv, NEW h \in Handlers, NEW r \in Requests, Commits(h, r)
               PROVE  /\ ~(lease[r].sid = hnd[h].sid /\ lease[r].state = "open")
                      /\ \A g \in Handlers : Commits(g, r) => g = h
    BY DEF OneCommitPerCapability
  <2>1. ~Open(hnd[h]) /\ hnd[h].req = r
    BY DEF VaultInv, HolderInv, HolderOK, Holder, Committer, Commits
  <2> QED
    BY <2>1 DEF Open, VaultInv, HolderInv, OneCommitter
<1> QED
  BY <1>1, VaultInvariant, PTL

\* A revocation that falls between the check of a handler and its mark or its
\* claim stops it there: nothing is delivered and no commit starts while the
\* session is revoked.
THEOREM VaultRevokedStopsHolders == Spec => RevokedStopsHolders
<1> DEFINE A == \A h \in Handlers :
                  \/ hnd[h].pc = "claim" /\ hnd'[h].pc = "put"
                  \/ /\ hnd[h].pc = "deliver"
                     /\ lease'[hnd[h].req].got # lease[hnd[h].req].got
                  => sess[hnd[h].sid].state \notin {"absent", "revoked"}
<1>1. VaultInv /\ [Next]_vars => A
  <2> SUFFICES ASSUME VaultInv, [Next]_vars, NEW h \in Handlers,
                      \/ hnd[h].pc = "claim" /\ hnd'[h].pc = "put"
                      \/ /\ hnd[h].pc = "deliver"
                         /\ lease'[hnd[h].req].got # lease[hnd[h].req].got
               PROVE  sess[hnd[h].sid].state \notin {"absent", "revoked"}
    OBVIOUS
  <2> USE DEF VaultInv
  <2>1. HolderOK(hnd[h])
    BY DEF HolderInv
  <2>2. CASE hnd[h].pc = "claim" /\ hnd'[h].pc = "put"
    <3>1. hnd'[h].req \in Requests
      BY <2>2, TypeStep DEF TypeOK, Placed
    <3>2. Open(hnd[h])
      BY <2>2, <3>1, CommitsFrom DEF Commits
    <3> QED
      BY <2>1, <2>2, <3>2 DEF HolderOK, Holder
  <2>3. CASE /\ hnd[h].pc = "deliver"
             /\ lease'[hnd[h].req].got # lease[hnd[h].req].got
    <3> DEFINE r == hnd[h].req
    <3>1. r \in Requests /\ lease[r] \in LeaseRow /\ Reads(r) /\ lease[r].state # "none"
      BY <2>1, <2>3 DEF TypeOK, Placed, HolderOK, Holder, ModeOK, KeepsRow, Reads
    <3>2. lease'[r].state # "none"
      BY <3>1, RowVanishes DEF Reads
    <3>a. ~EnsureSchema
      BY <2>3, <3>1, <3>2 DEF EnsureSchema, CleanLeases, NoLease
    <3>b. ~Consuming
      <4>1. Consumed(lease[r]).got = lease[r].got
        BY <3>1 DEF Consumed, LeaseRow
      <4> QED
        BY <2>3, <3>1, <4>1 DEF Consuming
    <3>3. ~EnsureSchema /\ ~Consuming
      BY <3>a, <3>b
    <3>4. ~\E g \in Handlers : GrantBatch(g)
      BY <2>3, <3>1, BatchRow
    <3>5. PICK g \in Handlers : Deliver(g)
      BY <3>3, <3>4, LeaseCases
    <3>6. /\ hnd[g].req = r /\ hnd[g].pc = "deliver" /\ OwnRow(g)
          /\ IsActive(lease[r])
      BY <2>3, <3>1, <3>5, DeliverMarks DEF Deliver
    <3>7. HolderOK(hnd[g]) /\ Open(hnd[g])
      BY <3>6 DEF HolderInv, Open, OwnRow, IsActive
    <3> QED
      BY <2>1, <2>3, <3>6, <3>7 DEF HolderOK, Holder
  <2> QED
    BY <2>2, <2>3
<1>2. VaultInv /\ [Next]_vars => [A]_vars
  BY <1>1
<1> QED
  BY <1>2, VaultInvariant, PTL DEF Spec, RevokedStopsHolders

-----------------------------------------------------------------------------
(***************************************************************************)
(* The artifact: what replaces it, and what takes it away.                 *)
(***************************************************************************)
\* Only an allowed R2 put stores, only an undo or a revocation deletes.
LEMMA ArtifactStep ==
    ASSUME TypeOK, [Next]_vars, NEW s \in SessionIds
    PROVE  \/ artifact'[s] = artifact[s]
           \/ \E h \in Handlers :
                 /\ hnd[h].sid = s
                 /\ \/ Put(h) /\ PutAllowed(h) /\ artifact'[s] = hnd[h].req
                    \/ (Undo(h) \/ Erase(h)) /\ artifact'[s] = None
<1> DEFINE Goal ==
        \/ artifact'[s] = artifact[s]
        \/ \E h \in Handlers :
              /\ hnd[h].sid = s
              /\ \/ Put(h) /\ PutAllowed(h) /\ artifact'[s] = hnd[h].req
                 \/ (Undo(h) \/ Erase(h)) /\ artifact'[s] = None
<1>a. UNCHANGED artifact => Goal
  OBVIOUS
<1>1. CASE Tick \/ OtherCall \/ UNCHANGED vars
  BY <1>1, <1>a DEF Tick, OtherCall, vars
<1>2. ASSUME NEW r \in Requests, Decide(r) PROVE Goal
  BY <1>2, <1>a DEF Decide
<1>3. ASSUME NEW h \in Handlers, StartResolve(h) \/ Reconciling(h) PROVE Goal
  BY <1>3, <1>a DEF StartResolve, Reconciling, HeadUnchanged, HeadChanged, Heal
<1>4. ASSUME NEW h \in Handlers, Granting(h) PROVE Goal
  BY <1>4, <1>a
  DEF Granting, StartCreateGrant, StartGrant, FreeSlots, GrantBatch, GrantRejected
<1>5. ASSUME NEW h \in Handlers, Restoring(h) PROVE Goal
  BY <1>5, <1>a DEF Restoring, StartGet, StartWith, Fetch, Deliver
<1>6. ASSUME NEW h \in Handlers, Put(h) \/ Undo(h) \/ Erase(h) PROVE Goal
  BY <1>6 DEF Put, Undo, Erase, StoredETag, TypeOK
<1>7. ASSUME NEW h \in Handlers, Committing(h) PROVE Goal
  BY <1>6, <1>7, <1>a DEF Committing, StartPut, StartWith, Claim, Finish
<1>8. ASSUME NEW h \in Handlers, Aborting(h) \/ Revoking(h) \/ Crash(h) PROVE Goal
  BY <1>6, <1>8, <1>a
  DEF Aborting, StartAbort, AbortBatch, Revoking, StartRevoke, RevokeBatch, Crash
<1> QED
  BY <1>1, <1>2, <1>3, <1>4, <1>5, <1>7, <1>8 DEF Next

\* What a put of a restored session replaces is what was delivered.
THEOREM VaultNoLostUpdate == Spec => NoLostUpdate
<1> DEFINE A == \A s \in SessionIds, r \in Requests :
                  /\ artifact'[s] = r
                  /\ artifact[s] # r
                  /\ access[r] = "restore_and_update"
                  => lease[r].sid = s /\ lease[r].got = artifact[s]
<1>1. VaultInv /\ [Next]_vars => A
  <2> SUFFICES ASSUME VaultInv, [Next]_vars, NEW s \in SessionIds, NEW r \in Requests,
                      artifact'[s] = r, artifact[s] # r,
                      access[r] = "restore_and_update"
               PROVE  lease[r].sid = s /\ lease[r].got = artifact[s]
    OBVIOUS
  <2> USE DEF VaultInv
  <2>1. PICK h \in Handlers : /\ hnd[h].sid = s /\ hnd[h].req = r
                              /\ hnd[h].pc = "put" /\ PutAllowed(h)
    BY ArtifactStep, NoneAssumption DEF Put
  <2>2. artifact[s] = hnd[h].etag
    BY <2>1 DEF PutAllowed
  <2>3. KeepsRow(hnd[h]) /\ ModeOK(hnd[h])
    BY <2>1 DEF HolderInv, HolderOK, Holder
  <2>4. lease[r].sid = s /\ lease[r].base = hnd[h].etag /\ lease[r].got # None
    BY <2>1, <2>3 DEF KeepsRow, ModeOK, Committer
  <2>5. lease[r].got = lease[r].base
    BY <2>4 DEF RowInv, RowOK
  <2> QED
    BY <2>2, <2>4, <2>5
<1>2. VaultInv /\ [Next]_vars => [A]_vars
  BY <1>1
<1> QED
  BY <1>2, VaultInvariant, PTL DEF Spec, NoLostUpdate

\* The session is being revoked, or its row is gone for good.
Gone(s) == sess[s].state = "absent" \/ s \in revoking

KeptBy(h) ==
    LET l == hnd[h]
    IN  /\ l.pc \in {"erase", "revoke"} => l.sid \in revoking
        /\ l.pc = "heal" => l.etag # None
        /\ l.pc = "undo" => Gone(l.sid)
        /\ l.pc = "finish" => artifact[l.sid] # None \/ Gone(l.sid)

\* An acknowledged artifact can go only by an R2 delete, by a handler that
\* either revokes the session or found its row revoked or gone; and a row that
\* is gone while a handler works on it does not come back (FreshInv).
KeptInv ==
    /\ AcknowledgedIsKept
    /\ \A s \in SessionIds : sess[s].state = "revoked" => s \in revoking
    /\ \A h \in Handlers : KeptBy(h)

LEMMA HistoryStep ==
    ASSUME [Next]_vars
    PROVE  /\ revoking \subseteq revoking'
           /\ \/ acked' = acked
              \/ \E h \in Handlers : /\ Finish(h) /\ RowLive(hnd[h].sid)
                                     /\ acked' = acked \union {hnd[h].sid}
<1> DEFINE Goal ==
        /\ revoking \subseteq revoking'
        /\ \/ acked' = acked
           \/ \E h \in Handlers : /\ Finish(h) /\ RowLive(hnd[h].sid)
                                  /\ acked' = acked \union {hnd[h].sid}
<1> USE DEF histVars
<1>a. UNCHANGED histVars => Goal
  OBVIOUS
<1>1. CASE Tick \/ OtherCall \/ UNCHANGED vars
  BY <1>1, <1>a DEF Tick, OtherCall, vars
<1>2. ASSUME NEW r \in Requests, Decide(r) PROVE Goal
  BY <1>2, <1>a DEF Decide
<1>3. ASSUME NEW h \in Handlers, StartResolve(h) \/ Reconciling(h) PROVE Goal
  BY <1>3, <1>a DEF StartResolve, Reconciling, HeadUnchanged, HeadChanged, Heal
<1>4. ASSUME NEW h \in Handlers, Granting(h) PROVE Goal
  BY <1>4, <1>a
  DEF Granting, StartCreateGrant, StartGrant, FreeSlots, GrantBatch, GrantRejected
<1>5. ASSUME NEW h \in Handlers, Restoring(h) PROVE Goal
  BY <1>5, <1>a DEF Restoring, StartGet, StartWith, Fetch, Deliver
<1>6. ASSUME NEW h \in Handlers, Finish(h) PROVE Goal
  BY <1>6 DEF Finish, Finalized
<1>7. ASSUME NEW h \in Handlers, Committing(h) PROVE Goal
  BY <1>6, <1>7, <1>a DEF Committing, StartPut, StartWith, Claim, Put, Undo
<1>8. ASSUME NEW h \in Handlers, Aborting(h) \/ Revoking(h) \/ Crash(h) PROVE Goal
  BY <1>8, <1>a
  DEF Aborting, StartAbort, AbortBatch, Revoking, StartRevoke, Erase, RevokeBatch, Crash
<1> QED
  BY <1>1, <1>2, <1>3, <1>4, <1>5, <1>7, <1>8 DEF Next

\* While a handler past its grant works on a session that is gone, it stays so.
LEMMA GoneStays ==
    ASSUME VaultInv, [Next]_vars, NEW h \in Handlers, Committer(hnd[h]),
           NEW s, s = hnd[h].sid, Gone(s)
    PROVE  Gone(s)'
<1> USE DEF VaultInv
<1>1. s \in SessionIds
  BY DEF TypeOK, Placed, Committer
<1>2. CASE s \in revoking
  BY <1>2, HistoryStep DEF Gone
<1>3. CASE sess[s].state = "absent"
  <2>1. ASSUME NEW g \in Handlers, GrantBatch(g) PROVE sess'[s] = sess[s]
    <3>1. CASE s = hnd[g].sid /\ access[hnd[g].req] = "create"
      <4>1. hnd[g].pc = "batch" /\ Unknown(g)
        BY <2>1, <3>1, BatchRow DEF CreationInv, FreshInv, Creating
      <4> QED
        BY <3>1, <4>1 DEF Unknown, Committer
    <3> QED
      BY <1>1, <2>1, <3>1, BatchAdds
  <2>2. SessMoves(s) => sess'[s] = sess[s]
    BY <1>3 DEF SessMoves, Drops, Heals, Records, RowLive, Revokes
  <2>3. sess'[s] = sess[s]
    BY <1>1, <2>1, <2>2, SessionStep
  <2> QED
    BY <1>3, <2>3 DEF Gone
<1> QED
  BY <1>2, <1>3 DEF Gone

LEMMA KeptByStep ==
    ASSUME VaultInv, KeptInv, [Next]_vars, NEW h \in Handlers
    PROVE  KeptBy(h)'
<1> USE DEF VaultInv
<1>1. KeptBy(h) /\ revoking \subseteq revoking'
  BY HistoryStep DEF KeptInv
<1>2. CASE hnd'[h] = hnd[h]
  <2>0. PICK s : s = hnd[h].sid
    OBVIOUS
  <2>1. hnd[h].pc = "undo" => Gone(s)'
    BY <1>1, <2>0, GoneStays DEF KeptBy, Committer
  <2>2. ASSUME hnd[h].pc = "finish" PROVE artifact'[s] # None \/ Gone(s)'
    <3>1. s \in SessionIds
      BY <2>0, <2>2 DEF TypeOK, Placed
    <3>2. CASE Gone(s)
      BY <2>0, <2>2, <3>2, GoneStays DEF Committer
    <3>3. CASE artifact[s] # None /\ artifact'[s] = None
      <4>1. PICK g \in Handlers : hnd[g].sid = s /\ hnd[g].pc \in {"undo", "erase"}
        <5>1. ASSUME NEW g \in Handlers, Put(g) PROVE hnd[g].req # None
          BY <5>1, NoneAssumption DEF Put, TypeOK, Placed
        <5> QED
          BY <3>1, <3>3, <5>1, ArtifactStep DEF Undo, Erase
      <4>2. Gone(s)
        BY <4>1 DEF KeptInv, KeptBy, Gone
      <4> QED
        BY <2>0, <2>2, <4>2, GoneStays DEF Committer
    <3> QED
      BY <1>1, <2>0, <2>2, <3>2, <3>3 DEF KeptBy
  <2> QED
    BY <1>1, <1>2, <2>0, <2>1, <2>2 DEF KeptBy, Gone
<1>3. CASE Acts(h)
  <2>a. hnd'[h] = Idle => KeptBy(h)'
    BY DEF KeptBy, Idle
  <2>b. hnd'[h].pc \notin {"erase", "revoke", "heal", "undo", "finish"} => KeptBy(h)'
    BY DEF KeptBy
  <2>1. CASE StartResolve(h) \/ Granting(h) \/ Aborting(h) \/ Restoring(h) \/ Crash(h)
    <3>1. CASE StartResolve(h) \/ Granting(h)
      BY <3>1, <2>a, <2>b, StartsAt, NextLocal
      DEF Granting, FreeSlots, GrantBatch, GrantRejected
    <3>2. CASE Aborting(h)
      BY <3>2, <2>a, <2>b, StartsAt, NextLocal DEF Aborting, AbortBatch
    <3>3. CASE Restoring(h)
      BY <3>3, <2>a, <2>b, StartsAt, ReadsAt, NextLocal DEF Restoring, Deliver
    <3>4. CASE Crash(h)
      BY <3>4, <2>a, NextLocal DEF Crash
    <3> QED
      BY <2>1, <3>1, <3>2, <3>3, <3>4
  <2>2. CASE Reconciling(h)
    <3>1. ASSUME NEW e, NEW c, AfterReconcile(h, e, c) PROVE KeptBy(h)'
      BY <2>a, <2>b, <3>1, ReconciledLocal
    <3>2. CASE HeadChanged(h)
      BY <3>2, ReadsAt DEF HeadChanged, KeptBy
    <3> QED
      BY <2>2, <3>1, <3>2 DEF Reconciling, HeadUnchanged, Heal
  <2>3. CASE Committing(h)
    <3>1. CASE Reply(h) \/ Claim(h) \/ \E r \in Requests : StartPut(h, r)
      BY <2>a, <2>b, <3>1, StartsAt, NextLocal DEF Claim
    <3>2. CASE Put(h) /\ ~Reply(h)
      <4>1. /\ hnd[h].req \in Requests /\ hnd[h].sid \in SessionIds
            /\ hnd'[h].pc = "finish" /\ hnd'[h].sid = hnd[h].sid
        BY <3>2, NextLocal DEF Put, TypeOK, Placed
      <4>2. artifact'[hnd[h].sid] # None
        BY <3>2, <4>1, NoneAssumption DEF Put, StoredETag, TypeOK
      <4> QED
        BY <4>1, <4>2 DEF KeptBy
    <3>3. CASE Finish(h) /\ ~Reply(h)
      <4>1. /\ hnd[h].sid \in SessionIds /\ hnd[h].pc = "finish"
            /\ hnd'[h].pc = "undo" /\ hnd'[h].sid = hnd[h].sid
            /\ ~RowLive(hnd[h].sid)
        BY <3>3, NextLocal DEF Finish, Finalized, TypeOK, Placed
      <4>2. PICK s : s = hnd[h].sid
        OBVIOUS
      <4>3. Gone(s)
        BY <4>1, <4>2 DEF RowLive, KeptInv, Gone
      <4>4. Gone(s)'
        BY <4>1, <4>2, <4>3, GoneStays DEF Committer
      <4> QED
        BY <4>1, <4>2, <4>4 DEF KeptBy, Gone
    <3> QED
      BY <2>3, <3>1, <3>2, <3>3 DEF Committing, Undo
  <2>4. CASE Revoking(h)
    <3>1. ASSUME NEW s \in SessionIds, StartRevoke(h, s) PROVE KeptBy(h)'
      <4>1. hnd'[h].sid = s /\ hnd'[h].pc = "erase" /\ s \in revoking'
        BY <3>1, NextLocal, ZenonT(40) DEF StartRevoke, Idle
      <4> QED
        BY <4>1 DEF KeptBy
    <3>2. CASE Erase(h)
      <4>1. /\ hnd[h].pc = "erase"
            /\ hnd'[h].pc = "revoke" /\ hnd'[h].sid = hnd[h].sid
        BY <3>2, NextLocal DEF Erase
      <4> QED
        BY <1>1, <4>1 DEF KeptBy
    <3> QED
      BY <2>4, <2>a, <3>1, <3>2, NextLocal DEF Revoking, RevokeBatch
  <2> QED
    BY <1>3, <2>1, <2>2, <2>3, <2>4 DEF Acts
<1> QED
  BY <1>2, <1>3, HandlerStep

LEMMA KeptStep ==
    ASSUME VaultInv, KeptInv, [Next]_vars
    PROVE  KeptInv'
<1> USE DEF VaultInv
<1>1. ASSUME NEW s \in SessionIds, sess'[s].state = "revoked" PROVE s \in revoking'
  <2>1. ASSUME NEW h \in Handlers, GrantBatch(h) PROVE sess[s].state = "revoked"
    BY <1>1, <2>1, BatchAdds
  <2>2. SessMoves(s) => sess[s].state = "revoked" \/ Revokes(s)
    BY <1>1 DEF SessMoves, Drops, NoSession, Heals, Records
  <2>3. sess[s].state = "revoked" \/ Revokes(s)
    BY <2>1, <2>2, SessionStep
  <2>4. s \in revoking
    BY <2>3 DEF Revokes, KeptInv, KeptBy
  <2> QED
    BY <2>4, HistoryStep
<1>2. ASSUME NEW s \in acked' \ revoking'
      PROVE  /\ sess'[s].state \in {"healthy", "reauth_required"}
             /\ sess'[s].etag # None
             /\ artifact'[s] # None
  <2>1. s \notin revoking /\ s \in SessionIds
    BY HistoryStep, TypeStep DEF TypeOK
  <2>2. CASE s \in acked
    <3>1. /\ sess[s].state \in {"healthy", "reauth_required"}
          /\ sess[s].etag # None
          /\ artifact[s] # None
      BY <2>1, <2>2 DEF KeptInv, AcknowledgedIsKept
    <3>2. ~Gone(s)
      BY <2>1, <3>1 DEF Gone
    <3>3. ~Revokes(s)
      BY <2>1 DEF Revokes, KeptInv, KeptBy
    <3>4. Heals(s) => sess'[s].state = "healthy" /\ sess'[s].etag # None
      BY DEF Heals, Healing, KeptInv, KeptBy
    <3>5. SessMoves(s) => /\ sess'[s].state \in {"healthy", "reauth_required"}
                          /\ sess'[s].etag # None
      BY <3>1, <3>3, <3>4, NoneAssumption DEF SessMoves, Drops, Records
    <3>6. ASSUME NEW h \in Handlers, GrantBatch(h) PROVE sess'[s] = sess[s]
      BY <2>1, <3>1, <3>6, BatchAdds
    <3>7. artifact'[s] # None
      <4>1. ASSUME NEW h \in Handlers, hnd[h].sid = s, Undo(h) \/ Erase(h) PROVE FALSE
        BY <2>1, <3>2, <4>1 DEF Undo, Erase, KeptInv, KeptBy
      <4>2. ASSUME NEW h \in Handlers, Put(h) PROVE hnd[h].req # None
        BY <4>2, NoneAssumption DEF Put, TypeOK, Placed
      <4> QED
        BY <2>1, <3>1, <4>1, <4>2, ArtifactStep
    <3> QED
      BY <2>1, <3>1, <3>5, <3>6, <3>7, SessionStep
  <2>3. CASE s \notin acked
    <3>1. PICK h \in Handlers : Finish(h) /\ RowLive(s) /\ hnd[h].sid = s
      BY <2>3, HistoryStep
    <3>2. /\ hnd[h].pc = "finish" /\ hnd[h].req \in Requests
          /\ artifact' = artifact
          /\ sess'[s] = [state |-> "healthy", etag |-> hnd[h].req, updated |-> now]
      BY <2>1, <3>1 DEF Finish, StoredETag, TypeOK, Placed
    <3>3. artifact[s] # None
      BY <2>1, <3>1, <3>2 DEF KeptInv, KeptBy, Gone, RowLive
    <3> QED
      BY <3>2, <3>3, NoneAssumption
  <2> QED
    BY <2>2, <2>3
<1> QED
  BY <1>1, <1>2, KeptByStep DEF KeptInv, AcknowledgedIsKept

\* An artifact that was acknowledged stays stored and recorded, unless the
\* revocation of its session is asked for: no clean-up, abort, late commit or
\* late undo takes it away.
THEOREM VaultAcknowledgedIsKept == Spec => []AcknowledgedIsKept
<1>1. Init => KeptInv
  BY DEF Init, KeptInv, AcknowledgedIsKept, KeptBy, NoSession, Idle
<1>2. VaultInv /\ KeptInv /\ [Next]_vars => KeptInv'
  BY KeptStep
<1>3. KeptInv => AcknowledgedIsKept
  BY DEF KeptInv
<1> QED
  BY <1>1, <1>2, <1>3, VaultInvariant, PTL DEF Spec

-----------------------------------------------------------------------------
(***************************************************************************)
(* The vault implements the abstract cell.                                 *)
(*                                                                         *)
(* Under the refinement mapping of Cell every step is one of the cell's:   *)
(* the grant batch issues, a claim that goes on claims, an R2 put stores   *)
(* or abandons, a death before it abandons, an R2 delete erases, and       *)
(* whatever else happens (expiry, clean-up, abort, revocation) releases    *)
(* the rights of some sessions, maybe of none.                             *)
(***************************************************************************)
CellWriter == [s \in SessionIds |-> Writer(s)]
CellClaims == {<<hnd[h].req, hnd[h].sid>> : h \in {g \in Handlers : hnd[g].pc = "put"}}
CellBasis  == [r \in Requests |-> lease[r].base]

LEMMA WriterIs ==
    ASSUME SlotInv, NEW s \in SessionIds
    PROVE  /\ Writer(s) \in Requests \union {None}
           /\ Writer(s) # None => Writes(Writer(s), s)
           /\ \A r \in Requests : Writes(r, s) => Writer(s) = r
           /\ (\A r \in Requests : ~Writes(r, s)) => Writer(s) = None
<1>1. \A r1, r2 \in Requests : Writes(r1, s) /\ Writes(r2, s) => r1 = r2
  BY SlotInvImplies DEF SingleWriter
<1>2. CASE \E r \in Requests : Writes(r, s)
  <2>1. Writer(s) = CHOOSE r \in Requests : Writes(r, s)
    BY <1>2 DEF Writer
  <2>2. Writer(s) \in Requests /\ Writes(Writer(s), s)
    BY <1>2, <2>1
  <2> QED
    BY <1>1, <1>2, <2>2
<1>3. CASE ~\E r \in Requests : Writes(r, s)
  BY <1>3 DEF Writer
<1> QED
  BY <1>2, <1>3

\* The same of the state after a step.
LEMMA WriterIsNext ==
    ASSUME SlotInv', NEW s \in SessionIds
    PROVE  /\ Writer(s)' \in Requests \union {None}
           /\ \A r \in Requests : r = Writer(s)' => Writes(r, s)' \/ r = None
           /\ \A r \in Requests : Writes(r, s)' => Writer(s)' = r
           /\ (\A r \in Requests : ~Writes(r, s)') => Writer(s)' = None
<1>1. \A r1, r2 \in Requests : Writes(r1, s)' /\ Writes(r2, s)' => r1 = r2
  BY DEF SlotInv, SlotHeld, SlotUnique, Writes, IsActive
<1>2. CASE \E r \in Requests : Writes(r, s)'
  <2>1. Writer(s)' = CHOOSE r \in Requests : Writes(r, s)'
    BY <1>2 DEF Writer
  <2>2. \E r \in Requests : r = Writer(s)' /\ Writes(r, s)'
    BY <1>2, <2>1
  <2> QED
    BY <1>1, <1>2, <2>2
<1>3. CASE ~\E r \in Requests : Writes(r, s)'
  BY <1>3 DEF Writer
<1> QED
  BY <1>2, <1>3

LEMMA ClockStep ==
    ASSUME TypeOK, [Next]_vars
    PROVE  now' \in Nat /\ now <= now'
<1> DEFINE Goal == now' \in Nat /\ now <= now'
<1>0. now \in Nat
  BY DEF TypeOK
<1>a. UNCHANGED now => Goal
  BY <1>0
<1>1. CASE Tick
  BY <1>0, <1>1 DEF Tick
<1>2. CASE OtherCall \/ UNCHANGED vars
  BY <1>2, <1>a DEF OtherCall, vars
<1>3. ASSUME NEW r \in Requests, Decide(r) PROVE Goal
  BY <1>3, <1>a DEF Decide
<1>4. ASSUME NEW h \in Handlers, StartResolve(h) \/ Reconciling(h) PROVE Goal
  BY <1>4, <1>a DEF StartResolve, Reconciling, HeadUnchanged, HeadChanged, Heal
<1>5. ASSUME NEW h \in Handlers, Granting(h) PROVE Goal
  BY <1>5, <1>a
  DEF Granting, StartCreateGrant, StartGrant, FreeSlots, GrantBatch, GrantRejected
<1>6. ASSUME NEW h \in Handlers, Restoring(h) PROVE Goal
  BY <1>6, <1>a DEF Restoring, StartGet, StartWith, Fetch, Deliver
<1>7. ASSUME NEW h \in Handlers, Committing(h) PROVE Goal
  BY <1>7, <1>a DEF Committing, StartPut, StartWith, Claim, Put, Finish, Undo
<1>8. ASSUME NEW h \in Handlers, Aborting(h) \/ Revoking(h) \/ Crash(h) PROVE Goal
  BY <1>8, <1>a
  DEF Aborting, StartAbort, AbortBatch, Revoking, StartRevoke, Erase, RevokeBatch, Crash
<1> QED
  BY <1>1, <1>2, <1>3, <1>4, <1>5, <1>6, <1>7, <1>8 DEF Next

\* Without a grant, a right to write can only lapse, and no basis changes.
LEMMA RightsLapse ==
    ASSUME VaultInv, VaultInv', [Next]_vars,
           \A r \in Requests : Narrows(lease[r], lease'[r])
    PROVE  /\ \A r \in Requests, s \in SessionIds : Writes(r, s)' => Writes(r, s)
           /\ \A s \in SessionIds : Writer(s)' \in {Writer(s), None}
           /\ CellBasis' = CellBasis
<1> USE DEF VaultInv
<1>1. access' = access /\ now \in Nat /\ now' \in Nat /\ now <= now'
  BY LeaseStep, ClockStep DEF TypeOK
<1>2. ASSUME NEW r \in Requests, NEW s \in SessionIds, Writes(r, s)' PROVE Writes(r, s)
  <2>1. /\ lease[r].state = "open" /\ lease[r].sid = s
        /\ lease[r].expires = lease'[r].expires
    BY <1>2 DEF Writes, IsActive, Narrows
  <2>2. lease[r].expires \in Nat
    BY DEF TypeOK, LeaseRow
  <2> QED
    BY <1>1, <1>2, <2>1, <2>2 DEF Writes, IsActive
<1>3. ASSUME NEW s \in SessionIds PROVE Writer(s)' \in {Writer(s), None}
  <2>1. CASE Writer(s)' # None
    <3>1. PICK r \in Requests : r = Writer(s)' /\ Writes(r, s)'
      BY <2>1, WriterIsNext
    <3> QED
      BY <1>2, <3>1, WriterIs
  <2> QED
    BY <2>1
<1>4. ASSUME NEW r \in Requests PROVE lease'[r].base = lease[r].base
  <2>1. Narrows(lease[r], lease'[r]) /\ RowOK(r) /\ RowOK(r)'
    BY DEF RowInv
  <2>2. CASE lease'[r].state # "none"
    BY <2>1, <2>2 DEF Narrows
  <2>3. CASE lease[r].state = "none"
    BY <2>1, <2>2, <2>3 DEF RowOK
  <2>4. CASE lease[r].state # "none" /\ lease'[r].state = "none"
    BY <1>1, <2>1, <2>4, RowVanishes DEF RowOK
  <2> QED
    BY <2>2, <2>3, <2>4
<1> QED
  BY <1>2, <1>3, <1>4 DEF CellBasis

\* Who enters and who leaves the stretch between claim and R2 put.
LEMMA PutStep ==
    ASSUME VaultInv, [Next]_vars, NEW h \in Handlers
    PROVE  \/ hnd'[h] = hnd[h]
           \/ /\ Acts(h) /\ hnd[h].pc # "put" /\ hnd'[h].pc # "put"
           \/ /\ Acts(h) /\ Claim(h) /\ Goto(h, "put")
              /\ hnd[h].pc # "put" /\ Open(hnd[h])
           \/ /\ Acts(h)
              /\ Put(h) \/ Crash(h)
              /\ hnd[h].pc = "put" /\ hnd'[h].pc # "put"
<1> USE DEF VaultInv
<1>1. CASE Acts(h) /\ hnd[h].pc = "put"
  <2>1. Put(h) \/ Crash(h)
    BY <1>1 DEF Acts, StartResolve, Reconciling, HeadUnchanged, HeadChanged, Heal,
       Granting, StartCreateGrant, StartGrant, FreeSlots, GrantBatch, GrantRejected,
       Restoring, StartGet, StartWith, Fetch, Deliver, Committing, StartPut, Claim,
       Finish, Undo, Aborting, StartAbort, AbortBatch, Revoking, StartRevoke, Erase,
       RevokeBatch, Begin
  <2>2. hnd'[h].pc # "put"
    BY <2>1, NextLocal DEF Put, Crash, Idle
  <2> QED
    BY <1>1, <2>1, <2>2
<1>2. CASE Acts(h) /\ hnd[h].pc # "put" /\ hnd'[h].pc = "put"
  <2>1. hnd'[h].req \in Requests
    BY <1>2, TypeStep DEF TypeOK, Placed
  <2>2. \/ Commits(h, hnd'[h].req)
        \/ Claim(h) /\ Open(hnd[h])
    BY <1>2, <2>1, CommitsFrom DEF Commits
  <2>3. hnd[h].pc \notin {"finish", "undo"}
    <3>1. ASSUME hnd[h].pc \in {"finish", "undo"} PROVE Finish(h) \/ Undo(h) \/ Crash(h)
      BY <1>2, <3>1 DEF Acts, StartResolve, Reconciling, HeadUnchanged, HeadChanged,
         Heal, Granting, StartCreateGrant, StartGrant, FreeSlots, GrantBatch,
         GrantRejected, Restoring, StartGet, StartWith, Fetch, Deliver, Committing,
         StartPut, Claim, Put, Aborting, StartAbort, AbortBatch, Revoking, StartRevoke,
         Erase, RevokeBatch, Begin
    <3> QED
      BY <1>2, <3>1, NextLocal DEF Finish, Undo, Crash, Idle
  <2>4. Claim(h) /\ Open(hnd[h])
    BY <1>2, <2>2, <2>3 DEF Commits
  <2>5. Goto(h, "put")
    BY <1>2, <2>4, NextLocal DEF Claim, Idle
  <2> QED
    BY <1>2, <2>4, <2>5
<1> QED
  BY <1>1, <1>2, HandlerStep

\* What the claims under way become.
LEMMA ClaimsStep ==
    ASSUME VaultInv, [Next]_vars
    PROVE  \/ CellClaims' = CellClaims
           \/ \E h \in Handlers :
                 /\ Claim(h) /\ Goto(h, "put") /\ Open(hnd[h])
                 /\ CellClaims' = CellClaims \union {<<hnd[h].req, hnd[h].sid>>}
           \/ \E h \in Handlers :
                 /\ hnd[h].pc = "put"
                 /\ Put(h) \/ Crash(h)
                 /\ CellClaims' = CellClaims \ {<<hnd[h].req, hnd[h].sid>>}
<1> USE DEF VaultInv
<1>1. CASE \A h \in Handlers : hnd'[h] = hnd[h] \/ (hnd[h].pc # "put" /\ hnd'[h].pc # "put")
  <2>1. CellClaims' = CellClaims
    BY <1>1 DEF CellClaims
  <2> QED
    BY <2>1
<1>2. ASSUME NEW h \in Handlers, Acts(h), Claim(h), Goto(h, "put"), hnd[h].pc # "put",
             Open(hnd[h])
      PROVE  CellClaims' = CellClaims \union {<<hnd[h].req, hnd[h].sid>>}
  <2>1. /\ hnd'[h].pc = "put" /\ hnd'[h].req = hnd[h].req /\ hnd'[h].sid = hnd[h].sid
        /\ \A g \in Handlers \ {h} : hnd'[g] = hnd[g]
    BY <1>2, NextLocal, OthersStay
  <2> QED
    BY <1>2, <2>1 DEF CellClaims
<1>3. ASSUME NEW h \in Handlers, Acts(h), hnd[h].pc = "put", hnd'[h].pc # "put"
      PROVE  CellClaims' = CellClaims \ {<<hnd[h].req, hnd[h].sid>>}
  <2>1. \A g \in Handlers \ {h} : hnd'[g] = hnd[g]
    BY <1>3, OthersStay
  <2>2. \A g \in Handlers \ {h} : hnd[g].pc = "put" => hnd[g].req # hnd[h].req
    BY <1>3 DEF HolderInv, OneCommitter, Commits, TypeOK, Placed
  <2> QED
    BY <1>3, <2>1, <2>2 DEF CellClaims
<1> QED
  BY <1>1, <1>2, <1>3, PutStep

\* A grant issues its capability against the recorded version, with the right
\* to write if it asks for it and has not expired before its batch.
LEMMA BatchIssues ==
    ASSUME VaultInv, VaultInv', [Next]_vars, NEW h \in Handlers, GrantBatch(h)
    PROVE  Cell!Issue(hnd[h].req, hnd[h].sid, hnd[h].etag)
<1> USE DEF VaultInv
<1>0. PICK r, s, v : r = hnd[h].req /\ s = hnd[h].sid /\ v = hnd[h].etag
  OBVIOUS
<1>1. /\ r \in Requests /\ s \in SessionIds /\ v \in ETags
      /\ lease[r].state = "none"
      /\ lease'[r].state = "open" /\ lease'[r].sid = s /\ lease'[r].base = v
      /\ \A q \in Requests \ {r} : lease'[q] = lease[q]
      /\ UNCHANGED <<now, access, artifact>>
  BY <1>0, BatchRow DEF TypeOK, HandlerState
<1>2. CellBasis[r] \in {None, v} /\ CellBasis' = [CellBasis EXCEPT ![r] = v]
  <2>1. lease[r].base = None
    BY <1>1 DEF RowInv, RowOK
  <2> QED
    BY <1>1, <2>1 DEF CellBasis
<1>3. CellClaims' = CellClaims
  <2>1. \A g \in Handlers \ {h} : hnd'[g] = hnd[g]
    <3>1. Acts(h)
      BY DEF Acts, Granting
    <3> QED
      BY <3>1, OthersStay
  <2>2. hnd[h].pc = "batch" /\ hnd'[h].pc = "idle"
    BY BatchRow DEF Idle
  <2> QED
    BY <2>1, <2>2 DEF CellClaims
<1>4. \A q \in Requests, x \in SessionIds : q # r => (Writes(q, x)' <=> Writes(q, x))
  BY <1>1 DEF Writes, IsActive
<1>5. \A x \in SessionIds : ~Writes(r, x) /\ (Writes(r, x)' => x = s)
  BY <1>1 DEF Writes, IsActive
<1>6. ASSUME NEW x \in SessionIds, ~Writes(r, x)' PROVE Writer(x)' = Writer(x)
  <2>1. \A q \in Requests : Writes(q, x)' <=> Writes(q, x)
    BY <1>4, <1>5, <1>6
  <2>2. CASE \E q \in Requests : Writes(q, x)
    BY <2>1, <2>2, WriterIs, WriterIsNext
  <2>3. CASE ~\E q \in Requests : Writes(q, x)
    BY <2>1, <2>3, WriterIs, WriterIsNext
  <2> QED
    BY <2>2, <2>3
<1>7. CASE ~Writes(r, s)'
  <2>1. CellWriter' = CellWriter
    BY <1>5, <1>6, <1>7 DEF CellWriter
  <2> QED
    BY <1>0, <1>1, <1>2, <1>3, <2>1
    DEF Cell!Issue, CellWriter, CellBasis, CellClaims
<1>8. CASE Writes(r, s)'
  <2>1. Writer(s)' = r
    BY <1>1, <1>8, WriterIsNext
  <2>2. Writer(s) = None
    <3>1. \A q \in Requests : ~(lease[q].sid = s /\ lease[q].slot)
      BY <1>0, <1>1, <1>8 DEF GrantBatch, Constraints, SlotFree, Writes, WriteModes
    <3>2. \A q \in Requests : ~Writes(q, s)
      BY <3>1 DEF Writes, IsActive, SlotInv, SlotHeld
    <3> QED
      BY <1>1, <3>2, WriterIs
  <2>3. CellWriter[s] = None /\ CellWriter' = [CellWriter EXCEPT ![s] = r]
    <3>1. \A x \in SessionIds \ {s} : Writer(x)' = Writer(x)
      BY <1>5, <1>6
    <3> QED
      BY <1>1, <2>1, <2>2, <3>1 DEF CellWriter
  <2> QED
    BY <1>0, <1>1, <1>2, <1>3, <2>3
    DEF Cell!Issue, CellWriter, CellBasis, CellClaims
<1> QED
  BY <1>7, <1>8

\* While the lease table and the clock stand still, so do rights and bases.
LEMMA RightsSame ==
    ASSUME VaultInv, VaultInv', UNCHANGED <<now, access, lease>>
    PROVE  CellWriter' = CellWriter /\ CellBasis' = CellBasis
<1> USE DEF VaultInv
<1>1. ASSUME NEW s \in SessionIds PROVE Writer(s)' = Writer(s)
  <2>1. \A r \in Requests : Writes(r, s)' <=> Writes(r, s)
    BY DEF Writes, IsActive
  <2> QED
    BY <2>1, WriterIs, WriterIsNext
<1> QED
  BY <1>1 DEF CellWriter, CellBasis

\* A PUT whose claim succeeds gives its right up for one write.
LEMMA ClaimClaims ==
    ASSUME VaultInv, VaultInv', [Next]_vars, NEW h \in Handlers,
           Claim(h), Goto(h, "put"), Open(hnd[h]),
           CellClaims' = CellClaims \union {<<hnd[h].req, hnd[h].sid>>}
    PROVE  \E r \in Requests, s \in SessionIds : Cell!Claim(r, s)
<1> USE DEF VaultInv
<1>0. PICK r, s : r = hnd[h].req /\ s = hnd[h].sid
  OBVIOUS
<1>1. r \in Requests /\ s \in SessionIds /\ hnd[h].pc = "claim"
  BY <1>0 DEF Claim, TypeOK, Placed
<1>2. /\ lease[r].sid = s /\ IsActive(lease[r])
      /\ lease' = [lease EXCEPT ![r] = Consumed(@)]
  <2>1. hnd'[h].pc = "put"
    BY DEF Goto, TypeOK, HandlerState
  <2>2. ~Reply(h)
    BY <2>1 DEF Reply, Idle, TypeOK
  <2> QED
    BY <1>0, <2>2 DEF Claim, OwnRow, Claimable
<1>3. Writes(r, s)
  BY <1>0, <1>1, <1>2 DEF HolderInv, HolderOK, Holder, ModeOK, Writes
<1>4. Writer(s) = r
  BY <1>1, <1>3, WriterIs
<1>5. \A x \in SessionIds : ~Writes(r, x)'
  BY <1>1, <1>2, ConsumedType DEF Writes, IsActive, TypeOK
<1>6. \A q \in Requests \ {r}, x \in SessionIds : Writes(q, x)' <=> Writes(q, x)
  BY <1>1, <1>2 DEF Writes, IsActive, Claim, TypeOK
<1>7. Writer(s)' = None
  <2>1. \A q \in Requests : ~Writes(q, s)'
    BY <1>1, <1>3, <1>5, <1>6, SlotInvImplies DEF SingleWriter
  <2> QED
    BY <1>1, <2>1, WriterIsNext
<1>8. ASSUME NEW x \in SessionIds \ {s} PROVE Writer(x)' = Writer(x)
  <2>1. ~Writes(r, x)
    BY <1>2, <1>8 DEF Writes
  <2>2. \A q \in Requests : Writes(q, x)' <=> Writes(q, x)
    BY <1>5, <1>6, <2>1
  <2> QED
    BY <2>2, WriterIs, WriterIsNext
<1>9. CellWriter' = [CellWriter EXCEPT ![s] = None]
  BY <1>1, <1>7, <1>8 DEF CellWriter
<1>10. \A q \in Requests : lease'[q].base = lease[q].base
  BY <1>1, <1>2 DEF Consumed, TypeOK, LeaseRow
<1>11. CellBasis' = CellBasis
  BY <1>10 DEF CellBasis
<1> QED
  BY <1>0, <1>1, <1>4, <1>9, <1>11
  DEF Cell!Claim, CellWriter, CellBasis, CellClaims, Claim

\* A PUT at R2 stores over its base, or not at all; a death before it gives up.
LEMMA PutStores ==
    ASSUME VaultInv, VaultInv', NEW h \in Handlers,
           hnd[h].pc = "put", Put(h) \/ Crash(h),
           CellClaims' = CellClaims \ {<<hnd[h].req, hnd[h].sid>>}
    PROVE  \E r \in Requests, s \in SessionIds : Cell!Store(r, s) \/ Cell!Abandon(r, s)
<1> USE DEF VaultInv
<1>0. PICK r, s : r = hnd[h].req /\ s = hnd[h].sid
  OBVIOUS
<1>1. r \in Requests /\ s \in SessionIds /\ <<r, s>> \in CellClaims
  BY <1>0 DEF TypeOK, Placed, CellClaims
<1>2. CellWriter' = CellWriter /\ CellBasis' = CellBasis
  BY RightsSame DEF Put, Crash, dbVars
<1>3. CASE Put(h) /\ PutAllowed(h)
  <2>1. artifact' = [artifact EXCEPT ![s] = r]
    BY <1>0, <1>3 DEF Put, StoredETag
  <2>2. artifact[s] = lease[r].base
    <3>1. KeepsRow(hnd[h])
      BY DEF HolderInv, HolderOK, Holder
    <3> QED
      BY <1>0, <1>1, <1>3, <3>1 DEF PutAllowed, KeepsRow, RowInv, RowOK
  <2>3. CellBasis[r] = lease[r].base
    BY <1>1 DEF CellBasis
  <2> QED
    BY <1>0, <1>1, <1>2, <2>1, <2>2, <2>3
    DEF Cell!Store, CellWriter, CellBasis, CellClaims
<1>4. CASE UNCHANGED artifact
  BY <1>0, <1>1, <1>2, <1>4 DEF Cell!Abandon, CellWriter, CellBasis, CellClaims
<1> QED
  BY <1>3, <1>4 DEF Put, Crash

\* A step that neither claims nor writes can only take rights away.
LEMMA RightsReleased ==
    ASSUME VaultInv, VaultInv', [Next]_vars, CellClaims' = CellClaims,
           UNCHANGED artifact, \A r \in Requests : Narrows(lease[r], lease'[r])
    PROVE  \E S \in SUBSET SessionIds : Cell!Release(S)
<1> DEFINE S == {s \in SessionIds : Writer(s)' = None}
<1>1. CellWriter' = [s \in SessionIds |-> IF s \in S THEN None ELSE CellWriter[s]]
  BY RightsLapse DEF CellWriter
<1>2. CellBasis' = CellBasis
  BY RightsLapse
<1> QED
  BY <1>1, <1>2 DEF Cell!Release, CellWriter, CellBasis, CellClaims

LEMMA CellStep ==
    ASSUME VaultInv, VaultInv', [Next]_vars
    PROVE  Cell!Next
<1> USE DEF VaultInv
<1>1. ASSUME NEW h \in Handlers, GrantBatch(h) PROVE Cell!Next
  <2>1. PICK r, s, v : r = hnd[h].req /\ s = hnd[h].sid /\ v = hnd[h].etag
    OBVIOUS
  <2>2. r \in Requests /\ s \in SessionIds /\ v \in Requests \union {None}
    BY <1>1, <2>1, BatchRow DEF TypeOK, HandlerState, ETags
  <2>3. Cell!Issue(r, s, v)
    BY <1>1, <2>1, BatchIssues DEF Cell!Issue
  <2> QED
    BY <2>2, <2>3 DEF Cell!Next
<1>2. ASSUME NEW h \in Handlers, Claim(h), Goto(h, "put"), Open(hnd[h]),
             CellClaims' = CellClaims \union {<<hnd[h].req, hnd[h].sid>>}
      PROVE  Cell!Next
  BY <1>2, ClaimClaims DEF Cell!Next
<1>3. ASSUME NEW h \in Handlers, hnd[h].pc = "put", Put(h) \/ Crash(h),
             CellClaims' = CellClaims \ {<<hnd[h].req, hnd[h].sid>>}
      PROVE  Cell!Next
  BY <1>3, PutStores DEF Cell!Next
<1>4. ASSUME NEW h \in Handlers, Undo(h) \/ Erase(h), CellClaims' = CellClaims
      PROVE  Cell!Next
  <2>1. CellWriter' = CellWriter /\ CellBasis' = CellBasis
    BY <1>4, RightsSame DEF Undo, Erase, dbVars
  <2>2. hnd[h].sid \in SessionIds
    BY <1>4 DEF Undo, Erase, TypeOK, Placed
  <2>3. Cell!Erase(hnd[h].sid)
    <3>1. PICK s : s = hnd[h].sid
      OBVIOUS
    <3> QED
      BY <1>4, <2>1, <3>1 DEF Undo, Erase, Cell!Erase, CellWriter, CellBasis, CellClaims
  <2> QED
    BY <2>2, <2>3 DEF Cell!Next
<1>5. CASE /\ CellClaims' = CellClaims
           /\ ~\E h \in Handlers : GrantBatch(h) \/ Undo(h) \/ Erase(h) \/ Put(h)
  <2>1. \A s \in SessionIds : artifact'[s] = artifact[s]
    BY <1>5, ArtifactStep
  <2>2. UNCHANGED artifact
    BY <2>1 DEF TypeOK
  <2>3. \A r \in Requests : Narrows(lease[r], lease'[r])
    BY <1>5, LeaseStep
  <2> QED
    BY <1>5, <2>2, <2>3, RightsReleased DEF Cell!Next
<1>6. ASSUME NEW h \in Handlers, Put(h), CellClaims' = CellClaims PROVE Cell!Next
  <2>1. Acts(h) /\ hnd[h].pc = "put" /\ hnd[h].req \in Requests
    BY <1>6 DEF Acts, Committing, Put, TypeOK, Placed
  <2>2. hnd'[h].pc # "put" /\ \A g \in Handlers \ {h} : hnd'[g] = hnd[g]
    BY <2>1, OthersStay, NextLocal, <1>6 DEF Put, Idle
  <2>3. \A g \in Handlers \ {h} : hnd[g].pc = "put" => hnd[g].req # hnd[h].req
    BY <2>1 DEF HolderInv, OneCommitter, Commits, TypeOK, Placed
  <2>4. <<hnd[h].req, hnd[h].sid>> \in CellClaims
    BY <2>1 DEF CellClaims
  <2>5. <<hnd[h].req, hnd[h].sid>> \notin CellClaims'
    BY <2>2, <2>3 DEF CellClaims
  <2> QED
    BY <1>6, <2>4, <2>5
<1> QED
  BY <1>1, <1>2, <1>3, <1>4, <1>5, <1>6, ClaimsStep

\* For any number of requests, sessions and handlers, every behaviour of the
\* vault is one of the abstract cell: the grants, the clean-ups and the races
\* between them add nothing to it.
THEOREM VaultImplementsCell == Spec => ImplementsCell
<1>1. Init => Cell!Init
  <2> SUFFICES ASSUME Init PROVE Cell!Init
    OBVIOUS
  <2>1. SlotInv
    BY SlotInit
  <2>2. \A s \in SessionIds, r \in Requests : ~Writes(r, s)
    BY DEF Init, Writes, IsActive, NoLease
  <2>3. \A s \in SessionIds : Writer(s) = None
    BY <2>1, <2>2, WriterIs
  <2> QED
    BY <2>3 DEF Init, Cell!Init, Idle, NoLease
<1>2. VaultInv /\ VaultInv' /\ [Next]_vars => [Cell!Next]_(Cell!cellVars)
  BY CellStep
<1> QED
  BY <1>1, <1>2, VaultInvariant, PTL DEF Spec, ImplementsCell, Cell!Spec
=============================================================================
