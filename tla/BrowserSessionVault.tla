------------------------ MODULE BrowserSessionVault ------------------------
(***************************************************************************)
(* The Worker's browser-session vault (apps/web/src/worker/index.ts): the  *)
(* D1 rows of browser_sessions and browser_session_leases, the R2 object   *)
(* that holds the encrypted artifact, and the HTTP handlers that work on   *)
(* them.                                                                   *)
(*                                                                         *)
(* Grain of atomicity.  One D1 statement, one DB.batch and one R2 call are *)
(* each atomic; everything a handler reads before an await may be stale    *)
(* after it.  A handler is a process: it starts with ensureSchema and its  *)
(* first reads, then takes one step per D1 or R2 call that matters.  It    *)
(* may die between any two of them.                                        *)
(*                                                                         *)
(* The model follows one resource_ref: every statement is keyed by a ref,  *)
(* a session id or a lease, so rows of different refs do not interact. The *)
(* ids in SessionIds are the UUIDs that successive creations of that ref   *)
(* pick; the ETag of an artifact is the request under whose lease it was   *)
(* stored (ciphertexts have random IVs, so no two uploads share an ETag).  *)
(***************************************************************************)
EXTENDS Naturals

CONSTANTS
    Requests,    \* approval requests of type browser_session
    SessionIds,  \* session ids that creations may pick (crypto.randomUUID)
    Handlers,    \* HTTP requests the Worker may be handling at one time
    Workloads,   \* which access modes the requests may ask for
    LeaseTtl,    \* browserSessionLeaseTtlMs, with its 5 s allowance
    StaleAfter,  \* the ten minutes after which cleanup drops a creation
    MaxTime,     \* bound on the clock, for TLC only
    None         \* NULL: no ETag, no request, no session

AccessModes == {"create", "restore", "restore_and_update", "replace"}
WriteModes  == {"create", "restore_and_update", "replace"}

ASSUME NoneAssumption == None \notin Requests /\ None \notin SessionIds
ASSUME TimeAssumption == /\ LeaseTtl \in Nat \ {0}
                         /\ StaleAfter \in Nat
                         /\ MaxTime \in Nat
                         /\ LeaseTtl <= StaleAfter
ASSUME WorkloadAssumption == Workloads \subseteq [Requests -> AccessModes]

VARIABLES
    now,       \* Date.now()
    access,    \* the access mode each request asked for; never changes
    approval,  \* approval_requests.status
    grant,     \* approval_requests.grant_ciphertext: the session id sealed in
               \* it with the capability, None when there is no ciphertext
    sess,      \* browser_sessions, by id
    lease,     \* browser_session_leases, by request_id (which is UNIQUE)
    artifact,  \* the R2 object at each session's key: its ETag or None
    resolved,  \* session ids that GET /resolve has handed to the PWA
    used,      \* session ids some creation has picked
    hnd,       \* the local state of each handler
    acked,     \* history: sessions with a PUT that was answered with ok
    revoking   \* history: sessions whose revocation was asked for

dbVars   == <<approval, grant, sess, lease>>
histVars == <<acked, revoking>>
vars     == <<now, access, approval, grant, sess, lease, artifact, resolved,
              used, hnd, acked, revoking>>

ETags == Requests \union {None}

SessionRow ==
    [state   : {"absent", "creating", "healthy", "reauth_required", "revoked"},
     etag    : ETags,
     updated : Nat]

\* state is consumed_at; slot is writer_slot; got is downloaded_at, kept as
\* the ETag of what was delivered.
LeaseRow ==
    [state   : {"none", "open", "consumed"},
     sid     : SessionIds \union {None},
     base    : ETags,
     expires : Nat,
     got     : ETags,
     slot    : BOOLEAN]

HandlerState ==
    [pc       : {"idle", "head", "heal", "slot", "batch", "fetch", "deliver",
                 "claim", "put", "finish", "undo", "abort", "erase", "revoke"},
     req      : Requests \union {None},   \* None while serving GET /resolve
     sid      : SessionIds \union {None},
     etag     : ETags,                    \* an ETag read or about to be used
     creating : BOOLEAN,                  \* the session row read was creating
     reauth   : BOOLEAN,                  \* abort reason is reauth_required
     at       : Nat,                      \* decidedAt of a grant
     exp      : Nat]                      \* expiresAt of a grant

NoSession == [state |-> "absent", etag |-> None, updated |-> 0]
NoLease   == [state |-> "none", sid |-> None, base |-> None, expires |-> 0,
              got |-> None, slot |-> FALSE]
Idle      == [pc |-> "idle", req |-> None, sid |-> None, etag |-> None,
              creating |-> FALSE, reauth |-> FALSE, at |-> 0, exp |-> 0]

\* A handler at work knows its session, and its request if it serves one.
Placed(l) ==
    l.pc # "idle" =>
        /\ l.sid \in SessionIds
        /\ l.pc \notin {"head", "heal", "erase", "revoke"} => l.req \in Requests

TypeOK ==
    /\ now \in Nat
    /\ access \in [Requests -> AccessModes]
    /\ approval \in [Requests -> {"pending", "approved", "denied"}]
    /\ grant \in [Requests -> SessionIds \union {None}]
    /\ sess \in [SessionIds -> SessionRow]
    /\ lease \in [Requests -> LeaseRow]
    /\ artifact \in [SessionIds -> ETags]
    /\ resolved \subseteq SessionIds
    /\ used \subseteq SessionIds
    /\ hnd \in [Handlers -> HandlerState]
    /\ \A h \in Handlers : Placed(hnd[h])
    /\ acked \subseteq SessionIds
    /\ revoking \subseteq SessionIds

\* Signed approval requests wait for the phone; nothing is stored yet.
Init ==
    /\ now = 0
    /\ access \in Workloads
    /\ approval = [r \in Requests |-> "pending"]
    /\ grant = [r \in Requests |-> None]
    /\ sess = [s \in SessionIds |-> NoSession]
    /\ lease = [r \in Requests |-> NoLease]
    /\ artifact = [s \in SessionIds |-> None]
    /\ resolved = {}
    /\ used = {}
    /\ hnd = [h \in Handlers |-> Idle]
    /\ acked = {}
    /\ revoking = {}

-----------------------------------------------------------------------------
(***************************************************************************)
(* ensureSchema: the clean-up that every API call runs before anything     *)
(* else.  The two DELETEs and the reads that follow them are one step: a   *)
(* statement that comes between them commutes with the first or with the   *)
(* rest.                                                                   *)
(***************************************************************************)
\* Mutant: clean-up that does not wait for the ten minutes.
StaleCreatingAtOnce(s) == sess[s].state = "creating" /\ sess[s].etag = None

StaleCreating(s) ==
    /\ sess[s].state = "creating"
    /\ sess[s].etag = None
    /\ sess[s].updated + StaleAfter < now

\* isActiveBrowserSessionLease, on the row l.
IsActive(l) == l.state = "open" /\ l.expires > now

\* consumed_at and writer_slot = NULL, which every statement sets together.
Consumed(l) == [l EXCEPT !.state = "consumed", !.slot = FALSE]

CleanLeases ==
    [r \in Requests |->
        IF /\ lease[r].state # "none"
           /\ lease[r].expires <= now
           /\ \E s \in SessionIds : s = lease[r].sid /\ StaleCreating(s)
        THEN NoLease
        ELSE lease[r]]

Doomed(s) ==
    /\ StaleCreating(s)
    /\ ~ \E r \in Requests : lease[r].sid = s /\ IsActive(lease[r])

CleanSessions ==
    [s \in SessionIds |-> IF Doomed(s) THEN NoSession ELSE sess[s]]

\* The second DELETE would orphan a lease row: D1 enforces the lease table's
\* FOREIGN KEY, the statement throws, and so does the API call.
SchemaBlocked ==
    \E s \in SessionIds, r \in Requests :
        Doomed(s) /\ CleanLeases[r].state # "none" /\ CleanLeases[r].sid = s

EnsureSchema ==
    /\ ~SchemaBlocked
    /\ lease' = CleanLeases
    /\ sess' = CleanSessions

\* Any other API call (listing sessions, polling an approval): clean-up only.
OtherCall ==
    /\ EnsureSchema
    /\ UNCHANGED <<now, access, approval, grant, artifact, resolved, used, hnd,
                   histVars>>

\* A handler that takes up a call, with what it read after the clean-up.
Begin(h, local) ==
    /\ hnd[h].pc = "idle"
    /\ EnsureSchema
    /\ hnd' = [hnd EXCEPT ![h] = local]

Goto(h, pc)  == hnd' = [hnd EXCEPT ![h].pc = pc]
Reply(h)     == hnd' = [hnd EXCEPT ![h] = Idle]

-----------------------------------------------------------------------------
(***************************************************************************)
(* GET /api/browser-sessions/resolve and POST /api/approvals/:id/grant.    *)
(* Both run reconcileBrowserSession (pc "head", then "heal").              *)
(***************************************************************************)
StartResolve(h) ==
    \E s \in SessionIds :
        /\ CleanSessions[s].state \notin {"absent", "revoked"}
        /\ Begin(h, [Idle EXCEPT !.pc = "head", !.sid = s,
                                 !.etag = CleanSessions[s].etag,
                                 !.creating = CleanSessions[s].state = "creating"])
        /\ UNCHANGED <<now, access, approval, grant, artifact, resolved, used, histVars>>

\* prepareBrowserSessionForApproval: a grant of access "create" carries a
\* session id the PWA has just drawn, any other one an id it has resolved.
Offered(r) == IF access[r] = "create" THEN SessionIds \ used ELSE resolved

StartCreateGrant(h, r) ==
    /\ approval[r] = "pending"
    /\ access[r] = "create"
    /\ \A s \in SessionIds : CleanSessions[s].state = "absent"
    /\ \E s \in Offered(r), e \in now + 1 .. now + LeaseTtl :
        /\ used' = used \union {s}
        /\ Begin(h, [Idle EXCEPT !.pc = "slot", !.req = r, !.sid = s,
                                 !.at = now, !.exp = e])
    /\ UNCHANGED <<now, access, approval, grant, artifact, resolved, histVars>>

StartGrant(h, r) ==
    /\ approval[r] = "pending"
    /\ access[r] # "create"
    /\ \E s \in Offered(r), e \in now + 1 .. now + LeaseTtl :
        /\ CleanSessions[s].state \notin {"absent", "revoked"}
        /\ Begin(h, [Idle EXCEPT !.pc = "head", !.req = r, !.sid = s,
                                 !.etag = CleanSessions[s].etag,
                                 !.creating = CleanSessions[s].state = "creating",
                                 !.at = now, !.exp = e])
    /\ UNCHANGED <<now, access, approval, grant, artifact, resolved, used, histVars>>

\* What follows reconcileBrowserSession, which returned a row with ETag e
\* that is still creating (c) or not.
AfterReconcile(h, e, c) ==
    LET r == hnd[h].req
    IN  IF r = None
        THEN /\ resolved' = IF e # None /\ ~c
                            THEN resolved \union {hnd[h].sid} ELSE resolved
             /\ Reply(h)
        ELSE /\ UNCHANGED resolved
             /\ IF access[r] \in {"restore", "restore_and_update"} /\ e = None
                THEN Reply(h)
                ELSE hnd' = [hnd EXCEPT ![h] =
                        [@ EXCEPT !.pc = IF access[r] = "restore" THEN "batch"
                                                                  ELSE "slot",
                                  !.etag = e, !.creating = FALSE]]

\* R2 head: nothing to reconcile.
HeadUnchanged(h) ==
    /\ hnd[h].pc = "head"
    /\ LET object == artifact[hnd[h].sid]
       IN  object = None \/ (object = hnd[h].etag /\ ~hnd[h].creating)
    /\ AfterReconcile(h, hnd[h].etag, hnd[h].creating)
    /\ UNCHANGED <<now, access, dbVars, artifact, used, histVars>>

\* R2 head: the object is not the one the row names.
HeadChanged(h) ==
    /\ hnd[h].pc = "head"
    /\ LET object == artifact[hnd[h].sid]
       IN  /\ object # None
           /\ object # hnd[h].etag \/ hnd[h].creating
           /\ hnd' = [hnd EXCEPT ![h] = [@ EXCEPT !.pc = "heal", !.etag = object]]
    /\ UNCHANGED <<now, access, dbVars, artifact, resolved, used, histVars>>

\* The UPDATE ... WHERE id = ? of reconcileBrowserSession: no check of state.
Heal(h) ==
    LET s == hnd[h].sid
    IN  /\ hnd[h].pc = "heal"
        /\ sess' = [sess EXCEPT ![s] =
                      IF @.state = "absent" THEN @
                      ELSE [state |-> "healthy", etag |-> hnd[h].etag,
                            updated |-> now]]
        /\ AfterReconcile(h, hnd[h].etag, FALSE)
        /\ UNCHANGED <<now, access, approval, grant, lease, artifact, used, histVars>>

\* Free the writer slots whose lease had expired at decidedAt, then look for
\* another active writer.
FreeSlots(h) ==
    LET s == hnd[h].sid
        freed == [r \in Requests |->
                    IF /\ lease[r].sid = s
                       /\ lease[r].slot
                       /\ lease[r].expires <= hnd[h].at
                    THEN Consumed(lease[r])
                    ELSE lease[r]]
        activeWriter == \E r \in Requests :
                            /\ freed[r].sid = s
                            /\ freed[r].state = "open"
                            /\ freed[r].expires > hnd[h].at
                            /\ access[r] \in WriteModes
    IN  /\ hnd[h].pc = "slot"
        /\ lease' = freed
        /\ IF activeWriter THEN Reply(h) ELSE Goto(h, "batch")
        /\ UNCHANGED <<now, access, approval, grant, sess, artifact, resolved, used,
                       histVars>>

\* The constraints of the schema, as the batch of handler h meets them:
\* UNIQUE(request_id), UNIQUE(writer_slot), UNIQUE(resource_ref) and the
\* lease's FOREIGN KEY.
SlotFreeNoIndex(h) == hnd[h].pc = "batch"  \* mutant: no UNIQUE(writer_slot)

SlotFree(h) ==
    \/ access[hnd[h].req] = "restore"
    \/ \A r \in Requests : ~(lease[r].sid = hnd[h].sid /\ lease[r].slot)

Constraints(h) ==
    /\ lease[hnd[h].req].state = "none"
    /\ SlotFree(h)
    /\ IF access[hnd[h].req] = "create"
       THEN \A s \in SessionIds : sess[s].state = "absent"
       ELSE sess[hnd[h].sid].state # "absent"

\* DB.batch: session row (create), lease row, decision of the approval.
GrantBatch(h) ==
    LET r == hnd[h].req
        s == hnd[h].sid
    IN  /\ hnd[h].pc = "batch"
        /\ Constraints(h)
        /\ sess' = IF access[r] = "create"
                   THEN [sess EXCEPT ![s] = [state |-> "creating", etag |-> None,
                                             updated |-> hnd[h].at]]
                   ELSE sess
        /\ lease' = [lease EXCEPT ![r] =
                       [state |-> "open", sid |-> s, base |-> hnd[h].etag,
                        expires |-> hnd[h].exp, got |-> None,
                        slot |-> access[r] # "restore"]]
        /\ approval' = [approval EXCEPT ![r] = IF @ = "pending" THEN "approved" ELSE @]
        /\ grant' = [grant EXCEPT ![r] = IF approval[r] = "pending" THEN s ELSE @]
        /\ Reply(h)
        /\ UNCHANGED <<now, access, artifact, resolved, used, histVars>>

\* A constraint fails: the batch rolls back and the call is answered 409 or 500.
GrantRejected(h) ==
    /\ hnd[h].pc = "batch"
    /\ ~Constraints(h)
    /\ Reply(h)
    /\ UNCHANGED <<now, access, dbVars, artifact, resolved, used, histVars>>

\* POST /approvals/:id/approve and /deny: one UPDATE ... WHERE pending.
Decide(r) ==
    /\ approval[r] = "pending"
    /\ \E decision \in {"approved", "denied"} :
            approval' = [approval EXCEPT ![r] = decision]
    /\ lease' = CleanLeases
    /\ sess' = CleanSessions
    /\ ~SchemaBlocked
    /\ UNCHANGED <<now, access, grant, artifact, resolved, used, hnd, histVars>>

-----------------------------------------------------------------------------
(***************************************************************************)
(* The artifact endpoints.  The capability of request r reaches its CLI    *)
(* only inside the grant ciphertext, with the session id it is good for; a *)
(* holder may call in any order and as often as it likes.                  *)
(***************************************************************************)
HasLease(r) ==
    /\ grant[r] # None
    /\ CleanLeases[r].sid = grant[r]
    /\ IsActive(CleanLeases[r])

StartWith(h, r, pc) ==
    /\ HasLease(r)
    /\ CleanSessions[CleanLeases[r].sid].state \notin {"absent", "revoked"}
    /\ Begin(h, [Idle EXCEPT !.pc = pc, !.req = r,
                             !.sid = CleanLeases[r].sid,
                             !.etag = CleanLeases[r].base])
    /\ UNCHANGED <<now, access, approval, grant, artifact, resolved, used, histVars>>

\* GET artifact: checks, R2 get with onlyIf, then the mark.
StartGet(h, r) ==
    /\ access[r] \in {"restore", "restore_and_update"}
    /\ lease[r].got = None
    /\ StartWith(h, r, "fetch")

\* lease!.id in the UPDATEs below: the row h read, unless a clean-up dropped it
\* meanwhile; a late grant of the same request adds a row of another session.
OwnRow(h) == lease[hnd[h].req].sid = hnd[h].sid

Fetch(h) ==
    LET object == artifact[hnd[h].sid]
    IN  /\ hnd[h].pc = "fetch"
        /\ IF object # None /\ (hnd[h].etag = None \/ object = hnd[h].etag)
           THEN hnd' = [hnd EXCEPT ![h] = [@ EXCEPT !.pc = "deliver", !.etag = object]]
           ELSE Reply(h)
        /\ UNCHANGED <<now, access, dbVars, artifact, resolved, used, histVars>>

Deliver(h) ==
    LET r == hnd[h].req
    IN  /\ hnd[h].pc = "deliver"
        /\ lease' = IF OwnRow(h) /\ IsActive(lease[r]) /\ lease[r].got = None
                    THEN [lease EXCEPT ![r] = [@ EXCEPT !.got = hnd[h].etag]]
                    ELSE lease
        /\ Reply(h)
        /\ UNCHANGED <<now, access, approval, grant, sess, artifact, resolved, used,
                       histVars>>

\* PUT artifact: checks, claim of the lease, conditional R2 put, finalisation.
StartPut(h, r) ==
    /\ access[r] \in WriteModes
    /\ access[r] = "restore_and_update" => lease[r].got # None
    /\ StartWith(h, r, "claim")

\* Mutant: the claim forgets consumed_at IS NULL.
ClaimableTwice(l) == l.expires > now

\* The WHERE of the claim, on the row l.
Claimable(l) == IsActive(l)

Claim(h) ==
    LET r == hnd[h].req
    IN  /\ hnd[h].pc = "claim"
        /\ IF OwnRow(h) /\ Claimable(lease[r])
           THEN /\ lease' = [lease EXCEPT ![r] = Consumed(@)]
                /\ IF access[r] = "create" \/ hnd[h].etag # None
                   THEN Goto(h, "put") ELSE Reply(h)
           ELSE UNCHANGED lease /\ Reply(h)
        /\ UNCHANGED <<now, access, approval, grant, sess, artifact, resolved, used,
                       histVars>>

\* Mutants: onlyIf takes any object for a replacement, or no condition at all.
PutAllowedAnyObject(h) ==
    (artifact[hnd[h].sid] = None) <=> (access[hnd[h].req] = "create")

PutAllowedCreateOnly(h) ==
    access[hnd[h].req] = "create" => artifact[hnd[h].sid] = None

\* onlyIf: a creation needs an empty key, a replacement the base ETag.
PutAllowed(h) ==
    artifact[hnd[h].sid] = IF access[hnd[h].req] = "create" THEN None
                                                            ELSE hnd[h].etag

\* stored.etag: the ETag R2 gives to what h uploads.
StoredETag(h) == hnd[h].req

Put(h) ==
    /\ hnd[h].pc = "put"
    /\ IF PutAllowed(h)
       THEN /\ artifact' = [artifact EXCEPT ![hnd[h].sid] = StoredETag(h)]
            /\ Goto(h, "finish")
       ELSE UNCHANGED artifact /\ Reply(h)
    /\ UNCHANGED <<now, access, dbVars, resolved, used, histVars>>

\* Mutant: the row count of the finalising UPDATE is not tested.
FinalizedUntested(s) == s \in SessionIds

\* Mutant: the finalising UPDATE does not test the state.
RowLiveInAnyState(s) == sess[s].state # "absent"

\* The WHERE of the finalising UPDATE, and the test of its row count.
RowLive(s)   == sess[s].state \notin {"absent", "revoked"}
Finalized(s) == RowLive(s)

Finish(h) ==
    LET s == hnd[h].sid
    IN  /\ hnd[h].pc = "finish"
        /\ sess' = IF RowLive(s)
                   THEN [sess EXCEPT ![s] = [state |-> "healthy",
                                             etag |-> StoredETag(h),
                                             updated |-> now]]
                   ELSE sess
        /\ IF Finalized(s)
           THEN acked' = acked \union {s} /\ Reply(h)
           ELSE UNCHANGED acked /\ Goto(h, "undo")
        /\ UNCHANGED <<now, access, approval, grant, lease, artifact, resolved,
                       used, revoking>>

\* The session was revoked or cleaned up meanwhile: delete what was stored.
Undo(h) ==
    /\ hnd[h].pc = "undo"
    /\ artifact' = [artifact EXCEPT ![hnd[h].sid] = None]
    /\ Reply(h)
    /\ UNCHANGED <<now, access, dbVars, resolved, used, histVars>>

-----------------------------------------------------------------------------
(***************************************************************************)
(* POST abort and POST revoke.                                             *)
(***************************************************************************)
StartAbort(h, r) ==
    /\ HasLease(r)
    /\ \E reauth \in BOOLEAN :
            Begin(h, [Idle EXCEPT !.pc = "abort", !.req = r,
                                  !.sid = CleanLeases[r].sid, !.reauth = reauth])
    /\ UNCHANGED <<now, access, approval, grant, artifact, resolved, used, histVars>>

\* An aborted creation also deletes its session row, unless the same batch
\* has just moved the row out of "creating".
AbortDeletes(h) ==
    /\ access[hnd[h].req] = "create"
    /\ ~hnd[h].reauth
    /\ sess[hnd[h].sid].state = "creating"
    /\ sess[hnd[h].sid].etag = None

\* That DELETE breaks the FOREIGN KEY of any lease row of the session, the
\* aborted one included, and then the whole batch rolls back.
AbortRollsBack(h) ==
    /\ AbortDeletes(h)
    /\ \E r \in Requests : lease[r].state # "none" /\ lease[r].sid = hnd[h].sid

AbortBatch(h) ==
    LET r == hnd[h].req
        s == hnd[h].sid
    IN  /\ hnd[h].pc = "abort"
        /\ IF AbortRollsBack(h)
           THEN UNCHANGED <<lease, sess>>
           ELSE /\ lease' = IF OwnRow(h) /\ lease[r].state = "open"
                            THEN [lease EXCEPT ![r] = Consumed(@)]
                            ELSE lease
                /\ sess' = IF AbortDeletes(h) THEN [sess EXCEPT ![s] = NoSession]
                           ELSE IF hnd[h].reauth /\ RowLive(s)
                           THEN [sess EXCEPT ![s] = [@ EXCEPT
                                     !.state = "reauth_required", !.updated = now]]
                           ELSE sess
        /\ Reply(h)
        /\ UNCHANGED <<now, access, approval, grant, artifact, resolved, used, histVars>>

StartRevoke(h, s) ==
    /\ CleanSessions[s].state # "absent"
    /\ Begin(h, [Idle EXCEPT !.pc = "erase", !.sid = s])
    /\ revoking' = revoking \union {s}
    /\ UNCHANGED <<now, access, approval, grant, artifact, resolved, used, acked>>

\* R2 delete, before the record is marked.
Erase(h) ==
    /\ hnd[h].pc = "erase"
    /\ artifact' = [artifact EXCEPT ![hnd[h].sid] = None]
    /\ Goto(h, "revoke")
    /\ UNCHANGED <<now, access, dbVars, resolved, used, histVars>>

RevokedLeasesKept(s) == lease  \* mutant: revocation leaves the leases alone

\* The second statement of the batch: every lease of the session is consumed.
RevokedLeases(s) ==
    [r \in Requests |->
        IF lease[r].sid = s /\ lease[r].state # "none"
        THEN Consumed(lease[r])
        ELSE lease[r]]

RevokeBatch(h) ==
    LET s == hnd[h].sid
    IN  /\ hnd[h].pc = "revoke"
        /\ sess' = [sess EXCEPT ![s] =
                      IF @.state = "absent" THEN @
                      ELSE [state |-> "revoked", etag |-> None, updated |-> now]]
        /\ lease' = RevokedLeases(s)
        /\ Reply(h)
        /\ UNCHANGED <<now, access, approval, grant, artifact, resolved, used, histVars>>

-----------------------------------------------------------------------------
\* A handler dies between two steps: evicted isolate, failed D1 or R2 call.
Crash(h) ==
    /\ hnd[h].pc # "idle"
    /\ Reply(h)
    /\ UNCHANGED <<now, access, dbVars, artifact, resolved, used, histVars>>

Tick ==
    /\ now < MaxTime
    /\ now' = now + 1
    /\ UNCHANGED <<access, dbVars, artifact, resolved, used, hnd, histVars>>

Reconciling(h) == HeadUnchanged(h) \/ HeadChanged(h) \/ Heal(h)

Granting(h) ==
    \/ \E r \in Requests : StartCreateGrant(h, r) \/ StartGrant(h, r)
    \/ FreeSlots(h)
    \/ GrantBatch(h)
    \/ GrantRejected(h)

Restoring(h) == (\E r \in Requests : StartGet(h, r)) \/ Fetch(h) \/ Deliver(h)

Committing(h) ==
    \/ \E r \in Requests : StartPut(h, r)
    \/ Claim(h)
    \/ Put(h)
    \/ Finish(h)
    \/ Undo(h)

Aborting(h) == (\E r \in Requests : StartAbort(h, r)) \/ AbortBatch(h)

Revoking(h) ==
    (\E s \in SessionIds : StartRevoke(h, s)) \/ Erase(h) \/ RevokeBatch(h)

Next ==
    \/ Tick
    \/ OtherCall
    \/ \E r \in Requests : Decide(r)
    \/ \E h \in Handlers : \/ StartResolve(h)
                           \/ Reconciling(h)
                           \/ Granting(h)
                           \/ Restoring(h)
                           \/ Committing(h)
                           \/ Aborting(h)
                           \/ Revoking(h)
                           \/ Crash(h)

Spec == Init /\ [][Next]_vars

-----------------------------------------------------------------------------
(***************************************************************************)
(* Properties.                                                             *)
(***************************************************************************)
Writes(r, s) ==
    lease[r].sid = s /\ IsActive(lease[r]) /\ access[r] \in WriteModes

\* At any time at most one lease may write a session, however many grants
\* for it are being handled (browser_session_single_writer_idx and the
\* places that set and clear writer_slot).
SingleWriter ==
    \A s \in SessionIds : \A r1, r2 \in Requests :
        Writes(r1, s) /\ Writes(r2, s) => r1 = r2

Commits(h, r) == hnd[h].req = r /\ hnd[h].pc \in {"put", "finish", "undo"}

\* A write capability gets one commit past its claim: no two PUTs of the same
\* lease are between claim and answer, and while one is, the lease is not open
\* (the conditional UPDATE of the claim).
OneCommitPerCapability ==
    \A h \in Handlers, r \in Requests :
        Commits(h, r) => /\ ~(lease[r].sid = hnd[h].sid /\ lease[r].state = "open")
                         /\ \A g \in Handlers : Commits(g, r) => g = h

\* An artifact the Worker acknowledged is kept: unless somebody asks for the
\* session's revocation, neither clean-up, nor an abort, nor a late handler
\* takes away its row, its recorded ETag or its object.
AcknowledgedIsKept ==
    \A s \in acked \ revoking :
        /\ sess[s].state \in {"healthy", "reauth_required"}
        /\ sess[s].etag # None
        /\ artifact[s] # None

\* The clean-up that starts every API call never runs into the FOREIGN KEY of
\* the lease table; if it did, the whole API would answer 500.
CleanupNeverBlocked == ~SchemaBlocked

\* No refreshed session is overwritten by a stale one: what an update
\* replaces in R2 is exactly what was delivered to its holder.
NoLostUpdate ==
    [][\A s \in SessionIds, r \in Requests :
         /\ artifact'[s] = r
         /\ artifact[s] # r
         /\ access[r] = "restore_and_update"
         => lease[r].sid = s /\ lease[r].got = artifact[s]]_vars

\* While a session is revoked no holder of a lease on it gets the artifact or
\* starts a commit, although handlers check the session row long before they
\* mark the lease.
RevokedStopsHolders ==
    [][\A h \in Handlers :
         \/ hnd[h].pc = "claim" /\ hnd'[h].pc = "put"
         \/ /\ hnd[h].pc = "deliver"
            /\ lease'[hnd[h].req].got # lease[hnd[h].req].got
         => sess[hnd[h].sid].state \notin {"absent", "revoked"}]_vars

\* A revoked session stays revoked, whatever commits, aborts, expiries and
\* clean-ups were under way, with one exception: a reconciliation that found
\* another object than the row named before the revocation, and writes
\* "healthy" after it (the UPDATE of reconcileBrowserSession tests no state).
RevokedUnlessHealed ==
    [][\A s \in SessionIds :
         sess[s].state = "revoked" /\ sess'[s].state # "revoked" =>
             \E h \in Handlers :
                 hnd[h].pc = "heal" /\ hnd[h].sid = s /\ hnd'[h].pc # "heal"]_vars

-----------------------------------------------------------------------------
(***************************************************************************)
(* The vault implements the abstract cell: the writer is the holder of an  *)
(* active write lease, a claim is a PUT between claim and R2 put, and a    *)
(* request's basis is the base ETag of its lease.                          *)
(***************************************************************************)
Writer(s) == IF \E r \in Requests : Writes(r, s)
             THEN CHOOSE r \in Requests : Writes(r, s)
             ELSE None

Cell == INSTANCE ArtifactCell WITH
            cell   <- artifact,
            writer <- [s \in SessionIds |-> Writer(s)],
            claims <- {<<hnd[h].req, hnd[h].sid>> :
                         h \in {g \in Handlers : hnd[g].pc = "put"}},
            basis  <- [r \in Requests |-> lease[r].base]

\* Every behaviour of the handlers, with all their interleavings and deaths,
\* is one of the abstract cell: capabilities are exclusive, good for one
\* write, and that write replaces the version they were issued against.
ImplementsCell == Cell!Spec
=============================================================================
