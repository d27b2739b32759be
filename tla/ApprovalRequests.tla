-------------------------- MODULE ApprovalRequests --------------------------
(***************************************************************************)
(* Approval of secret requests, end to end: the CLI that asks and polls    *)
(* (apps/cli/src/index.ts, requestGrant), the phone tabs that answer       *)
(* (apps/web/src/main.tsx, decide) and the Worker's handlers and D1 rows   *)
(* between them (apps/web/src/worker/index.ts).                            *)
(*                                                                         *)
(* Grain of atomicity.  One D1 statement, or one DB.batch, is atomic; what *)
(* a handler or a tab read before may be stale when it writes.  The vault  *)
(* has one paired device; each of its requests is made by a CLI process of *)
(* its own.  A tab answers one request, and the POST it sends is handled   *)
(* as part of the tab's process.  A value that a tab creates is named by   *)
(* the tab, one saved on the vault screen by a member of Saves.            *)
(***************************************************************************)
EXTENDS Naturals

CONSTANTS
    Requests,   \* approval requests
    Tabs,       \* phone tabs, each with one answer to give
    Refs,       \* canonical secret refs
    Saves,      \* values saved on the vault screen
    Workloads,  \* which refs the requests may ask for
    Wait,       \* approvalWaitSeconds, the same for the CLI and the Worker
    MaxTime,    \* bound on the clock, for TLC only
    None

ASSUME WaitAssumption == Wait \in Nat \ {0} /\ MaxTime \in Nat
ASSUME ValuesAssumption == /\ Tabs \intersect Saves = {}
                           /\ None \notin Requests \union Tabs \union Saves
ASSUME WorkloadAssumption == Workloads \subseteq [Requests -> SUBSET Refs]

VARIABLES
    now,      \* Date.now()
    wanted,   \* secretRefs of each request; never changes
    device,   \* the row of devices: paired or revoked
    secrets,  \* the rows of secrets: the value stored under each ref
    status,   \* approval_requests.status, "none" before the INSERT
    created,  \* approval_requests.created_at
    grant,    \* approval_requests.grant_ciphertext: value of each ref, or None
    cli,      \* where the CLI process of each request is
    started,  \* its Date.now() before it starts to poll
    tab,      \* the local state of each tab and its call
    stored    \* history: every ref and value that was ever in secrets

row  == <<status, created, grant>>
vars == <<now, wanted, device, secrets, status, created, grant, cli, started,
          tab, stored>>

Values == Tabs \union Saves

Final == {"granted", "denied", "timedout", "failed", "dead"}

TabState ==
    [pc    : {"idle", "open", "sealed", "grant", "decide", "done"},
     req   : Requests \union {None},
     known : SUBSET Refs,                     \* refs of the cached secret list
     value : [Refs -> Values \union {None}],  \* what it sealed for the CLI
     says  : {"approved", "denied"}]          \* what a bare decision says

Unsealed == [ref \in Refs |-> None]
Closed   == [pc |-> "idle", req |-> None, known |-> {}, value |-> Unsealed,
             says |-> "denied"]

TypeOK ==
    /\ now \in Nat
    /\ wanted \in [Requests -> SUBSET Refs]
    /\ device \in {"paired", "revoked"}
    /\ secrets \in [Refs -> Values \union {None}]
    /\ status \in [Requests -> {"none", "pending", "approved", "denied"}]
    /\ created \in [Requests -> Nat]
    /\ grant \in [Requests -> [Refs -> Values \union {None}]]
    /\ cli \in [Requests -> {"idle", "asking", "sent", "check", "poll"} \union Final]
    /\ started \in [Requests -> Nat]
    /\ tab \in [Tabs -> TabState]
    /\ \A t \in Tabs : tab[t].pc \notin {"idle", "done"} => tab[t].req \in Requests
    /\ stored \subseteq Refs \X Values

Init ==
    /\ now = 0
    /\ wanted \in Workloads
    /\ device = "paired"
    /\ secrets = Unsealed
    /\ status = [r \in Requests |-> "none"]
    /\ created = [r \in Requests |-> 0]
    /\ grant = [r \in Requests |-> Unsealed]
    /\ cli = [r \in Requests |-> "idle"]
    /\ started = [r \in Requests |-> 0]
    /\ tab = [t \in Tabs |-> Closed]
    /\ stored = {}

-----------------------------------------------------------------------------
(***************************************************************************)
(* The CLI and the handlers it calls.                                      *)
(***************************************************************************)
Step(r, from, to) == cli[r] = from /\ cli' = [cli EXCEPT ![r] = to]

\* POST /api/approval-requests, up to the reads of the device and of the
\* push subscription.
Ask(r) ==
    /\ now + Wait < MaxTime
    /\ Step(r, "idle", IF device = "paired" THEN "asking" ELSE "failed")
    /\ UNCHANGED <<now, wanted, device, secrets, row, started, tab, stored>>

\* The INSERT of the same handler.
Insert(r) ==
    /\ Step(r, "asking", "sent")
    /\ status' = [status EXCEPT ![r] = "pending"]
    /\ created' = [created EXCEPT ![r] = now]
    /\ UNCHANGED <<now, wanted, device, secrets, grant, started, tab, stored>>

\* The CLI gets the request id, or an error: the handler died, or the hub
\* that publishes the request to the phone failed after the INSERT.
Answered(r) ==
    /\ \/ /\ now + Wait < MaxTime
          /\ Step(r, "sent", "check")
          /\ started' = [started EXCEPT ![r] = now]
       \/ /\ Step(r, "sent", "failed")
          /\ UNCHANGED started
    /\ UNCHANGED <<now, wanted, device, secrets, row, tab, stored>>

Expired(r) == status[r] = "pending" /\ created[r] + Wait <= now

\* Mutants: a deadline one second early, and none.
WaitingLess(r)    == now + 1 < started[r] + Wait
WaitingForever(r) == started[r] + Wait >= 0

\* while (Date.now() - started < approvalWaitMs) { sleep; ...
Waiting(r) == now < started[r] + Wait

Check(r) ==
    /\ Step(r, "check", IF Waiting(r) THEN "poll" ELSE "timedout")
    /\ UNCHANGED <<now, wanted, device, secrets, row, started, tab, stored>>

\* ... GET /api/approvals/:id/grant }.  A request that was approved without a
\* ciphertext is polled on; one that expired answers 410.
Complete(r) == \A ref \in wanted[r] : grant[r][ref] # None

PollOutcome(r) ==
    IF Expired(r) THEN "failed"
    ELSE IF status[r] = "denied" THEN "denied"
    ELSE IF status[r] # "approved" \/ grant[r] = Unsealed THEN "check"
    ELSE IF Complete(r) THEN "granted" ELSE "failed"

Poll(r) ==
    /\ Step(r, "poll", PollOutcome(r))
    /\ UNCHANGED <<now, wanted, device, secrets, row, started, tab, stored>>

\* The process is interrupted.  Its POST may still be under way and do the
\* INSERT, for nobody.
Die(r) ==
    /\ cli[r] \in {"asking", "sent", "check", "poll"}
    /\ cli' = [cli EXCEPT ![r] = "dead"]
    /\ \/ UNCHANGED <<status, created>>
       \/ /\ cli[r] = "asking"
          /\ status' = [status EXCEPT ![r] = "pending"]
          /\ created' = [created EXCEPT ![r] = now]
    /\ UNCHANGED <<now, wanted, device, secrets, grant, started, tab, stored>>

-----------------------------------------------------------------------------
(***************************************************************************)
(* The phone and the handlers it calls.                                    *)
(***************************************************************************)
Goto(t, pc) == tab' = [tab EXCEPT ![t].pc = pc]
Done(t)     == tab' = [tab EXCEPT ![t] = [Closed EXCEPT !.pc = "done", !.req = tab[t].req]]

\* The approval screen shows a request, with the secret list as it then was
\* (the query cache keeps it).
Open(t, r) ==
    /\ tab[t].pc = "idle"
    /\ status[r] = "pending"
    /\ tab' = [tab EXCEPT ![t] =
                [@ EXCEPT !.pc = "open", !.req = r,
                          !.known = {ref \in Refs : secrets[ref] # None}]]
    /\ UNCHANGED <<now, wanted, device, secrets, row, cli, started, stored>>

\* Mutants: what is missing by now, whatever the tab sealed; nothing.
MissingByNow(t)   == {ref \in wanted[tab[t].req] : secrets[ref] = None}
MissingNothing(t) == wanted[tab[t].req] \ Refs

\* missingApprovalRefs: what the tab has no secret for, and asks its user for.
Missing(t) == wanted[tab[t].req] \ tab[t].known

\* Approve: POST /api/secrets/resolve for the known refs, then seal.
Seal(t) ==
    /\ tab[t].pc = "open"
    /\ tab' = [tab EXCEPT ![t] =
                [@ EXCEPT !.pc = "sealed",
                          !.value = [ref \in Refs |->
                              CASE ref \in Missing(t) -> t
                                [] ref \in wanted[tab[t].req] \ Missing(t) -> secrets[ref]
                                [] OTHER -> None]]]
    /\ UNCHANGED <<now, wanted, device, secrets, row, cli, started, stored>>

\* POST grant, its reads: the request is pending and has not expired, and no
\* secret to be created exists.
StartGrant(t) ==
    LET r == tab[t].req
    IN  /\ tab[t].pc = "sealed"
        /\ IF /\ status[r] = "pending"
              /\ ~Expired(r)
              /\ \A ref \in Missing(t) : secrets[ref] = None
           THEN Goto(t, "grant") ELSE Done(t)
        /\ UNCHANGED <<now, wanted, device, secrets, row, cli, started, stored>>

ConflictIgnored(t) == t \notin Tabs  \* mutant: INSERT OR REPLACE

\* UNIQUE(ref) of the secrets table: the batch rolls back.
Conflict(t) == \E ref \in Missing(t) : secrets[ref] # None

\* The INSERTs of the batch, once they have succeeded.
Inserted(t) == [ref \in Refs |-> IF ref \in Missing(t) THEN t ELSE secrets[ref]]

DecidableAlways(r) == r \in Requests  \* mutant: no WHERE status = 'pending'

\* The WHERE of the deciding UPDATEs.
Decidable(r) == status[r] = "pending"

\* POST grant, its batch: the new secrets and the decision.
Grant(t) ==
    LET r == tab[t].req
    IN  /\ tab[t].pc = "grant"
        /\ IF Conflict(t)
           THEN UNCHANGED <<secrets, status, grant, stored>>
           ELSE /\ secrets' = Inserted(t)
                /\ stored' = stored \union {<<ref, t>> : ref \in Missing(t)}
                /\ status' = [status EXCEPT ![r] =
                                IF Decidable(r) THEN "approved" ELSE @]
                /\ grant' = [grant EXCEPT ![r] =
                                IF Decidable(r) THEN tab[t].value ELSE @]
        /\ Done(t)
        /\ UNCHANGED <<now, wanted, device, created, cli, started>>

\* POST approve or deny: its reads, and then its UPDATE.
StartDecide(t) ==
    /\ tab[t].pc = "open"
    /\ \E says \in {"approved", "denied"} :
          IF status[tab[t].req] = "pending" /\ ~Expired(tab[t].req)
          THEN tab' = [tab EXCEPT ![t] = [@ EXCEPT !.pc = "decide", !.says = says]]
          ELSE Done(t)
    /\ UNCHANGED <<now, wanted, device, secrets, row, cli, started, stored>>

Decide(t) ==
    LET r == tab[t].req
    IN  /\ tab[t].pc = "decide"
        /\ status' = [status EXCEPT ![r] = IF Decidable(r) THEN tab[t].says ELSE @]
        /\ Done(t)
        /\ UNCHANGED <<now, wanted, device, secrets, created, grant, cli, started, stored>>

\* The tab is closed, its connection lost, or its handler dies.
Close(t) ==
    /\ tab[t].pc \notin {"idle", "done"}
    /\ Done(t)
    /\ UNCHANGED <<now, wanted, device, secrets, row, cli, started, stored>>

\* POST /api/secrets from the vault screen: an upsert.
Save(ref, v) ==
    /\ secrets' = [secrets EXCEPT ![ref] = v]
    /\ stored' = stored \union {<<ref, v>>}
    /\ UNCHANGED <<now, wanted, device, row, cli, started, tab>>

\* POST /api/devices/:id/revoke.
Revoke ==
    /\ device' = "revoked"
    /\ UNCHANGED <<now, wanted, secrets, row, cli, started, tab, stored>>

-----------------------------------------------------------------------------
Tick ==
    /\ now < MaxTime
    /\ now' = now + 1
    /\ UNCHANGED <<wanted, device, secrets, row, cli, started, tab, stored>>

Asking(r) == Insert(r) \/ Answered(r) \/ Check(r) \/ Poll(r)

Answering(t) ==
    \/ \E r \in Requests : Open(t, r)
    \/ Seal(t)
    \/ StartGrant(t)
    \/ Grant(t)
    \/ StartDecide(t)
    \/ Decide(t)
    \/ Close(t)

Next ==
    \/ Tick
    \/ \E r \in Requests : Ask(r) \/ Asking(r) \/ Die(r)
    \/ \E t \in Tabs : Answering(t)
    \/ \E ref \in Refs, v \in Saves : Save(ref, v)
    \/ Revoke

Spec == Init /\ [][Next]_vars

\* Time passes, and every call of the CLI returns or fails; the phone and
\* its user owe nothing.
Fairness == WF_vars(Tick) /\ \A r \in Requests : WF_vars(Asking(r))

FairSpec == Spec /\ Fairness

-----------------------------------------------------------------------------
(***************************************************************************)
(* Properties.                                                             *)
(***************************************************************************)
\* Whatever tabs and saves race, a value that is sealed for a machine is one
\* that the vault stores, or stored, under that ref: no machine runs with a
\* new password that was rolled back (the reads, the batch, UNIQUE(ref)).
SealedIsStored ==
    \A r \in Requests, ref \in Refs :
        grant[r][ref] # None => <<ref, grant[r][ref]>> \in stored

\* A grant is complete: nothing that was asked for is missing in it, although
\* the tab decides from a cached list what is missing.
GrantIsComplete ==
    \A r \in Requests : grant[r] # Unsealed => Complete(r)

\* The CLI stops waiting only when the Worker takes no answer any more: its
\* clock starts after created_at, so its deadline is the later one.
GivesUpLast ==
    \A r \in Requests :
        cli[r] = "timedout" /\ status[r] = "pending" => Expired(r)

\* Only the vault screen replaces a secret; a grant never does, even when it
\* set out to create it (main.tsx sends what its cached list lacks).
OnlySavesReplace ==
    [][\A ref \in Refs :
         secrets[ref] # None /\ secrets'[ref] # secrets[ref]
            => secrets'[ref] \in Saves]_vars

\* Every wait of a machine ends, with a grant, a denial or an error, whatever
\* the phone does.
EveryWaitEnds ==
    \A r \in Requests : cli[r] # "idle" ~> cli[r] \in Final

-----------------------------------------------------------------------------
(***************************************************************************)
(* The protocol implements OneAnswer.                                      *)
(***************************************************************************)
Heard(r) == CASE cli[r] = "granted" -> "approved"
              [] cli[r] = "denied"  -> "denied"
              [] OTHER              -> "nothing"

Protocol == INSTANCE OneAnswer WITH
                answer <- status,
                heard  <- [r \in Requests |-> Heard(r)]

\* However many tabs answer the same request, it is answered once, for good,
\* and the CLI hears that answer.
ImplementsOneAnswer == Protocol!Spec
=============================================================================
