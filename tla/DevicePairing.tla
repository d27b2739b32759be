--------------------------- MODULE DevicePairing ---------------------------
(***************************************************************************)
(* Pairing a CLI with a vault: the tables pairing_codes and devices of the *)
(* Worker (apps/web/src/worker/index.ts), the handlers that work on them,  *)
(* and the command "sickrat pair" (apps/cli/src/index.ts) that asks for a  *)
(* code, polls for the phone's approval and saves its identity.            *)
(*                                                                         *)
(* Each invocation of the command generates one key pair and is answered   *)
(* with one device id; both are named after the invocation.  D1 statements *)
(* and batches are atomic, what is read before may be stale afterwards.    *)
(***************************************************************************)
EXTENDS Naturals

CONSTANTS
    Pairings,  \* invocations of sickrat pair
    Codes,     \* the six-digit codes randomPairingCode draws from
    Phones,    \* approvals the PWA may have under way
    Machines,
    HomeOf,    \* the machine of each invocation
    CodeTtl,   \* the ten minutes a code is good for
    Attempts,  \* the five attempts at a unique code
    MaxTime,   \* bound on the clock, for TLC only
    None       \* null

ASSUME HomeAssumption == HomeOf \in [Pairings -> Machines]
ASSUME NoneAssumption == None \notin Pairings /\ None \notin Codes
ASSUME TimeAssumption == /\ CodeTtl \in Nat \ {0}
                         /\ MaxTime \in Nat
                         /\ Attempts \in Nat \ {0}

VARIABLES
    now,     \* Date.now()
    row,     \* pairing_codes, by code
    device,  \* devices, by id: revoked_at IS NULL or not
    config,  \* deviceId and signing key in each machine's config.json
    cli,     \* each invocation, with the POST handler that serves it
    phone    \* the approve handlers

vars == <<now, row, device, config, cli, phone>>

CodeRow  == [owner    : Pairings \union {None},   \* device_id and public_key
             expires  : Nat,
             approved : BOOLEAN]                  \* approved_at
Identity == [device : Pairings \union {None}, key : Pairings \union {None}]
CliState == [pc       : {"new", "insert", "publish", "poll", "paired", "failed"},
             code     : Codes \union {None},
             expires  : Nat,
             attempt  : Nat]
PhoneState == [code : Codes \union {None}, owner : Pairings \union {None}]

NoRow      == [owner |-> None, expires |-> 0, approved |-> FALSE]
NoIdentity == [device |-> None, key |-> None]
NewCli     == [pc |-> "new", code |-> None, expires |-> 0, attempt |-> 0]
NoCall     == [code |-> None, owner |-> None]

TypeOK ==
    /\ now \in Nat
    /\ row \in [Codes -> CodeRow]
    /\ device \in [Pairings -> {"absent", "paired", "revoked"}]
    /\ config \in [Machines -> Identity]
    /\ cli \in [Pairings -> CliState]
    /\ \A p \in Pairings :
         cli[p].pc \in {"publish", "poll"} => cli[p].code \in Codes
    /\ phone \in [Phones -> PhoneState]

Init ==
    /\ now = 0
    /\ row = [c \in Codes |-> NoRow]
    /\ device = [p \in Pairings |-> "absent"]
    /\ config = [m \in Machines |-> NoIdentity]
    /\ cli = [p \in Pairings |-> NewCli]
    /\ phone = [a \in Phones |-> NoCall]

-----------------------------------------------------------------------------
(***************************************************************************)
(* POST /api/devices/pairing-codes.                                        *)
(***************************************************************************)
Exit(p, pc) == cli' = [cli EXCEPT ![p] = [NewCli EXCEPT !.pc = pc]]

\* The device id and the expiry are fixed before the first attempt.
Ask(p) ==
    /\ cli[p].pc = "new"
    /\ now + CodeTtl < MaxTime
    /\ cli' = [cli EXCEPT ![p] = [pc |-> "insert", code |-> None, attempt |-> 0,
                                  expires |-> now + CodeTtl]]
    /\ UNCHANGED <<now, row, device, config, phone>>

\* The catch of an attempt: draw another code, unless it was the last one.
NextAttempt(p) ==
    IF cli[p].attempt + 1 < Attempts
    THEN cli' = [cli EXCEPT ![p] = [pc |-> "insert", code |-> None,
                                    expires |-> cli[p].expires,
                                    attempt |-> cli[p].attempt + 1]]
    ELSE Exit(p, "failed")

\* Mutant: INSERT OR REPLACE, for codes that were never approved.
UnusedReplaced(c) == ~row[c].approved

\* The PRIMARY KEY: rows are never deleted, so a code is used only once.
Unused(c) == row[c].owner = None

Insert(p) ==
    \E c \in Codes :
        /\ cli[p].pc = "insert"
        /\ IF Unused(c)
           THEN /\ row' = [row EXCEPT ![c] = [owner |-> p,
                                              expires |-> cli[p].expires,
                                              approved |-> FALSE]]
                /\ cli' = [cli EXCEPT ![p] = [pc |-> "publish", code |-> c,
                                               expires |-> cli[p].expires,
                                               attempt |-> cli[p].attempt]]
           ELSE NextAttempt(p) /\ UNCHANGED row
        /\ UNCHANGED <<now, device, config, phone>>

\* publishPairing, and the answer; when the hub fails, the same device gets
\* another code and the row of this one stays.
Publish(p) ==
    /\ cli[p].pc = "publish"
    /\ \/ cli' = [cli EXCEPT ![p] = [pc |-> "poll", code |-> cli[p].code,
                                      expires |-> 0, attempt |-> 0]]
       \/ NextAttempt(p)
    /\ UNCHANGED <<now, row, device, config, phone>>

-----------------------------------------------------------------------------
(***************************************************************************)
(* GET .../:code/status, and the loop of the command that asks for it.     *)
(***************************************************************************)
\* Mutant: the status of a code never expires.
StatusOfApproval(c) == IF row[c].approved THEN "approved" ELSE "pending"

Status(c) ==
    IF row[c].approved THEN "approved"
    ELSE IF row[c].expires <= now THEN "expired"
    ELSE "pending"

Poll(p) ==
    LET c == cli[p].code
    IN  /\ cli[p].pc = "poll"
        /\ \/ /\ Status(c) = "approved"
              /\ config' = [config EXCEPT ![HomeOf[p]] =
                               [device |-> row[c].owner, key |-> p]]
              /\ Exit(p, "paired")
           \/ /\ Status(c) = "expired"
              /\ Exit(p, "failed")
              /\ UNCHANGED config
        /\ UNCHANGED <<now, row, device, phone>>

\* The command is interrupted, or an API call of its own fails.
Interrupt(p) ==
    /\ cli[p].pc \in {"insert", "publish", "poll"}
    /\ Exit(p, "failed")
    /\ UNCHANGED <<now, row, device, config, phone>>

-----------------------------------------------------------------------------
(***************************************************************************)
(* POST .../:code/approve and POST /api/devices/:id/revoke.                *)
(***************************************************************************)
\* What the handler reads, and the early returns.
StartApprove(a, c) ==
    /\ phone[a].code = None
    /\ row[c].owner # None
    /\ ~row[c].approved
    /\ row[c].expires > now
    /\ phone' = [phone EXCEPT ![a] = [code |-> c, owner |-> row[c].owner]]
    /\ UNCHANGED <<now, row, device, config, cli>>

\* Mutant: the upsert is not part of the batch.
UpsertLater(d) == device

\* INSERT INTO devices ... ON CONFLICT(id) DO UPDATE SET revoked_at = NULL.
Upsert(d) == [device EXCEPT ![d] = "paired"]

ApproveBatch(a) ==
    /\ phone[a].code # None
    /\ device' = Upsert(phone[a].owner)
    /\ row' = [row EXCEPT ![phone[a].code] = [@ EXCEPT !.approved = TRUE]]
    /\ phone' = [phone EXCEPT ![a] = NoCall]
    /\ UNCHANGED <<now, config, cli>>

ApproveFails(a) ==
    /\ phone[a].code # None
    /\ phone' = [phone EXCEPT ![a] = NoCall]
    /\ UNCHANGED <<now, row, device, config, cli>>

RevokeDevice(d) ==
    /\ device[d] = "paired"
    /\ device' = [device EXCEPT ![d] = "revoked"]
    /\ UNCHANGED <<now, row, config, cli, phone>>

Tick ==
    /\ now < MaxTime
    /\ now' = now + 1
    /\ UNCHANGED <<row, device, config, cli, phone>>

Serve(p) == Insert(p) \/ Publish(p)

Next ==
    \/ Tick
    \/ \E p \in Pairings : \/ Ask(p)
                           \/ Serve(p)
                           \/ Poll(p)
                           \/ Interrupt(p)
                           \/ RevokeDevice(p)
    \/ \E a \in Phones : \/ \E c \in Codes : StartApprove(a, c)
                         \/ ApproveBatch(a)
                         \/ ApproveFails(a)

Spec == Init /\ [][Next]_vars

\* The Worker answers, the command polls every two seconds, time passes; the
\* phone need not do anything.
FairSpec == /\ Spec
            /\ WF_vars(Tick)
            /\ \A p \in Pairings : WF_vars(Serve(p)) /\ WF_vars(Poll(p))

-----------------------------------------------------------------------------
(***************************************************************************)
(* Properties.                                                             *)
(***************************************************************************)
\* What the Worker checks of an approval request signed with an identity.
Verifies(id) == id.device \in Pairings /\ device[id.device] # "absent"
                                       /\ id.key = id.device

\* An identity a CLI has saved is one the Worker can verify: the device is
\* recorded and its public key is the one of the saved private key, although
\* codes collide, attempts are repeated, and the CLI learns its device id
\* only from the row that its code names.
SavedIdentityVerifies ==
    \A m \in Machines : config[m] # NoIdentity => Verifies(config[m])

\* Two commands never wait for the same code, and a command waits for a code
\* that stands for its own device: an approval is heard by who asked for it.
WaitsForItsOwn ==
    \A p \in Pairings : cli[p].pc = "poll" => row[cli[p].code].owner = p

\* A pairing that has begun ends, whether or not the phone ever answers.
EveryPairingEnds ==
    \A p \in Pairings : cli[p].pc = "insert" ~> cli[p].pc \in {"paired", "failed"}
=============================================================================
