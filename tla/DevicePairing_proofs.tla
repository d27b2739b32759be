------------------------ MODULE DevicePairing_proofs ------------------------
(***************************************************************************)
(* Theorems about DevicePairing, for any number of commands, codes, phones *)
(* and machines and for any values of the bounds.                          *)
(***************************************************************************)
EXTENDS DevicePairing, TLAPS

USE HomeAssumption, NoneAssumption, TimeAssumption

-----------------------------------------------------------------------------
(***************************************************************************)
(* Type correctness.  CliOK is the part of TypeOK about the commands.      *)
(***************************************************************************)
CliOK == /\ cli \in [Pairings -> CliState]
         /\ \A p \in Pairings :
              cli[p].pc \in {"publish", "poll"} => cli[p].code \in Codes

\* A command that ends keeps its type.
LEMMA ExitType ==
    ASSUME CliOK, NEW p \in Pairings, NEW pc \in {"paired", "failed"}, Exit(p, pc)
    PROVE  CliOK'
BY DEF CliOK, Exit, NewCli, CliState

\* So does one that is given another attempt, or none.
LEMMA NextAttemptType ==
    ASSUME CliOK, NEW p \in Pairings, NextAttempt(p)
    PROVE  CliOK'
<1>1. CASE cli[p].attempt + 1 < Attempts
  BY <1>1 DEF CliOK, NextAttempt, CliState
<1>2. CASE ~(cli[p].attempt + 1 < Attempts)
  BY <1>2, ExitType DEF NextAttempt
<1> QED  BY <1>1, <1>2

\* Every step keeps the types.
LEMMA TypeStep == TypeOK /\ [Next]_vars => TypeOK'
<1> SUFFICES ASSUME TypeOK, [Next]_vars PROVE TypeOK'
  OBVIOUS
<1>0. CliOK
  BY DEF TypeOK, CliOK
<1>1. CASE Tick
  BY <1>1 DEF TypeOK, Tick
<1>2. ASSUME NEW p \in Pairings, Ask(p) PROVE TypeOK'
  <2>1. now + CodeTtl \in Nat
    BY DEF TypeOK
  <2>2. CliOK'
    BY <1>0, <1>2, <2>1 DEF Ask, CliOK, CliState
  <2> QED  BY <1>2, <2>2 DEF TypeOK, CliOK, Ask
<1>3. ASSUME NEW p \in Pairings, Insert(p) PROVE TypeOK'
  <2>1. PICK c \in Codes :
          /\ cli[p].pc = "insert"
          /\ IF Unused(c)
             THEN /\ row' = [row EXCEPT ![c] = [owner |-> p,
                                                expires |-> cli[p].expires,
                                                approved |-> FALSE]]
                  /\ cli' = [cli EXCEPT ![p] = [pc |-> "publish", code |-> c,
                                                 expires |-> cli[p].expires,
                                                 attempt |-> cli[p].attempt]]
             ELSE NextAttempt(p) /\ UNCHANGED row
          /\ UNCHANGED <<now, device, config, phone>>
    BY <1>3 DEF Insert
  <2>2. CASE Unused(c)
    <3>1. CliOK'
      BY <1>0, <2>1, <2>2 DEF CliOK, CliState
    <3>2. row' \in [Codes -> CodeRow]
      <4> DEFINE new == [owner |-> p, expires |-> cli[p].expires,
                         approved |-> FALSE]
      <4>1. cli[p].expires \in Nat
        BY DEF TypeOK, CliState
      <4>2. new \in CodeRow
        BY <4>1 DEF CodeRow
      <4>3. row' = [row EXCEPT ![c] = new]
        BY <2>1, <2>2
      <4> HIDE DEF new
      <4> QED  BY <4>2, <4>3 DEF TypeOK
    <3> QED  BY <2>1, <3>1, <3>2 DEF TypeOK, CliOK
  <2>3. CASE ~Unused(c)
    BY <1>0, <2>1, <2>3, NextAttemptType DEF TypeOK, CliOK
  <2> QED  BY <2>2, <2>3
<1>4. ASSUME NEW p \in Pairings, Publish(p) PROVE TypeOK'
  <2>1. CASE NextAttempt(p)
    BY <1>0, <1>4, <2>1, NextAttemptType DEF TypeOK, CliOK, Publish
  <2>2. CASE cli' = [cli EXCEPT ![p] = [pc |-> "poll", code |-> cli[p].code,
                                        expires |-> 0, attempt |-> 0]]
    BY <1>4, <2>2 DEF TypeOK, Publish, CliState
  <2> QED  BY <1>4, <2>1, <2>2 DEF Publish
<1>5. ASSUME NEW p \in Pairings, Poll(p) PROVE TypeOK'
  <2>1. cli[p].code \in Codes
    BY <1>5 DEF TypeOK, Poll
  <2>2. CASE /\ config' = [config EXCEPT ![HomeOf[p]] =
                               [device |-> row[cli[p].code].owner, key |-> p]]
             /\ Exit(p, "paired")
    <3>1. CliOK'
      BY <1>0, <2>2, ExitType
    <3> QED  BY <1>5, <2>1, <2>2, <3>1
                DEF TypeOK, CliOK, Poll, CodeRow, Identity
  <2>3. CASE Exit(p, "failed") /\ UNCHANGED config
    BY <1>0, <1>5, <2>3, ExitType DEF TypeOK, CliOK, Poll
  <2> QED  BY <1>5, <2>2, <2>3 DEF Poll
<1>6. ASSUME NEW p \in Pairings, Interrupt(p) PROVE TypeOK'
  BY <1>0, <1>6, ExitType DEF TypeOK, CliOK, Interrupt
<1>7. ASSUME NEW d \in Pairings, RevokeDevice(d) PROVE TypeOK'
  BY <1>7 DEF TypeOK, RevokeDevice
<1>8. ASSUME NEW a \in Phones, NEW c \in Codes, StartApprove(a, c) PROVE TypeOK'
  BY <1>8 DEF TypeOK, StartApprove, PhoneState, CodeRow
<1>9. ASSUME NEW a \in Phones, ApproveBatch(a) PROVE TypeOK'
  <2> DEFINE c == phone[a].code
  <2>1. /\ c \in Codes
        /\ device' = Upsert(phone[a].owner)
        /\ row' = [row EXCEPT ![c] = [row[c] EXCEPT !.approved = TRUE]]
        /\ phone' = [phone EXCEPT ![a] = NoCall]
        /\ UNCHANGED <<now, config, cli>>
    BY <1>9 DEF TypeOK, ApproveBatch, PhoneState
  <2> HIDE DEF c
  <2>2. row' \in [Codes -> CodeRow]
    <3>1. row \in [Codes -> CodeRow]
      BY DEF TypeOK
    <3>2. [row[c] EXCEPT !.approved = TRUE] \in CodeRow
      BY <2>1, <3>1 DEF CodeRow
    <3> QED  BY <2>1, <3>1, <3>2
  <2>3. device' = [device EXCEPT ![phone[a].owner] = "paired"]
    BY <2>1 DEF Upsert
  <2>4. phone' \in [Phones -> PhoneState]
    BY <2>1 DEF TypeOK, PhoneState, NoCall
  <2> QED
    BY <2>1, <2>2, <2>3, <2>4 DEF TypeOK, CliState
<1>10. ASSUME NEW a \in Phones, ApproveFails(a) PROVE TypeOK'
  BY <1>10 DEF TypeOK, ApproveFails, PhoneState, NoCall
<1>11. CASE UNCHANGED vars
  BY <1>11 DEF TypeOK, vars
<1> QED
  BY <1>1, <1>2, <1>3, <1>4, <1>5, <1>6, <1>7, <1>8, <1>9, <1>10, <1>11
     DEF Next, Serve

\* Every variable keeps its type, and a command that polls knows its code.
THEOREM PairingTypeCorrect == Spec => []TypeOK
<1>1. Init => TypeOK
  BY DEF Init, TypeOK, NoRow, CodeRow, NoIdentity, Identity, NewCli, CliState,
         NoCall, PhoneState
<1> QED  BY <1>1, TypeStep, PTL DEF Spec

-----------------------------------------------------------------------------
(***************************************************************************)
(* The inductive invariant behind SavedIdentityVerifies.  A row keeps its  *)
(* owner for ever, a command's code is in a row of its own, an approval    *)
(* under way knows the owner of its row, and the owner of an approved row  *)
(* is recorded.                                                            *)
(***************************************************************************)
OwnCode ==
    \A p \in Pairings :
        cli[p].pc \in {"publish", "poll"} => row[cli[p].code].owner = p

PhoneKnows ==
    \A a \in Phones :
        phone[a].code # None => /\ phone[a].owner \in Pairings
                                /\ row[phone[a].code].owner = phone[a].owner

ApprovedRecorded ==
    \A c \in Codes :
        row[c].approved => /\ row[c].owner \in Pairings
                           /\ device[row[c].owner] # "absent"

PairingInv == OwnCode /\ PhoneKnows /\ ApprovedRecorded /\ SavedIdentityVerifies

\* A step that changes neither rows nor devices nor identities, and lets no
\* command get a code, keeps the invariant.
LEMMA QuietStep ==
    ASSUME TypeOK, PairingInv, UNCHANGED <<row, device, config, phone>>,
           \A p \in Pairings : cli'[p].pc \in {"publish", "poll"} =>
               cli[p].pc \in {"publish", "poll"} /\ cli'[p].code = cli[p].code
    PROVE  PairingInv'
BY DEF TypeOK, PairingInv, OwnCode, PhoneKnows, ApprovedRecorded,
       SavedIdentityVerifies, Verifies

\* Ending a command, or trying again, gives nobody a code.
LEMMA ExitQuiet ==
    ASSUME TypeOK, NEW p \in Pairings, NEW pc \in {"paired", "failed"}, Exit(p, pc)
    PROVE  \A q \in Pairings : cli'[q].pc \in {"publish", "poll"} =>
               cli[q].pc \in {"publish", "poll"} /\ cli'[q].code = cli[q].code
BY DEF TypeOK, Exit, NewCli, CliState

LEMMA NextAttemptQuiet ==
    ASSUME TypeOK, NEW p \in Pairings, NextAttempt(p)
    PROVE  \A q \in Pairings : cli'[q].pc \in {"publish", "poll"} =>
               cli[q].pc \in {"publish", "poll"} /\ cli'[q].code = cli[q].code
<1>1. CASE cli[p].attempt + 1 < Attempts
  BY <1>1 DEF TypeOK, NextAttempt, CliState
<1>2. CASE ~(cli[p].attempt + 1 < Attempts)
  BY <1>2, ExitQuiet DEF NextAttempt
<1> QED  BY <1>1, <1>2

\* Every step keeps the invariant.
LEMMA PairingStep == TypeOK /\ PairingInv /\ [Next]_vars => PairingInv'
<1> SUFFICES ASSUME TypeOK, PairingInv, [Next]_vars PROVE PairingInv'
  OBVIOUS
<1>1. CASE Tick
  BY <1>1, QuietStep DEF Tick
<1>2. ASSUME NEW p \in Pairings, Ask(p) PROVE PairingInv'
  <2>1. \A q \in Pairings : cli'[q].pc \in {"publish", "poll"} =>
            cli[q].pc \in {"publish", "poll"} /\ cli'[q].code = cli[q].code
    BY <1>2 DEF TypeOK, Ask, CliState
  <2> QED  BY <1>2, <2>1, QuietStep DEF Ask
<1>3. ASSUME NEW p \in Pairings, Insert(p) PROVE PairingInv'
  <2>1. PICK c \in Codes :
          /\ cli[p].pc = "insert"
          /\ IF Unused(c)
             THEN /\ row' = [row EXCEPT ![c] = [owner |-> p,
                                                expires |-> cli[p].expires,
                                                approved |-> FALSE]]
                  /\ cli' = [cli EXCEPT ![p] = [pc |-> "publish", code |-> c,
                                                 expires |-> cli[p].expires,
                                                 attempt |-> cli[p].attempt]]
             ELSE NextAttempt(p) /\ UNCHANGED row
          /\ UNCHANGED <<now, device, config, phone>>
    BY <1>3 DEF Insert
  <2>2. CASE Unused(c)
    <3>1. /\ \A d \in Codes \ {c} : row'[d] = row[d]
          /\ row'[c].owner = p
          /\ row'[c].approved = FALSE
          /\ row[c].owner = None
      BY <2>1, <2>2 DEF TypeOK, Unused, CodeRow
    <3>2. OwnCode'
      BY <2>1, <2>2, <3>1 DEF TypeOK, PairingInv, OwnCode, CliState
    <3>3. PhoneKnows'
      BY <2>1, <3>1 DEF TypeOK, PairingInv, PhoneKnows, PhoneState
    <3>4. ApprovedRecorded'
      BY <2>1, <3>1 DEF PairingInv, ApprovedRecorded
    <3>5. SavedIdentityVerifies'
      BY <2>1 DEF PairingInv, SavedIdentityVerifies, Verifies
    <3> QED  BY <3>2, <3>3, <3>4, <3>5 DEF PairingInv
  <2>3. CASE ~Unused(c)
    BY <2>1, <2>3, NextAttemptQuiet, QuietStep
  <2> QED  BY <2>2, <2>3
<1>4. ASSUME NEW p \in Pairings, Publish(p) PROVE PairingInv'
  <2>1. CASE NextAttempt(p)
    BY <1>4, <2>1, NextAttemptQuiet, QuietStep DEF Publish
  <2>2. CASE cli' = [cli EXCEPT ![p] = [pc |-> "poll", code |-> cli[p].code,
                                        expires |-> 0, attempt |-> 0]]
    <3>1. \A q \in Pairings : cli'[q].pc \in {"publish", "poll"} =>
              cli[q].pc \in {"publish", "poll"} /\ cli'[q].code = cli[q].code
      BY <1>4, <2>2 DEF TypeOK, Publish, CliState
    <3> QED  BY <1>4, <3>1, QuietStep DEF Publish
  <2> QED  BY <1>4, <2>1, <2>2 DEF Publish
<1>5. ASSUME NEW p \in Pairings, Poll(p) PROVE PairingInv'
  <2> DEFINE c == cli[p].code
  <2>1. /\ c \in Codes
        /\ row[c].owner = p
        /\ UNCHANGED <<now, row, device, phone>>
    BY <1>5 DEF TypeOK, Poll, PairingInv, OwnCode
  <2>2. ASSUME NEW pc \in {"paired", "failed"}, Exit(p, pc)
        PROVE  OwnCode' /\ PhoneKnows' /\ ApprovedRecorded'
    BY <2>1, <2>2, ExitQuiet
       DEF PairingInv, OwnCode, PhoneKnows, ApprovedRecorded
  <2>3. CASE /\ Status(c) = "approved"
             /\ config' = [config EXCEPT ![HomeOf[p]] =
                               [device |-> row[c].owner, key |-> p]]
             /\ Exit(p, "paired")
    <3>1. device[p] # "absent"
      BY <2>1, <2>3 DEF Status, PairingInv, ApprovedRecorded
    <3>2. SavedIdentityVerifies'
      BY <2>1, <2>3, <3>1
         DEF TypeOK, PairingInv, SavedIdentityVerifies, Verifies
    <3> QED  BY <2>2, <2>3, <3>2 DEF PairingInv
  <2>4. CASE Exit(p, "failed") /\ UNCHANGED config
    BY <2>1, <2>4, ExitQuiet, QuietStep
  <2> QED  BY <1>5, <2>3, <2>4 DEF Poll
<1>6. ASSUME NEW p \in Pairings, Interrupt(p) PROVE PairingInv'
  BY <1>6, ExitQuiet, QuietStep DEF Interrupt
<1>7. ASSUME NEW d \in Pairings, RevokeDevice(d) PROVE PairingInv'
  BY <1>7 DEF TypeOK, RevokeDevice, PairingInv, OwnCode, PhoneKnows,
              ApprovedRecorded, SavedIdentityVerifies, Verifies
<1>8. ASSUME NEW a \in Phones, NEW c \in Codes, StartApprove(a, c)
      PROVE  PairingInv'
  <2>1. PhoneKnows'
    BY <1>8 DEF TypeOK, StartApprove, PairingInv, PhoneKnows, CodeRow
  <2> QED  BY <1>8, <2>1 DEF StartApprove, PairingInv, OwnCode,
                             ApprovedRecorded, SavedIdentityVerifies, Verifies
<1>9. ASSUME NEW a \in Phones, ApproveBatch(a) PROVE PairingInv'
  <2> DEFINE c == phone[a].code
             d == phone[a].owner
  <2>1. /\ c \in Codes
        /\ d \in Pairings
        /\ row[c].owner = d
    BY <1>9 DEF ApproveBatch, TypeOK, PhoneState, PairingInv, PhoneKnows
  <2>2. /\ \A e \in Codes : row'[e].owner = row[e].owner
        /\ \A e \in Codes \ {c} : row'[e] = row[e]
    BY <1>9, <2>1 DEF ApproveBatch, TypeOK, CodeRow
  <2>3. /\ device' \in [Pairings -> {"absent", "paired", "revoked"}]
        /\ device'[d] = "paired"
        /\ \A e \in Pairings : device[e] # "absent" => device'[e] # "absent"
    BY <1>9, <2>1 DEF ApproveBatch, Upsert, TypeOK
  <2>4. OwnCode'
    BY <1>9, <2>2 DEF ApproveBatch, TypeOK, PairingInv, OwnCode
  <2>5. PhoneKnows'
    <3>1. \A b \in Phones : phone'[b] = IF b = a THEN NoCall ELSE phone[b]
      BY <1>9 DEF ApproveBatch, TypeOK
    <3> QED  BY <2>2, <3>1 DEF TypeOK, PhoneState, NoCall, PairingInv, PhoneKnows
  <2>6. ApprovedRecorded'
    BY <2>1, <2>2, <2>3 DEF PairingInv, ApprovedRecorded
  <2>7. SavedIdentityVerifies'
    BY <1>9, <2>3 DEF ApproveBatch, PairingInv, SavedIdentityVerifies, Verifies
  <2> QED  BY <2>4, <2>5, <2>6, <2>7 DEF PairingInv
<1>10. ASSUME NEW a \in Phones, ApproveFails(a) PROVE PairingInv'
  <2>1. PhoneKnows'
    BY <1>10 DEF ApproveFails, TypeOK, NoCall, PairingInv, PhoneKnows
  <2> QED  BY <1>10, <2>1 DEF ApproveFails, PairingInv, OwnCode,
                              ApprovedRecorded, SavedIdentityVerifies, Verifies
<1>11. CASE UNCHANGED vars
  BY <1>11, QuietStep DEF vars
<1> QED
  BY <1>1, <1>2, <1>3, <1>4, <1>5, <1>6, <1>7, <1>8, <1>9, <1>10, <1>11
     DEF Next, Serve

LEMMA PairingInvariant == Spec => []PairingInv
<1>1. Init => PairingInv
  BY DEF Init, PairingInv, OwnCode, PhoneKnows, ApprovedRecorded,
         SavedIdentityVerifies, NoRow, NewCli, NoCall
<1> QED  BY <1>1, PairingStep, PairingTypeCorrect, PTL DEF Spec

\* The identity a CLI saves is one the Worker can verify: codes that collide,
\* attempts that are repeated and approvals that overlap never make it save
\* the device id of another key pair, or one that is not recorded.
THEOREM PairingSavedIdentityVerifies == Spec => []SavedIdentityVerifies
<1>1. PairingInv => SavedIdentityVerifies
  BY DEF PairingInv
<1> QED  BY <1>1, PairingInvariant, PTL

\* A command waits for a code of its own device, and so no two commands wait
\* for the same code.
THEOREM PairingWaitsForItsOwn == Spec => []WaitsForItsOwn
<1>1. PairingInv => WaitsForItsOwn
  BY DEF PairingInv, OwnCode, WaitsForItsOwn
<1> QED  BY <1>1, PairingInvariant, PTL
=============================================================================
