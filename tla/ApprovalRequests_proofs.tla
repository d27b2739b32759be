----------------------- MODULE ApprovalRequests_proofs -----------------------
(***************************************************************************)
(* Proofs about ApprovalRequests, for every set of requests, tabs, refs    *)
(* and saved values, every workload and every waiting time.                *)
(***************************************************************************)
EXTENDS ApprovalRequests, TLAPS

(***************************************************************************)
(* Type correctness.                                                       *)
(***************************************************************************)
LEMMA Blanks == /\ Unsealed \in [Refs -> Values \union {None}]
                /\ Closed \in TabState
                /\ Closed.pc = "idle"
BY DEF Unsealed, Closed, TabState

TabsOK == /\ tab \in [Tabs -> TabState]
          /\ \A t \in Tabs : tab[t].pc \notin {"idle", "done"} => tab[t].req \in Requests

LEMMA TabStep ==
    ASSUME TypeOK, NEW t \in Tabs, NEW l \in TabState,
           l.pc \notin {"idle", "done"} => l.req \in Requests,
           tab' = [tab EXCEPT ![t] = l]
    PROVE  TabsOK'
BY DEF TypeOK, TabsOK

LEMMA DoneType ==
    ASSUME TypeOK, NEW t \in Tabs, Done(t)
    PROVE  TabsOK'
<1> DEFINE l == [Closed EXCEPT !.pc = "done", !.req = tab[t].req]
<1>1. tab[t] \in TabState
  BY DEF TypeOK
<1>2. l \in TabState /\ l.pc = "done"
  BY <1>1, Blanks DEF TabState
<1>3. tab' = [tab EXCEPT ![t] = l]
  BY DEF Done
<1> HIDE DEF l
<1> QED
  BY <1>2, <1>3, TabStep

LEMMA GotoType ==
    ASSUME TypeOK, NEW t \in Tabs, tab[t].req \in Requests, Goto(t, "grant")
    PROVE  TabsOK'
<1> DEFINE l == [tab[t] EXCEPT !.pc = "grant"]
<1>1. tab[t] \in TabState
  BY DEF TypeOK
<1>2. l \in TabState /\ l.req \in Requests
  BY <1>1 DEF TabState
<1>3. tab' = [tab EXCEPT ![t] = l]
  BY DEF Goto
<1> HIDE DEF l
<1> QED
  BY <1>2, <1>3, TabStep

LEMMA TypeInit == Init => TypeOK
BY Blanks, WaitAssumption, WorkloadAssumption DEF Init, TypeOK

LEMMA AskingType ==
    ASSUME TypeOK, NEW r \in Requests, Ask(r) \/ Asking(r) \/ Die(r)
    PROVE  TypeOK'
<1>1. CASE Ask(r)
  <2>1. PICK pc \in {"asking", "failed"} : cli' = [cli EXCEPT ![r] = pc]
    BY <1>1 DEF Ask, Step
  <2>2. UNCHANGED <<now, wanted, device, secrets, row, started, tab, stored>>
    BY <1>1 DEF Ask
  <2> QED
    BY <2>1, <2>2 DEF TypeOK, row, Final
<1>2. CASE Insert(r)
  BY <1>2 DEF Insert, Step, TypeOK
<1>3. CASE Answered(r)
  BY <1>3, ZenonT(40) DEF Answered, Step, TypeOK, row, Final
<1>4. CASE Check(r)
  BY <1>4 DEF Check, Step, TypeOK, row, Final
<1>5. CASE Poll(r)
  <2>1. PollOutcome(r) \in {"failed", "denied", "granted", "check"}
    BY DEF PollOutcome
  <2> QED
    BY <1>5, <2>1 DEF Poll, Step, TypeOK, row, Final
<1>6. CASE Die(r)
  BY <1>6 DEF Die, TypeOK, Final
<1> QED
  BY <1>1, <1>2, <1>3, <1>4, <1>5, <1>6 DEF Asking

LEMMA AnsweringType ==
    ASSUME TypeOK, NEW t \in Tabs, Answering(t)
    PROVE  TypeOK'
<1>0. /\ tab[t] \in TabState
      /\ tab[t].pc \in {"open", "sealed", "grant", "decide"} => tab[t].req \in Requests
      /\ t \in Values
  BY DEF TypeOK, Values
<1>1. ASSUME NEW r \in Requests, Open(t, r) PROVE TypeOK'
  <2> DEFINE l == [tab[t] EXCEPT !.pc = "open", !.req = r,
                                 !.known = {ref \in Refs : secrets[ref] # None}]
  <2>1. l \in TabState /\ l.req \in Requests
    BY <1>0 DEF TabState
  <2>2. tab' = [tab EXCEPT ![t] = l]
    BY <1>1 DEF Open
  <2> HIDE DEF l
  <2>3. TabsOK'
    BY <2>1, <2>2, TabStep
  <2> QED
    BY <1>1, <2>3 DEF Open, TypeOK, TabsOK, row
<1>2. CASE Seal(t)
  <2> DEFINE v == [ref \in Refs |->
                     CASE ref \in Missing(t) -> t
                       [] ref \in wanted[tab[t].req] \ Missing(t) -> secrets[ref]
                       [] OTHER -> None]
             l == [tab[t] EXCEPT !.pc = "sealed", !.value = v]
  <2>1. v \in [Refs -> Values \union {None}]
    BY <1>0 DEF TypeOK
  <2>2. tab[t].req \in Requests
    BY <1>0, <1>2 DEF Seal
  <2>3. tab' = [tab EXCEPT ![t] = l]
    BY <1>2 DEF Seal
  <2> HIDE DEF v
  <2>4. l \in TabState /\ l.req \in Requests
    BY <1>0, <2>1, <2>2 DEF TabState
  <2> HIDE DEF l
  <2>5. TabsOK'
    BY <2>3, <2>4, TabStep
  <2> QED
    BY <1>2, <2>5 DEF Seal, TypeOK, TabsOK, row
<1>3. CASE StartGrant(t)
  <2>1. TabsOK'
    BY <1>0, <1>3, GotoType, DoneType DEF StartGrant
  <2> QED
    BY <1>3, <2>1 DEF StartGrant, TypeOK, TabsOK, row
<1>4. CASE Grant(t)
  <2>1. tab[t].value \in [Refs -> Values \union {None}]
    BY <1>0 DEF TabState
  <2>2. secrets' \in [Refs -> Values \union {None}]
    BY <1>0, <1>4 DEF Grant, Inserted, TypeOK
  <2>3. stored' \subseteq Refs \X Values
    BY <1>0, <1>4 DEF Grant, Missing, TypeOK
  <2>4. status' \in [Requests -> {"none", "pending", "approved", "denied"}]
    BY <1>4 DEF Grant, TypeOK
  <2>5. grant' \in [Requests -> [Refs -> Values \union {None}]]
    BY <1>4, <2>1 DEF Grant, TypeOK
  <2>6. TabsOK'
    BY <1>4, DoneType DEF Grant
  <2> QED
    BY <1>4, <2>2, <2>3, <2>4, <2>5, <2>6 DEF Grant, TypeOK, TabsOK
<1>5. CASE StartDecide(t)
  <2>1. PICK says \in {"approved", "denied"} :
          \/ tab' = [tab EXCEPT ![t] = [@ EXCEPT !.pc = "decide", !.says = says]]
          \/ Done(t)
    BY <1>5 DEF StartDecide
  <2> DEFINE l == [tab[t] EXCEPT !.pc = "decide", !.says = says]
  <2>2. l \in TabState /\ l.req \in Requests
    BY <1>0, <1>5 DEF StartDecide, TabState
  <2>3. Done(t) \/ tab' = [tab EXCEPT ![t] = l]
    BY <2>1
  <2> HIDE DEF l
  <2>4. TabsOK'
    BY <2>2, <2>3, TabStep, DoneType
  <2> QED
    BY <1>5, <2>4 DEF StartDecide, TypeOK, TabsOK, row
<1>6. CASE Decide(t)
  <2>1. status' \in [Requests -> {"none", "pending", "approved", "denied"}]
    BY <1>0, <1>6 DEF Decide, TypeOK, TabState
  <2> QED
    BY <1>6, <2>1, DoneType DEF Decide, TypeOK, TabsOK
<1>7. CASE Close(t)
  BY <1>7, DoneType DEF Close, TypeOK, TabsOK, row
<1> QED
  BY <1>1, <1>2, <1>3, <1>4, <1>5, <1>6, <1>7 DEF Answering

LEMMA TypeStep == TypeOK /\ [Next]_vars => TypeOK'
<1> SUFFICES ASSUME TypeOK, [Next]_vars PROVE TypeOK'
  OBVIOUS
<1>1. CASE Tick
  BY <1>1 DEF Tick, TypeOK, row
<1>2. ASSUME NEW ref \in Refs, NEW v \in Saves, Save(ref, v) PROVE TypeOK'
  BY <1>2 DEF Save, TypeOK, row, Values
<1>3. CASE Revoke
  BY <1>3 DEF Revoke, TypeOK, row
<1>4. CASE UNCHANGED vars
  BY <1>4 DEF vars, TypeOK
<1> QED
  BY <1>1, <1>2, <1>3, <1>4, AskingType, AnsweringType DEF Next

\* The rows, the CLI processes and the tabs keep their types.
THEOREM ApprovalTypeCorrect == Spec => []TypeOK
BY TypeInit, TypeStep, PTL DEF Spec

-----------------------------------------------------------------------------
(***************************************************************************)
(* Refinement of OneAnswer.                                                *)
(*                                                                         *)
(* Every statement that decides has its WHERE status = 'pending', and a    *)
(* CLI hears only what it reads from a decided row; what remains to know   *)
(* is that the row of a request is inserted once.                          *)
(***************************************************************************)
InsertedOnce ==
    \A r \in Requests : cli[r] \in {"idle", "asking"} => status[r] = "none"

LEMMA InsertedOnceInit == Init => InsertedOnce
BY DEF Init, InsertedOnce

LEMMA InsertedOnceStep ==
    ASSUME TypeOK, InsertedOnce, [Next]_vars
    PROVE  InsertedOnce'
<1> USE DEF InsertedOnce, TypeOK, row
<1>1. CASE Tick \/ Revoke
  BY <1>1 DEF Tick, Revoke
<1>2. ASSUME NEW ref \in Refs, NEW v \in Saves, Save(ref, v) PROVE InsertedOnce'
  BY <1>2 DEF Save
<1>3. ASSUME NEW r \in Requests, Ask(r) PROVE InsertedOnce'
  BY <1>3 DEF Ask, Step
<1>4. ASSUME NEW r \in Requests, Asking(r) PROVE InsertedOnce'
  <2>1. CASE Insert(r)
    BY <2>1 DEF Insert, Step
  <2>2. CASE Answered(r)
    BY <2>2 DEF Answered, Step
  <2>3. CASE Check(r)
    BY <2>3 DEF Check, Step
  <2>4. CASE Poll(r)
    <3>1. PollOutcome(r) \notin {"idle", "asking"}
      BY DEF PollOutcome
    <3> QED
      BY <2>4, <3>1 DEF Poll, Step
  <2> QED
    BY <1>4, <2>1, <2>2, <2>3, <2>4 DEF Asking
<1>5. ASSUME NEW r \in Requests, Die(r) PROVE InsertedOnce'
  BY <1>5 DEF Die
<1>6. ASSUME NEW t \in Tabs, Answering(t) PROVE InsertedOnce'
  <2>1. cli' = cli
    BY <1>6 DEF Answering, Open, Seal, StartGrant, Grant, StartDecide, Decide, Close
  <2>2. \A r \in Requests : status[r] = "none" => status'[r] = "none"
    BY <1>6
    DEF Answering, Open, Seal, StartGrant, Grant, StartDecide, Decide, Close, Decidable
  <2> QED
    BY <2>1, <2>2
<1>7. CASE UNCHANGED vars
  BY <1>7 DEF vars
<1> QED
  BY <1>1, <1>2, <1>3, <1>4, <1>5, <1>6, <1>7 DEF Next

HeardNow == [r \in Requests |-> Heard(r)]

LEMMA RefineInit == Init => Protocol!Init
BY DEF Init, Protocol!Init, Heard

\* A step that changes at most the answer, or at most what one machine heard.
LEMMA AnswerStep ==
    ASSUME TypeOK, NEW r \in Requests, NEW a \in {"pending", "approved", "denied"},
           status' = [status EXCEPT ![r] = a],
           \/ status[r] = "none" /\ a = "pending"
           \/ status[r] = "pending" /\ a # "pending",
           HeardNow' = HeardNow
    PROVE  Protocol!Next
<1>1. CASE a = "pending"
  BY <1>1 DEF Protocol!Next, Protocol!Ask, HeardNow
<1>2. CASE a # "pending"
  BY <1>2 DEF Protocol!Next, Protocol!Answer, HeardNow
<1> QED
  BY <1>1, <1>2

LEMMA CliStep ==
    ASSUME TypeOK, NEW r \in Requests, NEW from, NEW to, Step(r, from, to)
    PROVE  /\ cli[r] = from /\ cli'[r] = to
           /\ \A q \in Requests \ {r} : cli'[q] = cli[q]
BY DEF Step, TypeOK

LEMMA RefineStep ==
    ASSUME TypeOK, InsertedOnce, [Next]_vars
    PROVE  [Protocol!Next]_(Protocol!answerVars)
<1> DEFINE Goal == [Protocol!Next]_(Protocol!answerVars)
<1> USE DEF row
<1>0. status' = status /\ HeardNow' = HeardNow => Goal
  BY DEF Protocol!answerVars, HeardNow
<1>a. cli' = cli => HeardNow' = HeardNow
  BY DEF HeardNow, Heard
<1>b. ASSUME NEW r \in Requests, NEW from \in {"idle", "asking", "sent", "check", "poll"},
             NEW to, to \notin {"granted", "denied"}, Step(r, from, to)
      PROVE  HeardNow' = HeardNow
  BY <1>b, CliStep DEF HeardNow, Heard
<1>1. CASE Tick \/ Revoke \/ \E ref \in Refs, v \in Saves : Save(ref, v)
  BY <1>0, <1>1, <1>a DEF Tick, Revoke, Save
<1>2. ASSUME NEW r \in Requests, Ask(r) PROVE Goal
  BY <1>0, <1>2, <1>b DEF Ask
<1>3. ASSUME NEW r \in Requests, Asking(r) PROVE Goal
  <2>1. CASE Insert(r)
    BY <2>1, <1>b, AnswerStep, CliStep DEF Insert, InsertedOnce
  <2>2. CASE Answered(r)
    BY <1>0, <2>2, <1>b DEF Answered
  <2>3. CASE Check(r)
    BY <1>0, <2>3, <1>b DEF Check
  <2>4. CASE Poll(r)
    <3>1. CASE PollOutcome(r) \notin {"granted", "denied"}
      BY <1>0, <2>4, <3>1, <1>b DEF Poll
    <3>2. CASE PollOutcome(r) \in {"granted", "denied"}
      <4>1. /\ cli[r] = "poll" /\ cli'[r] = PollOutcome(r)
            /\ \A q \in Requests \ {r} : cli'[q] = cli[q]
        BY <2>4, CliStep DEF Poll
      <4>2. status[r] = IF PollOutcome(r) = "granted" THEN "approved" ELSE "denied"
        BY <3>2 DEF PollOutcome
      <4>3. HeardNow[r] = "nothing" /\ HeardNow'[r] = status[r]
        BY <3>2, <4>1, <4>2 DEF HeardNow, Heard
      <4>4. \A q \in Requests \ {r} : HeardNow'[q] = HeardNow[q]
        BY <4>1 DEF HeardNow, Heard
      <4>5. HeardNow' = [HeardNow EXCEPT ![r] = status[r]]
        BY <4>3, <4>4 DEF HeardNow
      <4>6. status' = status /\ status[r] \in {"approved", "denied"}
        BY <2>4, <4>2 DEF Poll
      <4>7. Protocol!Hear(r)
        BY <4>3, <4>5, <4>6 DEF Protocol!Hear, HeardNow
      <4> QED
        BY <4>7 DEF Protocol!Next
    <3> QED
      BY <3>1, <3>2
  <2> QED
    BY <1>3, <2>1, <2>2, <2>3, <2>4 DEF Asking
<1>4. ASSUME NEW r \in Requests, Die(r) PROVE Goal
  <2>1. HeardNow' = HeardNow
    BY <1>4 DEF Die, HeardNow, Heard, TypeOK
  <2>2. CASE status' = status
    BY <1>0, <2>1, <2>2
  <2>3. CASE cli[r] = "asking" /\ status' = [status EXCEPT ![r] = "pending"]
    BY <2>1, <2>3, AnswerStep DEF InsertedOnce
  <2> QED
    BY <1>4, <2>2, <2>3 DEF Die
<1>5. ASSUME NEW t \in Tabs, Answering(t) PROVE Goal
  <2>1. HeardNow' = HeardNow
    BY <1>5, <1>a
    DEF Answering, Open, Seal, StartGrant, Grant, StartDecide, Decide, Close
  <2>2. CASE status' = status
    BY <1>0, <2>1, <2>2
  <2>3. ASSUME NEW r \in Requests, NEW a \in {"approved", "denied"},
               status' = [status EXCEPT ![r] = IF Decidable(r) THEN a ELSE @]
        PROVE  Goal
    <3>1. CASE Decidable(r)
      BY <2>1, <2>3, <3>1, AnswerStep DEF Decidable
    <3>2. CASE ~Decidable(r)
      BY <1>0, <2>1, <2>3, <3>2 DEF TypeOK
    <3> QED
      BY <3>1, <3>2
  <2>4. /\ tab[t].pc \in {"grant", "decide"} => tab[t].req \in Requests
        /\ tab[t].says \in {"approved", "denied"}
    BY DEF TypeOK, TabState
  <2> QED
    BY <1>5, <2>2, <2>3, <2>4
    DEF Answering, Open, Seal, StartGrant, Grant, StartDecide, Decide, Close
<1>6. CASE UNCHANGED vars
  BY <1>0, <1>6, <1>a DEF vars
<1> QED
  BY <1>1, <1>2, <1>3, <1>4, <1>5, <1>6 DEF Next

\* Every behaviour of the CLIs, the tabs and the Worker, with every race
\* between grants, denials, deadlines and deaths, is one in which a request is
\* answered once, for good, and its CLI hears that answer or none.
THEOREM ApprovalImplementsOneAnswer == Spec => ImplementsOneAnswer
<1>1. TypeOK /\ InsertedOnce /\ [Next]_vars => (TypeOK /\ InsertedOnce)'
  BY TypeStep, InsertedOnceStep
<1>2. Init => TypeOK /\ InsertedOnce /\ Protocol!Init
  BY TypeInit, InsertedOnceInit, RefineInit
<1>3. TypeOK /\ InsertedOnce /\ [Next]_vars => [Protocol!Next]_(Protocol!answerVars)
  BY RefineStep
<1> QED
  BY <1>1, <1>2, <1>3, PTL DEF Spec, ImplementsOneAnswer, Protocol!Spec

-----------------------------------------------------------------------------
(***************************************************************************)
(* What a machine gets is complete and stored.                             *)
(*                                                                         *)
(* The invariant follows a value from the tab that seals it to the row of  *)
(* the request: it was read from the store, or it is the tab's own and     *)
(* goes into the store in the batch that also writes the grant.            *)
(***************************************************************************)
StoreKept == \A ref \in Refs : secrets[ref] # None => <<ref, secrets[ref]>> \in stored

KnownKept == \A t \in Tabs : \A ref \in tab[t].known : secrets[ref] # None

SealedBy(t) ==
    \A ref \in Refs :
        /\ tab[t].value[ref] # None =>
              \/ tab[t].value[ref] = t /\ ref \in Missing(t)
              \/ <<ref, tab[t].value[ref]>> \in stored
        /\ ref \in wanted[tab[t].req] => tab[t].value[ref] # None

SealedInv == \A t \in Tabs : tab[t].pc \in {"sealed", "grant"} => SealedBy(t)

GrantInv == StoreKept /\ KnownKept /\ SealedInv /\ SealedIsStored /\ GrantIsComplete

LEMMA GrantInvInit == Init => GrantInv
BY DEF Init, GrantInv, StoreKept, KnownKept, SealedInv, SealedIsStored,
       GrantIsComplete, Unsealed, Closed

\* Steps that leave the grants and the tabs alone, and only add to the store.
LEMMA GrantInvStore ==
    ASSUME TypeOK, GrantInv, UNCHANGED <<wanted, grant, tab>>,
           stored \subseteq stored', StoreKept',
           \A ref \in Refs : secrets[ref] # None => secrets'[ref] # None
    PROVE  GrantInv'
<1> USE DEF GrantInv
<1>1. KnownKept'
  BY DEF KnownKept, TypeOK, TabState
<1>2. SealedInv'
  BY DEF SealedInv, SealedBy, Missing
<1>3. SealedIsStored' /\ GrantIsComplete'
  BY DEF SealedIsStored, GrantIsComplete, Complete, Unsealed
<1> QED
  BY <1>1, <1>2, <1>3

\* A tab moves and writes neither secrets nor grants.
LEMMA GrantInvTab ==
    ASSUME TypeOK, GrantInv, NEW t \in Tabs, NEW l,
           UNCHANGED <<wanted, grant, secrets, stored>>,
           tab' = [tab EXCEPT ![t] = l],
           \A ref \in l.known : secrets[ref] # None,
           l.pc \in {"sealed", "grant"} => SealedBy(t)'
    PROVE  GrantInv'
<1> USE DEF GrantInv
<1>0. tab'[t] = l /\ \A u \in Tabs \ {t} : tab'[u] = tab[u]
  BY DEF TypeOK
<1>1. StoreKept' /\ KnownKept'
  BY <1>0 DEF StoreKept, KnownKept
<1>2. SealedInv'
  <2> SUFFICES ASSUME NEW u \in Tabs, tab'[u].pc \in {"sealed", "grant"}
               PROVE  SealedBy(u)'
    BY DEF SealedInv
  <2>1. CASE u = t
    BY <2>1, <1>0
  <2>2. CASE u # t
    BY <2>2, <1>0 DEF SealedInv, SealedBy, Missing
  <2> QED
    BY <2>1, <2>2
<1>3. SealedIsStored' /\ GrantIsComplete'
  BY DEF SealedIsStored, GrantIsComplete, Complete, Unsealed
<1> QED
  BY <1>1, <1>2, <1>3

LEMMA GrantInvDone ==
    ASSUME TypeOK, GrantInv, NEW t \in Tabs, Done(t),
           UNCHANGED <<wanted, grant, secrets, stored>>
    PROVE  GrantInv'
<1> DEFINE l == [Closed EXCEPT !.pc = "done", !.req = tab[t].req]
<1>1. l.known = {} /\ l.pc = "done" /\ tab' = [tab EXCEPT ![t] = l]
  BY DEF Done, Closed
<1> HIDE DEF l
<1> QED
  BY <1>1, GrantInvTab

\* The batch: the store takes the tab's own values together with the grant.
LEMMA GrantInvBatch ==
    ASSUME TypeOK, GrantInv, NEW t \in Tabs, Grant(t)
    PROVE  GrantInv'
<1> USE DEF GrantInv
<1> DEFINE r == tab[t].req
<1>0. r \in Requests /\ SealedBy(t) /\ tab[t].known \subseteq Refs
  BY DEF Grant, TypeOK, TabState, SealedInv
<1>1. CASE Conflict(t)
  BY <1>1, GrantInvDone DEF Grant
<1>2. CASE ~Conflict(t)
  <2>1. /\ secrets' = Inserted(t)
        /\ stored' = stored \union {<<ref, t>> : ref \in Missing(t)}
        /\ grant' = [grant EXCEPT ![r] = IF Decidable(r) THEN tab[t].value ELSE @]
        /\ wanted' = wanted
        /\ Done(t)
    BY <1>2 DEF Grant
  <2>2. t # None
    BY ValuesAssumption
  <2>3. \A ref \in Refs : /\ ref \in Missing(t) => secrets'[ref] = t
                          /\ ref \notin Missing(t) => secrets'[ref] = secrets[ref]
    BY <2>1 DEF Inserted
  <2>4. StoreKept'
    BY <2>1, <2>3 DEF StoreKept
  <2>5. /\ \A u \in Tabs \ {t} : tab'[u] = tab[u]
        /\ tab'[t].known = {} /\ tab'[t].pc = "done"
    BY <2>1 DEF Done, Closed, TypeOK
  <2>6. KnownKept'
    <3> SUFFICES ASSUME NEW u \in Tabs, NEW ref \in tab'[u].known
                 PROVE  secrets'[ref] # None
      BY DEF KnownKept
    <3>1. u # t /\ ref \in tab[u].known /\ ref \in Refs
      BY <2>5 DEF TypeOK, TabState
    <3> QED
      BY <3>1, <2>2, <2>3 DEF KnownKept
  <2>7. SealedInv'
    <3> SUFFICES ASSUME NEW u \in Tabs, tab'[u].pc \in {"sealed", "grant"}
                 PROVE  SealedBy(u)'
      BY DEF SealedInv
    <3>1. tab'[u] = tab[u] /\ SealedBy(u)
      BY <2>5 DEF SealedInv
    <3> QED
      BY <2>1, <3>1 DEF SealedBy, Missing
  <2>8. \A ref \in Refs : tab[t].value[ref] # None =>
            <<ref, tab[t].value[ref]>> \in stored'
    BY <1>0, <2>1 DEF SealedBy
  <2>9. \A ref \in wanted[r] : tab[t].value[ref] # None
    BY <1>0 DEF SealedBy, TypeOK
  <2>10. \A q \in Requests : \/ grant'[q] = grant[q]
                             \/ q = r /\ grant'[q] = tab[t].value
    BY <1>0, <2>1 DEF TypeOK
  <2>11. SealedIsStored'
    BY <2>1, <2>8, <2>10 DEF SealedIsStored
  <2>12. GrantIsComplete'
    BY <2>1, <2>9, <2>10 DEF GrantIsComplete, Complete, Unsealed
  <2> QED
    BY <2>4, <2>6, <2>7, <2>11, <2>12
<1> QED
  BY <1>1, <1>2

LEMMA GrantInvStep ==
    ASSUME TypeOK, GrantInv, [Next]_vars
    PROVE  GrantInv'
<1> USE DEF row
<1>0. GrantInv => StoreKept
  BY DEF GrantInv
<1>1. CASE Tick \/ Revoke \/ \E r \in Requests : Ask(r) \/ Asking(r) \/ Die(r)
  <2>1. UNCHANGED <<wanted, secrets, grant, tab, stored>>
    BY <1>1 DEF Tick, Revoke, Ask, Asking, Insert, Answered, Check, Poll, Die
  <2>2. StoreKept'
    BY <1>0, <2>1 DEF StoreKept
  <2> QED
    BY <2>1, <2>2, GrantInvStore
<1>2. ASSUME NEW ref \in Refs, NEW v \in Saves, Save(ref, v) PROVE GrantInv'
  <2>1. UNCHANGED <<wanted, grant, tab>> /\ stored \subseteq stored'
    BY <1>2 DEF Save
  <2>2. \A x \in Refs : secrets'[x] = IF x = ref THEN v ELSE secrets[x]
    BY <1>2 DEF Save, TypeOK
  <2>3. v # None
    BY ValuesAssumption
  <2>4. StoreKept'
    BY <1>0, <1>2, <2>2 DEF Save, StoreKept
  <2> QED
    BY <2>1, <2>2, <2>3, <2>4, GrantInvStore
<1>3. ASSUME NEW t \in Tabs, Answering(t) PROVE GrantInv'
  <2>0. /\ tab[t] \in TabState
        /\ \A ref \in tab[t].known : ref \in Refs /\ secrets[ref] # None
        /\ tab[t].pc \in {"sealed", "grant"} => SealedBy(t)
        /\ tab[t].pc \in {"open", "sealed"} => tab[t].req \in Requests
    BY DEF TypeOK, TabState, GrantInv, KnownKept, SealedInv
  <2>1. ASSUME NEW r \in Requests, Open(t, r) PROVE GrantInv'
    <3> DEFINE l == [tab[t] EXCEPT !.pc = "open", !.req = r,
                                   !.known = {ref \in Refs : secrets[ref] # None}]
    <3>1. /\ l.pc = "open" /\ \A ref \in l.known : secrets[ref] # None
          /\ tab' = [tab EXCEPT ![t] = l]
      BY <2>0, <2>1 DEF Open, TabState
    <3>2. UNCHANGED <<wanted, grant, secrets, stored>>
      BY <2>1 DEF Open
    <3> HIDE DEF l
    <3> QED
      BY <3>1, <3>2, GrantInvTab
  <2>2. CASE Seal(t)
    <3> DEFINE v == [ref \in Refs |->
                       CASE ref \in Missing(t) -> t
                         [] ref \in wanted[tab[t].req] \ Missing(t) -> secrets[ref]
                         [] OTHER -> None]
               l == [tab[t] EXCEPT !.pc = "sealed", !.value = v]
    <3>1. tab' = [tab EXCEPT ![t] = l] /\ UNCHANGED <<wanted, grant, secrets, stored>>
      BY <2>2 DEF Seal
    <3>2. l.known = tab[t].known /\ l.req = tab[t].req /\ l.value = v
      BY <2>0 DEF TabState
    <3>3. \A ref \in Refs :
            /\ ref \in Missing(t) => v[ref] = t
            /\ ref \in wanted[tab[t].req] \ Missing(t) => v[ref] = secrets[ref]
            /\ ref \notin wanted[tab[t].req] => v[ref] = None
      BY DEF Missing
    <3> HIDE DEF v, l
    <3>4. tab'[t] = l
      BY <3>1 DEF TypeOK
    <3>5. t # None
      BY ValuesAssumption
    <3>6. \A ref \in wanted[tab[t].req] \ Missing(t) : secrets[ref] # None
      BY <2>0 DEF Missing
    <3>7. Missing(t)' = Missing(t)
      BY <3>1, <3>2, <3>4 DEF Missing
    <3>8. SealedBy(t)'
      BY <1>0, <3>1, <3>2, <3>3, <3>4, <3>5, <3>6, <3>7 DEF SealedBy, StoreKept
    <3> QED
      BY <2>0, <3>1, <3>2, <3>8, GrantInvTab
  <2>3. CASE StartGrant(t)
    <3>1. UNCHANGED <<wanted, grant, secrets, stored>>
      BY <2>3 DEF StartGrant
    <3>2. CASE Done(t)
      BY <3>1, <3>2, GrantInvDone
    <3>3. CASE Goto(t, "grant")
      <4> DEFINE l == [tab[t] EXCEPT !.pc = "grant"]
      <4>1. /\ tab' = [tab EXCEPT ![t] = l]
            /\ l.known = tab[t].known /\ l.value = tab[t].value /\ l.req = tab[t].req
        BY <2>0, <3>3 DEF Goto, TabState
      <4> HIDE DEF l
      <4>2. tab'[t] = l
        BY <4>1 DEF TypeOK
      <4>3. SealedBy(t)
        BY <2>0, <2>3 DEF StartGrant
      <4>4. SealedBy(t)'
        BY <3>1, <4>1, <4>2, <4>3 DEF SealedBy, Missing
      <4> QED
        BY <2>0, <3>1, <4>1, <4>4, GrantInvTab
    <3> QED
      BY <2>3, <3>2, <3>3 DEF StartGrant
  <2>4. CASE StartDecide(t)
    <3>1. UNCHANGED <<wanted, grant, secrets, stored>>
      BY <2>4 DEF StartDecide
    <3>2. CASE Done(t)
      BY <3>1, <3>2, GrantInvDone
    <3>3. ASSUME NEW says,
                 tab' = [tab EXCEPT ![t] = [@ EXCEPT !.pc = "decide", !.says = says]]
          PROVE  GrantInv'
      <4> DEFINE l == [tab[t] EXCEPT !.pc = "decide", !.says = says]
      <4>1. /\ tab' = [tab EXCEPT ![t] = l]
            /\ l.known = tab[t].known /\ l.pc = "decide"
        BY <2>0, <3>3 DEF TabState
      <4> HIDE DEF l
      <4> QED
        BY <2>0, <3>1, <4>1, GrantInvTab
    <3> QED
      BY <2>4, <3>2, <3>3 DEF StartDecide
  <2>5. CASE Decide(t)
    <3>1. UNCHANGED <<wanted, grant, secrets, stored>> /\ Done(t)
      BY <2>5 DEF Decide
    <3> QED
      BY <3>1, GrantInvDone
  <2>6. CASE Close(t)
    <3>1. UNCHANGED <<wanted, grant, secrets, stored>> /\ Done(t)
      BY <2>6 DEF Close
    <3> QED
      BY <3>1, GrantInvDone
  <2> QED
    BY <1>3, <2>1, <2>2, <2>3, <2>4, <2>5, <2>6, GrantInvBatch DEF Answering
<1>4. CASE UNCHANGED vars
  <2>1. UNCHANGED <<wanted, secrets, grant, tab, stored>>
    BY <1>4 DEF vars
  <2>2. StoreKept'
    BY <1>0, <2>1 DEF StoreKept
  <2> QED
    BY <2>1, <2>2, GrantInvStore
<1> QED
  BY <1>1, <1>2, <1>3, <1>4 DEF Next

LEMMA GrantInvAlways == Spec => []GrantInv
BY TypeInit, GrantInvInit, TypeStep, GrantInvStep, PTL DEF Spec

\* Whatever tabs and saves race, the value a machine gets for a ref is one the
\* vault stores, or stored, under it.
THEOREM ApprovalSealedIsStored == Spec => []SealedIsStored
<1>1. GrantInv => SealedIsStored
  BY DEF GrantInv
<1> QED
  BY <1>1, GrantInvAlways, PTL

\* A machine gets everything it asked for or nothing, although the tab decides
\* from a cached list what it has to create.
THEOREM ApprovalGrantIsComplete == Spec => []GrantIsComplete
<1>1. GrantInv => GrantIsComplete
  BY DEF GrantInv
<1> QED
  BY <1>1, GrantInvAlways, PTL

-----------------------------------------------------------------------------
(***************************************************************************)
(* The CLI gives up last.                                                  *)
(*                                                                         *)
(* The Worker stamps created_at before it answers, and the CLI reads its   *)
(* clock after it has the answer, so its deadline is not the earlier one.  *)
(***************************************************************************)
DeadlineOK(r) ==
    /\ created[r] <= now
    /\ cli[r] \in {"check", "poll", "timedout"} => created[r] <= started[r]
    /\ cli[r] = "timedout" => started[r] + Wait <= now

DeadlineInv == \A r \in Requests : DeadlineOK(r)

LEMMA DeadlineInit == Init => DeadlineInv
<1> SUFFICES ASSUME Init, NEW r \in Requests PROVE DeadlineOK(r)
  BY DEF DeadlineInv
<1>1. now = 0 /\ created[r] = 0 /\ cli[r] = "idle"
  BY DEF Init
<1> QED
  BY <1>1 DEF DeadlineOK

LEMMA DeadlineCli ==
    ASSUME TypeOK, DeadlineInv, NEW r \in Requests, Ask(r) \/ Asking(r) \/ Die(r)
    PROVE  DeadlineInv'
<1> USE DEF TypeOK, row
<1>0. now' = now /\ \A q \in Requests \ {r} :
         cli'[q] = cli[q] /\ created'[q] = created[q] /\ started'[q] = started[q]
  BY DEF Ask, Asking, Insert, Answered, Check, Poll, Die, Step
<1>1. CASE Ask(r)
  BY <1>1 DEF Ask, Step, DeadlineInv, DeadlineOK
<1>2. CASE Insert(r)
  BY <1>2 DEF Insert, Step, DeadlineInv, DeadlineOK
<1>3. CASE Answered(r)
  BY <1>3 DEF Answered, Step, DeadlineInv, DeadlineOK
<1>4. CASE Check(r)
  <2>1. ~Waiting(r) => started[r] + Wait <= now
    BY WaitAssumption DEF Waiting
  <2>2. /\ cli[r] = "check" /\ UNCHANGED <<now, created, started>>
        /\ cli'[r] = IF Waiting(r) THEN "poll" ELSE "timedout"
    BY <1>4, CliStep DEF Check
  <2> QED
    BY <1>0, <2>1, <2>2 DEF DeadlineInv, DeadlineOK
<1>5. CASE Poll(r)
  <2>1. PollOutcome(r) # "timedout"
    BY DEF PollOutcome
  <2>2. /\ cli[r] = "poll" /\ cli'[r] = PollOutcome(r)
        /\ UNCHANGED <<now, created, started>>
    BY <1>5, CliStep DEF Poll
  <2> QED
    BY <1>0, <2>1, <2>2 DEF DeadlineInv, DeadlineOK
<1>6. CASE Die(r)
  BY <1>6 DEF Die, DeadlineInv, DeadlineOK
<1> QED
  BY <1>1, <1>2, <1>3, <1>4, <1>5, <1>6 DEF Asking

LEMMA DeadlineStep ==
    ASSUME TypeOK, DeadlineInv, [Next]_vars
    PROVE  DeadlineInv'
<1>1. CASE Tick
  BY <1>1, WaitAssumption DEF Tick, DeadlineInv, DeadlineOK, TypeOK, row
<1>2. CASE Revoke \/ UNCHANGED vars \/ \E ref \in Refs, v \in Saves : Save(ref, v)
  BY <1>2 DEF Revoke, Save, vars, DeadlineInv, DeadlineOK, row
<1>3. ASSUME NEW t \in Tabs, Answering(t) PROVE DeadlineInv'
  <2>1. UNCHANGED <<now, cli, created, started>>
    BY <1>3
    DEF Answering, Open, Seal, StartGrant, Grant, StartDecide, Decide, Close, row
  <2> QED
    BY <2>1 DEF DeadlineInv, DeadlineOK
<1> QED
  BY <1>1, <1>2, <1>3, DeadlineCli DEF Next

\* However long the calls take, a CLI has timed out only when the Worker
\* accepts no answer to its request any more: no user approves in vain.
THEOREM ApprovalGivesUpLast == Spec => []GivesUpLast
<1>1. TypeOK /\ DeadlineInv => GivesUpLast
  BY WaitAssumption DEF TypeOK, DeadlineInv, DeadlineOK, GivesUpLast, Expired
<1>2. TypeOK /\ DeadlineInv /\ [Next]_vars => DeadlineInv'
  BY DeadlineStep
<1> QED
  BY <1>1, <1>2, DeadlineInit, ApprovalTypeCorrect, PTL DEF Spec

\* A batch that would create a secret which exists by now is rolled back as a
\* whole, so only a save on the vault screen replaces a value.
THEOREM ApprovalOnlySavesReplace == Spec => OnlySavesReplace
<1> DEFINE A == \A ref \in Refs :
                  secrets[ref] # None /\ secrets'[ref] # secrets[ref]
                      => secrets'[ref] \in Saves
<1>1. TypeOK /\ [Next]_vars => A
  <2> SUFFICES ASSUME TypeOK, [Next]_vars PROVE A
    OBVIOUS
  <2> USE DEF row
  <2>1. CASE Tick \/ Revoke \/ UNCHANGED vars
    BY <2>1 DEF Tick, Revoke, vars
  <2>2. ASSUME NEW r \in Requests, Ask(r) \/ Asking(r) \/ Die(r) PROVE A
    BY <2>2 DEF Ask, Asking, Insert, Answered, Check, Poll, Die
  <2>3. ASSUME NEW ref \in Refs, NEW v \in Saves, Save(ref, v) PROVE A
    BY <2>3 DEF Save, TypeOK
  <2>4. ASSUME NEW t \in Tabs, Answering(t) PROVE A
    <3>1. CASE Grant(t)
      BY <3>1 DEF Grant, Conflict, Inserted
    <3> QED
      BY <2>4, <3>1 DEF Answering, Open, Seal, StartGrant, StartDecide, Decide, Close
  <2> QED
    BY <2>1, <2>2, <2>3, <2>4 DEF Next
<1>2. TypeOK /\ [Next]_vars => [A]_vars
  BY <1>1
<1> QED
  BY <1>2, ApprovalTypeCorrect, PTL DEF Spec, OnlySavesReplace
=============================================================================
