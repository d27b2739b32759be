------------------------ MODULE Notifications_proofs ------------------------
(***************************************************************************)
(* Theorems about the two channels to the phone, Notifications and         *)
(* Realtime, for every number of browsers, tabs, requests and sockets.     *)
(***************************************************************************)
EXTENDS Notifications, Realtime, FiniteSetTheorems, WellFoundedInduction, TLAPS

USE PushAssumption, RealtimeAssumption

-----------------------------------------------------------------------------
(***************************************************************************)
(* Web Push: the inductive invariant.                                      *)
(***************************************************************************)
\* A request is stored before it is open, is for a subscription that has been
\* saved, and is never for one that is still to come.
Sane(l) ==
    /\ l \in Request
    /\ l.pc \in {"none", "insert"} => l.stored = 0 /\ ~l.open
    /\ l.to <= given /\ l.sub <= ids
    /\ l.kind # "pairing" /\ l.pc # "none" => l.sub # 0 /\ l.to # 0

\* A push is sent by a handler that is done; it wakes a browser; and what is
\* found for it has been stored.
Roused(p) ==
    /\ p \in Wakening
    /\ p.pc \in {"fetch", "show", "posted", "told", "missed"} => p.home \in Browsers
    /\ p.notice # 0 => req[p.notice].pc \notin {"none", "insert"}

Shut(k) ==
    /\ k \in Tab
    /\ k.at <= given
    /\ k.pc = "closed" => k.home = None /\ ~k.visible /\ k.posted = {}
    /\ k.pc # "closed" => k.home \in Browsers

\* Ids and endpoints are given out in order, and none is used before.
Counted ==
    /\ ids \in 0..MaxIds /\ given \in 0..MaxEndpoints
    /\ rows \in [Endpoints -> 0..MaxIds] /\ endpoint \in [Browsers -> 0..MaxEndpoints]
    /\ \A e \in Endpoints : rows[e] <= ids /\ (rows[e] # 0 => e <= given)
    /\ \A b \in Browsers : endpoint[b] <= given

\* PushFindsItsRequest, read from left to right.
Followed(r) ==
    /\ push[r].pc \in {"show", "posted"} /\ ~push[r].failed
    /\ req[r].kind # "pairing" /\ req[r].open
    /\ rows[req[r].to] = req[r].sub
    /\ endpoint[push[r].home] = req[r].to

Found(r) ==
    /\ push[r].notice # 0
    /\ req[push[r].notice].stored >= req[r].stored
    /\ req[push[r].notice].kind # "pairing"

Reqs  == req \in [Requests -> Request] /\ \A r \in Requests : Sane(req[r])
Pushs == push \in [Requests -> Wakening] /\ \A r \in Requests : Roused(push[r])
Sent  == \A r \in Requests : push[r].pc # "none" => req[r].pc = "done"
Shuts == tab \in [Tabs -> Tab] /\ \A t \in Tabs : Shut(tab[t])
Finds == \A r \in Requests : Followed(r) => Found(r)

PushInv ==
    Counted /\ Reqs /\ Pushs /\ Sent /\ Shuts /\ Finds /\ PostedIsOnItsWay
-----------------------------------------------------------------------------
(***************************************************************************)
(* The newest row and the latest request exist.                            *)
(***************************************************************************)
LEMMA MaxExists ==
    ASSUME NEW S, S # {}, NEW f, NEW B \in Nat, \A x \in S : f[x] \in 0..B
    PROVE  \E x \in S : \A y \in S : f[y] <= f[x]
<1> DEFINE T == {B - f[x] : x \in S}
<1>1. T \subseteq Nat /\ T # {}
  OBVIOUS
<1>2. PICK m \in T : \A n \in T : <<n, m>> \notin OpToRel(<, Nat)
  BY <1>1, NatLessThanWellFounded, WFMin
<1>3. ASSUME NEW n \in T PROVE m <= n
  <2>1. n \in Nat /\ m \in Nat /\ <<n, m>> \in Nat \X Nat
    BY <1>1, <1>2
  <2>2. <<n, m>> \in OpToRel(<, Nat) \/ ~(n < m)
    BY <2>1 DEF OpToRel
  <2>3. <<n, m>> \notin OpToRel(<, Nat)
    BY <1>2, Zenon
  <2>4. ~(n < m)
    BY <2>2, <2>3, Zenon
  <2> QED  BY <2>1, <2>4
<1>4. PICK x \in S : m = B - f[x]
  OBVIOUS
<1>5. ASSUME NEW y \in S PROVE f[y] <= f[x]
  <2>1. B - f[y] \in T
    OBVIOUS
  <2>2. B - f[x] <= B - f[y]
    BY <1>3, <1>4, <2>1
  <2>3. f[x] \in 0..B /\ f[y] \in 0..B
    OBVIOUS
  <2> QED  BY <2>2, <2>3
<1> QED  BY <1>5

LEMMA NewestIsRow == ASSUME Counted, Rows # {} PROVE Newest \in Rows
<1>1. \A e \in Rows : rows[e] \in 0..MaxIds
  BY DEF Counted, Rows
<1>2. \E e \in Rows : \A f \in Rows : rows[f] <= rows[e]
  BY <1>1, MaxExists
<1> QED  BY <1>2 DEF Newest

LEMMA LastIsOne ==
    ASSUME Reqs, NEW S \in SUBSET Requests, S # {}
    PROVE  LastOf(S) \in S /\ \A q \in S : req[q].stored <= req[LastOf(S)].stored
<1> DEFINE f == [q \in S |-> req[q].stored]
<1>1. \A q \in S : f[q] \in 0..MaxRequests /\ f[q] = req[q].stored
  BY DEF Reqs, Request
<1>2. \E r \in S : \A q \in S : f[q] <= f[r]
  BY <1>1, MaxExists
<1>3. \E r \in S : \A q \in S : req[q].stored <= req[r].stored
  BY <1>1, <1>2
<1> QED  BY <1>3 DEF LastOf
-----------------------------------------------------------------------------
(***************************************************************************)
(* Steps that change one request.                                          *)
(***************************************************************************)
\* What is stored stays as it was stored, and a handler that is done stays done.
Continues(k, l) ==
    /\ k.pc \notin {"none", "insert"} =>
          l.pc \notin {"none", "insert"} /\ l.stored = k.stored /\ l.kind = k.kind
    /\ k.pc = "done" =>
          l.pc = "done" /\ l.to = k.to /\ l.sub = k.sub /\ (l.open => k.open)

Changes(r) == \E l : Sane(l) /\ Continues(req[r], l) /\ req' = [req EXCEPT ![r] = l]

LEMMA RequestsKept ==
    ASSUME PushInv, NEW r \in Requests, Changes(r), UNCHANGED <<ids, given>>
    PROVE  /\ Reqs'
           /\ \A q \in Requests : Continues(req[q], req'[q])
<1>1. PICK l : Sane(l) /\ Continues(req[r], l) /\ req' = [req EXCEPT ![r] = l]
  BY DEF Changes
<1>2. req' \in [Requests -> Request]
  BY <1>1 DEF PushInv, Reqs, Sane
<1>3. \A q \in Requests : Sane(req[q])'
  BY <1>1 DEF PushInv, Reqs, Sane
<1>4. \A q \in Requests : Continues(req[q], req'[q])
  BY <1>1 DEF PushInv, Reqs, Continues
<1> QED  BY <1>2, <1>3, <1>4 DEF Reqs

LEMMA RequestStep ==
    ASSUME PushInv, NEW r \in Requests, Changes(r), UNCHANGED <<subscribed, push, tab>>
    PROVE  PushInv'
<1> USE DEF subscribed
<1>1. Reqs' /\ \A q \in Requests : Continues(req[q], req'[q])
  BY RequestsKept
<1>2. Counted' /\ Shuts' /\ PostedIsOnItsWay'
  BY DEF PushInv, Counted, Shuts, Shut, PostedIsOnItsWay
<1>3. Pushs' /\ Sent'
  BY <1>1 DEF PushInv, Pushs, Sent, Roused, Wakening, Continues, Requests
<1>4. ASSUME NEW q \in Requests PROVE (Followed(q) => Found(q))'
  <2>1. push[q].notice # 0 => push[q].notice \in Requests
    BY DEF PushInv, Pushs, Wakening, Requests
  <2>2. Followed(q)' => Followed(q) /\ req[q].pc = "done"
    BY <1>1 DEF PushInv, Sent, Followed, Continues
  <2>3. req[q].pc = "done" /\ Found(q) => Found(q)'
    BY <1>1, <2>1 DEF PushInv, Pushs, Roused, Found, Continues
  <2> QED  BY <2>2, <2>3 DEF PushInv, Finds
<1> QED  BY <1>1, <1>2, <1>3, <1>4 DEF PushInv, Finds

\* There are no more times than requests.
LEMMA StoredFits ==
    ASSUME PushInv, NEW r \in Requests, req[r].stored = 0
    PROVE  Cardinality({q \in Requests : req[q].stored # 0}) + 1 \in 0..MaxRequests
<1> DEFINE S == {q \in Requests : req[q].stored # 0}
<1>1. IsFiniteSet(Requests) /\ Cardinality(Requests) = MaxRequests
  BY FS_Interval DEF Requests
<1>2. IsFiniteSet(Requests \ {r}) /\ Cardinality(Requests \ {r}) = MaxRequests - 1
  BY <1>1, FS_RemoveElement
<1>3. S \subseteq Requests \ {r}
  OBVIOUS
<1>4. IsFiniteSet(S) /\ Cardinality(S) <= MaxRequests - 1
  BY <1>2, <1>3, FS_Subset
<1>5. Cardinality(S) \in Nat
  BY <1>4, FS_CardinalityType
<1> QED  BY <1>4, <1>5

\* A request is given the subscription of a row.
LEMMA AddressChanges ==
    ASSUME PushInv, NEW r \in Requests, NEW e \in Rows, NEW pc,
           \/ req[r].pc = "none" /\ pc = "insert"
           \/ req[r].pc = "select" /\ pc = "push",
           SetReq(r, [req[r] EXCEPT !.sub = rows[e], !.to = e, !.pc = pc])
    PROVE  Changes(r)
<1> DEFINE k   == req[r]
           sub == rows[e]
           l   == [k EXCEPT !.sub = sub, !.to = e, !.pc = pc]
<1>1. Sane(k) /\ k \in Request
  BY DEF PushInv, Reqs, Sane
<1>2. /\ e \in 0..MaxEndpoints /\ e # 0 /\ e <= given
      /\ sub \in 0..MaxIds /\ sub # 0 /\ sub <= ids
  BY DEF PushInv, Counted, Rows, Endpoints
<1>3. req' = [req EXCEPT ![r] = l]
  BY DEF SetReq
<1> HIDE DEF k, sub
<1>4. /\ l \in Request /\ l.pc = pc /\ l.sub = sub /\ l.to = e
      /\ l.kind = k.kind /\ l.stored = k.stored /\ l.open = k.open
  BY <1>1, <1>2 DEF Request, k
<1> HIDE DEF l
<1>5. Sane(l) /\ Continues(k, l)
  BY <1>1, <1>2, <1>4 DEF Sane, Continues, k
<1> QED  BY <1>3, <1>5 DEF Changes, k

LEMMA AskChanges == ASSUME PushInv, NEW r \in Requests, Ask(r) PROVE Changes(r)
<1>1. Newest \in Rows
  BY NewestIsRow DEF Ask, PushInv
<1> QED  BY <1>1, AddressChanges DEF Ask, Comes

LEMMA AskPairingChanges == ASSUME PushInv, NEW r \in Requests, AskPairing(r) PROVE Changes(r)
<1> DEFINE k == req[r]
           l == [k EXCEPT !.kind = "pairing", !.pc = "insert"]
<1>1. Sane(k) /\ k \in Request /\ k.pc = "none"
  BY DEF AskPairing, Comes, PushInv, Reqs, Sane
<1>2. req' = [req EXCEPT ![r] = l]
  BY DEF AskPairing, SetReq
<1> HIDE DEF k
<1>3. /\ l \in Request /\ l.pc = "insert" /\ l.kind = "pairing" /\ l.sub = k.sub /\ l.to = k.to
      /\ l.stored = k.stored /\ l.open = k.open
  BY <1>1 DEF Request
<1> HIDE DEF l
<1>4. Sane(l) /\ Continues(k, l)
  BY <1>1, <1>3 DEF Sane, Continues
<1> QED  BY <1>2, <1>4 DEF Changes, k

LEMMA AskTestChanges ==
    ASSUME PushInv, NEW r \in Requests, NEW t, AskTest(r, t) PROVE Changes(r)
BY AddressChanges DEF AskTest, Comes

LEMMA InsertChanges == ASSUME PushInv, NEW r \in Requests, Insert(r) PROVE Changes(r)
<1> DEFINE k  == req[r]
           c  == Cardinality({q \in Requests : req[q].stored # 0}) + 1
           pc == IF k.kind = "pairing" THEN "select" ELSE "push"
           l  == [k EXCEPT !.open = TRUE, !.stored = c, !.pc = pc]
<1>1. Sane(k) /\ k \in Request /\ k.pc = "insert" /\ k.stored = 0
  BY DEF Insert, PushInv, Reqs, Sane
<1>2. c \in 0..MaxRequests
  BY <1>1, StoredFits
<1>3. pc \in {"select", "push"}
  OBVIOUS
<1>4. req' = [req EXCEPT ![r] = l]
  BY DEF Insert, SetReq
<1> HIDE DEF k, c, pc
<1>5. l \in Request /\ l.pc = pc /\ l.sub = k.sub /\ l.to = k.to /\ l.kind = k.kind
  BY <1>1, <1>2, <1>3 DEF Request
<1> HIDE DEF l
<1>6. Sane(l) /\ Continues(k, l)
  BY <1>1, <1>3, <1>5 DEF Sane, Continues
<1> QED  BY <1>4, <1>6 DEF Changes, k

\* At sets nothing but the place of the handler.
LEMMA AtChanges ==
    ASSUME PushInv, NEW r \in Requests, NEW pc \in {"select", "push", "done"},
           req[r].pc \in {"insert", "select", "push"}, At(r, pc),
           req[r].pc # "insert" \/ pc = "done"
    PROVE  Changes(r)
<1> DEFINE k == req[r]
           l == [k EXCEPT !.pc = pc]
<1>1. Sane(k)
  BY DEF PushInv, Reqs
<1>2. Sane(l) /\ Continues(k, l)
  BY <1>1 DEF Sane, Request, Continues
<1>3. req' = [req EXCEPT ![r] = l]
  BY DEF At, SetReq
<1> HIDE DEF l
<1> QED  BY <1>2, <1>3 DEF Changes

LEMMA SelectChanges == ASSUME PushInv, NEW r \in Requests, Select(r) PROVE Changes(r)
<1>1. CASE Rows = {}
  BY <1>1, AtChanges DEF Select
<1>2. CASE Rows # {}
  <2>1. Newest \in Rows
    BY <1>2, NewestIsRow DEF PushInv
  <2> QED  BY <1>2, <2>1, AddressChanges DEF Select
<1> QED  BY <1>1, <1>2

LEMMA DecideChanges == ASSUME PushInv, NEW r \in Requests, Decide(r) PROVE Changes(r)
<1> DEFINE k == req[r]
           l == [k EXCEPT !.open = FALSE]
<1>1. Sane(k)
  BY DEF PushInv, Reqs
<1>2. Sane(l) /\ Continues(k, l)
  BY <1>1 DEF Sane, Request, Continues
<1>3. req' = [req EXCEPT ![r] = l]
  BY DEF Decide, SetReq
<1> HIDE DEF l
<1> QED  BY <1>2, <1>3 DEF Changes
-----------------------------------------------------------------------------
(***************************************************************************)
(* Steps of a push.                                                        *)
(***************************************************************************)
LEMMA PushKeeps == ASSUME PushInv, NEW r \in Requests, Push(r) PROVE PushInv'
<1>1. Changes(r) /\ UNCHANGED <<ids, endpoint, given, tab>>
  BY AtChanges DEF Push
<1>2. Reqs' /\ \A q \in Requests : Continues(req[q], req'[q])
  BY <1>1, RequestsKept
<1>3. /\ req[r].pc = "push" /\ req'[r].pc = "done" /\ push[r].pc = "none"
      /\ \/ push' = [push EXCEPT ![r].pc = "sent"] /\ UNCHANGED rows
         \/ rows' = [rows EXCEPT ![req[r].to] = 0] /\ UNCHANGED push
  BY DEF Push, At, SetReq, PushInv, Reqs, Sent, Request
<1>4. Counted'
  BY <1>1, <1>3 DEF PushInv, Counted
<1>5. Pushs'
  <2>1. push' \in [Requests -> Wakening]
    BY <1>3 DEF PushInv, Pushs, Wakening
  <2>2. \A q \in Requests : /\ push'[q].notice = push[q].notice /\ push'[q].home = push[q].home
                            /\ push'[q].pc # "sent" => push'[q].pc = push[q].pc
    BY <1>3 DEF PushInv, Pushs, Wakening
  <2>3. \A q \in Requests : push[q].notice # 0 => push[q].notice \in Requests
    BY DEF PushInv, Pushs, Wakening, Requests
  <2>4. \A q \in Requests : Roused(push[q])'
    BY <1>2, <2>1, <2>2, <2>3 DEF PushInv, Pushs, Roused, Continues
  <2> QED  BY <2>1, <2>4 DEF Pushs
<1>6. Sent' /\ Shuts' /\ PostedIsOnItsWay'
  BY <1>1, <1>2, <1>3 DEF PushInv, Sent, Continues, Shuts, Shut, PostedIsOnItsWay, Pushs, Wakening
<1>7. ASSUME NEW q \in Requests PROVE (Followed(q) => Found(q))'
  <2>1. push[q].notice # 0 => push[q].notice \in Requests
    BY DEF PushInv, Pushs, Wakening, Requests
  <2>2. Followed(q)' => req[q].pc = "done" /\ push'[q] = push[q]
    BY <1>3 DEF PushInv, Sent, Followed, Pushs, Wakening
  <2>3. req[q].pc = "done" => /\ req'[q].to = req[q].to /\ req'[q].sub = req[q].sub
                              /\ req'[q].kind = req[q].kind /\ req'[q].stored = req[q].stored
                              /\ (req'[q].open => req[q].open)
    BY <1>2 DEF Continues
  <2>4. req[q].kind # "pairing" /\ req[q].pc = "done" => req[q].sub # 0 /\ req[q].to \in Endpoints
    BY DEF PushInv, Reqs, Sane, Request, Endpoints
  <2>5. Followed(q)' => Followed(q)
    BY <1>1, <1>3, <2>2, <2>3, <2>4 DEF Followed, PushInv, Counted
  <2>6. req[q].pc = "done" /\ Found(q) /\ push'[q] = push[q] => Found(q)'
    BY <1>2, <2>1 DEF PushInv, Pushs, Roused, Found, Continues
  <2> QED  BY <2>2, <2>5, <2>6 DEF PushInv, Finds
<1> QED  BY <1>2, <1>4, <1>5, <1>6, <1>7 DEF PushInv, Finds

\* A step of the push handler that posts nothing.
LEMMA WakeStep ==
    ASSUME PushInv, NEW r \in Requests, NEW p, Roused(p), push' = [push EXCEPT ![r] = p],
           UNCHANGED <<subscribed, req, tab>>,
           push[r].pc # "none", p.pc # "posted", (Followed(r) => Found(r))'
    PROVE  PushInv'
<1> USE DEF subscribed
<1>1. Counted' /\ Reqs' /\ Shuts'
  BY DEF PushInv, Counted, Reqs, Sane, Shuts, Shut
<1>2. push' \in [Requests -> Wakening] /\ Pushs' /\ Sent'
  BY DEF PushInv, Pushs, Roused, Sent
<1>3. PostedIsOnItsWay'
  BY DEF PushInv, Pushs, PostedIsOnItsWay
<1>4. ASSUME NEW q \in Requests PROVE (Followed(q) => Found(q))'
  <2>1. CASE q # r
    BY <2>1 DEF PushInv, Pushs, Finds, Followed, Found
  <2> QED  BY <2>1
<1> QED  BY <1>1, <1>2, <1>3, <1>4 DEF PushInv, Finds

LEMMA DeliverKeeps == ASSUME PushInv, NEW r \in Requests, Deliver(r) PROVE PushInv'
<1>1. push[r] \in Wakening /\ Roused(push[r]) /\ push[r].pc = "sent"
  BY DEF PushInv, Pushs, Deliver
<1>2. CASE \E b \in Browsers : SetPush(r, [push[r] EXCEPT !.pc = "fetch", !.home = b])
  <2>1. PICK b \in Browsers : SetPush(r, [push[r] EXCEPT !.pc = "fetch", !.home = b])
    BY <1>2
  <2> DEFINE p == [push[r] EXCEPT !.pc = "fetch", !.home = b]
  <2>2. p \in Wakening /\ p.pc = "fetch" /\ p.home = b /\ p.notice = push[r].notice
    BY <1>1 DEF Wakening
  <2>3. push' = [push EXCEPT ![r] = p]
    BY <2>1 DEF SetPush
  <2> HIDE DEF p
  <2>4. Roused(p)
    BY <1>1, <2>2 DEF Roused
  <2>5. ~Followed(r)'
    BY <2>2, <2>3 DEF Followed, PushInv, Pushs
  <2> QED  BY <1>1, <2>2, <2>3, <2>4, <2>5, WakeStep DEF Deliver
<1>3. CASE SetPush(r, [push[r] EXCEPT !.pc = "dropped"])
  <2> DEFINE p == [push[r] EXCEPT !.pc = "dropped"]
  <2>1. p \in Wakening /\ p.pc = "dropped" /\ p.notice = push[r].notice
    BY <1>1 DEF Wakening
  <2>2. push' = [push EXCEPT ![r] = p]
    BY <1>3 DEF SetPush
  <2> HIDE DEF p
  <2>3. Roused(p) /\ ~Followed(r)'
    BY <1>1, <2>1, <2>2 DEF Roused, Followed, PushInv, Pushs
  <2> QED  BY <1>1, <2>1, <2>2, <2>3, WakeStep DEF Deliver
<1> QED  BY <1>2, <1>3 DEF Deliver

LEMMA LatestIsOpen ==
    ASSUME PushInv, NEW e
    PROVE  /\ Latest(e) # 0 => Latest(e) \in Requests /\ req[Latest(e)].open
           /\ rows[e] # 0 /\ Open(e) # {} =>
                 /\ Latest(e) \in Open(e)
                 /\ \A q \in Open(e) : req[q].stored <= req[Latest(e)].stored
<1>1. /\ Open(e) # {} => /\ LastOf(Open(e)) \in Open(e)
                         /\ \A q \in Open(e) : req[q].stored <= req[LastOf(Open(e))].stored
      /\ Pairings # {} => LastOf(Pairings) \in Pairings
  <2>1. Open(e) \in SUBSET Requests /\ Pairings \in SUBSET Requests
    BY DEF Open, Pairings
  <2> QED  BY <2>1, LastIsOne DEF PushInv
<1>2. rows[e] # 0 /\ Open(e) # {} => Latest(e) = LastOf(Open(e))
  BY DEF Latest
<1>3. rows[e] # 0 /\ Open(e) = {} /\ Pairings # {} => Latest(e) = LastOf(Pairings)
  BY DEF Latest
<1>4. rows[e] = 0 \/ (Open(e) = {} /\ Pairings = {}) => Latest(e) = 0
  BY DEF Latest
<1>5. Latest(e) # 0 => Latest(e) \in Open(e) \/ Latest(e) \in Pairings
  <2>1. CASE rows[e] # 0 /\ Open(e) # {}
    BY <1>1, <1>2, <2>1
  <2>2. CASE rows[e] # 0 /\ Open(e) = {} /\ Pairings # {}
    BY <1>1, <1>3, <2>2
  <2> QED  BY <1>4, <2>1, <2>2
<1>6. \A q : q \in Open(e) \/ q \in Pairings => q \in Requests /\ req[q].open
  BY DEF Open, Pairings
<1> QED  BY <1>1, <1>2, <1>5, <1>6
\* What the service worker finds, if nothing has changed meanwhile, is the
\* request the push was sent for, or a later one.
LEMMA FetchKeeps == ASSUME PushInv, NEW r \in Requests, Fetch(r) PROVE PushInv'
<1> DEFINE e == endpoint[push[r].home]
           n == Latest(e)
<1>1. push[r] \in Wakening /\ Roused(push[r]) /\ push[r].pc = "fetch" /\ push[r].home \in Browsers
  BY DEF PushInv, Pushs, Roused, Fetch
<1>2. CASE SetPush(r, [push[r] EXCEPT !.pc = "show", !.failed = TRUE])
  <2> DEFINE p == [push[r] EXCEPT !.pc = "show", !.failed = TRUE]
  <2>1. /\ p \in Wakening /\ p.pc = "show" /\ p.failed
        /\ p.notice = push[r].notice /\ p.home = push[r].home
    BY <1>1 DEF Wakening
  <2>2. push' = [push EXCEPT ![r] = p]
    BY <1>2 DEF SetPush
  <2> HIDE DEF p
  <2>3. Roused(p) /\ ~Followed(r)'
    BY <1>1, <2>1, <2>2 DEF Roused, Followed, PushInv, Pushs
  <2> QED  BY <1>1, <2>1, <2>2, <2>3, WakeStep DEF Fetch
<1>3. CASE e # 0 /\ SetPush(r, [push[r] EXCEPT !.pc = "show", !.notice = n])
  <2> DEFINE p == [push[r] EXCEPT !.pc = "show", !.notice = n]
  <2>1. n # 0 => n \in Requests /\ req[n].pc \notin {"none", "insert"}
    BY LatestIsOpen DEF PushInv, Reqs, Sane
  <2>2. n \in 0..MaxRequests
    BY <2>1 DEF Requests
  <2> HIDE DEF n
  <2>3. p \in Wakening /\ p.pc = "show" /\ p.notice = n /\ p.home = push[r].home
    BY <1>1, <2>2 DEF Wakening
  <2>4. push' = [push EXCEPT ![r] = p]
    BY <1>3 DEF SetPush
  <2> HIDE DEF p
  <2>5. push'[r] = p /\ Roused(p)
    BY <1>1, <2>1, <2>3, <2>4 DEF Roused, PushInv, Pushs
  <2>6. UNCHANGED <<req, rows, endpoint>>
    BY DEF Fetch, subscribed
  <2>7. ASSUME Followed(r)' PROVE Found(r)'
    <3>1. /\ req[r].kind # "pairing" /\ req[r].open
          /\ rows[req[r].to] = req[r].sub /\ e = req[r].to
      BY <2>3, <2>5, <2>6, <2>7 DEF Followed
    <3>2. req[r].sub # 0
      BY <1>1, <3>1 DEF PushInv, Reqs, Sane
    <3>3. r \in Open(e) /\ rows[e] # 0
      BY <3>1, <3>2 DEF Open
    <3>4. n \in Open(e) /\ req[r].stored <= req[n].stored
      BY <3>3, LatestIsOpen DEF n
    <3>5. n # 0 /\ req[n].kind # "pairing"
      BY <3>4 DEF Open, Requests
    <3>6. req[n].stored \in Nat /\ req[r].stored \in Nat
      BY <3>4 DEF Open, PushInv, Reqs, Request
    <3> QED  BY <2>3, <2>5, <2>6, <3>4, <3>5, <3>6 DEF Found
  <2> QED  BY <1>1, <2>3, <2>4, <2>5, <2>7, WakeStep DEF Fetch
<1> QED  BY <1>2, <1>3 DEF Fetch
-----------------------------------------------------------------------------
(***************************************************************************)
(* Steps that change a tab.                                                *)
(***************************************************************************)
LEMMA EndedIsRoused ==
    ASSUME NEW p, Roused(p), p.pc \in {"fetch", "show", "posted"}, NEW pc \in {"told", "missed"}
    PROVE  /\ Roused(Ended(p, pc)) /\ Ended(p, pc).pc = pc /\ Ended(p, pc).notice = 0
<1> DEFINE q == Ended(p, pc)
<1>1. p.home \in Browsers
  BY DEF Roused
<1>2. q.pc = pc /\ q.home = p.home /\ q.notice = 0
  BY DEF Ended, NoPush
<1>3. q \in Wakening
  <2>1. NoPush \in Wakening
    BY DEF NoPush, Wakening
  <2> DEFINE home == p.home
  <2>2. home \in Browsers
    BY <1>1
  <2> HIDE DEF home
  <2>3. [NoPush EXCEPT !.pc = pc, !.home = home] \in Wakening
    BY <2>1, <2>2 DEF Wakening
  <2> QED  BY <2>3 DEF Ended, home
<1> HIDE DEF q
<1> QED  BY <1>1, <1>2, <1>3 DEF Roused, q

LEMMA EndsKeeps ==
    ASSUME PushInv, NEW r \in Requests, push[r].pc \in {"fetch", "show", "posted"},
           NEW pc \in {"told", "missed"}, Ends(r, pc), UNCHANGED <<subscribed, req, tab>>
    PROVE  PushInv'
<1>1. Roused(push[r]) /\ push' = [push EXCEPT ![r] = Ended(push[r], pc)]
  BY DEF Ends, SetPush, PushInv, Pushs
<1>2. Roused(Ended(push[r], pc)) /\ Ended(push[r], pc).pc = pc
  BY <1>1, EndedIsRoused
<1>3. ~Followed(r)'
  BY <1>1, <1>2 DEF Followed, PushInv, Pushs
<1> QED  BY <1>1, <1>2, <1>3, WakeStep

\* A tab is changed, and nothing else, and what it shows it goes on showing.
LEMMA TabStep ==
    ASSUME PushInv, NEW t \in Tabs, NEW k, Shut(k), SetTab(t, k),
           tab[t].visible => k.visible /\ tab[t].posted \subseteq k.posted,
           UNCHANGED <<subscribed, req, push>>
    PROVE  PushInv'
<1> USE DEF subscribed, SetTab
<1>1. Counted' /\ Reqs' /\ Pushs' /\ Sent'
  BY DEF PushInv, Counted, Reqs, Sane, Pushs, Roused, Sent
<1>2. Shuts'
  BY DEF PushInv, Shuts, Shut
<1>3. Finds'
  BY DEF PushInv, Finds, Followed, Found
<1>4. PostedIsOnItsWay'
  <2>1. ASSUME NEW u \in Tabs, NEW r, tab[u].visible, r \in tab[u].posted
        PROVE  tab'[u].visible /\ r \in tab'[u].posted
    BY <2>1 DEF PushInv, Shuts
  <2> QED  BY <2>1 DEF PushInv, PostedIsOnItsWay
<1> QED  BY <1>1, <1>2, <1>3, <1>4 DEF PushInv

\* A tab leaves, and what only it had been told is missed.
LEMMA LeaveStep ==
    ASSUME PushInv, NEW t \in Tabs, NEW k, Shut(k), SetTab(t, k), Leaves(t),
           UNCHANGED <<subscribed, req>>
    PROVE  PushInv'
<1> USE DEF subscribed, SetTab
<1> DEFINE on(u, r) == tab[u].visible /\ r \in tab[u].posted
<1>1. Counted' /\ Reqs'
  BY DEF PushInv, Counted, Reqs, Sane
<1>2. Shuts'
  BY DEF PushInv, Shuts, Shut
<1>3. ASSUME NEW r \in Requests
      PROVE  /\ Roused(push'[r]) /\ Roused(push[r])
             /\ \/ push'[r] = push[r]
                \/ push'[r].pc = "missed" /\ push[r].pc = "posted"
  <2>1. Roused(push[r])
    BY DEF PushInv, Pushs
  <2>2. push'[r] = push[r] \/ (push[r].pc = "posted" /\ push'[r] = Ended(push[r], "missed"))
    BY DEF Leaves
  <2> QED  BY <2>1, <2>2, EndedIsRoused
<1>4. push' = [r \in Requests |-> push'[r]] /\ push' \in [Requests -> Wakening]
  <2>1. push' = [r \in Requests |-> push'[r]]
    BY DEF Leaves
  <2> QED  BY <1>3, <2>1 DEF Roused
<1>5. Pushs' /\ Sent'
  BY <1>3, <1>4 DEF PushInv, Pushs, Roused, Sent
<1>6. Finds'
  BY <1>3 DEF PushInv, Finds, Followed, Found
<1>7. ASSUME NEW r \in Requests, push'[r].pc = "posted"
      PROVE  \E u \in Tabs : tab'[u].visible /\ r \in tab'[u].posted
  <2>1. push[r].pc = "posted"
    BY <1>3, <1>7
  <2>2. ~(on(t, r) /\ \A u \in Tabs \ {t} : ~on(u, r))
    <3>1. CASE on(t, r) /\ \A u \in Tabs \ {t} : ~on(u, r)
      <4>1. push'[r] = Ended(push[r], "missed")
        BY <2>1, <3>1 DEF Leaves
      <4> QED  BY <1>3, <1>7, <2>1, <4>1, EndedIsRoused
    <3> QED  BY <3>1
  <2>3. \E u \in Tabs : on(u, r)
    BY <2>1 DEF PushInv, PostedIsOnItsWay
  <2>4. PICK u \in Tabs \ {t} : on(u, r)
    BY <2>2, <2>3
  <2> QED  BY <2>4 DEF PushInv, Shuts
<1> QED  BY <1>1, <1>2, <1>5, <1>6, <1>7 DEF PushInv, PostedIsOnItsWay

LEMMA ShowKeeps == ASSUME PushInv, NEW r \in Requests, Show(r) PROVE PushInv'
<1> DEFINE to == Windows(push[r].home)
           on(t) == t \in to /\ Listening(t)
<1>1. push[r] \in Wakening /\ Roused(push[r]) /\ push[r].pc = "show"
  BY DEF PushInv, Pushs, Show
<1>2. CASE Ends(r, "told") /\ UNCHANGED tab
  BY <1>1, <1>2, EndsKeeps DEF Show
<1>3. CASE /\ IF \E t \in to : Listening(t)
              THEN SetPush(r, [push[r] EXCEPT !.pc = "posted"]) ELSE Ends(r, "missed")
           /\ tab' = [t \in Tabs |-> IF on(t) THEN [tab[t] EXCEPT !.posted = @ \union {r}]
                                              ELSE tab[t]]
  <2>1. CASE ~(\E t \in to : Listening(t)) /\ Ends(r, "missed")
    <3>1. tab' = tab
      BY <1>3, <2>1 DEF Windows, PushInv, Shuts
    <3> QED  BY <1>1, <2>1, <3>1, EndsKeeps DEF Show
  <2>2. CASE (\E t \in to : Listening(t)) /\ SetPush(r, [push[r] EXCEPT !.pc = "posted"])
    <3> DEFINE p == [push[r] EXCEPT !.pc = "posted"]
    <3>1. /\ p \in Wakening /\ p.pc = "posted"
          /\ p.notice = push[r].notice /\ p.home = push[r].home /\ p.failed = push[r].failed
      BY <1>1 DEF Wakening
    <3>2. push' = [push EXCEPT ![r] = p]
      BY <2>2 DEF SetPush
    <3> HIDE DEF p
    <3>3. Roused(p)
      BY <1>1, <3>1 DEF Roused
    <3>4. Counted' /\ Reqs'
      BY DEF Show, subscribed, PushInv, Counted, Reqs, Sane
    <3>5. UNCHANGED <<req, rows, endpoint, given>>
      BY DEF Show, subscribed
    <3>6. Pushs' /\ Sent'
      BY <1>1, <3>1, <3>2, <3>3, <3>5 DEF PushInv, Pushs, Roused, Sent
    <3>7. Finds'
      <4>1. ASSUME NEW q \in Requests PROVE Followed(q)' => Followed(q) /\ (Found(q) => Found(q)')
        BY <1>1, <3>1, <3>2, <3>5 DEF Followed, Found, PushInv, Pushs
      <4> QED  BY <4>1 DEF PushInv, Finds
    <3>8. \A t \in Tabs : /\ tab'[t] \in Tab /\ tab'[t].visible = tab[t].visible
                          /\ tab'[t].at = tab[t].at /\ tab'[t].pc = tab[t].pc
                          /\ tab'[t].home = tab[t].home
                          /\ tab[t].posted \subseteq tab'[t].posted
                          /\ on(t) => r \in tab'[t].posted
                          /\ ~on(t) => tab'[t] = tab[t]
      BY <1>3 DEF PushInv, Shuts, Tab
    <3>9. Shuts'
      <4>1. tab' \in [Tabs -> Tab]
        BY <1>3, <3>8
      <4>2. \A t \in Tabs : on(t) => tab[t].visible
        BY DEF Windows
      <4> QED  BY <3>5, <3>8, <4>1, <4>2 DEF PushInv, Shuts, Shut
    <3>10. PostedIsOnItsWay'
      <4>1. PICK t \in Tabs : on(t) /\ tab[t].visible
        BY <2>2 DEF Windows
      <4> QED  BY <3>2, <3>8, <4>1 DEF PushInv, PostedIsOnItsWay, Pushs
    <3> QED  BY <3>4, <3>6, <3>7, <3>9, <3>10 DEF PushInv
  <2> QED  BY <1>3, <2>1, <2>2
<1> QED  BY <1>2, <1>3 DEF Show
LEMMA ZeroFits == ASSUME PushInv PROVE 0 \in 0..MaxIds /\ 0 \in 0..MaxEndpoints /\ 0 <= given
BY DEF PushInv, Counted

LEMMA LoadedIsShut == ASSUME PushInv, NEW b \in Browsers PROVE Shut(Closed) /\ Shut(Loaded(b))
<1>1. Shut(Closed) /\ Closed \in Tab /\ Closed.at = 0
  BY ZeroFits DEF Closed, Shut, Tab
<1> DEFINE k == Loaded(b)
<1>2. k \in Tab /\ k.at = Closed.at /\ k.pc = "load" /\ k.home = b
  BY <1>1 DEF Loaded, Tab
<1> HIDE DEF k
<1>3. Shut(k)
  BY <1>1, <1>2, ZeroFits DEF Shut
<1> QED  BY <1>1, <1>3 DEF k

LEMMA OpenTabKeeps == ASSUME PushInv, NEW t \in Tabs, NEW b \in Browsers, OpenTab(t, b) PROVE PushInv'
<1>1. Shut(Loaded(b)) /\ ~tab[t].visible
  BY LoadedIsShut DEF OpenTab, PushInv, Shuts, Shut
<1> QED  BY <1>1, TabStep DEF OpenTab, TabOnly

LEMMA CloseKeeps == ASSUME PushInv, NEW t \in Tabs, Close(t) PROVE PushInv'
<1>1. Shut(Closed)
  BY DEF Closed, Shut, Tab, PushInv, Counted
<1> QED  BY <1>1, LeaveStep DEF Close

LEMMA MountKeeps == ASSUME PushInv, NEW t \in Tabs, Mount(t) PROVE PushInv'
<1> DEFINE k == [tab[t] EXCEPT !.pc = "sync"]
<1>1. tab[t] \in Tab /\ tab[t].at <= given /\ tab[t].home \in Browsers
  BY DEF PushInv, Shuts, Shut, Mount
<1>2. /\ k \in Tab /\ k.pc = "sync" /\ k.at = tab[t].at /\ k.home = tab[t].home
      /\ k.visible = tab[t].visible /\ k.posted = tab[t].posted
  BY <1>1 DEF Tab
<1>3. SetTab(t, k)
  BY DEF Mount
<1> HIDE DEF k
<1> QED  BY <1>1, <1>2, <1>3, TabStep DEF Mount, TabOnly, Shut

LEMMA AnswerKeeps == ASSUME PushInv, NEW t \in Tabs, Answer(t) PROVE PushInv'
<1> DEFINE sub == tab[t].id
           k == [tab[t] EXCEPT !.pc = "idle", !.sub = sub, !.id = 0, !.at = 0]
<1>1. Shut(tab[t]) /\ tab[t] \in Tab /\ tab[t].home \in Browsers /\ sub \in 0..MaxIds 
  BY DEF PushInv, Shuts, Shut, Tab, Answer
<1> HIDE DEF sub
<1>2. k \in Tab
  BY <1>1, ZeroFits DEF Tab
<1>3. /\ k.pc = "idle" /\ k.at = 0 /\ k.home = tab[t].home
      /\ k.visible = tab[t].visible /\ k.posted = tab[t].posted
  BY <1>1, <1>2 DEF Tab
<1>4. SetTab(t, k)
  BY DEF Answer, sub
<1> HIDE DEF k
<1> QED  BY <1>1, <1>2, <1>3, <1>4, ZeroFits, TabStep DEF Answer, TabOnly, Shut

LEMMA SaveFailsKeeps == ASSUME PushInv, NEW t \in Tabs, SaveFails(t) PROVE PushInv'
<1> DEFINE k == [tab[t] EXCEPT !.pc = "idle", !.id = 0, !.at = 0]
<1>1. Shut(tab[t]) /\ tab[t] \in Tab /\ tab[t].home \in Browsers
  BY DEF PushInv, Shuts, Shut, SaveFails
<1>2. k \in Tab
  BY <1>1, ZeroFits DEF Tab
<1>3. /\ k.pc = "idle" /\ k.at = 0 /\ k.home = tab[t].home
      /\ k.visible = tab[t].visible /\ k.posted = tab[t].posted
  BY <1>1, <1>2 DEF Tab
<1>4. SetTab(t, k)
  BY DEF SaveFails
<1> HIDE DEF k
<1> QED  BY <1>1, <1>2, <1>3, <1>4, ZeroFits, TabStep DEF SaveFails, TabOnly, Shut

\* Revealed by the user, or by a click on a notification.
LEMMA VisibleKeeps ==
    ASSUME PushInv, NEW t \in Tabs, tab[t].pc # "closed",
           SetTab(t, [tab[t] EXCEPT !.visible = TRUE]), UNCHANGED <<subscribed, req, push>>
    PROVE  PushInv'
<1> DEFINE k == [tab[t] EXCEPT !.visible = TRUE]
<1>1. Shut(tab[t])
  BY DEF PushInv, Shuts
<1>2. Shut(k) /\ k.visible /\ k.posted = tab[t].posted
  BY <1>1 DEF Shut, Tab
<1> HIDE DEF k
<1> QED  BY <1>2, TabStep DEF k

LEMMA HideKeeps == ASSUME PushInv, NEW t \in Tabs, Hide(t) PROVE PushInv'
<1> DEFINE k == [tab[t] EXCEPT !.visible = FALSE]
<1>1. Shut(tab[t]) /\ tab[t].visible
  BY DEF PushInv, Shuts, Hide
<1>2. Shut(k)
  BY <1>1 DEF Shut, Tab
<1> HIDE DEF k
<1> QED  BY <1>2, LeaveStep DEF Hide, k

LEMMA ReceiveKeeps == ASSUME PushInv, NEW t \in Tabs, NEW r \in Requests, Receive(t, r) PROVE PushInv'
<1> DEFINE left == tab[t].posted \ {r}
           k == [tab[t] EXCEPT !.posted = left]
<1>1. Shut(tab[t]) /\ tab[t] \in Tab /\ left \in SUBSET Requests
  BY DEF PushInv, Shuts, Shut, Tab
<1> HIDE DEF left
<1>2. /\ k \in Tab /\ k.visible = tab[t].visible /\ k.posted = left
      /\ k.pc = tab[t].pc /\ k.home = tab[t].home /\ k.at = tab[t].at
  BY <1>1 DEF Tab
<1>3. tab' = [tab EXCEPT ![t] = k] /\ UNCHANGED <<subscribed, req>>
  BY DEF Receive, SetTab, left
<1> HIDE DEF k
<1>4. Shut(k)
  BY <1>1, <1>2 DEF Shut, left
<1>5. Counted' /\ Reqs' /\ Shuts'
  BY <1>3, <1>4 DEF PushInv, Counted, Reqs, Sane, Shuts, Shut, subscribed
<1>6. CASE push[r].pc = "posted" /\ tab[t].visible /\ Ends(r, "told")
  <2>1. Roused(push[r]) /\ push' = [push EXCEPT ![r] = Ended(push[r], "told")]
    BY <1>6 DEF Ends, SetPush, PushInv, Pushs
  <2>2. Roused(Ended(push[r], "told")) /\ Ended(push[r], "told").pc = "told"
    BY <1>6, <2>1, EndedIsRoused
  <2>3. Pushs' /\ Sent'
    BY <1>3, <1>6, <2>1, <2>2 DEF PushInv, Pushs, Roused, Sent
  <2>4. Finds'
    BY <1>3, <2>1, <2>2 DEF PushInv, Pushs, Finds, Followed, Found, subscribed
  <2>5. PostedIsOnItsWay'
    BY <1>1, <1>2, <1>3, <2>1, <2>2 DEF PushInv, Pushs, Shuts, PostedIsOnItsWay, left
  <2> QED  BY <1>5, <2>3, <2>4, <2>5 DEF PushInv
<1>7. CASE ~(push[r].pc = "posted" /\ tab[t].visible) /\ UNCHANGED push
  <2>1. Pushs' /\ Sent' /\ Finds'
    BY <1>3, <1>7 DEF PushInv, Pushs, Roused, Sent, Finds, Followed, Found, subscribed
  <2>2. PostedIsOnItsWay'
    BY <1>1, <1>2, <1>3, <1>7 DEF PushInv, Shuts, PostedIsOnItsWay, left
  <2> QED  BY <1>5, <2>1, <2>2 DEF PushInv
<1> QED  BY <1>6, <1>7 DEF Receive
LEMMA ClickKeeps == ASSUME PushInv, NEW r \in Requests, Click(r) PROVE PushInv'
<1> DEFINE b == push[r].home
<1>1. b \in Browsers /\ b # None
  BY DEF PushInv, Pushs, Roused, Click
<1>2. Shut(Loaded(b))
  BY <1>1, LoadedIsShut
<1>3. \A t \in Tabs : tab[t].pc = "closed" => ~tab[t].visible
  BY DEF PushInv, Shuts, Shut
<1>4. ASSUME NEW t \in Tabs, SetTab(t, Loaded(b)), Leaves(t) PROVE PushInv'
  BY <1>2, <1>4, LeaveStep DEF Click
<1>5. ASSUME NEW t \in Tabs, SetTab(t, [tab[t] EXCEPT !.visible = TRUE]), UNCHANGED push,
             tab[t].home = b
      PROVE  PushInv'
  <2>1. tab[t].pc # "closed"
    BY <1>1, <1>5 DEF PushInv, Shuts, Shut
  <2> QED  BY <1>5, <2>1, VisibleKeeps DEF Click
<1>6. ASSUME NEW t \in Tabs, tab[t].pc = "closed", SetTab(t, Loaded(b)), UNCHANGED push
      PROVE  PushInv'
  BY <1>2, <1>3, <1>6, TabStep DEF Click
<1> QED  BY <1>4, <1>5, <1>6 DEF Click

-----------------------------------------------------------------------------
(***************************************************************************)
(* Steps that change the subscription of a browser, or its row.            *)
(***************************************************************************)
LEMMA SubscriptionStep ==
    ASSUME PushInv, Counted', ids <= ids', given <= given', UNCHANGED <<req, push>>,
           \A q \in Requests : Followed(q)' => Followed(q),
           NEW t \in Tabs, NEW k \in Tab, SetTab(t, k), k.at <= given', k.pc # "closed", k.home \in Browsers,
           k.visible = tab[t].visible, k.posted = tab[t].posted
    PROVE  PushInv'
<1> USE DEF SetTab
<1>1. Reqs'
  BY DEF PushInv, Counted, Reqs, Sane, Request
<1>2. Pushs' /\ Sent'
  BY DEF PushInv, Pushs, Roused, Sent
<1>3. Shuts'
  BY DEF PushInv, Counted, Shuts, Shut, Tab
<1>4. Finds'
  BY DEF PushInv, Finds, Found
<1>5. PostedIsOnItsWay'
  BY DEF PushInv, Shuts, PostedIsOnItsWay
<1> QED  BY <1>1, <1>2, <1>3, <1>4, <1>5 DEF PushInv

LEMMA EndpointCounted ==
    ASSUME PushInv, NEW b \in Browsers, NEW e \in 0..MaxEndpoints,
           given' \in 0..MaxEndpoints, given <= given', e <= given',
           endpoint' = [endpoint EXCEPT ![b] = e], UNCHANGED <<rows, ids>>
    PROVE  Counted'
<1>1. Counted
  BY DEF PushInv
<1>2. endpoint' \in [Browsers -> 0..MaxEndpoints]
  BY <1>1 DEF Counted
<1>3. \A c \in Browsers : endpoint'[c] <= given'
  <2>1. \A c \in Browsers : endpoint[c] \in Nat /\ endpoint[c] <= given /\ given \in Nat
    BY <1>1 DEF Counted
  <2> QED  BY <1>1, <2>1 DEF Counted
<1>4. \A f \in Endpoints : rows'[f] <= ids' /\ (rows'[f] # 0 => f <= given')
  BY <1>1 DEF Counted, Endpoints
<1> QED  BY <1>1, <1>2, <1>3, <1>4 DEF Counted

\* A browser without a subscription has none that a request was made for.
LEMMA DroppedIsNotFollowed ==
    ASSUME PushInv, NEW b \in Browsers, NEW e, e = 0 \/ e = given + 1,
           endpoint' = [endpoint EXCEPT ![b] = e], UNCHANGED <<rows, req, push>>,
           NEW q \in Requests, Followed(q)'
    PROVE  Followed(q)
<1>1. push[q].home \in Browsers
  BY DEF Followed, PushInv, Pushs, Roused
<1>2. req[q].to # 0 /\ req[q].to \in 0..MaxEndpoints /\ req[q].to <= given
  <2>1. push[q].pc # "none" /\ req[q].kind # "pairing"
    BY DEF Followed
  <2> QED  BY <2>1 DEF PushInv, Reqs, Sane, Sent, Request
<1>3. given \in Nat
  BY DEF PushInv, Counted
<1>4. push[q].home # b
  BY <1>1, <1>2, <1>3 DEF Followed, PushInv, Counted
<1> QED  BY <1>1, <1>4 DEF Followed, PushInv, Counted

LEMMA SyncKeeps == ASSUME PushInv, NEW t \in Tabs, Sync(t) PROVE PushInv'
<1> DEFINE b  == tab[t].home
           e  == endpoint[b]
           pc == IF e = 0 THEN "idle" ELSE "save"
<1>1. tab[t] \in Tab /\ tab[t].at <= given /\ b \in Browsers
  BY DEF PushInv, Shuts, Shut, Sync
<1>2. e \in 0..MaxEndpoints /\ e <= given
  BY <1>1 DEF PushInv, Counted
<1>3. CASE SetTab(t, [tab[t] EXCEPT !.pc = pc, !.at = e]) /\ UNCHANGED endpoint
  <2> DEFINE k == [tab[t] EXCEPT !.pc = pc, !.at = e]
  <2>1. pc \in {"idle", "save"}
    OBVIOUS
  <2> HIDE DEF pc, e
  <2>2. /\ k \in Tab /\ k.pc = pc /\ k.at = e
        /\ k.home = tab[t].home /\ k.visible = tab[t].visible /\ k.posted = tab[t].posted
    BY <1>1, <1>2, <2>1 DEF Tab
  <2>3. SetTab(t, k)
    BY <1>3
  <2> HIDE DEF k
  <2>4. UNCHANGED <<rows, ids, given, endpoint, req, push>>
    BY <1>3 DEF Sync
  <2>5. Counted' /\ ids <= ids' /\ given <= given'
    BY <2>4 DEF PushInv, Counted
  <2>6. \A q \in Requests : Followed(q)' => Followed(q)
    BY <2>4 DEF Followed
  <2> QED  BY <1>1, <1>2, <2>1, <2>2, <2>3, <2>4, <2>5, <2>6, SubscriptionStep
<1>4. CASE SetTab(t, [tab[t] EXCEPT !.pc = "idle"]) /\ endpoint' = [endpoint EXCEPT ![b] = 0]
  <2> DEFINE k == [tab[t] EXCEPT !.pc = "idle"]
  <2>1. /\ k \in Tab /\ k.pc = "idle" /\ k.at = tab[t].at
        /\ k.home = tab[t].home /\ k.visible = tab[t].visible /\ k.posted = tab[t].posted
    BY <1>1 DEF Tab
  <2>2. SetTab(t, k)
    BY <1>4
  <2> HIDE DEF k
  <2>3. UNCHANGED <<rows, ids, given, req, push>>
    BY DEF Sync
  <2>4. Counted' /\ ids <= ids' /\ given <= given'
    <3>1. given' = given /\ given \in 0..MaxEndpoints /\ ids' = ids /\ ids \in Nat
      BY <2>3 DEF PushInv, Counted
    <3>2. given' \in 0..MaxEndpoints /\ given <= given' /\ 0 <= given' /\ ids <= ids'
      BY <3>1
    <3> HIDE DEF b
    <3> QED  BY <1>1, <1>4, <2>3, <3>2, ZeroFits, EndpointCounted
  <2>5. \A q \in Requests : Followed(q)' => Followed(q)
    BY <1>1, <1>4, <2>3, DroppedIsNotFollowed
  <2> QED  BY <1>1, <2>1, <2>2, <2>3, <2>4, <2>5, SubscriptionStep
<1> QED  BY <1>3, <1>4 DEF Sync

LEMMA UnsubscribeKeeps == ASSUME PushInv, NEW t \in Tabs, Unsubscribe(t) PROVE PushInv'
<1> DEFINE b == tab[t].home
           k == [tab[t] EXCEPT !.pc = "subscribe"]
<1>1. tab[t] \in Tab /\ tab[t].at <= given /\ b \in Browsers
  BY DEF PushInv, Shuts, Shut, Unsubscribe
<1>2. /\ k \in Tab /\ k.pc = "subscribe" /\ k.at = tab[t].at
      /\ k.home = tab[t].home /\ k.visible = tab[t].visible /\ k.posted = tab[t].posted
  BY <1>1 DEF Tab
<1>3. SetTab(t, k)
  BY DEF Unsubscribe
<1> HIDE DEF k
<1>4. UNCHANGED <<rows, ids, given, req, push>> /\ endpoint' = [endpoint EXCEPT ![b] = 0]
  BY DEF Unsubscribe
<1>5. Counted' /\ ids <= ids' /\ given <= given'
  <2>1. given' = given /\ given \in 0..MaxEndpoints /\ ids' = ids /\ ids \in Nat
    BY <1>4 DEF PushInv, Counted
  <2>2. given' \in 0..MaxEndpoints /\ given <= given' /\ 0 <= given' /\ ids <= ids'
    BY <2>1
  <2> HIDE DEF b
  <2> QED  BY <1>1, <1>4, <2>2, ZeroFits, EndpointCounted
<1>6. \A q \in Requests : Followed(q)' => Followed(q)
  BY <1>1, <1>4, DroppedIsNotFollowed
<1> QED  BY <1>1, <1>2, <1>3, <1>4, <1>5, <1>6, SubscriptionStep

LEMMA SubscribeKeeps == ASSUME PushInv, NEW t \in Tabs, Subscribe(t) PROVE PushInv'
<1> DEFINE b == tab[t].home
<1>1. tab[t] \in Tab /\ tab[t].at <= given /\ b \in Browsers
  BY DEF PushInv, Shuts, Shut, Subscribe
<1>2. given \in Nat /\ endpoint[b] \in 0..MaxEndpoints /\ endpoint[b] <= given
  BY <1>1 DEF PushInv, Counted
<1>3. UNCHANGED <<rows, ids, req, push>>
  BY DEF Subscribe
<1>4. ASSUME NEW e \in 0..MaxEndpoints, e <= given',
             SetTab(t, [tab[t] EXCEPT !.pc = "save", !.at = e]),
             Counted', given <= given', \A q \in Requests : Followed(q)' => Followed(q)
      PROVE  PushInv'
  <2> DEFINE k == [tab[t] EXCEPT !.pc = "save", !.at = e]
  <2>1. /\ k \in Tab /\ k.pc = "save" /\ k.at = e
        /\ k.home = tab[t].home /\ k.visible = tab[t].visible /\ k.posted = tab[t].posted
    BY <1>1 DEF Tab
  <2>2. SetTab(t, k) /\ ids <= ids'
    BY <1>3, <1>4 DEF PushInv, Counted
  <2> HIDE DEF k
  <2> QED  BY <1>1, <1>3, <1>4, <2>1, <2>2, SubscriptionStep
<1>5. CASE endpoint[b] # 0 /\ UNCHANGED <<endpoint, given>>
           /\ SetTab(t, [tab[t] EXCEPT !.pc = "save", !.at = endpoint[b]])
  <2>1. Counted' /\ given <= given' /\ endpoint[b] <= given'
    BY <1>2, <1>3, <1>5 DEF PushInv, Counted
  <2>2. \A q \in Requests : Followed(q)' => Followed(q)
    BY <1>3, <1>5 DEF Followed
  <2> QED  BY <1>2, <1>4, <1>5, <2>1, <2>2
<1>6. CASE /\ given < MaxEndpoints /\ given' = given + 1
           /\ endpoint' = [endpoint EXCEPT ![b] = given']
           /\ SetTab(t, [tab[t] EXCEPT !.pc = "save", !.at = given'])
  <2>1. Counted' /\ given <= given' /\ given' \in 0..MaxEndpoints
    <3>1. given' \in 0..MaxEndpoints /\ given <= given' /\ given' <= given'
      BY <1>2, <1>6
    <3> QED  BY <1>1, <1>3, <1>6, <3>1, EndpointCounted
  <2>2. \A q \in Requests : Followed(q)' => Followed(q)
    BY <1>1, <1>3, <1>6, DroppedIsNotFollowed
  <2>3. given' <= given'
    BY <2>1
  <2> QED  BY <1>4, <1>6, <2>1, <2>2, <2>3
<1>7. CASE SetTab(t, [tab[t] EXCEPT !.pc = "idle"]) /\ UNCHANGED <<endpoint, given>>
  <2> DEFINE k == [tab[t] EXCEPT !.pc = "idle"]
  <2>1. /\ k \in Tab /\ k.pc = "idle" /\ k.at = tab[t].at
        /\ k.home = tab[t].home /\ k.visible = tab[t].visible /\ k.posted = tab[t].posted
    BY <1>1 DEF Tab
  <2>2. SetTab(t, k)
    BY <1>7
  <2> HIDE DEF k
  <2>3. Counted' /\ ids <= ids' /\ given <= given'
    BY <1>3, <1>7 DEF PushInv, Counted
  <2>4. \A q \in Requests : Followed(q)' => Followed(q)
    BY <1>3, <1>7 DEF Followed
  <2> QED  BY <1>1, <1>3, <1>7, <2>1, <2>2, <2>3, <2>4, SubscriptionStep
<1> QED  BY <1>5, <1>6, <1>7 DEF Subscribe

LEMMA SaveKeeps == ASSUME PushInv, NEW t \in Tabs, Save(t) PROVE PushInv'
<1> DEFINE at == tab[t].at
           new == ids'
           k == [tab[t] EXCEPT !.pc = "answer", !.id = new]
<1>1. tab[t] \in Tab /\ tab[t].home \in Browsers /\ at <= given /\ ids \in 0..MaxIds
  BY DEF PushInv, Counted, Shuts, Shut, Save
<1>2. /\ ids < MaxIds /\ ids' = ids + 1 /\ rows' = [rows EXCEPT ![at] = new]
      /\ UNCHANGED <<endpoint, given, req, push>>
  BY DEF Save
<1>3. new \in 0..MaxIds
  BY <1>1, <1>2
<1>4. SetTab(t, k)
  BY DEF Save
<1>5. Counted' /\ ids <= ids' /\ given <= given'
  <2>1. Counted /\ ids' \in 0..MaxIds /\ given \in Nat /\ ids \in Nat
    BY <1>1, <1>2 DEF PushInv, Counted
  <2>2. rows' \in [Endpoints -> 0..MaxIds]
    BY <1>2, <2>1 DEF Counted
  <2>3. ASSUME NEW f \in Endpoints PROVE rows'[f] <= ids' /\ (rows'[f] # 0 => f <= given')
    <3>1. rows[f] \in Nat /\ rows[f] <= ids /\ (rows[f] # 0 => f <= given)
      BY <2>1 DEF Counted
    <3> QED  BY <1>1, <1>2, <2>1, <3>1 DEF Counted
  <2> QED  BY <1>2, <2>1, <2>2, <2>3 DEF Counted
<1> HIDE DEF new
<1>6. /\ k \in Tab /\ k.pc = "answer" /\ k.at = at
      /\ k.home = tab[t].home /\ k.visible = tab[t].visible /\ k.posted = tab[t].posted
  BY <1>1, <1>3 DEF Tab
<1> HIDE DEF k
<1>7. ASSUME NEW q \in Requests, Followed(q)' PROVE Followed(q)
  <2>1. req[q].sub <= ids /\ req[q].sub \in Nat /\ req[q].to \in Endpoints
    <3>1. push[q].pc # "none" /\ req[q].kind # "pairing"
      BY <1>2, <1>7 DEF Followed
    <3> QED  BY <3>1 DEF PushInv, Reqs, Sane, Sent, Request, Endpoints
  <2>2. req[q].to # at
    BY <1>1, <1>2, <1>7, <2>1 DEF Followed, PushInv, Counted, new
  <2> QED  BY <1>2, <1>7, <2>1, <2>2 DEF Followed, PushInv, Counted
<1> QED  BY <1>1, <1>2, <1>4, <1>5, <1>6, <1>7, SubscriptionStep

-----------------------------------------------------------------------------
(***************************************************************************)
(* The theorems about Web Push.                                            *)
(***************************************************************************)
LEMMA PushInitInv == ASSUME PushInit PROVE PushInv
<1>1. Counted
  BY DEF PushInit, Counted
<1>2. NoRequest \in Request /\ Sane(NoRequest)
  BY <1>1 DEF NoRequest, Request, Sane, Counted
<1>3. NoPush \in Wakening /\ Roused(NoPush) /\ NoPush.pc = "none"
  BY DEF NoPush, Wakening, Roused
<1>4. Closed \in Tab /\ Shut(Closed)
  BY <1>1 DEF Closed, Tab, Shut, Counted
<1> QED
  BY <1>1, <1>2, <1>3, <1>4 DEF PushInit, PushInv, Reqs, Pushs, Sent, Shuts, Finds, Followed,
     PostedIsOnItsWay

LEMMA PushStutter == ASSUME PushInv, UNCHANGED pushVars PROVE PushInv'
BY DEF pushVars, subscribed, PushInv, Counted, Reqs, Sane, Pushs, Roused, Sent, Shuts, Shut,
       Finds, Followed, Found, PostedIsOnItsWay

LEMMA PushNextInv == ASSUME PushInv, [PushNext]_pushVars PROVE PushInv'
<1>1. ASSUME NEW r \in Requests,
             \/ Ask(r) \/ AskPairing(r) \/ \E t \in Tabs : AskTest(r, t)
             \/ Insert(r) \/ Select(r) \/ Break(r) \/ Decide(r)
      PROVE  PushInv'
  <2>1. Changes(r) /\ UNCHANGED <<subscribed, push, tab>>
    BY <1>1, AskChanges, AskPairingChanges, AskTestChanges, InsertChanges, SelectChanges,
       DecideChanges, AtChanges
       DEF Ask, AskPairing, AskTest, Insert, Select, Break, Decide
  <2> QED  BY <2>1, RequestStep
<1>2. ASSUME NEW r \in Requests, Push(r) \/ Deliver(r) \/ Fetch(r) \/ Show(r) \/ Click(r)
      PROVE  PushInv'
  BY <1>2, PushKeeps, DeliverKeeps, FetchKeeps, ShowKeeps, ClickKeeps
<1>3. ASSUME NEW t \in Tabs,
             \/ \E b \in Browsers : OpenTab(t, b)
             \/ Close(t) \/ Mount(t) \/ Sync(t) \/ Unsubscribe(t) \/ Subscribe(t)
             \/ Save(t) \/ Answer(t) \/ SaveFails(t)
             \/ \E r \in Requests : Receive(t, r)
             \/ Hide(t) \/ Reveal(t)
      PROVE  PushInv'
  <2>1. CASE Reveal(t)
    BY <2>1, VisibleKeeps DEF Reveal, TabOnly
  <2> QED
    BY <1>3, <2>1, OpenTabKeeps, CloseKeeps, MountKeeps, SyncKeeps, UnsubscribeKeeps,
       SubscribeKeeps, SaveKeeps, AnswerKeeps, SaveFailsKeeps, ReceiveKeeps, HideKeeps
<1>4. CASE UNCHANGED pushVars
  BY <1>4, PushStutter
<1> QED  BY <1>1, <1>2, <1>3, <1>4 DEF PushNext

THEOREM PushInvariant == PushSpec => []PushInv
BY PushInitInv, PushNextInv, PTL DEF PushSpec

\* The state of rows, requests, pushes and tabs is well typed.
THEOREM PushTypeCorrect == PushSpec => []PushTypeOK
<1>1. PushInv => PushTypeOK
  BY DEF PushInv, PushTypeOK, Counted, Reqs, Pushs, Shuts
<1> QED  BY <1>1, PushInvariant, PTL

\* What /api/notifications/latest finds for a push is the request it was sent
\* for or a later one, for any number of requests and subscriptions.
THEOREM PushFinds == PushSpec => []PushFindsItsRequest
<1>1. PushInv => PushFindsItsRequest
  BY DEF PushInv, Finds, Followed, Found, PushFindsItsRequest
<1> QED  BY <1>1, PushInvariant, PTL

\* What the service worker has left to its tabs is with a visible one (sw.ts).
THEOREM PushIsOnItsWay == PushSpec => []PostedIsOnItsWay
<1>1. PushInv => PostedIsOnItsWay
  BY DEF PushInv
<1> QED  BY <1>1, PushInvariant, PTL
-----------------------------------------------------------------------------
(***************************************************************************)
(* Sockets: the inductive invariant.  A run that is not cleaned up is the  *)
(* current one of its tab, and one that is has no socket in use.           *)
(***************************************************************************)
InUse(e) == e.socket \in {"connecting", "open"}

Placed(r) ==
    /\ effect[r].win = NoClient => effect[r] = Unrun
    /\ effect[r].win # NoClient /\ ~effect[r].closed => current[effect[r].win] = r
    /\ effect[r].closed => ~InUse(effect[r])
    /\ effect[r].socket = "open" => r \in sessions

RealtimeInv ==
    /\ RealtimeTypeOK
    /\ \A r \in Runs : Placed(r)
    /\ \A w \in Clients : current[w] # 0 => effect[current[w]].win = w

LEMMA ConnectingIs ==
    ASSUME NEW e \in Run
    PROVE  /\ Connecting(e) \in Run
           /\ Connecting(e).win = e.win /\ Connecting(e).closed = e.closed
           /\ Connecting(e).socket = "connecting"
BY DEF Connecting, Run

LEMMA ClosingIs ==
    ASSUME NEW e \in Run
    PROVE  /\ Closing(e) \in Run /\ ~InUse(Closing(e))
           /\ Closing(e).win = e.win /\ Closing(e).closed = e.closed
<1> DEFINE to == IF e.socket \in {"connecting", "open"} THEN "closing" ELSE e.socket
           f  == [e EXCEPT !.socket = to, !.inbox = 0]
<1>1. /\ to \in {"none", "connecting", "open", "closing", "closed"}
      /\ to \notin {"connecting", "open"}
  BY DEF Run
<1> HIDE DEF to
<1>2. f \in Run /\ f.socket = to /\ f.win = e.win /\ f.closed = e.closed
  <2>1. 0 \in 0..1
    OBVIOUS
  <2> QED  BY <1>1, <2>1 DEF Run
<1>3. Closing(e) = f
  BY DEF Closing, to
<1> HIDE DEF f
<1> QED  BY <1>1, <1>2, <1>3 DEF InUse

LEMMA CleanedUpIs ==
    ASSUME NEW e \in Run
    PROVE  /\ CleanedUp(e) \in Run /\ ~InUse(CleanedUp(e))
           /\ CleanedUp(e).win = e.win /\ CleanedUp(e).closed
<1> DEFINE f == [e EXCEPT !.closed = TRUE, !.timer = FALSE]
<1>1. f \in Run /\ f.win = e.win /\ f.closed
  BY DEF Run
<1>2. CleanedUp(e) = Closing(f)
  BY DEF CleanedUp
<1> HIDE DEF f
<1> QED  BY <1>1, <1>2, ClosingIs

\* One run takes a step, and stays where it is.
LEMMA RunStep ==
    ASSUME RealtimeInv, NEW r \in Runs, NEW e \in Run, effect' = [effect EXCEPT ![r] = e],
           e.win = effect[r].win, e.closed = effect[r].closed,
           effect[r].win # NoClient \/ e = effect[r],
           InUse(e) => InUse(effect[r]) \/ ~e.closed,
           e.socket = "open" => r \in sessions',
           sessions' \subseteq Runs,
           \A q \in Runs : q # r /\ q \in sessions => q \in sessions',
           UNCHANGED current
    PROVE  RealtimeInv'
<1>0. Unrun.win = NoClient /\ ~InUse(Unrun)
  BY DEF Unrun, InUse
<1>1. effect \in [Runs -> Run] /\ current \in [Clients -> 0..MaxRuns]
  BY DEF RealtimeInv, RealtimeTypeOK
<1>2. RealtimeTypeOK'
  BY <1>1 DEF RealtimeTypeOK
<1>3. ASSUME NEW q \in Runs PROVE Placed(q)'
  <2>1. CASE q = r
    BY <1>0, <1>1, <2>1 DEF RealtimeInv, Placed, InUse
  <2>2. CASE q # r
    BY <1>1, <2>2 DEF RealtimeInv, Placed, InUse
  <2> QED  BY <2>1, <2>2
<1>4. ASSUME NEW w \in Clients, current'[w] # 0 PROVE effect'[current'[w]].win = w
  BY <1>1, <1>4 DEF RealtimeInv, Runs
<1> QED  BY <1>2, <1>3, <1>4 DEF RealtimeInv

\* The old run of the tab is cleaned up, and the next one is its current one.
LEMMA SubscribedKeeps ==
    ASSUME RealtimeInv, NEW w \in Clients, NEW r \in Runs, Subscribed(w, r)
    PROVE  RealtimeInv'
<1> DEFINE new == Connecting([Unrun EXCEPT !.win = w])
           old == current[w]
<1>1. effect \in [Runs -> Run] /\ current \in [Clients -> 0..MaxRuns] /\ sessions \subseteq Runs
  BY DEF RealtimeInv, RealtimeTypeOK
<1>2. /\ new \in Run /\ new.win = w /\ ~new.closed /\ new.socket = "connecting"
  <2> DEFINE e == [Unrun EXCEPT !.win = w]
  <2>1. Unrun \in Run /\ ~Unrun.closed
    BY DEF Unrun, Run
  <2>2. e \in Run /\ e.win = w /\ e.closed = Unrun.closed
    BY <2>1 DEF Run
  <2>3. new = Connecting(e)
    OBVIOUS
  <2> HIDE DEF e, new
  <2> QED  BY <2>1, <2>2, <2>3, ConnectingIs
<1>3. old # r
  <2>1. effect[r].win = NoClient /\ r # 0
    BY DEF Subscribed, Unrun, Runs
  <2> QED  BY <2>1 DEF RealtimeInv
<1> HIDE DEF new
<1>4. /\ effect' = [q \in Runs |-> CASE q = r -> new [] q = old -> CleanedUp(effect[q])
                                     [] OTHER -> effect[q]]
      /\ current' = [current EXCEPT ![w] = r] /\ UNCHANGED sessions
  BY DEF Subscribed, new
<1>5. \A q \in Runs : /\ q = r => effect'[q] = new
                      /\ q = old => effect'[q] = CleanedUp(effect[q])
                      /\ q # r /\ q # old => effect'[q] = effect[q]
  BY <1>3, <1>4
<1>6. \A q \in Runs : /\ CleanedUp(effect[q]) \in Run /\ ~InUse(CleanedUp(effect[q]))
                      /\ CleanedUp(effect[q]).win = effect[q].win /\ CleanedUp(effect[q]).closed
  BY <1>1, CleanedUpIs
<1>7. RealtimeTypeOK'
  <2>1. \A q \in Runs : effect'[q] \in Run
    BY <1>1, <1>2, <1>5, <1>6
  <2>2. effect' = [q \in Runs |-> effect'[q]]
    BY <1>4
  <2>3. current' \in [Clients -> 0..MaxRuns]
    BY <1>1, <1>4 DEF Runs
  <2> QED  BY <1>1, <1>4, <2>1, <2>2, <2>3 DEF RealtimeTypeOK
<1>8. ASSUME NEW q \in Runs PROVE Placed(q)'
  <2>1. CASE q = r
    BY <1>1, <1>2, <1>4, <1>5, <2>1 DEF Placed, InUse
  <2>2. CASE q = old
    <3>1. effect[q].win # NoClient
      BY <2>2 DEF RealtimeInv, Runs
    <3> QED  BY <1>3, <1>5, <1>6, <2>2, <3>1 DEF Placed, InUse
  <2>3. CASE q # r /\ q # old
    <3>1. effect'[q] = effect[q] /\ Placed(q)
      BY <1>5, <2>3 DEF RealtimeInv
    <3>2. effect[q].win # NoClient /\ ~effect[q].closed => effect[q].win # w
      BY <2>3, <3>1 DEF Placed
    <3>3. effect[q].win \in Clients \union {NoClient}
      BY <1>1 DEF Run
    <3> QED  BY <1>1, <1>4, <3>1, <3>2, <3>3 DEF Placed, InUse
  <2> QED  BY <2>1, <2>2, <2>3
<1>9. ASSUME NEW v \in Clients, current'[v] # 0 PROVE effect'[current'[v]].win = v
  <2>1. CASE v = w
    BY <1>1, <1>2, <1>4, <1>5, <2>1
  <2>2. CASE v # w
    <3>1. current'[v] = current[v] /\ current[v] \in Runs /\ effect[current[v]].win = v
      BY <1>1, <1>4, <1>9, <2>2 DEF RealtimeInv, Runs
    <3>2. current[v] # r
      BY <3>1 DEF Subscribed, Unrun
    <3> QED  BY <1>5, <1>6, <3>1, <3>2
  <2> QED  BY <2>1, <2>2
<1> QED  BY <1>7, <1>8, <1>9 DEF RealtimeInv

LEMMA RealtimeNextInv == ASSUME RealtimeInv, [RealtimeNext]_rtVars PROVE RealtimeInv'
<1>1. effect \in [Runs -> Run] /\ sessions \subseteq Runs /\ \A r \in Runs : Placed(r)
  BY DEF RealtimeInv, RealtimeTypeOK
<1>0. ASSUME NEW r \in Runs, effect[r].socket # "none" \/ effect[r].timer \/ effect[r].inbox = 1
      PROVE  effect[r].win # NoClient
  BY <1>0, <1>1 DEF Placed, Unrun
<1>2. ASSUME NEW r \in Runs, Accept(r) PROVE RealtimeInv'
  <2> DEFINE e == [effect[r] EXCEPT !.socket = "open"]
  <2>1. /\ e \in Run /\ e.win = effect[r].win /\ e.closed = effect[r].closed
    BY <1>1 DEF Run
  <2>2. effect' = [effect EXCEPT ![r] = e] /\ InUse(effect[r])
    BY <1>2 DEF Accept, InUse
  <2> HIDE DEF e
  <2> QED  BY <1>0, <1>1, <1>2, <2>1, <2>2, RunStep DEF Accept
<1>3. ASSUME NEW r \in Runs, Lose(r) PROVE RealtimeInv'
  <2>1. effect[r] \in Run /\ effect' = [effect EXCEPT ![r] = Closing(effect[r])]
    BY <1>1, <1>3 DEF Lose
  <2>2. /\ Closing(effect[r]) \in Run /\ ~InUse(Closing(effect[r]))
        /\ Closing(effect[r]).win = effect[r].win /\ Closing(effect[r]).closed = effect[r].closed
    BY <2>1, ClosingIs
  <2> QED  BY <1>0, <1>1, <1>3, <2>1, <2>2, RunStep DEF Lose, InUse
<1>4. ASSUME NEW r \in Runs, CloseEvent(r) PROVE RealtimeInv'
  <2> DEFINE on == ~effect[r].closed
             e  == [effect[r] EXCEPT !.socket = "closed", !.timer = on]
  <2>1. on \in BOOLEAN
    OBVIOUS
  <2>2. effect' = [effect EXCEPT ![r] = e]
    BY <1>4 DEF CloseEvent
  <2> HIDE DEF on
  <2>3. /\ e \in Run /\ e.win = effect[r].win /\ e.closed = effect[r].closed
        /\ e.socket = "closed"
    BY <1>1, <2>1 DEF Run
  <2> HIDE DEF e
  <2> QED  BY <1>0, <1>1, <1>4, <2>2, <2>3, RunStep DEF CloseEvent, InUse
<1>5. ASSUME NEW r \in Runs, Reconnect(r) PROVE RealtimeInv'
  <2>1. effect[r] \in Run /\ ~effect[r].closed
    BY <1>1, <1>5 DEF Reconnect
  <2>2. /\ Connecting(effect[r]) \in Run /\ Connecting(effect[r]).win = effect[r].win
        /\ Connecting(effect[r]).closed = effect[r].closed
        /\ Connecting(effect[r]).socket = "connecting"
    BY <2>1, ConnectingIs
  <2>3. effect[r].win # NoClient
    BY <1>0, <1>5 DEF Reconnect
  <2> QED  BY <1>1, <1>5, <2>1, <2>2, <2>3, RunStep DEF Reconnect, InUse
<1>6. ASSUME NEW r \in Runs, r \in sessions, effect[r].socket # "open",
             sessions' = sessions \ {r}, UNCHANGED <<effect, current>>
      PROVE  RealtimeInv'
  <2>1. effect' = [effect EXCEPT ![r] = effect[r]]
    BY <1>1, <1>6
  <2> QED  BY <1>1, <1>6, <2>1, RunStep DEF InUse
<1>7. ASSUME NEW r \in Runs, NEW n \in 0..1, effect[r].win # NoClient,
             effect' = [effect EXCEPT ![r].inbox = n], UNCHANGED <<current, sessions>>
      PROVE  RealtimeInv'
  <2> DEFINE e == [effect[r] EXCEPT !.inbox = n]
  <2>1. /\ e \in Run /\ e.win = effect[r].win /\ e.closed = effect[r].closed
        /\ e.socket = effect[r].socket
    BY <1>1 DEF Run
  <2>2. effect' = [effect EXCEPT ![r] = e]
    BY <1>7
  <2> HIDE DEF e
  <2>3. e.socket = "open" => r \in sessions'
    BY <1>1, <1>7, <2>1 DEF Placed
  <2>4. InUse(e) => InUse(effect[r])
    BY <2>1 DEF InUse
  <2> QED  BY <1>1, <1>7, <2>1, <2>2, <2>3, <2>4, RunStep
<1>8. ASSUME NEW r \in Runs, ServerClose(r) \/ Publish(r) \/ Hear(r) PROVE RealtimeInv'
  <2>1. 0 \in 0..1 /\ 1 \in 0..1
    OBVIOUS
  <2> QED  BY <1>0, <1>6, <1>7, <1>8, <2>1 DEF ServerClose, Publish, Send, Hear
<1>9. CASE UNCHANGED rtVars
  BY <1>9 DEF rtVars, RealtimeInv, RealtimeTypeOK, Placed, InUse
<1> QED  BY <1>2, <1>3, <1>4, <1>5, <1>8, <1>9, SubscribedKeeps DEF RealtimeNext

THEOREM RealtimeInvariant == RealtimeSpec => []RealtimeInv
<1>1. RealtimeInit => RealtimeInv
  <2>1. Unrun \in Run /\ Unrun.win = NoClient /\ Unrun.socket = "none" /\ ~Unrun.closed
    BY DEF Unrun, Run
  <2> QED
    BY <2>1 DEF RealtimeInit, RealtimeInv, RealtimeTypeOK, Placed, InUse, Runs
<1> QED  BY <1>1, RealtimeNextInv, PTL DEF RealtimeSpec

\* A tab has at most one socket in use, for the id it knows, and the hub of that
\* id holds its other end (main.tsx, the effect; ApprovalHub), for any number of
\* tabs and of ids.
THEOREM RealtimeOneSocket == RealtimeSpec => []OneSocket
<1>1. RealtimeInv => OneSocket
  BY DEF RealtimeInv, Placed, InUse, OneSocket, Unrun
<1> QED  BY <1>1, RealtimeInvariant, PTL
=============================================================================
