--------------------------- MODULE Notifications ----------------------------
(***************************************************************************)
(* How a request reaches the phone by Web Push: the push_subscriptions     *)
(* rows and the request handlers of the Worker, the service worker of each *)
(* browser (sw.ts), and the tabs of the PWA.  A push message carries       *)
(* nothing: the service worker asks the Worker for the latest notification *)
(* of its endpoint.  The other channel, the sockets of ApprovalHub, is     *)
(* Realtime.                                                               *)
(*                                                                         *)
(* Ids of rows are counted, which is also the order of created_at.         *)
(* Requests are numbered, and get a time when they are stored.  One that   *)
(* expires counts as decided.  A pairing whose hub fails is tried again    *)
(* with a new code (DevicePairing has the codes); here it ends.            *)
(***************************************************************************)
EXTENDS Naturals, FiniteSets

CONSTANTS Browsers, Tabs, None,
          MaxIds,        \* bound on the saves of a subscription
          MaxEndpoints,  \* bound on the subscriptions at push services
          MaxRequests    \* bound on the requests

ASSUME PushAssumption ==
    /\ None \notin Browsers
    /\ MaxIds \in Nat /\ MaxEndpoints \in Nat /\ MaxRequests \in Nat

VARIABLES
    rows,      \* push_subscriptions: the id of each endpoint, 0 without a row
    ids,       \* ids given out
    endpoint,  \* PushManager's subscription of each browser, or 0
    given,     \* endpoints given out
    req,       \* each request, and the handler that sends it out
    push,      \* its push, and the service worker's handler of that
    tab

subscribed == <<rows, ids, endpoint, given>>
pushVars   == <<subscribed, req, push, tab>>

Requests  == 1..MaxRequests
Endpoints == 1..MaxEndpoints

NoRequest == [kind |-> "approval", pc |-> "none", sub |-> 0, to |-> 0, stored |-> 0,
              open |-> FALSE]
NoPush    == [pc |-> "none", home |-> None, notice |-> 0, failed |-> FALSE]
Closed    == [home |-> None, pc |-> "closed", visible |-> FALSE, at |-> 0, id |-> 0, sub |-> 0,
              posted |-> {}]

Request ==
    [kind   : {"approval", "pairing"},
     pc     : {"none", "insert", "select", "push", "done"},
     sub    : 0..MaxIds,        \* subscription.id
     to     : 0..MaxEndpoints,  \* subscription.endpoint
     stored : 0..MaxRequests,   \* created_at
     open   : BOOLEAN]          \* pending

Wakening ==
    [pc     : {"none", "sent", "dropped", "fetch", "show", "posted", "told", "missed"},
     home   : Browsers \union {None},
     notice : 0..MaxRequests,   \* 0: "review the latest request"
     failed : BOOLEAN]          \* the lookup failed

Tab ==
    [home    : Browsers \union {None},
     pc      : {"closed", "load", "sync", "subscribe", "save", "answer", "idle"},
     visible : BOOLEAN,
     at      : 0..MaxEndpoints, \* the endpoint it saves
     id      : 0..MaxIds,       \* the id in the answer
     sub     : 0..MaxIds,       \* subscription?.id
     posted  : SUBSET Requests] \* pushes it has been told of

PushTypeOK ==
    /\ rows \in [Endpoints -> 0..MaxIds] /\ ids \in 0..MaxIds
    /\ endpoint \in [Browsers -> 0..MaxEndpoints] /\ given \in 0..MaxEndpoints
    /\ req \in [Requests -> Request]
    /\ push \in [Requests -> Wakening]
    /\ tab \in [Tabs -> Tab]

PushInit ==
    /\ rows = [e \in Endpoints |-> 0] /\ ids = 0
    /\ endpoint = [b \in Browsers |-> 0] /\ given = 0
    /\ req = [r \in Requests |-> NoRequest]
    /\ push = [r \in Requests |-> NoPush]
    /\ tab = [t \in Tabs |-> Closed]

-----------------------------------------------------------------------------
(***************************************************************************)
(* The Worker: a request is stored for a subscription and pushed to its    *)
(* endpoint.                                                               *)
(***************************************************************************)
Rows     == {e \in Endpoints : rows[e] # 0}
Newest   == CHOOSE e \in Rows : \A f \in Rows : rows[f] <= rows[e]
Alive(e) == \E b \in Browsers : endpoint[b] = e

SetReq(r, to) == req' = [req EXCEPT ![r] = to]
At(r, pc)     == SetReq(r, [req[r] EXCEPT !.pc = pc])
Comes(r)      == req[r].pc = "none" /\ \A q \in 1..(r - 1) : req[q].pc # "none"

\* A CLI asks for an approval, which is for the newest subscription,
Ask(r) ==
    /\ Comes(r) /\ Rows # {}
    /\ SetReq(r, [req[r] EXCEPT !.sub = rows[Newest], !.to = Newest, !.pc = "insert"])
    /\ UNCHANGED <<subscribed, push, tab>>

\* or for a pairing.
AskPairing(r) ==
    /\ Comes(r)
    /\ SetReq(r, [req[r] EXCEPT !.kind = "pairing", !.pc = "insert"])
    /\ UNCHANGED <<subscribed, push, tab>>

\* createDemoApproval: "Send Test" makes one for the subscription that its tab
\* knows, if that has a row.
AskTest(r, t) ==
    /\ Comes(r) /\ tab[t].pc = "idle" /\ tab[t].sub # 0
    /\ \E e \in Rows : /\ rows[e] = tab[t].sub
                       /\ SetReq(r, [req[r] EXCEPT !.sub = rows[e], !.to = e, !.pc = "insert"])
    /\ UNCHANGED <<subscribed, push, tab>>

Insert(r) ==
    /\ req[r].pc = "insert"
    /\ SetReq(r, [req[r] EXCEPT
           !.open = TRUE, !.stored = Cardinality({q \in Requests : req[q].stored # 0}) + 1,
           !.pc = IF req[r].kind = "pairing" THEN "select" ELSE "push"])
    /\ UNCHANGED <<subscribed, push, tab>>

\* A pairing finds its subscription after it is stored; without one it is done.
Select(r) ==
    /\ req[r].pc = "select"
    /\ IF Rows = {} THEN At(r, "done")
       ELSE SetReq(r, [req[r] EXCEPT !.sub = rows[Newest], !.to = Newest, !.pc = "push"])
    /\ UNCHANGED <<subscribed, push, tab>>

\* The hub has been told (Realtime).  sendEmptyWebPush: the push service takes
\* it; or it knows no such endpoint, whose row is deleted then.
Push(r) ==
    /\ req[r].pc = "push"
    /\ At(r, "done")
    /\ IF Alive(req[r].to)
       THEN push' = [push EXCEPT ![r].pc = "sent"] /\ UNCHANGED rows
       ELSE rows' = [rows EXCEPT ![req[r].to] = 0] /\ UNCHANGED push
    /\ UNCHANGED <<ids, endpoint, given, tab>>

\* The hub, the push service or the Worker fails on the way.
Break(r) ==
    /\ req[r].pc \in {"insert", "select", "push"}
    /\ At(r, "done")
    /\ UNCHANGED <<subscribed, push, tab>>

\* It is approved or denied, or it expires.
Decide(r) ==
    /\ req[r].open
    /\ SetReq(r, [req[r] EXCEPT !.open = FALSE])
    /\ UNCHANGED <<subscribed, push, tab>>

Open(e)     == {r \in Requests : req[r].open /\ req[r].kind # "pairing" /\ req[r].sub = rows[e]}
Pairings    == {r \in Requests : req[r].open /\ req[r].kind = "pairing"}
LastOf(S)   == CHOOSE r \in S : \A q \in S : req[q].stored <= req[r].stored
FirstOf(S)  == CHOOSE r \in S : \A q \in S : req[q].stored >= req[r].stored

\* Mutant: the oldest request is taken.
LatestOldest(e) == IF rows[e] # 0 /\ Open(e) # {} THEN FirstOf(Open(e)) ELSE 0

\* /api/notifications/latest: the approvals of the row's id go first, and then
\* the pairings, which are nobody's.
Latest(e) ==
    CASE rows[e] # 0 /\ Open(e) # {}                    -> LastOf(Open(e))
      [] rows[e] # 0 /\ Open(e) = {} /\ Pairings # {} -> LastOf(Pairings)
      [] OTHER                                          -> 0

-----------------------------------------------------------------------------
(***************************************************************************)
(* The push service and the service worker.                                *)
(***************************************************************************)
SetPush(r, to) == push' = [push EXCEPT ![r] = to]
Ended(p, pc)   == [NoPush EXCEPT !.pc = pc, !.home = p.home]
Ends(r, pc)    == SetPush(r, Ended(push[r], pc))

\* The push wakes the browser, or is dropped: after its 60 seconds, or with
\* its subscription.
Deliver(r) ==
    /\ push[r].pc = "sent"
    /\ \/ \E b \in Browsers : /\ endpoint[b] = req[r].to
                              /\ SetPush(r, [push[r] EXCEPT !.pc = "fetch", !.home = b])
       \/ SetPush(r, [push[r] EXCEPT !.pc = "dropped"])
    /\ UNCHANGED <<subscribed, req, tab>>

\* It asks for the latest notification of the subscription it has by now.
Fetch(r) ==
    LET e == endpoint[push[r].home]
    IN  /\ push[r].pc = "fetch"
        /\ \/ SetPush(r, [push[r] EXCEPT !.pc = "show", !.failed = TRUE])
           \/ e # 0 /\ SetPush(r, [push[r] EXCEPT !.pc = "show", !.notice = Latest(e)])
        /\ UNCHANGED <<subscribed, req, tab>>

\* Mutant: a tab need not be visible.
WindowsHidden(b) == {t \in Tabs : tab[t].home = b}

\* The windows that are visible.
Windows(b) == {t \in Tabs : tab[t].home = b /\ tab[t].visible}

\* A tab that is being loaded does not listen yet.
Listening(t) == tab[t].pc # "load"

\* A notice goes to the visible tabs, or else to the operating system.
Show(r) ==
    LET b    == push[r].home
        to   == Windows(b)
        post == push[r].notice # 0 /\ to # {}
    IN  /\ push[r].pc = "show"
        /\ \/ ~post /\ Ends(r, "told") /\ UNCHANGED tab
           \/ /\ post
              /\ IF \E t \in to : Listening(t)
                 THEN SetPush(r, [push[r] EXCEPT !.pc = "posted"]) ELSE Ends(r, "missed")
              /\ tab' = [t \in Tabs |-> IF t \in to /\ Listening(t)
                                        THEN [tab[t] EXCEPT !.posted = @ \union {r}] ELSE tab[t]]
        /\ UNCHANGED <<subscribed, req>>

-----------------------------------------------------------------------------
(***************************************************************************)
(* The tabs.                                                               *)
(***************************************************************************)
SetTab(t, to) == tab' = [tab EXCEPT ![t] = to]
TabOnly       == UNCHANGED <<subscribed, req, push>>

\* A visible tab is visible no more: what has been posted to it and is not on
\* its way to another visible one is missed.
Leaves(t) ==
    LET on(u, r) == tab[u].visible /\ r \in tab[u].posted
    IN  push' = [r \in Requests |-> IF /\ push[r].pc = "posted" /\ on(t, r)
                                       /\ \A u \in Tabs \ {t} : ~on(u, r)
                                    THEN Ended(push[r], "missed") ELSE push[r]]

Loaded(b) == [Closed EXCEPT !.home = b, !.pc = "load", !.visible = TRUE]

OpenTab(t, b) ==
    /\ tab[t].pc = "closed"
    /\ SetTab(t, Loaded(b))
    /\ TabOnly

Close(t) ==
    /\ tab[t].pc # "closed"
    /\ SetTab(t, Closed) /\ Leaves(t)
    /\ UNCHANGED <<subscribed, req>>

\* The app is mounted: it listens, and its effects run.
Mount(t) ==
    /\ tab[t].pc = "load"
    /\ SetTab(t, [tab[t] EXCEPT !.pc = "sync"])
    /\ TabOnly

\* The effect that saves the subscription of the browser, on every load; or
\* drops it, if the keys of the vault are no longer those it was made for.
Sync(t) ==
    LET e == endpoint[tab[t].home]
    IN  /\ tab[t].pc = "sync"
        /\ \/ /\ SetTab(t, [tab[t] EXCEPT !.pc = IF e = 0 THEN "idle" ELSE "save", !.at = e])
              /\ UNCHANGED endpoint
           \/ /\ e # 0
              /\ SetTab(t, [tab[t] EXCEPT !.pc = "idle"])
              /\ endpoint' = [endpoint EXCEPT ![tab[t].home] = 0]
        /\ UNCHANGED <<rows, ids, given, req, push>>

\* enablePush: unsubscribe what there is,
Unsubscribe(t) ==
    /\ tab[t].pc = "idle" /\ tab[t].sub = 0
    /\ SetTab(t, [tab[t] EXCEPT !.pc = "subscribe"])
    /\ endpoint' = [endpoint EXCEPT ![tab[t].home] = 0]
    /\ UNCHANGED <<rows, ids, given, req, push>>

\* and subscribe, which may fail; another tab may have done so by now.
Subscribe(t) ==
    LET b == tab[t].home
    IN  /\ tab[t].pc = "subscribe"
        /\ \/ /\ endpoint[b] # 0
              /\ SetTab(t, [tab[t] EXCEPT !.pc = "save", !.at = endpoint[b]])
              /\ UNCHANGED <<endpoint, given>>
           \/ /\ endpoint[b] = 0 /\ given < MaxEndpoints
              /\ given' = given + 1
              /\ endpoint' = [endpoint EXCEPT ![b] = given']
              /\ SetTab(t, [tab[t] EXCEPT !.pc = "save", !.at = given'])
           \/ /\ SetTab(t, [tab[t] EXCEPT !.pc = "idle"])
              /\ UNCHANGED <<endpoint, given>>
        /\ UNCHANGED <<rows, ids, req, push>>

\* /api/push/subscribe: the row of the endpoint gets a new id, every time.
Save(t) ==
    /\ tab[t].pc = "save" /\ ids < MaxIds
    /\ ids' = ids + 1
    /\ rows' = [rows EXCEPT ![tab[t].at] = ids']
    /\ SetTab(t, [tab[t] EXCEPT !.pc = "answer", !.id = ids'])
    /\ UNCHANGED <<endpoint, given, req, push>>

Answer(t) ==
    /\ tab[t].pc = "answer"
    /\ SetTab(t, [tab[t] EXCEPT !.pc = "idle", !.sub = tab[t].id, !.id = 0, !.at = 0])
    /\ TabOnly

\* The call fails, before it saved anything or after that.
SaveFails(t) ==
    /\ tab[t].pc \in {"save", "answer"}
    /\ SetTab(t, [tab[t] EXCEPT !.pc = "idle", !.id = 0, !.at = 0])
    /\ TabOnly

\* The message becomes a toast, which the user of a visible tab can see.
Receive(t, r) ==
    /\ r \in tab[t].posted
    /\ SetTab(t, [tab[t] EXCEPT !.posted = @ \ {r}])
    /\ IF push[r].pc = "posted" /\ tab[t].visible
       THEN Ends(r, "told") ELSE UNCHANGED push
    /\ UNCHANGED <<subscribed, req>>

Hide(t) ==
    /\ tab[t].visible
    /\ SetTab(t, [tab[t] EXCEPT !.visible = FALSE]) /\ Leaves(t)
    /\ UNCHANGED <<subscribed, req>>

Reveal(t) ==
    /\ tab[t].pc # "closed" /\ ~tab[t].visible
    /\ SetTab(t, [tab[t] EXCEPT !.visible = TRUE])
    /\ TabOnly

\* notificationclick: the first window is navigated to the request, which
\* loads it anew, or told to go there itself; or a window is opened.
Click(r) ==
    LET b == push[r].home
    IN  /\ push[r].pc = "told"
        /\ \/ \E t \in Tabs :
                 /\ tab[t].home = b
                 /\ \/ SetTab(t, Loaded(b)) /\ Leaves(t)
                    \/ SetTab(t, [tab[t] EXCEPT !.visible = TRUE]) /\ UNCHANGED push
           \/ /\ \A t \in Tabs : tab[t].home # b
              /\ \E t \in Tabs : tab[t].pc = "closed" /\ SetTab(t, Loaded(b))
              /\ UNCHANGED push
        /\ UNCHANGED <<subscribed, req>>

-----------------------------------------------------------------------------
PushNext ==
    \/ \E r \in Requests :
          \/ Ask(r) \/ AskPairing(r) \/ \E t \in Tabs : AskTest(r, t)
          \/ Insert(r) \/ Select(r) \/ Push(r) \/ Break(r) \/ Decide(r)
          \/ Deliver(r) \/ Fetch(r) \/ Show(r) \/ Click(r)
    \/ \E t \in Tabs :
          \/ \E b \in Browsers : OpenTab(t, b)
          \/ Close(t) \/ Mount(t) \/ Sync(t) \/ Unsubscribe(t) \/ Subscribe(t)
          \/ Save(t) \/ Answer(t) \/ SaveFails(t)
          \/ \E r \in Requests : Receive(t, r)
          \/ Hide(t) \/ Reveal(t)

PushSpec == PushInit /\ [][PushNext]_pushVars

-----------------------------------------------------------------------------
(***************************************************************************)
(* Properties.                                                             *)
(***************************************************************************)
\* A push carries nothing, yet what the service worker finds for it is the
\* request it was sent for, or one that was stored after it; unless that
\* one has been decided, or the subscription has been saved again meanwhile,
\* under a new id or a new endpoint, or the lookup failed.
PushFindsItsRequest ==
    \A r \in Requests : push[r].pc \in {"show", "posted"} /\ req[r].kind # "pairing" =>
        \/ /\ push[r].notice # 0
           /\ req[push[r].notice].stored >= req[r].stored
           /\ req[push[r].notice].kind # "pairing"
        \/ push[r].failed
        \/ ~req[r].open
        \/ rows[req[r].to] # req[r].sub
        \/ endpoint[push[r].home] # req[r].to

\* A push handler that has shown nothing itself has left that to a visible tab,
\* which has the message still before it: unless that tab is loaded, hidden or
\* closed too early, every push that wakes a browser comes to the user, as a
\* system notification or as a toast.
PostedIsOnItsWay ==
    \A r \in Requests : push[r].pc = "posted" =>
        \E t \in Tabs : tab[t].visible /\ r \in tab[t].posted
=============================================================================
