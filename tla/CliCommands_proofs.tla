------------------------- MODULE CliCommands_proofs -------------------------
(***************************************************************************)
(* Theorems about the commands of the CLI, as many as run side by side on  *)
(* one machine.  What they keep in files: the config with its Cloudflare   *)
(* login, for any calls and tokens (CliConfig), the grant cache, for any   *)
(* requests, answers and times (CliGrants), the executable and the web     *)
(* artifacts, for any releases (CliRelease).  What one of them puts into   *)
(* the environment of its child, from any assignments (CliEnvironment).    *)
(* And what it does with a child that it runs under a browser session, for *)
(* frames of every size (BrowserSessionChild).                             *)
(***************************************************************************)
EXTENDS CliGrants, CliRelease, CliEnvironment, BrowserSessionChild, Sequences,
        WellFoundedInduction, TLAPS

-----------------------------------------------------------------------------
(***************************************************************************)
(* The config: type correctness.  What is to be refreshed is a login, and  *)
(* what a login was given is a token.                                      *)
(***************************************************************************)
Tokens    == 0..MaxTokens
ProcPcs   == {"start", "ensure", "calls", "read", "manifest", "truncate", "fill"} \union Exited
CallPcs   == {"idle", "resolve", "join", "request"}
FlightPcs == {"none", "reread", "refresh", "truncate", "fill"}

ProcState   == [cmd : Commands, pc : ProcPcs, token : Tokens, got : Tokens, base : Configs]
CallState   == [pc : CallPcs, token : Tokens, forced : BOOLEAN]
FlightState == [pc : FlightPcs, token : Tokens, forced : BOOLEAN, base : Configs]

HasGot(l)   ==
    l.cmd = "login" => /\ l.pc \notin {"ensure", "calls", "manifest"}
                       /\ l.pc \in {"read", "truncate", "fill"} => l.got \in 1..MaxTokens
HasLogin(f) == f.pc \in {"refresh", "truncate", "fill"} => f.base.cf \in Logins

FileTyped    == config \in File!Files(Configs)
ProcsTyped   == proc \in [Procs -> ProcState] /\ \A p \in Procs : HasGot(proc[p])
CallsTyped   == call \in [Procs -> [Calls -> CallState]]
FlightsTyped == flight \in [Procs -> FlightState] /\ \A p \in Procs : HasLogin(flight[p])
CloudTyped   == issued \in Tokens /\ live \subseteq 1..issued /\ old \subseteq 1..issued
PastTyped    == should \in Configs /\ clash \in BOOLEAN /\ hurt \in BOOLEAN

ConfigTyped == FileTyped /\ ProcsTyped /\ CallsTyped /\ FlightsTyped /\ CloudTyped /\ PastTyped

LEMMA ConfigTypedOK == ConfigTyped => ConfigTypeOK
BY DEF ConfigTyped, FileTyped, ProcsTyped, CallsTyped, FlightsTyped, CloudTyped, PastTyped,
       ConfigTypeOK, ProcState, CallState, FlightState, ProcPcs, CallPcs, FlightPcs, Tokens

LEMMA ConfigBlanks ==
    /\ Empty \in Configs /\ Empty.cf = None
    /\ NoCall \in CallState
    /\ NoFlight \in FlightState /\ NoFlight.pc = "none"
    /\ 1 \in Tokens /\ 1 \in 1..MaxTokens /\ None \notin Logins
<1>1. Empty \in Configs /\ Empty.cf = None
  BY DEF Empty, Configs
<1> QED
  BY <1>1, ConfigAssumption
     DEF NoCall, NoFlight, CallState, FlightState, CallPcs, FlightPcs, Tokens

\* A reader finds a value, or its default.
LEMMA FileReads ==
    ASSUME NEW values, NEW empty \in values, NEW file \in File!Files(values)
    PROVE  File!Read(file, empty) \in values
<1>1. file.text \in Seq(values) /\ Len(file.text) <= 1
  <2> DEFINE T == {t \in Seq(values) : Len(t) <= 1}
  <2>1. file.text \in T
    BY DEF File!Files
  <2> QED
    BY <2>1
<1>2. CASE file.text = <<>>
  BY <1>2 DEF File!Read, File!Unreadable
<1>3. CASE file.text # <<>>
  <2>1. 1 \in 1..Len(file.text)
    BY <1>1, <1>3
  <2> QED
    BY <1>1, <1>3, <2>1 DEF File!Read, File!Unreadable
<1> QED
  BY <1>2, <1>3

\* What a writer leaves behind is a file of such values.
LEMMA FileWrites ==
    ASSUME NEW values, NEW v \in values, NEW file
    PROVE  /\ File!Stored(v) \in File!Files(values)
           /\ File!Truncated \in File!Files(values)
           /\ \A to \in File!Filled(file, v) : to \in File!Files(values)
<1>1. File!Stored(v) \in File!Files(values)
  <2>1. <<v>> \in Seq(values) /\ Len(<<v>>) = 1
    OBVIOUS
  <2> QED
    BY <2>1 DEF File!Stored, File!Files
<1>2. File!Truncated \in File!Files(values) /\ File!Torn \in File!Files(values)
  <2>1. <<>> \in Seq(values) /\ Len(<<>>) = 0
    OBVIOUS
  <2> QED
    BY <2>1 DEF File!Truncated, File!Torn, File!Files, File!Unreadable
<1>3. \A to \in File!Filled(file, v) : to = File!Stored(v) \/ to = File!Torn
  BY DEF File!Filled
<1> QED
  BY <1>1, <1>2, <1>3

\* What a reader makes of the config is one.
LEMMA NowTyped ==
    ASSUME FileTyped
    PROVE  /\ Now \in Configs
           /\ Now.cf # None => Now.cf \in Logins /\ Now.cf.access \in Tokens
<1>1. Now \in Configs
  BY ConfigBlanks, FileReads DEF FileTyped, Now
<1>2. Now.cf \in Logins \union {None}
  BY <1>1 DEF Configs
<1>3. \A l \in Logins : l.access \in Tokens
  BY DEF Logins, Tokens
<1> QED
  BY <1>1, <1>2, <1>3

\* One process, one call or one refresh changes.
LEMMA ProcChanges ==
    ASSUME ProcsTyped, NEW p \in Procs, NEW l \in ProcState, HasGot(l),
           proc' = [proc EXCEPT ![p] = l]
    PROVE  ProcsTyped'
BY DEF ProcsTyped

LEMMA ProcSteps ==
    ASSUME ProcsTyped, NEW p \in Procs, NEW x \in ProcPcs, Step(p, x),
           proc[p].cmd = "login" =>
               /\ x \notin {"ensure", "calls", "manifest"}
               /\ x \in {"read", "truncate", "fill"} => proc[p].got \in 1..MaxTokens
    PROVE  /\ ProcsTyped'
           /\ proc'[p].pc = x /\ proc'[p].cmd = proc[p].cmd /\ proc'[p].got = proc[p].got
           /\ proc'[p].base = proc[p].base /\ proc'[p].token = proc[p].token
           /\ \A q \in Procs \ {p} : proc'[q] = proc[q]
<1> DEFINE l == [proc[p] EXCEPT !.pc = x]
<1>1. proc[p] \in ProcState /\ proc \in [Procs -> ProcState]
  BY DEF ProcsTyped
<1>2. /\ l \in ProcState /\ l.pc = x /\ l.cmd = proc[p].cmd /\ l.got = proc[p].got
      /\ l.base = proc[p].base /\ l.token = proc[p].token
  BY <1>1 DEF ProcState
<1>3. proc' = [proc EXCEPT ![p] = l]
  BY DEF Step
<1> HIDE DEF l
<1>4. HasGot(l)
  BY <1>2 DEF HasGot
<1>5. ProcsTyped'
  BY <1>2, <1>3, <1>4, ProcChanges
<1> QED
  BY <1>1, <1>2, <1>3, <1>5

LEMMA CallChanges ==
    ASSUME CallsTyped, NEW p \in Procs, NEW c \in Calls, NEW k \in CallState, SetCall(p, c, k)
    PROVE  /\ CallsTyped'
           /\ call'[p][c] = k
           /\ \A q \in Procs, d \in Calls : q # p \/ d # c => call'[q][d] = call[q][d]
BY DEF CallsTyped, SetCall

LEMMA FlightChanges ==
    ASSUME FlightsTyped, NEW p \in Procs, NEW f \in FlightState, HasLogin(f),
           flight' = [flight EXCEPT ![p] = f]
    PROVE  /\ FlightsTyped'
           /\ flight'[p] = f
           /\ \A q \in Procs \ {p} : flight'[q] = flight[q]
BY DEF FlightsTyped

LEMMA FlightEnds ==
    ASSUME FlightsTyped, NEW p \in Procs, flight' = [flight EXCEPT ![p] = NoFlight]
    PROVE  /\ FlightsTyped'
           /\ flight'[p] = NoFlight /\ flight'[p].pc = "none"
           /\ \A q \in Procs \ {p} : flight'[q] = flight[q]
<1>1. HasLogin(NoFlight)
  BY DEF HasLogin, NoFlight
<1> QED
  BY <1>1, ConfigBlanks, FlightChanges

\* The calls of one process change.
LEMMA CallsChange ==
    ASSUME CallsTyped, NEW p \in Procs, NEW k \in [Calls -> CallState],
           call' = [call EXCEPT ![p] = k]
    PROVE  /\ CallsTyped'
           /\ call'[p] = k
           /\ \A q \in Procs \ {p} : call'[q] = call[q]
BY DEF CallsTyped

LEMMA LandedType ==
    ASSUME CallsTyped, FlightsTyped, NEW p \in Procs, NEW token \in Tokens, Landed(p, token)
    PROVE  CallsTyped' /\ FlightsTyped'
<1> DEFINE k == [c \in Calls |-> IF call[p][c].pc = "join"
                                 THEN [call[p][c] EXCEPT !.pc = "request", !.token = token]
                                 ELSE call[p][c]]
<1>1. \A c \in Calls : call[p][c] \in CallState
  BY DEF CallsTyped
<1>2. k \in [Calls -> CallState]
  BY <1>1 DEF CallState, CallPcs
<1>3. call' = [call EXCEPT ![p] = k]
  BY DEF Landed
<1> HIDE DEF k
<1> QED
  BY <1>2, <1>3, CallsChange, FlightEnds DEF Landed

LEMMA BrokenType ==
    ASSUME ProcsTyped, CallsTyped, FlightsTyped, NEW p \in Procs, Broken(p)
    PROVE  ProcsTyped' /\ CallsTyped' /\ FlightsTyped'
<1>1. FlightsTyped'
  BY FlightEnds DEF Broken
<1>2. CASE Step(p, "failed") /\ call' = [call EXCEPT ![p] = [c \in Calls |-> NoCall]]
  <2>1. [c \in Calls |-> NoCall] \in [Calls -> CallState]
    BY ConfigBlanks
  <2>2. "failed" \in ProcPcs
    BY DEF ProcPcs, Exited
  <2> QED
    BY <1>1, <1>2, <2>1, <2>2, CallsChange, ProcSteps
<1>3. CASE /\ call' = [call EXCEPT ![p] = [c \in Calls |->
                          IF call[p][c].pc = "join" THEN NoCall ELSE call[p][c]]]
           /\ UNCHANGED proc
  <2>1. \A c \in Calls : call[p][c] \in CallState
    BY DEF CallsTyped
  <2>2. [c \in Calls |-> IF call[p][c].pc = "join" THEN NoCall ELSE call[p][c]]
           \in [Calls -> CallState]
    BY <2>1, ConfigBlanks
  <2> QED
    BY <1>1, <1>3, <2>2, CallsChange DEF ProcsTyped
<1> QED
  BY <1>2, <1>3 DEF Broken

LEMMA ConfigInitTyped == ConfigInit => ConfigTyped
<1> SUFFICES ASSUME ConfigInit PROVE ConfigTyped
  OBVIOUS
<1>1. should \in Configs
  BY ConfigBlanks DEF ConfigInit, Empty, Configs, Logins
<1>2. FileTyped
  BY <1>1, FileWrites DEF ConfigInit, FileTyped
<1>3. ProcsTyped
  <2>0. 0 \in Tokens /\ "start" \in ProcPcs
    BY ConfigAssumption DEF Tokens, ProcPcs
  <2>1. proc \in [Procs -> ProcState]
    BY <2>0, ConfigBlanks DEF ConfigInit, ProcState
  <2>2. \A p \in Procs : proc[p].pc = "start"
    BY DEF ConfigInit
  <2> QED
    BY <2>1, <2>2 DEF ProcsTyped, HasGot
<1>4. CallsTyped /\ FlightsTyped
  BY ConfigBlanks DEF ConfigInit, CallsTyped, FlightsTyped, HasLogin
<1>5. CloudTyped /\ PastTyped
  <2>1. issued = 1 /\ live = {1} /\ old = {} /\ clash = FALSE /\ hurt = FALSE
    BY DEF ConfigInit
  <2>2. 1 \in 1..1
    OBVIOUS
  <2> QED
    BY <1>1, <2>1, <2>2, ConfigBlanks DEF CloudTyped, PastTyped
<1> QED
  BY <1>2, <1>3, <1>4, <1>5 DEF ConfigTyped

\* Actions of one call.
LEMMA CallActionsTyped ==
    ASSUME ConfigTyped, NEW p \in Procs, NEW c \in Calls,
           Begin(p, c) \/ Resolve(p, c) \/ Request(p, c) \/ Ensured(p, c)
    PROVE  ConfigTyped'
<1> USE DEF ConfigTyped
<1>1. /\ call[p][c] \in CallState /\ proc[p] \in ProcState /\ HasGot(proc[p])
      /\ call[p][c].token \in Tokens /\ call[p][c].forced \in BOOLEAN
      /\ proc[p].token \in Tokens
  BY DEF CallsTyped, ProcsTyped, CallState, ProcState
<1>2. CASE Begin(p, c)
  <2>1. [pc |-> "resolve", token |-> proc[p].token, forced |-> FALSE] \in CallState
    BY <1>1 DEF CallState, CallPcs
  <2>2. CallsTyped'
    BY <1>2, <2>1, CallChanges DEF Begin
  <2> QED
    BY <1>2, <2>2 DEF Begin, FileTyped, ProcsTyped, FlightsTyped, CloudTyped, PastTyped,
                      cloudflare, history
<1>3. CASE Resolve(p, c)
  <2>1. /\ [call[p][c] EXCEPT !.pc = "request"] \in CallState
        /\ [call[p][c] EXCEPT !.pc = "join"] \in CallState
    BY <1>1 DEF CallState, CallPcs
  <2>2. Now.cf # None => [call[p][c] EXCEPT !.pc = "request", !.token = Now.cf.access] \in CallState
    BY <1>1, NowTyped DEF CallState, CallPcs
  <2>3. CallsTyped'
    BY <1>3, <2>1, <2>2, CallChanges DEF Resolve
  <2>4. FlightsTyped'
    <3> DEFINE f == [pc |-> "reread", token |-> call[p][c].token, forced |-> call[p][c].forced,
                     base |-> Empty]
    <3>1. f \in FlightState /\ f.pc = "reread"
      BY <1>1, ConfigBlanks DEF FlightState, FlightPcs
    <3>2. flight' = flight \/ flight' = [flight EXCEPT ![p] = f]
      BY <1>3 DEF Resolve
    <3> HIDE DEF f
    <3>3. HasLogin(f)
      BY <3>1 DEF HasLogin
    <3> QED
      BY <3>1, <3>2, <3>3, FlightChanges DEF FlightsTyped
  <2> QED
    BY <1>3, <2>3, <2>4 DEF Resolve, FileTyped, ProcsTyped, CloudTyped, PastTyped,
                            cloudflare, history
<1>4. CASE Request(p, c)
  <2>1. [call[p][c] EXCEPT !.pc = "resolve", !.forced = TRUE] \in CallState
    BY <1>1 DEF CallState, CallPcs
  <2>2. CallsTyped'
    BY <1>4, <2>1, CallChanges, ConfigBlanks DEF Request
  <2> QED
    BY <1>4, <2>2 DEF Request, FileTyped, ProcsTyped, FlightsTyped, CloudTyped, PastTyped,
                      cloudflare, history
<1>5. CASE Ensured(p, c)
  <2>1. CallsTyped'
    BY <1>5, CallChanges, ConfigBlanks DEF Ensured
  <2>2. ProcsTyped'
    <3>0. proc[p].cmd # "login"
      BY <1>1, <1>5 DEF Ensured, HasGot
    <3>1. ASSUME NEW x \in {"calls", "failed"}, Step(p, x) PROVE ProcsTyped'
      <4>1. x \in ProcPcs /\ proc[p].cmd # "login"
        BY <3>0 DEF ProcPcs, Exited
      <4> QED
        BY <3>1, <4>1, ProcSteps
    <3>2. ASSUME Now.cf # None,
                 proc' = [proc EXCEPT ![p].pc = "calls", ![p].token = Now.cf.access]
          PROVE  ProcsTyped'
      <4> DEFINE l == [proc[p] EXCEPT !.pc = "calls", !.token = Now.cf.access]
      <4>1. l \in ProcState /\ l.cmd = proc[p].cmd
        BY <1>1, <3>2, NowTyped DEF ProcState, ProcPcs
      <4>2. proc' = [proc EXCEPT ![p] = l]
        BY <3>2
      <4> HIDE DEF l
      <4>3. HasGot(l)
        BY <3>0, <4>1 DEF HasGot
      <4> QED
        BY <4>1, <4>2, <4>3, ProcChanges
    <3> QED
      BY <1>5, <3>1, <3>2 DEF Ensured
  <2> QED
    BY <1>5, <2>1, <2>2 DEF Ensured, FileTyped, FlightsTyped, CloudTyped, PastTyped,
                            cloudflare, history
<1> QED
  BY <1>2, <1>3, <1>4, <1>5

\* The shared refresh.
LEMMA RereadTyped ==
    ASSUME ConfigTyped, NEW p \in Procs, Reread(p)
    PROVE  ConfigTyped'
<1> USE DEF ConfigTyped
<1>1. FileTyped' /\ CloudTyped'
  BY DEF Reread, FileTyped, CloudTyped, cloudflare
<1>2. CASE Broken(p) /\ UNCHANGED clash
  <2>1. ProcsTyped' /\ CallsTyped' /\ FlightsTyped'
    BY <1>2, BrokenType
  <2> QED
    BY <1>1, <1>2, <2>1 DEF Reread, PastTyped
<1>3. CASE Now.cf # None /\ Landed(p, Now.cf.access) /\ UNCHANGED <<proc, clash>>
  <2>1. CallsTyped' /\ FlightsTyped'
    BY <1>3, NowTyped, LandedType
  <2> QED
    BY <1>1, <1>3, <2>1 DEF Reread, PastTyped, ProcsTyped
<1>4. CASE /\ Now.cf # None
           /\ flight' = [flight EXCEPT ![p].pc = "refresh", ![p].base = Now]
           /\ clash' = (clash \/ UnderWay)
           /\ UNCHANGED <<proc, call>>
  <2> DEFINE f == [flight[p] EXCEPT !.pc = "refresh", !.base = Now]
  <2>1. flight[p] \in FlightState
    BY DEF FlightsTyped
  <2>2. f \in FlightState /\ f.base = Now
    BY <2>1, NowTyped DEF FlightState, FlightPcs
  <2>3. flight' = [flight EXCEPT ![p] = f]
    BY <1>4
  <2> HIDE DEF f
  <2>4. HasLogin(f)
    BY <1>4, <2>2, NowTyped DEF HasLogin
  <2>5. FlightsTyped'
    BY <2>2, <2>3, <2>4, FlightChanges
  <2>6. clash' \in BOOLEAN
    BY <1>4
  <2> QED
    BY <1>1, <1>4, <2>5, <2>6 DEF Reread, PastTyped, ProcsTyped, CallsTyped
<1> QED
  BY <1>2, <1>3, <1>4 DEF Reread

LEMMA RefreshedTyped ==
    ASSUME NEW cf \in Logins, NEW n \in 1..MaxTokens, NEW rotated
    PROVE  /\ Refreshed(cf, n, rotated) \in Logins
           /\ Refreshed(cf, n, rotated).refresh \in {n, cf.refresh}
BY DEF Refreshed, Logins

LEMMA RefreshTyped ==
    ASSUME ConfigTyped, NEW p \in Procs, Refresh(p)
    PROVE  ConfigTyped'
<1> USE DEF ConfigTyped
<1>1. FileTyped' /\ UNCHANGED <<config, old, should, clash>>
  BY DEF Refresh, FileTyped
<1>2. CASE Broken(p) /\ UNCHANGED <<issued, live, hurt>>
  BY <1>1, <1>2, BrokenType DEF CloudTyped, PastTyped
<1>3. CASE ~(Broken(p) /\ UNCHANGED <<issued, live, hurt>>)
  <2> DEFINE cf == flight[p].base.cf
             n  == issued + 1
  <2>1. flight[p] \in FlightState /\ flight[p].pc = "refresh" /\ cf \in Logins
    BY DEF Refresh, FlightsTyped, HasLogin
  <2>2. PICK rotated \in BOOLEAN :
           /\ live' = IF rotated THEN (live \ {cf.refresh}) \union {n} ELSE live
           /\ \/ /\ flight' = [flight EXCEPT
                        ![p].pc = "truncate",
                        ![p].base = [@ EXCEPT !.cf = Refreshed(cf, n, rotated)]]
                 /\ UNCHANGED <<proc, call, hurt>>
              \/ Broken(p) /\ hurt' = TRUE
    BY <1>3 DEF Refresh
  <2>3. issued' = n /\ issued < MaxTokens
    BY <1>3 DEF Refresh
  <2>4. n \in 1..MaxTokens /\ issued' \in Tokens /\ 1..issued \subseteq 1..issued'
    BY <2>3, ConfigAssumption DEF CloudTyped, Tokens
  <2>5. CloudTyped'
    BY <1>1, <2>2, <2>3, <2>4, ConfigAssumption DEF CloudTyped, Tokens
  <2>6. CASE /\ flight' = [flight EXCEPT
                      ![p].pc = "truncate",
                      ![p].base = [@ EXCEPT !.cf = Refreshed(cf, n, rotated)]]
             /\ UNCHANGED <<proc, call, hurt>>
    <3> DEFINE b == [flight[p].base EXCEPT !.cf = Refreshed(cf, n, rotated)]
               f == [flight[p] EXCEPT !.pc = "truncate", !.base = b]
    <3>1. flight[p].base \in Configs
      BY <2>1 DEF FlightState
    <3>2. b \in Configs /\ b.cf \in Logins
      BY <2>1, <2>4, <3>1, RefreshedTyped DEF Configs
    <3>3. flight' = [flight EXCEPT ![p] = f]
      BY <2>6
    <3> HIDE DEF b
    <3>4. f \in FlightState /\ f.base = b
      BY <2>1, <3>2 DEF FlightState, FlightPcs
    <3> HIDE DEF f
    <3>5. HasLogin(f)
      BY <3>2, <3>4 DEF HasLogin
    <3>6. FlightsTyped'
      BY <3>3, <3>4, <3>5, FlightChanges
    <3> QED
      BY <1>1, <2>5, <2>6, <3>6 DEF PastTyped, ProcsTyped, CallsTyped
  <2>7. CASE Broken(p) /\ hurt' = TRUE
    BY <1>1, <2>5, <2>7, BrokenType DEF PastTyped
  <2> QED
    BY <2>2, <2>6, <2>7
<1> QED
  BY <1>2, <1>3

LEMMA RewrittenTyped ==
    ASSUME ProcsTyped, NEW p \in Procs, proc[p].pc = "fill", NEW c \in Configs
    PROVE  Rewritten(p, c) \in Configs
<1>1. proc[p] \in ProcState /\ HasGot(proc[p])
  BY DEF ProcsTyped
<1>2. CASE proc[p].cmd = "login"
  <2>1. [access |-> proc[p].got, refresh |-> proc[p].got] \in Logins
    BY <1>1, <1>2 DEF HasGot, Logins
  <2> QED
    BY <1>2, <2>1 DEF Rewritten, Configs
<1>3. CASE proc[p].cmd = "pair"
  BY <1>3 DEF Rewritten, Configs
<1>4. CASE proc[p].cmd \notin {"login", "pair"}
  BY <1>4 DEF Rewritten, Configs
<1> QED
  BY <1>2, <1>3, <1>4

LEMMA WritesTyped ==
    ASSUME ConfigTyped, NEW p \in Procs,
           TruncateLogin(p) \/ FillLogin(p) \/ Truncate(p) \/ Fill(p)
    PROVE  ConfigTyped'
<1> USE DEF ConfigTyped
<1>1. CASE TruncateLogin(p)
  <2> DEFINE f == [flight[p] EXCEPT !.pc = "fill"]
  <2>1. flight[p] \in FlightState /\ flight[p].pc = "truncate" /\ flight[p].base.cf \in Logins
    BY <1>1 DEF TruncateLogin, FlightsTyped, HasLogin
  <2>2. f \in FlightState /\ f.base = flight[p].base
    BY <2>1 DEF FlightState, FlightPcs
  <2>3. flight' = [flight EXCEPT ![p] = f]
    BY <1>1 DEF TruncateLogin
  <2> HIDE DEF f
  <2>4. HasLogin(f)
    BY <2>1, <2>2 DEF HasLogin
  <2>5. FlightsTyped'
    BY <2>2, <2>3, <2>4, FlightChanges
  <2>6. FileTyped'
    BY <1>1, FileWrites, ConfigBlanks DEF TruncateLogin, FileTyped
  <2> QED
    BY <1>1, <2>5, <2>6 DEF TruncateLogin, ProcsTyped, CallsTyped, CloudTyped, PastTyped,
                            cloudflare, history
<1>2. CASE FillLogin(p)
  <2>1. /\ flight[p] \in FlightState /\ flight[p].base \in Configs
        /\ flight[p].base.cf \in Logins
    BY <1>2 DEF FillLogin, FlightsTyped, FlightState, HasLogin
  <2>2. FileTyped'
    BY <1>2, <2>1, FileWrites DEF FillLogin, FileTyped
  <2>3. should' \in Configs
    BY <1>2, <2>1 DEF FillLogin, PastTyped, Configs
  <2>4. flight[p].base.cf.access \in Tokens
    BY <2>1 DEF Logins, Tokens
  <2>5. CallsTyped' /\ FlightsTyped'
    BY <1>2, <2>4, LandedType DEF FillLogin
  <2> QED
    BY <1>2, <2>2, <2>3, <2>5 DEF FillLogin, ProcsTyped, CloudTyped, PastTyped, cloudflare
<1>3. CASE Truncate(p)
  <2>1. /\ proc[p] \in ProcState /\ HasGot(proc[p]) /\ proc[p].pc = "truncate"
        /\ "fill" \in ProcPcs
    BY <1>3 DEF Truncate, ProcsTyped, ProcPcs
  <2>2. ProcsTyped'
    BY <1>3, <2>1, ProcSteps DEF Truncate, HasGot
  <2>3. FileTyped'
    BY <1>3, FileWrites, ConfigBlanks DEF Truncate, FileTyped
  <2> QED
    BY <1>3, <2>2, <2>3 DEF Truncate, FlightsTyped, CallsTyped, CloudTyped, PastTyped,
                            cloudflare, history
<1>4. CASE Fill(p)
  <2>1. /\ proc[p] \in ProcState /\ proc[p].pc = "fill" /\ proc[p].base \in Configs
        /\ "done" \in ProcPcs
    BY <1>4 DEF Fill, ProcsTyped, ProcState, ProcPcs, Exited
  <2>2. ProcsTyped'
    BY <1>4, <2>1, ProcSteps DEF Fill
  <2>3. /\ Rewritten(p, proc[p].base) \in Configs
        /\ Rewritten(p, should) \in Configs
    BY <2>1, RewrittenTyped DEF PastTyped
  <2>4. FileTyped'
    BY <1>4, <2>3, FileWrites DEF Fill, FileTyped
  <2> QED
    BY <1>4, <2>2, <2>3, <2>4 DEF Fill, FlightsTyped, CallsTyped, CloudTyped, PastTyped,
                                  cloudflare
<1> QED
  BY <1>1, <1>2, <1>3, <1>4

LEMMA CommandsTyped ==
    ASSUME ConfigTyped, NEW p \in Procs,
           \/ Ensure(p) \/ Outside(p) \/ Deployed(p) \/ ReadAgain(p) \/ ManifestWritten(p)
           \/ Fail(p) \/ Kill(p)
    PROVE  ConfigTyped'
<1> USE DEF ConfigTyped
<1>0. /\ proc[p] \in ProcState /\ HasGot(proc[p]) /\ proc \in [Procs -> ProcState]
      /\ {"read", "truncate", "calls", "failed", "killed"} \subseteq ProcPcs
  BY DEF ProcsTyped, ProcPcs, Exited
<1>1. CASE Ensure(p)
  <2>1. CASE Now.cf = None /\ Step(p, "failed") /\ UNCHANGED call
    BY <1>0, <1>1, <2>1, ProcSteps DEF Ensure, FileTyped, FlightsTyped, CallsTyped, CloudTyped,
                                       PastTyped, cloudflare, history
  <2>2. CASE Now.cf # None
    <3> DEFINE l == [proc[p] EXCEPT !.pc = "ensure", !.token = Now.cf.access]
    <3>1. Now.cf.access \in Tokens
      BY <2>2, NowTyped
    <3>2. l \in ProcState /\ l.cmd = proc[p].cmd /\ proc[p].cmd # "login"
      BY <1>0, <1>1, <3>1 DEF Ensure, ProcState, ProcPcs
    <3>3. proc' = [proc EXCEPT ![p] = l]
      BY <1>1, <2>2 DEF Ensure
    <3> HIDE DEF l
    <3>4. HasGot(l)
      BY <3>2 DEF HasGot
    <3>5. ProcsTyped'
      BY <3>2, <3>3, <3>4, ProcChanges
    <3>6. [pc |-> "resolve", token |-> Now.cf.access, forced |-> FALSE] \in CallState
      BY <3>1 DEF CallState, CallPcs
    <3>7. CallsTyped'
      BY <1>1, <2>2, <3>6, CallChanges DEF Ensure
    <3> QED
      BY <1>1, <3>5, <3>7 DEF Ensure, FileTyped, FlightsTyped, CloudTyped, PastTyped,
                              cloudflare, history
  <2> QED
    BY <1>1, <2>1, <2>2 DEF Ensure
<1>2. CASE Outside(p)
  <2>0. /\ UNCHANGED <<config, call, flight, old, history>> /\ proc[p].pc = "start"
    BY <1>2 DEF Outside
  <2>1. CASE Step(p, "failed") /\ UNCHANGED <<issued, live>>
    BY <1>0, <2>0, <2>1, ProcSteps DEF FileTyped, FlightsTyped, CallsTyped, CloudTyped,
                                       PastTyped, history
  <2>2. CASE proc[p].cmd = "pair" /\ Step(p, "read") /\ UNCHANGED <<issued, live>>
    BY <1>0, <2>0, <2>2, ProcSteps DEF FileTyped, FlightsTyped, CallsTyped, CloudTyped,
                                       PastTyped, history
  <2>3. CASE /\ proc[p].cmd = "login" /\ issued < MaxTokens
             /\ issued' = issued + 1
             /\ live' = live \union {issued'}
             /\ proc' = [proc EXCEPT ![p].pc = "read", ![p].got = issued']
    <3> DEFINE l == [proc[p] EXCEPT !.pc = "read", !.got = issued']
    <3>1. issued' \in 1..MaxTokens /\ issued' \in Tokens /\ 1..issued \subseteq 1..issued'
          /\ issued' \in 1..issued'
      BY <2>3, ConfigAssumption DEF CloudTyped, Tokens
    <3>2. l \in ProcState /\ l.got = issued' /\ l.pc = "read"
      BY <1>0, <3>1 DEF ProcState
    <3>3. proc' = [proc EXCEPT ![p] = l]
      BY <2>3
    <3> HIDE DEF l
    <3>4. HasGot(l)
      BY <3>1, <3>2 DEF HasGot
    <3>5. ProcsTyped'
      BY <3>2, <3>3, <3>4, ProcChanges
    <3>6. CloudTyped'
      BY <2>0, <2>3, <3>1 DEF CloudTyped
    <3> QED
      BY <2>0, <3>5, <3>6 DEF FileTyped, FlightsTyped, CallsTyped, PastTyped, history
  <2> QED
    BY <1>2, <2>1, <2>2, <2>3 DEF Outside
<1>3. CASE Deployed(p)
  <2>1. proc[p].cmd # "login" /\ Step(p, "read")
    BY <1>0, <1>3 DEF Deployed, HasGot
  <2> QED
    BY <1>0, <1>3, <2>1, ProcSteps DEF Deployed, FileTyped, FlightsTyped, CallsTyped, CloudTyped,
                                       PastTyped, cloudflare, history
<1>4. CASE ReadAgain(p)
  <2> DEFINE x == IF proc[p].cmd = "create" THEN "manifest" ELSE "truncate"
             l == [proc[p] EXCEPT !.base = Now, !.pc = x]
  <2>1. proc[p].pc = "read" /\ x \in ProcPcs
    BY <1>4 DEF ReadAgain, ProcPcs
  <2>2. proc' = [proc EXCEPT ![p] = l]
    BY <1>4 DEF ReadAgain
  <2>3. proc[p].cmd = "login" => x = "truncate"
    OBVIOUS
  <2> HIDE DEF x
  <2>4. l \in ProcState /\ l.cmd = proc[p].cmd /\ l.pc = x /\ l.got = proc[p].got
    BY <1>0, <2>1, NowTyped DEF ProcState
  <2> HIDE DEF l
  <2>5. HasGot(l)
    BY <1>0, <2>1, <2>3, <2>4 DEF HasGot
  <2>6. ProcsTyped'
    BY <2>2, <2>4, <2>5, ProcChanges
  <2>7. clash' \in BOOLEAN
    BY <1>4 DEF ReadAgain
  <2> QED
    BY <1>4, <2>6, <2>7 DEF ReadAgain, FileTyped, FlightsTyped, CallsTyped, CloudTyped,
                            PastTyped, cloudflare
<1>5. CASE ManifestWritten(p)
  <2>1. proc[p].cmd # "login" /\ Step(p, "truncate")
    BY <1>0, <1>5 DEF ManifestWritten, HasGot
  <2> QED
    BY <1>0, <1>5, <2>1, ProcSteps
       DEF ManifestWritten, FileTyped, FlightsTyped, CallsTyped, CloudTyped, PastTyped,
           cloudflare, history
<1>6. CASE Fail(p)
  <2>1. [c \in Calls |-> NoCall] \in [Calls -> CallState]
    BY ConfigBlanks
  <2>2. CallsTyped'
    BY <1>6, <2>1, CallsChange DEF Fail
  <2> QED
    BY <1>0, <1>6, <2>2, ProcSteps DEF Fail, FileTyped, FlightsTyped, CloudTyped, PastTyped,
                                       cloudflare, history
<1>7. CASE Kill(p)
  <2>1. [c \in Calls |-> NoCall] \in [Calls -> CallState]
    BY ConfigBlanks
  <2>2. CallsTyped'
    BY <1>7, <2>1, CallsChange DEF Kill
  <2>3. FlightsTyped'
    BY <1>7, FlightEnds DEF Kill
  <2>4. hurt' \in BOOLEAN
    BY <1>7 DEF Kill
  <2> QED
    BY <1>0, <1>7, <2>2, <2>3, <2>4, ProcSteps DEF Kill, FileTyped, CloudTyped, PastTyped,
                                                   cloudflare
<1> QED
  BY <1>1, <1>2, <1>3, <1>4, <1>5, <1>6, <1>7

LEMMA ConfigTypedStep ==
    ASSUME ConfigTyped, [ConfigNext]_configVars
    PROVE  ConfigTyped'
<1> USE DEF ConfigTyped, FileTyped, ProcsTyped, CallsTyped, FlightsTyped, CloudTyped, PastTyped
<1>1. CASE UNCHANGED configVars
  BY <1>1 DEF configVars, cloudflare, history
<1>2. ASSUME NEW n \in 1..MaxTokens, Age(n) PROVE ConfigTyped'
  BY <1>2 DEF Age, history
<1> QED
  BY <1>1, <1>2, CallActionsTyped, RereadTyped, RefreshTyped, WritesTyped, CommandsTyped
     DEF ConfigNext

LEMMA CliIsConfig == CliSpec => ConfigSpec
<1>1. [CliNext]_cliVars => [ConfigNext]_configVars
  BY DEF CliNext, cliVars
<1> QED
  BY <1>1, PTL DEF CliSpec, ConfigSpec

\* Whatever commands run and wherever they end, the config, the commands and
\* their refreshes have their type; what is refreshed is a login.
THEOREM ConfigTypeCorrect == CliSpec => []ConfigTypeOK
<1>1. ConfigTyped => ConfigTypeOK
  BY ConfigTypedOK
<1> QED
  BY <1>1, CliIsConfig, ConfigInitTyped, ConfigTypedStep, PTL DEF ConfigSpec

-----------------------------------------------------------------------------
(***************************************************************************)
(* Calls are under way only while a command works at Cloudflare, one at    *)
(* most while it ensures its login, and whoever refreshes is waited for:   *)
(* so nobody is refreshing for a command that is past its calls.           *)
(***************************************************************************)
Calling(p) == proc[p].pc \in {"ensure", "calls", "manifest"}

CallsFlow(p) ==
    /\ ~Calling(p) => Quiet(p)
    /\ flight[p].pc # "none" => \E c \in Calls : call[p][c].pc = "join"
    /\ proc[p].pc = "ensure" =>
          \A c, d \in Calls : call[p][c].pc # "idle" /\ call[p][d].pc # "idle" => c = d
FlowInv == \A p \in Procs : CallsFlow(p)

LEMMA FlightIsCalled ==
    ASSUME FlowInv, NEW p \in Procs, ~Calling(p)
    PROVE  flight[p].pc = "none"
BY DEF FlowInv, CallsFlow, Quiet

\* Only one process has changed.
LEMMA FlowFrame ==
    ASSUME FlowInv, NEW p \in Procs, CallsFlow(p)',
           \A q \in Procs \ {p} : /\ proc'[q].pc = proc[q].pc
                                  /\ call'[q] = call[q]
                                  /\ flight'[q].pc = flight[q].pc
    PROVE  FlowInv'
BY DEF FlowInv, CallsFlow, Calling, Quiet

LEMMA LandedFlow ==
    ASSUME CallsTyped, FlightsTyped, FlowInv, NEW p \in Procs, NEW token, Landed(p, token),
           proc' = proc
    PROVE  FlowInv'
<1>1. /\ flight'[p].pc = "none" /\ \A q \in Procs \ {p} : flight'[q] = flight[q]
  BY FlightEnds DEF Landed
<1>2. /\ \A q \in Procs \ {p} : call'[q] = call[q]
      /\ \A c \in Calls : (call'[p][c].pc = "idle") = (call[p][c].pc = "idle")
  <2>1. \A c \in Calls : call[p][c] \in CallState
    BY DEF CallsTyped
  <2>2. \A c \in Calls :
           call'[p][c] = IF call[p][c].pc = "join"
                         THEN [call[p][c] EXCEPT !.pc = "request", !.token = token]
                         ELSE call[p][c]
    BY DEF Landed, CallsTyped
  <2>3. \A c \in Calls : call[p][c].pc = "join" => call'[p][c].pc = "request"
    BY <2>1, <2>2 DEF CallState
  <2>4. \A q \in Procs \ {p} : call'[q] = call[q]
    BY DEF Landed, CallsTyped
  <2> QED
    BY <2>2, <2>3, <2>4
<1>3. CallsFlow(p)'
  BY <1>1, <1>2 DEF FlowInv, CallsFlow, Calling, Quiet
<1> QED
  BY <1>1, <1>2, <1>3, FlowFrame

LEMMA BrokenFlow ==
    ASSUME ProcsTyped, CallsTyped, FlightsTyped, FlowInv, NEW p \in Procs, Broken(p)
    PROVE  /\ FlowInv'
           /\ proc' = proc \/ Step(p, "failed")
<1>1. /\ flight'[p].pc = "none" /\ \A q \in Procs \ {p} : flight'[q] = flight[q]
  BY FlightEnds DEF Broken
<1>2. CASE Step(p, "failed") /\ call' = [call EXCEPT ![p] = [c \in Calls |-> NoCall]]
  <2>1. \A q \in Procs \ {p} : proc'[q].pc = proc[q].pc /\ call'[q] = call[q]
    BY <1>2 DEF Step, ProcsTyped, CallsTyped
  <2>2. \A c \in Calls : call'[p][c].pc = "idle"
    BY <1>2 DEF CallsTyped, NoCall
  <2>3. proc'[p].pc = "failed"
    BY <1>2 DEF Step, ProcsTyped, ProcState
  <2>4. CallsFlow(p)'
    BY <1>1, <2>2, <2>3 DEF CallsFlow, Calling, Quiet
  <2> QED
    BY <1>1, <1>2, <2>1, <2>4, FlowFrame
<1>3. CASE /\ Discovers(p)
           /\ call' = [call EXCEPT ![p] = [c \in Calls |->
                          IF call[p][c].pc = "join" THEN NoCall ELSE call[p][c]]]
           /\ UNCHANGED proc
  <2>1. \A q \in Procs \ {p} : call'[q] = call[q]
    BY <1>3 DEF CallsTyped
  <2>2. CallsFlow(p)'
    BY <1>1, <1>3 DEF CallsFlow, Calling, Discovers
  <2> QED
    BY <1>1, <1>3, <2>1, <2>2, FlowFrame
<1> QED
  BY <1>2, <1>3 DEF Broken

LEMMA CallActionsFlow ==
    ASSUME ConfigTyped, FlowInv, NEW p \in Procs, NEW c \in Calls,
           Begin(p, c) \/ Resolve(p, c) \/ Request(p, c) \/ Ensured(p, c)
    PROVE  FlowInv'
<1> USE DEF ConfigTyped
<1>0. /\ CallsFlow(p) /\ call[p][c] \in CallState /\ proc \in [Procs -> ProcState]
  BY DEF FlowInv, CallsTyped, ProcsTyped
<1>1. ASSUME NEW x \in CallPcs, NEW k, SetCall(p, c, k), k.pc = x
      PROVE  /\ call'[p][c].pc = x
             /\ \A d \in Calls \ {c} : call'[p][d] = call[p][d]
             /\ \A q \in Procs \ {p} : call'[q] = call[q]
  BY <1>1 DEF SetCall, CallsTyped
<1>2. CASE Begin(p, c)
  <2>1. SetCall(p, c, [pc |-> "resolve", token |-> proc[p].token, forced |-> FALSE])
    BY <1>2 DEF Begin
  <2>2. /\ call'[p][c].pc = "resolve"
        /\ \A d \in Calls \ {c} : call'[p][d] = call[p][d]
        /\ \A q \in Procs \ {p} : call'[q] = call[q]
    BY <1>1, <2>1 DEF CallPcs
  <2>3. /\ proc[p].pc \in {"calls", "manifest"} /\ call[p][c].pc = "idle"
        /\ proc' = proc /\ flight' = flight
    BY <1>2 DEF Begin
  <2>4. CallsFlow(p)'
    BY <1>0, <2>2, <2>3 DEF CallsFlow, Calling
  <2> QED
    BY <2>2, <2>3, <2>4, FlowFrame
<1>3. CASE Resolve(p, c)
  <2>1. /\ call[p][c].pc = "resolve" /\ proc' = proc
        /\ \A q \in Procs \ {p} : flight'[q] = flight[q]
    BY <1>3 DEF Resolve, FlightsTyped
  <2>2. /\ call'[p][c].pc \in {"request", "join"}
        /\ call'[p][c].pc = "request" => flight' = flight
        /\ \A d \in Calls \ {c} : call'[p][d] = call[p][d]
        /\ \A q \in Procs \ {p} : call'[q] = call[q]
    <3>1. /\ [call[p][c] EXCEPT !.pc = "request"].pc = "request"
          /\ [call[p][c] EXCEPT !.pc = "request", !.token = Now.cf.access].pc = "request"
          /\ [call[p][c] EXCEPT !.pc = "join"].pc = "join"
      BY <1>0 DEF CallState
    <3>2. \/ SetCall(p, c, [call[p][c] EXCEPT !.pc = "request"]) /\ UNCHANGED flight
          \/ SetCall(p, c, [call[p][c] EXCEPT !.pc = "request", !.token = Now.cf.access])
                /\ UNCHANGED flight
          \/ SetCall(p, c, [call[p][c] EXCEPT !.pc = "join"])
      BY <1>3 DEF Resolve
    <3> QED
      BY <1>1, <3>1, <3>2 DEF CallPcs
  <2>3. Calling(p)
    BY <1>0, <2>1 DEF CallsFlow, Quiet
  <2>4. CallsFlow(p)'
    BY <1>0, <2>1, <2>2, <2>3 DEF CallsFlow, Calling
  <2> QED
    BY <2>1, <2>2, <2>4, FlowFrame
<1>4. CASE Request(p, c)
  <2>1. call[p][c].pc = "request" /\ proc[p].pc # "ensure" /\ proc' = proc /\ flight' = flight
    BY <1>4 DEF Request
  <2>2. /\ call'[p][c].pc \in {"idle", "resolve"}
        /\ \A d \in Calls \ {c} : call'[p][d] = call[p][d]
        /\ \A q \in Procs \ {p} : call'[q] = call[q]
    <3>1. /\ NoCall.pc = "idle"
          /\ [call[p][c] EXCEPT !.pc = "resolve", !.forced = TRUE].pc = "resolve"
      BY <1>0 DEF CallState, NoCall
    <3>2. \/ SetCall(p, c, NoCall)
          \/ SetCall(p, c, [call[p][c] EXCEPT !.pc = "resolve", !.forced = TRUE])
      BY <1>4 DEF Request
    <3> QED
      BY <1>1, <3>1, <3>2 DEF CallPcs
  <2>3. CallsFlow(p)'
    BY <1>0, <2>1, <2>2 DEF CallsFlow, Calling, Quiet
  <2> QED
    BY <2>1, <2>2, <2>3, FlowFrame
<1>5. CASE Ensured(p, c)
  <2>1. /\ call[p][c].pc = "request" /\ proc[p].pc = "ensure" /\ flight' = flight
        /\ SetCall(p, c, NoCall)
    BY <1>5 DEF Ensured
  <2>2. /\ call'[p][c].pc = "idle"
        /\ \A d \in Calls \ {c} : call'[p][d] = call[p][d]
        /\ \A q \in Procs \ {p} : call'[q] = call[q]
    BY <1>1, <2>1 DEF CallPcs, NoCall
  <2>3. proc'[p].pc \in {"calls", "failed"} /\ \A q \in Procs \ {p} : proc'[q] = proc[q]
    BY <1>0, <1>5 DEF Ensured, Step, ProcState
  <2>4. \A d \in Calls \ {c} : call[p][d].pc = "idle"
    BY <1>0, <2>1 DEF CallsFlow
  <2>5. flight[p].pc = "none"
    BY <1>0, <2>1, <2>4 DEF CallsFlow
  <2>6. CallsFlow(p)'
    BY <2>1, <2>2, <2>3, <2>4, <2>5 DEF CallsFlow, Quiet
  <2> QED
    BY <2>1, <2>2, <2>3, <2>6, FlowFrame
<1> QED
  BY <1>2, <1>3, <1>4, <1>5

LEMMA RefreshActionsFlow ==
    ASSUME ConfigTyped, FlowInv, NEW p \in Procs,
           Reread(p) \/ Refresh(p) \/ TruncateLogin(p) \/ FillLogin(p)
    PROVE  FlowInv'
<1> USE DEF ConfigTyped
<1>1. ASSUME flight[p].pc # "none", proc' = proc, call' = call,
             NEW f, flight' = [flight EXCEPT ![p] = f]
      PROVE  FlowInv'
  <2>1. \A q \in Procs \ {p} : flight'[q] = flight[q]
    BY <1>1 DEF FlightsTyped
  <2>2. CallsFlow(p)'
    BY <1>1 DEF FlowInv, CallsFlow, Calling, Quiet
  <2> QED
    BY <1>1, <2>1, <2>2, FlowFrame
<1>2. CASE Reread(p)
  <2>1. flight[p].pc # "none"
    BY <1>2 DEF Reread
  <2>2. CASE Broken(p)
    BY <2>2, BrokenFlow
  <2>3. CASE Landed(p, Now.cf.access) /\ UNCHANGED proc
    BY <2>3, LandedFlow
  <2>4. CASE /\ flight' = [flight EXCEPT ![p].pc = "refresh", ![p].base = Now]
             /\ UNCHANGED <<proc, call>>
    BY <1>1, <2>1, <2>4
  <2> QED
    BY <1>2, <2>2, <2>3, <2>4 DEF Reread
<1>3. CASE Refresh(p)
  <2>1. flight[p].pc # "none"
    BY <1>3 DEF Refresh
  <2>2. CASE Broken(p)
    BY <2>2, BrokenFlow
  <2>3. CASE ~Broken(p)
    <3>1. \E f : flight' = [flight EXCEPT ![p] = f] /\ UNCHANGED <<proc, call>>
      BY <1>3, <2>3 DEF Refresh
    <3> QED
      BY <1>1, <2>1, <3>1
  <2> QED
    BY <2>2, <2>3
<1>4. CASE TruncateLogin(p)
  BY <1>1, <1>4 DEF TruncateLogin
<1>5. CASE FillLogin(p)
  BY <1>5, LandedFlow DEF FillLogin
<1> QED
  BY <1>2, <1>3, <1>4, <1>5

LEMMA CommandsFlow ==
    ASSUME ConfigTyped, FlowInv, NEW p \in Procs,
           \/ Ensure(p) \/ Outside(p) \/ Deployed(p) \/ ReadAgain(p) \/ ManifestWritten(p)
           \/ Truncate(p) \/ Fill(p) \/ Fail(p) \/ Kill(p)
    PROVE  FlowInv'
<1> USE DEF ConfigTyped
<1>0. CallsFlow(p) /\ proc \in [Procs -> ProcState] /\ proc[p] \in ProcState
  BY DEF FlowInv, ProcsTyped
<1>1. CASE Ensure(p)
  <2>1. Quiet(p) /\ flight[p].pc = "none" /\ flight' = flight
    BY <1>0, <1>1 DEF Ensure, CallsFlow, Calling, Quiet
  <2>2. CASE Step(p, "failed") /\ UNCHANGED call
    <3>1. proc'[p].pc = "failed" /\ \A q \in Procs \ {p} : proc'[q] = proc[q]
      BY <1>0, <2>2 DEF Step, ProcState
    <3>2. CallsFlow(p)'
      BY <2>1, <2>2, <3>1 DEF CallsFlow, Quiet
    <3> QED
      BY <2>1, <2>2, <3>1, <3>2, FlowFrame
  <2>3. ASSUME proc' = [proc EXCEPT ![p].pc = "ensure", ![p].token = Now.cf.access],
               NEW c \in Calls,
               SetCall(p, c, [pc |-> "resolve", token |-> Now.cf.access, forced |-> FALSE])
        PROVE  FlowInv'
    <3>1. proc'[p].pc = "ensure" /\ \A q \in Procs \ {p} : proc'[q] = proc[q]
      BY <1>0, <2>3 DEF ProcState
    <3>2. /\ \A d \in Calls \ {c} : call'[p][d] = call[p][d]
          /\ \A q \in Procs \ {p} : call'[q] = call[q]
      BY <2>3 DEF SetCall, CallsTyped
    <3>3. CallsFlow(p)'
      BY <2>1, <3>1, <3>2 DEF CallsFlow, Quiet, Calling
    <3> QED
      BY <2>1, <3>1, <3>2, <3>3, FlowFrame
  <2> QED
    BY <1>1, <2>2, <2>3 DEF Ensure
<1>2. CASE Outside(p) \/ Deployed(p) \/ ReadAgain(p) \/ ManifestWritten(p) \/ Truncate(p) \/ Fill(p)
  <2>1. Quiet(p) /\ call' = call /\ flight' = flight
    BY <1>0, <1>2 DEF Outside, Deployed, ReadAgain, ManifestWritten, Truncate, Fill, CallsFlow,
                      Calling
  <2>2. flight[p].pc = "none"
    BY <1>0, <2>1 DEF CallsFlow, Quiet
  <2>3. /\ proc'[p].pc # "ensure"
        /\ \A q \in Procs \ {p} : proc'[q] = proc[q]
    BY <1>0, <1>2 DEF Outside, Deployed, ReadAgain, ManifestWritten, Truncate, Fill, Step, ProcState
  <2>4. CallsFlow(p)'
    BY <2>1, <2>2, <2>3 DEF CallsFlow, Quiet
  <2> QED
    BY <2>1, <2>3, <2>4, FlowFrame
<1>3. CASE Fail(p) \/ Kill(p)
  <2>1. /\ call' = [call EXCEPT ![p] = [c \in Calls |-> NoCall]]
        /\ \E x \in {"failed", "killed"} : Step(p, x)
        /\ flight'[p].pc = "none" /\ \A q \in Procs \ {p} : flight'[q] = flight[q]
    BY <1>3, FlightEnds DEF Fail, Kill
  <2>2. /\ \A c \in Calls : call'[p][c].pc = "idle"
        /\ \A q \in Procs \ {p} : call'[q] = call[q]
    BY <2>1 DEF CallsTyped, NoCall
  <2>3. proc'[p].pc # "ensure" /\ \A q \in Procs \ {p} : proc'[q] = proc[q]
    BY <1>0, <2>1 DEF Step, ProcState
  <2>4. CallsFlow(p)'
    BY <2>1, <2>2, <2>3 DEF CallsFlow, Quiet
  <2> QED
    BY <2>1, <2>2, <2>3, <2>4, FlowFrame
<1> QED
  BY <1>1, <1>2, <1>3

LEMMA FlowInit == ConfigInit => FlowInv
<1> SUFFICES ASSUME ConfigInit, NEW p \in Procs PROVE CallsFlow(p)
  BY DEF FlowInv
<1>1. proc[p].pc = "start"
  BY DEF ConfigInit
<1>2. \A c \in Calls : call[p][c].pc = "idle"
  BY DEF ConfigInit, NoCall
<1>3. flight[p].pc = "none"
  BY DEF ConfigInit, NoFlight
<1> QED
  BY <1>1, <1>2, <1>3 DEF CallsFlow, Quiet

LEMMA FlowStep ==
    ASSUME ConfigTyped, FlowInv, [ConfigNext]_configVars
    PROVE  FlowInv'
<1> USE DEF FlowInv, CallsFlow, Calling, Quiet
<1>1. CASE UNCHANGED configVars
  BY <1>1 DEF configVars
<1>2. ASSUME NEW n \in 1..MaxTokens, Age(n) PROVE FlowInv'
  BY <1>2 DEF Age
<1> HIDE DEF FlowInv, CallsFlow, Calling, Quiet
<1> QED
  BY <1>1, <1>2, CallActionsFlow, RefreshActionsFlow, CommandsFlow DEF ConfigNext

-----------------------------------------------------------------------------
(***************************************************************************)
(* As long as no rewrite has begun during another and none was cut short,  *)
(* one process at most has read what it will rewrite, so what it has read  *)
(* still is what the config should be; and the refresh token which that    *)
(* names is spent by nobody but the refresh that replaces it.              *)
(***************************************************************************)
\* A login that has its token and has not stored it.
Holds(p)   == proc[p].cmd = "login" /\ proc[p].pc \in {"read", "truncate", "fill"}
Landing(p) == flight[p].pc \in {"truncate", "fill"}
Filling(p) == proc[p].pc = "fill" \/ flight[p].pc = "fill"
Busy(p)    == Rewrites(p) \/ Refreshes(p)

OneRewriter ==
    /\ \A p, q \in Procs : Busy(p) /\ Busy(q) => p = q
    /\ \A p \in Procs : ~(Rewrites(p) /\ Refreshes(p))
BasesKept ==
    /\ \A p \in Procs : Rewrites(p) => proc[p].base = should
    /\ \A p \in Procs : flight[p].pc = "refresh" => flight[p].base = should
    /\ \A p \in Procs : Landing(p) =>
          /\ flight[p].base = [should EXCEPT !.cf = flight[p].base.cf]
          /\ flight[p].base.cf.refresh \in live
FileKept ==
    /\ (\E p \in Procs : Filling(p)) => config = File!Truncated
    /\ (\A p \in Procs : ~Filling(p)) => config = File!Stored(should)
TokenKept ==
    \/ should.cf = None
    \/ /\ should.cf.refresh \in 1..issued
       /\ should.cf.refresh \in live \/ \E p \in Procs : Landing(p)
LoginsKept ==
    \A p \in Procs : Holds(p) =>
        /\ proc[p].got \in live
        /\ should.cf # None => should.cf.refresh # proc[p].got
        /\ \A q \in Procs : Landing(q) => flight[q].base.cf.refresh # proc[p].got
        /\ \A q \in Procs \ {p} : Holds(q) => proc[q].got # proc[p].got

Kept    == OneRewriter /\ BasesKept /\ FileKept /\ TokenKept /\ LoginsKept
KeptInv == ~clash /\ ~hurt => Kept

\* A process that rewrites nothing more than it did, and holds no other login.
Calm(p) ==
    /\ (proc'[p].pc = "fill") = (proc[p].pc = "fill")
    /\ Rewrites(p)' => Rewrites(p) /\ proc'[p].base = proc[p].base
    /\ Holds(p)' => Holds(p) /\ proc'[p].got = proc[p].got
CalmFlight(p) ==
    \/ flight'[p] = flight[p]
    \/ flight[p].pc \in {"none", "reread", "refresh"} /\ flight'[p].pc \in {"none", "reread"}

LEMMA KeptFrame ==
    ASSUME Kept, config' = config, should' = should, live' = live, issued' = issued,
           \A p \in Procs : Calm(p) /\ CalmFlight(p)
    PROVE  Kept'
<1>1. \A p \in Procs : /\ Landing(p)' = Landing(p)
                       /\ Landing(p) => flight'[p] = flight[p]
                       /\ Filling(p)' = Filling(p)
                       /\ Refreshes(p)' => Refreshes(p)
                       /\ flight'[p].pc = "refresh" => flight'[p] = flight[p]
  BY DEF Landing, Filling, Refreshes, Calm, CalmFlight
<1>2. \A p \in Procs : Busy(p)' => Busy(p)
  BY <1>1 DEF Busy, Calm
<1>3. OneRewriter'
  BY <1>1, <1>2 DEF Kept, OneRewriter, Calm
<1>4. BasesKept'
  BY <1>1 DEF Kept, BasesKept, Calm
<1>5. FileKept' /\ TokenKept'
  BY <1>1 DEF Kept, FileKept, TokenKept
<1>6. LoginsKept'
  BY <1>1 DEF Kept, LoginsKept, Calm
<1> QED
  BY <1>3, <1>4, <1>5, <1>6 DEF Kept

\* At most one command changes, and does not write.
LEMMA KeptQuiet ==
    ASSUME Kept, NEW p \in Procs, config' = config, should' = should, live' = live,
           issued' = issued, \A q \in Procs \ {p} : proc'[q] = proc[q] /\ flight'[q] = flight[q],
           Calm(p), CalmFlight(p)
    PROVE  Kept'
<1>1. \A q \in Procs : Calm(q) /\ CalmFlight(q)
  BY DEF Calm, CalmFlight, Rewrites, Holds
<1> QED
  BY <1>1, KeptFrame

\* The refresh of p is broken off, before it has got tokens.
LEMMA KeptBroken ==
    ASSUME ConfigTyped, FlowInv, Kept, NEW p \in Procs, Broken(p),
           flight[p].pc \in {"reread", "refresh"},
           config' = config, should' = should, live' = live, issued' = issued
    PROVE  Kept'
<1> USE DEF ConfigTyped
<1>1. Calling(p)
  BY FlightIsCalled
<1>2. flight'[p].pc = "none" /\ \A q \in Procs \ {p} : flight'[q] = flight[q]
  BY FlightEnds DEF Broken
<1>3. proc' = proc \/ Step(p, "failed")
  BY BrokenFlow
<1>4. /\ \A q \in Procs \ {p} : proc'[q] = proc[q]
      /\ proc'[p] = proc[p] \/ proc'[p].pc = "failed"
  BY <1>3 DEF Step, ProcsTyped, ProcState
<1>5. Calm(p)
  BY <1>1, <1>4 DEF Calm, Calling, Rewrites, Holds
<1> QED
  BY <1>2, <1>4, <1>5, KeptQuiet DEF CalmFlight

LEMMA KeptCallActions ==
    ASSUME ConfigTyped, FlowInv, Kept, NEW p \in Procs, NEW c \in Calls,
           Begin(p, c) \/ Resolve(p, c) \/ Request(p, c) \/ Ensured(p, c)
    PROVE  Kept'
<1> USE DEF ConfigTyped
<1>1. config' = config /\ should' = should /\ live' = live /\ issued' = issued
  BY DEF Begin, Resolve, Request, Ensured, cloudflare, history
<1>2. CalmFlight(p) /\ \A q \in Procs \ {p} : flight'[q] = flight[q]
  BY DEF Begin, Resolve, Request, Ensured, FlightsTyped, CalmFlight
<1>3. /\ \A q \in Procs \ {p} : proc'[q] = proc[q]
      /\ proc'[p] = proc[p] \/ (proc[p].pc = "ensure" /\ proc'[p].pc \in {"calls", "failed"})
  BY DEF Begin, Resolve, Request, Ensured, ProcsTyped, ProcState, Step
<1>4. Calm(p)
  BY <1>3 DEF Calm, Rewrites, Holds
<1> QED
  BY <1>1, <1>2, <1>3, <1>4, KeptQuiet

LEMMA KeptCommands ==
    ASSUME ConfigTyped, FlowInv, Kept, NEW p \in Procs, ~hurt',
           \/ Ensure(p) \/ (Outside(p) /\ UNCHANGED issued) \/ Deployed(p) \/ ManifestWritten(p)
           \/ Fail(p) \/ Kill(p)
    PROVE  Kept'
<1> USE DEF ConfigTyped
<1>0. proc \in [Procs -> ProcState] /\ proc[p] \in ProcState /\ HasGot(proc[p])
  BY DEF ProcsTyped
<1>1. config' = config /\ should' = should /\ live' = live /\ issued' = issued
  <2>1. issued \in Nat
    BY ConfigAssumption DEF CloudTyped, Tokens
  <2> QED
    BY <2>1 DEF Ensure, Outside, Deployed, ManifestWritten, Fail, Kill, cloudflare, history
<1>2. CASE \/ Ensure(p) \/ (Outside(p) /\ UNCHANGED issued)
           \/ Deployed(p) \/ ManifestWritten(p) \/ Fail(p)
  <2>1. flight' = flight
    BY <1>2 DEF Ensure, Outside, Deployed, ManifestWritten, Fail
  <2>2. /\ \A q \in Procs \ {p} : proc'[q] = proc[q]
        /\ proc'[p].base = proc[p].base /\ proc'[p].cmd = proc[p].cmd
        /\ proc'[p].got = proc[p].got
        /\ \/ proc'[p].pc \in {"failed", "ensure"} /\ proc[p].pc # "fill"
           \/ proc'[p].pc = "read" /\ proc[p].cmd # "login" /\ proc[p].pc # "fill"
           \/ proc'[p].pc = "truncate" /\ proc[p].pc = "manifest"
    <3>1. CASE Ensure(p)
      BY <1>0, <3>1 DEF Ensure, Step, ProcState
    <3>2. CASE Outside(p) /\ UNCHANGED issued
      <4>1. issued \in Nat
        BY ConfigAssumption DEF CloudTyped, Tokens
      <4>2. /\ proc[p].pc = "start"
            /\ \/ Step(p, "failed")
               \/ proc[p].cmd = "pair" /\ Step(p, "read")
        BY <3>2, <4>1 DEF Outside
      <4> QED
        BY <1>0, <4>2 DEF Step, ProcState
    <3>3. CASE Deployed(p)
      BY <1>0, <3>3 DEF Deployed, Step, ProcState, HasGot
    <3>4. CASE ManifestWritten(p)
      BY <1>0, <3>4 DEF ManifestWritten, Step, ProcState
    <3>5. CASE Fail(p)
      BY <1>0, <3>5 DEF Fail, Step, ProcState
    <3> QED
      BY <1>2, <3>1, <3>2, <3>3, <3>4, <3>5
  <2>3. Calm(p)
    BY <1>0, <2>2 DEF Calm, Rewrites, Holds, HasGot
  <2> QED
    BY <1>1, <2>1, <2>2, <2>3, KeptQuiet DEF CalmFlight
<1>3. CASE Kill(p)
  <2>1. /\ proc[p].pc # "fill" /\ flight[p].pc \notin {"truncate", "fill"}
        /\ Step(p, "killed")
    BY <1>3 DEF Kill
  <2>2. flight'[p].pc = "none" /\ \A q \in Procs \ {p} : flight'[q] = flight[q]
    BY <1>3, FlightEnds DEF Kill
  <2>3. proc'[p].pc = "killed" /\ \A q \in Procs \ {p} : proc'[q] = proc[q]
    BY <1>0, <2>1 DEF Step, ProcState
  <2>4. Calm(p)
    BY <2>1, <2>3 DEF Calm, Rewrites, Holds
  <2>5. CalmFlight(p)
    BY <2>1, <2>2 DEF CalmFlight, FlightsTyped, FlightState, FlightPcs
  <2> QED
    BY <1>1, <2>2, <2>3, <2>4, <2>5, KeptQuiet
<1> QED
  BY <1>2, <1>3

\* While nobody rewrites the config, a reader finds what it should be.
LEMMA IdleReads ==
    ASSUME ConfigTyped, Kept, ~UnderWay
    PROVE  /\ Now = should /\ config = File!Stored(should)
           /\ \A p \in Procs : ~Busy(p) /\ ~Landing(p) /\ ~Filling(p)
<1>1. \A p \in Procs : ~Busy(p) /\ ~Landing(p) /\ ~Filling(p)
  BY DEF UnderWay, Busy, Landing, Filling, Rewrites, Refreshes
<1>2. config = File!Stored(should)
  BY <1>1 DEF Kept, FileKept
<1> QED
  BY <1>1, <1>2 DEF Now, File!Read, File!Stored, File!Unreadable

\* A refresh begins with the config it has read.
LEMMA KeptReread ==
    ASSUME ConfigTyped, FlowInv, Kept, NEW p \in Procs, Reread(p), ~clash'
    PROVE  Kept'
<1> USE DEF ConfigTyped
<1>1. /\ config' = config /\ should' = should /\ live' = live /\ issued' = issued
      /\ flight[p].pc = "reread"
  BY DEF Reread, cloudflare
<1>2. CASE Broken(p)
  BY <1>1, <1>2, KeptBroken
<1>3. CASE Landed(p, Now.cf.access) /\ UNCHANGED <<proc, clash>>
  <2>1. flight'[p].pc = "none" /\ \A q \in Procs \ {p} : flight'[q] = flight[q]
    BY <1>3, FlightEnds DEF Landed
  <2> QED
    BY <1>1, <1>3, <2>1, KeptQuiet DEF Calm, CalmFlight, Rewrites, Holds
<1>4. CASE /\ Now.cf # None
           /\ flight' = [flight EXCEPT ![p].pc = "refresh", ![p].base = Now]
           /\ clash' = (clash \/ UnderWay)
           /\ UNCHANGED <<proc, call>>
  <2>1. /\ Now = should /\ config = File!Stored(should)
        /\ \A q \in Procs : ~Busy(q) /\ ~Landing(q) /\ ~Filling(q)
    BY <1>4, IdleReads
  <2>2. /\ flight'[p].pc = "refresh" /\ flight'[p].base = Now
        /\ \A q \in Procs \ {p} : flight'[q] = flight[q]
    BY <1>4 DEF FlightsTyped, FlightState
  <2>3. /\ \A q \in Procs : ~Rewrites(q)' /\ ~Landing(q)' /\ ~Filling(q)'
        /\ \A q \in Procs \ {p} : ~Refreshes(q)' /\ flight'[q].pc # "refresh"
    BY <1>4, <2>1, <2>2 DEF Busy, Rewrites, Refreshes, Landing, Filling
  <2>4. OneRewriter'
    BY <2>3 DEF OneRewriter, Busy
  <2>5. BasesKept'
    BY <1>1, <2>1, <2>2, <2>3 DEF BasesKept
  <2>6. FileKept' /\ TokenKept' /\ LoginsKept'
    BY <1>1, <1>4, <2>1, <2>3 DEF Kept, FileKept, TokenKept, LoginsKept, Holds
  <2> QED
    BY <2>4, <2>5, <2>6 DEF Kept
<1> QED
  BY <1>2, <1>3, <1>4 DEF Reread

\* Cloudflare replaces the refresh token, and the rewrite has the new one.
LEMMA KeptRefresh ==
    ASSUME ConfigTyped, FlowInv, Kept, NEW p \in Procs, Refresh(p), ~hurt'
    PROVE  Kept'
<1> USE DEF ConfigTyped
<1> DEFINE cf == flight[p].base.cf
           n  == issued + 1
<1>1. /\ config' = config /\ should' = should /\ flight[p].pc = "refresh"
      /\ flight[p] \in FlightState /\ cf \in Logins /\ issued \in Nat
  BY ConfigAssumption DEF Refresh, FlightsTyped, HasLogin, CloudTyped, Tokens
<1>2. CASE Broken(p) /\ UNCHANGED <<issued, live, hurt>>
  BY <1>1, <1>2, KeptBroken
<1>3. CASE ~(Broken(p) /\ UNCHANGED <<issued, live, hurt>>)
  <2>1. PICK rotated \in BOOLEAN :
           /\ cf.refresh \in live /\ issued' = n /\ issued < MaxTokens
           /\ live' = IF rotated THEN (live \ {cf.refresh}) \union {n} ELSE live
           /\ flight' = [flight EXCEPT
                 ![p].pc = "truncate",
                 ![p].base = [@ EXCEPT !.cf = Refreshed(cf, n, rotated)]]
           /\ UNCHANGED <<proc, call>>
    BY <1>3 DEF Refresh
  <2> DEFINE cf2 == Refreshed(cf, n, rotated)
  <2>2. n \in 1..MaxTokens
    BY <1>1, <2>1, ConfigAssumption
  <2>3. cf2 \in Logins /\ cf2.refresh = IF rotated THEN n ELSE cf.refresh
    BY <1>1, <2>2, RefreshedTyped DEF Refreshed
  <2>4. flight[p].base = should /\ should \in Configs
    BY <1>1 DEF Kept, BasesKept, PastTyped
  <2> HIDE DEF cf2
  <2>5. /\ flight'[p].pc = "truncate"
        /\ flight'[p].base = [should EXCEPT !.cf = cf2]
        /\ \A q \in Procs \ {p} : flight'[q] = flight[q]
    BY <1>1, <2>1, <2>4 DEF FlightsTyped, FlightState, cf2
  <2>6. flight'[p].base.cf = cf2
    BY <2>4, <2>5 DEF Configs
  <2>7. \A q \in Procs : q # p => ~Busy(q) /\ ~Landing(q)
    BY <1>1 DEF Kept, OneRewriter, Busy, Refreshes, Landing
  <2>8. \A q \in Procs : ~Rewrites(q) /\ ~Filling(q)
    BY <1>1, <2>7 DEF Kept, OneRewriter, Busy, Refreshes, Filling, Rewrites
  <2>9. /\ \A q \in Procs : ~Rewrites(q)' /\ ~Filling(q)'
        /\ \A q \in Procs : q # p => ~Refreshes(q)' /\ ~Landing(q)' /\ flight'[q].pc # "refresh"
        /\ Landing(p)' /\ flight'[p].pc # "refresh"
    BY <2>1, <2>5, <2>7, <2>8 DEF Busy, Rewrites, Refreshes, Landing, Filling
  <2>10. OneRewriter'
    BY <2>9 DEF OneRewriter, Busy
  <2>11. cf2.refresh \in live'
    BY <2>1, <2>3
  <2>12. BasesKept'
    BY <1>1, <2>5, <2>6, <2>9, <2>11 DEF BasesKept
  <2>13. FileKept'
    BY <1>1, <2>8, <2>9 DEF Kept, FileKept
  <2>14. TokenKept'
    BY <1>1, <2>1, <2>9 DEF Kept, TokenKept
  <2>15. LoginsKept'
    <3> SUFFICES ASSUME NEW q \in Procs, Holds(q)
                 PROVE  /\ proc[q].got \in live'
                        /\ should.cf # None => should.cf.refresh # proc[q].got
                        /\ cf2.refresh # proc[q].got
                        /\ \A r \in Procs \ {q} : Holds(r) => proc[r].got # proc[q].got
      BY <1>1, <2>1, <2>6, <2>9 DEF LoginsKept, Holds
    <3>1. /\ proc[q].got \in live
          /\ should.cf # None => should.cf.refresh # proc[q].got
          /\ \A r \in Procs \ {q} : Holds(r) => proc[r].got # proc[q].got
      BY DEF Kept, LoginsKept
    <3>2. should.cf = cf /\ cf # None
      BY <1>1, <2>4, ConfigBlanks
    <3>3. proc[q].got \in 1..issued
      BY <3>1 DEF CloudTyped
    <3>4. proc[q].got # n
      BY <1>1, <3>3
    <3> QED
      BY <2>1, <2>3, <3>1, <3>2, <3>4
  <2> QED
    BY <2>10, <2>12, <2>13, <2>14, <2>15 DEF Kept
<1> QED
  BY <1>2, <1>3

\* What is written after a truncation of one's own is what is there.
LEMMA FillsTruncated ==
    ASSUME NEW v, NEW to \in File!Filled(File!Truncated, v)
    PROVE  to = File!Stored(v)
BY DEF File!Filled, File!Truncated

\* Nobody but p rewrites the config.
LEMMA OnlyOneBusy ==
    ASSUME Kept, NEW p \in Procs, Busy(p)
    PROVE  /\ \A q \in Procs : q # p => ~Busy(q) /\ ~Landing(q) /\ ~Filling(q) /\ ~Rewrites(q)
                                        /\ ~Refreshes(q) /\ flight[q].pc # "refresh"
           /\ Refreshes(p) => ~Rewrites(p) /\ proc[p].pc # "fill"
           /\ Rewrites(p) => ~Refreshes(p) /\ ~Landing(p) /\ flight[p].pc \notin {"refresh", "fill"}
BY DEF Kept, OneRewriter, Busy, Landing, Filling, Rewrites, Refreshes

LEMMA KeptTruncateLogin ==
    ASSUME ConfigTyped, Kept, NEW p \in Procs, TruncateLogin(p)
    PROVE  Kept'
<1> USE DEF ConfigTyped
<1>1. /\ flight[p].pc = "truncate" /\ flight[p] \in FlightState
      /\ config' = File!Truncated /\ proc' = proc /\ should' = should
      /\ live' = live /\ issued' = issued
  BY DEF TruncateLogin, FlightsTyped, cloudflare, history
<1>2. /\ flight'[p].pc = "fill" /\ flight'[p].base = flight[p].base
      /\ \A q \in Procs \ {p} : flight'[q] = flight[q]
  BY DEF TruncateLogin, FlightsTyped, FlightState
<1>3. Busy(p) /\ Refreshes(p) /\ Landing(p)
  BY <1>1 DEF Busy, Refreshes, Landing
<1>4. /\ \A q \in Procs : q # p => ~Busy(q) /\ ~Landing(q) /\ ~Filling(q) /\ ~Rewrites(q)
                                   /\ ~Refreshes(q) /\ flight[q].pc # "refresh"
      /\ ~Rewrites(p) /\ proc[p].pc # "fill"
  BY <1>3, OnlyOneBusy
<1>5. /\ \A q \in Procs : q # p =>
            ~Busy(q)' /\ ~Landing(q)' /\ ~Filling(q)' /\ flight'[q].pc # "refresh"
      /\ \A q \in Procs : ~Rewrites(q)'
      /\ Landing(p)' /\ Filling(p)' /\ flight'[p].pc # "refresh"
  BY <1>1, <1>2, <1>4 DEF Busy, Rewrites, Refreshes, Landing, Filling
<1>6. OneRewriter'
  BY <1>5 DEF OneRewriter
<1>7. BasesKept'
  BY <1>1, <1>2, <1>3, <1>5 DEF Kept, BasesKept
<1>8. FileKept' /\ TokenKept'
  BY <1>1, <1>5 DEF Kept, FileKept, TokenKept
<1>9. LoginsKept'
  BY <1>1, <1>2, <1>3, <1>5 DEF Kept, LoginsKept, Holds
<1> QED
  BY <1>6, <1>7, <1>8, <1>9 DEF Kept

\* Nobody rewrites the config any more, and it is what it should be.
LEMMA KeptWritten ==
    ASSUME config' = File!Stored(should'), \A q \in Procs : ~Busy(q)',
           TokenKept', LoginsKept'
    PROVE  Kept'
<1>1. /\ \A q \in Procs : ~Rewrites(q)' /\ ~Refreshes(q)' /\ ~Landing(q)' /\ ~Filling(q)'
      /\ \A q \in Procs : flight'[q].pc # "refresh"
  BY DEF Busy, Rewrites, Refreshes, Landing, Filling
<1>2. OneRewriter' /\ BasesKept' /\ FileKept'
  BY <1>1 DEF OneRewriter, BasesKept, FileKept
<1> QED
  BY <1>2 DEF Kept

LEMMA KeptFillLogin ==
    ASSUME ConfigTyped, Kept, NEW p \in Procs, FillLogin(p)
    PROVE  Kept'
<1> USE DEF ConfigTyped
<1> DEFINE base == flight[p].base
<1>1. /\ flight[p].pc = "fill" /\ flight[p] \in FlightState /\ base \in Configs
      /\ base.cf \in Logins /\ Landed(p, base.cf.access)
      /\ config' \in File!Filled(config, base) /\ should' = [should EXCEPT !.cf = base.cf]
      /\ proc' = proc /\ live' = live /\ issued' = issued
  BY DEF FillLogin, FlightsTyped, FlightState, HasLogin, cloudflare
<1>2. flight'[p].pc = "none" /\ \A q \in Procs \ {p} : flight'[q] = flight[q]
  BY <1>1, FlightEnds DEF Landed
<1>3. Busy(p) /\ Refreshes(p) /\ Landing(p) /\ Filling(p)
  BY <1>1 DEF Busy, Refreshes, Landing, Filling
<1>4. /\ \A q \in Procs : q # p => ~Busy(q)
      /\ ~Rewrites(p)
  BY <1>3, OnlyOneBusy
<1>5. \A q \in Procs : ~Busy(q)'
  BY <1>1, <1>2, <1>4 DEF Busy, Rewrites, Refreshes
<1>6. config' = File!Stored(should') /\ should'.cf = base.cf /\ base.cf.refresh \in live
  <2>1. config = File!Truncated
    BY <1>3 DEF Kept, FileKept
  <2>2. base = [should EXCEPT !.cf = base.cf] /\ base.cf.refresh \in live
    BY <1>3 DEF Kept, BasesKept
  <2>3. config' = File!Stored(base)
    BY <1>1, <2>1, FillsTruncated
  <2>4. should'.cf = base.cf
    BY <1>1 DEF PastTyped, Configs
  <2> QED
    BY <1>1, <2>2, <2>3, <2>4
<1>7. TokenKept'
  BY <1>1, <1>6 DEF TokenKept, CloudTyped
<1>8. LoginsKept'
  <2>1. \A q \in Procs : ~Landing(q)'
    BY <1>5 DEF Busy, Refreshes, Landing
  <2> QED
    BY <1>1, <1>3, <1>6, <2>1 DEF Kept, LoginsKept, Holds
<1> QED
  BY <1>5, <1>6, <1>7, <1>8, KeptWritten

\* A browser login gets a token that nobody has.
LEMMA KeptLogin ==
    ASSUME ConfigTyped, Kept, NEW p \in Procs, Outside(p), issued' # issued
    PROVE  Kept'
<1> USE DEF ConfigTyped
<1>1. /\ proc[p].pc = "start" /\ proc[p].cmd = "login"
      /\ issued' = issued + 1 /\ live' = live \union {issued + 1}
      /\ proc' = [proc EXCEPT ![p].pc = "read", ![p].got = issued + 1]
      /\ config' = config /\ flight' = flight /\ should' = should
      /\ issued \in Nat
  BY ConfigAssumption DEF Outside, history, CloudTyped, Tokens
<1>2. /\ proc'[p].pc = "read" /\ proc'[p].got = issued + 1
      /\ \A q \in Procs \ {p} : proc'[q] = proc[q]
  BY <1>1 DEF ProcsTyped, ProcState
<1>3. /\ \A q \in Procs : Rewrites(q)' => Rewrites(q) /\ proc'[q] = proc[q]
      /\ \A q \in Procs : Filling(q)' = Filling(q) /\ Landing(q)' = Landing(q)
      /\ \A q \in Procs : Refreshes(q)' = Refreshes(q)
      /\ \A q \in Procs : Holds(q)' => q = p \/ Holds(q)
  BY <1>1, <1>2 DEF Rewrites, Filling, Landing, Refreshes, Holds
<1>4. OneRewriter'
  BY <1>3 DEF Kept, OneRewriter, Busy
<1>5. BasesKept'
  BY <1>1, <1>3 DEF Kept, BasesKept
<1>6. FileKept'
  BY <1>1, <1>3 DEF Kept, FileKept
<1>7. 1..issued \subseteq 1..issued' /\ issued + 1 \notin 1..issued
  BY <1>1
<1>8. TokenKept'
  BY <1>1, <1>3, <1>7 DEF Kept, TokenKept
<1>9. LoginsKept'
  <2>1. should.cf # None => should.cf.refresh # issued + 1
    BY <1>7 DEF Kept, TokenKept
  <2>2. \A q \in Procs : Landing(q) => flight[q].base.cf.refresh # issued + 1
    BY <1>7 DEF Kept, BasesKept, CloudTyped
  <2>3. \A q \in Procs : Holds(q) => proc[q].got # issued + 1
    BY <1>7 DEF Kept, LoginsKept, CloudTyped
  <2>4. \A q \in Procs : Landing(q)' => flight'[q] = flight[q] /\ Landing(q)
    BY <1>1, <1>3
  <2>5. ASSUME NEW q \in Procs \ {p}, Holds(q)'
        PROVE  /\ Holds(q) /\ proc'[q].got = proc[q].got /\ proc'[q].got # issued + 1
               /\ proc'[q].got \in live'
    <3>1. proc'[q] = proc[q] /\ Holds(q)
      BY <1>2, <2>5 DEF Holds
    <3>2. proc[q].got \in live
      BY <3>1 DEF Kept, LoginsKept
    <3>3. proc[q].got \in live'
      BY <1>1, <3>2
    <3>4. proc[q].got # issued + 1
      BY <2>3, <3>1
    <3> QED
      BY <3>1, <3>3, <3>4
  <2>6. ASSUME NEW q \in Procs, Holds(q)'
        PROVE  /\ proc'[q].got \in live'
               /\ should'.cf # None => should'.cf.refresh # proc'[q].got
               /\ \A r \in Procs : Landing(r)' => flight'[r].base.cf.refresh # proc'[q].got
    <3>1. CASE q = p
      <4>1. proc'[q].got = issued + 1 /\ issued + 1 \in live' /\ should' = should
        BY <1>1, <1>2, <3>1
      <4>2. ASSUME NEW r \in Procs, Landing(r)'
            PROVE  flight'[r].base.cf.refresh # issued + 1
        BY <2>2, <2>4, <4>2
      <4> QED
        BY <2>1, <4>1, <4>2
    <3>2. CASE q # p
      <4>1. Holds(q) /\ proc'[q].got = proc[q].got /\ proc'[q].got \in live'
        BY <2>5, <2>6, <3>2
      <4>2. should'.cf # None => should'.cf.refresh # proc'[q].got
        BY <1>1, <4>1 DEF Kept, LoginsKept
      <4>3. ASSUME NEW r \in Procs, Landing(r)'
            PROVE  flight'[r].base.cf.refresh # proc'[q].got
        BY <2>4, <4>1, <4>3 DEF Kept, LoginsKept
      <4> QED
        BY <4>1, <4>2, <4>3
    <3> QED
      BY <3>1, <3>2
  <2>7. ASSUME NEW q \in Procs, NEW r \in Procs \ {q}, Holds(q)', Holds(r)'
        PROVE  proc'[q].got # proc'[r].got
    <3>1. CASE q = p
      BY <1>2, <2>5, <2>7, <3>1
    <3>2. CASE r = p
      BY <1>2, <2>5, <2>7, <3>2
    <3>3. CASE q # p /\ r # p
      BY <2>5, <2>7, <3>3 DEF Kept, LoginsKept
    <3> QED
      BY <3>1, <3>2, <3>3
  <2> QED
    BY <2>6, <2>7 DEF LoginsKept
<1> QED
  BY <1>4, <1>5, <1>6, <1>8, <1>9 DEF Kept

LEMMA KeptReadAgain ==
    ASSUME ConfigTyped, Kept, NEW p \in Procs, ReadAgain(p), ~clash'
    PROVE  Kept'
<1> USE DEF ConfigTyped
<1>1. /\ proc[p].pc = "read" /\ proc[p] \in ProcState
      /\ config' = config /\ flight' = flight /\ should' = should
      /\ live' = live /\ issued' = issued /\ ~UnderWay
  BY DEF ReadAgain, ProcsTyped, cloudflare
<1>2. /\ proc'[p].pc \in {"manifest", "truncate"} /\ proc'[p].base = Now
      /\ proc'[p].cmd = proc[p].cmd /\ proc'[p].got = proc[p].got
      /\ \A q \in Procs \ {p} : proc'[q] = proc[q]
  BY DEF ReadAgain, ProcsTyped, ProcState
<1>3. /\ Now = should
      /\ \A q \in Procs : ~Busy(q) /\ ~Landing(q) /\ ~Filling(q)
  BY <1>1, IdleReads
<1>4. /\ \A q \in Procs :
            ~Refreshes(q)' /\ ~Landing(q)' /\ ~Filling(q)' /\ flight'[q].pc # "refresh"
      /\ \A q \in Procs : q # p => ~Rewrites(q)'
  BY <1>1, <1>2, <1>3 DEF Busy, Rewrites, Refreshes, Landing, Filling
<1>5. OneRewriter' /\ BasesKept'
  BY <1>1, <1>2, <1>3, <1>4 DEF OneRewriter, BasesKept, Busy
<1>6. FileKept' /\ TokenKept'
  BY <1>1, <1>3, <1>4 DEF Kept, FileKept, TokenKept
<1>7. \A q \in Procs : Holds(q)' => Holds(q) /\ proc'[q].got = proc[q].got
  BY <1>1, <1>2 DEF Holds
<1>8. LoginsKept'
  BY <1>1, <1>4, <1>7 DEF Kept, LoginsKept
<1> QED
  BY <1>5, <1>6, <1>8 DEF Kept

LEMMA KeptTruncate ==
    ASSUME ConfigTyped, Kept, NEW p \in Procs, Truncate(p)
    PROVE  Kept'
<1> USE DEF ConfigTyped
<1>1. /\ proc[p].pc = "truncate" /\ proc[p] \in ProcState
      /\ config' = File!Truncated /\ flight' = flight /\ should' = should
      /\ live' = live /\ issued' = issued
  BY DEF Truncate, ProcsTyped, cloudflare, history
<1>2. /\ proc'[p].pc = "fill" /\ proc'[p].base = proc[p].base
      /\ proc'[p].cmd = proc[p].cmd /\ proc'[p].got = proc[p].got
      /\ \A q \in Procs \ {p} : proc'[q] = proc[q]
  BY DEF Truncate, Step, ProcsTyped, ProcState
<1>3. Rewrites(p) /\ Busy(p)
  BY <1>1 DEF Busy, Rewrites
<1>4. /\ \A q \in Procs : q # p => ~Busy(q) /\ ~Filling(q) /\ ~Rewrites(q)
      /\ \A q \in Procs : ~Landing(q) /\ ~Refreshes(q) /\ flight[q].pc # "refresh"
  BY <1>3, OnlyOneBusy
<1>5. /\ \A q \in Procs : q # p => ~Busy(q)' /\ ~Filling(q)' /\ ~Rewrites(q)'
      /\ \A q \in Procs : ~Landing(q)' /\ ~Refreshes(q)' /\ flight'[q].pc # "refresh"
      /\ Filling(p)'
  BY <1>1, <1>2, <1>4 DEF Busy, Rewrites, Refreshes, Landing, Filling
<1>6. OneRewriter'
  BY <1>5 DEF OneRewriter
<1>7. BasesKept'
  BY <1>1, <1>2, <1>3, <1>5 DEF Kept, BasesKept
<1>8. FileKept' /\ TokenKept'
  BY <1>1, <1>4, <1>5 DEF Kept, FileKept, TokenKept
<1>9. \A q \in Procs : Holds(q)' => Holds(q) /\ proc'[q].got = proc[q].got
  BY <1>1, <1>2 DEF Holds
<1>10. LoginsKept'
  BY <1>1, <1>5, <1>9 DEF Kept, LoginsKept
<1> QED
  BY <1>6, <1>7, <1>8, <1>10 DEF Kept

LEMMA KeptFill ==
    ASSUME ConfigTyped, Kept, NEW p \in Procs, Fill(p)
    PROVE  Kept'
<1> USE DEF ConfigTyped
<1>1. /\ proc[p].pc = "fill" /\ proc[p] \in ProcState /\ HasGot(proc[p])
      /\ config' \in File!Filled(config, Rewritten(p, proc[p].base))
      /\ should' = Rewritten(p, should) /\ flight' = flight
      /\ live' = live /\ issued' = issued /\ should \in Configs
  BY DEF Fill, ProcsTyped, PastTyped, cloudflare
<1>2. /\ proc'[p].pc = "done" /\ \A q \in Procs \ {p} : proc'[q] = proc[q]
  BY DEF Fill, Step, ProcsTyped, ProcState
<1>3. Rewrites(p) /\ Busy(p) /\ Filling(p)
  BY <1>1 DEF Busy, Rewrites, Filling
<1>4. /\ \A q \in Procs : q # p => ~Busy(q)
      /\ \A q \in Procs : ~Landing(q) /\ ~Refreshes(q)
  BY <1>3, OnlyOneBusy
<1>5. \A q \in Procs : ~Busy(q)' /\ ~Landing(q)'
  BY <1>1, <1>2, <1>4 DEF Busy, Rewrites, Refreshes, Landing
<1>6. config' = File!Stored(should')
  <2>1. config = File!Truncated /\ proc[p].base = should
    BY <1>3 DEF Kept, FileKept, BasesKept
  <2> QED
    BY <1>1, <2>1, FillsTruncated
<1>7. IF proc[p].cmd = "login"
      THEN /\ should'.cf # None /\ should'.cf.refresh = proc[p].got /\ Holds(p)
      ELSE should'.cf = should.cf
  <2>1. CASE proc[p].cmd = "login"
    <3>1. should'.cf = [access |-> proc[p].got, refresh |-> proc[p].got]
      BY <1>1, <2>1 DEF Rewritten, Configs
    <3>2. [access |-> proc[p].got, refresh |-> proc[p].got] \in Logins
      BY <1>1, <2>1 DEF HasGot, Logins
    <3> QED
      BY <1>1, <2>1, <3>1, <3>2, ConfigBlanks DEF Holds
  <2>2. CASE proc[p].cmd # "login"
    BY <1>1, <2>2 DEF Rewritten, Configs
  <2> QED
    BY <2>1, <2>2
<1>8. TokenKept'
  BY <1>1, <1>4, <1>7 DEF Kept, TokenKept, LoginsKept, CloudTyped
<1>9. LoginsKept'
  <2>1. \A q \in Procs : Holds(q)' => q # p /\ Holds(q) /\ proc'[q].got = proc[q].got
    BY <1>2 DEF Holds
  <2> QED
    BY <1>1, <1>5, <1>7, <2>1 DEF Kept, LoginsKept
<1> QED
  BY <1>5, <1>6, <1>8, <1>9, KeptWritten

LEMMA KeptStep ==
    ASSUME ConfigTyped, FlowInv, KeptInv, [ConfigNext]_configVars
    PROVE  KeptInv'
<1> SUFFICES ASSUME ~clash', ~hurt' PROVE Kept'
  BY DEF KeptInv
<1>1. CASE UNCHANGED configVars
  <2>1. Kept
    BY <1>1 DEF KeptInv, configVars, history
  <2> QED
    BY <1>1, <2>1, KeptFrame DEF configVars, cloudflare, history, Calm, CalmFlight, Rewrites, Holds
<1>2. ASSUME NEW n \in 1..MaxTokens, Age(n) PROVE Kept'
  <2>1. Kept
    BY <1>2 DEF KeptInv, Age, history
  <2> QED
    BY <1>2, <2>1, KeptFrame DEF Age, history, Calm, CalmFlight, Rewrites, Holds
<1>3. ASSUME NEW p \in Procs, NEW c \in Calls,
             Begin(p, c) \/ Resolve(p, c) \/ Request(p, c) \/ Ensured(p, c)
      PROVE  Kept'
  <2>1. Kept
    BY <1>3 DEF KeptInv, Begin, Resolve, Request, Ensured, history
  <2> QED
    BY <1>3, <2>1, KeptCallActions
<1>4. ASSUME NEW p \in Procs,
             \/ Ensure(p) \/ (Outside(p) /\ UNCHANGED issued) \/ Deployed(p)
             \/ ManifestWritten(p) \/ Fail(p) \/ Kill(p)
      PROVE  Kept'
  <2>1. Kept
    BY <1>4 DEF KeptInv, Ensure, Outside, Deployed, ManifestWritten, Fail, Kill, history
  <2> QED
    BY <1>4, <2>1, KeptCommands
<1>5. ASSUME NEW p \in Procs,
             \/ Reread(p) \/ Refresh(p) \/ TruncateLogin(p) \/ FillLogin(p)
             \/ (Outside(p) /\ issued' # issued) \/ ReadAgain(p) \/ Truncate(p) \/ Fill(p)
      PROVE  Kept'
  <2>1. ~clash
    BY <1>5 DEF Reread, Refresh, TruncateLogin, FillLogin, Outside, ReadAgain, Truncate, Fill,
                history
  <2>2. ~hurt
    BY <1>5 DEF Reread, Refresh, TruncateLogin, FillLogin, Outside, ReadAgain, Truncate, Fill,
                history
  <2>3. Kept
    BY <2>1, <2>2 DEF KeptInv
  <2> QED
    BY <1>5, <2>3, KeptReread, KeptRefresh, KeptTruncateLogin, KeptFillLogin, KeptLogin,
       KeptReadAgain, KeptTruncate, KeptFill
<1> QED
  BY <1>1, <1>2, <1>3, <1>4, <1>5 DEF ConfigNext

LEMMA KeptInit == ConfigInit => Kept
<1> SUFFICES ASSUME ConfigInit PROVE Kept
  OBVIOUS
<1>1. /\ config = File!Stored(should) /\ issued = 1 /\ live = {1}
      /\ \A p \in Procs : proc[p].pc = "start" /\ flight[p].pc = "none"
  BY DEF ConfigInit, NoFlight
<1>2. \A p \in Procs : ~Rewrites(p) /\ ~Refreshes(p) /\ ~Landing(p) /\ ~Filling(p) /\ ~Holds(p)
  BY <1>1 DEF Rewrites, Refreshes, Landing, Filling, Holds
<1>3. should.cf = None \/ should.cf.refresh = 1
  BY DEF ConfigInit, Empty
<1>4. TokenKept
  BY <1>1, <1>3 DEF TokenKept
<1> QED
  BY <1>1, <1>2, <1>4 DEF Kept, OneRewriter, BasesKept, FileKept, LoginsKept, Refreshes, Busy

\* The config loses nothing, and names a refresh token that Cloudflare
\* honours, as long as no rewrite began while another one was under way: for
\* any commands, however they interleave otherwise.
THEOREM ConfigKept == CliSpec => []ConfigIsKept
<1>1. ConfigInit => ConfigTyped /\ FlowInv /\ KeptInv
  BY ConfigInitTyped, FlowInit, KeptInit DEF KeptInv
<1>2. ConfigTyped /\ FlowInv /\ KeptInv /\ [ConfigNext]_configVars
        => ConfigTyped' /\ FlowInv' /\ KeptInv'
  BY ConfigTypedStep, FlowStep, KeptStep
<1>3. KeptInv => ConfigIsKept
  BY DEF KeptInv, Kept, FileKept, TokenKept, ConfigIsKept, Filling, Landing
<1> QED
  BY <1>1, <1>2, <1>3, CliIsConfig, PTL DEF ConfigSpec

-----------------------------------------------------------------------------
(***************************************************************************)
(* The grant cache: type correctness.  Whoever is past the config has a    *)
(* request and a device, and what is saved has a time limit.               *)
(***************************************************************************)
RunPcs   == {"start", "lookup", "prune", "pruning", "match", "ask", "save", "truncate", "fill",
             "use"} \union Exited
RunState == [pc     : RunPcs,
             ask    : Asks \union {None},
             worker : Procs \union {None},
             device : Procs \union {None},
             at     : 0..MaxTime,
             seen   : SUBSET Entries,
             grant  : Grants \union {NoGrant},
             hit    : BOOLEAN]

Asking(l) ==
    l.pc \notin {"start"} \union Exited =>
        l.ask \in Asks /\ l.worker \in Procs /\ l.device \in Procs
Limited(l) == l.pc \in {"save", "truncate", "fill"} => l.grant \in Grants /\ l.grant.access # 0

RunTyped(l, t) == l \in RunState /\ Asking(l) /\ Limited(l) /\ l.at <= t

GrantTyped ==
    /\ cache \in File!Files(SUBSET Entries)
    /\ run \in [Runs -> RunState] /\ \A r \in Runs : RunTyped(run[r], now)
    /\ now \in 1..MaxTime
    /\ kept \subseteq Entries

LEMMA GrantTypedOK == GrantTyped => GrantTypeOK
<1> SUFFICES ASSUME GrantTyped PROVE GrantTypeOK
  OBVIOUS
<1>1. ASSUME NEW r \in Runs PROVE run[r] \in RunState /\ run[r].at <= now
  BY <1>1 DEF GrantTyped, RunTyped
<1>2. ASSUME NEW r \in Runs PROVE run[r].at \in 0..now
  BY <1>1, <1>2, GrantAssumption DEF GrantTyped, RunState
<1> QED
  BY <1>1, <1>2 DEF GrantTyped, GrantTypeOK, RunState, RunPcs

LEMMA IdleTyped ==
    ASSUME NEW x \in {"start"} \union Exited, NEW t \in Nat
    PROVE  RunTyped(Idle(x), t) /\ Idle(x).pc = x /\ Idle(x).seen = {} /\ ~Idle(x).hit
<1>1. Idle(x) \in RunState
  BY GrantAssumption DEF Idle, RunState, RunPcs
<1>2. Idle(x).pc = x /\ Idle(x).at = 0 /\ Idle(x).seen = {} /\ ~Idle(x).hit
  BY DEF Idle
<1> QED
  BY <1>1, <1>2 DEF RunTyped, Asking, Limited, Exited

\* One invocation goes on.
LEMMA RunChanges ==
    ASSUME GrantTyped, NEW r \in Runs, NEW l, RunTyped(l, now), Set(r, l),
           cache' \in File!Files(SUBSET Entries), now' = now, kept' \subseteq Entries
    PROVE  GrantTyped' /\ run'[r] = l /\ \A q \in Runs \ {r} : run'[q] = run[q]
<1>1. run' = [run EXCEPT ![r] = l]
  BY DEF Set
<1>2. run'[r] = l /\ \A q \in Runs \ {r} : run'[q] = run[q]
  BY <1>1 DEF GrantTyped
<1>3. run' \in [Runs -> RunState]
  BY <1>1 DEF GrantTyped, RunTyped
<1>4. \A q \in Runs : RunTyped(run'[q], now)
  BY <1>2 DEF GrantTyped
<1> QED
  BY <1>2, <1>3, <1>4 DEF GrantTyped

\* A set of numbers has a least element.
LEMMA LeastNumber ==
    ASSUME NEW S \in SUBSET Nat, S # {}
    PROVE  \E m \in S : \A n \in S : m <= n
<1> DEFINE R == OpToRel(<, Nat)
<1>1. IsWellFoundedOn(R, Nat)
  BY NatLessThanWellFounded
<1>2. \A m, n \in Nat : (<<n, m>> \in R) = (n < m)
  BY DEF OpToRel
<1> HIDE DEF R
<1>3. PICK m \in S : \A n \in S : ~(<<n, m>> \in R)
  BY <1>1, WFMin
<1>4. ASSUME NEW n \in S PROVE m <= n
  <2>1. m \in Nat /\ n \in Nat
    OBVIOUS
  <2>2. ~(n < m)
    BY <1>2, <1>3, <2>1
  <2> QED
    BY <2>1, <2>2
<1> QED
  BY <1>3, <1>4

\* A grant with a time limit makes an entry, which lasts no longer.
LEMMA EntryTyped ==
    ASSUME NEW r \in Runs, run[r] \in RunState, Asking(run[r]), Limited(run[r]),
           run[r].pc \in {"save", "truncate", "fill"}
    PROVE  /\ Entry(r) \in Entries
           /\ Entry(r).worker = run[r].worker /\ Entry(r).device = run[r].device
           /\ Entry(r).grant = run[r].grant
           /\ Entry(r).exp <= run[r].grant.access
<1> DEFINE g == run[r].grant
           m == CHOOSE e \in Expiries(g) : \A f \in Expiries(g) : e <= f
<1>1. /\ run[r].ask \in Asks /\ run[r].worker \in Procs /\ run[r].device \in Procs
      /\ g \in Grants /\ g.access # 0
  BY DEF Asking, Limited, Exited
<1>2. Expiries(g) \in SUBSET Nat /\ g.access \in Expiries(g) /\ 0 \notin Expiries(g)
  BY <1>1, GrantAssumption DEF Expiries
<1>3. m \in Expiries(g) /\ \A f \in Expiries(g) : m <= f
  BY <1>2, LeastNumber
<1>4. Entry(r) = [worker |-> run[r].worker, device |-> run[r].device,
                  keys |-> ResourceKeys(run[r].ask), grant |-> g, exp |-> m]
  BY DEF Entry
<1> HIDE DEF g, m
<1>5. m \in Nat \ {0} /\ m <= g.access
  BY <1>2, <1>3
<1>6. ResourceKeys(run[r].ask) \in SUBSET UNION {ResourceKeys(ask) : ask \in Asks}
  BY <1>1
<1> QED
  BY <1>1, <1>4, <1>5, <1>6 DEF Entries, g

LEMMA GrantInitTyped == GrantInit => GrantTyped
<1> SUFFICES ASSUME GrantInit PROVE GrantTyped
  OBVIOUS
<1>1. cache \in File!Files(SUBSET Entries)
  BY FileWrites DEF GrantInit
<1>2. now \in 1..MaxTime /\ now \in Nat /\ kept = {}
  BY GrantAssumption DEF GrantInit
<1>3. run \in [Runs -> {Idle("start"), Idle("done")}]
  BY DEF GrantInit
<1>4. RunTyped(Idle("start"), now) /\ RunTyped(Idle("done"), now)
  BY <1>2, IdleTyped DEF Exited
<1>5. \A r \in Runs : RunTyped(run[r], now)
  BY <1>3, <1>4
<1>6. run \in [Runs -> RunState]
  BY <1>3, <1>4 DEF RunTyped
<1> QED
  BY <1>1, <1>2, <1>5, <1>6 DEF GrantTyped

\* What an invocation asks for, and for whom, and what it has got.
SameAsk(r) == /\ run'[r].ask = run[r].ask
              /\ run'[r].worker = run[r].worker /\ run'[r].device = run[r].device
Others(r)  == \A q \in Runs \ {r} : run'[q] = run[q]

\* The invocation goes on with what it has.
LEMMA GotoStep ==
    ASSUME GrantTyped, NEW r \in Runs, NEW x \in RunPcs, Goto(r, x),
           run[r].pc \notin {"start"} \union Exited,
           x \in {"save", "truncate", "fill"} => run[r].pc \in {"save", "truncate", "fill"},
           cache' \in File!Files(SUBSET Entries), now' = now, kept' \subseteq Entries
    PROVE  /\ GrantTyped' /\ Others(r) /\ SameAsk(r)
           /\ run'[r].pc = x /\ run'[r].at = run[r].at /\ run'[r].seen = run[r].seen
           /\ run'[r].grant = run[r].grant /\ run'[r].hit = run[r].hit
<1> DEFINE l == [run[r] EXCEPT !.pc = x]
<1>1. RunTyped(run[r], now)
  BY DEF GrantTyped
<1>2. /\ l \in RunState /\ l.pc = x /\ l.ask = run[r].ask /\ l.worker = run[r].worker
      /\ l.device = run[r].device /\ l.at = run[r].at /\ l.seen = run[r].seen
      /\ l.grant = run[r].grant /\ l.hit = run[r].hit
  BY <1>1 DEF RunTyped, RunState
<1>3. Set(r, l)
  BY DEF Goto
<1> HIDE DEF l
<1>4. RunTyped(l, now)
  BY <1>1, <1>2 DEF RunTyped, Asking, Limited
<1> QED
  BY <1>2, <1>3, <1>4, RunChanges DEF Others, SameAsk

\* The invocation ends, in whatever way.
LEMMA EndsStep ==
    ASSUME GrantTyped, NEW r \in Runs, NEW x \in Exited, Ends(r, x),
           cache' = cache, now' = now, kept' = kept
    PROVE  /\ GrantTyped' /\ Others(r)
           /\ run'[r].pc = x /\ run'[r].seen = {} /\ ~run'[r].hit
<1>1. /\ now \in Nat /\ cache' \in File!Files(SUBSET Entries) /\ kept' \subseteq Entries
  BY GrantAssumption DEF GrantTyped
<1>2. RunTyped(Idle(x), now) /\ Idle(x).pc = x /\ Idle(x).seen = {} /\ ~Idle(x).hit
  BY <1>1, IdleTyped
<1> QED
  BY <1>1, <1>2, RunChanges DEF Ends, Others

LEMMA StartStep ==
    ASSUME FileTyped, GrantTyped, NEW r \in Runs, NEW ask \in Asks, Start(r, ask)
    PROVE  /\ GrantTyped' /\ Others(r)
           /\ \/ run'[r].pc = "failed" /\ run'[r].seen = {} /\ ~run'[r].hit
              \/ /\ run'[r].pc = IF ask.cached THEN "lookup" ELSE "ask"
                 /\ run'[r].ask = ask /\ run'[r].seen = run[r].seen /\ run'[r].hit = run[r].hit
<1>1. /\ now' = now /\ cache' = cache /\ kept' = kept
      /\ cache' \in File!Files(SUBSET Entries) /\ kept' \subseteq Entries
  BY DEF Start, grantHistory, GrantTyped
<1>2. CASE Ends(r, "failed")
  BY <1>1, <1>2, EndsStep DEF Exited
<1> DEFINE x == IF ask.cached THEN "lookup" ELSE "ask"
           l == [run[r] EXCEPT !.pc = x, !.ask = ask, !.worker = Now.worker, !.device = Now.device]
<1>3. CASE /\ Now.worker # None /\ Now.device # None
           /\ Set(r, l)
  <2>1. RunTyped(run[r], now)
    BY DEF GrantTyped
  <2>2. Now.worker \in Procs /\ Now.device \in Procs
    BY <1>3, NowTyped DEF Configs
  <2>3. x \in {"lookup", "ask"}
    OBVIOUS
  <2> HIDE DEF x
  <2>4. /\ l \in RunState /\ l.pc = x /\ l.ask = ask /\ l.worker = Now.worker
        /\ l.device = Now.device /\ l.at = run[r].at /\ l.seen = run[r].seen /\ l.hit = run[r].hit
    BY <2>1, <2>2, <2>3 DEF RunTyped, RunState, RunPcs
  <2>5. Set(r, l)
    BY <1>3 DEF x
  <2> HIDE DEF l
  <2>6. RunTyped(l, now)
    BY <2>1, <2>2, <2>3, <2>4 DEF RunTyped, Asking, Limited
  <2> QED
    BY <1>1, <2>4, <2>5, <2>6, RunChanges DEF Others, x
<1> QED
  BY <1>2, <1>3 DEF Start

LEMMA LookupStep ==
    ASSUME GrantTyped, NEW r \in Runs, Lookup(r)
    PROVE  /\ GrantTyped' /\ Others(r) /\ SameAsk(r)
           /\ run'[r].pc = IF Unexpired(File!Read(cache, {}), now) # File!Read(cache, {})
                           THEN "prune" ELSE "match"
           /\ run'[r].seen = Unexpired(File!Read(cache, {}), now)
           /\ run'[r].at = now /\ run'[r].hit = run[r].hit
<1> DEFINE entries == File!Read(cache, {})
           active  == Unexpired(entries, now)
           x       == IF active # entries THEN "prune" ELSE "match"
           l       == [run[r] EXCEPT !.pc = x, !.seen = active, !.at = now]
<1>1. Set(r, l) /\ now' = now /\ cache' = cache /\ kept' = kept /\ run[r].pc = "lookup"
  BY DEF Lookup
<1>2. RunTyped(run[r], now) /\ now \in 0..MaxTime /\ now <= now
  BY GrantAssumption DEF GrantTyped
<1>3. active \in SUBSET Entries
  <2>1. entries \in SUBSET Entries
    BY FileReads DEF GrantTyped
  <2> QED
    BY <2>1 DEF Unexpired
<1>4. x \in {"prune", "match"}
  OBVIOUS
<1> HIDE DEF x, active
<1>5. /\ l \in RunState /\ l.pc = x /\ l.ask = run[r].ask /\ l.worker = run[r].worker
      /\ l.device = run[r].device /\ l.at = now /\ l.seen = active /\ l.hit = run[r].hit
  BY <1>2, <1>3, <1>4 DEF RunTyped, RunState, RunPcs
<1> HIDE DEF l
<1>6. RunTyped(l, now)
  BY <1>1, <1>2, <1>4, <1>5 DEF RunTyped, Asking, Limited, Exited
<1>7. cache' \in File!Files(SUBSET Entries) /\ kept' \subseteq Entries
  BY <1>1 DEF GrantTyped
<1>8. run'[r] = l
  BY <1>1, <1>6, <1>7, RunChanges
<1>9. GrantTyped' /\ Others(r)
  BY <1>1, <1>6, <1>7, RunChanges DEF Others
<1> QED
  BY <1>5, <1>8, <1>9 DEF SameAsk, x, active

LEMMA EmptiesStep ==
    ASSUME GrantTyped, NEW r \in Runs, NEW from, NEW to,
           <<from, to>> \in {<<"prune", "pruning">>, <<"truncate", "fill">>}, Empties(r, from, to)
    PROVE  /\ GrantTyped' /\ Others(r) /\ SameAsk(r)
           /\ run[r].pc = from /\ run'[r].pc = to
           /\ run'[r].at = run[r].at /\ run'[r].seen = run[r].seen
           /\ run'[r].grant = run[r].grant /\ run'[r].hit = run[r].hit
<1>1. /\ run[r].pc = from /\ cache' = File!Truncated /\ Goto(r, to) /\ now' = now /\ kept' = kept
  BY DEF Empties, grantHistory
<1>2. /\ to \in RunPcs /\ run[r].pc \notin {"start"} \union Exited
      /\ to \in {"save", "truncate", "fill"} => run[r].pc \in {"save", "truncate", "fill"}
  BY <1>1 DEF RunPcs, Exited
<1>3. {} \in SUBSET Entries
  OBVIOUS
<1>4. cache' \in File!Files(SUBSET Entries) /\ kept' \subseteq Entries
  BY <1>1, <1>3, FileWrites DEF GrantTyped
<1> QED
  BY <1>1, <1>2, <1>4, GotoStep

LEMMA PruneStep ==
    ASSUME GrantTyped, NEW r \in Runs, Prune(r)
    PROVE  /\ GrantTyped' /\ Others(r) /\ SameAsk(r)
           /\ run[r].pc = "pruning" /\ run'[r].pc = "match"
           /\ run'[r].at = run[r].at /\ run'[r].seen = run[r].seen
           /\ run'[r].grant = run[r].grant /\ run'[r].hit = run[r].hit
<1>1. /\ run[r].pc = "pruning" /\ cache' \in File!Filled(cache, run[r].seen)
      /\ Goto(r, "match") /\ now' = now /\ kept' = kept
  BY DEF Prune, grantHistory
<1>2. run[r].seen \in SUBSET Entries
  BY DEF GrantTyped, RunTyped, RunState
<1>3. cache' \in File!Files(SUBSET Entries) /\ kept' \subseteq Entries
  BY <1>1, <1>2, FileWrites DEF GrantTyped
<1>4. "match" \in RunPcs /\ run[r].pc \notin {"start"} \union Exited
  BY <1>1 DEF RunPcs, Exited
<1> QED
  BY <1>1, <1>3, <1>4, GotoStep

LEMMA HitStep ==
    ASSUME GrantTyped, NEW r \in Runs, NEW e \in Matches(r), run[r].pc = "match",
           Set(r, [run[r] EXCEPT !.pc = "use", !.grant = e.grant, !.hit = TRUE, !.seen = {}]),
           cache' = cache, now' = now, kept' = kept
    PROVE  /\ GrantTyped' /\ Others(r) /\ SameAsk(r)
           /\ run'[r].pc = "use" /\ run'[r].grant = e.grant /\ run'[r].at = run[r].at
           /\ run'[r].seen = {} /\ run'[r].hit
<1> DEFINE l == [run[r] EXCEPT !.pc = "use", !.grant = e.grant, !.hit = TRUE, !.seen = {}]
<1>1. RunTyped(run[r], now)
  BY DEF GrantTyped
<1>2. e.grant \in Grants
  BY <1>1 DEF Matches, RunTyped, RunState, Entries
<1>3. /\ l \in RunState /\ l.pc = "use" /\ l.ask = run[r].ask /\ l.worker = run[r].worker
      /\ l.device = run[r].device /\ l.at = run[r].at /\ l.seen = {} /\ l.grant = e.grant
      /\ l.hit
  BY <1>1, <1>2 DEF RunTyped, RunState, RunPcs
<1>4. Set(r, l)
  OBVIOUS
<1> HIDE DEF l
<1>5. RunTyped(l, now)
  BY <1>1, <1>3 DEF RunTyped, Asking, Limited, Exited
<1>6. cache' \in File!Files(SUBSET Entries) /\ kept' \subseteq Entries
  BY DEF GrantTyped
<1>7. run'[r] = l
  BY <1>4, <1>5, <1>6, RunChanges
<1>8. GrantTyped' /\ Others(r)
  BY <1>4, <1>5, <1>6, RunChanges DEF Others
<1> QED
  BY <1>3, <1>7, <1>8 DEF SameAsk

LEMMA MissStep ==
    ASSUME GrantTyped, NEW r \in Runs, Miss(r)
    PROVE  /\ GrantTyped' /\ Others(r) /\ SameAsk(r)
           /\ run'[r].pc = "ask" /\ run'[r].seen = {} /\ run'[r].hit = run[r].hit
<1> DEFINE l == [run[r] EXCEPT !.pc = "ask", !.seen = {}]
<1>1. RunTyped(run[r], now)
  BY DEF GrantTyped
<1>2. /\ Set(r, l) /\ run[r].pc = "match" /\ cache' = cache /\ now' = now /\ kept' = kept
  BY DEF Miss, grantHistory
<1>3. /\ l \in RunState /\ l.pc = "ask" /\ l.ask = run[r].ask /\ l.worker = run[r].worker
      /\ l.device = run[r].device /\ l.at = run[r].at /\ l.seen = {} /\ l.hit = run[r].hit
  BY <1>1 DEF RunTyped, RunState, RunPcs
<1> HIDE DEF l
<1>4. RunTyped(l, now)
  BY <1>1, <1>2, <1>3 DEF RunTyped, Asking, Limited, Exited
<1>5. cache' \in File!Files(SUBSET Entries) /\ kept' \subseteq Entries
  BY <1>2 DEF GrantTyped
<1>6. run'[r] = l
  BY <1>2, <1>4, <1>5, RunChanges
<1>7. GrantTyped' /\ Others(r)
  BY <1>2, <1>4, <1>5, RunChanges DEF Others
<1> QED
  BY <1>3, <1>6, <1>7 DEF SameAsk

LEMMA ApprovedStep ==
    ASSUME GrantTyped, NEW r \in Runs, NEW g \in Grants, Approved(r, g)
    PROVE  /\ GrantTyped' /\ Others(r)
           /\ \/ run'[r].pc = "failed" /\ run'[r].seen = {} /\ ~run'[r].hit
              \/ /\ SameAsk(r) /\ run'[r].pc \in {"save", "use"} /\ run'[r].grant = g
                 /\ run'[r].seen = run[r].seen /\ run'[r].hit = run[r].hit
<1> DEFINE x == IF g.access > now THEN "save" ELSE "use"
           l == [run[r] EXCEPT !.grant = g, !.pc = x]
<1>1. /\ run[r].pc = "ask" /\ cache' = cache /\ now' = now /\ kept' = kept
      /\ cache' \in File!Files(SUBSET Entries) /\ kept' \subseteq Entries
      /\ Ends(r, "failed") \/ Set(r, l)
  BY DEF Approved, GrantTyped
<1>2. CASE Ends(r, "failed")
  BY <1>1, <1>2, EndsStep DEF Exited
<1>3. CASE Set(r, l)
  <2>1. RunTyped(run[r], now)
    BY DEF GrantTyped
  <2>2. x \in {"save", "use"} /\ (x = "save" => g.access # 0)
    BY GrantAssumption DEF GrantTyped
  <2> HIDE DEF x
  <2>3. /\ l \in RunState /\ l.pc = x /\ l.ask = run[r].ask /\ l.worker = run[r].worker
        /\ l.device = run[r].device /\ l.at = run[r].at /\ l.seen = run[r].seen
        /\ l.grant = g /\ l.hit = run[r].hit
    BY <2>1, <2>2 DEF RunTyped, RunState, RunPcs
  <2>4. Set(r, l)
    BY <1>3
  <2> HIDE DEF l
  <2>5. RunTyped(l, now)
    BY <1>1, <2>1, <2>2, <2>3 DEF RunTyped, Asking, Limited, Exited
  <2>6. run'[r] = l
    BY <1>1, <2>4, <2>5, RunChanges
  <2>7. GrantTyped' /\ Others(r)
    BY <1>1, <2>4, <2>5, RunChanges DEF Others
  <2> QED
    BY <2>2, <2>3, <2>6, <2>7 DEF SameAsk
<1> QED
  BY <1>1, <1>2, <1>3

\* The cache is read to be saved with a new entry.
LEMMA SaveReadStep ==
    ASSUME GrantTyped, NEW r \in Runs, run[r].pc = "save",
           Set(r, [run[r] EXCEPT !.pc = "truncate", !.at = now,
                                 !.seen = With(File!Read(cache, {}), Entry(r), now)]),
           cache' = cache, now' = now, kept' = kept
    PROVE  /\ GrantTyped' /\ Others(r) /\ SameAsk(r)
           /\ run'[r].pc = "truncate" /\ run'[r].at = now
           /\ run'[r].seen = With(File!Read(cache, {}), Entry(r), now)
           /\ run'[r].grant = run[r].grant /\ run'[r].hit = run[r].hit
<1> DEFINE s == With(File!Read(cache, {}), Entry(r), now)
           l == [run[r] EXCEPT !.pc = "truncate", !.at = now, !.seen = s]
<1>1. RunTyped(run[r], now) /\ now \in 0..MaxTime /\ now <= now
  BY GrantAssumption DEF GrantTyped
<1>2. s \in SUBSET Entries
  <2>1. File!Read(cache, {}) \in SUBSET Entries
    BY FileReads DEF GrantTyped
  <2>2. Entry(r) \in Entries
    BY <1>1, EntryTyped DEF RunTyped
  <2> QED
    BY <2>1, <2>2 DEF With, Unexpired
<1>3. Set(r, l)
  OBVIOUS
<1> HIDE DEF s
<1>4. /\ l \in RunState /\ l.pc = "truncate" /\ l.ask = run[r].ask /\ l.worker = run[r].worker
      /\ l.device = run[r].device /\ l.at = now /\ l.seen = s /\ l.grant = run[r].grant
      /\ l.hit = run[r].hit
  BY <1>1, <1>2 DEF RunTyped, RunState, RunPcs
<1> HIDE DEF l
<1>5. RunTyped(l, now)
  BY <1>1, <1>4 DEF RunTyped, Asking, Limited, Exited
<1>6. cache' \in File!Files(SUBSET Entries) /\ kept' \subseteq Entries
  BY DEF GrantTyped
<1>7. run'[r] = l
  BY <1>3, <1>5, <1>6, RunChanges
<1>8. GrantTyped' /\ Others(r)
  BY <1>3, <1>5, <1>6, RunChanges DEF Others
<1> QED
  BY <1>4, <1>7, <1>8 DEF SameAsk, s

LEMMA SaveFillStep ==
    ASSUME GrantTyped, NEW r \in Runs, SaveFill(r)
    PROVE  /\ GrantTyped' /\ Others(r) /\ SameAsk(r)
           /\ run'[r].pc = "use" /\ run'[r].seen = {} /\ run'[r].hit = run[r].hit
<1> DEFINE l == [run[r] EXCEPT !.pc = "use", !.seen = {}]
<1>1. RunTyped(run[r], now)
  BY DEF GrantTyped
<1>2. /\ Set(r, l) /\ run[r].pc = "fill" /\ cache' \in File!Filled(cache, run[r].seen)
      /\ kept' = With(kept, Entry(r), run[r].at) /\ now' = now
  BY DEF SaveFill, With
<1>3. run[r].seen \in SUBSET Entries
  BY <1>1 DEF RunTyped, RunState
<1>4. cache' \in File!Files(SUBSET Entries)
  BY <1>2, <1>3, FileWrites
<1>5. kept' \subseteq Entries
  <2>1. Entry(r) \in Entries
    BY <1>1, <1>2, EntryTyped DEF RunTyped
  <2> QED
    BY <1>2, <2>1 DEF With, Unexpired, GrantTyped
<1>6. /\ l \in RunState /\ l.pc = "use" /\ l.ask = run[r].ask /\ l.worker = run[r].worker
      /\ l.device = run[r].device /\ l.at = run[r].at /\ l.seen = {} /\ l.hit = run[r].hit
  BY <1>1 DEF RunTyped, RunState, RunPcs
<1> HIDE DEF l
<1>7. RunTyped(l, now)
  BY <1>1, <1>2, <1>6 DEF RunTyped, Asking, Limited, Exited
<1>8. run'[r] = l
  BY <1>2, <1>4, <1>5, <1>7, RunChanges
<1>9. GrantTyped' /\ Others(r)
  BY <1>2, <1>4, <1>5, <1>7, RunChanges DEF Others
<1> QED
  BY <1>6, <1>8, <1>9 DEF SameAsk

LEMMA GrantTypedStep ==
    ASSUME FileTyped, GrantTyped, [CliNext]_cliVars
    PROVE  GrantTyped'
<1>1. CASE UNCHANGED grantVars
  BY <1>1 DEF grantVars, grantHistory, GrantTyped
<1>2. CASE Tick
  <2>1. /\ cache' = cache /\ run' = run /\ kept' = kept /\ now' = now + 1 /\ now < MaxTime
    BY <1>2 DEF Tick, grantHistory
  <2>2. now \in Nat /\ now' \in 1..MaxTime
    BY <2>1, GrantAssumption DEF GrantTyped
  <2>3. ASSUME NEW r \in Runs PROVE RunTyped(run[r], now')
    <3>1. RunTyped(run[r], now) /\ run[r].at \in Nat
      BY DEF GrantTyped, RunTyped, RunState
    <3> QED
      BY <2>1, <2>2, <3>1 DEF RunTyped
  <2> QED
    BY <2>1, <2>2, <2>3 DEF GrantTyped
<1>3. ASSUME NEW r \in Runs, NEW ask \in Asks, Start(r, ask) PROVE GrantTyped'
  BY <1>3, StartStep
<1>4. ASSUME NEW r \in Runs, Lookup(r) \/ Prune(r) \/ Miss(r) \/ SaveFill(r) PROVE GrantTyped'
  BY <1>4, LookupStep, PruneStep, MissStep, SaveFillStep
<1>5. ASSUME NEW r \in Runs, Empties(r, "prune", "pruning") \/ Empties(r, "truncate", "fill")
      PROVE GrantTyped'
  BY <1>5, EmptiesStep
<1>6. ASSUME NEW r \in Runs, Hit(r) PROVE GrantTyped'
  <2>1. /\ run[r].pc = "match" /\ cache' = cache /\ now' = now /\ kept' = kept
    BY <1>6 DEF Hit, grantHistory
  <2> QED
    BY <1>6, <2>1, HitStep DEF Hit
<1>7. ASSUME NEW r \in Runs, NEW g \in Grants, Approved(r, g) PROVE GrantTyped'
  BY <1>7, ApprovedStep
<1>8. ASSUME NEW r \in Runs, Refused(r) \/ Use(r) \/ Killed(r) PROVE GrantTyped'
  BY <1>8, EndsStep DEF Refused, Use, Killed, Exited, grantHistory
<1>9. ASSUME NEW r \in Runs, SaveRead(r) PROVE GrantTyped'
  <2>1. /\ run[r].pc = "save" /\ cache' = cache /\ now' = now /\ kept' = kept
        /\ cache' \in File!Files(SUBSET Entries) /\ kept' \subseteq Entries
    BY <1>9 DEF SaveRead, GrantTyped
  <2>2. CASE Goto(r, "use")
    <3>1. "use" \in RunPcs /\ run[r].pc \notin {"start"} \union Exited
      BY <2>1 DEF RunPcs, Exited
    <3> QED
      BY <2>1, <2>2, <3>1, GotoStep
  <2>3. CASE ~Goto(r, "use")
    BY <1>9, <2>1, <2>3, SaveReadStep DEF SaveRead
  <2> QED
    BY <2>2, <2>3
<1> QED
  BY <1>1, <1>2, <1>3, <1>4, <1>5, <1>6, <1>7, <1>8, <1>9 DEF CliNext, GrantNext, cliVars

LEMMA CliInv == CliSpec => [](ConfigTyped /\ GrantTyped)
<1>1. ConfigInit /\ GrantInit => ConfigTyped /\ GrantTyped
  BY ConfigInitTyped, GrantInitTyped
<1>2. ConfigTyped /\ GrantTyped /\ [CliNext]_cliVars => ConfigTyped' /\ GrantTyped'
  <2> SUFFICES ASSUME ConfigTyped, GrantTyped, [CliNext]_cliVars
               PROVE  ConfigTyped' /\ GrantTyped'
    OBVIOUS
  <2>1. [ConfigNext]_configVars
    BY DEF CliNext, cliVars
  <2>2. FileTyped
    BY DEF ConfigTyped
  <2> QED
    BY <2>1, <2>2, ConfigTypedStep, GrantTypedStep
<1> QED
  BY <1>1, <1>2, PTL DEF CliSpec

\* Whatever the phone answers and wherever the invocations end, the cache
\* holds entries, and what is saved has a time limit.
THEOREM GrantTypeCorrect == CliSpec => []GrantTypeOK
<1>1. GrantTyped => GrantTypeOK
  BY GrantTypedOK
<1> QED
  BY <1>1, CliInv, PTL

-----------------------------------------------------------------------------
(***************************************************************************)
(* What is in the cache, or was read from there, the phone has granted to  *)
(* the device it is meant for, and lasts no longer than the grant.         *)
(***************************************************************************)
IsGranted(l)    == [worker |-> l.worker, device |-> l.device, grant |-> l.grant] \in approved
EntryGranted(e) == IsGranted(e) /\ e.exp <= e.grant.access

HitEntitled(r) ==
    /\ IsGranted(run[r])
    /\ run[r].grant.access > run[r].at
    /\ run[r].ask.cached /\ Covers(run[r].grant, run[r].ask, run[r].at)

RunEntitled(r) ==
    /\ \A e \in run[r].seen : EntryGranted(e)
    /\ run[r].pc \in {"lookup", "prune", "pruning", "match"} => run[r].ask.cached
    /\ run[r].pc \in {"prune", "pruning", "match"} => \A e \in run[r].seen : e.exp > run[r].at
    /\ run[r].pc \in {"save", "truncate", "fill"} => IsGranted(run[r])
    /\ run[r].hit => run[r].pc = "use" /\ HitEntitled(r)

EntitledInv ==
    /\ \A e \in File!Read(cache, {}) : EntryGranted(e)
    /\ \A r \in Runs : RunEntitled(r)

\* A token that is good now was good before.
LEMMA CoversEarlier ==
    ASSUME NEW g \in Grants, NEW ask, NEW t \in Nat, NEW u \in Nat, u <= t, Covers(g, ask, t)
    PROVE  Covers(g, ask, u)
<1>1. \A k \in g.tokens : k.exp \in Nat
  BY GrantAssumption
<1>2. \A k \in g.tokens : k.exp = 0 \/ k.exp > t => k.exp = 0 \/ k.exp > u
  BY <1>1
<1> QED
  BY <1>2 DEF Covers

\* The phone's grants only become more.
LEMMA GrantedStays ==
    ASSUME approved \subseteq approved', NEW e, IsGranted(e)
    PROVE  [worker |-> e.worker, device |-> e.device, grant |-> e.grant] \in approved'
BY DEF IsGranted

LEMMA EntitledFrame ==
    ASSUME EntitledInv, NEW r \in Runs, approved \subseteq approved', Others(r), RunEntitled(r)',
           \A e \in File!Read(cache, {})' : EntryGranted(e)
    PROVE  EntitledInv'
<1>1. ASSUME NEW q \in Runs \ {r} PROVE RunEntitled(q)'
  <2>1. RunEntitled(q) /\ run'[q] = run[q]
    BY DEF EntitledInv, Others
  <2> QED
    BY <2>1 DEF RunEntitled, HitEntitled, EntryGranted, IsGranted
<1>2. \A e \in File!Read(cache, {})' : EntryGranted(e)'
  BY DEF EntryGranted, IsGranted
<1> QED
  BY <1>1, <1>2 DEF EntitledInv

\* Whoever goes on without a hit, and has seen nothing new.
LEMMA EntitledQuiet ==
    ASSUME EntitledInv, NEW r \in Runs, approved \subseteq approved', Others(r),
           run'[r].seen \subseteq run[r].seen, ~run'[r].hit,
           run'[r].pc \in {"lookup", "prune", "pruning", "match"} => run'[r].ask.cached,
           run'[r].pc \in {"prune", "pruning", "match"} =>
               \A e \in run'[r].seen : e.exp > run'[r].at,
           run'[r].pc \in {"save", "truncate", "fill"} => IsGranted(run[r])' ,
           \A e \in File!Read(cache, {})' : EntryGranted(e)
    PROVE  EntitledInv'
<1>1. \A e \in run'[r].seen : EntryGranted(e)
  BY DEF EntitledInv, RunEntitled
<1>2. \A e \in run'[r].seen : EntryGranted(e)'
  BY <1>1 DEF EntryGranted, IsGranted
<1>3. RunEntitled(r)'
  BY <1>2 DEF RunEntitled
<1> QED
  BY <1>3, EntitledFrame

LEMMA FilledReads ==
    ASSUME NEW file, NEW v, NEW to \in File!Filled(file, v)
    PROVE  File!Read(to, {}) = v \/ File!Read(to, {}) = {}
<1>1. to = File!Stored(v) \/ to = File!Torn
  BY DEF File!Filled
<1>2. File!Read(File!Stored(v), {}) = v /\ File!Read(File!Torn, {}) = {}
  BY DEF File!Stored, File!Torn, File!Read, File!Unreadable
<1> QED
  BY <1>1, <1>2

LEMMA TruncatedReads == File!Read(File!Truncated, {}) = {}
BY DEF File!Truncated, File!Read, File!Unreadable

LEMMA EntitledStep ==
    ASSUME FileTyped, GrantTyped, EntitledInv, [CliNext]_cliVars
    PROVE  EntitledInv'
<1>1. CASE UNCHANGED grantVars
  BY <1>1 DEF grantVars, grantHistory, EntitledInv, RunEntitled, HitEntitled, EntryGranted,
              IsGranted
<1>2. CASE Tick
  BY <1>2 DEF Tick, grantHistory, EntitledInv, RunEntitled, HitEntitled, EntryGranted, IsGranted
<1>3. ASSUME NEW r \in Runs, NEW ask \in Asks, Start(r, ask) PROVE EntitledInv'
  <2>1. /\ run[r].pc = "start" /\ approved' = approved /\ cache' = cache
        /\ ~run[r].hit
    BY <1>3 DEF Start, grantHistory, EntitledInv, RunEntitled
  <2>2. Others(r) /\ run'[r].seen \subseteq run[r].seen /\ ~run'[r].hit
    BY <1>3, <2>1, StartStep
  <2>3. /\ run'[r].pc \in {"lookup", "prune", "pruning", "match"} => run'[r].ask.cached
        /\ run'[r].pc \notin {"prune", "pruning", "match", "save", "truncate", "fill"}
    BY <1>3, StartStep
  <2> QED
    BY <2>1, <2>2, <2>3, EntitledQuiet DEF EntitledInv
<1>4. ASSUME NEW r \in Runs, Lookup(r) PROVE EntitledInv'
  <2>1. /\ run[r].pc = "lookup" /\ approved' = approved /\ cache' = cache
        /\ ~run[r].hit /\ run[r].ask.cached
    BY <1>4 DEF Lookup, EntitledInv, RunEntitled
  <2>2. /\ Others(r) /\ SameAsk(r) /\ run'[r].pc \in {"prune", "match"}
        /\ run'[r].seen = Unexpired(File!Read(cache, {}), now)
        /\ run'[r].at = now /\ run'[r].hit = run[r].hit
    BY <1>4, LookupStep
  <2>3. \A e \in run'[r].seen : EntryGranted(e) /\ e.exp > now
    BY <2>2 DEF Unexpired, EntitledInv
  <2>4. \A e \in run'[r].seen : EntryGranted(e)'
    BY <2>1, <2>3 DEF EntryGranted, IsGranted
  <2>5. RunEntitled(r)'
    BY <2>1, <2>2, <2>3, <2>4 DEF RunEntitled, SameAsk
  <2> QED
    BY <2>1, <2>2, <2>5, EntitledFrame DEF EntitledInv
<1>5. ASSUME NEW r \in Runs, NEW from, NEW to,
             <<from, to>> \in {<<"prune", "pruning">>, <<"truncate", "fill">>}, Empties(r, from, to)
      PROVE  EntitledInv'
  <2>1. /\ Others(r) /\ SameAsk(r) /\ run[r].pc = from /\ run'[r].pc = to
        /\ run'[r].at = run[r].at /\ run'[r].seen = run[r].seen
        /\ run'[r].grant = run[r].grant /\ run'[r].hit = run[r].hit
    BY <1>5, EmptiesStep
  <2>2. approved' = approved /\ cache' = File!Truncated /\ RunEntitled(r)
    BY <1>5 DEF Empties, grantHistory, EntitledInv
  <2>3. RunEntitled(r)'
    BY <1>5, <2>1, <2>2 DEF RunEntitled, HitEntitled, EntryGranted, IsGranted, SameAsk
  <2> QED
    BY <2>1, <2>2, <2>3, EntitledFrame, TruncatedReads
<1>6. ASSUME NEW r \in Runs, Prune(r) PROVE EntitledInv'
  <2>1. /\ Others(r) /\ SameAsk(r) /\ run[r].pc = "pruning" /\ run'[r].pc = "match"
        /\ run'[r].at = run[r].at /\ run'[r].seen = run[r].seen
        /\ run'[r].grant = run[r].grant /\ run'[r].hit = run[r].hit
    BY <1>6, PruneStep
  <2>2. approved' = approved /\ cache' \in File!Filled(cache, run[r].seen) /\ RunEntitled(r)
    BY <1>6 DEF Prune, grantHistory, EntitledInv
  <2>3. RunEntitled(r)'
    BY <2>1, <2>2 DEF RunEntitled, HitEntitled, EntryGranted, IsGranted, SameAsk
  <2>4. \A e \in File!Read(cache', {}) : EntryGranted(e)
    BY <2>2, FilledReads DEF RunEntitled
  <2> QED
    BY <2>1, <2>2, <2>3, <2>4, EntitledFrame
<1>7. ASSUME NEW r \in Runs, Hit(r) PROVE EntitledInv'
  <2>1. PICK e \in Matches(r) :
            Set(r, [run[r] EXCEPT !.pc = "use", !.grant = e.grant, !.hit = TRUE, !.seen = {}])
    BY <1>7 DEF Hit
  <2>2. /\ run[r].pc = "match" /\ cache' = cache /\ now' = now /\ kept' = kept
        /\ approved' = approved /\ RunEntitled(r)
    BY <1>7 DEF Hit, grantHistory, EntitledInv
  <2>3. /\ Others(r) /\ SameAsk(r)
        /\ run'[r].pc = "use" /\ run'[r].grant = e.grant /\ run'[r].at = run[r].at
        /\ run'[r].seen = {}
    BY <2>1, <2>2, HitStep
  <2>4. /\ e \in Entries /\ e \in run[r].seen
        /\ run[r].at \in Nat /\ run[r].at <= now /\ now \in Nat
        /\ e.worker = run[r].worker /\ e.device = run[r].device
        /\ Covers(e.grant, run[r].ask, now)
    BY GrantAssumption DEF Matches, GrantTyped, RunTyped, RunState
  <2>5. e.grant \in Grants /\ e.exp \in Nat /\ e.grant.access \in Nat
    BY <2>4, GrantAssumption DEF Entries
  <2>6. IsGranted(e) /\ e.exp <= e.grant.access /\ e.exp > run[r].at /\ run[r].ask.cached
    BY <2>2, <2>4 DEF RunEntitled, EntryGranted
  <2>7. e.grant.access > run[r].at
    BY <2>4, <2>5, <2>6
  <2>8. Covers(e.grant, run[r].ask, run[r].at)
    BY <2>4, <2>5, CoversEarlier
  <2>9. HitEntitled(r)'
    BY <2>2, <2>3, <2>4, <2>6, <2>7, <2>8 DEF HitEntitled, IsGranted, SameAsk
  <2>10. RunEntitled(r)'
    BY <2>3, <2>9 DEF RunEntitled
  <2> QED
    BY <2>2, <2>3, <2>10, EntitledFrame DEF EntitledInv
<1>8. ASSUME NEW r \in Runs, Miss(r) PROVE EntitledInv'
  <2>1. /\ run[r].pc = "match" /\ approved' = approved /\ cache' = cache /\ ~run[r].hit
    BY <1>8 DEF Miss, grantHistory, EntitledInv, RunEntitled
  <2>2. Others(r) /\ run'[r].pc = "ask" /\ run'[r].seen = {} /\ ~run'[r].hit
    BY <1>8, <2>1, MissStep
  <2> QED
    BY <2>1, <2>2, EntitledQuiet DEF EntitledInv
<1>9. ASSUME NEW r \in Runs, NEW g \in Grants, Approved(r, g) PROVE EntitledInv'
  <2>1. /\ run[r].pc = "ask" /\ cache' = cache /\ ~run[r].hit
        /\ approved' = approved \union
              {[worker |-> run[r].worker, device |-> run[r].device, grant |-> g]}
    BY <1>9 DEF Approved, EntitledInv, RunEntitled
  <2>2. /\ Others(r) /\ run'[r].seen \subseteq run[r].seen /\ ~run'[r].hit
        /\ run'[r].pc \in {"failed", "save", "use"}
    BY <1>9, <2>1, ApprovedStep
  <2>3. run'[r].pc = "save" => IsGranted(run[r])'
    BY <1>9, <2>1, ApprovedStep DEF IsGranted, SameAsk
  <2> QED
    BY <2>1, <2>2, <2>3, EntitledQuiet DEF EntitledInv
<1>10. ASSUME NEW r \in Runs, Refused(r) \/ Use(r) \/ Killed(r) PROVE EntitledInv'
  <2>1. /\ cache' = cache /\ now' = now /\ kept' = kept /\ approved' = approved
        /\ \E x \in Exited : Ends(r, x)
    BY <1>10 DEF Refused, Use, Killed, Exited, grantHistory
  <2>2. Others(r) /\ run'[r].pc \in Exited /\ run'[r].seen = {} /\ ~run'[r].hit
    BY <2>1, EndsStep
  <2> QED
    BY <2>1, <2>2, EntitledQuiet DEF EntitledInv, Exited
<1>11. ASSUME NEW r \in Runs, SaveRead(r) PROVE EntitledInv'
  <2>1. /\ run[r].pc = "save" /\ cache' = cache /\ now' = now /\ kept' = kept
        /\ approved' = approved /\ RunEntitled(r) /\ RunTyped(run[r], now)
        /\ cache' \in File!Files(SUBSET Entries) /\ kept' \subseteq Entries
    BY <1>11 DEF SaveRead, GrantTyped, EntitledInv
  <2>2. CASE Goto(r, "use")
    <3>1. "use" \in RunPcs /\ run[r].pc \notin {"start"} \union Exited
      BY <2>1 DEF RunPcs, Exited
    <3>2. Others(r) /\ run'[r].pc = "use" /\ run'[r].seen = run[r].seen /\ ~run'[r].hit
      BY <2>1, <2>2, <3>1, GotoStep DEF RunEntitled
    <3> QED
      BY <2>1, <3>2, EntitledQuiet DEF EntitledInv
  <2>3. CASE ~Goto(r, "use")
    <3>1. /\ Others(r) /\ SameAsk(r) /\ run'[r].pc = "truncate"
          /\ run'[r].seen = With(File!Read(cache, {}), Entry(r), now)
          /\ run'[r].grant = run[r].grant /\ run'[r].hit = run[r].hit
      BY <1>11, <2>1, <2>3, SaveReadStep DEF SaveRead
    <3>2. /\ Entry(r).worker = run[r].worker /\ Entry(r).device = run[r].device
          /\ Entry(r).grant = run[r].grant /\ Entry(r).exp <= run[r].grant.access
      BY <2>1, EntryTyped DEF RunTyped
    <3>3. IsGranted(run[r]) /\ ~run[r].hit
      BY <2>1 DEF RunEntitled
    <3>4. EntryGranted(Entry(r))
      BY <3>2, <3>3 DEF EntryGranted, IsGranted
    <3>5. \A e \in run'[r].seen : EntryGranted(e)
      BY <3>1, <3>4 DEF With, Unexpired, EntitledInv
    <3>6. \A e \in run'[r].seen : EntryGranted(e)'
      BY <2>1, <3>5 DEF EntryGranted, IsGranted
    <3>7. IsGranted(run[r])'
      BY <2>1, <3>1, <3>3 DEF IsGranted, SameAsk
    <3>8. RunEntitled(r)'
      BY <3>1, <3>3, <3>6, <3>7 DEF RunEntitled
    <3> QED
      BY <2>1, <3>1, <3>8, EntitledFrame DEF EntitledInv
  <2> QED
    BY <2>2, <2>3
<1>12. ASSUME NEW r \in Runs, SaveFill(r) PROVE EntitledInv'
  <2>1. /\ run[r].pc = "fill" /\ approved' = approved
        /\ cache' \in File!Filled(cache, run[r].seen) /\ RunEntitled(r)
    BY <1>12 DEF SaveFill, EntitledInv
  <2>2. Others(r) /\ run'[r].pc = "use" /\ run'[r].seen = {} /\ ~run'[r].hit
    BY <1>12, <2>1, SaveFillStep DEF RunEntitled
  <2>3. \A e \in File!Read(cache', {}) : EntryGranted(e)
    BY <2>1, FilledReads DEF RunEntitled
  <2> QED
    BY <2>1, <2>2, <2>3, EntitledQuiet
<1> QED
  BY <1>1, <1>2, <1>3, <1>4, <1>5, <1>6, <1>7, <1>8, <1>9, <1>10, <1>11, <1>12
     DEF CliNext, GrantNext, cliVars

LEMMA EntitledInit == GrantInit => EntitledInv
<1> SUFFICES ASSUME GrantInit PROVE EntitledInv
  OBVIOUS
<1>1. File!Read(cache, {}) = {}
  BY DEF GrantInit, File!Stored, File!Read, File!Unreadable
<1>2. \A r \in Runs : run[r].seen = {} /\ ~run[r].hit /\ run[r].pc \in {"start", "done"}
  BY DEF GrantInit, Idle
<1> QED
  BY <1>1, <1>2 DEF EntitledInv, RunEntitled

\* Whatever a command takes from the cache, for any requests, answers and
\* expiries and however the file was torn, the phone has granted to this
\* device at this Worker for a time that had not passed.
THEOREM GrantHitIsEntitled == CliSpec => []HitIsEntitled
<1>1. EntitledInv => HitIsEntitled
  BY DEF EntitledInv, RunEntitled, HitEntitled, IsGranted, HitIsEntitled
<1>2. EntitledInv /\ ConfigTyped /\ GrantTyped /\ [CliNext]_cliVars => EntitledInv'
  BY EntitledStep DEF ConfigTyped
<1> QED
  BY <1>1, <1>2, CliInv, EntitledInit, PTL DEF CliSpec

-----------------------------------------------------------------------------
(***************************************************************************)
(* As long as no rewrite of the cache has begun during another and none    *)
(* was cut short, one invocation at most rewrites it; and what it will     *)
(* write is what the cache should be, but for entries that have expired    *)
(* since, with the entry that it saves.                                    *)
(***************************************************************************)
Rewriter(r) == run[r].pc \in {"prune", "pruning", "truncate", "fill"}
Emptied(r)  == run[r].pc \in {"pruning", "fill"}

\* The entries are those that should be there, apart from expired ones.
AsSaved(entries) == Unexpired(kept, now) \subseteq entries /\ entries \subseteq kept

CacheKept ==
    /\ \A q, r \in Runs : Rewriter(q) /\ Rewriter(r) => q = r
    /\ (\E r \in Runs : Emptied(r)) => cache = File!Truncated
    /\ (\A r \in Runs : ~Emptied(r)) => AsSaved(File!Read(cache, {}))
    /\ \A r \in Runs : run[r].pc \in {"prune", "pruning"} => AsSaved(run[r].seen)
    /\ \A r \in Runs : run[r].pc \in {"truncate", "fill"} =>
          run[r].seen = With(kept, Entry(r), run[r].at)

CacheKeptInv == ~overlap /\ ~cut => CacheKept

\* An entry is made of the request, the device and the grant.
LEMMA EntrySame ==
    ASSUME NEW r \in Runs, SameAsk(r), run'[r].grant = run[r].grant
    PROVE  Entry(r)' = Entry(r)
<1> DEFINE EntryOf(worker, device, ask, grant) ==
              [worker |-> worker, device |-> device, keys |-> ResourceKeys(ask),
               grant  |-> grant,
               exp    |-> CHOOSE e \in Expiries(grant) : \A f \in Expiries(grant) : e <= f]
<1>1. Entry(r) = EntryOf(run[r].worker, run[r].device, run[r].ask, run[r].grant)
  BY DEF Entry
<1>2. Entry(r)' = EntryOf(run'[r].worker, run'[r].device, run'[r].ask, run'[r].grant)
  BY DEF Entry
<1> HIDE DEF EntryOf
<1> QED
  BY <1>1, <1>2 DEF SameAsk

\* Whoever rewrites nothing, before or after, changes nothing.
LEMMA CacheFrame ==
    ASSUME CacheKept, NEW r \in Runs, Others(r), cache' = cache, now' = now, kept' = kept,
           ~Emptied(r), ~Rewriter(r)'
    PROVE  CacheKept'
<1>1. /\ \A q \in Runs : Rewriter(q)' => Rewriter(q) /\ run'[q] = run[q]
      /\ \A q \in Runs : Emptied(q)' = Emptied(q)
  BY DEF Others, Rewriter, Emptied
<1>2. ASSUME NEW q \in Runs, run'[q].pc \in {"truncate", "fill"}
      PROVE  run'[q].seen = With(kept', Entry(q)', run'[q].at)
  <2>1. run'[q] = run[q]
    BY <1>1, <1>2 DEF Rewriter
  <2>2. Entry(q)' = Entry(q)
    BY <2>1, EntrySame DEF SameAsk
  <2> QED
    BY <1>2, <2>1, <2>2 DEF CacheKept
<1>3. ASSUME NEW q \in Runs, run'[q].pc \in {"prune", "pruning"}
      PROVE  AsSaved(run[q].seen)'
  <2>1. run'[q] = run[q]
    BY <1>1, <1>3 DEF Rewriter
  <2> QED
    BY <1>3, <2>1 DEF CacheKept, AsSaved
<1>4. \A p, q \in Runs : Rewriter(p)' /\ Rewriter(q)' => p = q
  BY <1>1 DEF CacheKept
<1>5. /\ (\E q \in Runs : Emptied(q)') => cache' = File!Truncated
      /\ (\A q \in Runs : ~Emptied(q)') => AsSaved(File!Read(cache, {}))'
  BY <1>1 DEF CacheKept, AsSaved
<1> QED
  BY <1>2, <1>3, <1>4, <1>5 DEF CacheKept

\* Time passes: entries expire.
LEMMA CacheTick ==
    ASSUME GrantTyped, CacheKept, Tick
    PROVE  CacheKept'
<1>1. /\ cache' = cache /\ run' = run /\ kept' = kept /\ now' = now + 1
      /\ now \in Nat /\ \A e \in kept : e.exp \in Nat
  BY GrantAssumption DEF Tick, grantHistory, GrantTyped, Entries
<1>2. Unexpired(kept, now') \subseteq Unexpired(kept, now)
  BY <1>1 DEF Unexpired
<1>3. \A s : AsSaved(s) => Unexpired(kept', now') \subseteq s /\ s \subseteq kept'
  BY <1>1, <1>2 DEF AsSaved
<1>4. \A r \in Runs : /\ Rewriter(r)' = Rewriter(r) /\ Emptied(r)' = Emptied(r)
                      /\ Entry(r)' = Entry(r)
  BY <1>1, EntrySame DEF Rewriter, Emptied, SameAsk
<1>5. /\ \A p, q \in Runs : Rewriter(p)' /\ Rewriter(q)' => p = q
      /\ (\E q \in Runs : Emptied(q)') => cache' = File!Truncated
  BY <1>1, <1>4 DEF CacheKept
<1>6. (\A q \in Runs : ~Emptied(q)') => AsSaved(File!Read(cache, {}))'
  BY <1>1, <1>3, <1>4 DEF CacheKept, AsSaved
<1>7. \A r \in Runs : run'[r].pc \in {"prune", "pruning"} => AsSaved(run[r].seen)'
  BY <1>1, <1>3 DEF CacheKept, AsSaved
<1>8. \A r \in Runs : run'[r].pc \in {"truncate", "fill"} =>
          run'[r].seen = With(kept', Entry(r)', run'[r].at)
  BY <1>1, <1>4 DEF CacheKept
<1> QED
  BY <1>5, <1>6, <1>7, <1>8 DEF CacheKept

\* While nobody rewrites the cache, a reader finds what is good of it.
LEMMA IdleCache ==
    ASSUME CacheKept, ~Rewriting
    PROVE  /\ \A r \in Runs : ~Rewriter(r) /\ ~Emptied(r)
           /\ AsSaved(File!Read(cache, {}))
           /\ Unexpired(File!Read(cache, {}), now) = Unexpired(kept, now)
<1>1. \A r \in Runs : ~Rewriter(r) /\ ~Emptied(r)
  BY DEF Rewriting, Rewriter, Emptied
<1>2. AsSaved(File!Read(cache, {}))
  BY <1>1 DEF CacheKept
<1> QED
  BY <1>1, <1>2 DEF AsSaved, Unexpired

\* Only r rewrites the cache.
LEMMA OnlyRewriter ==
    ASSUME CacheKept, NEW r \in Runs, Rewriter(r)
    PROVE  \A q \in Runs \ {r} : ~Rewriter(q) /\ ~Emptied(q)
BY DEF CacheKept, Rewriter, Emptied

LEMMA CacheLookup ==
    ASSUME GrantTyped, CacheKept, NEW r \in Runs, Lookup(r), ~overlap'
    PROVE  CacheKept'
<1>1. /\ run[r].pc = "lookup" /\ cache' = cache /\ now' = now /\ kept' = kept
      /\ Others(r) /\ run'[r].seen = Unexpired(File!Read(cache, {}), now)
      /\ run'[r].pc = IF Unexpired(File!Read(cache, {}), now) # File!Read(cache, {})
                      THEN "prune" ELSE "match"
  BY LookupStep DEF Lookup
<1>2. CASE run'[r].pc = "match"
  BY <1>1, <1>2, CacheFrame DEF Rewriter, Emptied
<1>3. CASE run'[r].pc = "prune"
  <2>1. ~Rewriting
    BY <1>1, <1>3 DEF Lookup
  <2>2. /\ \A q \in Runs : ~Rewriter(q) /\ ~Emptied(q)
        /\ AsSaved(File!Read(cache, {})) /\ run'[r].seen = Unexpired(kept, now)
    BY <1>1, <2>1, IdleCache
  <2>3. /\ \A q \in Runs \ {r} : ~Rewriter(q)' /\ ~Emptied(q)'
        /\ ~Emptied(r)'
    BY <1>1, <1>3, <2>2 DEF Others, Rewriter, Emptied
  <2>4. AsSaved(run[r].seen)' /\ AsSaved(File!Read(cache, {}))'
    BY <1>1, <2>2 DEF AsSaved, Unexpired
  <2>5. \A q \in Runs : /\ run'[q].pc \notin {"truncate", "fill"}
                        /\ run'[q].pc \in {"prune", "pruning"} => q = r
    BY <1>3, <2>3 DEF Rewriter
  <2>6. \A p, q \in Runs : Rewriter(p)' /\ Rewriter(q)' => p = q
    BY <2>3
  <2> QED
    BY <2>3, <2>4, <2>5, <2>6 DEF CacheKept
<1> QED
  BY <1>1, <1>2, <1>3

LEMMA CacheEmpties ==
    ASSUME GrantTyped, CacheKept, NEW r \in Runs, NEW from, NEW to,
           <<from, to>> \in {<<"prune", "pruning">>, <<"truncate", "fill">>}, Empties(r, from, to)
    PROVE  CacheKept'
<1>1. /\ Others(r) /\ SameAsk(r) /\ run[r].pc = from /\ run'[r].pc = to
      /\ run'[r].at = run[r].at /\ run'[r].seen = run[r].seen /\ run'[r].grant = run[r].grant
  BY EmptiesStep
<1>2. now' = now /\ kept' = kept /\ cache' = File!Truncated
  BY DEF Empties, grantHistory
<1>3. Rewriter(r) /\ Emptied(r)'
  BY <1>1 DEF Rewriter, Emptied
<1>4. \A q \in Runs \ {r} : ~Rewriter(q)'
  BY <1>1, <1>3, OnlyRewriter DEF Others, Rewriter
<1>5. Entry(r)' = Entry(r)
  BY <1>1, EntrySame
<1>6. \A p, q \in Runs : Rewriter(p)' /\ Rewriter(q)' => p = q
  BY <1>4
<1>7. \A q \in Runs : /\ run'[q].pc \in {"prune", "pruning"} => AsSaved(run[q].seen)'
                      /\ run'[q].pc \in {"truncate", "fill"} =>
                            run'[q].seen = With(kept', Entry(q)', run'[q].at)
  <2>1. ASSUME NEW q \in Runs, run'[q].pc \in {"prune", "pruning"} PROVE AsSaved(run[q].seen)'
    <3>1. q = r /\ run[r].pc = "prune"
      BY <1>1, <1>4, <2>1 DEF Rewriter
    <3> QED
      BY <1>1, <1>2, <3>1 DEF CacheKept, AsSaved
  <2>2. ASSUME NEW q \in Runs, run'[q].pc \in {"truncate", "fill"}
        PROVE  run'[q].seen = With(kept', Entry(q)', run'[q].at)
    <3>1. q = r /\ run[r].pc = "truncate"
      BY <1>1, <1>4, <2>2 DEF Rewriter
    <3> QED
      BY <1>1, <1>2, <1>5, <3>1 DEF CacheKept
  <2> QED
    BY <2>1, <2>2
<1> QED
  BY <1>2, <1>3, <1>6, <1>7 DEF CacheKept

\* Nobody rewrites the cache any more, and it is whole.
LEMMA CacheWritten ==
    ASSUME \A q \in Runs : ~Rewriter(q)', AsSaved(File!Read(cache, {}))'
    PROVE  CacheKept'
BY DEF CacheKept, Rewriter, Emptied

LEMMA FilledWhole ==
    ASSUME NEW v, NEW to \in File!Filled(File!Truncated, v)
    PROVE  File!Read(to, {}) = v
<1>1. to = File!Stored(v)
  BY FillsTruncated
<1> QED
  BY <1>1 DEF File!Stored, File!Read, File!Unreadable

LEMMA CachePrune ==
    ASSUME GrantTyped, CacheKept, NEW r \in Runs, Prune(r)
    PROVE  CacheKept'
<1>1. Others(r) /\ run[r].pc = "pruning" /\ run'[r].pc = "match"
  BY PruneStep
<1>2. now' = now /\ kept' = kept /\ cache' \in File!Filled(cache, run[r].seen)
  BY DEF Prune, grantHistory
<1>3. Rewriter(r) /\ Emptied(r)
  BY <1>1 DEF Rewriter, Emptied
<1>4. \A q \in Runs : ~Rewriter(q)'
  BY <1>1, <1>3, OnlyRewriter DEF Others, Rewriter
<1>5. cache = File!Truncated /\ AsSaved(run[r].seen)
  BY <1>1, <1>3 DEF CacheKept
<1>6. File!Read(cache', {}) = run[r].seen
  BY <1>2, <1>5, FilledWhole
<1>7. AsSaved(File!Read(cache, {}))'
  BY <1>2, <1>5, <1>6 DEF AsSaved
<1> QED
  BY <1>4, <1>7, CacheWritten

LEMMA CacheSaveRead ==
    ASSUME GrantTyped, CacheKept, NEW r \in Runs, SaveRead(r), ~overlap'
    PROVE  CacheKept'
<1>1. /\ run[r].pc = "save" /\ cache' = cache /\ now' = now /\ kept' = kept
      /\ cache' \in File!Files(SUBSET Entries) /\ kept' \subseteq Entries
  BY DEF SaveRead, GrantTyped
<1>2. CASE Goto(r, "use")
  <2>1. "use" \in RunPcs /\ run[r].pc \notin {"start"} \union Exited
    BY <1>1 DEF RunPcs, Exited
  <2>2. Others(r) /\ run'[r].pc = "use"
    BY <1>1, <1>2, <2>1, GotoStep
  <2> QED
    BY <1>1, <2>2, CacheFrame DEF Rewriter, Emptied
<1>3. CASE ~Goto(r, "use")
  <2>1. /\ Others(r) /\ SameAsk(r) /\ run'[r].pc = "truncate" /\ run'[r].at = now
        /\ run'[r].seen = With(File!Read(cache, {}), Entry(r), now)
        /\ run'[r].grant = run[r].grant
    BY <1>1, <1>3, SaveReadStep DEF SaveRead
  <2>2. ~Rewriting
    BY <1>3 DEF SaveRead
  <2>3. /\ \A q \in Runs : ~Rewriter(q) /\ ~Emptied(q)
        /\ AsSaved(File!Read(cache, {}))
        /\ Unexpired(File!Read(cache, {}), now) = Unexpired(kept, now)
    BY <2>2, IdleCache
  <2>4. Entry(r)' = Entry(r)
    BY <2>1, EntrySame
  <2>5. run'[r].seen = With(kept', Entry(r)', run'[r].at)
    BY <1>1, <2>1, <2>3, <2>4 DEF With
  <2>6. /\ \A q \in Runs \ {r} : ~Rewriter(q)' /\ ~Emptied(q)'
        /\ ~Emptied(r)'
    BY <2>1, <2>3 DEF Others, Rewriter, Emptied
  <2>7. \A q \in Runs : /\ run'[q].pc \notin {"prune", "pruning"}
                        /\ run'[q].pc \in {"truncate", "fill"} => q = r
    BY <2>1, <2>6 DEF Rewriter
  <2>8. \A p, q \in Runs : Rewriter(p)' /\ Rewriter(q)' => p = q
    BY <2>6
  <2>9. AsSaved(File!Read(cache, {}))'
    BY <1>1, <2>3 DEF AsSaved
  <2> QED
    BY <2>5, <2>6, <2>7, <2>8, <2>9 DEF CacheKept
<1> QED
  BY <1>2, <1>3

LEMMA CacheSaveFill ==
    ASSUME GrantTyped, CacheKept, NEW r \in Runs, SaveFill(r)
    PROVE  CacheKept'
<1>1. Others(r) /\ run'[r].pc = "use"
  BY SaveFillStep
<1>2. /\ run[r].pc = "fill" /\ now' = now /\ kept' = With(kept, Entry(r), run[r].at)
      /\ cache' \in File!Filled(cache, run[r].seen)
  BY DEF SaveFill, With
<1>3. Rewriter(r) /\ Emptied(r)
  BY <1>2 DEF Rewriter, Emptied
<1>4. \A q \in Runs : ~Rewriter(q)'
  BY <1>1, <1>3, OnlyRewriter DEF Others, Rewriter
<1>5. cache = File!Truncated /\ run[r].seen = kept'
  BY <1>2, <1>3 DEF CacheKept
<1>6. File!Read(cache', {}) = kept'
  BY <1>2, <1>5, FilledWhole
<1>7. AsSaved(File!Read(cache, {}))'
  BY <1>6 DEF AsSaved, Unexpired
<1> QED
  BY <1>4, <1>7, CacheWritten

LEMMA CacheKeptStep ==
    ASSUME FileTyped, GrantTyped, CacheKeptInv, [CliNext]_cliVars
    PROVE  CacheKeptInv'
<1> SUFFICES ASSUME ~overlap', ~cut' PROVE CacheKept'
  BY DEF CacheKeptInv
<1>1. CASE UNCHANGED grantVars
  <2>1. CacheKept
    BY <1>1 DEF CacheKeptInv, grantVars, grantHistory
  <2>2. \A r \in Runs : Entry(r)' = Entry(r)
    BY <1>1, EntrySame DEF grantVars, SameAsk
  <2> QED
    BY <1>1, <2>1, <2>2 DEF grantVars, grantHistory, CacheKept, Rewriter, Emptied, AsSaved
<1>2. CASE Tick
  <2>1. CacheKept
    BY <1>2 DEF CacheKeptInv, Tick, grantHistory
  <2> QED
    BY <1>2, <2>1, CacheTick
<1>3. ASSUME NEW r \in Runs, NEW ask \in Asks, Start(r, ask) PROVE CacheKept'
  <2>1. /\ run[r].pc = "start" /\ cache' = cache /\ now' = now /\ kept' = kept /\ CacheKept
    BY <1>3 DEF Start, grantHistory, CacheKeptInv
  <2>2. Others(r) /\ run'[r].pc \in {"failed", "lookup", "ask"}
    BY <1>3, StartStep
  <2> QED
    BY <2>1, <2>2, CacheFrame DEF Rewriter, Emptied
<1>4. ASSUME NEW r \in Runs, Miss(r) PROVE CacheKept'
  <2>1. /\ run[r].pc = "match" /\ cache' = cache /\ now' = now /\ kept' = kept /\ CacheKept
    BY <1>4 DEF Miss, grantHistory, CacheKeptInv
  <2>2. Others(r) /\ run'[r].pc = "ask"
    BY <1>4, MissStep
  <2> QED
    BY <2>1, <2>2, CacheFrame DEF Rewriter, Emptied
<1>5. ASSUME NEW r \in Runs, Hit(r) PROVE CacheKept'
  <2>1. /\ run[r].pc = "match" /\ cache' = cache /\ now' = now /\ kept' = kept /\ CacheKept
    BY <1>5 DEF Hit, grantHistory, CacheKeptInv
  <2>2. Others(r) /\ run'[r].pc = "use"
    BY <1>5, <2>1, HitStep DEF Hit
  <2> QED
    BY <2>1, <2>2, CacheFrame DEF Rewriter, Emptied
<1>6. ASSUME NEW r \in Runs, NEW g \in Grants, Approved(r, g) PROVE CacheKept'
  <2>1. /\ run[r].pc = "ask" /\ cache' = cache /\ now' = now /\ kept' = kept /\ CacheKept
    BY <1>6 DEF Approved, CacheKeptInv
  <2>2. Others(r) /\ run'[r].pc \in {"failed", "save", "use"}
    BY <1>6, ApprovedStep
  <2> QED
    BY <2>1, <2>2, CacheFrame DEF Rewriter, Emptied
<1>7. ASSUME NEW r \in Runs, Refused(r) \/ Use(r) \/ Killed(r) PROVE CacheKept'
  <2>1. /\ cache' = cache /\ now' = now /\ kept' = kept /\ CacheKept /\ ~Emptied(r)
        /\ \E x \in Exited : Ends(r, x)
    BY <1>7 DEF Refused, Use, Killed, Exited, grantHistory, CacheKeptInv, Emptied
  <2>2. Others(r) /\ run'[r].pc \in Exited
    BY <2>1, EndsStep
  <2> QED
    BY <2>1, <2>2, CacheFrame DEF Rewriter, Exited
<1>8. ASSUME NEW r \in Runs, Empties(r, "prune", "pruning") \/ Empties(r, "truncate", "fill")
      PROVE CacheKept'
  <2>1. CacheKept
    BY <1>8 DEF Empties, grantHistory, CacheKeptInv
  <2> QED
    BY <1>8, <2>1, CacheEmpties
<1>9. ASSUME NEW r \in Runs, Lookup(r) \/ Prune(r) \/ SaveRead(r) \/ SaveFill(r) PROVE CacheKept'
  <2>1. ~cut
    BY <1>9 DEF Lookup, Prune, SaveRead, SaveFill, grantHistory
  <2>2. ~overlap
    <3>1. CASE Lookup(r)
      BY <3>1 DEF Lookup
    <3>2. CASE SaveRead(r)
      BY <3>2 DEF SaveRead
    <3> QED
      BY <1>9, <3>1, <3>2 DEF Prune, SaveFill, grantHistory
  <2> QED
    BY <1>9, <2>1, <2>2, CacheLookup, CachePrune, CacheSaveRead, CacheSaveFill DEF CacheKeptInv
<1> QED
  BY <1>1, <1>2, <1>3, <1>4, <1>5, <1>6, <1>7, <1>8, <1>9 DEF CliNext, GrantNext, cliVars

LEMMA CacheKeptInit == GrantInit => CacheKeptInv
<1> SUFFICES ASSUME GrantInit PROVE CacheKept
  BY DEF CacheKeptInv
<1>1. File!Read(cache, {}) = {} /\ kept = {}
  BY DEF GrantInit, File!Stored, File!Read, File!Unreadable
<1>2. \A r \in Runs : run[r].pc \in {"start", "done"}
  BY DEF GrantInit, Idle
<1> QED
  BY <1>1, <1>2 DEF CacheKept, Rewriter, Emptied, AsSaved, Unexpired

\* No entry is lost before it expires, and none is there that was not saved,
\* unless one rewrite began during another or was cut short: for any number of
\* invocations and any requests and answers.
THEOREM GrantCacheIsKept == CliSpec => []CacheIsKept
<1>1. CacheKeptInv => CacheIsKept
  BY DEF CacheKeptInv, CacheKept, AsSaved, Emptied, CacheIsKept
<1>2. CacheKeptInv /\ ConfigTyped /\ GrantTyped /\ [CliNext]_cliVars => CacheKeptInv'
  BY CacheKeptStep DEF ConfigTyped
<1> QED
  BY <1>1, <1>2, CliInv, CacheKeptInit, PTL DEF CliSpec

-----------------------------------------------------------------------------
(***************************************************************************)
(* The child of a browser-session command.                                 *)
(***************************************************************************)
USE SizeAssumption

-----------------------------------------------------------------------------
(***************************************************************************)
(* The inductive invariant.                                                *)
(***************************************************************************)
\* Before the child is started there is nothing to read, and until the child
\* is waited for nobody reads.
Unstarted ==
    /\ pc \in {"config", "get", "spawn", "early"} =>
          child.st = "none" /\ ~open /\ sent = 0 /\ reader = "off" /\ ~aborted
    /\ pc = "write" => reader = "off"
    /\ pc = "wait" => reader # "off"
    /\ child.sdk /\ ~child.said => sent = 0

\* What the reader knows of the frame.  Once a byte is read the frame stands,
\* and once the stream has ended so does what was written.
Understood ==
    /\ reader = "payload" => got >= Header /\ frame.len <= MaxBytes
    /\ reader = "ok" => /\ ~open /\ got = sent /\ got = Header + frame.len
                        /\ frame.len <= MaxBytes /\ frame.says # "malformed"

\* The lease is settled only after the child has ended, for what it said.
Settled ==
    /\ pc \in {"abort", "refuse", "put", "done"} => reader = "ok" /\ child.st = "ok"
    /\ pc = "abort" => frame.says \in Reasons
    /\ pc \in {"refuse", "put"} => frame.says = "commit"
    /\ pc = "put" => access # "restore"
    /\ pc \notin {"catch", "dead"} \union Told =>
          lease.st \notin {"committed", "aborted"} /\ lost = 0
    /\ pc = "catch" => lost < 2
    /\ lease.st \in {"committed", "aborted"} /\ reader = "ok" => ~Running
    /\ lease.st = "committed" =>
          /\ reader = "ok" /\ child.st = "ok" /\ access # "restore"
          /\ frame.says = "commit" /\ frame.len <= Puttable

\* What the catch has left to say, and whom it has told to stop.
Caught ==
    /\ pc \in {"catch", "failed"} /\ reader = "ok" => ~Running
    /\ pc = "catch" /\ lease.st = "committed" => lost > 0
    /\ pc = "catch" /\ reader = "ok" /\ child.st = "ok" /\ frame.says \in Reasons =>
          \/ lease.st # "open" \/ ~own \/ lost > 0
          \/ access = "create" /\ frame.says # "reauth_required"
    /\ pc \in {"catch", "failed"} => aborted \/ ~Running
    /\ aborted /\ Running => child.term

IInv == TypeOK /\ Unstarted /\ Understood /\ Settled /\ Caught /\ OutcomeIsTold

LEMMA InitInv == ASSUME Init PROVE IInv
<1>1. TypeOK
  <2>1. frame \in Frames /\ child \in Child /\ lease \in Lease
    BY DEF Init, Frames, Child, Lease, Results
  <2>2. access \in Modes /\ pc = "config" /\ reader = "off" /\ own = TRUE /\ open = FALSE
    BY DEF Init
  <2>3. sent \in Nat /\ got \in 0..sent /\ lost \in 0..2
    BY DEF Init
  <2>4. aborted \in BOOLEAN /\ force \in BOOLEAN /\ signalled \in BOOLEAN
    BY DEF Init
  <2> QED  BY <2>1, <2>2, <2>3, <2>4 DEF TypeOK
<1>2. Unstarted /\ Understood /\ Settled /\ Caught /\ OutcomeIsTold
  BY DEF Init, Unstarted, Understood, Settled, Caught, OutcomeIsTold, Told, Running
<1> QED  BY <1>1, <1>2 DEF IInv

-----------------------------------------------------------------------------
(***************************************************************************)
(* Every step preserves it.                                                *)
(***************************************************************************)
LEMMA ReadChunkInv == ASSUME IInv, NEW n \in Nat, ReadChunk(n) PROVE IInv'
<1> USE DEF vars, pipe, read, stop, ReadChunk, Running
<1>1. TypeOK'
  BY DEF IInv, TypeOK, Unstarted, Settled, Told, Ended, Reads
<1>2. Unstarted' /\ Understood'
  BY DEF IInv, TypeOK, Unstarted, Understood, Frames
<1>3. Settled'
  BY DEF IInv, TypeOK, Unstarted, Understood, Settled, Caught, Told
<1>4. Caught' /\ OutcomeIsTold'
  BY DEF IInv, TypeOK, Unstarted, Understood, Settled, Caught, OutcomeIsTold, Told
<1> QED  BY <1>1, <1>2, <1>3, <1>4 DEF IInv

LEMMA ReadEndInv == ASSUME IInv, ReadEnd PROVE IInv'
<1> USE DEF vars, pipe, read, stop, ReadEnd, AtEnd, Running
<1>1. TypeOK'
  BY DEF IInv, TypeOK, Unstarted, Settled, Told, Ended, Reads
<1>2. Unstarted' /\ Understood'
  BY DEF IInv, TypeOK, Unstarted, Understood, Frames
<1>3. Settled'
  BY DEF IInv, TypeOK, Unstarted, Understood, Settled, Caught, Told
<1>4. Caught' /\ OutcomeIsTold'
  BY DEF IInv, TypeOK, Unstarted, Understood, Settled, Caught, OutcomeIsTold, Told
<1> QED  BY <1>1, <1>2, <1>3, <1>4 DEF IInv

LEMMA TakeInv == ASSUME IInv, Take PROVE IInv'
<1> USE DEF vars, pipe, read, stop, Take, Running
<1>1. TypeOK'
  <2>1. child' \in Child
    BY DEF IInv, TypeOK, Child
  <2>2. frame' \in Frames
    BY DEF IInv, TypeOK, Frames, Results
  <2>3. lease' \in Lease
    BY DEF IInv, TypeOK, Settled, Lease, Results
  <2>4. sent' \in Nat /\ got' \in 0..sent' /\ lost' \in 0..2
    BY DEF IInv, TypeOK, Unstarted, Settled, Told
  <2> QED  BY <2>1, <2>2, <2>3, <2>4 DEF IInv, TypeOK, Settled, Told, Ended, Reads
<1>2. Unstarted' /\ Understood'
  BY DEF IInv, TypeOK, Unstarted, Understood, Frames
<1>3. Settled'
  BY DEF IInv, TypeOK, Unstarted, Understood, Settled, Caught, Told
<1>4. Caught' /\ OutcomeIsTold'
  BY DEF IInv, TypeOK, Unstarted, Understood, Settled, Caught, OutcomeIsTold, Told
<1> QED  BY <1>1, <1>2, <1>3, <1>4 DEF IInv

LEMMA FinishInv == ASSUME IInv, NEW n \in Nat, NEW result, Finish(result, n) PROVE IInv'
<1> USE DEF vars, pipe, read, stop, Finish, Talking, Announced, Running
<1>1. TypeOK'
  <2>1. child' \in Child
    BY DEF IInv, TypeOK, Child
  <2>2. frame' \in Frames
    BY DEF IInv, TypeOK, Frames, Results
  <2>3. lease' \in Lease
    BY DEF IInv, TypeOK, Settled, Lease, Results
  <2>4. sent' \in Nat /\ got' \in 0..sent' /\ lost' \in 0..2
    BY DEF IInv, TypeOK, Unstarted, Settled, Told
  <2> QED  BY <2>1, <2>2, <2>3, <2>4 DEF IInv, TypeOK, Settled, Told, Ended, Reads
<1>2. Unstarted' /\ Understood'
  BY DEF IInv, TypeOK, Unstarted, Understood, Frames
<1>3. Settled'
  BY DEF IInv, TypeOK, Unstarted, Understood, Settled, Caught, Told
<1>4. Caught' /\ OutcomeIsTold'
  BY DEF IInv, TypeOK, Unstarted, Understood, Settled, Caught, OutcomeIsTold, Told
<1> QED  BY <1>1, <1>2, <1>3, <1>4 DEF IInv

LEMMA FlushInv == ASSUME IInv, NEW n \in Nat, Flush(n) PROVE IInv'
<1> USE DEF vars, pipe, read, stop, Flush, Talking, Running
<1>1. TypeOK'
  <2>1. child' \in Child
    BY DEF IInv, TypeOK, Child
  <2>2. frame' \in Frames
    BY DEF IInv, TypeOK, Frames, Results
  <2>3. lease' \in Lease
    BY DEF IInv, TypeOK, Settled, Lease, Results
  <2>4. sent' \in Nat /\ got' \in 0..sent' /\ lost' \in 0..2
    BY DEF IInv, TypeOK, Unstarted, Settled, Told
  <2>5. open' \in BOOLEAN
    <3>1. CASE open' = (sent' < Header + frame.len)
      <4> DEFINE more == sent' < Header + frame.len
      <4>1. more \in BOOLEAN
        OBVIOUS
      <4> HIDE DEF more
      <4> QED  BY <3>1, <4>1 DEF more
    <3>2. CASE open' = FALSE
      BY <3>2
    <3> QED  BY <3>1, <3>2
  <2> QED  BY <2>1, <2>2, <2>3, <2>4, <2>5 DEF IInv, TypeOK, Settled, Told, Ended, Reads
<1>2. Unstarted' /\ Understood'
  BY DEF IInv, TypeOK, Unstarted, Understood, Frames
<1>3. Settled'
  BY DEF IInv, TypeOK, Unstarted, Understood, Settled, Caught, Told
<1>4. Caught' /\ OutcomeIsTold'
  BY DEF IInv, TypeOK, Unstarted, Understood, Settled, Caught, OutcomeIsTold, Told
<1> QED  BY <1>1, <1>2, <1>3, <1>4 DEF IInv

LEMMA ScribbleInv == ASSUME IInv, NEW n \in Nat, Scribble(n) PROVE IInv'
<1> USE DEF vars, pipe, read, stop, Scribble, Talking, Running
<1>1. TypeOK'
  <2>1. child' \in Child
    BY DEF IInv, TypeOK, Child
  <2>2. frame' \in Frames
    BY DEF IInv, TypeOK, Frames, Results
  <2>3. lease' \in Lease
    BY DEF IInv, TypeOK, Settled, Lease, Results
  <2>4. sent' \in Nat /\ got' \in 0..sent' /\ lost' \in 0..2
    BY DEF IInv, TypeOK, Unstarted, Settled, Told
  <2> QED  BY <2>1, <2>2, <2>3, <2>4 DEF IInv, TypeOK, Settled, Told, Ended, Reads
<1>2. Unstarted' /\ Understood'
  BY DEF IInv, TypeOK, Unstarted, Understood, Frames
<1>3. Settled'
  BY DEF IInv, TypeOK, Unstarted, Understood, Settled, Caught, Told
<1>4. Caught' /\ OutcomeIsTold'
  BY DEF IInv, TypeOK, Unstarted, Understood, Settled, Caught, OutcomeIsTold, Told
<1> QED  BY <1>1, <1>2, <1>3, <1>4 DEF IInv

LEMMA ExitInv == ASSUME IInv, NEW st, Exit(st) PROVE IInv'
<1> USE DEF vars, pipe, read, stop, Exit, Running
<1>1. TypeOK'
  <2>1. child' \in Child
    BY DEF IInv, TypeOK, Child
  <2>2. frame' \in Frames
    BY DEF IInv, TypeOK, Frames, Results
  <2>3. lease' \in Lease
    BY DEF IInv, TypeOK, Settled, Lease, Results
  <2>4. sent' \in Nat /\ got' \in 0..sent' /\ lost' \in 0..2
    BY DEF IInv, TypeOK, Unstarted, Settled, Told
  <2>5. open' \in BOOLEAN /\ force' \in BOOLEAN
    BY DEF IInv, TypeOK
  <2> QED  BY <2>1, <2>2, <2>3, <2>4, <2>5 DEF IInv, TypeOK
<1>2. Unstarted' /\ Understood'
  BY DEF IInv, TypeOK, Unstarted, Understood, Frames
<1>3. Settled'
  BY DEF IInv, TypeOK, Unstarted, Understood, Settled, Caught, Told
<1>4. Caught' /\ OutcomeIsTold'
  BY DEF IInv, TypeOK, Unstarted, Understood, Settled, Caught, OutcomeIsTold, Told
<1> QED  BY <1>1, <1>2, <1>3, <1>4 DEF IInv

LEMMA ReleasedInv == ASSUME IInv, Released PROVE IInv'
<1> USE DEF vars, pipe, read, stop, Released, Running
<1>1. TypeOK'
  <2>1. child' \in Child
    BY DEF IInv, TypeOK, Child
  <2>2. frame' \in Frames
    BY DEF IInv, TypeOK, Frames, Results
  <2>3. lease' \in Lease
    BY DEF IInv, TypeOK, Settled, Lease, Results
  <2>4. sent' \in Nat /\ got' \in 0..sent' /\ lost' \in 0..2
    BY DEF IInv, TypeOK, Unstarted, Settled, Told
  <2>5. open' \in BOOLEAN /\ force' \in BOOLEAN
    BY DEF IInv, TypeOK
  <2> QED  BY <2>1, <2>2, <2>3, <2>4, <2>5 DEF IInv, TypeOK
<1>2. Unstarted' /\ Understood'
  BY DEF IInv, TypeOK, Unstarted, Understood, Frames
<1>3. Settled'
  BY DEF IInv, TypeOK, Unstarted, Understood, Settled, Caught, Told
<1>4. Caught' /\ OutcomeIsTold'
  BY DEF IInv, TypeOK, Unstarted, Understood, Settled, Caught, OutcomeIsTold, Told
<1> QED  BY <1>1, <1>2, <1>3, <1>4 DEF IInv

LEMMA SpawnInv == ASSUME IInv, Spawn PROVE IInv'
<1> USE DEF vars, pipe, read, stop, Spawn, Running
<1>1. TypeOK'
  <2>1. child' \in Child
    BY DEF IInv, TypeOK, Child
  <2>2. frame' \in Frames
    BY DEF IInv, TypeOK, Frames, Results
  <2>3. lease' \in Lease
    BY DEF IInv, TypeOK, Settled, Lease, Results
  <2>4. sent' \in Nat /\ got' \in 0..sent' /\ lost' \in 0..2
    BY DEF IInv, TypeOK, Unstarted, Settled, Told
  <2> QED  BY <2>1, <2>2, <2>3, <2>4 DEF IInv, TypeOK, Settled, Told, Ended, Reads
<1>2. Unstarted' /\ Understood'
  BY DEF IInv, TypeOK, Unstarted, Understood, Frames
<1>3. Settled'
  BY DEF IInv, TypeOK, Unstarted, Understood, Settled, Caught, Told
<1>4. Caught' /\ OutcomeIsTold'
  BY DEF IInv, TypeOK, Unstarted, Understood, Settled, Caught, OutcomeIsTold, Told
<1> QED  BY <1>1, <1>2, <1>3, <1>4 DEF IInv

LEMMA WrittenInv == ASSUME IInv, Written PROVE IInv'
<1> USE DEF vars, pipe, read, stop, Written, Running
<1>1. TypeOK'
  BY DEF IInv, TypeOK, Unstarted, Settled, Told, Ended, Reads
<1>2. Unstarted' /\ Understood'
  BY DEF IInv, TypeOK, Unstarted, Understood, Frames
<1>3. Settled'
  BY DEF IInv, TypeOK, Unstarted, Understood, Settled, Caught, Told
<1>4. Caught' /\ OutcomeIsTold'
  BY DEF IInv, TypeOK, Unstarted, Understood, Settled, Caught, OutcomeIsTold, Told
<1> QED  BY <1>1, <1>2, <1>3, <1>4 DEF IInv

LEMMA TimeoutInv == ASSUME IInv, Timeout PROVE IInv'
<1> USE DEF vars, pipe, read, stop, Timeout, Stopped, Armed, Running
<1>1. TypeOK'
  <2>1. child' \in Child
    BY DEF IInv, TypeOK, Child
  <2>2. frame' \in Frames
    BY DEF IInv, TypeOK, Frames, Results
  <2>3. lease' \in Lease
    BY DEF IInv, TypeOK, Settled, Lease, Results
  <2>4. sent' \in Nat /\ got' \in 0..sent' /\ lost' \in 0..2
    BY DEF IInv, TypeOK, Unstarted, Settled, Told
  <2>5. open' \in BOOLEAN /\ force' \in BOOLEAN
    BY DEF IInv, TypeOK
  <2> QED  BY <2>1, <2>2, <2>3, <2>4, <2>5 DEF IInv, TypeOK
<1>2. Unstarted' /\ Understood'
  BY DEF IInv, TypeOK, Unstarted, Understood, Frames
<1>3. Settled'
  BY DEF IInv, TypeOK, Unstarted, Understood, Settled, Caught, Told
<1>4. Caught' /\ OutcomeIsTold'
  BY DEF IInv, TypeOK, Unstarted, Understood, Settled, Caught, OutcomeIsTold, Told
<1> QED  BY <1>1, <1>2, <1>3, <1>4 DEF IInv

LEMMA SignalInv == ASSUME IInv, Signal PROVE IInv'
<1> USE DEF vars, pipe, read, stop, Signal, Stopped, Armed, Running
<1>1. TypeOK'
  <2>1. child' \in Child
    BY DEF IInv, TypeOK, Child
  <2>2. frame' \in Frames
    BY DEF IInv, TypeOK, Frames, Results
  <2>3. lease' \in Lease
    BY DEF IInv, TypeOK, Settled, Lease, Results
  <2>4. sent' \in Nat /\ got' \in 0..sent' /\ lost' \in 0..2
    BY DEF IInv, TypeOK, Unstarted, Settled, Told
  <2>5. open' \in BOOLEAN /\ force' \in BOOLEAN
    BY DEF IInv, TypeOK
  <2> QED  BY <2>1, <2>2, <2>3, <2>4, <2>5 DEF IInv, TypeOK
<1>2. Unstarted' /\ Understood'
  BY DEF IInv, TypeOK, Unstarted, Understood, Frames
<1>3. Settled'
  BY DEF IInv, TypeOK, Unstarted, Understood, Settled, Caught, Told
<1>4. Caught' /\ OutcomeIsTold'
  BY DEF IInv, TypeOK, Unstarted, Understood, Settled, Caught, OutcomeIsTold, Told
<1> QED  BY <1>1, <1>2, <1>3, <1>4 DEF IInv

LEMMA ForceKillInv == ASSUME IInv, ForceKill PROVE IInv'
<1> USE DEF vars, pipe, read, stop, ForceKill, Alive, Ended, Running
<1>1. TypeOK'
  <2>1. child' \in Child
    BY DEF IInv, TypeOK, Child
  <2>2. frame' \in Frames
    BY DEF IInv, TypeOK, Frames, Results
  <2>3. lease' \in Lease
    BY DEF IInv, TypeOK, Settled, Lease, Results
  <2>4. sent' \in Nat /\ got' \in 0..sent' /\ lost' \in 0..2
    BY DEF IInv, TypeOK, Unstarted, Settled, Told
  <2>5. open' \in BOOLEAN /\ force' \in BOOLEAN
    BY DEF IInv, TypeOK
  <2> QED  BY <2>1, <2>2, <2>3, <2>4, <2>5 DEF IInv, TypeOK
<1>2. Unstarted' /\ Understood'
  BY DEF IInv, TypeOK, Unstarted, Understood, Frames
<1>3. Settled'
  BY DEF IInv, TypeOK, Unstarted, Understood, Settled, Caught, Told
<1>4. Caught' /\ OutcomeIsTold'
  BY DEF IInv, TypeOK, Unstarted, Understood, Settled, Caught, OutcomeIsTold, Told
<1> QED  BY <1>1, <1>2, <1>3, <1>4 DEF IInv

LEMMA WriteFailsInv == ASSUME IInv, WriteFails PROVE IInv'
<1> USE DEF vars, pipe, read, stop, WriteFails, CleanedUp, Stopped, Running
<1>1. TypeOK'
  <2>1. child' \in Child
    BY DEF IInv, TypeOK, Child
  <2>2. frame' \in Frames
    BY DEF IInv, TypeOK, Frames, Results
  <2>3. lease' \in Lease
    BY DEF IInv, TypeOK, Settled, Lease, Results
  <2>4. sent' \in Nat /\ got' \in 0..sent' /\ lost' \in 0..2
    BY DEF IInv, TypeOK, Unstarted, Settled, Told
  <2> QED  BY <2>1, <2>2, <2>3, <2>4 DEF IInv, TypeOK, Settled, Told, Ended, Reads
<1>2. Unstarted' /\ Understood'
  BY DEF IInv, TypeOK, Unstarted, Understood, Frames
<1>3. Settled'
  BY DEF IInv, TypeOK, Unstarted, Understood, Settled, Caught, Told
<1>4. Caught' /\ OutcomeIsTold'
  BY DEF IInv, TypeOK, Unstarted, Understood, Settled, Caught, OutcomeIsTold, Told
<1> QED  BY <1>1, <1>2, <1>3, <1>4 DEF IInv

LEMMA FailsInv == ASSUME IInv, Fails PROVE IInv'
<1> USE DEF vars, pipe, read, stop, Fails, CleanedUp, Stopped, Running
<1>1. TypeOK'
  <2>1. child' \in Child
    BY DEF IInv, TypeOK, Child
  <2>2. frame' \in Frames
    BY DEF IInv, TypeOK, Frames, Results
  <2>3. lease' \in Lease
    BY DEF IInv, TypeOK, Settled, Lease, Results
  <2>4. sent' \in Nat /\ got' \in 0..sent' /\ lost' \in 0..2
    BY DEF IInv, TypeOK, Unstarted, Settled, Told
  <2> QED  BY <2>1, <2>2, <2>3, <2>4 DEF IInv, TypeOK, Settled, Told, Ended, Reads
<1>2. Unstarted' /\ Understood'
  BY DEF IInv, TypeOK, Unstarted, Understood, Frames
<1>3. Settled'
  BY DEF IInv, TypeOK, Unstarted, Understood, Settled, Caught, Told
<1>4. Caught' /\ OutcomeIsTold'
  BY DEF IInv, TypeOK, Unstarted, Understood, Settled, Caught, OutcomeIsTold, Told
<1> QED  BY <1>1, <1>2, <1>3, <1>4 DEF IInv

LEMMA JoinedInv == ASSUME IInv, Joined PROVE IInv'
<1> USE DEF vars, pipe, read, stop, Joined, CleanedUp, AfterChild, Stopped, Running
<1>1. TypeOK'
  <2>1. child' \in Child
    BY DEF IInv, TypeOK, Child
  <2>2. frame' \in Frames
    BY DEF IInv, TypeOK, Frames, Results
  <2>3. lease' \in Lease
    BY DEF IInv, TypeOK, Settled, Lease, Results
  <2>4. sent' \in Nat /\ got' \in 0..sent' /\ lost' \in 0..2
    BY DEF IInv, TypeOK, Unstarted, Settled, Told
  <2> QED  BY <2>1, <2>2, <2>3, <2>4 DEF IInv, TypeOK, Settled, Told, Ended, Reads
<1>2. Unstarted' /\ Understood'
  BY DEF IInv, TypeOK, Unstarted, Understood, Frames
<1>3. Settled'
  BY DEF IInv, TypeOK, Unstarted, Understood, Settled, Caught, Told
<1>4. Caught' /\ OutcomeIsTold'
  BY DEF IInv, TypeOK, Unstarted, Understood, Settled, Caught, OutcomeIsTold, Told
<1> QED  BY <1>1, <1>2, <1>3, <1>4 DEF IInv

LEMMA ConfigureInv == ASSUME IInv, Configure PROVE IInv'
<1> USE DEF vars, pipe, read, stop, Configure, Running
<1>1. TypeOK'
  BY DEF IInv, TypeOK, Unstarted, Settled, Told, Ended, Reads
<1>2. Unstarted' /\ Understood'
  BY DEF IInv, TypeOK, Unstarted, Understood, Frames
<1>3. Settled'
  BY DEF IInv, TypeOK, Unstarted, Understood, Settled, Caught, Told
<1>4. Caught' /\ OutcomeIsTold'
  BY DEF IInv, TypeOK, Unstarted, Understood, Settled, Caught, OutcomeIsTold, Told
<1> QED  BY <1>1, <1>2, <1>3, <1>4 DEF IInv

LEMMA GetInv == ASSUME IInv, Get PROVE IInv'
<1> USE DEF vars, pipe, read, stop, Get, Running
<1>1. TypeOK'
  BY DEF IInv, TypeOK, Unstarted, Settled, Told, Ended, Reads
<1>2. Unstarted' /\ Understood'
  BY DEF IInv, TypeOK, Unstarted, Understood, Frames
<1>3. Settled'
  BY DEF IInv, TypeOK, Unstarted, Understood, Settled, Caught, Told
<1>4. Caught' /\ OutcomeIsTold'
  BY DEF IInv, TypeOK, Unstarted, Understood, Settled, Caught, OutcomeIsTold, Told
<1> QED  BY <1>1, <1>2, <1>3, <1>4 DEF IInv

LEMMA AbortInv == ASSUME IInv, Abort PROVE IInv'
<1> USE DEF vars, pipe, read, stop, Abort, Settle, RolledBack, AbortedFor, Benign, Running
<1>1. TypeOK'
  <2>1. child' \in Child
    BY DEF IInv, TypeOK, Child
  <2>2. frame' \in Frames
    BY DEF IInv, TypeOK, Frames, Results
  <2>3. lease' \in Lease
    BY DEF IInv, TypeOK, Settled, Lease, Results, Reasons
  <2>4. sent' \in Nat /\ got' \in 0..sent' /\ lost' \in 0..2
    BY DEF IInv, TypeOK, Unstarted, Settled, Told
  <2> QED  BY <2>1, <2>2, <2>3, <2>4 DEF IInv, TypeOK, Settled, Told, Ended, Reads
<1>2. Unstarted' /\ Understood'
  BY DEF IInv, TypeOK, Unstarted, Understood, Frames
<1>3. Settled'
  BY DEF IInv, TypeOK, Understood, Settled, Caught, Told, Lease
<1>4. Caught'
  BY DEF IInv, TypeOK, Settled, Caught, Told, Reasons
<1>5. OutcomeIsTold'
  BY DEF IInv, TypeOK, Settled, Caught, OutcomeIsTold, Told, Reasons
<1> QED  BY <1>1, <1>2, <1>3, <1>4, <1>5 DEF IInv

LEMMA RefuseInv == ASSUME IInv, Refuse PROVE IInv'
<1> USE DEF vars, pipe, read, stop, Refuse, Settle, RolledBack, AbortedFor, Benign, Running
<1>1. TypeOK'
  <2>1. child' \in Child
    BY DEF IInv, TypeOK, Child
  <2>2. frame' \in Frames
    BY DEF IInv, TypeOK, Frames, Results
  <2>3. lease' \in Lease
    BY DEF IInv, TypeOK, Settled, Lease, Results, Reasons
  <2>4. sent' \in Nat /\ got' \in 0..sent' /\ lost' \in 0..2
    BY DEF IInv, TypeOK, Unstarted, Settled, Told
  <2> QED  BY <2>1, <2>2, <2>3, <2>4 DEF IInv, TypeOK, Settled, Told, Ended, Reads
<1>2. Unstarted' /\ Understood'
  BY DEF IInv, TypeOK, Unstarted, Understood, Frames
<1>3. Settled'
  BY DEF IInv, TypeOK, Understood, Settled, Caught, Told, Lease
<1>4. Caught'
  BY DEF IInv, TypeOK, Settled, Caught, Told, Reasons
<1>5. OutcomeIsTold'
  BY DEF IInv, TypeOK, Settled, Caught, OutcomeIsTold, Told, Reasons
<1> QED  BY <1>1, <1>2, <1>3, <1>4, <1>5 DEF IInv

LEMMA PutInv == ASSUME IInv, Put PROVE IInv'
<1> USE DEF vars, pipe, read, stop, Put, Settle, RolledBack, AbortedFor, Benign, Running
<1>1. TypeOK'
  <2>1. child' \in Child
    BY DEF IInv, TypeOK, Child
  <2>2. frame' \in Frames
    BY DEF IInv, TypeOK, Frames, Results
  <2>3. lease' \in Lease
    BY DEF IInv, TypeOK, Settled, Lease, Results, Reasons
  <2>4. sent' \in Nat /\ got' \in 0..sent' /\ lost' \in 0..2
    BY DEF IInv, TypeOK, Unstarted, Settled, Told
  <2> QED  BY <2>1, <2>2, <2>3, <2>4 DEF IInv, TypeOK, Settled, Told, Ended, Reads
<1>2. Unstarted' /\ Understood'
  BY DEF IInv, TypeOK, Unstarted, Understood, Frames
<1>3. Settled'
  BY DEF IInv, TypeOK, Understood, Settled, Caught, Told, Lease
<1>4. Caught'
  BY DEF IInv, TypeOK, Settled, Caught, Told, Reasons, Lease
<1>5. OutcomeIsTold'
  BY DEF IInv, TypeOK, Settled, Caught, OutcomeIsTold, Told, Reasons
<1> QED  BY <1>1, <1>2, <1>3, <1>4, <1>5 DEF IInv

LEMMA CatchInv == ASSUME IInv, Catch PROVE IInv'
<1> USE DEF vars, pipe, read, stop, Catch, Settle, RolledBack, AbortedFor, Benign, Running
<1>1. TypeOK'
  <2>1. child' \in Child
    BY DEF IInv, TypeOK, Child
  <2>2. frame' \in Frames
    BY DEF IInv, TypeOK, Frames, Results
  <2>3. lease' \in Lease
    BY DEF IInv, TypeOK, Settled, Lease, Results, Reasons
  <2>4. sent' \in Nat /\ got' \in 0..sent' /\ lost' \in 0..2
    BY DEF IInv, TypeOK, Unstarted, Settled, Told
  <2> QED  BY <2>1, <2>2, <2>3, <2>4 DEF IInv, TypeOK, Settled, Told, Ended, Reads
<1>2. Unstarted' /\ Understood'
  BY DEF IInv, TypeOK, Unstarted, Understood, Frames
<1>3. Settled'
  BY DEF IInv, TypeOK, Understood, Settled, Caught, Told, Lease
<1>4. Caught' /\ OutcomeIsTold'
  BY DEF IInv, TypeOK, Understood, Settled, Caught, OutcomeIsTold, Told, Lease, Reasons
<1> QED  BY <1>1, <1>2, <1>3, <1>4 DEF IInv

LEMMA UnhandledInv == ASSUME IInv, Unhandled PROVE IInv'
<1> USE DEF vars, pipe, read, stop, Unhandled, Running
<1>1. TypeOK'
  BY DEF IInv, TypeOK, Unstarted, Settled, Told, Ended, Reads
<1>2. Unstarted' /\ Understood'
  BY DEF IInv, TypeOK, Unstarted, Understood, Frames
<1>3. Settled'
  BY DEF IInv, TypeOK, Unstarted, Understood, Settled, Caught, Told
<1>4. Caught' /\ OutcomeIsTold'
  BY DEF IInv, TypeOK, Unstarted, Understood, Settled, Caught, OutcomeIsTold, Told
<1> QED  BY <1>1, <1>2, <1>3, <1>4 DEF IInv

LEMMA DieInv == ASSUME IInv, Die PROVE IInv'
<1> USE DEF vars, pipe, read, stop, Die, Alive, Ended, Running
<1>1. TypeOK'
  BY DEF IInv, TypeOK, Unstarted, Settled, Told, Ended, Reads
<1>2. Unstarted' /\ Understood'
  BY DEF IInv, TypeOK, Unstarted, Understood, Frames
<1>3. Settled'
  BY DEF IInv, TypeOK, Unstarted, Understood, Settled, Caught, Told
<1>4. Caught' /\ OutcomeIsTold'
  BY DEF IInv, TypeOK, Unstarted, Understood, Settled, Caught, OutcomeIsTold, Told
<1> QED  BY <1>1, <1>2, <1>3, <1>4 DEF IInv

LEMMA LapseInv == ASSUME IInv, Lapse PROVE IInv'
<1> USE DEF vars, pipe, read, stop, Lapse, AbortedFor, Running
<1>1. TypeOK'
  <2>1. child' \in Child
    BY DEF IInv, TypeOK, Child
  <2>2. frame' \in Frames
    BY DEF IInv, TypeOK, Frames, Results
  <2>3. lease' \in Lease
    BY DEF IInv, TypeOK, Settled, Lease, Results
  <2>4. sent' \in Nat /\ got' \in 0..sent' /\ lost' \in 0..2
    BY DEF IInv, TypeOK, Unstarted, Settled, Told
  <2> QED  BY <2>1, <2>2, <2>3, <2>4 DEF IInv, TypeOK, Settled, Told, Ended, Reads
<1>2. Unstarted' /\ Understood'
  BY DEF IInv, TypeOK, Unstarted, Understood, Frames
<1>3. Settled'
  BY DEF IInv, TypeOK, Unstarted, Understood, Settled, Caught, Told
<1>4. Caught' /\ OutcomeIsTold'
  BY DEF IInv, TypeOK, Unstarted, Understood, Settled, Caught, OutcomeIsTold, Told
<1> QED  BY <1>1, <1>2, <1>3, <1>4 DEF IInv

LEMMA StutterInv == ASSUME IInv, UNCHANGED vars PROVE IInv'
BY DEF vars, pipe, read, stop, IInv, TypeOK, Unstarted, Understood, Settled, Caught,
       OutcomeIsTold, Running

LEMMA NextInv == ASSUME IInv, [Next]_vars PROVE IInv'
<1>1. CASE Cli
  <2>1. CASE \E n \in 1..(Header + MaxBytes + 1) : ReadChunk(n)
    BY <2>1, ReadChunkInv
  <2> QED
    BY <1>1, <2>1, ConfigureInv, GetInv, SpawnInv, WrittenInv, WriteFailsInv, FailsInv,
       JoinedInv, AbortInv, RefuseInv, PutInv, CatchInv, ReadEndInv DEF Cli
<1>2. CASE User
  <2>1. CASE \E result \in Results, n \in 1..MaxBytes : Finish(result, n)
    BY <2>1, FinishInv
  <2>2. CASE \E n \in 1..(Header + MaxBytes + 1) : Flush(n) \/ Scribble(n)
    BY <2>2, FlushInv, ScribbleInv
  <2>3. CASE \E st \in {"ok", "error", "signal"} : Exit(st)
    BY <2>3, ExitInv
  <2> QED
    BY <1>2, <2>1, <2>2, <2>3, TakeInv, ReleasedInv DEF User
<1> QED
  BY <1>1, <1>2, TimeoutInv, SignalInv, ForceKillInv, UnhandledInv, DieInv, LapseInv,
     StutterInv DEF Next

-----------------------------------------------------------------------------
(***************************************************************************)
(* The theorems.                                                           *)
(***************************************************************************)
THEOREM ChildInvariant == Spec => []IInv
BY InitInv, NextInv, PTL DEF Spec

LEMMA InvImpliesCommitIsWhole == ASSUME IInv PROVE CommitIsWhole
<1>1. lease.st = "committed" => sent \in Nat /\ frame.len = sent - Header
  BY DEF IInv, TypeOK, Understood, Settled, Frames
<1> QED
  BY <1>1 DEF IInv, TypeOK, Understood, Settled, CommitIsWhole, Decode, Frames

\* The state of a browser-session command, its child and the pipe between them
\* is well typed; the reader never takes more than was written.
THEOREM ChildTypeCorrect == Spec => []TypeOK
<1>1. IInv => TypeOK
  BY DEF IInv
<1> QED  BY <1>1, ChildInvariant, PTL

\* A commit is whole (runBrowserSessionChild and the PUT of
\* browserSessionCommand): one frame, nothing after it, of a child that ended
\* with 0, for every length of the prefix, the frame and the chunks.
THEOREM ChildCommitIsWhole == Spec => []CommitIsWhole
<1>1. IInv => CommitIsWhole
  BY InvImpliesCommitIsWhole
<1> QED  BY <1>1, ChildInvariant, PTL

\* The exit code of the command agrees with the lease at the Worker, whichever
\* call was lost and whenever the child ended (browserSessionCommand, catch).
THEOREM ChildOutcomeIsTold == Spec => []OutcomeIsTold
<1>1. IInv => OutcomeIsTold
  BY DEF IInv
<1> QED  BY <1>1, ChildInvariant, PTL

-----------------------------------------------------------------------------
(***************************************************************************)
(* Releases on one machine.  Every invocation past its start is about a    *)
(* release.                                                                *)
(***************************************************************************)
LEMMA MissingIsNoVersion == Missing \notin Versions
BY DEF Missing, Versions

RelJob == [cmd   : UpdateCommands,
           pc    : {"start", "download", "backup", "install", "restore", "tidy",
                    "artifact"} \union Changing \union Reading \union Gone,
           own   : 0..MaxVersion,
           ver   : 0..MaxVersion,
           files : SUBSET Files,
           seen  : SUBSET Client,
           doubt : BOOLEAN]

Started(l)  == l \in RelJob /\ (l.pc # "start" => l.ver \in Versions)
RelTypeInv  == ReleaseTypeOK /\ \A p \in Updaters : Started(job[p])

LEMMA RelPcs ==
    ASSUME NEW l \in RelJob
    PROVE  l.pc \in {"start", "download", "backup", "install", "restore", "tidy", "artifact",
                     "clear", "fetch", "extract", "discard", "check", "list", "send", "worker",
                     "done", "current", "given", "failed", "stranded", "killed"}
BY DEF RelJob, Changing, Reading, Gone

\* One invocation goes on.
LEMMA RelJobType ==
    ASSUME RelTypeInv, NEW p \in Updaters, NEW l, Started(l), SetJob(p, l)
    PROVE  /\ job' \in [Updaters -> RelJob]
           /\ \A q \in Updaters : Started(job'[q])
           /\ \A q \in Updaters : job'[q] = IF q = p THEN l ELSE job[q]
<1>1. job \in [Updaters -> RelJob]
  BY DEF RelTypeInv, ReleaseTypeOK, RelJob
<1>2. job' = [job EXCEPT ![p] = l]
  BY DEF SetJob
<1>3. \A q \in Updaters : job'[q] = IF q = p THEN l ELSE job[q]
  BY <1>1, <1>2
<1>4. l \in RelJob
  BY DEF Started
<1> QED
  BY <1>1, <1>2, <1>3, <1>4 DEF RelTypeInv

LEMMA RelStepType ==
    ASSUME RelTypeInv, NEW p \in Updaters, job[p].pc # "start", NEW step, Advance(p, step),
           step \in {"backup", "install", "restore", "tidy", "fetch", "extract", "discard", "check",
                     "done", "given", "failed", "stranded", "killed"}
    PROVE  /\ job' \in [Updaters -> RelJob]
           /\ \A q \in Updaters : Started(job'[q])
           /\ \A q \in Updaters \ {p} : job'[q] = job[q]
           /\ job'[p] = [job[p] EXCEPT !.pc = step]
           /\ job'[p].pc = step
<1> DEFINE l == [job[p] EXCEPT !.pc = step]
<1>1. Started(job[p]) /\ job[p] \in RelJob
  BY DEF RelTypeInv, Started
<1>2. l \in RelJob /\ l.ver = job[p].ver /\ l.pc = step
  BY <1>1 DEF RelJob, Changing, Reading, Gone
<1>3. Started(l)
  BY <1>1, <1>2 DEF Started
<1>4. SetJob(p, l)
  BY DEF Advance
<1> HIDE DEF l
<1>5. /\ job' \in [Updaters -> RelJob]
      /\ \A q \in Updaters : Started(job'[q])
      /\ \A q \in Updaters : job'[q] = IF q = p THEN l ELSE job[q]
  BY <1>3, <1>4, RelJobType
<1> QED
  BY <1>2, <1>5 DEF l

LEMMA RelTypeInit == ReleaseInit => RelTypeInv
<1> SUFFICES ASSUME ReleaseInit PROVE RelTypeInv
  OBVIOUS
<1>1. 1 \in Versions
  BY ReleaseAssumption DEF Versions
<1>2. \A cmd \in UpdateCommands : New(cmd) \in RelJob /\ New(cmd).pc = "start"
  BY ReleaseAssumption DEF New, RelJob
<1>3. \A p \in Updaters : job[p] \in RelJob /\ job[p].pc = "start"
  BY <1>2 DEF ReleaseInit
<1>4. job \in [Updaters -> RelJob]
  BY <1>2 DEF ReleaseInit
<1>5. dir \in [Versions -> [Files -> Absent..Whole]]
  BY DEF ReleaseInit, Absent, Whole
<1>6. ReleaseTypeOK
  BY <1>1, <1>4, <1>5 DEF ReleaseInit, ReleaseTypeOK, RelJob
<1> QED
  BY <1>3, <1>6 DEF RelTypeInv, Started

\* The invocations have their type, and the rest is left alone.
LEMMA RelTypeFrame ==
    ASSUME RelTypeInv, latest' \in Versions, exe' \in Versions \union {Missing},
           bak' \in [Updaters -> Versions \union {Missing}],
           dir' \in [Versions -> [Files -> Absent..Whole]],
           job' \in [Updaters -> RelJob], \A q \in Updaters : Started(job'[q]),
           spoiled' \subseteq Versions
    PROVE  RelTypeInv'
BY DEF RelTypeInv, ReleaseTypeOK, RelJob, Started

\* What the conjuncts of the type say of one invocation.
LEMMA RelTyped ==
    ASSUME RelTypeInv
    PROVE  /\ latest \in Versions /\ exe \in Versions \union {Missing}
           /\ bak \in [Updaters -> Versions \union {Missing}]
           /\ dir \in [Versions -> [Files -> Absent..Whole]]
           /\ job \in [Updaters -> RelJob]
           /\ \A p \in Updaters : job[p] \in RelJob /\ Started(job[p])
           /\ spoiled \subseteq Versions
<1>1. job \in [Updaters -> RelJob]
  BY DEF RelTypeInv, ReleaseTypeOK, RelJob
<1> QED
  BY <1>1 DEF RelTypeInv, ReleaseTypeOK

LEMMA RelStartType ==
    ASSUME RelTypeInv, NEW p \in Updaters, Launch(p)
    PROVE  RelTypeInv'
<1> DEFINE v  == Target(job[p].cmd)
           step == CASE job[p].cmd \in {"create", "update"} -> "artifact"
                   [] job[p].cmd = "self" /\ exe >= v     -> "current"
                   [] job[p].cmd = "both" /\ exe >= v     -> "artifact"
                   [] OTHER                               -> "download"
           l  == [job[p] EXCEPT !.own = exe, !.ver = v, !.pc = step]
<1>1. exe \in Versions /\ latest \in Versions
  BY RelTyped DEF Launch
<1>2. v \in Versions /\ v \in 0..MaxVersion /\ exe \in 0..MaxVersion
  BY <1>1, ReleaseAssumption DEF Target, Versions
<1>3. step \in {"artifact", "current", "download"}
  OBVIOUS
<1>4. SetJob(p, l)
  BY DEF Launch
<1> HIDE DEF v, step
<1>5. job[p] \in RelJob
  BY RelTyped
<1>6. l \in RelJob /\ l.ver = v /\ l.pc = step
  BY <1>2, <1>3, <1>5 DEF RelJob, Gone
<1>7. Started(l)
  BY <1>2, <1>6 DEF Started
<1> HIDE DEF l
<1>8. job' \in [Updaters -> RelJob] /\ \A q \in Updaters : Started(job'[q])
  BY <1>4, <1>7, RelJobType
<1> QED
  BY <1>8, RelTyped, RelTypeFrame DEF Launch

\* Actions that take one invocation from one pc to the next.
LEMMA RelStepsType ==
    ASSUME RelTypeInv, NEW p \in Updaters,
           \/ CallFails(p) \/ Interrupted(p) \/ Downloaded(p) \/ Backup(p)
           \/ Install(p) \/ Restore(p) \/ Given(p) \/ Removed(p)
           \/ Extracted(p) \/ ExtractFails(p)
    PROVE  RelTypeInv'
<1> USE RelTyped
<1>1. CASE CallFails(p)
  <2>1. job[p].pc # "start" /\ Advance(p, "failed")
    BY <1>1 DEF CallFails
  <2> QED
    BY <1>1, <2>1, RelStepType, RelTypeFrame DEF CallFails
<1>2. CASE Interrupted(p)
  <2>1. job[p].pc # "start" /\ Advance(p, "killed")
    BY <1>2 DEF Interrupted
  <2>2. spoiled' \subseteq Versions
    BY <1>2, <2>1 DEF Interrupted, Started
  <2> QED
    BY <1>2, <2>1, <2>2, RelStepType, RelTypeFrame DEF Interrupted
<1>3. CASE Downloaded(p)
  <2>1. job[p].pc # "start" /\ \E step \in {"backup", "extract"} : Advance(p, step)
    BY <1>3 DEF Downloaded
  <2> QED
    BY <1>3, <2>1, RelStepType, RelTypeFrame DEF Downloaded
<1>4. CASE Backup(p)
  <2>1. job[p].pc # "start" /\ \E step \in {"install", "failed"} : Advance(p, step)
    BY <1>4 DEF Backup
  <2>2. /\ exe' \in Versions \union {Missing}
        /\ bak' \in [Updaters -> Versions \union {Missing}]
    BY <1>4 DEF Backup, Moved
  <2> QED
    BY <1>4, <2>1, <2>2, RelStepType, RelTypeFrame DEF Backup
<1>5. CASE Install(p)
  <2>1. job[p].pc # "start" /\ \E step \in {"tidy", "restore"} : Advance(p, step)
    BY <1>5 DEF Install
  <2>2. exe' \in Versions \union {Missing}
    BY <1>5, <2>1 DEF Install, Started
  <2> QED
    BY <1>5, <2>1, <2>2, RelStepType, RelTypeFrame DEF Install
<1>6. CASE Restore(p)
  <2>1. job[p].pc # "start" /\ \E step \in {"failed", "stranded"} : Advance(p, step)
    BY <1>6 DEF Restore
  <2>2. /\ exe' \in Versions \union {Missing}
        /\ bak' \in [Updaters -> Versions \union {Missing}]
    BY <1>6 DEF Restore
  <2> QED
    BY <1>6, <2>1, <2>2, RelStepType, RelTypeFrame DEF Restore
<1>7. CASE Given(p)
  <2>1. job[p].pc # "start" /\ Advance(p, "given")
    BY <1>7 DEF Given
  <2> QED
    BY <1>7, <2>1, RelStepType, RelTypeFrame DEF Given
<1>8. CASE Removed(p)
  <2>1. job[p].pc # "start" /\ \E step \in {"fetch", "failed"} : Advance(p, step)
    BY <1>8 DEF Removed
  <2>2. spoiled' \subseteq Versions
    BY <1>8 DEF Removed
  <2> QED
    BY <1>8, <2>1, <2>2, RelStepType, RelTypeFrame DEF Removed
<1>9. CASE Extracted(p)
  <2>1. job[p].pc # "start" /\ Advance(p, "check")
    BY <1>9 DEF Extracted
  <2> QED
    BY <1>9, <2>1, RelStepType, RelTypeFrame DEF Extracted
<1>10. CASE ExtractFails(p)
  <2>1. job[p].pc # "start" /\ Advance(p, "discard")
    BY <1>10 DEF ExtractFails, AfterFailure
  <2> QED
    BY <1>10, <2>1, RelStepType, RelTypeFrame DEF ExtractFails
<1> QED
  BY <1>1, <1>2, <1>3, <1>4, <1>5, <1>6, <1>7, <1>8, <1>9, <1>10

\* Tidy and Cancelled: the invocation is done, or goes on with vault update.
LEMMA RelReturnedType ==
    ASSUME RelTypeInv, NEW p \in Updaters, job[p].pc # "start", Returned(p)
    PROVE  /\ job' \in [Updaters -> RelJob]
           /\ \A q \in Updaters : Started(job'[q])
           /\ \A q \in Updaters \ {p} : job'[q] = job[q]
           /\ job'[p].pc \in {"artifact", "done"}
<1>1. CASE job[p].cmd = "both"
  <2> DEFINE l == [job[p] EXCEPT !.pc = "artifact", !.ver = latest]
  <2>1. job[p] \in RelJob /\ latest \in Versions
    BY RelTyped
  <2>2. latest \in 0..MaxVersion
    BY <2>1, ReleaseAssumption DEF Versions
  <2>3. l \in RelJob /\ l.ver = latest /\ l.pc = "artifact"
    BY <2>1, <2>2 DEF RelJob
  <2>4. SetJob(p, l)
    BY <1>1 DEF Returned, Target
  <2> HIDE DEF l
  <2>5. Started(l)
    BY <2>1, <2>3 DEF Started
  <2> QED
    BY <2>3, <2>4, <2>5, RelJobType
<1>2. CASE job[p].cmd # "both"
  BY <1>2, RelStepType DEF Returned
<1> QED
  BY <1>1, <1>2

\* Actions that leave an invocation's release alone, and record what it does.
LEMMA RelUseType ==
    ASSUME RelTypeInv, NEW p \in Updaters,
           \/ Reuse(p) \/ Checked(p) \/ List(p) \/ Send(p) \/ Deploy(p)
    PROVE  /\ RelTypeInv'
           /\ job[p].pc \in {"artifact", "check", "list", "send", "worker"}
           /\ job'[p].pc \in {"list", "send", "worker", "done", "failed"}
           /\ \A q \in Updaters \ {p} : job'[q] = job[q]
<1>1. /\ UNCHANGED <<latest, exe, bak, dir, spoiled>>
      /\ job[p].pc \in {"artifact", "check", "list", "send", "worker"}
      /\ \/ Advance(p, "failed")
         \/ \E step \in {"list", "send", "worker", "done"}, files \in SUBSET Files,
               seen \in SUBSET Client, doubt \in BOOLEAN :
               SetJob(p, [job[p] EXCEPT !.pc = step, !.files = files, !.seen = seen,
                                            !.doubt = doubt])
  <2>1. job[p] \in RelJob
    BY RelTyped
  <2>2. /\ job[p].files \in SUBSET Files /\ job[p].seen \in SUBSET Client
        /\ job[p].doubt \in BOOLEAN
    BY <2>1 DEF RelJob
  <2>3. Present(p) \subseteq Files /\ Intact(p) \subseteq Files
    BY DEF Present, Intact
  <2>4. /\ [job[p] EXCEPT !.files = job[p].files] = job[p]
        /\ [job[p] EXCEPT !.seen = job[p].seen] = job[p]
        /\ [job[p] EXCEPT !.doubt = job[p].doubt] = job[p]
    BY <2>1 DEF RelJob
  <2>5. CASE Reuse(p)
    <3> DEFINE doubt == \/ job[p].ver \in spoiled
                        \/ Users(p, Changing) # {}
    <3>1. SetJob(p, [job[p] EXCEPT !.pc = "list", !.doubt = doubt])
      BY <2>5 DEF Reuse
    <3>2. doubt \in BOOLEAN
      OBVIOUS
    <3> HIDE DEF doubt
    <3>3. [job[p] EXCEPT !.pc = "list", !.doubt = doubt]
            = [job[p] EXCEPT !.pc = "list", !.files = job[p].files, !.seen = job[p].seen,
                             !.doubt = doubt]
      BY <2>1 DEF RelJob
    <3>4. SetJob(p, [job[p] EXCEPT !.pc = "list", !.files = job[p].files,
                                       !.seen = job[p].seen, !.doubt = doubt])
      BY <3>1, <3>3
    <3> QED
      BY <2>2, <2>5, <3>2, <3>4, Zenon DEF Reuse
  <2>6. CASE Checked(p)
    <3>1. [job[p] EXCEPT !.pc = "list", !.files = {}]
            = [job[p] EXCEPT !.pc = "list", !.files = {}, !.seen = job[p].seen,
                             !.doubt = job[p].doubt]
      BY <2>1 DEF RelJob
    <3> QED
      BY <2>2, <2>6, <3>1 DEF Checked
  <2>7. CASE List(p)
    <3> DEFINE seen  == Present(p) \intersect Client
               files == Intact(p) \intersect Client
    <3>1. seen \in SUBSET Client /\ files \in SUBSET Files
      BY <2>3
    <3>2. \/ Advance(p, "failed")
          \/ SetJob(p, [job[p] EXCEPT !.pc = "send", !.seen = seen, !.files = files])
      BY <2>7 DEF List
    <3> HIDE DEF seen, files
    <3>3. [job[p] EXCEPT !.pc = "send", !.seen = seen, !.files = files]
            = [job[p] EXCEPT !.pc = "send", !.files = files, !.seen = seen,
                             !.doubt = job[p].doubt]
      BY <2>1 DEF RelJob
    <3> QED
      BY <2>2, <2>7, <3>1, <3>2, <3>3, ZenonT(40) DEF List
  <2>8. CASE Send(p)
    <3> DEFINE files == job[p].files \intersect Intact(p)
    <3>1. files \in SUBSET Files
      BY <2>3
    <3>2. \/ Advance(p, "failed")
          \/ SetJob(p, [job[p] EXCEPT !.pc = "worker", !.files = files])
      BY <2>1, <2>8 DEF Send, RelJob
    <3> HIDE DEF files
    <3>3. [job[p] EXCEPT !.pc = "worker", !.files = files]
            = [job[p] EXCEPT !.pc = "worker", !.files = files, !.seen = job[p].seen,
                             !.doubt = job[p].doubt]
      BY <2>1 DEF RelJob
    <3>4. \/ Advance(p, "failed")
          \/ SetJob(p, [job[p] EXCEPT !.pc = "worker", !.files = files,
                                          !.seen = job[p].seen, !.doubt = job[p].doubt])
      BY <3>2, <3>3
    <3> QED
      BY <2>2, <2>8, <3>1, <3>4, Zenon DEF Send
  <2>9. CASE Deploy(p)
    <3> DEFINE files == job[p].files \union ({"index.js"} \intersect Intact(p))
    <3>1. files \in SUBSET Files
      BY <2>2, <2>3
    <3>2. \/ Advance(p, "failed")
          \/ SetJob(p, [job[p] EXCEPT !.pc = "done", !.files = files])
      BY <2>1, <2>9 DEF Deploy, RelJob
    <3> HIDE DEF files
    <3>3. [job[p] EXCEPT !.pc = "done", !.files = files]
            = [job[p] EXCEPT !.pc = "done", !.files = files, !.seen = job[p].seen,
                             !.doubt = job[p].doubt]
      BY <2>1 DEF RelJob
    <3>4. \/ Advance(p, "failed")
          \/ SetJob(p, [job[p] EXCEPT !.pc = "done", !.files = files,
                                          !.seen = job[p].seen, !.doubt = job[p].doubt])
      BY <3>2, <3>3
    <3> QED
      BY <2>2, <2>9, <3>1, <3>4, Zenon DEF Deploy
  <2> QED
    BY <2>5, <2>6, <2>7, <2>8, <2>9
<1>2. /\ job' \in [Updaters -> RelJob]
      /\ \A q \in Updaters : Started(job'[q])
      /\ \A q \in Updaters \ {p} : job'[q] = job[q]
      /\ job'[p].pc \in {"list", "send", "worker", "done", "failed"}
  <2>1. CASE Advance(p, "failed")
    BY <1>1, <2>1, RelStepType
  <2>2. ASSUME NEW step \in {"list", "send", "worker", "done"}, NEW files \in SUBSET Files,
               NEW seen \in SUBSET Client, NEW doubt \in BOOLEAN,
               SetJob(p, [job[p] EXCEPT !.pc = step, !.files = files, !.seen = seen,
                                            !.doubt = doubt])
        PROVE  <1>2!1 /\ <1>2!2 /\ <1>2!3 /\ <1>2!4
    <3> DEFINE l == [job[p] EXCEPT !.pc = step, !.files = files, !.seen = seen, !.doubt = doubt]
    <3>1. job[p] \in RelJob /\ Started(job[p])
      BY RelTyped
    <3>2. l \in RelJob /\ l.ver = job[p].ver /\ l.pc = step
      BY <3>1 DEF RelJob, Reading, Gone
    <3>3. SetJob(p, l)
      BY <2>2
    <3> HIDE DEF l
    <3>4. Started(l)
      BY <1>1, <3>1, <3>2 DEF Started
    <3> QED
      BY <3>2, <3>3, <3>4, RelJobType
  <2> QED
    BY <1>1, <2>1, <2>2
<1>3. RelTypeInv'
  BY <1>1, <1>2, RelTyped, RelTypeFrame
<1> QED
  BY <1>1, <1>2, <1>3

\* A rewrite begins: the doubt of others is all that changes of them.
LEMMA RelRewriteJobs ==
    ASSUME RelTypeInv, NEW p \in Updaters, Rewrite(p)
    PROVE  LET others == Users(p, Changing \union Reading)
           IN  /\ job' \in [Updaters -> RelJob]
               /\ \A q \in Updaters : Started(job'[q])
               /\ job'[p] = [job[p] EXCEPT !.pc = "clear", !.doubt = (others # {})]
               /\ \A q \in others : job'[q] = [job[q] EXCEPT !.doubt = TRUE]
               /\ \A q \in Updaters \ {p} : q \notin others => job'[q] = job[q]
<1> DEFINE others == Users(p, Changing \union Reading)
<1>1. /\ others \subseteq Updaters /\ p \notin others
      /\ \A q \in others : job[q].pc \in Changing \union Reading
  BY DEF Users
<1>2. job' = [q \in Updaters |->
                CASE q = p        -> [job[p] EXCEPT !.pc = "clear", !.doubt = (others # {})]
                  [] q \in others -> [job[q] EXCEPT !.doubt = TRUE]
                  [] OTHER        -> job[q]]
  BY DEF Rewrite
<1> HIDE DEF others
<1>3. /\ job'[p] = [job[p] EXCEPT !.pc = "clear", !.doubt = (others # {})]
      /\ \A q \in others : job'[q] = [job[q] EXCEPT !.doubt = TRUE]
      /\ \A q \in Updaters \ {p} : q \notin others => job'[q] = job[q]
  BY <1>1, <1>2
<1>4. \A q \in Updaters : job[q] \in RelJob /\ Started(job[q])
  BY RelTyped
<1>5. \A q \in Updaters : job'[q] \in RelJob /\ Started(job'[q])
  <2> TAKE q \in Updaters
  <2>1. CASE q = p
    <3>1. job[p].pc = "artifact"
      BY DEF Rewrite
    <3>2. (others # {}) \in BOOLEAN
      OBVIOUS
    <3> QED
      BY <1>3, <1>4, <2>1, <3>1, <3>2 DEF RelJob, Started, Changing
  <2>2. CASE q \in others
    <3>1. job'[q] = [job[q] EXCEPT !.doubt = TRUE] /\ job[q] \in RelJob /\ Started(job[q])
      BY <1>3, <1>4, <2>2
    <3>2. /\ [job[q] EXCEPT !.doubt = TRUE] \in RelJob
          /\ [job[q] EXCEPT !.doubt = TRUE].pc = job[q].pc
          /\ [job[q] EXCEPT !.doubt = TRUE].ver = job[q].ver
      BY <3>1 DEF RelJob
    <3> QED
      BY <3>1, <3>2 DEF Started
  <2>3. CASE q # p /\ q \notin others
    BY <1>3, <1>4, <2>3
  <2> QED
    BY <2>1, <2>2, <2>3
<1>6. job' \in [Updaters -> RelJob]
  BY <1>2, <1>5
<1> QED
  BY <1>3, <1>5, <1>6 DEF others

LEMMA RelDirType ==
    ASSUME RelTypeInv, NEW v \in Versions, NEW f \in Files, NEW to \in 0..2
    PROVE  /\ [dir EXCEPT ![v][f] = to] \in [Versions -> [Files -> Absent..Whole]]
           /\ \A w \in Versions, g \in Files :
                 [dir EXCEPT ![v][f] = to][w][g] = IF w = v /\ g = f THEN to ELSE dir[w][g]
BY RelTyped DEF Absent, Whole

\* A tar writes a part of a file, or the rest of it.
LEMMA RelWriteType ==
    ASSUME RelTypeInv, NEW p \in Updaters, Write(p)
    PROVE  /\ RelTypeInv'
           /\ job[p].pc = "extract" /\ job[p].ver \in Versions
           /\ \A q \in Updaters \ {p} : job'[q] = job[q]
           /\ \E f \in Files \ job[p].files, to \in {1, Whole} :
                 /\ dir[job[p].ver][f] # to
                 /\ \A w \in Versions, g \in Files :
                       dir'[w][g] = IF w = job[p].ver /\ g = f THEN to ELSE dir[w][g]
                 /\ to = 1 => job' = job
                 /\ to = Whole =>
                       job'[p] = [job[p] EXCEPT !.files = job[p].files \union {f}]
<1>1. /\ job[p].pc = "extract" /\ job[p].ver \in Versions /\ job[p] \in RelJob
      /\ Started(job[p])
  BY RelTyped DEF Write, Started
<1>2. PICK f \in Files \ job[p].files :
         \/ /\ dir[job[p].ver][f] # 1 /\ dir' = [dir EXCEPT ![job[p].ver][f] = 1]
            /\ UNCHANGED job
         \/ /\ dir[job[p].ver][f] = 1
            /\ dir' = [dir EXCEPT ![job[p].ver][f] = Whole]
            /\ SetJob(p, [job[p] EXCEPT !.files = job[p].files \union {f}])
  BY DEF Write
<1>3. CASE dir[job[p].ver][f] # 1
  <2>1. dir' = [dir EXCEPT ![job[p].ver][f] = 1] /\ job' = job
    BY <1>2, <1>3
  <2>2. RelTypeInv'
    BY <1>1, <2>1, RelDirType, RelTyped, RelTypeFrame DEF Write
  <2>3. \A w \in Versions, g \in Files :
           dir'[w][g] = IF w = job[p].ver /\ g = f THEN 1 ELSE dir[w][g]
    BY <1>1, <2>1, RelDirType
  <2> QED
    BY <1>1, <1>3, <2>1, <2>2, <2>3 DEF Whole
<1>4. CASE dir[job[p].ver][f] = 1
  <2> DEFINE l == [job[p] EXCEPT !.files = job[p].files \union {f}]
  <2>1. dir' = [dir EXCEPT ![job[p].ver][f] = Whole] /\ SetJob(p, l)
    BY <1>2, <1>4
  <2>2. Started(l)
    BY <1>1 DEF RelJob, Started
  <2> HIDE DEF l
  <2>3. /\ job' \in [Updaters -> RelJob]
        /\ \A q \in Updaters : Started(job'[q])
        /\ \A q \in Updaters : job'[q] = IF q = p THEN l ELSE job[q]
    BY <2>1, <2>2, RelJobType
  <2>4. dir' \in [Versions -> [Files -> Absent..Whole]]
    BY <1>1, <2>1, RelDirType DEF Whole
  <2>5. RelTypeInv'
    BY <2>3, <2>4, RelTyped, RelTypeFrame DEF Write
  <2>6. \A w \in Versions, g \in Files :
           dir'[w][g] = IF w = job[p].ver /\ g = f THEN Whole ELSE dir[w][g]
    BY <1>1, <2>1, RelDirType DEF Whole
  <2> QED
    BY <1>1, <1>4, <2>3, <2>5, <2>6 DEF Whole, l
<1> QED
  BY <1>3, <1>4

LEMMA RelRemoveType ==
    ASSUME RelTypeInv, NEW p \in Updaters, RemoveOne(p)
    PROVE  /\ RelTypeInv'
           /\ job[p].pc \in {"clear", "discard"} /\ job[p].ver \in Versions /\ job' = job
           /\ \A w \in Versions, g \in Files :
                 dir'[w][g] = dir[w][g] \/ (w = job[p].ver /\ dir'[w][g] = Absent)
<1>1. job[p].pc \in {"clear", "discard"} /\ job[p].ver \in Versions
  BY RelTyped DEF RemoveOne, Started
<1>2. PICK f \in Files : dir' = [dir EXCEPT ![job[p].ver][f] = Absent]
  BY DEF RemoveOne
<1> QED
  BY <1>1, <1>2, RelDirType, RelTyped, RelTypeFrame DEF RemoveOne, Absent

LEMMA RelTypeStep ==
    ASSUME RelTypeInv, [ReleaseNext]_releaseVars
    PROVE  RelTypeInv'
<1>1. CASE UNCHANGED releaseVars
  BY <1>1, RelTyped, RelTypeFrame DEF releaseVars
<1>2. CASE Publish
  BY <1>2, RelTyped, RelTypeFrame, ReleaseAssumption DEF Publish, Versions
<1>3. ASSUME NEW p \in Updaters, Tidy(p) \/ Cancelled(p)
      PROVE  RelTypeInv'
  <2>1. /\ job[p].pc # "start" /\ Returned(p)
        /\ bak' \in [Updaters -> Versions \union {Missing}]
        /\ UNCHANGED <<latest, exe, dir, spoiled>>
    BY <1>3, RelTyped DEF Tidy, Cancelled
  <2> QED
    BY <2>1, RelReturnedType, RelTyped, RelTypeFrame
<1>4. ASSUME NEW p \in Updaters, Rewrite(p)
      PROVE  RelTypeInv'
  <2>1. job[p].ver \in Versions
    BY <1>4, RelTyped DEF Rewrite, Started
  <2>2. /\ spoiled' \subseteq Versions
        /\ UNCHANGED <<latest, exe, bak, dir>>
    BY <1>4, <2>1, RelTyped DEF Rewrite
  <2>3. job' \in [Updaters -> RelJob] /\ \A q \in Updaters : Started(job'[q])
    BY <1>4, RelRewriteJobs
  <2> QED
    BY <2>2, <2>3, RelTyped, RelTypeFrame
<1> QED
  BY <1>1, <1>2, <1>3, <1>4, RelStartType, RelStepsType, RelUseType, RelWriteType, RelRemoveType
     DEF ReleaseNext

\* Whatever release commands run on a machine, and wherever they are killed,
\* its executable, their backups and its artifact directories have their type.
THEOREM ReleaseTypeCorrect == ReleaseSpec => []ReleaseTypeOK
<1>1. RelTypeInv => ReleaseTypeOK
  BY DEF RelTypeInv
<1> QED
  BY <1>1, RelTypeInit, RelTypeStep, PTL DEF ReleaseSpec

-----------------------------------------------------------------------------
(***************************************************************************)
(* The executable.  Of all invocations at most one is between its two      *)
(* renames: while it is, no other finds an executable to move.             *)
(***************************************************************************)
Between(p)   == job[p].pc \in {"install", "restore"}
HasBackup(p) == job[p].pc \in {"install", "restore", "stranded", "killed"} /\ bak[p] # Missing

ExeInv ==
    /\ \A p \in Updaters : Between(p) => exe = Missing /\ bak[p] # Missing
    /\ exe = Missing => \E p \in Updaters : HasBackup(p)
    /\ \A p, q \in Updaters : Between(p) /\ Between(q) => p = q

\* A step that moves no executable, nor any backup that matters.
LEMMA ExeFrame ==
    ASSUME ExeInv, exe' = exe,
           \A q \in Updaters : job'[q].pc \in {"install", "restore"} => Between(q),
           \A q \in Updaters :
              job[q].pc \in {"install", "restore", "stranded", "killed"} =>
                 job'[q].pc \in {"install", "restore", "stranded", "killed"} /\ bak'[q] = bak[q]
    PROVE  ExeInv'
BY DEF ExeInv, Between, HasBackup

\* One invocation goes on, from and to a place outside the renames.
LEMMA ExeOutside ==
    ASSUME ExeInv, NEW p \in Updaters, exe' = exe, \A q \in Updaters \ {p} : bak'[q] = bak[q],
           \A q \in Updaters \ {p} : job'[q].pc = job[q].pc,
           job[p].pc \notin {"install", "restore", "stranded", "killed"},
           job'[p].pc \notin {"install", "restore"}
    PROVE  ExeInv'
BY ExeFrame DEF Between

LEMMA ExeStart ==
    ASSUME RelTypeInv, ExeInv, NEW p \in Updaters, Launch(p)
    PROVE  ExeInv'
<1>1. job' = [job EXCEPT ![p] = job'[p]]
  BY RelTyped DEF Launch, SetJob
<1>2. job'[p].pc \in {"artifact", "current", "download"}
  BY RelTyped DEF Launch, SetJob, RelJob
<1>3. \A q \in Updaters \ {p} : job'[q] = job[q]
  BY <1>1, RelTyped
<1> QED
  BY <1>2, <1>3, ExeOutside DEF Launch

\* The two renames, and the one back.
LEMMA ExeRenames ==
    ASSUME RelTypeInv, ExeInv, NEW p \in Updaters,
           Backup(p) \/ Install(p) \/ Restore(p)
    PROVE  ExeInv'
<1> USE MissingIsNoVersion DEF ExeInv, Between, HasBackup
<1>1. CASE Backup(p)
  <2>1. job[p].pc = "backup"
    BY <1>1 DEF Backup
  <2>2. CASE Advance(p, "failed") /\ UNCHANGED <<exe, bak>>
    <3>1. job'[p].pc = "failed" /\ \A q \in Updaters \ {p} : job'[q] = job[q]
      BY <2>1, <2>2, RelStepType
    <3> QED
      BY <2>1, <2>2, <3>1, ExeFrame
  <2>3. CASE /\ exe # Missing /\ bak' = [bak EXCEPT ![p] = exe]
             /\ exe' = Missing /\ Advance(p, "install")
    <3>1. bak'[p] = exe
      BY <2>3, RelTyped
    <3>2. job'[p].pc = "install" /\ \A q \in Updaters \ {p} : job'[q] = job[q]
      BY <2>1, <2>3, RelStepType
    <3> QED
      BY <2>3, <3>1, <3>2
  <2> QED
    BY <1>1, <2>2, <2>3 DEF Backup, Moved
<1>2. CASE Install(p)
  <2>1. job[p].pc = "install" /\ bak' = bak
    BY <1>2 DEF Install
  <2>2. job[p].ver \in Versions
    BY <2>1, RelTyped DEF Started
  <2>3. CASE exe' = job[p].ver /\ Advance(p, "tidy")
    <3>1. job'[p].pc = "tidy" /\ \A q \in Updaters \ {p} : job'[q] = job[q]
      BY <2>1, <2>3, RelStepType
    <3> QED
      BY <2>1, <2>2, <2>3, <3>1
  <2>4. CASE Advance(p, "restore") /\ UNCHANGED exe
    <3>1. job'[p].pc = "restore" /\ \A q \in Updaters \ {p} : job'[q] = job[q]
      BY <2>1, <2>4, RelStepType
    <3> QED
      BY <2>1, <2>4, <3>1, ExeFrame
  <2> QED
    BY <1>2, <2>3, <2>4 DEF Install
<1>3. CASE Restore(p)
  <2>1. job[p].pc = "restore" /\ bak[p] # Missing
    BY <1>3 DEF Restore
  <2>2. CASE exe' = bak[p] /\ bak' = [bak EXCEPT ![p] = Missing] /\ Advance(p, "failed")
    <3>1. job'[p].pc = "failed" /\ \A q \in Updaters \ {p} : job'[q] = job[q]
      BY <2>1, <2>2, RelStepType
    <3> QED
      BY <2>1, <2>2, <3>1
  <2>3. CASE Advance(p, "stranded") /\ UNCHANGED <<exe, bak>>
    <3>1. job'[p].pc = "stranded" /\ \A q \in Updaters \ {p} : job'[q] = job[q]
      BY <2>1, <2>3, RelStepType
    <3> QED
      BY <2>1, <2>3, <3>1, ExeFrame
  <2> QED
    BY <1>3, <2>2, <2>3 DEF Restore
<1> QED
  BY <1>1, <1>2, <1>3

LEMMA ExeStep ==
    ASSUME RelTypeInv, ExeInv, [ReleaseNext]_releaseVars
    PROVE  ExeInv'
<1>1. CASE UNCHANGED releaseVars \/ Publish
  BY <1>1, ExeFrame DEF releaseVars, Publish, Between
<1>2. ASSUME NEW p \in Updaters,
             \/ CallFails(p) \/ Downloaded(p) \/ Given(p) \/ Removed(p)
             \/ Extracted(p) \/ ExtractFails(p)
      PROVE  ExeInv'
  <2>1. /\ job[p].pc \notin {"start", "install", "restore", "stranded", "killed"}
        /\ UNCHANGED <<exe, bak>>
        /\ \E step \in {"failed", "backup", "extract", "given", "fetch", "check", "discard"} :
              Advance(p, step)
    BY <1>2 DEF CallFails, Downloaded, Given, Removed, Extracted,
                ExtractFails, AfterFailure
  <2> QED
    BY <2>1, RelStepType, ExeOutside
<1>3. ASSUME NEW p \in Updaters, Interrupted(p)
      PROVE  ExeInv'
  <2>1. /\ job[p].pc \notin {"start", "stranded", "killed"}
        /\ Advance(p, "killed") /\ UNCHANGED <<exe, bak>>
    BY <1>3 DEF Interrupted, Gone
  <2>2. job'[p].pc = "killed" /\ \A q \in Updaters \ {p} : job'[q] = job[q]
    BY <2>1, RelStepType
  <2> QED
    BY <2>1, <2>2, ExeFrame DEF Between
<1>4. ASSUME NEW p \in Updaters, Tidy(p) \/ Cancelled(p)
      PROVE  ExeInv'
  <2>1. /\ job[p].pc \in {"tidy", "download"} /\ Returned(p)
        /\ exe' = exe /\ \A q \in Updaters \ {p} : bak'[q] = bak[q]
    BY <1>4, RelTyped DEF Tidy, Cancelled
  <2> QED
    BY <2>1, RelReturnedType, ExeOutside
<1>5. ASSUME NEW p \in Updaters,
             Reuse(p) \/ Checked(p) \/ List(p) \/ Send(p) \/ Deploy(p)
      PROVE  ExeInv'
  <2>1. UNCHANGED <<exe, bak>>
    BY <1>5 DEF Reuse, Checked, List, Send, Deploy
  <2> QED
    BY <1>5, <2>1, RelUseType, ExeOutside
<1>6. ASSUME NEW p \in Updaters, Rewrite(p)
      PROVE  ExeInv'
  <2>1. /\ job[p].pc = "artifact" /\ UNCHANGED <<exe, bak>>
    BY <1>6 DEF Rewrite
  <2>2. job'[p].pc = "clear" /\ \A q \in Updaters \ {p} : job'[q].pc = job[q].pc
    <3> DEFINE others == Users(p, Changing \union Reading)
    <3>1. /\ job'[p] = [job[p] EXCEPT !.pc = "clear", !.doubt = (others # {})]
          /\ \A q \in others : job'[q] = [job[q] EXCEPT !.doubt = TRUE]
          /\ \A q \in Updaters \ {p} : q \notin others => job'[q] = job[q]
      BY <1>6, RelRewriteJobs
    <3> HIDE DEF others
    <3>2. \A q \in Updaters : job[q] \in RelJob
      BY RelTyped
    <3>3. [job[p] EXCEPT !.pc = "clear", !.doubt = (others # {})].pc = "clear"
      BY <3>2 DEF RelJob
    <3>4. \A q \in others : q \in Updaters /\ [job[q] EXCEPT !.doubt = TRUE].pc = job[q].pc
      BY <3>2 DEF RelJob, others, Users
    <3> QED
      BY <3>1, <3>3, <3>4
  <2> QED
    BY <2>1, <2>2, ExeOutside
<1>7. ASSUME NEW p \in Updaters, RemoveOne(p)
      PROVE  ExeInv'
  BY <1>7, RelRemoveType, ExeFrame DEF Between, RemoveOne
<1>8. ASSUME NEW p \in Updaters, Write(p)
      PROVE  ExeInv'
  <2>1. /\ job[p].pc = "extract" /\ UNCHANGED <<exe, bak>>
    BY <1>8 DEF Write
  <2>2. job'[p].pc = "extract" /\ \A q \in Updaters \ {p} : job'[q] = job[q]
    <3>1. PICK f \in Files, to \in {1, Whole} :
             /\ to = 1 => job' = job
             /\ to = Whole => job'[p] = [job[p] EXCEPT !.files = job[p].files \union {f}]
      BY <1>8, RelWriteType
    <3>2. [job[p] EXCEPT !.files = job[p].files \union {f}].pc = job[p].pc
      BY RelTyped DEF RelJob
    <3> QED
      BY <1>8, <2>1, <3>1, <3>2, RelWriteType
  <2> QED
    BY <2>1, <2>2, ExeOutside
<1> QED
  BY <1>1, <1>2, <1>3, <1>4, <1>5, <1>6, <1>7, <1>8, ExeStart, ExeRenames DEF ReleaseNext

\* However many invocations of self update run side by side and wherever they
\* are killed, none installs over another, and the executable or a backup of
\* it is on disk; the executable is, unless one is at it, was killed or failed
\* twice there.
THEOREM ReleaseExecutableIsKept == ReleaseSpec => []ExecutableIsKept
<1>1. ReleaseInit => ExeInv
  <2> SUFFICES ASSUME ReleaseInit PROVE ExeInv
    OBVIOUS
  <2>1. exe = 1 /\ exe # Missing
    BY MissingIsNoVersion, ReleaseAssumption DEF ReleaseInit, Versions
  <2>2. \A p \in Updaters : job[p].pc = "start"
    BY DEF ReleaseInit, New
  <2> QED
    BY <2>1, <2>2 DEF ExeInv, Between
<1>2. ExeInv => ExecutableIsKept
  BY DEF ExeInv, Between, HasBackup, ExecutableIsKept
<1> QED
  BY <1>1, <1>2, RelTypeInit, RelTypeStep, ExeStep, PTL DEF ReleaseSpec

-----------------------------------------------------------------------------
(***************************************************************************)
(* The artifact directories.  An invocation without doubt has nobody in    *)
(* its directory who rewrites it; so what it has unpacked, or found there  *)
(* whole, stays whole.  A directory that nobody rewrites and that is not   *)
(* spoiled is empty or whole, and two files show which.                    *)
(***************************************************************************)
Fresh       == {"start", "download", "backup", "install", "restore", "tidy", "artifact",
                "clear", "fetch"}
WebPcs      == Changing \union Reading
AllWhole(v) == \A f \in Files : dir[v][f] = Whole
Sure(p, pcs) == job[p].pc \in pcs /\ ~job[p].doubt

Commanded(p) ==
    job[p].pc \in {"download", "backup", "install", "restore", "tidy"} =>
        job[p].cmd \in {"self", "both"}
Private(p) ==
    \A q \in Updaters \ {p} : job[q].ver = job[p].ver =>
        /\ Sure(p, WebPcs) => job[q].pc \notin Changing
        /\ Sure(p, Changing) => job[q].pc # "check"
Doubtful(p) ==
    job[p].pc \in Changing \union {"check"} /\ job[p].doubt => job[p].ver \in spoiled
Unpacked(p) ==
    /\ job[p].pc \in Fresh => job[p].files = {}
    /\ Sure(p, {"extract"}) => \A f \in job[p].files : dir[job[p].ver][f] = Whole
    /\ Sure(p, Reading) => AllWhole(job[p].ver)
    /\ Sure(p, {"send", "worker"}) => job[p].files = Client
Delivered(p) ==
    job[p].pc = "done" /\ job[p].cmd # "self" => job[p].files = Files \/ job[p].doubt
JobOK(p) == Commanded(p) /\ Private(p) /\ Doubtful(p) /\ Unpacked(p) /\ Delivered(p)
DirOK(v) ==
    \/ v \in spoiled
    \/ \E p \in Updaters : job[p].ver = v /\ job[p].pc \in Changing
    \/ NothingIn(v) \/ AllWhole(v)

WebInv == (\A p \in Updaters : JobOK(p)) /\ (\A v \in Versions : DirOK(v))

WebFrame(p) ==
    /\ dir' = dir /\ spoiled' = spoiled
    /\ \A q \in Updaters \ {p} : job'[q] = job[q]

\* An invocation that rewrites nothing leaves the directories, or has not come
\* to them yet.
LEMMA WebOutside ==
    ASSUME WebInv, NEW p \in Updaters, WebFrame(p),
           job[p].pc \notin Changing, job'[p].pc \notin WebPcs,
           Commanded(p)', job'[p].pc \in Fresh => job'[p].files = {}, Delivered(p)'
    PROVE  WebInv'
<1>0. \A q \in Updaters \ {p} : job'[q] = job[q] /\ JobOK(q)
  BY DEF WebFrame, WebInv
<1>1. ASSUME NEW q \in Updaters PROVE JobOK(q)'
  <2>1. CASE q = p
    <3>1. ~Sure(p, WebPcs)' /\ ~Sure(p, Changing)' /\ ~Sure(p, Reading)'
      BY DEF Sure, WebPcs
    <3>2. job'[p].pc \notin Changing \union {"check", "extract", "send", "worker"}
      BY DEF WebPcs, Changing, Reading
    <3> QED
      BY <2>1, <3>1, <3>2 DEF JobOK, Private, Doubtful, Unpacked, Sure
  <2>2. CASE q # p
    <3>1. job'[p].pc \notin Changing \union {"check"}
      BY DEF WebPcs, Changing, Reading
    <3>2. Private(q)'
      BY <1>0, <2>2, <3>1 DEF JobOK, Private, Sure
    <3> QED
      BY <1>0, <2>2, <3>2 DEF JobOK, Commanded, Doubtful, Unpacked, Delivered, Sure, AllWhole,
                         WebFrame
  <2> QED
    BY <2>1, <2>2
<1>2. ASSUME NEW v \in Versions PROVE DirOK(v)'
  BY <1>0 DEF WebInv, DirOK, NothingIn, AllWhole, WebFrame
<1> QED
  BY <1>1, <1>2 DEF WebInv

\* A reader of a directory reads on.
LEMMA WebReads ==
    ASSUME WebInv, NEW p \in Updaters, WebFrame(p),
           job[p].pc \in Reading, job'[p].pc \in Reading \ {"check"},
           job'[p].ver = job[p].ver, job'[p].doubt = job[p].doubt,
           Sure(p, Reading) /\ job'[p].pc \in {"send", "worker"} =>
              job'[p].files = Client
    PROVE  WebInv'
<1>0. \A q \in Updaters \ {p} : job'[q] = job[q] /\ JobOK(q)
  BY DEF WebFrame, WebInv
<1>1. /\ job'[p].pc \in {"list", "send", "worker"}
      /\ job'[p].pc \notin Changing
      /\ job[p].pc \notin Changing
  BY DEF Reading, Changing
<1>2. ASSUME NEW q \in Updaters PROVE JobOK(q)'
  <2>1. CASE q = p
    <3>1. /\ Commanded(p)' /\ Doubtful(p)' /\ Delivered(p)'
      BY <1>1 DEF Commanded, Doubtful, Delivered
    <3>2. Sure(p, WebPcs)' => Sure(p, WebPcs)
      BY DEF Sure, WebPcs
    <3>3. Private(p)'
      BY <1>0, <1>1, <3>2 DEF WebInv, JobOK, Private, Sure
    <3>4. Sure(p, Reading)' => Sure(p, Reading)
      BY DEF Sure
    <3>5. Sure(p, Reading)' => AllWhole(job[p].ver)'
      BY <3>4 DEF WebInv, JobOK, Unpacked, AllWhole, WebFrame
    <3>6. Unpacked(p)'
      BY <1>1, <3>4, <3>5 DEF Unpacked, Fresh, Sure
    <3> QED
      BY <2>1, <3>1, <3>3, <3>6 DEF JobOK
  <2>2. CASE q # p
    <3>1. Private(q)'
      BY <1>0, <1>1, <2>2 DEF JobOK, Private, Sure
    <3> QED
      BY <1>0, <2>2, <3>1 DEF JobOK, Commanded, Doubtful, Unpacked, Delivered, Sure, AllWhole,
                         WebFrame
  <2> QED
    BY <2>1, <2>2
<1>3. ASSUME NEW v \in Versions PROVE DirOK(v)'
  BY <1>0, <1>1 DEF WebInv, DirOK, NothingIn, AllWhole, WebFrame
<1> QED
  BY <1>2, <1>3 DEF WebInv

\* One that rewrites its directory goes on to rewrite it.
LEMMA WebRewrites ==
    ASSUME WebInv, NEW p \in Updaters, WebFrame(p),
           job[p].pc \in Changing, job'[p].pc \in Changing,
           job'[p].ver = job[p].ver, job'[p].doubt = job[p].doubt,
           job'[p].pc \in {"clear", "fetch", "extract"} => job'[p].files = {}
    PROVE  WebInv'
<1>0. \A q \in Updaters \ {p} : job'[q] = job[q] /\ JobOK(q)
  BY DEF WebFrame, WebInv
<1>1. /\ job'[p].pc \in {"clear", "fetch", "extract", "discard"}
      /\ job'[p].pc \notin Reading /\ job'[p].pc # "check" /\ job'[p].pc # "done"
  BY DEF Reading, Changing
<1>2. ASSUME NEW q \in Updaters PROVE JobOK(q)'
  <2>1. CASE q = p
    <3>1. Commanded(p)' /\ Delivered(p)'
      BY <1>1 DEF Commanded, Delivered
    <3>2. Doubtful(p)'
      BY <1>1 DEF WebInv, JobOK, Doubtful, WebFrame
    <3>3. /\ Sure(p, WebPcs)' => Sure(p, WebPcs)
          /\ Sure(p, Changing)' => Sure(p, Changing)
      BY DEF Sure, WebPcs
    <3>4. Private(p)'
      BY <1>0, <3>3 DEF WebInv, JobOK, Private, Sure
    <3>5. Unpacked(p)'
      BY <1>1 DEF Unpacked, Fresh, Sure
    <3> QED
      BY <2>1, <3>1, <3>2, <3>4, <3>5 DEF JobOK
  <2>2. CASE q # p
    <3>1. Private(q)'
      BY <1>0, <1>1, <2>2 DEF JobOK, Private, Sure
    <3> QED
      BY <1>0, <2>2, <3>1 DEF JobOK, Commanded, Doubtful, Unpacked, Delivered, Sure, AllWhole,
                         WebFrame
  <2> QED
    BY <2>1, <2>2
<1>3. ASSUME NEW v \in Versions PROVE DirOK(v)'
  BY <1>0 DEF WebInv, DirOK, NothingIn, AllWhole, WebFrame
<1> QED
  BY <1>2, <1>3 DEF WebInv

\* What an invocation is after its Reuse, Rewrite, or a step to another pc.
LEMMA RelStepFields ==
    ASSUME RelTypeInv, NEW p \in Updaters, job[p].pc # "start", NEW step, Advance(p, step),
           step \in {"backup", "install", "restore", "tidy", "fetch", "extract", "discard", "check",
                     "done", "given", "failed", "stranded", "killed"}
    PROVE  /\ \A q \in Updaters \ {p} : job'[q] = job[q]
           /\ job'[p].pc = step /\ job'[p].cmd = job[p].cmd /\ job'[p].ver = job[p].ver
           /\ job'[p].files = job[p].files /\ job'[p].doubt = job[p].doubt
<1> DEFINE l == [job[p] EXCEPT !.pc = step]
<1>1. job[p] \in RelJob
  BY RelTyped
<1>2. /\ l.pc = step /\ l.cmd = job[p].cmd /\ l.ver = job[p].ver
      /\ l.files = job[p].files /\ l.doubt = job[p].doubt
  BY <1>1 DEF RelJob
<1>3. job'[p] = l /\ \A q \in Updaters \ {p} : job'[q] = job[q]
  BY RelStepType
<1> HIDE DEF l
<1> QED
  BY <1>2, <1>3

LEMMA WholeIsFound ==
    ASSUME NEW v, AllWhole(v)
    PROVE  Found(v) /\ ~NothingIn(v)
BY DEF AllWhole, Found, NothingIn, Files, Client, Whole, Absent

LEMMA WebHit ==
    ASSUME RelTypeInv, WebInv, NEW p \in Updaters, Reuse(p)
    PROVE  WebInv'
<1> DEFINE doubt == \/ job[p].ver \in spoiled
                    \/ Users(p, Changing) # {}
           l     == [job[p] EXCEPT !.pc = "list", !.doubt = doubt]
<1>1. /\ job[p] \in RelJob /\ job \in [Updaters -> RelJob] /\ job[p].pc = "artifact"
      /\ job[p].ver \in Versions
  BY RelTyped DEF Reuse, Started
<1>2. l.pc = "list" /\ l.ver = job[p].ver /\ l.cmd = job[p].cmd /\ l.doubt = doubt
  BY <1>1 DEF RelJob
<1>3. /\ job' = [job EXCEPT ![p] = l] /\ UNCHANGED <<dir, spoiled>> /\ Found(job[p].ver)
  BY DEF Reuse, SetJob
<1> HIDE DEF l
<1>4. /\ job'[p].pc = "list" /\ job'[p].ver = job[p].ver /\ job'[p].doubt = doubt
      /\ \A q \in Updaters \ {p} : job'[q] = job[q] /\ JobOK(q)
  BY <1>1, <1>2, <1>3 DEF WebInv
<1>5. ~job'[p].doubt =>
         /\ job[p].ver \notin spoiled
         /\ \A q \in Updaters \ {p} : job[q].ver = job[p].ver => job[q].pc \notin Changing
  BY <1>4 DEF Users
<1> HIDE DEF doubt
<1>6. ~job'[p].doubt => AllWhole(job[p].ver)
  <2>1. ~NothingIn(job[p].ver)
    BY <1>3 DEF Found, NothingIn, Files, Client
  <2>2. job[p].pc \notin Changing
    BY <1>1 DEF Changing
  <2> QED
    BY <1>1, <1>5, <2>1, <2>2 DEF WebInv, DirOK
<1>7. job'[p].pc \notin Changing /\ job[p].pc \notin Changing
  BY <1>1, <1>4 DEF Changing
<1>8. ASSUME NEW q \in Updaters PROVE JobOK(q)'
  <2>1. CASE q = p
    <3>1. Commanded(p)' /\ Doubtful(p)' /\ Delivered(p)'
      BY <1>4 DEF Commanded, Doubtful, Delivered, Changing
    <3>2. Private(p)'
      BY <1>4, <1>5, <1>7 DEF Private, Sure
    <3>3. Unpacked(p)'
      BY <1>3, <1>4, <1>6 DEF Unpacked, Fresh, Sure, AllWhole
    <3> QED
      BY <2>1, <3>1, <3>2, <3>3 DEF JobOK
  <2>2. CASE q # p
    <3>1. Private(q)'
      BY <1>4, <1>7, <2>2 DEF JobOK, Private, Sure
    <3> QED
      BY <1>3, <1>4, <2>2, <3>1
         DEF JobOK, Commanded, Doubtful, Unpacked, Delivered, Sure, AllWhole
  <2> QED
    BY <2>1, <2>2
<1>9. ASSUME NEW v \in Versions PROVE DirOK(v)'
  BY <1>3, <1>4, <1>7 DEF WebInv, DirOK, NothingIn, AllWhole
<1> QED
  BY <1>8, <1>9 DEF WebInv

LEMMA WebRewrite ==
    ASSUME RelTypeInv, WebInv, NEW p \in Updaters, Rewrite(p)
    PROVE  WebInv'
<1> DEFINE others == Users(p, Changing \union Reading)
<1>1. /\ job[p] \in RelJob /\ job[p].pc = "artifact" /\ dir' = dir
      /\ \A q \in Updaters : job[q] \in RelJob /\ JobOK(q)
  BY RelTyped DEF Rewrite, WebInv
<1>2. others = {q \in Updaters \ {p} : job[q].ver = job[p].ver /\ job[q].pc \in WebPcs}
  BY DEF Users, WebPcs
<1>3. spoiled' = IF others # {} THEN spoiled \union {job[p].ver} ELSE spoiled
  BY DEF Rewrite
<1>4. /\ job'[p] = [job[p] EXCEPT !.pc = "clear", !.doubt = (others # {})]
      /\ \A q \in others : job'[q] = [job[q] EXCEPT !.doubt = TRUE]
      /\ \A q \in Updaters \ {p} : q \notin others => job'[q] = job[q]
  BY RelRewriteJobs
<1> HIDE DEF others
<1>5. /\ job'[p].pc = "clear" /\ job'[p].ver = job[p].ver /\ job'[p].files = job[p].files
      /\ job'[p].doubt = (others # {})
  BY <1>1, <1>4 DEF RelJob
<1>6. \A q \in others :
         /\ q \in Updaters /\ job'[q].pc = job[q].pc /\ job'[q].ver = job[q].ver
         /\ job'[q].files = job[q].files /\ job'[q].cmd = job[q].cmd /\ job'[q].doubt
  <2> TAKE q \in others
  <2>1. q \in Updaters /\ job[q] \in RelJob
    BY <1>1, <1>2
  <2>2. job'[q] = [job[q] EXCEPT !.doubt = TRUE]
    BY <1>4
  <2>3. /\ job'[q].pc = job[q].pc /\ job'[q].ver = job[q].ver
        /\ job'[q].files = job[q].files /\ job'[q].cmd = job[q].cmd
    BY <2>1, <2>2 DEF RelJob
  <2>4. job'[q].doubt = TRUE
    BY <2>1, <2>2 DEF RelJob
  <2> QED
    BY <2>1, <2>3, <2>4
<1>7. \A q \in Updaters \ {p} : job'[q].pc = job[q].pc /\ job'[q].ver = job[q].ver
  BY <1>4, <1>6
<1>8. ASSUME NEW q \in Updaters PROVE JobOK(q)'
  <2>1. CASE q = p
    <3>1. Commanded(p)' /\ Delivered(p)'
      BY <1>5 DEF Commanded, Delivered
    <3>2. Doubtful(p)'
      BY <1>3, <1>5 DEF Doubtful
    <3>3. Private(p)'
      BY <1>2, <1>5, <1>7 DEF Private, Sure, WebPcs, Reading
    <3>4. Unpacked(p)'
      BY <1>1, <1>5 DEF JobOK, Unpacked, Fresh, Sure, Reading
    <3> QED
      BY <2>1, <3>1, <3>2, <3>3, <3>4 DEF JobOK
  <2>2. CASE q \in others
    <3>1. ~Sure(q, WebPcs)' /\ ~Sure(q, Changing)' /\ ~Sure(q, {"extract"})'
          /\ ~Sure(q, Reading)' /\ ~Sure(q, {"send", "worker"})'
      BY <1>6, <2>2 DEF Sure
    <3>2. Private(q)'
      BY <3>1 DEF Private
    <3>3. Doubtful(q)'
      BY <1>2, <1>3, <1>6, <2>2 DEF Doubtful
    <3>4. Unpacked(q)'
      BY <1>1, <1>6, <2>2, <3>1 DEF JobOK, Unpacked
    <3>5. Commanded(q)' /\ Delivered(q)'
      BY <1>1, <1>6, <2>2 DEF JobOK, Commanded, Delivered
    <3> QED
      BY <3>2, <3>3, <3>4, <3>5 DEF JobOK
  <2>3. CASE q # p /\ q \notin others
    <3>1. job'[q] = job[q] /\ (job[q].ver = job[p].ver => job[q].pc \notin WebPcs)
      BY <1>2, <1>4, <2>3
    <3>2. Private(q)'
      BY <1>1, <1>5, <1>7, <2>3, <3>1 DEF JobOK, Private, Sure, WebPcs
    <3>3. Doubtful(q)'
      BY <1>1, <1>3, <3>1 DEF JobOK, Doubtful
    <3>4. Unpacked(q)'
      BY <1>1, <3>1 DEF JobOK, Unpacked, Sure, AllWhole
    <3>5. Commanded(q)' /\ Delivered(q)'
      BY <1>1, <3>1 DEF JobOK, Commanded, Delivered
    <3> QED
      BY <3>2, <3>3, <3>4, <3>5 DEF JobOK
  <2> QED
    BY <2>1, <2>2, <2>3
<1>9. ASSUME NEW v \in Versions PROVE DirOK(v)'
  <2>1. spoiled \subseteq spoiled' /\ job[p].pc \notin Changing
    BY <1>1, <1>3 DEF Changing
  <2> QED
    BY <1>1, <1>7, <2>1 DEF WebInv, DirOK, NothingIn, AllWhole
<1> QED
  BY <1>8, <1>9 DEF WebInv

\* The files of a directory change under the one that rewrites it: whoever
\* else has no doubt is in another directory.
LEMMA WebElsewhere ==
    ASSUME WebInv, NEW p \in Updaters, job[p].pc \in Changing, job[p].ver \in Versions,
           spoiled' = spoiled, \A q \in Updaters : job[q].ver \in Versions \/ job[q].pc = "start",
           \A q \in Updaters \ {p} : job'[q] = job[q],
           job'[p].pc = job[p].pc, job'[p].ver = job[p].ver, job'[p].doubt = job[p].doubt,
           \A w \in Versions \ {job[p].ver} : dir'[w] = dir[w],
           Unpacked(p)'
    PROVE  WebInv'
<1>1. \A q \in Updaters : JobOK(q)
  BY DEF WebInv
<1>2. job[p].pc \in {"clear", "fetch", "extract", "discard"}
  BY DEF Changing
<1>3. ASSUME NEW q \in Updaters PROVE JobOK(q)'
  <2>1. CASE q = p
    <3>1. Commanded(p)' /\ Delivered(p)'
      BY <1>2 DEF Commanded, Delivered
    <3>2. Doubtful(p)' /\ Private(p)'
      BY <1>1 DEF JobOK, Doubtful, Private, Sure
    <3> QED
      BY <2>1, <3>1, <3>2 DEF JobOK
  <2>2. CASE q # p
    <3>1. job'[q] = job[q]
      BY <2>2
    <3>2. Private(q)' /\ Doubtful(q)' /\ Commanded(q)' /\ Delivered(q)'
      BY <1>1, <2>2, <3>1 DEF JobOK, Private, Sure, Doubtful, Commanded, Delivered
    <3>3. Sure(q, WebPcs) => dir'[job[q].ver] = dir[job[q].ver]
      <4>1. Sure(q, WebPcs) => job[q].pc # "start"
        BY DEF Sure, WebPcs, Changing, Reading
      <4>2. Sure(q, WebPcs) => job[q].ver # job[p].ver
        BY <1>1, <2>2 DEF JobOK, Private
      <4> QED
        BY <4>1, <4>2
    <3>4. \A pcs \in SUBSET WebPcs : Sure(q, pcs) => Sure(q, WebPcs)
      BY DEF Sure
    <3>5. {"extract"} \subseteq WebPcs /\ Reading \subseteq WebPcs
      BY DEF WebPcs, Changing
    <3>6. Unpacked(q)'
      BY <1>1, <3>1, <3>3, <3>4, <3>5 DEF JobOK, Unpacked, AllWhole, Sure
    <3> QED
      BY <3>2, <3>6 DEF JobOK
  <2> QED
    BY <2>1, <2>2
<1>4. ASSUME NEW v \in Versions PROVE DirOK(v)'
  <2>1. CASE v = job[p].ver
    BY <2>1 DEF DirOK
  <2>2. CASE v # job[p].ver
    <3>1. DirOK(v) /\ dir'[v] = dir[v]
      BY <2>2 DEF WebInv
    <3> QED
      BY <2>2, <3>1 DEF DirOK, NothingIn, AllWhole
  <2> QED
    BY <2>1, <2>2
<1> QED
  BY <1>3, <1>4 DEF WebInv

LEMMA WebWrite ==
    ASSUME RelTypeInv, WebInv, NEW p \in Updaters, Write(p)
    PROVE  WebInv'
<1>1. /\ RelTypeInv' /\ job[p].pc = "extract" /\ job[p].ver \in Versions
      /\ \A q \in Updaters \ {p} : job'[q] = job[q]
  BY RelWriteType
<1>2. PICK f \in Files \ job[p].files, to \in {1, Whole} :
         /\ \A w \in Versions, g \in Files :
               dir'[w][g] = IF w = job[p].ver /\ g = f THEN to ELSE dir[w][g]
         /\ to = 1 => job' = job
         /\ to = Whole => job'[p] = [job[p] EXCEPT !.files = job[p].files \union {f}]
  BY RelWriteType
<1>3. job[p] \in RelJob /\ job[p].files \subseteq Files
  BY RelTyped DEF RelJob
<1>4. /\ job'[p].pc = job[p].pc /\ job'[p].ver = job[p].ver /\ job'[p].doubt = job[p].doubt
      /\ job'[p].files = IF to = Whole THEN job[p].files \union {f} ELSE job[p].files
  BY <1>2, <1>3 DEF RelJob, Whole
<1>5. \A w \in Versions \ {job[p].ver} : dir'[w] = dir[w]
  <2> TAKE w \in Versions \ {job[p].ver}
  <2>1. /\ dir[w] \in [Files -> Absent..Whole]
        /\ dir'[w] \in [Files -> Absent..Whole]
    BY <1>1, RelTyped DEF RelTypeInv, ReleaseTypeOK
  <2> QED
    BY <1>2, <2>1
<1>6. Unpacked(p)'
  <2>1. Unpacked(p) /\ (Sure(p, {"extract"})' => Sure(p, {"extract"}))
    BY <1>4 DEF WebInv, JobOK, Sure
  <2>2. Sure(p, {"extract"})' => \A g \in job'[p].files : dir'[job'[p].ver][g] = Whole
    BY <1>1, <1>2, <1>3, <1>4, <2>1 DEF Unpacked
  <2> QED
    BY <1>1, <1>4, <2>2 DEF Unpacked, Fresh, Sure, Reading
<1>7. \A q \in Updaters : job[q].ver \in Versions \/ job[q].pc = "start"
  BY RelTyped DEF Started
<1>8. spoiled' = spoiled /\ job[p].pc \in Changing
  BY <1>1 DEF Write, Changing
<1> QED
  BY <1>1, <1>4, <1>5, <1>6, <1>7, <1>8, WebElsewhere

LEMMA WebRemoveOne ==
    ASSUME RelTypeInv, WebInv, NEW p \in Updaters, RemoveOne(p)
    PROVE  WebInv'
<1>1. /\ RelTypeInv' /\ job[p].pc \in {"clear", "discard"} /\ job[p].ver \in Versions
      /\ job' = job
      /\ \A w \in Versions, g \in Files :
            dir'[w][g] = dir[w][g] \/ (w = job[p].ver /\ dir'[w][g] = Absent)
  BY RelRemoveType
<1>2. \A w \in Versions \ {job[p].ver} : dir'[w] = dir[w]
  <2> TAKE w \in Versions \ {job[p].ver}
  <2>1. /\ dir[w] \in [Files -> Absent..Whole]
        /\ dir'[w] \in [Files -> Absent..Whole]
    BY <1>1, RelTyped DEF RelTypeInv, ReleaseTypeOK
  <2> QED
    BY <1>1, <2>1
<1>3. Unpacked(p)'
  BY <1>1 DEF WebInv, JobOK, Unpacked, Sure, Reading
<1>4. \A q \in Updaters : job[q].ver \in Versions \/ job[q].pc = "start"
  BY RelTyped DEF Started
<1>5. spoiled' = spoiled /\ job[p].pc \in Changing
  BY <1>1 DEF RemoveOne, Changing
<1> QED
  BY <1>1, <1>2, <1>3, <1>4, <1>5, WebElsewhere

\* The directory has been emptied; nobody has doubts about it who was alone.
LEMMA WebRemoved ==
    ASSUME RelTypeInv, WebInv, NEW p \in Updaters, Removed(p)
    PROVE  WebInv'
<1>1. /\ job[p].pc \in {"clear", "discard"} /\ NothingIn(job[p].ver) /\ dir' = dir
      /\ Advance(p, IF job[p].pc = "clear" THEN "fetch" ELSE "failed")
      /\ spoiled' = IF job[p].doubt THEN spoiled ELSE spoiled \ {job[p].ver}
  BY DEF Removed
<1>2. /\ \A q \in Updaters \ {p} : job'[q] = job[q]
      /\ job'[p].ver = job[p].ver /\ job'[p].files = job[p].files
      /\ job'[p].doubt = job[p].doubt /\ job'[p].cmd = job[p].cmd
      /\ job'[p].pc \in {"fetch", "failed"} /\ (job'[p].pc = "fetch" => job[p].pc = "clear")
  BY <1>1, RelStepFields
<1>3. \A q \in Updaters : JobOK(q)
  BY DEF WebInv
<1>4. /\ job[p].pc \in Changing /\ job[p].pc \in WebPcs
      /\ job'[p].pc \notin Reading /\ job'[p].pc # "check"
  BY <1>1, <1>2 DEF Changing, Reading, WebPcs
<1>5. ASSUME NEW q \in Updaters PROVE JobOK(q)'
  <2>1. CASE q = p
    <3>1. Commanded(p)' /\ Delivered(p)'
      BY <1>2 DEF Commanded, Delivered
    <3>2. Doubtful(p)'
      BY <1>1, <1>2, <1>3, <1>4 DEF JobOK, Doubtful
    <3>3. Private(p)'
      BY <1>2, <1>3, <1>4 DEF JobOK, Private, Sure
    <3>4. Unpacked(p)'
      BY <1>1, <1>2, <1>3, <1>4 DEF JobOK, Unpacked, Fresh, Sure
    <3> QED
      BY <2>1, <3>1, <3>2, <3>3, <3>4 DEF JobOK
  <2>2. CASE q # p
    <3>1. job'[q] = job[q]
      BY <1>2, <2>2
    <3>2. Private(q)' /\ Commanded(q)' /\ Delivered(q)' /\ Unpacked(q)'
      BY <1>1, <1>2, <1>3, <1>4, <2>2, <3>1
         DEF JobOK, Private, Sure, Commanded, Delivered, Unpacked, AllWhole
    <3>3. Doubtful(q)'
      BY <1>1, <1>3, <1>4, <2>2, <3>1 DEF JobOK, Private, Doubtful, Sure
    <3> QED
      BY <3>2, <3>3 DEF JobOK
  <2> QED
    BY <2>1, <2>2
<1>6. ASSUME NEW v \in Versions PROVE DirOK(v)'
  <2>1. CASE v = job[p].ver
    BY <1>1, <2>1 DEF DirOK, NothingIn
  <2>2. CASE v # job[p].ver
    BY <1>1, <1>2, <2>2 DEF WebInv, DirOK, NothingIn, AllWhole
  <2> QED
    BY <2>1, <2>2
<1> QED
  BY <1>5, <1>6 DEF WebInv

LEMMA WebExtracted ==
    ASSUME RelTypeInv, WebInv, NEW p \in Updaters, Extracted(p)
    PROVE  WebInv'
<1>1. /\ job[p].pc = "extract" /\ job[p].files = Files /\ Advance(p, "check")
      /\ dir' = dir /\ spoiled' = spoiled
  BY DEF Extracted
<1>2. /\ \A q \in Updaters \ {p} : job'[q] = job[q]
      /\ job'[p].pc = "check" /\ job'[p].ver = job[p].ver /\ job'[p].doubt = job[p].doubt
  BY <1>1, RelStepFields
<1>3. \A q \in Updaters : JobOK(q)
  BY DEF WebInv
<1>4. /\ job[p].pc \in Changing /\ job[p].pc \in WebPcs
      /\ job'[p].pc \in Reading /\ job'[p].pc \notin Changing
  BY <1>1, <1>2 DEF Changing, Reading, WebPcs
<1>5. ~job[p].doubt => AllWhole(job[p].ver)
  BY <1>1, <1>3 DEF JobOK, Unpacked, Sure, AllWhole
<1>6. ASSUME NEW q \in Updaters PROVE JobOK(q)'
  <2>1. CASE q = p
    <3>1. Commanded(p)' /\ Delivered(p)' /\ Doubtful(p)'
      BY <1>1, <1>2, <1>3, <1>4 DEF Commanded, Delivered, JobOK, Doubtful
    <3>2. Private(p)'
      BY <1>2, <1>3, <1>4 DEF JobOK, Private, Sure, WebPcs
    <3>3. Unpacked(p)'
      BY <1>1, <1>2, <1>5 DEF Unpacked, Fresh, Sure, AllWhole
    <3> QED
      BY <2>1, <3>1, <3>2, <3>3 DEF JobOK
  <2>2. CASE q # p
    <3>1. job'[q] = job[q] /\ JobOK(q)
      BY <1>2, <1>3, <2>2
    <3>2. Private(q)'
      BY <1>2, <1>4, <2>2, <3>1 DEF JobOK, Private, Sure, WebPcs
    <3> QED
      BY <1>1, <3>1, <3>2
         DEF JobOK, Sure, Commanded, Delivered, Doubtful, Unpacked, AllWhole
  <2> QED
    BY <2>1, <2>2
<1>7. ASSUME NEW v \in Versions PROVE DirOK(v)'
  <2>1. CASE v = job[p].ver
    BY <1>1, <1>3, <1>4, <1>5, <2>1 DEF DirOK, AllWhole, JobOK, Doubtful
  <2>2. CASE v # job[p].ver
    BY <1>1, <1>2, <2>2 DEF WebInv, DirOK, NothingIn, AllWhole
  <2> QED
    BY <2>1, <2>2
<1> QED
  BY <1>6, <1>7 DEF WebInv

\* Only a directory that was spoiled can lack the two files after its tar.
LEMMA WebExtractFails ==
    ASSUME RelTypeInv, WebInv, NEW p \in Updaters, ExtractFails(p)
    PROVE  WebInv'
<1>1. /\ job[p].pc \in {"fetch", "extract", "check"} /\ Advance(p, "discard")
      /\ job[p].pc = "check" => ~Found(job[p].ver)
      /\ dir' = dir /\ spoiled' = spoiled
  BY DEF ExtractFails, AfterFailure
<1>2. /\ \A q \in Updaters \ {p} : job'[q] = job[q]
      /\ job'[p].pc = "discard" /\ job'[p].ver = job[p].ver /\ job'[p].doubt = job[p].doubt
  BY <1>1, RelStepFields
<1>3. \A q \in Updaters : JobOK(q)
  BY DEF WebInv
<1>4. CASE job[p].pc # "check"
  BY <1>1, <1>2, <1>4, WebRewrites DEF WebFrame, Changing
<1>5. CASE job[p].pc = "check"
  <2>1. job[p].pc \in Reading /\ job[p].pc \notin Changing
    BY <1>5 DEF Reading, Changing
  <2>2. ~AllWhole(job[p].ver)
    BY <1>1, <1>5, WholeIsFound
  <2>3. job[p].doubt /\ job[p].ver \in spoiled
    BY <1>3, <1>5, <2>1, <2>2 DEF JobOK, Unpacked, Doubtful, Sure
  <2>4. ASSUME NEW q \in Updaters PROVE JobOK(q)'
    <3>1. CASE q = p
      <4>1. Commanded(p)' /\ Delivered(p)' /\ Doubtful(p)'
        BY <1>1, <1>2, <2>3 DEF Commanded, Delivered, Doubtful
      <4>2. Private(p)' /\ Unpacked(p)'
        BY <1>2, <2>3 DEF Private, Unpacked, Fresh, Sure
      <4> QED
        BY <3>1, <4>1, <4>2 DEF JobOK
    <3>2. CASE q # p
      <4>1. job'[q] = job[q] /\ JobOK(q)
        BY <1>2, <1>3, <3>2
      <4>2. job[q].ver = job[p].ver => ~Sure(q, WebPcs)
        BY <1>5, <2>2, <3>2, <4>1 DEF JobOK, Private, Unpacked, Sure, WebPcs
      <4>3. Sure(q, Changing) => Sure(q, WebPcs)
        BY DEF Sure, WebPcs
      <4>4. Private(q)'
        BY <1>2, <3>2, <4>1, <4>2, <4>3 DEF JobOK, Private, Sure
      <4> QED
        BY <1>1, <4>1, <4>4
           DEF JobOK, Sure, Commanded, Delivered, Doubtful, Unpacked, AllWhole
    <3> QED
      BY <3>1, <3>2
  <2>5. ASSUME NEW v \in Versions PROVE DirOK(v)'
    BY <1>1, <1>2, <2>1 DEF WebInv, DirOK, NothingIn, AllWhole
  <2> QED
    BY <2>4, <2>5 DEF WebInv
<1> QED
  BY <1>4, <1>5

LEMMA WebKill ==
    ASSUME RelTypeInv, WebInv, NEW p \in Updaters, Interrupted(p)
    PROVE  WebInv'
<1>1. /\ job[p].pc # "start" /\ Advance(p, "killed") /\ dir' = dir
      /\ spoiled' = IF job[p].pc \in Changing THEN spoiled \union {job[p].ver} ELSE spoiled
  BY DEF Interrupted
<1>2. /\ \A q \in Updaters \ {p} : job'[q] = job[q]
      /\ job'[p].pc = "killed"
  BY <1>1, RelStepFields
<1>3. \A q \in Updaters : JobOK(q)
  BY DEF WebInv
<1>4. /\ job'[p].pc \notin WebPcs /\ job'[p].pc \notin Fresh
      /\ Commanded(p)' /\ Delivered(p)'
  BY <1>2 DEF WebPcs, Changing, Reading, Fresh, Commanded, Delivered
<1>5. CASE job[p].pc \notin Changing
  BY <1>1, <1>2, <1>4, <1>5, WebOutside DEF WebFrame
<1>6. CASE job[p].pc \in Changing
  <2>1. spoiled' = spoiled \union {job[p].ver}
    BY <1>1, <1>6
  <2>2. ASSUME NEW q \in Updaters PROVE JobOK(q)'
    <3>1. CASE q = p
      <4>1. Private(p)' /\ Doubtful(p)' /\ Unpacked(p)'
        BY <1>2, <1>4 DEF Private, Doubtful, Unpacked, Sure, WebPcs, Changing, Reading
      <4> QED
        BY <1>4, <3>1, <4>1 DEF JobOK
    <3>2. CASE q # p
      <4>1. job'[q] = job[q] /\ JobOK(q)
        BY <1>2, <1>3, <3>2
      <4>2. Private(q)'
        BY <1>2, <1>4, <3>2, <4>1 DEF JobOK, Private, Sure, WebPcs
      <4> QED
        BY <1>1, <2>1, <4>1, <4>2
           DEF JobOK, Sure, Commanded, Delivered, Doubtful, Unpacked, AllWhole
    <3> QED
      BY <3>1, <3>2
  <2>3. ASSUME NEW v \in Versions PROVE DirOK(v)'
    BY <1>1, <1>2, <2>1 DEF WebInv, DirOK, NothingIn, AllWhole
  <2> QED
    BY <2>2, <2>3 DEF WebInv
<1> QED
  BY <1>5, <1>6

LEMMA WebStart ==
    ASSUME RelTypeInv, WebInv, NEW p \in Updaters, Launch(p)
    PROVE  WebInv'
<1> DEFINE v  == Target(job[p].cmd)
           step == CASE job[p].cmd \in {"create", "update"} -> "artifact"
                   [] job[p].cmd = "self" /\ exe >= v     -> "current"
                   [] job[p].cmd = "both" /\ exe >= v     -> "artifact"
                   [] OTHER                               -> "download"
           l  == [job[p] EXCEPT !.own = exe, !.ver = v, !.pc = step]
<1>1. job[p] \in RelJob /\ job \in [Updaters -> RelJob] /\ job[p].pc = "start"
  BY RelTyped DEF Launch
<1>2. job' = [job EXCEPT ![p] = l] /\ UNCHANGED <<dir, spoiled>>
  BY DEF Launch, SetJob
<1>3. /\ step \in {"artifact", "current", "download"}
      /\ step = "download" => job[p].cmd \in {"self", "both"}
  BY <1>1 DEF RelJob, UpdateCommands
<1> HIDE DEF v, step
<1>4. l.pc = step /\ l.cmd = job[p].cmd /\ l.files = job[p].files
  BY <1>1 DEF RelJob
<1> HIDE DEF l
<1>5. job'[p] = l /\ \A q \in Updaters \ {p} : job'[q] = job[q]
  BY <1>1, <1>2
<1>6. job[p].files = {}
  BY <1>1 DEF WebInv, JobOK, Unpacked, Fresh
<1>7. /\ job'[p].pc \notin WebPcs /\ job[p].pc \notin Changing
      /\ Commanded(p)' /\ Delivered(p)' /\ job'[p].files = {}
  BY <1>1, <1>3, <1>4, <1>5, <1>6
     DEF WebPcs, Changing, Reading, Commanded, Delivered
<1> QED
  BY <1>2, <1>5, <1>7, WebOutside DEF WebFrame

\* Tidy and Cancelled are of self update.
LEMMA WebReturned ==
    ASSUME RelTypeInv, WebInv, NEW p \in Updaters, Tidy(p) \/ Cancelled(p)
    PROVE  WebInv'
<1>1. /\ job[p].pc \in {"tidy", "download"} /\ Returned(p) /\ UNCHANGED <<dir, spoiled>>
      /\ job[p] \in RelJob /\ job \in [Updaters -> RelJob]
  BY RelTyped DEF Tidy, Cancelled
<1>2. /\ job'[p].pc \in {"artifact", "done"} /\ \A q \in Updaters \ {p} : job'[q] = job[q]
  BY <1>1, RelReturnedType
<1>3. job'[p].files = job[p].files /\ job'[p].cmd = job[p].cmd
      /\ (job'[p].pc = "done" => job[p].cmd # "both")
  <2>1. CASE job[p].cmd = "both"
    <3> DEFINE l == [job[p] EXCEPT !.pc = "artifact", !.ver = latest]
    <3>1. l.pc = "artifact" /\ l.files = job[p].files /\ l.cmd = job[p].cmd
      BY <1>1 DEF RelJob
    <3>2. job' = [job EXCEPT ![p] = l]
      BY <1>1, <2>1 DEF Returned, SetJob, Target
    <3> HIDE DEF l
    <3>3. job'[p] = l
      BY <1>1, <3>2
    <3> QED
      BY <3>1, <3>3
  <2>2. CASE job[p].cmd # "both"
    BY <1>1, <2>2, RelStepFields DEF Returned
  <2> QED
    BY <2>1, <2>2
<1>4. job[p].cmd \in {"self", "both"} /\ job[p].files = {}
  BY <1>1 DEF WebInv, JobOK, Commanded, Unpacked, Fresh
<1>5. /\ job'[p].pc \notin WebPcs /\ job[p].pc \notin Changing
      /\ Commanded(p)' /\ Delivered(p)'
  BY <1>1, <1>2, <1>3, <1>4
     DEF WebPcs, Changing, Reading, Commanded, Delivered
<1> QED
  BY <1>1, <1>2, <1>3, <1>4, <1>5, WebOutside DEF WebFrame

\* A step of one invocation, that reads no directory, to another pc.
LEMMA WebSteps ==
    ASSUME RelTypeInv, WebInv, NEW p \in Updaters,
           \/ CallFails(p) \/ Downloaded(p) \/ Backup(p) \/ Install(p)
           \/ Restore(p) \/ Given(p)
    PROVE  WebInv'
<1>1. UNCHANGED <<dir, spoiled>> /\ job[p].pc # "start"
  BY DEF CallFails, Downloaded, Backup, Install, Restore, Given
<1>2. JobOK(p)
  BY DEF WebInv
<1>3. ASSUME job[p].pc \notin Changing,
             NEW step \in {"backup", "install", "restore", "tidy", "given", "failed",
                           "stranded"},
             Advance(p, step),
             step \in {"backup", "install", "restore", "tidy"} =>
                job[p].pc \in {"download", "backup", "install"}
      PROVE  WebInv'
  <2>1. /\ \A q \in Updaters \ {p} : job'[q] = job[q]
        /\ job'[p].pc = step /\ job'[p].cmd = job[p].cmd /\ job'[p].files = job[p].files
    BY <1>1, <1>3, RelStepFields
  <2>2. job'[p].pc \notin WebPcs
    BY <2>1 DEF WebPcs, Changing, Reading
  <2>3. Commanded(p)' /\ Delivered(p)'
    BY <1>2, <1>3, <2>1 DEF JobOK, Commanded, Delivered
  <2>4. job'[p].pc \in Fresh => job'[p].files = {}
    BY <1>2, <1>3, <2>1 DEF JobOK, Unpacked, Fresh
  <2> QED
    BY <1>1, <1>3, <2>1, <2>2, <2>3, <2>4, WebOutside DEF WebFrame
<1>4. CASE job[p].pc = "fetch"
  <2>1. Advance(p, "extract") /\ job[p].files = {}
    BY <1>2, <1>4 DEF CallFails, Downloaded, Backup, Install, Restore, Given,
                      JobOK, Unpacked, Fresh
  <2>2. /\ \A q \in Updaters \ {p} : job'[q] = job[q]
        /\ job'[p].pc = "extract" /\ job'[p].files = {}
        /\ job'[p].ver = job[p].ver /\ job'[p].doubt = job[p].doubt
    BY <1>1, <2>1, RelStepFields
  <2> QED
    BY <1>1, <1>4, <2>2, WebRewrites DEF WebFrame, Changing
<1>5. CASE job[p].pc # "fetch"
  <2>1. job[p].pc \notin Changing
    BY <1>5 DEF CallFails, Downloaded, Backup, Install, Restore, Given,
                Changing
  <2>2. \E step \in {"backup", "install", "restore", "tidy", "given", "failed", "stranded"} :
           /\ Advance(p, step)
           /\ step \in {"backup", "install", "restore", "tidy"} =>
                 job[p].pc \in {"download", "backup", "install"}
    BY <1>5 DEF CallFails, Downloaded, Backup, Install, Restore, Given
  <2> QED
    BY <1>3, <2>1, <2>2
<1> QED
  BY <1>4, <1>5

\* What one reads of a directory that is whole is whole.
LEMMA WholeIsRead ==
    ASSUME NEW p \in Updaters, AllWhole(job[p].ver)
    PROVE  Present(p) = Files /\ Intact(p) = Files
BY DEF AllWhole, Present, Intact, Whole, Absent

LEMMA WebUse ==
    ASSUME RelTypeInv, WebInv, NEW p \in Updaters,
           Checked(p) \/ List(p) \/ Send(p) \/ Deploy(p)
    PROVE  WebInv'
<1>1. /\ job[p] \in RelJob /\ job \in [Updaters -> RelJob] /\ UNCHANGED <<dir, spoiled>>
      /\ job[p].pc \in {"check", "list", "send", "worker"}
  BY RelTyped DEF Checked, List, Send, Deploy
<1>2. /\ job[p].pc \notin Changing /\ job[p].pc \in Reading
      /\ job[p].pc # "start" /\ JobOK(p)
  BY <1>1 DEF Changing, Reading, WebInv
<1>3. CASE Advance(p, "failed")
  <2>1. job'[p].pc = "failed" /\ \A q \in Updaters \ {p} : job'[q] = job[q]
    BY <1>2, <1>3, RelStepFields
  <2>2. /\ job'[p].pc \notin WebPcs /\ job'[p].pc \notin Fresh /\ Commanded(p)' /\ Delivered(p)'
    BY <2>1 DEF WebPcs, Changing, Reading, Fresh, Commanded, Delivered
  <2> QED
    BY <1>1, <1>2, <2>1, <2>2, WebOutside DEF WebFrame
<1>4. Sure(p, Reading) => Present(p) = Files /\ Intact(p) = Files
  BY <1>2, WholeIsRead DEF JobOK, Unpacked
<1>5. job[p].doubt \/ Sure(p, Reading)
  BY <1>2 DEF Sure
<1>6. CASE Checked(p)
  <2> DEFINE l == [job[p] EXCEPT !.pc = "list", !.files = {}]
  <2>1. l.pc = "list" /\ l.ver = job[p].ver /\ l.doubt = job[p].doubt
    BY <1>1 DEF RelJob
  <2>2. job' = [job EXCEPT ![p] = l]
    BY <1>6 DEF Checked, SetJob
  <2> HIDE DEF l
  <2>3. job'[p] = l /\ \A q \in Updaters \ {p} : job'[q] = job[q]
    BY <1>1, <2>2
  <2>4. job'[p].pc \in Reading \ {"check"}
    BY <2>1, <2>3 DEF Reading
  <2> QED
    BY <1>1, <1>2, <2>1, <2>3, <2>4, WebReads DEF WebFrame
<1>7. CASE List(p) /\ ~Advance(p, "failed")
  <2> DEFINE l == [job[p] EXCEPT !.pc = "send", !.seen = Present(p) \intersect Client,
                                 !.files = Intact(p) \intersect Client]
  <2>1. /\ l.pc = "send" /\ l.ver = job[p].ver /\ l.doubt = job[p].doubt
        /\ l.files = Intact(p) \intersect Client
    BY <1>1 DEF RelJob
  <2>2. job' = [job EXCEPT ![p] = l]
    BY <1>7 DEF List, SetJob
  <2> HIDE DEF l
  <2>3. job'[p] = l /\ \A q \in Updaters \ {p} : job'[q] = job[q]
    BY <1>1, <2>2
  <2>4. job'[p].pc \in Reading \ {"check"}
    BY <2>1, <2>3 DEF Reading
  <2>5. Sure(p, Reading) => job'[p].files = Client
    BY <1>4, <2>1, <2>3 DEF Files
  <2> QED
    BY <1>1, <1>2, <2>1, <2>3, <2>4, <2>5, WebReads DEF WebFrame
<1>8. CASE Send(p) /\ ~Advance(p, "failed")
  <2> DEFINE l == [job[p] EXCEPT !.pc = "worker",
                                 !.files = job[p].files \intersect Intact(p)]
  <2>1. /\ l.pc = "worker" /\ l.ver = job[p].ver /\ l.doubt = job[p].doubt
        /\ l.files = job[p].files \intersect Intact(p)
    BY <1>1 DEF RelJob
  <2>2. job' = [job EXCEPT ![p] = l] /\ job[p].pc = "send"
    BY <1>1, <1>8 DEF Send, SetJob, RelJob
  <2> HIDE DEF l
  <2>3. job'[p] = l /\ \A q \in Updaters \ {p} : job'[q] = job[q]
    BY <1>1, <2>2
  <2>4. job'[p].pc \in Reading \ {"check"}
    BY <2>1, <2>3 DEF Reading
  <2>5. Sure(p, Reading) => job[p].files = Client
    BY <1>2, <2>2 DEF JobOK, Unpacked, Sure
  <2>6. Sure(p, Reading) => job'[p].files = Client
    BY <1>4, <2>1, <2>3, <2>5 DEF Files
  <2> QED
    BY <1>1, <1>2, <2>1, <2>3, <2>4, <2>6, WebReads DEF WebFrame
<1>9. CASE Deploy(p) /\ ~Advance(p, "failed")
  <2> DEFINE l == [job[p] EXCEPT !.pc = "done",
                      !.files = job[p].files \union ({"index.js"} \intersect Intact(p))]
  <2>1. /\ l.pc = "done" /\ l.doubt = job[p].doubt
        /\ l.files = job[p].files \union ({"index.js"} \intersect Intact(p))
    BY <1>1 DEF RelJob
  <2>2. job' = [job EXCEPT ![p] = l] /\ job[p].pc = "worker"
    BY <1>1, <1>9 DEF Deploy, SetJob, RelJob
  <2> HIDE DEF l
  <2>3. job'[p] = l /\ \A q \in Updaters \ {p} : job'[q] = job[q]
    BY <1>1, <2>2
  <2>4. job'[p].pc \notin WebPcs /\ job'[p].pc \notin Fresh /\ Commanded(p)'
    BY <2>1, <2>3 DEF WebPcs, Reading, Changing, Fresh, Commanded
  <2>5. Sure(p, Reading) => job[p].files = Client
    BY <1>2, <2>2 DEF JobOK, Unpacked, Sure
  <2>6. Sure(p, Reading) => job'[p].files = Files
    BY <1>4, <2>1, <2>3, <2>5 DEF Files
  <2>7. Delivered(p)'
    BY <1>5, <2>1, <2>3, <2>6 DEF Delivered
  <2> QED
    BY <1>1, <1>2, <2>3, <2>4, <2>7, WebOutside DEF WebFrame
<1> QED
  BY <1>3, <1>6, <1>7, <1>8, <1>9

LEMMA WebStep ==
    ASSUME RelTypeInv, WebInv, [ReleaseNext]_releaseVars
    PROVE  WebInv'
<1>1. ASSUME UNCHANGED <<dir, job, spoiled>> PROVE WebInv'
  <2>1. \A q \in Updaters : JobOK(q)'
    BY <1>1 DEF WebInv, JobOK, Commanded, Private, Doubtful, Unpacked, Delivered, Sure, AllWhole
  <2>2. \A v \in Versions : DirOK(v)'
    BY <1>1 DEF WebInv, DirOK, NothingIn, AllWhole
  <2> QED
    BY <2>1, <2>2 DEF WebInv
<1>2. CASE UNCHANGED releaseVars \/ Publish
  BY <1>1, <1>2 DEF releaseVars, Publish
<1> QED
  BY <1>2, WebStart, WebKill, WebReturned, WebSteps, WebHit, WebRewrite, WebRemoveOne,
     WebRemoved, WebWrite, WebExtracted, WebExtractFails, WebUse DEF ReleaseNext

\* However earlier downloads and extractions failed, and wherever an invocation
\* was killed, a vault is deployed from all files of a release, each of them
\* whole, unless its directory was in doubt while it was used.
THEOREM ReleaseDeployedIsWhole == ReleaseSpec => []DeployedIsWhole
<1>1. ReleaseInit => WebInv
  <2> SUFFICES ASSUME ReleaseInit PROVE WebInv
    OBVIOUS
  <2>1. \A p \in Updaters : job[p].pc = "start" /\ job[p].files = {}
    BY DEF ReleaseInit, New
  <2>2. \A p \in Updaters : JobOK(p)
    BY <2>1 DEF JobOK, Commanded, Private, Doubtful, Unpacked, Delivered, Sure, WebPcs,
                Changing, Reading
  <2>3. \A v \in Versions : DirOK(v)
    BY DEF ReleaseInit, DirOK, NothingIn
  <2> QED
    BY <2>2, <2>3 DEF WebInv
<1>2. WebInv => DeployedIsWhole
  BY DEF WebInv, JobOK, Delivered, DeployedIsWhole
<1> QED
  BY <1>1, <1>2, RelTypeInit, RelTypeStep, WebStep, PTL DEF ReleaseSpec

-----------------------------------------------------------------------------
(***************************************************************************)
(* The environment of a child.  A fold over a sequence is the last of its  *)
(* intermediate results, each of which comes from the one before; what     *)
(* holds of the first and is kept from one to the next holds of the last.  *)
(* Induction is over sets of numbers: one that has 0, and with every       *)
(* number the next, has all up to the bound.                               *)
(***************************************************************************)
LEMMA UpTo ==
    ASSUME NEW n \in Nat, NEW S \in SUBSET (0..n), 0 \in S,
           \A k \in 0..n : k \in S /\ k < n => k + 1 \in S
    PROVE  S = 0..n
<1> SUFFICES ASSUME (0..n) \ S # {} PROVE FALSE
  OBVIOUS
<1> DEFINE R == (0..n) \ S
<1>0. R \in SUBSET Nat /\ R # {}
  OBVIOUS
<1>1. PICK k \in R : \A j \in R : k <= j
  <2> HIDE DEF R
  <2> QED
    BY <1>0, LeastNumber
<1>2. k \in Nat /\ k # 0 /\ k - 1 \in 0..n /\ k - 1 < n /\ (k - 1) + 1 = k
  BY <1>1
<1>3. k - 1 \in S
  BY <1>1, <1>2
<1> QED
  BY <1>1, <1>2, <1>3

LEMMA MaxIs ==
    ASSUME NEW n \in Nat, NEW S \in SUBSET (1..n), S # {}
    PROVE  Max(S) \in S /\ \A i \in S : i <= Max(S)
<1> DEFINE T == {n - i : i \in S}
<1>1. T \in SUBSET Nat /\ T # {}
  <2>1. \A i \in S : n - i \in Nat
    OBVIOUS
  <2> QED
    BY <2>1
<1>2. PICK d \in T : \A e \in T : d <= e
  BY <1>1, LeastNumber
<1>3. PICK m \in S : d = n - m
  BY <1>2
<1>4. ASSUME NEW i \in S PROVE m >= i
  <2>1. n - m <= n - i
    BY <1>2, <1>3
  <2> QED
    BY <2>1
<1>5. \E x \in S : \A y \in S : x >= y
  BY <1>4
<1> HIDE DEF T
<1>6. Max(S) \in S /\ \A i \in S : Max(S) >= i
  BY <1>5 DEF Max
<1> QED
  BY <1>6

\* g is the function by which a fold of F over s is defined.
Unfolds(g, F, base, s) ==
    g = [S \in SUBSET DOMAIN s |->
            IF S = {} THEN base ELSE F[<<g[S \ {Max(S)}], s[Max(S)]>>]]

LEMMA FoldIsDefined ==
    ASSUME NEW M, NEW A, NEW base \in M, NEW F \in [M \X A -> M], NEW s \in Seq(A)
    PROVE  \E g \in [SUBSET DOMAIN s -> M] : Unfolds(g, F, base, s)
<1> DEFINE n       == Len(s)
           Part(g, k) == \A S \in SUBSET (1..k) :
                            g[S] = IF S = {} THEN base ELSE F[<<g[S \ {Max(S)}], s[Max(S)]>>]
           Done    == {k \in 0..n : \E g \in [SUBSET (1..k) -> M] : Part(g, k)}
<1>1. n \in Nat /\ DOMAIN s = 1..n /\ \A i \in 1..n : s[i] \in A
  OBVIOUS
<1> HIDE DEF n
<1>2. 0 \in Done
  <2> DEFINE g == [S \in SUBSET (1..0) |-> base]
  <2>1. 1..0 = {}
    OBVIOUS
  <2>2. g \in [SUBSET (1..0) -> M] /\ Part(g, 0)
    BY <2>1
  <2>3. 0 \in 0..n
    BY <1>1
  <2> HIDE DEF g, Part
  <2> QED
    BY <2>2, <2>3
<1>3. ASSUME NEW k \in 0..n, k \in Done, k < n PROVE k + 1 \in Done
  <2>1. PICK g \in [SUBSET (1..k) -> M] : Part(g, k)
    BY <1>3
  <2> DEFINE h == [S \in SUBSET (1..(k + 1)) |->
                      IF k + 1 \in S THEN F[<<g[S \ {k + 1}], s[k + 1]>>] ELSE g[S]]
  <2>2. k \in Nat /\ k + 1 \in 1..n /\ s[k + 1] \in A /\ k + 1 \notin 1..k
    <3>1. k \in Nat /\ k + 1 \in 1..n
      BY <1>1, <1>3
    <3> QED
      BY <1>1, <3>1
  <2>3. \A S \in SUBSET (1..(k + 1)) : S \ {k + 1} \in SUBSET (1..k)
    BY <2>2
  <2>4. \A S \in SUBSET (1..(k + 1)) : k + 1 \notin S => S \in SUBSET (1..k)
    BY <2>2
  <2>5. ASSUME NEW S \in SUBSET (1..(k + 1)) PROVE h[S] \in M
    <3>1. CASE k + 1 \in S
      <4>1. g[S \ {k + 1}] \in M
        BY <2>1, <2>3
      <4>2. <<g[S \ {k + 1}], s[k + 1]>> \in M \X A
        BY <2>2, <4>1
      <4> QED
        BY <3>1, <4>2
    <3>2. CASE k + 1 \notin S
      BY <2>1, <2>4, <3>2
    <3> QED
      BY <3>1, <3>2
  <2>6. h \in [SUBSET (1..(k + 1)) -> M]
    BY <2>5
  <2>7. \A S \in SUBSET (1..k) : S \in SUBSET (1..(k + 1)) /\ h[S] = g[S]
    <3>1. 1..k \subseteq 1..(k + 1)
      BY <2>2
    <3> QED
      BY <2>2, <3>1
  <2>8. ASSUME NEW S \in SUBSET (1..(k + 1))
        PROVE  h[S] = IF S = {} THEN base ELSE F[<<h[S \ {Max(S)}], s[Max(S)]>>]
    <3>1. CASE k + 1 \in S
      <4>1. Max(S) = k + 1
        <5>1. k + 1 \in Nat /\ S # {}
          BY <2>2, <3>1
        <5>2. Max(S) \in S /\ \A i \in S : i <= Max(S)
          BY <5>1, MaxIs
        <5>3. Max(S) \in 1..(k + 1) /\ k + 1 <= Max(S)
          BY <3>1, <5>2
        <5> QED
          BY <2>2, <5>3
      <4>2. h[S \ {k + 1}] = g[S \ {k + 1}]
        BY <2>3, <2>7
      <4>3. h[S] = F[<<g[S \ {k + 1}], s[k + 1]>>]
        BY <3>1
      <4> HIDE DEF h
      <4> QED
        BY <3>1, <4>1, <4>2, <4>3
    <3>2. CASE k + 1 \notin S
      <4>1. S \in SUBSET (1..k) /\ S \ {Max(S)} \in SUBSET (1..k)
        BY <2>4, <3>2
      <4>2. h[S] = g[S] /\ h[S \ {Max(S)}] = g[S \ {Max(S)}]
        BY <2>7, <4>1
      <4> HIDE DEF h
      <4> QED
        BY <2>1, <4>1, <4>2
    <3> QED
      BY <3>1, <3>2
  <2>9. k + 1 \in 0..n
    BY <1>1, <2>2
  <2>10. Part(h, k + 1)
    BY <2>8
  <2> HIDE DEF h, Part
  <2> QED
    BY <2>6, <2>9, <2>10
<1>4. n \in Done
  <2>1. Done \in SUBSET (0..n)
    OBVIOUS
  <2> HIDE DEF Done
  <2> QED
    BY <1>1, <1>2, <1>3, <2>1, UpTo
<1>5. PICK g \in [SUBSET (1..n) -> M] : Part(g, n)
  BY <1>4
<1>6. g = [S \in SUBSET (1..n) |->
              IF S = {} THEN base ELSE F[<<g[S \ {Max(S)}], s[Max(S)]>>]]
  BY <1>5
<1> QED
  BY <1>1, <1>6 DEF Unfolds

LEMMA UpToMax ==
    ASSUME NEW n \in Nat, NEW k \in 1..n
    PROVE  /\ k \in Nat /\ 1..k \in SUBSET (1..n) /\ 1..k # {}
           /\ Max(1..k) = k /\ (1..k) \ {k} = 1..(k - 1)
<1>1. k \in Nat /\ 1 <= k /\ k <= n /\ k \in 1..k
  OBVIOUS
<1>2. 1..k \subseteq 1..n
  BY <1>1
<1>3. Max(1..k) = k
  <2>1. Max(1..k) \in 1..k /\ \A i \in 1..k : i <= Max(1..k)
    BY <1>1, MaxIs
  <2> QED
    BY <1>1, <2>1
<1>4. (1..k) \ {k} = 1..(k - 1)
  BY <1>1
<1> QED
  BY <1>1, <1>2, <1>3, <1>4

-----------------------------------------------------------------------------
Values   == Names \union {Unset}
Maps     == [ref : [Keys -> Values], oauth : [Keys -> Values], plain : [Keys -> Values]]
FileStep == [x \in Maps \X Assignments |-> FromFile(x[1], x[2])]
OptStep  == [x \in Maps \X Assignments |-> FromOption(x[1], x[2])]

LEMMA NowhereTyped ==
    /\ Nowhere \in Maps
    /\ \A k \in Keys : /\ Nowhere.ref[k] = Unset /\ Nowhere.oauth[k] = Unset
                       /\ Nowhere.plain[k] = Unset
BY DEF Nowhere, Nothing, Maps, Values

\* What one assignment does to the maps.
LEMMA FromFileDoes ==
    ASSUME NEW m \in Maps, NEW x \in Assignments
    PROVE  /\ FromFile(m, x) \in Maps
           /\ FileStep[<<m, x>>] = FromFile(m, x)
           /\ FromFile(m, x).ref[x.key] = IF x.kind = "secret" THEN x.name ELSE Unset
           /\ FromFile(m, x).oauth[x.key] = IF x.kind = "oauth" THEN x.name ELSE Unset
           /\ x.kind = "text" => FromFile(m, x).plain[x.key] = x.name
           /\ \A k \in Keys \ {x.key} : /\ FromFile(m, x).ref[k] = m.ref[k]
                                        /\ FromFile(m, x).oauth[k] = m.oauth[k]
                                        /\ FromFile(m, x).plain[k] = m.plain[k]
<1>1. /\ m.ref \in [Keys -> Values] /\ m.oauth \in [Keys -> Values]
      /\ m.plain \in [Keys -> Values]
      /\ x.key \in Keys /\ x.name \in Values
  BY DEF Maps, Assignments, Values
<1> DEFINE r == [m.ref EXCEPT ![x.key] = IF x.kind = "secret" THEN x.name ELSE Unset]
           o == [m.oauth EXCEPT ![x.key] = IF x.kind = "oauth" THEN x.name ELSE Unset]
           p == [m.plain EXCEPT ![x.key] = IF x.kind = "text" THEN x.name ELSE m.plain[x.key]]
<1>2. FromFile(m, x) = [ref |-> r, oauth |-> o, plain |-> p]
  BY DEF FromFile
<1>3. r \in [Keys -> Values] /\ o \in [Keys -> Values] /\ p \in [Keys -> Values]
  BY <1>1 DEF Values
<1>4. /\ r[x.key] = IF x.kind = "secret" THEN x.name ELSE Unset
      /\ o[x.key] = IF x.kind = "oauth" THEN x.name ELSE Unset
      /\ x.kind = "text" => p[x.key] = x.name
      /\ \A k \in Keys \ {x.key} : r[k] = m.ref[k] /\ o[k] = m.oauth[k] /\ p[k] = m.plain[k]
  BY <1>1
<1>5. FileStep[<<m, x>>] = FromFile(m, x)
  BY DEF FileStep
<1> HIDE DEF r, o, p
<1> QED
  BY <1>2, <1>3, <1>4, <1>5 DEF Maps

LEMMA FromOptionDoes ==
    ASSUME NEW m \in Maps, NEW x \in Assignments
    PROVE  /\ FromOption(m, x) \in Maps
           /\ OptStep[<<m, x>>] = FromOption(m, x)
           /\ FromOption(m, x).ref[x.key] = IF x.kind = "oauth" THEN Unset ELSE x.name
           /\ FromOption(m, x).oauth[x.key] = IF x.kind = "oauth" THEN x.name ELSE Unset
           /\ FromOption(m, x).plain = m.plain
           /\ \A k \in Keys \ {x.key} : /\ FromOption(m, x).ref[k] = m.ref[k]
                                        /\ FromOption(m, x).oauth[k] = m.oauth[k]
<1>1. /\ m.ref \in [Keys -> Values] /\ m.oauth \in [Keys -> Values]
      /\ m.plain \in [Keys -> Values]
      /\ x.key \in Keys /\ x.name \in Values
  BY DEF Maps, Assignments, Values
<1> DEFINE r == [m.ref EXCEPT ![x.key] = IF x.kind = "oauth" THEN Unset ELSE x.name]
           o == [m.oauth EXCEPT ![x.key] = IF x.kind = "oauth" THEN x.name ELSE Unset]
<1>2. FromOption(m, x) = [ref |-> r, oauth |-> o, plain |-> m.plain]
  <2> DEFINE v == IF x.kind = "oauth" THEN Unset ELSE x.name
             u == IF x.kind = "oauth" THEN x.name ELSE Unset
  <2>1. FromOption(m, x) = [m EXCEPT !.ref[x.key] = v, !.oauth[x.key] = u]
    BY DEF FromOption
  <2>2. r = [m.ref EXCEPT ![x.key] = v] /\ o = [m.oauth EXCEPT ![x.key] = u]
    OBVIOUS
  <2> HIDE DEF v, u, r, o
  <2> QED
    BY <2>1, <2>2 DEF Maps
<1>3. r \in [Keys -> Values] /\ o \in [Keys -> Values]
  BY <1>1 DEF Values
<1>4. /\ r[x.key] = IF x.kind = "oauth" THEN Unset ELSE x.name
      /\ o[x.key] = IF x.kind = "oauth" THEN x.name ELSE Unset
      /\ \A k \in Keys \ {x.key} : r[k] = m.ref[k] /\ o[k] = m.oauth[k]
  BY <1>1
<1>5. OptStep[<<m, x>>] = FromOption(m, x)
  BY DEF OptStep
<1> HIDE DEF r, o
<1> QED
  BY <1>1, <1>2, <1>3, <1>4, <1>5 DEF Maps

\* The two folds, step by step.
LEMMA FileFold ==
    ASSUME NEW s \in Seq(Assignments)
    PROVE  \E h : /\ h[0] = Nowhere
                  /\ \A k \in 0..Len(s) : h[k] \in Maps
                  /\ \A k \in 1..Len(s) : h[k] = FromFile(h[k - 1], s[k])
                  /\ FoldLeft(FromFile, Nowhere, s) = h[Len(s)]
<1> DEFINE n == Len(s)
           Is(g) == g = [S \in SUBSET DOMAIN s |->
                            IF S = {} THEN Nowhere ELSE FromFile(g[S \ {Max(S)}], s[Max(S)])]
           c == CHOOSE g : Is(g)
           h == [k \in 0..n |-> c[1..k]]
<1>1. n \in Nat /\ DOMAIN s = 1..n /\ \A i \in 1..n : s[i] \in Assignments
  OBVIOUS
<1>2. FoldLeft(FromFile, Nowhere, s) = c[DOMAIN s]
  BY DEF FoldLeft, MapThenFoldSet
<1> HIDE DEF n
<1>3. FileStep \in [Maps \X Assignments -> Maps]
  BY FromFileDoes DEF FileStep
<1>4. PICK f \in [SUBSET DOMAIN s -> Maps] : Unfolds(f, FileStep, Nowhere, s)
  BY <1>3, NowhereTyped, FoldIsDefined
<1>5. Is(f)
  <2>1. ASSUME NEW S \in SUBSET (1..n), S # {}
        PROVE  /\ f[S \ {Max(S)}] \in Maps /\ s[Max(S)] \in Assignments
               /\ f[S] = FromFile(f[S \ {Max(S)}], s[Max(S)])
    <3>1. Max(S) \in 1..n
      BY <1>1, <2>1, MaxIs
    <3>2. S \ {Max(S)} \in SUBSET (1..n)
      OBVIOUS
    <3>3. f[S \ {Max(S)}] \in Maps /\ s[Max(S)] \in Assignments
      BY <1>1, <3>1, <3>2
    <3>4. f[S] = FileStep[<<f[S \ {Max(S)}], s[Max(S)]>>]
      BY <1>1, <1>4, <2>1 DEF Unfolds
    <3> DEFINE y == f[S \ {Max(S)}]
               x == s[Max(S)]
    <3> HIDE DEF y, x
    <3>5. y \in Maps /\ x \in Assignments /\ f[S] = FileStep[<<y, x>>]
      BY <3>3, <3>4 DEF y, x
    <3>6. f[S] = FromFile(y, x)
      BY <3>5, FromFileDoes
    <3> QED
      BY <3>5, <3>6 DEF y, x
  <2>2. f[{}] = Nowhere
    BY <1>4 DEF Unfolds
  <2>3. f = [S \in SUBSET (1..n) |-> f[S]]
    BY <1>1
  <2> QED
    BY <1>1, <2>1, <2>2, <2>3
<1>6. Is(c)
  <2> HIDE DEF Is
  <2> QED
    BY <1>5
<1> HIDE DEF c
<1>7. h[0] = Nowhere
  <2>1. 1..0 = {} /\ 0 \in 0..n /\ {} \in SUBSET DOMAIN s
    BY <1>1
  <2>2. c[{}] = Nowhere
    BY <1>6, <2>1
  <2> QED
    BY <2>1, <2>2
<1>8. ASSUME NEW k \in 1..n PROVE h[k] = FromFile(h[k - 1], s[k])
  <2>1. k \in 0..n /\ k - 1 \in 0..n
    BY <1>1
  <2>2. /\ 1..k \in SUBSET DOMAIN s /\ 1..k # {}
        /\ Max(1..k) = k /\ (1..k) \ {k} = 1..(k - 1)
    BY <1>1, UpToMax
  <2>3. c[1..k] = FromFile(c[(1..k) \ {Max(1..k)}], s[Max(1..k)])
    BY <1>6, <2>2
  <2>4. c[1..k] = FromFile(c[1..(k - 1)], s[k])
    BY <2>2, <2>3
  <2> QED
    BY <2>1, <2>4
<1>9. h[n] = c[DOMAIN s]
  <2>1. n \in 0..n
    BY <1>1
  <2> QED
    BY <1>1, <2>1
<1> HIDE DEF h
<1>10. \A k \in 0..n : h[k] \in Maps
  <2> DEFINE S == {k \in 0..n : h[k] \in Maps}
  <2>1. 0 \in S
    BY <1>1, <1>7, NowhereTyped
  <2>2. ASSUME NEW k \in 0..n, k \in S, k < n PROVE k + 1 \in S
    <3>1. k + 1 \in 1..n /\ (k + 1) - 1 = k /\ k + 1 \in 0..n
      BY <1>1, <2>2
    <3>2. s[k + 1] \in Assignments /\ h[k] \in Maps /\ h[k + 1] = FromFile(h[k], s[k + 1])
      BY <1>1, <1>8, <2>2, <3>1
    <3> QED
      BY <3>1, <3>2, FromFileDoes
  <2>3. S = 0..n
    <3>1. S \in SUBSET (0..n)
      OBVIOUS
    <3> HIDE DEF S
    <3> QED
      BY <1>1, <2>1, <2>2, <3>1, UpTo
  <2> QED
    BY <2>3
<1> QED
  BY <1>2, <1>7, <1>8, <1>9, <1>10 DEF n

LEMMA OptionFold ==
    ASSUME NEW m \in Maps, NEW s \in Seq(Assignments)
    PROVE  \E h : /\ h[0] = m
                  /\ \A k \in 0..Len(s) : h[k] \in Maps
                  /\ \A k \in 1..Len(s) : h[k] = FromOption(h[k - 1], s[k])
                  /\ FoldLeft(FromOption, m, s) = h[Len(s)]
<1> DEFINE n == Len(s)
           Is(g) == g = [S \in SUBSET DOMAIN s |->
                            IF S = {} THEN m ELSE FromOption(g[S \ {Max(S)}], s[Max(S)])]
           c == CHOOSE g : Is(g)
           h == [k \in 0..n |-> c[1..k]]
<1>1. n \in Nat /\ DOMAIN s = 1..n /\ \A i \in 1..n : s[i] \in Assignments
  OBVIOUS
<1>2. FoldLeft(FromOption, m, s) = c[DOMAIN s]
  BY DEF FoldLeft, MapThenFoldSet
<1> HIDE DEF n
<1>3. OptStep \in [Maps \X Assignments -> Maps]
  BY FromOptionDoes DEF OptStep
<1>4. PICK f \in [SUBSET DOMAIN s -> Maps] : Unfolds(f, OptStep, m, s)
  BY <1>3, FoldIsDefined
<1>5. Is(f)
  <2>1. ASSUME NEW S \in SUBSET (1..n), S # {}
        PROVE  /\ f[S \ {Max(S)}] \in Maps /\ s[Max(S)] \in Assignments
               /\ f[S] = FromOption(f[S \ {Max(S)}], s[Max(S)])
    <3>1. Max(S) \in 1..n
      BY <1>1, <2>1, MaxIs
    <3>2. S \ {Max(S)} \in SUBSET (1..n)
      OBVIOUS
    <3>3. f[S \ {Max(S)}] \in Maps /\ s[Max(S)] \in Assignments
      BY <1>1, <3>1, <3>2
    <3>4. f[S] = OptStep[<<f[S \ {Max(S)}], s[Max(S)]>>]
      BY <1>1, <1>4, <2>1 DEF Unfolds
    <3> DEFINE y == f[S \ {Max(S)}]
               x == s[Max(S)]
    <3> HIDE DEF y, x
    <3>5. y \in Maps /\ x \in Assignments /\ f[S] = OptStep[<<y, x>>]
      BY <3>3, <3>4 DEF y, x
    <3>6. f[S] = FromOption(y, x)
      BY <3>5, FromOptionDoes
    <3> QED
      BY <3>5, <3>6 DEF y, x
  <2>2. f[{}] = m
    BY <1>4 DEF Unfolds
  <2>3. f = [S \in SUBSET (1..n) |-> f[S]]
    BY <1>1
  <2> QED
    BY <1>1, <2>1, <2>2, <2>3
<1>6. Is(c)
  <2> HIDE DEF Is
  <2> QED
    BY <1>5
<1> HIDE DEF c
<1>7. h[0] = m
  <2>1. 1..0 = {} /\ 0 \in 0..n /\ {} \in SUBSET DOMAIN s
    BY <1>1
  <2>2. c[{}] = m
    BY <1>6, <2>1
  <2> QED
    BY <2>1, <2>2
<1>8. ASSUME NEW k \in 1..n PROVE h[k] = FromOption(h[k - 1], s[k])
  <2>1. k \in 0..n /\ k - 1 \in 0..n
    BY <1>1
  <2>2. /\ 1..k \in SUBSET DOMAIN s /\ 1..k # {}
        /\ Max(1..k) = k /\ (1..k) \ {k} = 1..(k - 1)
    BY <1>1, UpToMax
  <2>3. c[1..k] = FromOption(c[(1..k) \ {Max(1..k)}], s[Max(1..k)])
    BY <1>6, <2>2
  <2>4. c[1..k] = FromOption(c[1..(k - 1)], s[k])
    BY <2>2, <2>3
  <2> QED
    BY <2>1, <2>4
<1>9. h[n] = c[DOMAIN s]
  <2>1. n \in 0..n
    BY <1>1
  <2> QED
    BY <1>1, <2>1
<1> HIDE DEF h
<1>10. \A k \in 0..n : h[k] \in Maps
  <2> DEFINE S == {k \in 0..n : h[k] \in Maps}
  <2>1. 0 \in S
    BY <1>1, <1>7
  <2>2. ASSUME NEW k \in 0..n, k \in S, k < n PROVE k + 1 \in S
    <3>1. k + 1 \in 1..n /\ (k + 1) - 1 = k /\ k + 1 \in 0..n
      BY <1>1, <2>2
    <3>2. s[k + 1] \in Assignments /\ h[k] \in Maps /\ h[k + 1] = FromOption(h[k], s[k + 1])
      BY <1>1, <1>8, <2>2, <3>1
    <3> QED
      BY <3>1, <3>2, FromOptionDoes
  <2>3. S = 0..n
    <3>1. S \in SUBSET (0..n)
      OBVIOUS
    <3> HIDE DEF S
    <3> QED
      BY <1>1, <2>1, <2>2, <3>1, UpTo
  <2> QED
    BY <2>3
<1> QED
  BY <1>2, <1>7, <1>8, <1>9, <1>10 DEF n

\* The assignments to a key among the first n.
To(s, k, n) == {i \in 1..n : s[i].key = k}

LEMMA NextTo ==
    ASSUME NEW s \in Seq(Assignments), NEW k, NEW n \in 0..Len(s), n < Len(s)
    PROVE  /\ n + 1 \in 1..Len(s) /\ n + 1 \in 0..Len(s) /\ (n + 1) - 1 = n
           /\ s[n + 1] \in Assignments
           /\ s[n + 1].key # k => To(s, k, n + 1) = To(s, k, n)
           /\ s[n + 1].key = k =>
                 n + 1 \in To(s, k, n + 1) /\ \A i \in To(s, k, n + 1) : i <= n + 1
<1>1. n \in Nat /\ Len(s) \in Nat /\ n + 1 \in 1..Len(s)
  OBVIOUS
<1> QED
  BY <1>1 DEF To

\* What the last of them says decides; without one, nothing is said.
FileSays(m, s, k, n) ==
    /\ To(s, k, n) = {} => m.ref[k] = Unset /\ m.oauth[k] = Unset /\ m.plain[k] = Unset
    /\ \A i \in To(s, k, n) : (\A j \in To(s, k, n) : j <= i) =>
          /\ m.ref[k] = IF s[i].kind = "secret" THEN s[i].name ELSE Unset
          /\ m.oauth[k] = IF s[i].kind = "oauth" THEN s[i].name ELSE Unset
          /\ s[i].kind = "text" => m.plain[k] = s[i].name

OptionSays(m, m0, s, k, n) ==
    /\ m.plain = m0.plain
    /\ To(s, k, n) = {} => m.ref[k] = m0.ref[k] /\ m.oauth[k] = m0.oauth[k]
    /\ \A i \in To(s, k, n) : (\A j \in To(s, k, n) : j <= i) =>
          /\ m.ref[k] = IF s[i].kind = "oauth" THEN Unset ELSE s[i].name
          /\ m.oauth[k] = IF s[i].kind = "oauth" THEN s[i].name ELSE Unset

LEMMA FilesSay ==
    ASSUME NEW s \in Seq(Assignments), NEW k \in Keys
    PROVE  /\ FoldLeft(FromFile, Nowhere, s) \in Maps
           /\ FileSays(FoldLeft(FromFile, Nowhere, s), s, k, Len(s))
<1>1. PICK h : /\ h[0] = Nowhere
               /\ \A n \in 0..Len(s) : h[n] \in Maps
               /\ \A n \in 1..Len(s) : h[n] = FromFile(h[n - 1], s[n])
               /\ FoldLeft(FromFile, Nowhere, s) = h[Len(s)]
  BY FileFold
<1> DEFINE S == {n \in 0..Len(s) : FileSays(h[n], s, k, n)}
<1>2. Len(s) \in Nat
  OBVIOUS
<1>3. 0 \in S
  <2>1. To(s, k, 0) = {} /\ 0 \in 0..Len(s)
    BY <1>2 DEF To
  <2> QED
    BY <1>1, <2>1, NowhereTyped DEF FileSays
<1>4. ASSUME NEW n \in 0..Len(s), n \in S, n < Len(s) PROVE n + 1 \in S
  <2> DEFINE x == s[n + 1]
             y == h[n]
             z == h[n + 1]
  <2>1. /\ n + 1 \in 1..Len(s) /\ n + 1 \in 0..Len(s) /\ x \in Assignments
        /\ y \in Maps /\ z = FromFile(y, x)
    BY <1>1, <1>4, NextTo
  <2> HIDE DEF y, z
  <2>2. CASE x.key # k
    <3>1. To(s, k, n + 1) = To(s, k, n)
      BY <1>4, <2>2, NextTo
    <3>2. z.ref[k] = y.ref[k] /\ z.oauth[k] = y.oauth[k] /\ z.plain[k] = y.plain[k]
      <4> HIDE DEF x
      <4>1. k \in Keys \ {x.key}
        BY <2>2
      <4> QED
        BY <2>1, <4>1, FromFileDoes
    <3> QED
      BY <1>4, <2>1, <3>1, <3>2 DEF FileSays, y, z
  <2>3. CASE x.key = k
    <3>1. n + 1 \in To(s, k, n + 1) /\ \A i \in To(s, k, n + 1) : i <= n + 1
      BY <1>4, <2>3, NextTo
    <3>2. ASSUME NEW i \in To(s, k, n + 1), \A j \in To(s, k, n + 1) : j <= i
          PROVE  s[i] = x
      <4>1. i \in Nat /\ n + 1 \in Nat /\ i <= n + 1 /\ n + 1 <= i
        BY <2>1, <3>1, <3>2 DEF To
      <4> QED
        BY <4>1
    <3> HIDE DEF x
    <3>3. /\ z.ref[k] = IF x.kind = "secret" THEN x.name ELSE Unset
          /\ z.oauth[k] = IF x.kind = "oauth" THEN x.name ELSE Unset
          /\ x.kind = "text" => z.plain[k] = x.name
      BY <2>1, <2>3, FromFileDoes
    <3> QED
      BY <2>1, <3>1, <3>2, <3>3 DEF FileSays, z
  <2> QED
    BY <2>2, <2>3
<1>5. Len(s) \in S
  <2>1. S \in SUBSET (0..Len(s)) /\ Len(s) \in 0..Len(s)
    BY <1>2
  <2> HIDE DEF S
  <2> QED
    BY <1>2, <1>3, <1>4, <2>1, UpTo
<1> QED
  BY <1>1, <1>2, <1>5

LEMMA OptionsSay ==
    ASSUME NEW m \in Maps, NEW s \in Seq(Assignments), NEW k \in Keys
    PROVE  /\ FoldLeft(FromOption, m, s) \in Maps
           /\ OptionSays(FoldLeft(FromOption, m, s), m, s, k, Len(s))
<1>1. PICK h : /\ h[0] = m
               /\ \A n \in 0..Len(s) : h[n] \in Maps
               /\ \A n \in 1..Len(s) : h[n] = FromOption(h[n - 1], s[n])
               /\ FoldLeft(FromOption, m, s) = h[Len(s)]
  BY OptionFold
<1> DEFINE S == {n \in 0..Len(s) : OptionSays(h[n], m, s, k, n)}
<1>2. Len(s) \in Nat
  OBVIOUS
<1>3. 0 \in S
  <2>1. To(s, k, 0) = {} /\ 0 \in 0..Len(s)
    BY <1>2 DEF To
  <2> QED
    BY <1>1, <2>1 DEF OptionSays
<1>4. ASSUME NEW n \in 0..Len(s), n \in S, n < Len(s) PROVE n + 1 \in S
  <2> DEFINE x == s[n + 1]
             y == h[n]
             z == h[n + 1]
  <2>1. /\ n + 1 \in 1..Len(s) /\ n + 1 \in 0..Len(s) /\ x \in Assignments
        /\ y \in Maps /\ z = FromOption(y, x)
    BY <1>1, <1>4, NextTo
  <2>2. y.plain = m.plain
    BY <1>4 DEF OptionSays
  <2> HIDE DEF y, z
  <2>3. CASE x.key # k
    <3>1. To(s, k, n + 1) = To(s, k, n)
      BY <1>4, <2>3, NextTo
    <3>2. z.ref[k] = y.ref[k] /\ z.oauth[k] = y.oauth[k] /\ z.plain = y.plain
      <4> HIDE DEF x
      <4>1. k \in Keys \ {x.key}
        BY <2>3
      <4> QED
        BY <2>1, <4>1, FromOptionDoes
    <3> QED
      BY <1>4, <2>1, <2>2, <3>1, <3>2 DEF OptionSays, y, z
  <2>4. CASE x.key = k
    <3>1. n + 1 \in To(s, k, n + 1) /\ \A i \in To(s, k, n + 1) : i <= n + 1
      BY <1>4, <2>4, NextTo
    <3>2. ASSUME NEW i \in To(s, k, n + 1), \A j \in To(s, k, n + 1) : j <= i
          PROVE  s[i] = x
      <4>1. i \in Nat /\ n + 1 \in Nat /\ i <= n + 1 /\ n + 1 <= i
        BY <2>1, <3>1, <3>2 DEF To
      <4> QED
        BY <4>1
    <3> HIDE DEF x
    <3>3. /\ z.ref[k] = IF x.kind = "oauth" THEN Unset ELSE x.name
          /\ z.oauth[k] = IF x.kind = "oauth" THEN x.name ELSE Unset
          /\ z.plain = y.plain
      BY <2>1, <2>4, FromOptionDoes
    <3> QED
      BY <2>1, <2>2, <3>1, <3>2, <3>3 DEF OptionSays, z
  <2> QED
    BY <2>3, <2>4
<1>5. Len(s) \in S
  <2>1. S \in SUBSET (0..Len(s)) /\ Len(s) \in 0..Len(s)
    BY <1>2
  <2> HIDE DEF S
  <2> QED
    BY <1>2, <1>3, <1>4, <2>1, UpTo
<1> QED
  BY <1>1, <1>2, <1>5

\* LastOf is the last of the assignments to a key, or 0.
LEMMA LastOfIs ==
    ASSUME NEW s \in Seq(Assignments), NEW k
    PROVE  /\ To(s, k, Len(s)) = {} => LastOf(s, k) = 0
           /\ To(s, k, Len(s)) # {} =>
                 /\ LastOf(s, k) \in To(s, k, Len(s)) /\ LastOf(s, k) # 0
                 /\ \A i \in To(s, k, Len(s)) : i <= LastOf(s, k)
                 /\ s[LastOf(s, k)] \in Assignments
<1> DEFINE I == To(s, k, Len(s))
<1>1. LastOf(s, k) = IF I # {} THEN Max(I) ELSE 0
  BY DEF LastOf, SelectLastInSeq, To
<1>2. /\ I \in SUBSET (1..Len(s)) /\ Len(s) \in Nat
      /\ \A i \in 1..Len(s) : i # 0 /\ s[i] \in Assignments
  BY DEF To
<1>3. ASSUME I # {} PROVE Max(I) \in I /\ \A i \in I : i <= Max(I)
  <2> HIDE DEF I
  <2> QED
    BY <1>2, <1>3, MaxIs
<1> HIDE DEF I
<1>4. ASSUME I # {} PROVE LastOf(s, k) # 0 /\ s[LastOf(s, k)] \in Assignments
  BY <1>1, <1>2, <1>3, <1>4
<1> QED
  BY <1>1, <1>3, <1>4 DEF I

\* Each key has a token, a secret or a text, and it is what was meant.
LEMMA EachAsMeant ==
    ASSUME EnvInit, NEW k \in Keys
    PROVE  LET m == Bindings(assigned.files, assigned.options)
               v == Meant(assigned.files, assigned.options, k)
           IN  /\ m \in Maps
               /\ \/ m.oauth[k] \in Names /\ m.ref[k] = Unset /\ v = <<"token", m.oauth[k]>>
                  \/ m.ref[k] \in Names /\ m.oauth[k] = Unset /\ v = <<"secret", m.ref[k]>>
                  \/ m.ref[k] = Unset /\ m.oauth[k] = Unset /\ v = <<"text", m.plain[k]>>
<1> DEFINE files   == assigned.files
           options == assigned.options
           m0 == FoldLeft(FromFile, Nowhere, files)
           m  == FoldLeft(FromOption, m0, options)
           o  == LastOf(options, k)
           f  == LastOf(files, k)
<1>1. files \in Seq(Assignments) /\ options \in Seq(Assignments)
  BY DEF EnvInit
<1>2. m0 \in Maps /\ FileSays(m0, files, k, Len(files))
  BY <1>1, FilesSay
<1> HIDE DEF m0
<1>3. m \in Maps /\ OptionSays(m, m0, options, k, Len(options))
  BY <1>1, <1>2, OptionsSay
<1>4. m = Bindings(files, options)
  BY DEF Bindings, m0
<1> HIDE DEF m
<1> HIDE DEF files, options
<1> DEFINE v == Meant(files, options, k)
           Fine == \/ m.oauth[k] \in Names /\ m.ref[k] = Unset /\ v = <<"token", m.oauth[k]>>
                   \/ m.ref[k] \in Names /\ m.oauth[k] = Unset /\ v = <<"secret", m.ref[k]>>
                   \/ m.ref[k] = Unset /\ m.oauth[k] = Unset /\ v = <<"text", m.plain[k]>>
<1>5. ASSUME To(options, k, Len(options)) # {}
      PROVE  Fine
  <2>1. /\ o \in To(options, k, Len(options)) /\ o # 0
        /\ \A i \in To(options, k, Len(options)) : i <= o
        /\ options[o] \in Assignments
    BY <1>1, <1>5, LastOfIs
  <2>2. /\ m.ref[k] = IF options[o].kind = "oauth" THEN Unset ELSE options[o].name
        /\ m.oauth[k] = IF options[o].kind = "oauth" THEN options[o].name ELSE Unset
    BY <1>3, <2>1 DEF OptionSays
  <2>3. options[o].name \in Names
    BY <2>1 DEF Assignments
  <2>4. v = IF options[o].kind = "oauth" THEN <<"token", options[o].name>>
                                         ELSE <<"secret", options[o].name>>
    BY <2>1 DEF Meant
  <2> HIDE DEF v, o
  <2> QED
    BY <2>2, <2>3, <2>4
<1>6. ASSUME To(options, k, Len(options)) = {},
             To(files, k, Len(files)) # {}
      PROVE  Fine
  <2>1. o = 0
    BY <1>1, <1>6, LastOfIs
  <2>2. /\ f \in To(files, k, Len(files)) /\ f # 0
        /\ \A i \in To(files, k, Len(files)) : i <= f
        /\ files[f] \in Assignments
    BY <1>1, <1>6, LastOfIs
  <2>3. /\ m.ref[k] = IF files[f].kind = "secret" THEN files[f].name ELSE Unset
        /\ m.oauth[k] = IF files[f].kind = "oauth" THEN files[f].name ELSE Unset
        /\ files[f].kind = "text" => m.plain[k] = files[f].name
    BY <1>2, <1>3, <1>6, <2>2 DEF OptionSays, FileSays
  <2>4. files[f].name \in Names /\ files[f].kind \in {"secret", "oauth", "text"}
    BY <2>2 DEF Assignments
  <2>5. v = IF files[f].kind = "oauth" THEN <<"token", files[f].name>>
            ELSE <<files[f].kind, files[f].name>>
    BY <2>1, <2>2 DEF Meant
  <2> HIDE DEF v, f
  <2> QED
    BY <2>3, <2>4, <2>5
<1>7. ASSUME To(options, k, Len(options)) = {},
             To(files, k, Len(files)) = {}
      PROVE  Fine
  <2>1. o = 0 /\ f = 0
    BY <1>1, <1>7, LastOfIs
  <2>2. m.ref[k] = Unset /\ m.oauth[k] = Unset /\ m.plain[k] = Unset
    BY <1>2, <1>3, <1>7 DEF OptionSays, FileSays
  <2>3. v = <<"text", Unset>>
    BY <2>1 DEF Meant
  <2> HIDE DEF v
  <2> QED
    BY <2>2, <2>3
<1> QED
  BY <1>3, <1>4, <1>5, <1>6, <1>7 DEF files, options

\* For any env files and options, any keys and names: each variable is given
\* what its last assignment says, and the phone is asked for exactly what the
\* child is given.
THEOREM EnvironmentIsAsAssigned == EnvSpec => []EnvIsAsAssigned
<1>1. EnvInit => EnvIsAsAssigned
  <2> SUFFICES ASSUME EnvInit PROVE EnvIsAsAssigned
    OBVIOUS
  <2> DEFINE m == Bindings(assigned.files, assigned.options)
             Says(k) == Meant(assigned.files, assigned.options, k)
  <2>1. ASSUME NEW k \in Keys
        PROVE  \/ /\ m.oauth[k] \in Names /\ m.ref[k] = Unset
                  /\ Says(k) = <<"token", m.oauth[k]>>
               \/ /\ m.ref[k] \in Names /\ m.oauth[k] = Unset
                  /\ Says(k) = <<"secret", m.ref[k]>>
               \/ /\ m.ref[k] = Unset /\ m.oauth[k] = Unset
                  /\ Says(k) = <<"text", m.plain[k]>>
    BY EachAsMeant
  <2> HIDE DEF m, Says
  <2>2. \A k \in Keys : Injected(m)[k] = Says(k)
    BY <2>1, UnsetAssumption DEF Injected
  <2>3. AskedRefs(m) = {n \in Names : \E k \in Keys : Injected(m)[k] = <<"secret", n>>}
    BY <2>1, <2>2, UnsetAssumption DEF AskedRefs
  <2>4. \A k \in Keys : /\ (Injected(m)[k][1] = "token") = (m.oauth[k] # Unset)
                        /\ m.oauth[k] # Unset => Injected(m)[k][2] = m.oauth[k]
    BY <2>1, <2>2, UnsetAssumption
  <2>5. AskedOAuth(m) = {[env |-> k, name |-> Injected(m)[k][2]] :
                            k \in {j \in Keys : Injected(m)[j][1] = "token"}}
    BY <2>4 DEF AskedOAuth
  <2> QED
    BY <2>2, <2>3, <2>5 DEF EnvIsAsAssigned, m, Says
<1>2. EnvIsAsAssigned /\ [UNCHANGED assigned]_assigned => EnvIsAsAssigned'
  BY DEF EnvIsAsAssigned
<1> QED
  BY <1>1, <1>2, PTL DEF EnvSpec
=============================================================================
