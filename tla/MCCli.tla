------------------------------- MODULE MCCli --------------------------------
(***************************************************************************)
(* The CLI's files for TLC: two commands that rewrite the config; or two   *)
(* commands that want grants, while the machine is paired once more; or    *)
(* two that install or deploy a release; or one that binds variables.      *)
(***************************************************************************)
EXTENDS CliGrants, CliRelease, CliEnvironment

CONSTANTS a, b, E1, E2, s, t

Assign(key, kind, name) == [key |-> key, kind |-> kind, name |-> name]

\* run with two secrets, with one of them and a token, and reveal.
MCAsks ==
    {RunAsk(Bindings(<<Assign(E1, "secret", a)>>, <<Assign(E2, "secret", b)>>), "x", {}),
     RunAsk(Bindings(<<>>, <<Assign(E1, "text", a), Assign(E2, "oauth", b)>>), "x", {s}),
     RevealAsk(a)}

\* Grants of everything, or too little, for a while or for this time only.
Token(scopes, e) == [env |-> E2, provider |-> "x", name |-> b, scopes |-> scopes, exp |-> e]
MCGrants ==
    {[secrets |-> {a, b}, tokens |-> {Token({s, t}, 0)}, access |-> 3],
     [secrets |-> {a, b}, tokens |-> {Token({s}, 2)}, access |-> 3],
     [secrets |-> {a, b}, tokens |-> {}, access |-> 3],
     [secrets |-> {a}, tokens |-> {Token({s}, 0)}, access |-> 0]}

Symmetric == Permutations(Procs) \union Permutations(Calls)

\* Nothing is followed further when nobody is at work; when one rewrite of the
\* config has overlapped with another; or when whoever is left uses an artifact
\* directory that was rewritten under it.
Working ==
    \/ \E p \in Procs : proc[p].pc \notin Exited
    \/ \E r \in Runs : run[r].pc \notin Exited
    \/ \E u \in Updaters : job[u].pc \notin Gone /\ ~job[u].doubt
Undisturbed == ~clash /\ ~hurt /\ Working

Inert(p)  == [cmd |-> "pair", pc |-> "done", token |-> 0, got |-> 0, base |-> Empty]
Paired(p) == [Empty EXCEPT !.worker = p, !.device = p]

NobodyConfigures ==
    /\ call = [p \in Procs |-> [c \in Calls |-> NoCall]]
    /\ flight = [p \in Procs |-> NoFlight]
    /\ issued = 1 /\ live = {1} /\ old = {1}
    /\ clash = FALSE /\ hurt = FALSE

NobodyAsks == GrantInit /\ now = MaxTime /\ \A r \in Runs : run[r].pc = "done"

NobodyUpdates ==
    /\ latest = MaxVersion /\ exe = 1
    /\ bak = [p \in Updaters |-> Missing]
    /\ dir = [v \in Versions |-> [f \in Files |-> Absent]]
    /\ job = [p \in Updaters |-> [New("self") EXCEPT !.pc = "failed"]]
    /\ spoiled = {}

Unassigned    == [files |-> <<>>, options |-> <<>>]
NobodyAssigns == assigned = Unassigned

\* Two commands of CliConfig, and nobody wants a grant.
ConfigScenario ==
    /\ ConfigInit
    /\ NobodyAsks /\ NobodyUpdates /\ NobodyAssigns

\* One invocation has paired the machine, the others may pair it anew.
GrantScenario ==
    /\ \E q \in Procs :
          /\ should = Paired(q) /\ config = File!Stored(Paired(q))
          /\ proc = [p \in Procs |-> IF p = q THEN Inert(p) ELSE [Inert(p) EXCEPT !.pc = "start"]]
    /\ NobodyConfigures
    /\ GrantInit /\ now = 1
    /\ \A r \in Runs : run[r].pc = "start"
    /\ NobodyUpdates /\ NobodyAssigns

NobodyPairs ==
    /\ should = Empty /\ config = File!Stored(Empty)
    /\ proc = [p \in Procs |-> Inert(p)]
    /\ NobodyConfigures

ReleaseScenario ==
    /\ NobodyPairs /\ NobodyAsks /\ NobodyAssigns
    /\ ReleaseInit

Lists == SeqOf(Assignments, 2)
EnvScenario ==
    /\ NobodyPairs /\ NobodyAsks /\ NobodyUpdates
    /\ assigned \in [files : Lists, options : Lists]

MCInit == ConfigScenario \/ GrantScenario \/ ReleaseScenario \/ EnvScenario
MCNext ==
    /\ \/ CliNext /\ UNCHANGED releaseVars
       \/ ReleaseNext /\ UNCHANGED cliVars
    /\ UNCHANGED assigned
MCSpec == MCInit /\ [][MCNext]_<<cliVars, releaseVars, assigned>>

\* Config, cache and releases have their types.
CliTypeOK == ConfigTypeOK /\ GrantTypeOK /\ ReleaseTypeOK
=============================================================================
