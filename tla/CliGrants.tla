----------------------------- MODULE CliGrants ------------------------------
(***************************************************************************)
(* Timed local grants: invocations of "sickrat run" and "reveal" on one    *)
(* machine, which share the grant cache grant-cache.json without a lock    *)
(* (requestGrant and the cache functions of the CLI's index.ts).  They run *)
(* beside the commands of CliConfig, from whose config they take the       *)
(* Worker and the device.                                                  *)
(*                                                                         *)
(* The phone's answer is any grant; what it seals, and that the Worker     *)
(* hands out one answer, is ApprovalRequests.  An entry is encrypted with  *)
(* a key made of the device's private key, and the config names a device   *)
(* and its key together, so to decrypt it is to be that device.            *)
(***************************************************************************)
EXTENDS CliConfig

CONSTANTS Runs,     \* invocations
          Asks,     \* what they ask for
          Grants,   \* what the phone may answer
          MaxTime   \* bound on the clock

VARIABLES
    cache,     \* grant-cache.json
    run,       \* requestGrant, of each invocation
    now,       \* the clock
    approved,  \* history: what the phone has granted to whom
    kept,      \* history: the entries after all rewrites, one after the other
    overlap,   \* history: one rewrite of the cache began during another
    cut        \* history: an invocation died while it rewrote the cache

grantHistory == <<approved, kept, overlap, cut>>
grantVars    == <<cache, run, now, grantHistory>>

Identities == [worker : Procs, device : Procs]
NoGrant    == [secrets |-> {}, tokens |-> {}, access |-> 0]

\* An expiry of 0 stands for none.
Expiries(g) == ({g.access} \union {k.exp : k \in g.tokens}) \ {0}

\* cacheResourceKeys: of an OAuth request, provider, name, variable and scopes.
ResourceKeys(ask) ==
    {<<"secret", r>> : r \in ask.refs} \union {<<"oauth", q>> : q \in ask.oauth}

\* cachedGrantCovers, and the same tests on a grant that has just arrived.
Covers(g, ask, t) ==
    /\ ask.refs \subseteq g.secrets
    /\ \A q \in ask.oauth : \E k \in g.tokens :
          /\ k.env = q.env /\ k.provider = q.provider
          /\ q.name \in {None, k.name}
          /\ q.scopes \subseteq k.scopes
          /\ k.exp = 0 \/ k.exp > t

Entry(r) ==
    [worker |-> run[r].worker, device |-> run[r].device,
     keys   |-> ResourceKeys(run[r].ask),
     grant  |-> run[r].grant,
     exp    |-> CHOOSE e \in Expiries(run[r].grant) :
                   \A f \in Expiries(run[r].grant) : e <= f]

\* Mutant: entries that have expired are found as well.
UnexpiredAll(entries, t) == {e \in entries : e.exp > 0}

Unexpired(entries, t) == {e \in entries : e.exp > t}

SameResources(e, f) == e.worker = f.worker /\ e.device = f.device /\ e.keys = f.keys

\* Mutant: saving an entry forgets the others of its device.
WithoutOthers(entries, new, t) ==
    {e \in Unexpired(entries, t) : e.worker # new.worker \/ e.device # new.device} \union {new}

\* saveCachedGrant: the new entry replaces the one for the same resources.
With(entries, new, t) ==
    {e \in Unexpired(entries, t) : ~SameResources(e, new)} \union {new}

\* What the cache may hold.
Entries ==
    [worker : Procs, device : Procs, keys : SUBSET UNION {ResourceKeys(ask) : ask \in Asks},
     grant  : Grants, exp : Nat \ {0}]

Idle(pc) == [pc |-> pc, ask |-> None, worker |-> None, device |-> None, at |-> 0,
             seen |-> {}, grant |-> NoGrant, hit |-> FALSE]

GrantInit ==
    /\ cache = File!Stored({})
    /\ run \in [Runs -> {Idle("start"), Idle("done")}]
    /\ now \in 1..MaxTime
    /\ approved = {} /\ kept = {}
    /\ overlap = FALSE /\ cut = FALSE

GrantTypeOK ==
    /\ cache \in File!Files(SUBSET Entries)
    /\ \A r \in Runs :
          /\ run[r].pc \in {"start", "lookup", "prune", "pruning", "match", "ask", "save",
                            "truncate", "fill", "use"} \union Exited
          /\ run[r].ask \in Asks \union {None}
          /\ run[r].worker \in Procs \union {None} /\ run[r].device \in Procs \union {None}
          /\ run[r].at \in 0..now /\ run[r].seen \subseteq Entries
          /\ run[r].grant \in Grants \union {NoGrant} /\ run[r].hit \in BOOLEAN
    /\ now \in 1..MaxTime

\* Times are numbers, and an answer that is not there is no request.
ASSUME GrantAssumption ==
    /\ MaxTime \in Nat \ {0}
    /\ None \notin Asks
    /\ \A g \in Grants : g.access \in Nat /\ \A k \in g.tokens : k.exp \in Nat

-----------------------------------------------------------------------------
Set(r, to)    == run' = [run EXCEPT ![r] = to]
Goto(r, pc)   == Set(r, [run[r] EXCEPT !.pc = pc])
Ends(r, pc)   == Set(r, Idle(pc))
\* Somebody has read the cache and will rewrite it.
Rewriting     == \E r \in Runs : run[r].pc \in {"prune", "pruning", "truncate", "fill"}

\* The config is read, once for the whole invocation.
Start(r, ask) ==
    /\ run[r].pc = "start"
    /\ \/ /\ Now.worker = None \/ Now.device = None
          /\ Ends(r, "failed")
       \/ /\ Now.worker # None /\ Now.device # None
          /\ Set(r, [run[r] EXCEPT !.pc = IF ask.cached THEN "lookup" ELSE "ask", !.ask = ask,
                                   !.worker = Now.worker, !.device = Now.device])
    /\ UNCHANGED <<cache, now, grantHistory>>

\* findCachedGrant: entries that have expired are removed from the file.
Lookup(r) ==
    LET entries == File!Read(cache, {})
        active  == Unexpired(entries, now)
        prunes  == active # entries
    IN  /\ run[r].pc = "lookup"
        /\ Set(r, [run[r] EXCEPT !.pc = IF prunes THEN "prune" ELSE "match",
                                 !.seen = active, !.at = now])
        /\ overlap' = (overlap \/ (prunes /\ Rewriting))
        /\ UNCHANGED <<cache, now, approved, kept, cut>>

\* writeFile, in two steps.
Empties(r, from, to) ==
    /\ run[r].pc = from
    /\ cache' = File!Truncated
    /\ Goto(r, to)
    /\ UNCHANGED <<now, grantHistory>>

Prune(r) ==
    /\ run[r].pc = "pruning"
    /\ cache' \in File!Filled(cache, run[r].seen)
    /\ Goto(r, "match")
    /\ UNCHANGED <<now, grantHistory>>

Matches(r) ==
    {e \in run[r].seen : /\ e.worker = run[r].worker /\ e.device = run[r].device
                         /\ ResourceKeys(run[r].ask) \subseteq e.keys
                         /\ Covers(e.grant, run[r].ask, now)}

Hit(r) ==
    /\ run[r].pc = "match"
    /\ \E e \in Matches(r) :
          Set(r, [run[r] EXCEPT !.pc = "use", !.grant = e.grant, !.hit = TRUE, !.seen = {}])
    /\ UNCHANGED <<cache, now, grantHistory>>

Miss(r) ==
    /\ run[r].pc = "match"
    /\ Matches(r) = {}
    /\ Set(r, [run[r] EXCEPT !.pc = "ask", !.seen = {}])
    /\ UNCHANGED <<cache, now, grantHistory>>

\* The phone approves, if the Worker knows the device: vault create and vault
\* update make a config name a Worker at which the device is not paired.  An
\* approval with a time limit goes to the cache, if it lasts until then.
Approved(r, g) ==
    /\ run[r].pc = "ask" /\ run[r].worker = run[r].device
    /\ approved' = approved \union
          {[worker |-> run[r].worker, device |-> run[r].device, grant |-> g]}
    /\ \/ /\ ~Covers(g, run[r].ask, now)
          /\ Ends(r, "failed")
       \/ /\ Covers(g, run[r].ask, now)
          /\ Set(r, [run[r] EXCEPT !.grant = g,
                                   !.pc = IF g.access > now THEN "save" ELSE "use"])
    /\ UNCHANGED <<cache, now, kept, overlap, cut>>

\* It is denied, refused by the Worker, or not answered in time.
Refused(r) ==
    /\ run[r].pc = "ask"
    /\ Ends(r, "failed")
    /\ UNCHANGED <<cache, now, grantHistory>>

SaveRead(r) ==
    /\ run[r].pc = "save"
    /\ \/ /\ Entry(r).exp <= now
          /\ Goto(r, "use")
          /\ UNCHANGED overlap
       \/ /\ Entry(r).exp > now
          /\ Set(r, [run[r] EXCEPT !.pc = "truncate", !.at = now,
                                   !.seen = With(File!Read(cache, {}), Entry(r), now)])
          /\ overlap' = (overlap \/ Rewriting)
    /\ UNCHANGED <<cache, now, approved, kept, cut>>

SaveFill(r) ==
    /\ run[r].pc = "fill"
    /\ cache' \in File!Filled(cache, run[r].seen)
    /\ kept' = {e \in Unexpired(kept, run[r].at) : ~SameResources(e, Entry(r))} \union {Entry(r)}
    /\ Set(r, [run[r] EXCEPT !.pc = "use", !.seen = {}])
    /\ UNCHANGED <<now, approved, overlap, cut>>

\* The child is started, or the secret is written.
Use(r) ==
    /\ run[r].pc = "use"
    /\ Ends(r, "done")
    /\ UNCHANGED <<cache, now, grantHistory>>

Killed(r) ==
    /\ run[r].pc \notin Exited
    /\ Ends(r, "killed")
    /\ cut' = (cut \/ run[r].pc \in {"pruning", "fill"})
    /\ UNCHANGED <<cache, now, approved, kept, overlap>>

Tick ==
    /\ now < MaxTime
    /\ now' = now + 1
    /\ UNCHANGED <<cache, run, grantHistory>>

GrantNext ==
    \/ \E r \in Runs :
          \/ \E ask \in Asks : Start(r, ask)
          \/ Lookup(r) \/ Empties(r, "prune", "pruning") \/ Prune(r) \/ Hit(r) \/ Miss(r)
          \/ \E g \in Grants : Approved(r, g)
          \/ Refused(r)
          \/ SaveRead(r) \/ Empties(r, "truncate", "fill") \/ SaveFill(r)
          \/ Use(r) \/ Killed(r)
    \/ Tick

cliVars == <<configVars, grantVars>>

CliNext ==
    \/ ConfigNext /\ UNCHANGED grantVars
    \/ GrantNext /\ UNCHANGED configVars

CliSpec == ConfigInit /\ GrantInit /\ [][CliNext]_cliVars

-----------------------------------------------------------------------------
(***************************************************************************)
(* Properties.                                                             *)
(***************************************************************************)
\* What a command takes from the cache instead of the phone, the phone has
\* granted to this device at this Worker, for a time that had not passed; and
\* it has everything the command asks for, in tokens that are still good.
\* Nothing else is taken from there, however the file is torn.
HitIsEntitled ==
    \A r \in Runs : run[r].hit =>
        /\ [worker |-> run[r].worker, device |-> run[r].device, grant |-> run[r].grant]
              \in approved
        /\ run[r].grant.access > run[r].at
        /\ run[r].ask.cached /\ Covers(run[r].grant, run[r].ask, run[r].at)

\* "After approval, repeated sickrat run calls for the same refs reuse the
\* cached timed grant" (docs/feature-request-long-pending-approvals.md:81): no
\* entry is lost before it expires, unless one rewrite began during another or
\* was cut short; and the file has nothing that was not saved, or was replaced.
CacheIsKept ==
    \/ overlap \/ cut
    \/ \E r \in Runs : run[r].pc \in {"pruning", "fill"}
    \/ /\ Unexpired(kept, now) \subseteq File!Read(cache, {})
       /\ File!Read(cache, {}) \subseteq kept
=============================================================================
