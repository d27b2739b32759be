----------------------------- MODULE CliConfig ------------------------------
(***************************************************************************)
(* The config of the CLI and its Cloudflare login (index.ts and            *)
(* cloudflare-auth.ts of the CLI): invocations of login, vault create,     *)
(* vault update and pair on one machine, which share config.json without a *)
(* lock.  Each of them reads the file again before it rewrites it, and any *)
(* call of the Cloudflare API may refresh the login in between, which is a *)
(* rewrite of its own.                                                     *)
(*                                                                         *)
(* Tokens are numbers in the order in which Cloudflare issued them.  What  *)
(* an invocation adds to the config (a vault, a device with its key) goes  *)
(* by the name of the invocation.  With SICKRAT_CF_ACCESS_TOKEN set no     *)
(* login is read or refreshed; that case is left out.                      *)
(***************************************************************************)
EXTENDS Naturals

CONSTANTS Procs,      \* invocations
          Calls,      \* API calls one of them can have under way
          MaxTokens,  \* bound on the tokens Cloudflare issues
          None

File == INSTANCE JsonFile

VARIABLES
    config,   \* config.json
    proc,     \* the command each invocation runs
    call,     \* readCloudflareApi, of each call
    flight,   \* cloudflareRefreshPromise, of each invocation
    issued,   \* number of tokens Cloudflare has issued
    live,     \* refresh tokens it honours
    old,      \* access tokens that have expired, or are about to
    should,   \* history: the config after all rewrites, one after the other
    clash,    \* history: one rewrite began while another was under way
    hurt      \* history: an invocation died in a rewrite, or an answer of
              \* the token endpoint was lost

cloudflare == <<issued, live, old>>
history    == <<should, clash, hurt>>
configVars == <<config, proc, call, flight, cloudflare, history>>

Commands == {"login", "create", "update", "pair"}
Logins   == [access : 1..MaxTokens, refresh : 1..MaxTokens]
Configs  == [cf     : Logins \union {None},
             worker : Procs \union {None},   \* workerUrl
             vaults : SUBSET Procs,
             device : Procs \union {None}]   \* deviceId and the signing keys
Empty    == [cf |-> None, worker |-> None, vaults |-> {}, device |-> None]

Exited == {"done", "failed", "killed"}

ASSUME ConfigAssumption ==
    /\ MaxTokens \in Nat \ {0}
    /\ None \notin Procs \union Logins

ConfigTypeOK ==
    /\ config \in File!Files(Configs)
    /\ proc \in [Procs -> [cmd   : Commands,
                           pc    : {"start", "ensure", "calls", "read",
                                    "manifest", "truncate", "fill"} \union Exited,
                           token : 0..MaxTokens,     \* cloudflare.accessToken
                           got   : 0..MaxTokens,     \* what login was given
                           base  : Configs]]         \* the config it read last
    /\ call \in [Procs -> [Calls -> [pc     : {"idle", "resolve", "join", "request"},
                                     token  : 0..MaxTokens,
                                     forced : BOOLEAN]]]
    /\ flight \in [Procs -> [pc     : {"none", "reread", "refresh", "truncate", "fill"},
                             token  : 0..MaxTokens,
                             forced : BOOLEAN,
                             base   : Configs]]
    /\ issued \in 0..MaxTokens
    /\ live \subseteq 1..issued /\ old \subseteq 1..issued
    /\ should \in Configs
    /\ clash \in BOOLEAN /\ hurt \in BOOLEAN

NoCall   == [pc |-> "idle", token |-> 0, forced |-> FALSE]
NoFlight == [pc |-> "none", token |-> 0, forced |-> FALSE, base |-> Empty]

\* The machine may be logged in, and paired by another invocation.
ConfigInit ==
    /\ should \in {Empty, [Empty EXCEPT !.cf = [access |-> 1, refresh |-> 1]]}
    /\ config = File!Stored(should)
    /\ proc \in [Procs -> [cmd : Commands, pc : {"start"}, token : {0}, got : {0},
                           base : {Empty}]]
    /\ call = [p \in Procs |-> [c \in Calls |-> NoCall]]
    /\ flight = [p \in Procs |-> NoFlight]
    /\ issued = 1
    /\ live = {1} /\ old = {}
    /\ clash = FALSE /\ hurt = FALSE

-----------------------------------------------------------------------------
Now == File!Read(config, Empty)

\* Somebody has read the config and will rewrite it.
Rewrites(p)  == proc[p].pc \in {"manifest", "truncate", "fill"}
Refreshes(p) == flight[p].pc \in {"refresh", "truncate", "fill"}
UnderWay    == \E p \in Procs : Rewrites(p) \/ Refreshes(p)

Step(p, pc) == proc' = [proc EXCEPT ![p].pc = pc]
Quiet(p)    == \A c \in Calls : call[p][c].pc = "idle"

\* Mutant: the rotated refresh token is dropped.
RefreshedAccessOnly(cf, n, rotated) == [access |-> n, refresh |-> cf.refresh]

\* refreshCloudflareOAuth: Cloudflare may rotate the refresh token or not.
Refreshed(cf, n, rotated) ==
    [access |-> n, refresh |-> IF rotated THEN n ELSE cf.refresh]

\* What p makes of the config c that it has read.
Rewritten(p, c) ==
    CASE proc[p].cmd = "login" ->
             [c EXCEPT !.cf = [access |-> proc[p].got, refresh |-> proc[p].got]]
      [] proc[p].cmd = "pair" -> [c EXCEPT !.worker = p, !.device = p]
      [] OTHER -> [c EXCEPT !.worker = p, !.vaults = @ \union {p}]

-----------------------------------------------------------------------------
(***************************************************************************)
(* readCloudflareApi and resolveCloudflareAccessToken.                     *)
(***************************************************************************)
SetCall(p, c, to) == call' = [call EXCEPT ![p][c] = to]

\* The discovery of vaults, in an update: it makes calls side by side and
\* catches their failure.
Discovers(p) == proc[p].cmd = "update" /\ proc[p].pc = "calls"

Begin(p, c) ==
    /\ proc[p].pc \in {"calls", "manifest"}
    /\ call[p][c].pc = "idle"
    /\ Quiet(p) \/ Discovers(p)
    /\ SetCall(p, c, [pc |-> "resolve", token |-> proc[p].token, forced |-> FALSE])
    /\ UNCHANGED <<config, proc, flight, cloudflare, history>>

\* The token of the config will do for this call.
Usable(stored, k) == IF k.forced THEN stored.access # k.token ELSE stored.access \notin old

\* The config is read; without a login, or with a usable one, the call goes
\* on, and otherwise it waits for the refresh, which it may have to start.
Resolve(p, c) ==
    LET k == call[p][c]
    IN  /\ k.pc = "resolve"
        /\ \/ /\ Now.cf = None
              /\ SetCall(p, c, [k EXCEPT !.pc = "request"])
              /\ UNCHANGED flight
           \/ /\ Now.cf # None /\ Usable(Now.cf, k)
              /\ SetCall(p, c, [k EXCEPT !.pc = "request", !.token = Now.cf.access])
              /\ UNCHANGED flight
           \/ /\ Now.cf # None /\ ~Usable(Now.cf, k)
              /\ SetCall(p, c, [k EXCEPT !.pc = "join"])
              /\ flight' = IF flight[p].pc # "none" THEN flight
                           ELSE [flight EXCEPT ![p] = [pc |-> "reread", token |-> k.token,
                                                       forced |-> k.forced, base |-> Empty]]
        /\ UNCHANGED <<config, proc, cloudflare, history>>

\* Cloudflare answers, or rejects the token, once: then it is refreshed.
Request(p, c) ==
    LET k == call[p][c]
    IN  /\ k.pc = "request" /\ proc[p].pc # "ensure"
        /\ \/ SetCall(p, c, NoCall)
           \/ /\ k.token \in old /\ ~k.forced
              /\ SetCall(p, c, [k EXCEPT !.pc = "resolve", !.forced = TRUE])
        /\ UNCHANGED <<config, proc, flight, cloudflare, history>>

\* The shared refresh has ended: those who wait for it go on with the token,
Landed(p, token) ==
    /\ flight' = [flight EXCEPT ![p] = NoFlight]
    /\ call' = [call EXCEPT ![p] = [c \in Calls |->
                   IF call[p][c].pc = "join"
                   THEN [call[p][c] EXCEPT !.pc = "request", !.token = token]
                   ELSE call[p][c]]]

\* or fail, and the command with them unless their failure is caught.
Broken(p) ==
    /\ flight' = [flight EXCEPT ![p] = NoFlight]
    /\ \/ /\ Step(p, "failed")
          /\ call' = [call EXCEPT ![p] = [c \in Calls |-> NoCall]]
       \/ /\ Discovers(p)
          /\ call' = [call EXCEPT ![p] = [c \in Calls |->
                         IF call[p][c].pc = "join" THEN NoCall ELSE call[p][c]]]
          /\ UNCHANGED proc

\* The refresh reads the config once more: somebody may have refreshed.
Reread(p) ==
    LET f == flight[p]
    IN  /\ f.pc = "reread"
        /\ \/ /\ Now.cf = None
              /\ Broken(p)
              /\ UNCHANGED clash
           \/ /\ Now.cf # None /\ f.forced /\ Now.cf.access # f.token
              /\ Landed(p, Now.cf.access)
              /\ UNCHANGED <<proc, clash>>
           \/ /\ Now.cf # None /\ ~(f.forced /\ Now.cf.access # f.token)
              /\ flight' = [flight EXCEPT ![p].pc = "refresh", ![p].base = Now]
              /\ clash' = (clash \/ UnderWay)
              /\ UNCHANGED <<proc, call>>
        /\ UNCHANGED <<config, cloudflare, should, hurt>>

\* The token endpoint refuses the refresh token, or answers with new tokens.
Refresh(p) ==
    LET cf == flight[p].base.cf
        n  == issued + 1
    IN  /\ flight[p].pc = "refresh"
        /\ \/ Broken(p) /\ UNCHANGED <<issued, live, hurt>>
           \/ /\ cf.refresh \in live /\ issued < MaxTokens
              /\ issued' = n
              /\ \E rotated \in BOOLEAN :
                    /\ live' = IF rotated THEN (live \ {cf.refresh}) \union {n} ELSE live
                    /\ \/ /\ flight' = [flight EXCEPT
                                 ![p].pc = "truncate",
                                 ![p].base = [@ EXCEPT !.cf = Refreshed(cf, n, rotated)]]
                          /\ UNCHANGED <<proc, call, hurt>>
                       \/ Broken(p) /\ hurt' = TRUE
        /\ UNCHANGED <<config, old, should, clash>>

TruncateLogin(p) ==
    /\ flight[p].pc = "truncate"
    /\ config' = File!Truncated
    /\ flight' = [flight EXCEPT ![p].pc = "fill"]
    /\ UNCHANGED <<proc, call, cloudflare, history>>

FillLogin(p) ==
    LET base == flight[p].base
    IN  /\ flight[p].pc = "fill"
        /\ config' \in File!Filled(config, base)
        /\ should' = [should EXCEPT !.cf = base.cf]
        /\ Landed(p, base.cf.access)
        /\ UNCHANGED <<proc, cloudflare, clash, hurt>>

-----------------------------------------------------------------------------
(***************************************************************************)
(* The commands.                                                           *)
(***************************************************************************)
\* ensureCloudflareConfig, of create and update.
Ensure(p) ==
    /\ proc[p].pc = "start" /\ proc[p].cmd \in {"create", "update"}
    /\ \/ Now.cf = None /\ Step(p, "failed") /\ UNCHANGED call
       \/ /\ Now.cf # None
          /\ proc' = [proc EXCEPT ![p].pc = "ensure", ![p].token = Now.cf.access]
          /\ \E c \in Calls :
                SetCall(p, c, [pc |-> "resolve", token |-> Now.cf.access, forced |-> FALSE])
    /\ UNCHANGED <<config, flight, cloudflare, history>>

\* It reads the config again if the token is another one.
Ensured(p, c) ==
    LET k == call[p][c]
    IN  /\ proc[p].pc = "ensure" /\ k.pc = "request"
        /\ SetCall(p, c, NoCall)
        /\ \/ k.token = proc[p].token /\ Step(p, "calls")
           \/ k.token # proc[p].token /\ Now.cf = None /\ Step(p, "failed")
           \/ /\ k.token # proc[p].token /\ Now.cf # None
              /\ proc' = [proc EXCEPT ![p].pc = "calls", ![p].token = Now.cf.access]
        /\ UNCHANGED <<config, flight, cloudflare, history>>

\* The browser answers login, which exchanges the code; the phone answers
\* pair, whose key pair and device are new.  Or either fails.
Outside(p) ==
    /\ proc[p].pc = "start"
    /\ \/ proc[p].cmd \in {"login", "pair"} /\ Step(p, "failed") /\ UNCHANGED <<issued, live>>
       \/ proc[p].cmd = "pair" /\ Step(p, "read") /\ UNCHANGED <<issued, live>>
       \/ /\ proc[p].cmd = "login" /\ issued < MaxTokens
          /\ issued' = issued + 1
          /\ live' = live \union {issued'}
          /\ proc' = [proc EXCEPT ![p].pc = "read", ![p].got = issued']
    /\ UNCHANGED <<config, call, flight, old, history>>

\* Its work at Cloudflare is done.
Deployed(p) ==
    /\ proc[p].pc = "calls" /\ Quiet(p)
    /\ Step(p, "read")
    /\ UNCHANGED <<config, call, flight, cloudflare, history>>

\* The config is read once more, to be rewritten.  Only create has something
\* to do in between: it writes the manifest.
ReadAgain(p) ==
    /\ proc[p].pc = "read"
    /\ proc' = [proc EXCEPT ![p].base = Now,
                           ![p].pc = IF proc[p].cmd = "create" THEN "manifest" ELSE "truncate"]
    /\ clash' = (clash \/ UnderWay)
    /\ UNCHANGED <<config, call, flight, cloudflare, should, hurt>>

ManifestWritten(p) ==
    /\ proc[p].pc = "manifest" /\ Quiet(p)
    /\ Step(p, "truncate")
    /\ UNCHANGED <<config, call, flight, cloudflare, history>>

Truncate(p) ==
    /\ proc[p].pc = "truncate"
    /\ config' = File!Truncated
    /\ Step(p, "fill")
    /\ UNCHANGED <<call, flight, cloudflare, history>>

Fill(p) ==
    /\ proc[p].pc = "fill"
    /\ config' \in File!Filled(config, Rewritten(p, proc[p].base))
    /\ should' = Rewritten(p, should)
    /\ Step(p, "done")
    /\ UNCHANGED <<call, flight, cloudflare, clash, hurt>>

\* A call fails for another reason, and main exits.
Fail(p) ==
    /\ proc[p].pc \in {"ensure", "calls", "manifest"} /\ flight[p].pc = "none"
    /\ Step(p, "failed")
    /\ call' = [call EXCEPT ![p] = [c \in Calls |-> NoCall]]
    /\ UNCHANGED <<config, flight, cloudflare, history>>

Kill(p) ==
    /\ proc[p].pc \notin Exited
    /\ Step(p, "killed")
    /\ call' = [call EXCEPT ![p] = [c \in Calls |-> NoCall]]
    /\ flight' = [flight EXCEPT ![p] = NoFlight]
    /\ hurt' = (hurt \/ proc[p].pc = "fill" \/ flight[p].pc \in {"truncate", "fill"})
    /\ UNCHANGED <<config, cloudflare, should, clash>>

\* Access tokens live equally long, so they expire in the order of their issue.
Age(n) ==
    /\ n \in 1..issued /\ n \notin old
    /\ 1..(n - 1) \subseteq old
    /\ old' = old \union {n}
    /\ UNCHANGED <<config, proc, call, flight, issued, live, history>>

ConfigNext ==
    \/ \E p \in Procs :
          \/ \E c \in Calls : Begin(p, c) \/ Resolve(p, c) \/ Request(p, c) \/ Ensured(p, c)
          \/ Reread(p) \/ Refresh(p) \/ TruncateLogin(p) \/ FillLogin(p)
          \/ Ensure(p) \/ Outside(p) \/ Deployed(p) \/ ReadAgain(p) \/ ManifestWritten(p)
          \/ Truncate(p) \/ Fill(p) \/ Fail(p) \/ Kill(p)
    \/ \E n \in 1..MaxTokens : Age(n)

ConfigSpec == ConfigInit /\ [][ConfigNext]_configVars

-----------------------------------------------------------------------------
(***************************************************************************)
(* Properties.                                                             *)
(***************************************************************************)
\* Without a lock, the config still loses nothing as long as no rewrite began
\* while another one was under way: it is what the rewrites make of each other
\* one by one, however long before it each command had read it first, and its
\* refresh token is one that Cloudflare honours.
ConfigIsKept ==
    ~clash /\ ~hurt =>
        /\ \/ config = File!Stored(should)
           \/ \E p \in Procs : proc[p].pc = "fill" \/ flight[p].pc = "fill"
        /\ \/ should.cf = None
           \/ should.cf.refresh \in live
           \/ \E p \in Procs : flight[p].pc \in {"truncate", "fill"}

\* "A browser login is required again only when no refresh token was issued,
\* the authorization was revoked, or the refresh grant itself has expired"
\* (docs/cli-control-plane.md:22): a config at rest names a refresh token that
\* Cloudflare honours.
LoginIsKept ==
    (\A p \in Procs : proc[p].pc \in Exited) /\ ~hurt =>
        Now.cf = None \/ Now.cf.refresh \in live
=============================================================================
