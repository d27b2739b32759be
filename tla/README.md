# sickrat: specifications in TLA+

sickrat hands secrets, OAuth access tokens and browser sessions from a phone
(the only place that can decrypt them) to command-line tools on other machines.
A Cloudflare Worker stores ciphertexts and requests; the phone's PWA approves;
the CLI asks, polls and runs the workload. This directory holds TLA+ models of
the parts whose correctness depends on the order of events, the TLC
configurations that check them, and proofs of their main invariants that TLAPS
checks. Every definition is translated from the source under `src/`;
`PROJECT.json` maps each one to the lines it stands for.

## 1. Inventory

### Components, state, operations, interaction

| Component | State | Operations that change it | Talks to |
|---|---|---|---|
| Browser-session vault (`apps/web/src/worker/index.ts` 444-587, 1095-1135, 1274-1428, 2329-2480) | D1 `browser_sessions`, `browser_session_leases`; one R2 object per session | grant (create or not), resolve with reconciliation, artifact GET, artifact PUT, abort, revoke, and the clean-up at the start of every API call | PWA (grants, revocation), CLI (artifact endpoints, by capability) |
| Approval requests and secrets (worker 1972-2096, 2171-2553; CLI 2215-2336; PWA 1986-1990, 2917-3088) | D1 `approval_requests`, `secrets`, `devices.revoked_at`; the CLI's polling loop; the tab's cached secret list | POST request, GET grant (poll), POST grant with new secrets, POST approve / deny, POST secrets, device revocation | CLI ↔ Worker ↔ PWA tabs, through D1 only |
| Device pairing (worker 1846-1970; CLI 2101-2149; PWA 3090-3129, 3250) | D1 `pairing_codes`, `devices`; identity in `config.json` | POST code, publish, GET status (poll), POST approve, revoke | CLI ↔ Worker ↔ PWA |
| OAuth connections (worker 1518-1713, `worker/oauth.ts`; PWA 2164-2215, 2512-2838) | D1 `oauth_connections`; the provider's current refresh token; the tab's cached list; the token and id a completion keeps for its retries | connect, save again, refresh for an approval, rename, revoke | PWA ↔ Worker ↔ provider |
| OAuth handoff (worker 618-716, 1456-1516; PWA 2149-2216, 2579-2630) | D1 `oauth_handoffs`; pending flow in `sessionStorage`; a ref that says a completion has started | create, provider callback, poll, consume | browser ↔ Worker ↔ PWA |
| Vault deployment (CLI 1230-1457, 1734-1845, 2007-2094) | D1 `sickrat_update_locks`, `sickrat_meta`, `sickrat_migrations`; the Worker script; VAPID keys in `config.json` | `vault create`, `vault update` | CLI ↔ Cloudflare API |
| CLI configuration, login, grant cache (CLI 804-918, 996-1176, 1847-1881, 2215-2336; `cloudflare-auth.ts`) | `config.json`, `grant-cache.json` | `login`, `vault create`, `vault update`, `pair`, the refresh of the login by any API call; look up, prune and save a grant | several CLI processes, one file each; Cloudflare's token endpoint |
| CLI request building (`resource-requests.ts`, CLI 2337-2475) | the bindings of `sickrat run` | files, then options, then the child's environment | phone (what is asked for), child (what it is given) |
| Releases (CLI 201-345, 1561-1732, 1940-2099) | the executable and its backup; `~/.sickrat/artifacts/<version>` | `self update`, `update`; download, unpack, check, read and deploy a web artifact | several CLI processes; GitHub, Cloudflare |
| ApprovalHub and push (worker 241-272, 366-442, 814, 1814, 2098-2170; `sw.ts`; PWA 2302-2500) | `push_subscriptions`; PushManager's subscription of each browser; open WebSockets, runs of the realtime effect | subscribe, renew, send, drop a dead subscription, look the latest notification up, show or post it, click; connect, publish, close, reconnect | Worker → push service → service worker → tabs; Worker → hub → tabs |
| Browser-session SDK and child (`packages/browser-session/src/index.ts`, CLI 2476-2772) | two pipes with length-prefixed frames, one transaction, timers and signals | fetch, spawn, write, read, commit, abort, kill | CLI ↔ child process, CLI → Worker |
| PWA shell, storyboard, public site, experiments, operations scripts, protocol types | screens, static pages, type declarations | - | - |

### What is hard here

Nothing in this system takes a lock across an `await`. Handlers read D1 and
write it some calls later; an R2 call and a D1 call are never atomic together;
a Worker isolate may end between any two of them; several tabs, several CLI
processes and several machines do the same things at once, and each keeps a
copy (query cache, config file, manifest) of what it has read. Safety rests on
the `WHERE` clause of one statement, on `UNIQUE` and `FOREIGN KEY` constraints,
on R2's `onlyIf`, and on one batch being atomic. The CLI's files have no lock
either, and a rewrite truncates before it fills; a child process is any program
at all; a push message carries nothing. The hazards in `PROJECT.json`
list the places; the properties below are aimed at them.

### What makes each component correct

* Vault: one writer per session; a write capability is good for one commit; a
  commit replaces exactly what its holder restored; an acknowledged artifact
  stays; revocation stops holders; the clean-up can never break the API.
* Approvals: one answer, final, heard as given; a grant is complete and every
  value in it is stored; a grant never replaces a secret; the CLI's wait ends,
  and not before the Worker stops taking an answer for it.
* Pairing: each command hears the approval of its own device, and saves an
  identity that the Worker verifies; it ends.
* OAuth connections: active names are unique; the stored refresh token is the
  one the provider takes, except after the failures named below.
* OAuth handoff: one authorization becomes one saved token; a retry does not
  send the code again; one effect polls, for the flow whose key the app holds.
* Deployment: nothing recorded that was not live; after invocations that did
  not overlap, all copies agree; every invocation ends.
* CLI files: rewrites that do not overlap lose nothing, and the login that is
  kept is one Cloudflare takes; a cached grant is used only for what, by whom
  and for as long as it was approved; a variable gets what was assigned to it
  last, and the phone is asked for no more than that.
* Releases: the executable is missing only between two renames, after a kill
  there or after two failures there, and then its backup exists; a vault is
  deployed from whole files.
* Child: what is committed is one whole frame of a program that then succeeded;
  the exit code agrees with the lease; the command ends.
* Notifications: an empty push finds its request or a newer one; a notice left
  to a tab is on its way to a tab the user sees; one socket per tab.

## 2. Modules

| Module | Models | Role |
|---|---|---|
| `ArtifactCell` | - | abstract: a cell per session, exclusive one-shot write capabilities |
| `BrowserSessionVault` | browser-session vault | detailed; implements `ArtifactCell` |
| `OneAnswer` | - | abstract: a request answered once, its asker hears that answer |
| `ApprovalRequests` | approvals and secrets, CLI and tabs included | detailed; implements `OneAnswer` |
| `DevicePairing` | pairing | |
| `OAuthConnections` | OAuth connections | |
| `OAuthHandoff` | OAuth handoff | |
| `VaultUpdate` | deployment | |
| `JsonFile` | a file that is truncated, then filled | used by the next two |
| `CliConfig` | `config.json` and the Cloudflare login | |
| `CliGrants` | the grant cache and `requestGrant` | extends `CliConfig`, whose config names the device |
| `CliEnvironment` | the bindings of `sickrat run` | no steps: a state is one command line; with a reference definition |
| `CliRelease` | the executable, artifacts, deployments of them | |
| `BrowserSessionChild` | one browser-session command and its child | |
| `Notifications` | push subscriptions, pushes, service workers, tabs | |
| `Realtime` | the sockets between tabs and hubs | |
| `MC*` | - | instances for TLC |
| `*_proofs` | - | theorems and their proofs; `Notifications_proofs` has those about `Realtime` too, and `CliCommands_proofs` those about `CliConfig`, `CliGrants`, `CliEnvironment`, `CliRelease` and `BrowserSessionChild` |

### How state and actions correspond to the code

*Grain.* One D1 statement, one `DB.batch`, one R2 call, one Cloudflare API call
or one read-modify-write of a local file entry is a step. A handler (or a tab,
or a CLI process) is a record with a program counter; its other fields are the
locals that survive an `await`. Everything else a handler does between two
calls belongs to the step of the first. Where a handler ends early the action
has the guard of the early return and goes back to idle.

*BrowserSessionVault.* `sess`, `lease`, `artifact` are the two tables and the
R2 bucket. ETags are named by the request that uploaded. `EnsureSchema` is a
conjunct of every action that starts a handler, since every API call runs the
clean-up. `Begin`..`Reply` are the handlers: resolve (`StartResolve`, then
`HeadUnchanged` or `HeadChanged` and `Heal`), grant (`StartCreateGrant` or
`StartGrant`, reconciliation, `FreeSlots`, `GrantBatch` or `GrantRejected`), GET
(`StartGet`, `Fetch`, `Deliver`), PUT (`StartPut`, `Claim`, `Put`, `Finish`,
`Undo`), abort, revoke. `Crash` ends a handler anywhere. `Offered` is what the
PWA puts in a grant. A capability holder calls the artifact endpoints in any
order and any number of times. One `resource_ref` is followed: every statement
is keyed by a ref, a session id or a lease.

*ApprovalRequests.* Each request is made by a CLI process (`Ask`, `Insert`,
`Answered`, then `Check` and `Poll` until it ends); each tab gives one answer
(`Open`, then `Seal`, `StartGrant`, `Grant`, or `StartDecide`, `Decide`), with
the secret list as it was when the tab opened the request. A value a tab makes
up is named after the tab. `Close` and `Die` end a tab or a CLI anywhere, with
the Worker's handler finishing or not.

*DevicePairing.* `Ask`, `Insert`, `Publish` are POST pairing-codes with its five
attempts; `Poll` the CLI's loop and the save of the identity; `StartApprove`,
`ApproveBatch` the phone. Key pairs and device ids are named after the command.

*OAuthConnections.* A refresh token is a grant with a rotation count; the
provider (external) takes only the latest. `op` is what a tab does for the user
(`busy` in the PWA): a refresh for an approval (`StartRefresh`, `Resolve`,
`Exchange`, `Check`, `Write`), a renaming, a revocation. `flow` is the completion
of each authorization, with what `completionProgress` keeps: the token and the
connection's id, which is that of the connection with the name in the tab's
list or a made-up one (`None`). `Connect` makes its first save; when a save fails
as the network does, stored or not, `SaveAgain` makes another with the same token
and id; `posts` are the handlers of its saves (`CheckSave`, `WriteSave`,
`LoseSave`), each of which may outlive the call. To an id that the Worker does
not know it prefers one of its own (worker 1614, `Rows`), so a save that is
repeated overwrites only the row of a reconnection; that of a new connection is
refused while the first row has its name, and makes a second row once it has
not. History: `lost` are the grants whose latest token was dropped, `saved` those
a completion has stored, `again` those it has stored more than once.

*OAuthHandoff.* A flow is one press of "connect". `row` is `oauth_handoffs`;
`storage`, `pending`, `started` and `link` are the app's `sessionStorage` entry,
two React states and a ref. `eff` are the runs of the polling effect, each with
the closure it keeps: React's clean-up sets `stopped`, and a stopped effect goes
on with a completion it has begun (`Cleaned`, `Left`). `Configure` and `Remount`
are what makes the effect run again. `Connect`, `Insert`, `Show` are
`connectOAuthProvider` around its POST; `Arrive`, `Deliver` are
`handleOAuthCallback` around its UPDATE, in any browser that opened the link;
`Get`, `Handle`, `Timer`, `Complete`, `Save`, `Consume`, `Forget` are one
effect's poll and completion, `Throw` its `catch`. `had` is history. The
connection's row and its rules are `OAuthConnections`'; here a save adds the code
to those saved under the flow's connection id.

*CliConfig.* An invocation of `login`, `vault create`, `vault update` or `pair`
(`proc`) reads the config, makes its calls, reads the file again and rewrites it
in two steps, `truncate` and `fill`, where the code calls `writeFile`; whoever
reads between them finds no JSON. `call` are its API calls (`readCloudflareApi`),
which may run in parallel, and `flight` is the refresh they share
(`cloudflareRefreshPromise`): one that finds the token on disk changed takes that
one, and one that comes back rewrites the file on its own. Cloudflare (external)
may rotate the refresh token or not, and its answer may be lost (`Refresh`);
`Kill` ends a process anywhere. `should` is what the rewrites make of the config
one by one.

*CliGrants.* `run` is `requestGrant`: look up, prune, match, ask, save, use. The
worker and the device come from `CliConfig`'s file, read once, so that a machine
paired anew in between is one of the cases. What is asked for comes from
`CliEnvironment`.

*CliRelease.* `dir` has three files per version (`index.html` and another of the
client, `index.js`), each absent, being written or whole. One rename, one removal,
one file of `tar` or one read is a step. `Interrupted` may end the process at each.
`CallFails` is a call to GitHub or Cloudflare; what fails on the disk is in the
action itself: `Install` may go to `Restore`, and that may fail, too (`stranded`: the
code drops the error of the rename that puts the backup back), and unpacking may
fail at each file (`ExtractFails`). A removal that fails half way leaves what a
process that was killed there leaves.
`doubt` and `spoiled` say that a directory was rewritten by two at a time.

*BrowserSessionChild.* `pc` is `browserSessionCommand`; `reader` is the state of
`readLengthPrefixedJson`, which takes chunks of any size (`ReadChunk`) and the end
of the stream (`ReadEnd`); `frame`, `sent`, `open` are what the child has put into
descriptor 4. The child may use the SDK (`Take`, `Finish`, `Flush`) or write what
it likes (`Scribble`). `Timeout`, `ForceKill` and `Signal` are the timers and the
signal handlers. The Worker's end is the lease alone (`BrowserSessionVault` is
the whole of it), and each call to it may be lost on its way or on its way back.
The abort of a creation is refused, since the Worker's batch rolls back
(`RolledBack`, as `AbortRollsBack` there), unless the child asked for
`reauth_required`; `Abort` and then `Catch` meet the same answer.

*Notifications.* A request (`req`) is inserted, its subscription chosen and its
push sent in the order of the handler; `push` is the push and then the service
worker's handler of it, through lookup, `matchAll`, `postMessage` or
`showNotification`; `tab` is a window with its sync of the subscription, each
save of which gives the row a new id. `Latest` is the Worker's query,
approvals before pairings.

*Realtime.* `effect` are the runs of the effect, each with its closure (`closed`,
`timer`, socket); `current` is the run a tab is in, `sessions` the runs whose
socket a hub holds. Events of sockets and timers come to the run that made them,
however late. The two channels share the subscription's id and nothing else, so
`MCNotifications` runs one or the other.

*VaultUpdate.* One action per Cloudflare API call of `vaultUpdate` and
`createVault`; `Stop` ends the process anywhere, leaving the lock behind.
`overlap`, `last`, `everLive` are history for the properties.

## 3. Runs

| Run | Checks | States |
|---|---|---|
| `vault_safety` | `OneCommitPerCapability`, `AcknowledgedIsKept`, `CleanupNeverBlocked`, `SingleWriter`, `NoLostUpdate`, `RevokedStopsHolders`, `RevokedUnlessHealed`, `ImplementsCell` | 1.6 M |
| `approval_requests` | `SealedIsStored`, `GrantIsComplete`, `GivesUpLast`, `OnlySavesReplace`, `ImplementsOneAnswer`, `EveryWaitEnds` | 0.65 M |
| `pairing_safety` | `SavedIdentityVerifies`, `WaitsForItsOwn`, `EveryPairingEnds` | 0.8 M |
| `oauth_safety` | `ActiveNamesUnique`, `StoredTokenIsValid` | 2.5 M |
| `handoff_flows` | type invariant, `CodeSentOnce`, `OneFlowAtATime`: two flows, one callback | 1.8 M |
| `handoff_codes` | `OneConnectionPerFlow`, `EveryEffectEnds`: one flow, two browsers with two codes | 0.36 M |
| `update_safety` | `RecordedWasLive`, `SettledAgreement`, `EveryRunEnds` | 0.5 M |
| `child_commands` | `CommitIsWhole`, `OutcomeIsTold`, `EveryCommandEnds`: every access mode, any program | 3.2 M |
| `cli_files` | `ConfigIsKept`, `HitIsEntitled`, `CacheIsKept`, `EnvIsAsAssigned`, `ExecutableIsKept`, `DeployedIsWhole` | 1.9 M |
| `notifications` | `PushFindsItsRequest`, `PostedIsOnItsWay`, `OneSocket` | 2.9 M |
| `oauth_revoked` | violated: a refresh under way revives a revoked connection | |
| `cli_login` | violated: `vault create` writes the login back that its own last call had replaced | |

Each module has a type invariant. They are proved (section 4), and most are not
repeated in the runs. Those of the CLI's files are collected in `CliTypeOK` of
`MCCli`, which holds in every state of `cli_files`, but is left out of its
configuration, where it would take a third of the time.

Each violation run states what a document of the repository promises and is a
finding in `PROJECT.json`.

### Bounds, and why they are enough

* Two handlers (or tabs, or approvals under way) at a time: every race in this
  code is between two of them at one row; a third adds no new pair of steps.
  Handlers are reused, so any number of calls follows one another.
* `LeaseTtl`, `StaleAfter`, `Wait`, `CodeTtl`, `LockTtl` are one or two ticks and the
  clock goes one tick further than the deadlines need, so that each deadline
  is met, missed, and missed by a handler that had already tested it.
* `vault_safety` starts from an empty vault (`FirstInit`), with a creation and one
  further request of any access mode and two session ids, so that clean-up can
  delete the first creation and a second one can follow; and from a stored
  artifact (`StoredInit`), so that two later requests can race within the bound.
* `approval_requests` has one request for up to two refs, so that a grant is
  partly known and partly created, and two tabs that answer it. Requests share
  nothing but the secrets, which a save on the vault screen changes as another
  request's grant would; that several requests are each answered once is
  `ApprovalImplementsOneAnswer`, proved for any number.
* `handoff_flows`: two flows, two effects at a time (the one at work and one that
  was stopped in the middle of its completion), one browser, one retry;
  `handoff_codes`: one flow, two browsers and two codes. A retry count of 3 in
  the code is 1 here: no step tells the second from the third. An effect starts
  only where one of the two places is free (`Watch`).
* `pairing_safety`: two commands on one machine, three codes, two attempts each,
  so that codes collide and attempts run out. `oauth_safety`: two connections,
  two names, two tabs, two authorizations and one rotation, the least at which a
  refresh spends a token that another has read or that a completion saves again.
  A completion saves twice (four times in the code: a third save comes to what
  the second left). `Few` allows three operations and completions at work
  under one name, and two, whose completions save once, where both names are in
  use; `View` drops the rest of a completion that is over. Both properties are
  proved for any number of all these, without `Few`. `update_safety`: two
  invocations on two machines, two versions, two attempts at waiting.
* `child_commands` has the smallest sizes at which the cases of the framing
  differ: a prefix of two bytes, which can come in two pieces; payloads of none,
  one and two bytes, where one is the most that the Worker takes and two the most
  the protocol takes; an announced length beyond that; one byte too many.
* `cli_files` follows one of four scenarios in each behaviour, since config,
  cache, artifacts and environment are separate (`MCInit`): two commands of the config
  with two parallel calls each and three tokens, so that a token is replaced
  twice; two grants while another command pairs the machine anew; two
  invocations with two releases; one `sickrat run` that binds variables.
  `Undisturbed` stops following a behaviour where
  no property of it speaks any more: nobody is at work, a rewrite of the config
  has overlapped another, or all who are left are in `doubt`. `EnvIsAsAssigned`
  goes over all pairs of lists of up to two assignments, enough for a second
  assignment to replace a first of any kind.
* `notifications`: two requests, so that one is newer; two ids and two endpoints,
  so that a row is renewed under the same endpoint and under a new one; two tabs,
  of which one is hidden. With both tabs open only one request is followed
  (`Few`). `Realtime`: two tabs and four runs of the effect, so that a tab goes
  through two runs while events of the older are still to come.
* `cli_login` needs one invocation, one call and two tokens.
* Guards that exist only for TLC: `now < MaxTime` in every `Tick`;
  `now + Wait < MaxTime` in `Ask` and `Answered`, `now + CodeTtl < MaxTime` in
  pairing's `Ask`, so that no wait outlives the clock; `latest < MaxVersion`;
  `op[t].num < MaxRotations`; the cap on `tries`; `issued < MaxTokens`,
  `ids < MaxIds`, `given < MaxEndpoints`, and the numbers of requests and runs; a
  child writes at most one byte more than its frame has.
* Symmetry is used only in runs without liveness, and over sets whose members
  no definition tells apart. `View` drops `updated_at` of rows that have left
  `creating`, which nothing reads.

### Fairness

Liveness is claimed of machines only, never of the phone. `ApprovalRequests`:
time passes, and the CLI's calls return (`fetch` resolves or rejects, and the
loop has a sleep and a deadline). `DevicePairing`: the same. `VaultUpdate`: a
process that is not killed takes its next step; Cloudflare need never make an
upload live and releases need never come. `OAuthHandoff`:
the effects' calls return and their timers fire, and handoffs expire; neither
the user nor the provider need do anything, and React need not clean up.
`BrowserSessionChild`: the CLI is scheduled, its calls are answered or fail, and
its timers (the transaction's and the one that sends SIGKILL) fire; nothing is
asked of the user's program, and `EveryCommandEnds` names the one case in which
the command waits for ever. Failures stay possible everywhere.

## 4. Proofs

For every value of the constants under the named assumptions
(`NoneAssumption`, `TimeAssumption`, ... in each module). The names of the
theorems begin with the component; each property is one that a run checks:

| Theorem | Argument |
|---|---|
| `VaultTypeCorrect` | inductive with `Placed`: a handler at work knows its session and request |
| `VaultSingleWriter` | an active write lease holds the session's slot (`SlotHeld`) and a slot is held once (`SlotUnique`, from the index). The slot is needed because "active" depends on the clock and the slot does not |
| `VaultCleanupNeverBlocked` | the only lease of a session in `creating` is the one inserted with it, expires within `LeaseTtl` of the row's timestamp, and so is deleted before the row is (`UsedInv`, `FreshInv`, `LeftInv`, `ExpiryInv`). Rests on `LeaseTtl <= StaleAfter` (five minutes and ten, in the code) |
| `VaultRevokedUnlessHealed`, `VaultRevokedStopsHolders` | step by step from the types: every statement that may find a revoked row tests it (`OwnRow`, `RowLive`), but for `Heal`. The second needs that a revocation takes all active leases of the session in its own batch |
| `VaultOneCommit` | `VaultInv`: a handler past its claim made it while the lease was unconsumed, and nothing makes a consumed lease active again but the end of that handler |
| `VaultNoLostUpdate`, `VaultAcknowledgedIsKept` | `KeptInv`: what a holder has been delivered, what R2 holds and what D1 records agree except while exactly one committer, healer or revoker is at the session; that is followed through every handler that remembers an ETag across a call (`KeptBy`) |
| `VaultImplementsCell` | the same invariants; initial states map to initial states of `ArtifactCell` and every step to a step or a stutter |
| `ApprovalTypeCorrect`, `ApprovalImplementsOneAnswer` | steps map to steps of `OneAnswer` or stutter; needs that an INSERT happens once (`InsertedOnce`) |
| `ApprovalSealedIsStored`, `ApprovalGrantIsComplete` | what a tab believes stored was stored (`KnownKept`), secrets are never deleted (`StoreKept`), so what it seals is (`SealedInv`) |
| `ApprovalGivesUpLast` | the CLI's clock starts after its row was inserted (`DeadlineInv`), so the row's deadline has passed when the CLI's has |
| `ApprovalOnlySavesReplace` | the batch of a grant inserts, and is rolled back if a row is there |
| `PairingTypeCorrect`, `PairingSavedIdentityVerifies`, `PairingWaitsForItsOwn` | a code's row never changes its owner (`OwnCode`, `PhoneKnows`), and an approved code has a device (`ApprovedRecorded`) |
| `OAuthTypeCorrect`, `OAuthActiveNamesUnique` | the first with `Begun`: a completion has made as many saves as it says, and those under way are among them; the second from the UNIQUE index alone, whatever `Check` and `CheckSave` saw |
| `OAuthStoredTokenIsValid` | no stored or held token is ahead of the provider (`Issued`); nobody carries a grant before it is first stored, and a save that is under way while no other was made is that first one (`FirstSave`); a grant stored once belongs to one connection (`OneConnPerGrant`); who holds the provider's answer is alone in that and has the valid token (`OneHolderPerGrant`), and is ahead of all that is stored (`HolderIsAhead`), even of a first token that was stored again. For a grant in `again` the invariant claims no more than these |
| `HandoffTypeCorrect` | with `Placed`: an effect that completes holds a result; any step lets an effect's record only grow from what it held or what the handoff holds (`Grows`) |
| `HandoffCodeSentOnce` | the token an effect was last given is the one it has (`HadIsToken`) |
| `HandoffOneFlowAtATime` | inductive as it stands: an effect starts only where all others were stopped |
| `HandoffOneConnectionPerFlow` | until the callback writes the handoff no code of the flow was seen, afterwards none but that one (`CodeInv`) |
| `UpdateTypeCorrect`, `UpdateRecordedWasLive` | an invocation carries only versions that were live: those of the manifest it read, and its target once it has answered (`Carries`) |
| `UpdateSettledAgreement` | `SettledInv`: an invocation that met no other since it took the lock carries the manifest, the keys and the version that it has itself brought into agreement up to its program counter |
| `ReleaseTypeCorrect`, `ReleaseExecutableIsKept` | `ExeInv`: at most one invocation is between its two renames, and its backup is there; the second rename finds the place empty because only it emptied it. One that was stranded keeps its backup, and with the executable missing no other gets past its first rename |
| `ReleaseDeployedIsWhole` | `WebInv`: what an invocation has listed or read from a directory that is not in doubt was put there by an unpacking that ended (`JobOK`, `DirOK`) |
| `ConfigTypeCorrect` | what a refresh replaces is a login (`HasLogin`), what a login was given is a token (`HasGot`) |
| `ConfigKept` | `FlowInv`: somebody waits for every refresh under way, and only a command that is at its calls waits, so that nobody refreshes for a command that has begun its own rewrite or has ended. `KeptInv`: while no two rewrites have overlapped, one process at most has read what it will rewrite, that still is what the config should be, and the token it names is honoured or being replaced; a login that has not stored its token has one that nobody else names |
| `GrantTypeCorrect` | who is past the config has a device (from `ConfigTyped`), and what is saved has a time limit, so that the least of its expiries exists (by well-founded induction, `LeastNumber`) |
| `GrantHitIsEntitled` | `EntitledInv`: what is in the file, or was read from there and is held across the pruning, was granted to the device it names and lasts no longer than the grant; a torn file reads as empty, so it adds nothing. Rests on times being numbers (`GrantAssumption`) |
| `GrantCacheIsKept` | `CacheKeptInv`: while no two rewrites have overlapped, one invocation at most is to write, and what it will write is what the cache should be, apart from entries that have expired since |
| `EnvironmentIsAsAssigned` | for lists of any length: after each prefix of the files, and then of the options, the three maps say of a key what its last assignment in the prefix says (`FilesSay`, `OptionsSay`), and a key has a secret or a token, never both (`EachAsMeant`). Induction over the lists is done by hand, as the absence of a shortest prefix of which it is false; that the fold's intermediate results exist (`FoldIsDefined`) is shown the same way |
| `ChildTypeCorrect`, `ChildOutcomeIsTold`, `ChildCommitIsWhole` | for every frame length: what has been read so far agrees with the frame (`Understood`), the reader is started once (`Unstarted`), the lease is settled only after the child ended, for what it said (`Settled`), and the `catch` owes an abort only where no call was lost, or the abort was that of a creation (`Caught`) |
| `PushTypeCorrect`, `PushFinds`, `PushIsOnItsWay` | ids and endpoints are given out in order, so that a row which has been replaced never comes back (`Counted`); a push is sent after its request was stored (`Sent`); and what the lookup returns is the maximum over a set that has the request in it. That the maximum exists is shown by well-founded induction on the naturals (`WFMin`), instantiated for a set |
| `RealtimeOneSocket` | a run that is not cleaned up is its tab's current one, and one that is cleaned up has no socket in use (`Placed`) |

The theorems about releases rest on `ReleaseAssumption` (there is a release), the
config's on `ConfigAssumption` (a bound of at least one token, `None` is neither
an invocation nor a login), the cache's on `GrantAssumption` (times are natural
numbers, `None` is not a request), the environment's on `UnsetAssumption` (the
absence of a name is not a name).

Only model-checked: everything about liveness (`EveryWaitEnds`,
`EveryPairingEnds`, `EveryRunEnds`, `EveryEffectEnds`, `EveryCommandEnds`), since
fairness and ENABLED are beyond the prover.

## 5. What is not modelled, and why

Cryptography (a capability or a ciphertext is known to whom it was sealed),
the scopes of a login,
signatures and request validation (a request of an unpaired device is refused
at `Ask`), labels and descriptions, HTTP status codes beyond
"refused", pure I/O of the CLI, the focus fallback of a tab that asks for the
latest notification itself (main.tsx 2340-2367), the pings of a socket, rendering
and routing of the PWA, unlocking of its vault, the storyboard, the public site,
the experiments and the operations scripts. The clocks of CLI and Worker are one clock.
D1 is taken to be linearizable and R2 to have strongly consistent `head`, `get`
and `put`, which Cloudflare documents and the code relies on.

Seen while modelling and not stated as a run (the models exhibit them):

* POST revoke deletes the R2 object before it marks the record (worker
  1422-1428); a PUT in between whose handler dies leaves an object under a
  revoked session.
* An upload whose handler dies before finalisation, followed by clean-up of its
  `creating` row, leaves an object that nothing names
  (docs/browser-session-vault.md:471).
* A creation aborted with `reauth_required` (worker 1404-1405) leaves a row that
  clean-up never removes (docs/browser-session-vault.md:476).
* The abort of a creation deletes the session's row in the batch that consumes
  the lease, which still refers to it (worker 1398-1412, 533): the batch rolls
  back, the CLI gets a 500 for the abort and for the one its `catch` adds (CLI
  2768), and fails with the capability unspent (docs/browser-session-vault.md:543).
* A completion whose save failed as the network does saves again, up to three
  times, with the token it was first given (main.tsx 2188-2196, 2519, 2555). If
  the first save was stored, a refresh in between has spent that token: for a
  reconnection the spent one is written back; a new connection is refused (409),
  or stored a second time if the first row was renamed or revoked meanwhile,
  since the Worker gives an unknown id another one (worker 1614).
* A poll of a handoff that fails once schedules no other (main.tsx 2187-2205), and
  a completion that fails after its effect was stopped leaves the flow neither
  done nor forgotten (2188; docs/oauth-gateway.md:186). One that succeeds after
  the user pressed connect again forgets the newer flow (2183-2186).
* A second callback is told that its result is waiting although its UPDATE changed
  no row (worker 703-716).
* Expiry of a request is tested before, and not in, the statement that decides
  it (worker 2343 and 2526, 2548 and 2549;
  docs/feature-request-long-pending-approvals.md:61).
* POST grant does not look at the device again (docs/oauth-gateway.md:368), and
  a grant can be read repeatedly (docs/protocol.md:141).
* `vault update` preserves the VAPID keys of the machine it runs on, which need
  not be the vault's (CLI 2026, 2068), and deploys over a vault that is ahead
  of it (CLI 2018; docs/vault-updates.md:323).
* Approving a pairing code sets `revoked_at = NULL` (worker 1960-1965), so an
  approval under way undoes a revocation (docs/threat-model.md:75).
* A grant batch stores its new secrets though the request was denied meanwhile:
  only one of its statements tests the status (worker 2508;
  docs/generated-secret-flows.md:19). `RevokedUnlessHealed` has an exception for
  the same reason: a reconciliation that read the session before its revocation
  makes it healthy again (worker 1101; docs/browser-session-vault.md:514).
* The update lock is read and then written by an upsert, so two invocations can
  both have it (CLI 1389; docs/vault-updates.md:281).

Of the child: the timer that sends SIGKILL is cleared in `finally`, so a child
that ignores SIGTERM survives a command whose read failed early (CLI 2616-2772).
A process the child left behind with descriptor 4 open keeps the payload phase
waiting past all deadlines (docs/browser-session-vault.md:653). The config is
read again after the approval (2727) and may name another Worker. The `catch`
aborts a second time, as `operation_failed`. Base64 and JSON make bundles of more
than about 25 MB too long for the Worker (worker 237, 1342), though the
protocol takes 32 MB (CLI 2535).

Of notifications: every load of a page saves its subscription under a new id, so
requests under the old one are not found by the lookup, and other tabs stay
connected to the old id's hub. Of two requests close together both pushes find
the newer one; an older pending approval hides a pairing. A notice posted to a
visible tab that is still loading is shown nowhere. A save that comes after its
endpoint was unsubscribed makes a dead row the newest. A hub that throws after the
INSERT makes the handler fail, without a push.

Of releases: a kill during `tar` leaves a directory that has the two files
`existsSync` looks for (CLI 267) and lacks others, and a later `vault create`
deploys it (docs/vault-updates.md:122); two invocations may rewrite one
directory. A rename from the temporary directory fails if that is on another
device (CLI 1995), and the executable is restored; if that fails, too, the error
is dropped (1997) and only the backup is left, which is not named to the user. Of two self updates the one
that started with the older release may install last, for the version is compared
at the start (1956).

## 6. Plan

1. `BrowserSessionChild` composed with `BrowserSessionVault` in place of its
   lease; the focus fallback of a tab.
2. The provider proxy's mapping of errors, which decides whether a connection
   is marked for reconnection.
