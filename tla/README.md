# A TLA+ verification of AutoArchon's campaign control plane

AutoArchon runs Lean proving campaigns.  A campaign root holds a set of run
roots; each run root holds an imported Lean project, the plan and prover loop
that edits it, and the artifacts and validations of what was proved.  Nothing
is kept in a database or in a long-lived server: every component is a process
that reads and writes JSON files under the campaign and run roots, with no lock
around any of them.  What makes the system correct is therefore a matter of
which process reads which file when, and that is what these modules model.

## 1. The system

### Components, their state and operations

| component | source | state it keeps | operations |
|---|---|---|---|
| campaign owner lease | `archonlib/campaign.py` 77-347 | `control/owner-lease.json` | claim, refresh, release, liveness judgement |
| orchestrator watchdog | `archonlib/orchestrator_watchdog.py` | its codex session, restart budget, cooldown, launch-selection budget, `control/orchestrator-watchdog.json` | start, poll, bootstrap, top-up, stall recovery, restart, finish, finalize |
| recovery selection | `orchestrator_watchdog.py` 206-415 | none (pure) | which runs the watchdog may launch now |
| campaign run status | `campaign.py` 943-1911, 4017-4293 | `control/campaign-status.json`, `events.jsonl` | validation summary, acceptance merge, classification, recommended recovery, status events |
| teacher launch | `campaign.py` 645-940, 1179-1408, 3914-4014, 4457-4680 | `control/teacher-launch-state.json`, the detached launch script's process | dispatch, bootstrap, start, finish, stale-process cleanup |
| recovery commands | `scripts/campaign_recover.py`, `campaign.py` 4318-4680 | run roots | comment-only reset, recovery of a run |
| supervised cycle | `scripts/supervised_cycle.py` | `supervisor/run-lease.json`, seeded routes, progress summary, journal | seed routes, claim the run, run the loop, watch it for idleness, recover after a stall, validate, sync the planner state, release the run |
| validation and acceptance | `archonlib/validation.py` | `validation/*.json` of the workspace | acceptance status of a target, preservation of an earlier acceptance |
| statement fidelity | `archonlib/supervisor.py`, `archonlib/formalization.py` | `.archon/formalization/*.json` | header drift and its class; contract of a comment-only file and what it makes of the file |
| export | `archonlib/run_workspace.py` 194-380 | `artifacts/proofs`, `artifacts/validation` | export changed proofs, task results and validations |
| finalization | `campaign.py` 5116-5280 | `reports/final` | export every run, collect the status, copy accepted proofs |
| plan/prover loop | `archon-loop.sh`, `archonlib/codex_logs.py` | `PROGRESS.md`, task results, meta files | plan, parallel provers, review |
| helper prover calls | `.archon-src/tools/helper_prover_agent.py`, `informal_agent.py`, `archonlib/helper_index.py` | helper notes and their index | call, retry, fallback, reuse of a recorded answer |
| campaign creation and sharding | `campaign.py`, `archonlib/launch_contract.py`, `scripts/launch_from_spec.py` | `CAMPAIGN_MANIFEST.json`, run configs, plan file, watchdog pid file | plan shards, create the campaign, validate the contract, start the watchdog |
| campaign reports and overviews | `campaign.py`, `scripts/campaign_overview.py` | status, event log, compare report, overview, postmortem | collect, compare, overview, archive |
| warm caches | `archonlib/lake_prewarm.py`, `scripts/prewarm_project.py`, `run_workspace.py` | `.lake` of runs and of the project they come from | link or copy packages, repair, get, build |
| storage | `archonlib/storage.py` | the same | storage and retention report, prune |
| bundles, lessons, helper analysis, operator surfaces | `archonlib/backup_bundle.py`, `lessons.py`, `lesson_clusters.py`, `helper_analysis.py`, `helper_health.py`, `operator_surfaces.py` | archives, reports | pack, summarise |
| browser UI, installers, prompts, vendored tools | `ui/`, `init.sh`, `setup.sh`, `review.sh`, `.archon-src/` | - | - |

### How they interact

* A launch plans shards from a spec, creates the campaign and starts a
  watchdog.  The watchdog wraps one codex session at a time.  The session and
  the watchdog both dispatch teacher launches, each through
  `execute_run_recovery`; the operator can do the same from the command line.
* A teacher launch is a detached shell script.  It prewarms and initialises the
  run and starts a codex teacher that runs supervised cycles, and those run the
  plan/prover loop, whose agents call helper provers.  The launch writes
  `teacher-launch-state.json`; the cycle writes `run-lease.json`; the status
  collector reads both and probes the pids they name to tell whether a run is
  live.
* A cycle writes workspace validations; the export copies changed proofs and
  validations into `artifacts/`; the status collector merges both sides and the
  journal's accepted-proof events; finalization copies what the merge calls
  accepted into the final report, where the cycles of other campaigns find it.
* Storage and prewarms know of live runs by their lease and by the table of
  processes alone.

### Hard behaviours, and what makes each component correct

Every read-judge-write over a file (the owner lease, the launch state, the run
lease, the helper index, the status) is open to interleaving; every writer
truncates before it fills; every process can be killed between two writes and
its children survive it; a status that was read is stale when it is acted on;
the restart budget and the cooldowns interact with fingerprints that other
processes change; an acceptance outlives the content it was given to.

What has to hold, in one line each: one owner of a campaign; a barren campaign
stops, a queued one starts, a closed one is finalized; one launcher, one cycle
and one loop for a run, and a run whose processes are gone is freed; a run is
closed only when its files are, and settles; what is published was vetted; a
loop ends, and archives nothing unmerged; a helper is not asked beyond its
budget; a manifest and the runs on disk agree; what is logged is logged once and
not lost; a cache is not taken from who works on it; what is compared is what
the source asked for.  `PROJECT.json` lists the forty hazards that weigh most, at
their lines; those that nothing in the code prevents have a note there instead of a
property, and section 6 tells of them and of others of that kind.

## 2. Modules

| module | what it is | composed with |
|---|---|---|
| `OwnerLease`, `CampaignOwnership` | who runs the campaign; the second is the abstract promise the first implements | refinement `ImplementsOwnership` |
| `Validation` | the pure judgements on a file and a run | used by `Acceptance` and `RunStatus` |
| `Acceptance` | what becomes of a proof between the prover and the final report | `Validation` |
| `Watchdog` | polls, restart budget, cooldown, launch budget, recoveries, finalization | - |
| `RunLease`, `HistoricalRoutes` | how the cycles of a run keep out of each other's way; what they seed before they look | the second extends the first |
| `TeacherLaunch` | dispatch, launch script, running signal, cleanup | takes a cycle of `RunLease` in fewer steps |
| `RunStatus` | which files a run must close, its class, its recovery | `Validation` |
| `CampaignLaunch` | from the launch spec, by its plan of shards, to a watched campaign | - |
| `ArchonLoop` | the plan/prover loop under its cycle | - |
| `HelperCalls` | helper provers, their budgets and their index | - |
| `CampaignReports` | status, event log and reports over shared files | - |
| `WarmCaches` | the Lake caches of runs, prewarms and prunes | - |
| `StatementFidelity` | headers and contracts | - |

`MC...` modules give TLC its instances; `..._proofs` hold the theorems.  A proof
module may be about two components that are close to each other
(`Acceptance_proofs` about `Acceptance` and `StatementFidelity`, `ArchonLoop_proofs`
about `ArchonLoop` and `HelperCalls`, `CampaignLaunch_proofs` about `CampaignLaunch`
and `WarmCaches`, `Watchdog_proofs` about `Watchdog` and `CampaignReports`); the
second of the two has names of its own for its specification (`FidelitySpec`,
`CallsSpec`, `CachesSpec`, `ReportsSpec`).

What the project may still grow by, in this order: explicit `runSpecs` and the
contract's file checks in `CampaignLaunch`; the leftovers of broken prewarms in
`WarmCaches`; a composition of `TeacherLaunch` with all of `RunLease`.

## 3. What is modelled

Each module names the code's functions in its comments, and `PROJECT.json`
maps every definition to lines.  Definitions whose comment begins with "Mutant"
are variants with a plausible bug, one for each property of each run: they are
used nowhere, and put in place of the definition they vary make the run fail.

### OwnerLease and CampaignOwnership

Models `claim_owner_lease`, `refresh_owner_lease`, `release_owner_lease` and
`owner_lease_is_live` (`campaign.py`), and the points of `run_watchdog` at which
they are called.

* `file` is `owner-lease.json`: missing, torn (truncated by a writer, or two
  writers' text mixed), or whole.  `call` is a claim in progress: the lease it
  read and how long ago.  `pc`, `handle` and `started` are the watchdog process;
  `codex` the sessions alive.
* A claim is three steps (`ClaimRead`, `BeginWrite`, `EndWrite`), for nothing
  holds the file meanwhile.  A refresh is the same three from the poll.
* `Kill` ends a watchdog anywhere; its session, a process group of its own,
  lives on and may end at any time.
* History: `holder` (who filled the file last), `recorded` (sessions a lease has
  named), `raced` (a claim overwrote a lease other than the one it read).

What the code promises is conditional, and the conditions are in the
properties.  `ExclusiveUnlessRaced` and `SessionsOnRecord` hold while every claim
overwrites what it read; `LeaseTellsOwner` and the refinement
`ImplementsOwnership` hold through races too.

### Validation and Acceptance

`Validation` holds the judgements: `acceptance_status` and
`should_preserve_previous_acceptance` of `validation.py`, the status of a
supervised cycle, the exported validation, and the summary of a run in the
status collector, event log included.  `Acceptance` is the state they work on:
per target the workspace file, its note, its validation, the exported copy of
both, and the report; one supervised cycle with its loop (`cycle`), one job
(`job`: export, collection or finalization), each a sequence of steps between
which it can be killed and the other can run.

A Lean file is one of five contents: the source, a proof that verifies, one that
does not, one whose header drifted, and (for a source that is only a comment) a
formalization that is partial.  These are the distinctions the code draws; how it
draws them from text is `StatementFidelity`'s subject.

History: `vetted` is the content each validation saw, `steady` the files nobody
has touched since the finalization began, `unlogged` that a collector was killed
between the status and the event log.

### Watchdog

`run_watchdog` and what it calls: `campaign_has_live_work`,
`is_campaign_terminal`, `select_automatic_recovery_run_ids`,
`_provider_cooldown_seconds`, the classification of an exit, and
`execute_run_recovery` for each selected run.

* `run` is what the status collector would say of a run now, one name per
  combination the watchdog tells apart.  A poll reads it in the step that
  decides; the recoveries it decides on are executed one at a time
  (`Execute`), each against the status of its own moment, as the code does.
* The campaign's fingerprint becomes `moved`: it differs from the one held.
  Whoever writes under the campaign root sets it; a poll, an exit and the end of
  the recoveries take a new fingerprint and clear it, but only a poll resets
  `restarts`.
* Clocks become the thresholds passed (`idle`), or ticks left (`cooldown`).
* A poll takes the first branch that finds a run: bootstrap, top-up, stall;
  with none, it may restart or give up on a silent session.
* `SessionMay` says what the wrapped codex session does on its own, for it has
  the same recovery command.

### RunLease and HistoricalRoutes

The supervised cycles of one run root (`supervised_cycle.py`) and what the status
collector concludes from their lease (`_is_running_signal`).

* `file` is `run-lease.json`: missing, torn, or whole with its active flag and two
  pids; `seen` is the lease a cycle last read or wrote; `pc` the cycle's place;
  `loops` the loops alive, each a session of its own that survives its cycle.
* Every `_update_lease` is two steps, `BeginWrite` (truncate) and `EndWrite`
  (fill); `Due` says which write a cycle makes next, `Text` what it writes.  The
  start of the loop (`SpawnLoop`) and the record of its pid are different steps,
  as they are in `_run_archon_loop`.
* A recovery pass runs no loop and checks no lease: `Recover` starts it when the
  status collector calls the run idle, which a heartbeat older than
  `heartbeat_seconds` (`Tick`) is enough for.
* History: `raced` (a write hit a lease its writer did not know, or a cycle died
  before its lease named its loop); `overtaken` (the cycles whose lease a recovery
  pass overwrote while they or their loop were alive).

`HistoricalRoutes` goes on top: before a cycle looks at the lease it clears the
routes of other campaigns, and with `--preload-historical-routes` seeds the
newest published one, the note and the summary in different steps.  Routes may
spare the first plan (`CheckLease`) and stand in for a blocker note that an idle
prover did not write (`Synthesize`).  `RoutesAsReported` exempts the cycles whose
routes another cycle wrote to (`disturbed`), of which section 6 tells.

`Acceptance` takes the phases of one cycle in detail and assumes that it is alone
on its run root; `RunLease` says when that is so.

### TeacherLaunch

The teachers of one run root.  An attempt is a dispatcher (`disp`), the
`launch-teacher.sh` it spawns (`script`), the script's codex teacher (`codex`), and
its supervised cycle (`cyc`) with a loop (`loops`), each of which can die alone.

* `execute_run_recovery` judges the run idle, resets a comment-only drift, marks
  the launch state, spawns, and notes the pid, in steps of their own; the script
  writes the phases of the launch state meanwhile.
* `Running` is `_is_running_signal`; `Activity` and `LaunchActive` are what a launch
  state is worth without and with a lease, with its grace for a dispatch without
  a pid.
* `Collect`, `KillGroups` and `MarkTerminated` are `cleanup_stale_launch_processes`:
  a status, a choice of launchers by their age (`Duplicates`, `Primary`), SIGTERM to
  their process groups, a note.
* Ages are kept as orders: which scripts were `old` when the lease, the launch
  state or a newer script was written (`behind`).
* `raced` is set when a judgement or a write missed a launch in progress, in the
  ways `Overlooks` and `Disturbs` name.

### RunStatus

One run from the outside: `_classify_run_status`, `_remaining_targets`,
`_build_recommended_recovery`, the comment-only reset, and the recovery-only
cycle.  Files to close come from `RUN_SCOPE.md` or, without one, from what is
changed or closed; files reported as remaining fall back on the manifest.
Cycles, exports and collections are single steps.

### CampaignLaunch

`launch_from_spec.py` from the spec to the running watchdog: plan (or the plan on
file), `create_campaign` run by run, owner mode, `validate_launch_contract`, spawn
and pid file.  Launches overlap, are killed and repeated; the operator edits the
spec in between, and may leave options in it that the watchdog's command line
refuses (`OptionsMalformed`).  `Planned` is `plan_campaign_shards`: the matched
files, sorted, cut into chunks (`Index`, `Shard`, `Shards`); `limit` is in what
`match` may be.

* A spec says what it matches, whether that is what the contract counts
  (`counted`: only `planShards.matchRegex` is, while the planner also takes a
  `matchRegex` beside it, or none), and whether the count finds Lean files that the
  planner skips (`ignored`).  An uncounted scope is never an error.
* `owner-mode.json` is written by whoever declares a mode (`WriteOwnerMode`,
  `TakeOver`, `WatchdogStarts`), and read and written back by whoever ensures the
  control root without one: the creation (`EnsureControlRoot`) and each claim,
  refresh and release of the owner lease by a watchdog (`WatchdogClaims`,
  `WatchdogRefreshes`, `WatchdogReleases`).  Each write truncates
  (`DeclareOwnerMode`, `TruncateOwnerMode`) and then fills, possibly with the end
  of a longer text behind it (`FillOwnerMode`); one who finds the file torn writes
  the default.  `held` is what a process is about to write.
* `declared` (history) is the last declaration as long as it has to stand: until
  somebody declares or tears beside it, or dies over it.

### ArchonLoop

`archon-loop.sh` and what the cycle does around it: archived results of accepted
files, the fast path that skips the first plan, the idle monitor, and the sync of
`PROGRESS.md`. The plan agent may write what it likes; `Gate` is what the script
makes of that (fallbacks, a scope that changed, an objective recovered); provers run
in `MaxParallel` slots, end, fail or hang, and only the only prover of an iteration
can be recorded as failed. `TimeoutInstalled` is whether coreutils' timeout was
found, and `TimeoutsSet` whether the script was given time limits: they are empty by
default, and the teacher prompt of a campaign gives them (`campaign.py` 516-536).
`Guarded` is both. The readiness check before the first iteration is a session that
no limit guards; it may hang for good (`PreflightHangs`). `surface` is the progress
surface of the run (`RUN_PROGRESS`), which the monitor rewrites while the loop runs
(`EmitLive`) and the cycle when it ends; `frozen` is the list of objectives that a
cycle without a scope takes down at its start and reports against. In the surface a
rejected target is closed as an accepted one is, while only an accepted one lets the
planner rest: `ProgressTold` says when what is shown closed is at rest.

### HelperCalls

Calls of the helper prover agent by several callers: reuse of a note, the stop
after a failure of the same config, budget and cooldown, forced calls, the chain
of fallbacks with retries, the note, and an index that is read, truncated and
filled.  `asked` and `last` record what was really asked; `disturbed` is set when
two callers are at work at once, or one is killed.

### CampaignReports

Commands over `campaign-status.json`, `events.jsonl` and `compare-report.json`:
collections (read the previous status, observe, truncate, fill, diff against the
log, append), compare reports, overviews and the archive, as jobs made of steps
that interleave and can be cut short.  `Overview` has the operator queue, the
bottleneck, the estimate, the buckets, the progress and the commands offered.
A run has accepted proofs, formalizations and blockers; the log has events for the
first and the last.  What is unverified are changed files, which remain to be
closed, and a note in `task_results`, which may stand beside a run that has nothing
left; the total of the progress counts both.

### WarmCaches

How a run gets its `.lake` from a hub project (`create_isolated_run`: packages
linked, or the cache copied), prewarms of either (find and remove broken packages,
clone, get the cache with a fallback, build or verify, retries), the launch script
that waits for them and has a cache repository by default, cycles and their lease,
and one prune: hints from the table of processes, a judgement per run by its lease,
removals that may fail halfway. The advice of the retention report is a pure
operator of the same state.

### StatementFidelity

`_extract_headers` and `classify_header_mutation` over lines: a declaration has its
name, hypotheses and conclusion, and its first `:=` on its own line or later, and
a proof with or without one.  `Extracted` is the scan, as the least set of
declarations that is closed under going on below a header, and `IsSubsequence`
asks for the one pass over the target; neither is recursive, so that they can be
reasoned about.  `Covered` and `Remains`, which they are compared with, say the same
without a scan: an odd number of open headers in a row, and what remains when
items are left out.  For comment-only files: the contract derived from
the file, its documents and a bundle, stored, torn, rewritten; and what the file
is judged by.

## 4. What is checked

Type invariants are either part of the first property named of a run (the
`...Inv` ones) or proved (section 5).

| run | instance | properties, and what they show |
|---|---|---|
| `owner_lease` | 2 watchdogs, 2 sessions each, lease of 1 tick | `ExclusiveUnlessRaced`, `LeaseTellsOwner`, `SessionsOnRecord`; an abandoned lease expires (`AbandonedLeaseExpires`); the abstract ownership is implemented |
| `acceptance` | 1 file, 2 cycles of 1 iteration | `AcceptedOnGrounds` (no drift, no recorded failure without evidence), `StatusIsJournaled`, `PublishedAsVetted`, `AcceptanceLostForCause` |
| `watchdog` | 2 runs, 1 slot, batch of 2, budget 1, 2 exits, cooldowns of 1 and 2 ticks | `BarrenExitsBounded`; `BudgetsKept` (launch cap, cooldowns); `QueuedIsLaunched`; `ClosedIsFinalized` |
| `run_lease` | 2 supervised cycles, 1 recovery pass, 1 published blocker | `OneCycle`, `OneLoop`, `LeaseBelieved`, `RoutesInv`; a loop whose lease was overwritten is seen again (`LoopSeenAgain`) |
| `teacher_launch` | 2 attempts on a run that may have had others | `LaunchInv` (a booting launcher is seen, launched once, on a run that is initialised), `WorkerSpared` by the cleanup, `AbandonedRunIsFreed` |
| `run_status` | a theorem file and a comment-only file, 2 results | `StatusInv` (closed means nothing left open), `KeptOverReset`, `RecoverySettles` |
| `campaign_launch` | 2 launches, 2 files, a benchmark | `CampaignInv` (manifest and disk agree, the owner that declared itself last is on record, and so is the watchdog), `WatchedAsContracted`, `ManifestKept` |
| `archon_loop` | 2 files, 1 slot, 2 cycles of 2 iterations | `LoopInv` (results merged before archived, provers on record, progress as told), `AcceptedRunRests`, `CycleEnds` |
| `helper_calls` | 2 callers, 2 configs, 2 calls, budgets of 1 and 2 | `CallsInv` (policy kept, answers noted), `FailureNotRepeated` |
| `campaign_reports` | 1 run of 1 file and a note, 2 processes, 1 change, 4 stamps | `LogInv` (logged once, nothing lost, changes chain), `ReportsFresh`, `OverviewTellsAll` |
| `warm_caches` | a hub and a run, 2 launches, 1 prewarm of the hub, 1 prune | `CachesInv` (starts warm, reports agree), `CachesKept` by prunes and prewarms, `PrewarmEnds` |
| `statement_fidelity` | every source of 2 theorems or of a comment, 2 edits | `HeadersInv` (drifts exact, named for what they are), `ContractInv` (judged alike, and by the source) |

### Why the bounds are enough

* Two watchdogs are enough for every race of the lease: a judgement is between
  the lease's owner and one reader, and a third adds another reader.  Two
  sessions let one be restarted while the previous one still runs or is still
  recorded.  A lease of one tick is fresh, at its limit or stale; older ages are
  all alike (`AgeCap`).
* An acceptance given in one cycle is kept or lost in the next: two cycles.  One
  iteration per cycle: a second adds edits and archives notes, both of which a
  second cycle also does.  The theorems are for any set of files.
* One restart and two exits exhaust the budget, with an exit to spare for a
  silent session; a batch of two competes for one slot.
* A run root is seen by a cycle that holds it, one that comes after and one that
  skips the check: two supervised cycles and a recovery pass show a killed cycle,
  its orphan, the pass over it and the next cycle.  One of them seeds, and once,
  so that one published blocker (the kind that is taken over) is all it can find.
* Two attempts: a launch in progress and the one that does or does not see it,
  over every state that earlier ones may have left.
* Two launches and their watchdogs are two that overlap, or one and another that
  comes upon what it left; with the watchdog of the first, four processes write
  `owner-mode.json`.  Two files in shards of one or two are one run, or two runs.
  The theorems are for any number.
* Two cycles of two iterations: results of one iteration in the next, a killed
  loop's leftovers in the next cycle.  One slot for two provers makes one wait.
* Two calls collide or exceed a budget of one; a chain of two configs has a
  fallback.
* An interleaving of commands over the shared files involves the one that
  observes and the one that reads between its steps.  Four stamps are an
  archive, or an overview and a comparison, next to a collection.
* A prewarm of the run and one of the hub share packages through the link; the
  second launch comes upon what the first left; one prune judges each root once.
* A header swallows the next, so that two theorems and a helper show every
  coincidence; one edit changes a file and another the contract.
* `MaxCycles`, `MaxIterations` (of `Acceptance`), `MaxSessions`, `MaxExits`,
  `MaxResults`, `MaxLaunches`, `MaxWarmings`, `MaxPrunes`, `MaxCalls`, `MaxMoves`,
  `MaxStamps` and `MaxEdits` are bounds the code does not have.

`CHECK_DEADLOCK FALSE` is said of the runs whose processes come to an end or whose
bounds are used up: all but `owner_lease`, `acceptance`, `run_lease`, `run_status`
and `statement_fidelity`.  Processes that do not tell each other apart are
symmetric in `campaign_launch`, `helper_calls` and `campaign_reports`, which check
no liveness.

### Fairness

* `OwnerLease` assumes that time passes (`WF(Tick)`), nothing of any process.
* `Watchdog` assumes that time passes, that retry times come, and that the
  watchdog's loop keeps running (`WF(WatchdogStep)`): it is a loop around a sleep,
  every call in it returns, and an exception (`Fault`) ends it.  No session and no
  teacher is assumed to do anything.
* `RunLease` assumes that a cycle which is not killed makes its next write and
  ends it: `_monitor_for_idle_prover` is a loop around a sleep, and the write at
  its head is unconditional.  Nothing is assumed of the loop itself.
* `TeacherLaunch` assumes that time passes.
* `ArchonLoop` assumes that the script takes its next step, that a session which
  does not hang ends and one that hangs under a timeout is killed by it, and that
  the cycle goes on when its loop is gone.  Without a timeout command, or without
  limits given to the script, a plan that hangs is not ended by anybody, and
  `CycleEnds` fails.  Nothing is assumed of a readiness check that hangs:
  `CycleEnds` leaves it out, for the idle monitor is off while it lasts.
* `WarmCaches` assumes that Lake's commands end; the code has no timeout for them.

## 5. What is proved

TLAPS checks the following for every value of the constants; the assumptions
are the named `ASSUME`s of each module (finite non-empty sets, natural bounds,
a model value that is nobody).

`OwnerLease_proofs`
: `TypeCorrect`, `Exclusion`, `LastClaimStays`, `LeaseNamesOwner`, `LeaseTells`,
  `SessionsRecorded`, `Refinement`. Exclusion is not inductive: `ExclusiveInv` adds
  that the file of an engaged watchdog names it or is torn, and that it is torn
  while somebody writes; a second claim then either read something else than it
  overwrites, or met the torn file, and has raced. The theorems that hold through
  races rest on `ClaimInv`: an active lease is that of the last claimant, and what a
  refresh of the last claimant has read is its own lease or an inactive one.
  `SessionsRecorded` needs `SessionInv`, that a recorded session which is alive is
  the one its watchdog holds a handle on, and `RecordInv`, that until a race such a
  session is in the lease or in a torn one, and belongs to whoever is engaged: a
  claim that does not race then meets a live child and gives way.

`Acceptance_proofs`
: `TypeCorrect`, `NoDriftAccepted`, `FailureEvidence`, `OnGrounds`,
  `AcceptancesJournaled`, `PublicationAsVetted`, `LostForCause`.  The invariant
  `IInv` relates a job's kind and step (`JobShape`), a validation and the content it
  saw (`ValidationSeen`), the status and the event log (`StatusIsJournaled`,
  `ProofTargets`), the meta file and the only prover that can have written it
  (`FailureTrace`), and the copies a finalization has made and what it copied
  (`Undisturbed`).  `FailureTrace` is needed because a clean status speaks of all
  files of a cycle while the failure is that of one: the proof is that a recorded
  failure always has a sole objective.
  About `StatementFidelity`: `ContractCorrect` and `HeadersCorrect`.  The first rests
  on `AsksForSource`: until somebody rewrites it the contract asks for the object of
  the source, and a torn one can be derived again while the workspace has no
  declarations that would be taken for the source.  Of the second, only the types
  (`FidelityIInv`) are an invariant of the steps; the rest is true of any two files.
  `NextBelow` finds the declaration whose header is read next, and
  `ExtractedAreUncovered` that the uncovered declarations are closed under going on
  to it and contained in whatever is: the first that a closed set lacked would be
  the next of one it has.  `PassFinds` is that the greedy pass loses nothing: where
  s remains of t when items are left out, the pass is at item i no later than the
  place where s has it.  The names and the lists of hypotheses are arbitrary.

`Watchdog_proofs`
: `TypeCorrect`, `BarrenBounded`, `CooldownKept`, `LaunchesCapped`,
  `BudgetsAreKept`.  The budget rests on
  `RestartsCoverExits`: the restart count is at least the number of session ends
  since the campaign moved, but for the one that stops the watchdog, and a
  campaign that moved since the held fingerprint has none.  The second half is
  what makes a reset at a poll safe.  The cooldown rests on `CooldownOnLadder`:
  what is left of a cooldown is never more than the ladder's rung of the
  failures so far, and the ladder climbs.  The cap rests on `LaunchesFit`: the
  runs at work together with the launches of the batch up to any pick are at most
  `MaxActive`; it speaks of prefixes because the slots are counted once, and a
  candidate is measured against those before it.
  About `CampaignReports`: `ReportsInductive`, `LogCorrect`, `ReportsAreFresh`,
  `OverviewsTellAll`.  The invariant `ReportsIInv` says different things of different
  histories.  Unless a process was cut short, whatever overlaps, an acceptance that
  the status or a reader of it knows is in the log or owed to it by a process that
  has yet to append it (`Covered`): that is why nothing is lost of what has events, the
  proofs and the blockers.  Unless processes
  overlapped, one is at work alone and finds what it left (`Undisturbed`), so that no
  acceptance is logged twice.  With neither, what the log tells of a run ends in its
  status, or in the status before, which the changes to be appended lead on from
  (`Chain`).

`RunLease_proofs`
: `TypeCorrect`, `CycleExclusion`, `LoopExclusion`, `RecoveryStaysOff`,
  `InactiveLease`, `LeaseIsBelieved`, from one invariant in two parts.  `Always`
  holds whatever races: a lease names no cycle that has not written one and no
  loop that was not started, a followed loop has a fresh heartbeat, and what a
  check has found stays true until its cycle writes (`CheckStands`).  `Unraced`
  holds until a race: a writer is alone and its file torn, a cycle at work finds
  its own lease in the file, and an orphan is named by it.  The step that matters
  is `WriterIsAlone`: a write that hits the lease its writer knows meets no other
  cycle at work and no other loop, but those it overtakes.  It rests on
  `CheckStands`, for between check and claim anything may happen to the processes
  but not to the file.
  `RoutesKeepLease` shows that `HistoricalRoutes`, which goes on top, has no
  behaviour `RunLease` lacks, so that all of this holds of it too.  `RoutesCorrect`
  then needs `HInv`: the archive has a newest entry (`Ordered`), how far a cycle has
  come with its routes fits how far it has come with its lease (`Stepwise`), and
  the workspace holds what an undisturbed cycle has put there so far
  (`Undisturbed`), which says what the property does of the steps before a cycle is
  at work.

`TeacherLaunch_proofs`
: `TypeCorrect`, `Inductive`, `LaunchCorrect`, `WorkerIsSpared`.  `LaunchInv` says
  when a launcher is seen; it is not inductive, for it says nothing of what the one
  who does not see it will do.  `IInv` follows a launch from the judgement to its
  first cycle (`Pending`): until something was missed (`raced`) there is one such
  launch (`Alone`), the launch state is its own and newer than the lease, and is
  active as long as its script lives (`Written`).  Whoever judges the run idle
  meanwhile has missed it and sets `raced`.  That the cleanup spares a worker rests
  on `Unwritten`: the worker of a run reported idle is not the one that wrote the
  launch state last.

`RunStatus_proofs`
: `TypeCorrect`, `StatusCorrect`, `KeptOverResetCorrect`, `RecoverySettlesCorrect`.
  Types are inductive; the rest is about one report, or one step and the report
  after it.  `ExportedIsClosed` carries the reset: a faithful file whose exported
  payload is an acceptance is closed whatever the workspace says of it, and a file
  that is not drifted is faithful.  `ValidatedType` carries the recovery: a
  validated file never lacks a status, nor a reference to the note it has.

`CampaignLaunch_proofs`
: `EveryFilePlanned`, `Inductive`, `TypeCorrect`, `CampaignCorrect`,
  `ContractCorrect`, `ManifestIsKept`.  `EveryFilePlanned` is about the plan itself:
  each matched file is in a run of it, whatever the number of files and the size of
  the shards; that no file is in two is `WellPlanned`.  What makes `CampaignInv`
  inductive is `Makers`: one launch at most is past the making of run 1, and until
  then there is no manifest with runs, so that of launches which overlap all but
  one stop at the first directory they find.  `Watched` (one watchdog, on record or
  about to be) holds while launches come one by one and none is killed,
  `Contracted` (plan and manifest come from the spec) while the spec is not edited.
  `Owned` holds throughout: while a declaration stands, everybody who is about to
  write the file writes that, so that the leases claimed, refreshed and released
  meanwhile change nothing.
  About `WarmCaches`: `CachesInductive`, `CachesCorrect`, `CachesAreKept`.  `CachesIInv`
  says where anything can be at all (`Present`), that no run comes to its first agent
  without packages that have been warm (`Warmed`: the script's marker and its wait
  come in between), that a candidate of the prune which is at work came to it after
  the prune had looked (`Spared`), and that the checkout a prewarm is about to remove
  is still broken unless another prewarm met it there (`Broken`).

`ArchonLoop_proofs`
: `TypeCorrect`, `Inductive`, `LoopCorrect`, `RestsCorrect`.  `Phases` says where
  the loop can have provers and how many, `Merged` that there is no way to the
  archive of results but through a plan that merged them, `OnRecord` that from the
  first iteration on meta.json is that of the loop that runs, and `Rests` that a run
  whose surface has shown every target closed and none rejected has `COMPLETE` in
  `PROGRESS.md`, which the loop looks at before anything else.
  About `HelperCalls`: `CallsInductive`, `CallsCorrect`, `FailuresAreNotRepeated`.
  Notes go before the entries on them, in the index, in what has been read of it and
  in what is to be appended (`Noted`): that holds through collisions and kills.  The
  policy needs `Calm`, which ends with the first of them: the calls for a file and
  config are made one after the other, one caller appends at a time, every call made
  is in the index or about to be, and what the policy has cleared stays so until the
  call.  The proof showed that the interval between two calls is only kept where
  there is a cooldown: with a cooldown of 0 two calls fall into one second, and
  `PolicyKept` says so.

These proofs hold for any number of files, launches, cycles, callers, processes and
slots, so that the counters named in section 4 are bounds of the runs and not of
what is proved (each is an arbitrary natural number).

Induction on numbers is done with the lemma `Smallest`, that a set of natural
numbers which is not empty has a least one (from the well-foundedness of <): the
least counterexample of what is to be shown is looked at, and the one before it.

Every invariant and every action property that a run checks is stated by a theorem.
Only model-checked are the liveness properties (`AbandonedLeaseExpires`,
`QueuedIsLaunched`, `ClosedIsFinalized`, `LoopSeenAgain`, `AbandonedRunIsFreed`,
`CycleEnds`, `PrewarmEnds`), which are out of the prover's reach: they need fairness,
and with it ENABLED.

## 6. What is not modelled, and remarks

### Not modelled

* Lesson records and clusters, backup bundles, helper analysis and health, the
  campaign observer, operator surfaces, rendering of reports and progress files:
  they summarise what others wrote and nothing decides on them.
* The browser UI, installers, prompts and vendored Lean tools (`lean-lsp-mcp` and
  others) keep no campaign state.  They are a third of the source.
* A pid is never reused in the models.  In the code a reused pid makes a dead
  owner or teacher look live.
* `Acceptance` has one export, collection or finalization at a time;
  `CampaignReports` has collections that overlap.
* How errors are recognised in a prover's log and how a codex log is classified
  are text processing: their outcomes are nondeterministic choices here.
* Lake builds that provers start themselves; explicit `runSpecs`; the dry run; the
  order of the operator queue and the estimates of an overview; the review agent.
* `CampaignLaunch` takes `runIdPrefix` and `startIndex` for unchanged between two
  launches, so that two plans have the same run ids.  `ManifestKept` rests on that:
  two launches that overlap, with ids that have none in common, may both get to
  write a manifest.  `run_orchestrator` (line 164), which also declares itself the
  owner, and the flags beside the owner mode are left out.  `OwnerLease` leaves
  `owner-mode.json` to `CampaignLaunch`.
* `WarmCaches` has one file to verify or a build; the script takes several, each
  with retries of its own (`prewarm_project.py` 99-111).
* `Watchdog` takes no run that needs a relaunch or is unverified to have an active
  launch (`campaign.py` 1337, 1375), nor a teacher that hung to come back (1385).
* `RunLease` leaves out that a launch state ends the judgement before the files of
  the loop are looked at (`campaign.py` 1390); `RunStatus`, that a stray note is
  among the new task results (`supervised_cycle.py` 2115, 2215) and the exported
  notes of a drifted file (`campaign.py` 4338); `TeacherLaunch`, that `init.sh` may
  write `RUN_SCOPE.md` and then fail (279-301).  `ArchonLoop` reports a changed scope
  where there was no backup of it, too, as the script does.

### Where code and text disagree

* An exception or Ctrl-C while `launch_codex_session` waits for the session id
  leaves the new session running and releases the lease
  (`orchestrator_watchdog.py` 942), though a test asserts that an exception
  terminates it (`tests/test_orchestrator_watchdog.py` 1243).
* An unchanged file is accepted on a note of any kind by a clean cycle
  (`validation.py` 67), and the report lists a proof it has no file for;
  `skills/archon-orchestrator/SKILL.md` 40 wants exported proofs and blocker notes
  only.
* The export never takes back the proof of a file that was reverted to its source
  (`run_workspace.py` 308): a drifted proof exported before is published when the
  reverted file is accepted, against `skills/archon-supervisor/SKILL.md` 49.
* The subshell of a parallel prover ends in `|| true` (`archon-loop.sh` 592), so
  that its failure, which line 612 warns of, is recorded as done, and its
  unverified file accepted.
* A comment-only reset moves `RUN_SCOPE.md` away (`campaign.py` 4389): until the
  launch has initialised the run again, and for good if it fails, the run can be
  reported accepted although the reset file is open (`campaign.py` 1528), against
  `README.md` 296.
* `_extract_headers` (`supervisor.py` 69) does not look for `:=` on the first line
  of a declaration: a one-line header goes on to the next `:=` and hides the next
  theorem's header, whose drift then passes, against `docs/benchmarking.md` 82.
  `DriftsExact` exempts the headers that are covered so.
* Progress that ends with a session exit does not refund the restart budget
  (`orchestrator_watchdog.py` 1019), though the comment at 1067 speaks of progress.
* `execute_run_recovery` resolves its action again (`campaign.py` 4483): a run
  selected as free of a launch may be launched, past `--max-active-launches`, when
  another moved it in between.
* A plan that fails after it widened `RUN_SCOPE.md` falls back and runs provers,
  though `archon-loop.sh` 854 says otherwise.
* `maxCallsPerIteration` and `maxCallsPerSession` of a helper are configured and
  never enforced.

### Remarks on ownership and runs

* A conflict between two live watchdogs is not claimed to settle: each refresh
  overwrites the other's lease only while it reads its own or a torn one, and
  nothing forces the next reading.
* A watchdog that was ousted, or that raced at the claim, releases the lease its
  successor holds, for `release_owner_lease` does not look whose it is; the file
  then says that nobody runs the campaign until the successor's next refresh
  finds no conflict in it and writes it again.  `run_orchestrator` does not take
  the lease at all.
* A cycle killed between the start of its loop and the record of its pid
  (`supervised_cycle.py` 1424) leaves a loop that no lease names, and the next cycle
  starts another: `OneLoop` counts that among the races (`raced`).
* The exceptions in the properties of `RunLease` are reachable.  A recovery pass
  with `--skip-process-check` over a killed cycle whose loop lives on, once the
  heartbeat is old, erases the only record of that loop, and the next supervised
  cycle starts a second one on the same files.  A cycle that analyses longer than
  `heartbeat_seconds` is overtaken the same way, and validates beside its
  successor.
* A recovery pass started by hand on a run that is reported running skips every
  check; `RunLease` takes each pass to follow a status that calls the run idle, as
  the recommended recoveries do.
* Without `--prover-idle-seconds` (the teacher prompt of a campaign gives it) a cycle
  runs its loop with `subprocess.run`: no session of its own, no pid in the lease
  and no heartbeats.  `RunLease` models the monitored loop.
* `RecordedFailureNeedsEvidence` speaks of files the cycle changed.  With several
  files and more than one iteration, an unchanged file whose prover failed, with a
  note of no known kind, is accepted because another file of the cycle verified:
  the cycle as a whole is then called clean.
* A session that hangs while recoveries keep failing is not restarted: each stall
  recovery counts as progress of the watchdog's own (`progress_at`), and the
  silence of the owner is looked at only when there is nothing to recover.
  `ClosedIsFinalized` and `QueuedIsLaunched` do not depend on it.
* A live orphan loop whose heartbeat is old hides a launcher that boots beside it;
  the trap of a launch script that is sent SIGTERM records nothing; the text of a
  rate limit stays in the tail of `stderr`, and the recovery in its backoff class.
* A task result under a name that stands for no file keeps a run `unverified` for
  ever: hence the proviso of `RecoverySettles`.  The scope leaves comment-only
  files out whenever the project is in stage `prover`.

### Remarks on routes, loops and helpers

* A cycle that will find the run busy has by then wiped or replaced the routes of
  the cycle at work (`main` of `supervised_cycle.py`, 1934 before 1946).
* `reports/final` is never cleaned, so that a proof no longer accepted may seed
  later campaigns; candidates are ordered by the time of their file as copied,
  and a file is found by the end of its path, which another may share.  A blocker
  accepted in one campaign spreads to others without a validation of its own.
* The readiness check of the loop (`archon-loop.sh` 276) is a session without a time
  limit, run while the idle monitor has no prover to watch: if it hangs, so does the
  cycle.  A run whose files are all closed, some of them as rejected, shows as closed
  in `RUN_PROGRESS.json` and is planned and proved again in its next cycle.
* Only a single-file prover can be recorded as failed; `find -path "*/$f"` takes the
  first of several files; a killed iteration's meta stays `running`, for which the
  idle monitor may kill the next loop at its readiness check.  A run whose stage a
  plan set to `COMPLETE` without an accepted file stays there if it has one file.
* The helper index loses entries when two callers append at once, and all of them
  when one reads it torn; check and call are not one step, so that two callers
  pass the same budget.  Answers of a fallback do not count for the primary, and
  a malformed answer is not recorded.  `PolicyKept` and `FailureNotRepeated` are
  stated for calls that do not collide.

### Remarks on launches, reports and caches

* A file is exported before the status is collected and published after it
  (`campaign.py` 5135): a cycle at work meanwhile may have it published as it was not
  vetted, and `PublishedAsVetted` is stated for files nobody touches (`steady`).
* A watchdog that read `owner-mode.json` before another process declared itself, or
  while it was torn, writes its old or the default mode over the declaration, and
  refreshes keep that: a launch that ends well may leave the campaign the
  orchestrator's.  `OwnerOnRecord` is stated of declarations made while nobody is
  at the file.
* With a `matchRegex` beside `planShards`, or none, the contract counts nothing
  (`launch_contract.py` 89-91, 263): a spec that matches no file passes, and an empty
  campaign is watched.  So it is if the regex matches what the planner skips.
* A creation that is killed leaves a root that is not empty and has no manifest:
  later launches raise `FileExistsError`.  The contract is validated after the
  campaign is created, so that an empty campaign stays and a later launch may
  watch it; `preloadHistoricalRoutes` stays in the manifest when the spec is
  corrected.  `_matches_scope_count` counts Lean files below `.lake`.
* An empty plan on file makes later launches raise unless `--replan` is given, which
  rewrites the plan file but not the manifest.  The launcher whose watchdog gives
  way removes the pid file of the one that stays; a launcher killed before it
  writes the pid file leaves a watchdog nobody has on record.
* `refresh_campaign_launch_assets` rewrites `launch-teacher.sh` in place, though
  bash may be executing it.
* With collections that overlap, an acceptance may be logged twice, timelines break,
  and a report may pass for fresh that does not agree with the status: `LoggedOnce`,
  `ChangesChain` and `ReportsFresh` exempt them, `NothingLost` and
  `OverviewTellsAll` do not. A collection killed between the status and the log
  loses acceptance events for good (4287): `StatusIsJournaled` and
  `AcceptanceLostForCause` leave out what it had found. The percentage of progress
  rounds 99.5 to 100, and its total counts unverified files twice. It counts a note
  that no validation speaks of as well, though such a note never remains to be
  closed (1484-1506): a contaminated run that has one is complete by the estimate
  and not by the progress, and `OverviewTellsAll` exempts it. Nothing logs an
  accepted formalization (1850-1892), so that none is found in the log when the
  status is lost, and `NothingLost` speaks of proofs and blockers.
  `_recoverable_row_urgency` has keys no action has.
* A prune of the hub takes the packages from under live runs linked to them, for
  only the hub's own processes protect it, and retention advises it too.  The
  teacher between two cycles is invisible to a prune.  A run with `RUN_SCOPE.md`
  is relaunched on a pruned cache without a prewarm; the reuse of build outputs
  does not look whether packages are warm.  Prewarms that share packages may
  remove what the other repaired, or fail on what it removed.  A run is protected
  by substrings of paths (`teacher-1` by `teacher-10`), and what a broken prewarm
  left counts as safe to remove always.
* A theorem that was removed or renamed is passed over by the drift check; one by
  pattern matching has no `:=` of its own and may drift falsely.  A contract
  bundle makes its items required of every comment-only file; a contract rewritten
  without its `sourceKind` turns the check off; without a snapshot of the source
  only the stored contract remembers what was asked for.
