------------------------------ MODULE ArchonLoop ------------------------------
(***************************************************************************)
(* archon-loop.sh under the supervised cycle that starts it: every         *)
(* iteration plans and then runs provers, at most MaxParallel at a time,   *)
(* one for each objective of PROGRESS.md that RUN_SCOPE.md allows.  The    *)
(* cycle may tell the loop to skip its first plan, kills it when its       *)
(* provers idle, and writes PROGRESS.md anew when the validations close    *)
(* some of the files.                                                      *)
(*                                                                         *)
(* The plan agent and the provers are codex sessions: they write what they *)
(* like, end well or not, or hang until they are killed at their timeouts; *)
(* a plan that changes the scope is one that widens it to every file.      *)
(* What a cycle makes of its files is Validation's subject, and who else   *)
(* may run a loop RunLease's.  Stage "polish" is handled like "prover" and *)
(* left out, as are --serial, --stage and --dry-run, which no supervised   *)
(* cycle passes.  Files are ordered as sort -u does.                       *)
(***************************************************************************)
EXTENDS Naturals, FiniteSets

CONSTANTS
    NFiles, MaxParallel, MaxIterations,
    TimeoutInstalled,   \* whether there is a timeout command
    TimeoutsSet,        \* whether the cycle is given timeouts, as a teacher's is
    MaxCycles           \* bound: how often the cycle is run

ASSUME ArchonLoopAssumption ==
    /\ NFiles \in Nat \ {0} /\ MaxParallel \in Nat \ {0}
    /\ MaxIterations \in Nat \ {0} /\ MaxCycles \in Nat
    /\ {TimeoutInstalled, TimeoutsSet} \subseteq BOOLEAN

VARIABLES
    scope,         \* RUN_SCOPE.md: the allowed files, all of them if there are none
    progress,      \* PROGRESS.md: stage and objectives
    notes,         \* the live task results
    validation,    \* of each file: whether a cycle has judged it, and how
    meta,          \* meta.json of the latest iteration
    pc, round, skip,               \* of the loop
    allowed,                       \* what the cycle has read of the scope
    scopeBefore, progressBefore,   \* backups of the iteration, for its plan
    recovered,                     \* the plan has changed the planning files
    todo, prover,                  \* files without a prover yet, and the provers
    cycles,
    frozen,        \* runtime_overrides: the objectives a cycle without a scope starts with
    surface,       \* RUN_PROGRESS.json
    fresh, lost,   \* history: results no plan has merged, and those archived so
    settled        \* history: the last cycle to end found every file accepted

agenda == <<scope, progress, notes>>
loop   == <<round, skip, scopeBefore, progressBefore, recovered>>
shown  == <<frozen, surface>>
vars   == <<agenda, validation, meta, pc, loop, allowed, todo, prover, cycles, shown,
            fresh, lost, settled>>

Files  == 1 .. NFiles
Stages == {"autoformalize", "prover", "COMPLETE"}

NoProgress == [stage |-> "autoformalize", objectives |-> {}]
NoProvers == [f \in Files |-> "none"]
NoMeta    == [plan |-> "none", prover |-> "none", provers |-> NoProvers]
NoSurface == [status |-> "none", targets |-> {}, closed |-> {}, rejected |-> {}]

Running == {f \in Files : prover[f] \in {"running", "hung"}}

-----------------------------------------------------------------------------
(* What the loop reads.                                                    *)

\* parse_objective_files.
InScope(objectives) == IF scope = {} THEN objectives ELSE objectives \cap scope
Objectives == InScope(progress.objectives)

HasLiveTaskResults == notes # {}

\* $STAGE is that of the start of the iteration.
Stage == progressBefore.stage

CanFallbackToExistingObjectives ==
    Stage = "prover" /\ ~ HasLiveTaskResults /\ Objectives # {}

CanFallbackToRecoveredObjective ==
    /\ Stage = "autoformalize" /\ ~ HasLiveTaskResults /\ recovered
    /\ Objectives # {}

-----------------------------------------------------------------------------
Init ==
    /\ scope \in SUBSET Files
    /\ progress \in [stage : Stages \ {"COMPLETE"}, objectives : {scope}]
    /\ notes = {} /\ fresh = {} /\ lost = {}
    /\ validation = [f \in Files |-> "absent"]
    /\ meta = NoMeta
    /\ pc = "idle" /\ allowed = {}
    /\ round = 0 /\ skip = FALSE /\ recovered = FALSE
    /\ scopeBefore = {} /\ progressBefore = NoProgress
    /\ todo = {} /\ prover = NoProvers
    /\ cycles = 0 /\ settled = FALSE
    /\ frozen = {} /\ surface = NoSurface

-----------------------------------------------------------------------------
(* The cycle around the loop.                                              *)

\* _archive_stale_accepted_task_results: of accepted files that are no
\* objectives any more.
StaleNotes(objectives) ==
    IF objectives = {} THEN {}
    ELSE {f \in notes : validation[f] = "accepted" /\ f \notin objectives}

\* read_allowed_files, once for the cycle.
AllowedFiles == scope

\* The objectives as the cycle reads them, the scope standing in for none.
ObjectiveFiles ==
    LET objectives == IF allowed' = {} THEN progress.objectives
                      ELSE progress.objectives \cap allowed'
    IN  IF objectives = {} THEN allowed' ELSE objectives

\* _detect_known_route_fast_path: the route of every objective may be known.
RoutesMayBeKnown == ObjectiveFiles # {} /\ ~ HasLiveTaskResults

\* _scope_targets: what the cycle is after, for lack of a scope or objectives
\* the files it finds changed or validated.
ScopeTargets(within, objectives, changed, v) ==
    IF within # {} THEN within
    ELSE IF objectives # {} THEN objectives
    ELSE IF changed # {} THEN changed
    ELSE {f \in Files : v[f] # "absent"}

\* _validation_target_counts.
RejectedTargets(targets, v) == {f \in targets : v[f] = "rejected"}

\* A rejected target is closed here, and open for the planner.
ClosedTargets(targets, v) == {f \in targets : v[f] \in {"accepted", "rejected"}}

\* _build_run_progress_payload.
ProgressSurface(status, targets, v) ==
    [status |-> status, targets |-> targets, closed |-> ClosedTargets(targets, v),
     rejected |-> RejectedTargets(targets, v)]

\* Then the first plan is skipped.
BeginCycle(known) ==
    /\ pc = "idle" /\ cycles < MaxCycles
    /\ cycles' = cycles + 1
    /\ allowed' = AllowedFiles
    /\ known => RoutesMayBeKnown
    /\ skip' = known
    /\ frozen' = IF allowed' = {} THEN ObjectiveFiles ELSE {}
    /\ \E changed \in SUBSET Files :
          surface' = ProgressSurface("running",
                         ScopeTargets(allowed', frozen', changed, validation), validation)
    /\ notes' = notes \ StaleNotes(ObjectiveFiles)
    /\ fresh' = fresh \ StaleNotes(ObjectiveFiles)
    /\ pc' = "preflight" /\ round' = 0
    /\ UNCHANGED <<scope, progress, validation, meta, scopeBefore, progressBefore,
                   recovered, todo, prover, lost, settled>>

\* _emit_live_progress_surface, as often as the monitor finds activity.
EmitLive ==
    /\ pc \notin {"idle", "analyse"}
    /\ \E changed \in SUBSET Files :
          surface' = ProgressSurface("running",
                         ScopeTargets(allowed, frozen, changed, validation), validation)
    /\ UNCHANGED <<agenda, validation, meta, pc, loop, allowed, todo, prover, cycles,
                   frozen,
                   fresh, lost, settled>>

\* The process group of the loop is gone, and with it what the script had.
LoopGone ==
    /\ todo' = {} /\ prover' = NoProvers
    /\ round' = 0 /\ skip' = FALSE /\ recovered' = FALSE
    /\ scopeBefore' = {} /\ progressBefore' = NoProgress

\* _monitor_for_idle_prover goes by the meta of the latest iteration.
IdleKill ==
    /\ pc \notin {"idle", "analyse"}
    /\ meta.prover = "running"
    /\ pc' = "analyse" /\ LoopGone
    /\ UNCHANGED <<agenda, validation, meta, allowed, cycles, shown, fresh, lost,
                   settled>>

\* The cycle is killed, and its loop with it.
Crash ==
    /\ pc # "idle"
    /\ pc' = "idle" /\ LoopGone /\ frozen' = {}
    /\ UNCHANGED <<agenda, validation, meta, allowed, cycles, surface, fresh, lost,
                   settled>>

Accepted(v) == {f \in allowed : v[f] = "accepted"}

\* Mutant: only the files that are left over are looked at.
SyncFocusedOnly(v) ==
    IF /\ \A f \in allowed : v[f] # "absent"
       /\ Accepted(v) # {} /\ Accepted(v) # allowed
    THEN [stage |-> "prover", objectives |-> allowed \ Accepted(v)]
    ELSE progress

\* _sync_terminal_planner_state and _sync_focused_planner_state.
Sync(v) ==
    IF allowed # {} /\ Accepted(v) = allowed
    THEN [stage |-> "COMPLETE", objectives |-> allowed]
    ELSE IF /\ \A f \in allowed : v[f] # "absent"
            /\ Accepted(v) # {}
    THEN [stage |-> "prover", objectives |-> allowed \ Accepted(v)]
    ELSE progress

\* The files of the scope are validated, and PROGRESS.md and RUN_PROGRESS.json
\* follow.
EndCycle ==
    /\ pc = "analyse"
    /\ \E verdict \in [Files -> {"open", "accepted", "rejected"}], changed \in SUBSET Files :
          /\ validation' = [f \in Files |-> IF f \in allowed \/ allowed = {}
                                            THEN verdict[f] ELSE validation[f]]
          /\ surface' = ProgressSurface("ended",
                            ScopeTargets(allowed, frozen, changed, validation'), validation')
    /\ frozen' = {}
    /\ progress' = Sync(validation')
    /\ settled' = (allowed # {} /\ \A f \in allowed : validation'[f] = "accepted")
    /\ pc' = "idle" /\ LoopGone
    /\ UNCHANGED <<scope, notes, meta, allowed, cycles, fresh, lost>>

-----------------------------------------------------------------------------
(* The loop, up to the provers.                                            *)

\* wrap_command_with_timeout: without a timeout, or a command to keep it,
\* sessions run unguarded.
Guarded == TimeoutInstalled /\ TimeoutsSet

\* Mutant: the time limit is not passed on to a session.
SessionEndsByItself(hung) == IF hung THEN {} ELSE {"done", "error"}

\* run_codex: how a session may end.  One that hangs is ended by the timeout,
\* whose exit status is an error like any other.
SessionEnds(hung) ==
    IF ~ hung THEN {"done", "error"} ELSE IF Guarded THEN {"error"} ELSE {}

\* check_codex_ready runs a session that nothing guards, and no provers run by
\* which the monitor could tell: if it hangs, so does the cycle.
PreflightHangs ==
    /\ pc = "preflight"
    /\ pc' = "preflight_hung"
    /\ UNCHANGED <<agenda, validation, meta, loop, allowed, todo, prover, cycles, shown,
                   fresh, lost, settled>>

\* If it does not: the verdict of the last try, and the COMPLETE check.
Preflight(ready) ==
    /\ pc = "preflight"
    /\ pc' = IF ready /\ progress.stage # "COMPLETE" THEN "iterate" ELSE "analyse"
    /\ UNCHANGED <<agenda, validation, meta, loop, allowed, todo, prover, cycles, shown,
                   fresh, lost, settled>>

\* The for loop, and its COMPLETE check.
RoundsLeft == round < MaxIterations

\* The next iteration: a new directory, and backups of the planning files.
BeginIteration ==
    /\ pc = "iterate"
    /\ IF RoundsLeft /\ progress.stage # "COMPLETE"
       THEN /\ pc' = "plan" /\ round' = round + 1
            /\ meta' = [NoMeta EXCEPT !.plan = "running"]
            /\ scopeBefore' = scope /\ progressBefore' = progress
       ELSE /\ pc' = "analyse"
            /\ UNCHANGED <<round, meta, scopeBefore, progressBefore>>
    /\ UNCHANGED <<agenda, validation, skip, recovered, allowed, todo, prover, cycles,
                   shown, fresh, lost, settled>>

\* The first plan is skipped where its objectives can be reused.
SkipPlan ==
    /\ pc = "plan" /\ skip /\ round = 1 /\ CanFallbackToExistingObjectives
    /\ pc' = "gate"
    /\ meta' = [meta EXCEPT !.plan = "skipped_fast_path"]
    /\ UNCHANGED <<agenda, validation, loop, allowed, todo, prover, cycles, shown,
                   fresh, lost, settled>>

\* A session that hangs: the loop waits for it.
PlanHangs ==
    /\ pc = "plan" /\ ~ (skip /\ round = 1 /\ CanFallbackToExistingObjectives)
    /\ pc' = "plan_hung"
    /\ UNCHANGED <<agenda, validation, meta, loop, allowed, todo, prover, cycles, shown,
                   fresh, lost, settled>>

\* A scope that was not there before the plan has no backup to differ from.
ScopeChanged == scopeBefore # {} /\ scope' # scopeBefore

\* The plan agent writes the planning files, and if it ends well it has merged
\* the results.  The scope is not its to write: a change stops an iteration
\* whose plan is done.  pending: it has written task_pending.md.
Plan(status, pending) ==
    /\ \/ pc = "plan" /\ ~ (skip /\ round = 1 /\ CanFallbackToExistingObjectives)
       \/ pc = "plan_hung"
    /\ status \in SessionEnds(pc = "plan_hung")
    /\ pc' = "gate"
    /\ progress' \in [stage : Stages, objectives : SUBSET Files]
    /\ scope' \in {scope, Files}
    /\ IF status = "done" THEN notes' \in {notes, {}} /\ fresh' = {}
       ELSE UNCHANGED <<notes, fresh>>
    /\ recovered' = (pending \/ progress' # progressBefore)
    /\ meta' = [meta EXCEPT !.plan =
                   IF status = "done" /\ ScopeChanged THEN "scope_changed" ELSE status]
    /\ UNCHANGED <<validation, round, skip, scopeBefore, progressBefore, allowed, todo,
                   prover, cycles, shown, lost, settled>>

\* Whether the iteration goes on to its provers.  Nobody looks at its backups
\* from here on.
Gate ==
    LET plan == IF meta.plan = "error"
                THEN IF CanFallbackToExistingObjectives THEN "fallback"
                     ELSE IF CanFallbackToRecoveredObjective
                          THEN "fallback_recovered_autoformalize"
                     ELSE "error"
                ELSE meta.plan
    IN  /\ pc = "gate"
        /\ meta' = [meta EXCEPT !.plan = plan]
        /\ pc' = IF plan \in {"error", "scope_changed"} \/ progress.stage = "COMPLETE"
                 THEN "analyse" ELSE "collect"
        /\ scopeBefore' = {} /\ progressBefore' = NoProgress /\ recovered' = FALSE
        /\ UNCHANGED <<agenda, validation, round, skip, allowed, todo, prover, cycles,
                       shown, fresh, lost, settled>>

-----------------------------------------------------------------------------
(* run_parallel_provers.                                                   *)

\* The live results are archived, and the objectives read.
Collect ==
    /\ pc = "collect"
    /\ lost' = lost \cup fresh
    /\ notes' = {} /\ fresh' = {}
    /\ todo' = Objectives
    /\ pc' = IF Cardinality(Objectives) = 1 THEN "serial" ELSE "provers"
    /\ meta' = [meta EXCEPT !.prover = "running"]
    /\ UNCHANGED <<scope, progress, validation, loop, allowed, prover, cycles, shown,
                   settled>>

\* wait -n, and a recount of the pids.
SlotFree == Cardinality(Running) < MaxParallel

\* The only file of an iteration does not wait for a slot.
Launch ==
    /\ pc \in {"serial", "provers"} /\ todo # {}
    /\ pc = "serial" \/ SlotFree
    /\ \E f \in todo :
          /\ \A g \in todo : f <= g
          /\ todo' = todo \ {f}
          /\ prover' = [prover EXCEPT ![f] = "running"]
          /\ meta' = [meta EXCEPT !.provers[f] = "running"]
    /\ UNCHANGED <<agenda, validation, pc, loop, allowed, cycles, shown, fresh, lost,
                   settled>>

ProverHangs(f) ==
    /\ prover[f] = "running"
    /\ prover' = [prover EXCEPT ![f] = "hung"]
    /\ UNCHANGED <<agenda, validation, meta, pc, loop, allowed, todo, cycles, shown,
                   fresh, lost, settled>>

\* A prover may leave a result, however it ends.
ProverEnds(f, status, result) ==
    /\ f \in Running
    /\ status \in SessionEnds(prover[f] = "hung")
    /\ prover' = [prover EXCEPT ![f] = IF status = "done" THEN "ended" ELSE "failed"]
    /\ notes' = IF result THEN notes \cup {f} ELSE notes
    /\ fresh' = IF result THEN fresh \cup {f} ELSE fresh
    /\ UNCHANGED <<scope, progress, validation, meta, pc, loop, allowed, todo, cycles,
                   shown, lost, settled>>

\* The subshell of a parallel prover ends well even if the prover does not:
\* only a single one can be reported failed.
ExitStatus(f) == IF pc = "serial" /\ prover[f] = "failed" THEN "error" ELSE "done"

\* Mutant: a prover that is still running is reported, and again once it ends.
ReportNow ==
    /\ todo = {}
    /\ \E f \in Files :
          /\ prover[f] # "none"
          /\ meta' = [meta EXCEPT !.provers[f] = "done"]
          /\ prover' = [prover EXCEPT ![f] = IF f \in Running THEN @ ELSE "none"]
    /\ UNCHANGED <<agenda, validation, pc, loop, allowed, todo, cycles, shown, fresh,
                   lost, settled>>

\* wait, in the order of the launches.
Report ==
    /\ todo = {}
    /\ \E f \in Files :
          /\ prover[f] \in {"ended", "failed"}
          /\ \A g \in Files : prover[g] # "none" => f <= g
          /\ meta' = [meta EXCEPT !.provers[f] = ExitStatus(f)]
          /\ prover' = [prover EXCEPT ![f] = "none"]
    /\ UNCHANGED <<agenda, validation, pc, loop, allowed, todo, cycles, shown, fresh,
                   lost, settled>>

\* The phase is over when every prover has been reported, if there were any.
\* The review that may follow writes its own journal.
EndIteration ==
    /\ pc \in {"serial", "provers"}
    /\ todo = {} /\ prover = NoProvers
    /\ meta' = [meta EXCEPT !.prover = "done"]
    /\ pc' = "iterate"
    /\ UNCHANGED <<agenda, validation, loop, allowed, todo, prover, cycles, shown,
                   fresh, lost, settled>>

-----------------------------------------------------------------------------
PlanStep   == \/ SkipPlan
              \/ \E status \in {"done", "error"}, pending \in BOOLEAN : Plan(status, pending)
LoopStep   == \/ \E ready \in BOOLEAN : Preflight(ready)
              \/ BeginIteration \/ PlanStep \/ Gate
              \/ Collect \/ Launch \/ Report \/ EndIteration
ProverStep == \E f \in Files, status \in {"done", "error"}, result \in BOOLEAN :
                  ProverEnds(f, status, result)

Next == \/ \E known \in BOOLEAN : BeginCycle(known)
        \/ EmitLive \/ LoopStep \/ ProverStep \/ IdleKill \/ EndCycle \/ Crash
        \/ PreflightHangs \/ PlanHangs \/ \E f \in Files : ProverHangs(f)

Spec == Init /\ [][Next]_vars

\* The script and the cycle go on, a codex session ends if it does not hang,
\* and the timeout command ends one that plans or proves if it does.  That the
\* idle monitor kills a loop is not counted upon: it is off while a loop plans.
FairSpec == Spec /\ WF_vars(LoopStep) /\ WF_vars(ProverStep) /\ WF_vars(EndCycle)

-----------------------------------------------------------------------------
(* What RUN_PROGRESS shows of the loop, besides.                           *)

\* _infer_live_phase, of the latest meta.json; reviews are left out.
LivePhase ==
    IF meta.plan = "running" THEN "planning"
    ELSE IF meta.prover = "running" THEN "proving" ELSE "loop_running"

\* _active_prover_rows.
ActiveProvers == {f \in Files : meta.provers[f] = "running"}

\* _build_live_runtime_payload.
LiveRuntime == [phase |-> LivePhase, active |-> ActiveProvers]

-----------------------------------------------------------------------------
\* Every variable has the values the code gives it.
TypeOK ==
    /\ scope \subseteq Files /\ allowed \subseteq Files /\ scopeBefore \subseteq Files
    /\ {progress, progressBefore} \subseteq [stage : Stages, objectives : SUBSET Files]
    /\ notes \subseteq Files /\ fresh \subseteq notes /\ lost \subseteq Files
    /\ validation \in [Files -> {"absent", "open", "accepted", "rejected"}]
    /\ frozen \subseteq Files
    /\ surface \in [status : {"none", "running", "ended"}, targets : SUBSET Files,
                    closed : SUBSET Files, rejected : SUBSET Files]
    /\ meta \in [plan : {"none", "running", "done", "error", "scope_changed", "fallback",
                         "skipped_fast_path", "fallback_recovered_autoformalize"},
                 prover : {"none", "running", "done"},
                 provers : [Files -> {"none", "running", "done", "error"}]]
    /\ pc \in {"idle", "preflight", "preflight_hung", "iterate", "plan", "plan_hung", "gate",
               "collect", "serial", "provers", "analyse"}
    /\ round \in 0 .. MaxIterations /\ cycles \in 0 .. MaxCycles
    /\ skip \in BOOLEAN /\ recovered \in BOOLEAN /\ settled \in BOOLEAN
    /\ todo \subseteq Files
    /\ prover \in [Files -> {"none", "running", "hung", "ended", "failed"}]

\* Provers start on archived results: no result is archived before a plan that
\* ended well has merged it, over failed and skipped plans, kills and crashes.
ResultsMerged == lost = {}

\* No more provers run than the loop may start, and what meta.json, by which
\* the monitor and the next cycle go, says to be over is over.
ProversOnRecord ==
    /\ Cardinality(Running) <= MaxParallel
    /\ \A f \in Running : meta.prover = "running" /\ meta.provers[f] = "running"

\* Once a cycle has found every file of its scope accepted the run rests: until
\* a cycle finds otherwise no prover is started, however often cycles are run.
AcceptedRunRests == settled => Running = {}

\* A loop comes to an end, and the cycle that runs it, whatever sessions of the
\* plan agent and of the provers hang; the readiness check alone can stop it.
CycleEnds == pc # "idle" ~> pc \in {"idle", "preflight_hung"}

\* While a loop iterates RUN_PROGRESS shows what it is at, and as active the
\* provers it has started and not reported; a cycle that has ended showing every
\* file of a scope closed, and none rejected, has left a planner that rests.
ProgressTold ==
    /\ round > 0 /\ pc \notin {"idle", "analyse"}
       => /\ LiveRuntime.active = {f \in Files : prover[f] # "none"}
          /\ LiveRuntime.phase = "planning" <=> pc \in {"plan", "plan_hung"}
          /\ LiveRuntime.phase = "proving" <=> pc \in {"serial", "provers"}
    /\ /\ surface.status = "ended" /\ allowed # {}
       /\ surface.closed = surface.targets /\ surface.rejected = {}
       => progress.stage = "COMPLETE"

\* What a loop has on record of its provers and their results.
LoopInv == TypeOK /\ ResultsMerged /\ ProversOnRecord /\ ProgressTold

=============================================================================
