-------------------------- MODULE ArchonLoop_proofs --------------------------
(***************************************************************************)
(* Proofs about the plan/prover loop for any number of files, slots,       *)
(* iterations and cycles, and with or without timeouts kept: what it       *)
(* has on record of its provers and their results, what RUN_PROGRESS shows *)
(* of it, and that a run with nothing left to do starts no prover.         *)
(*                                                                         *)
(* TypeOK leaves four things open: which places of the loop have provers   *)
(* (Phases), why a plan that did not end well leads to no archived result  *)
(* (Merged), what keeps an accepted run at rest (Rests), and that the meta *)
(* of an iteration is that of the loop that goes through it (OnRecord).    *)
(*                                                                         *)
(* The last part is about HelperCalls: the calls for help that the plan    *)
(* agent and the provers of the loop make.                                 *)
(***************************************************************************)
EXTENDS ArchonLoop, HelperCalls, FiniteSetTheorems, SequenceTheorems, TLAPS

USE DEF agenda, loop, shown, vars, NoProgress, NoProvers, NoMeta, NoSurface, Stages

Launched == {f \in Files : prover[f] # "none"}

\* Provers, and files that wait for one, are those of the prover phase; a
\* single file has one of the two; and who runs is in meta.json.
Phases ==
    /\ pc \in {"preflight", "preflight_hung"} => round = 0
    /\ pc \notin {"serial", "provers"} => todo = {} /\ prover = NoProvers
    /\ pc \in {"serial", "provers"} => meta.prover = "running"
    /\ pc = "serial" => \A f, g \in todo \cup Launched : f = g
    /\ \A f \in Launched : meta.provers[f] = "running"
    /\ Cardinality(Running) <= MaxParallel

\* Until the plan has merged the results there is no way to the archive.
Merged ==
    /\ lost = {}
    /\ pc = "gate" /\ meta.plan # "error" => fresh = {}
    /\ pc = "collect" => fresh = {}

\* PROGRESS.md is COMPLETE, and the loop looks at it before anything else.
Rests ==
    /\ settled => /\ progress.stage = "COMPLETE"
                  /\ pc \in {"idle", "preflight", "preflight_hung", "analyse"}
    /\ pc # "idle" => surface.status = "running"
    /\ /\ surface.status = "ended" /\ allowed # {}
       /\ surface.closed = surface.targets /\ surface.rejected = {}
       => progress.stage = "COMPLETE"

\* A meta.json left behind is read no later than the first iteration begins.
OnRecord ==
    round > 0 /\ pc \notin {"idle", "analyse"}
    => /\ \A f \in Files : meta.provers[f] = "running" <=> prover[f] # "none"
       /\ meta.plan = "running" <=> pc \in {"plan", "plan_hung"}
       /\ meta.prover = "running" <=> pc \in {"serial", "provers"}

IInv == TypeOK /\ Phases /\ Merged /\ Rests /\ OnRecord

-----------------------------------------------------------------------------
(* The variables have their types.                                         *)

(* The process group that is gone leaves variables of their types.         *)
LEMMA GoneTyped ==
  ASSUME LoopGone
  PROVE  /\ todo' \subseteq Files /\ scopeBefore' \subseteq Files
         /\ prover' \in [Files -> {"none", "running", "hung", "ended", "failed"}]
         /\ progressBefore' \in [stage : Stages, objectives : SUBSET Files]
         /\ round' \in 0 .. MaxIterations /\ skip' \in BOOLEAN /\ recovered' \in BOOLEAN
<1>1. round' \in 0 .. MaxIterations
  BY ArchonLoopAssumption DEF LoopGone
<1> QED BY <1>1 DEF LoopGone

(* The surface of any files has the type of RUN_PROGRESS.                  *)
LEMMA SurfaceTyped ==
  ASSUME NEW status \in {"running", "ended"}, NEW within \in SUBSET Files,
         NEW objectives \in SUBSET Files, NEW changed \in SUBSET Files, NEW v
  PROVE  ProgressSurface(status, ScopeTargets(within, objectives, changed, v), v)
            \in [status : {"none", "running", "ended"}, targets : SUBSET Files,
                 closed : SUBSET Files, rejected : SUBSET Files]
BY DEF ProgressSurface, ScopeTargets, ClosedTargets, RejectedTargets

(* Every variable of the loop keeps the values the code gives it.          *)
THEOREM TypeCorrect == Spec => []TypeOK
<1>1. Init => TypeOK
  <2> SUFFICES ASSUME Init PROVE TypeOK
    OBVIOUS
  <2>1. round \in 0 .. MaxIterations /\ cycles \in 0 .. MaxCycles
    BY ArchonLoopAssumption DEF Init
  <2>2. progress \in [stage : Stages, objectives : SUBSET Files]
    BY DEF Init
  <2>3. progressBefore \in [stage : Stages, objectives : SUBSET Files]
    BY DEF Init
  <2>4. validation \in [Files -> {"absent", "open", "accepted", "rejected"}]
        /\ prover \in [Files -> {"none", "running", "hung", "ended", "failed"}]
    BY DEF Init
  <2>5. skip \in BOOLEAN /\ recovered \in BOOLEAN /\ settled \in BOOLEAN
    BY DEF Init
  <2>6. scope \subseteq Files /\ scopeBefore \subseteq Files /\ frozen \subseteq Files
    BY DEF Init
  <2> QED BY <2>1, <2>2, <2>3, <2>4, <2>5, <2>6 DEF Init, TypeOK
<1>2. TypeOK /\ [Next]_vars => TypeOK'
  <2> SUFFICES ASSUME TypeOK, [Next]_vars PROVE TypeOK'
    OBVIOUS
  <2> USE ArchonLoopAssumption DEF TypeOK
  <2>1. ASSUME NEW known \in BOOLEAN, BeginCycle(known) PROVE TypeOK'
    <3>1. ObjectiveFiles \subseteq Files
      BY <2>1 DEF BeginCycle, AllowedFiles, ObjectiveFiles
    <3>2. frozen' \subseteq Files
      BY <2>1, <3>1 DEF BeginCycle
    <3>3. surface' \in [status : {"none", "running", "ended"}, targets : SUBSET Files,
                        closed : SUBSET Files, rejected : SUBSET Files]
      <4>1. allowed' \in SUBSET Files /\ frozen' \in SUBSET Files
        BY <2>1, <3>2 DEF BeginCycle, AllowedFiles
      <4>2. PICK changed \in SUBSET Files : surface' = ProgressSurface("running",
                ScopeTargets(allowed', frozen', changed, validation), validation)
        BY <2>1 DEF BeginCycle
      <4> QED BY <4>1, <4>2, SurfaceTyped
    <3>4. notes' \subseteq Files /\ fresh' \subseteq notes'
      BY <2>1 DEF BeginCycle
    <3> QED BY <2>1, <3>2, <3>3, <3>4 DEF BeginCycle, AllowedFiles
  <2>2. CASE EmitLive
    <3>1. PICK changed \in SUBSET Files : surface' = ProgressSurface("running",
              ScopeTargets(allowed, frozen, changed, validation), validation)
      BY <2>2 DEF EmitLive
    <3>2. surface' \in [status : {"none", "running", "ended"}, targets : SUBSET Files,
                        closed : SUBSET Files, rejected : SUBSET Files]
      BY <3>1, SurfaceTyped
    <3> QED BY <2>2, <3>2 DEF EmitLive
  <2>3. CASE IdleKill
    BY <2>3, GoneTyped DEF IdleKill
  <2>4. CASE Crash
    BY <2>4, GoneTyped DEF Crash
  <2>5. CASE EndCycle
    <3>1. PICK verdict \in [Files -> {"open", "accepted", "rejected"}],
               changed \in SUBSET Files :
            /\ validation' = [f \in Files |-> IF f \in allowed \/ allowed = {}
                                              THEN verdict[f] ELSE validation[f]]
            /\ surface' = ProgressSurface("ended",
                              ScopeTargets(allowed, frozen, changed, validation'), validation')
      BY <2>5 DEF EndCycle
    <3>2. validation' \in [Files -> {"absent", "open", "accepted", "rejected"}]
      BY <3>1
    <3>3. surface' \in [status : {"none", "running", "ended"}, targets : SUBSET Files,
                        closed : SUBSET Files, rejected : SUBSET Files]
      BY <3>1, SurfaceTyped
    <3>4. progress' \in [stage : Stages, objectives : SUBSET Files]
      BY <2>5 DEF EndCycle, Sync
    <3> QED BY <2>5, <3>2, <3>3, <3>4, GoneTyped DEF EndCycle
  <2>6. ASSUME NEW ready \in BOOLEAN, Preflight(ready) PROVE TypeOK'
    BY <2>6 DEF Preflight
  <2>7. CASE BeginIteration
    <3>1. round' \in 0 .. MaxIterations
      BY <2>7 DEF BeginIteration, RoundsLeft
    <3>2. scopeBefore' \subseteq Files /\ {progress', progressBefore'} \subseteq
             [stage : Stages, objectives : SUBSET Files]
      BY <2>7 DEF BeginIteration
    <3>3. recovered' \in BOOLEAN
      BY <2>7 DEF BeginIteration
    <3>4. meta' \in [plan : {"none", "running", "done", "error", "scope_changed", "fallback",
                             "skipped_fast_path", "fallback_recovered_autoformalize"},
                     prover : {"none", "running", "done"},
                     provers : [Files -> {"none", "running", "done", "error"}]]
      BY <2>7 DEF BeginIteration
    <3> QED BY <2>7, <3>1, <3>2, <3>3, <3>4 DEF BeginIteration
  <2>8. CASE SkipPlan
    BY <2>8 DEF SkipPlan
  <2>9. ASSUME NEW status \in {"done", "error"}, NEW pending \in BOOLEAN,
               Plan(status, pending)
        PROVE  TypeOK'
    BY <2>9 DEF Plan
  <2>10. CASE Gate
    <3>1. meta' \in [plan : {"none", "running", "done", "error", "scope_changed", "fallback",
                             "skipped_fast_path", "fallback_recovered_autoformalize"},
                     prover : {"none", "running", "done"},
                     provers : [Files -> {"none", "running", "done", "error"}]]
      BY <2>10 DEF Gate
    <3>2. /\ scopeBefore' \subseteq Files /\ recovered' \in BOOLEAN
          /\ progressBefore' \in [stage : Stages, objectives : SUBSET Files]
      BY <2>10 DEF Gate, NoProgress, Stages
    <3>3. pc' \in {"analyse", "collect"}
      BY <2>10 DEF Gate
    <3>4. UNCHANGED <<scope, notes, progress, validation, surface, allowed, frozen, round,
                      skip, todo, prover, cycles, fresh, lost, settled>>
      BY <2>10 DEF Gate, agenda, loop, shown
    <3> QED BY <3>1, <3>2, <3>3, <3>4
  <2>11. CASE Collect
    BY <2>11 DEF Collect, Objectives, InScope
  <2>12. CASE Launch
    BY <2>12 DEF Launch
  <2>13. CASE Report
    BY <2>13 DEF Report, ExitStatus
  <2>14. CASE EndIteration
    BY <2>14 DEF EndIteration
  <2>15. ASSUME NEW f \in Files, NEW status \in {"done", "error"}, NEW result \in BOOLEAN,
                ProverEnds(f, status, result)
         PROVE  TypeOK'
    BY <2>15 DEF ProverEnds
  <2>16. CASE PlanHangs \/ PreflightHangs
    BY <2>16 DEF PlanHangs, PreflightHangs
  <2>17. ASSUME NEW f \in Files, ProverHangs(f) PROVE TypeOK'
    BY <2>17 DEF ProverHangs
  <2>18. CASE UNCHANGED vars
    BY <2>18
  <2> QED BY <2>1, <2>2, <2>3, <2>4, <2>5, <2>6, <2>7, <2>8, <2>9, <2>10, <2>11, <2>12,
             <2>13, <2>14, <2>15, <2>16, <2>17, <2>18
          DEF Next, LoopStep, PlanStep, ProverStep
<1> QED BY <1>1, <1>2, PTL DEF Spec

-----------------------------------------------------------------------------
(* The phases of the loop, and who runs in them.                           *)

(* There are finitely many provers.                                        *)
LEMMA RunningFinite == IsFiniteSet(Files) /\ \A S \in SUBSET Files : IsFiniteSet(S)
<1>1. 1 \in Int /\ NFiles \in Int
  BY ArchonLoopAssumption
<1>2. IsFiniteSet(Files)
  BY <1>1, FS_Interval DEF Files
<1> QED BY <1>2, FS_Subset

(* Fewer provers are no more than the loop may start.                      *)
LEMMA FewerRunning ==
  ASSUME NEW S \in SUBSET Files, NEW T \in SUBSET S, Cardinality(S) <= MaxParallel
  PROVE  Cardinality(T) <= MaxParallel
BY RunningFinite, FS_Subset, FS_CardinalityType, ArchonLoopAssumption

(* Without a process group nothing runs and nothing waits.                 *)
LEMMA GonePhases ==
  ASSUME LoopGone
  PROVE  /\ todo' = {} /\ prover' = NoProvers /\ Launched' = {} /\ Running' = {}
         /\ Cardinality(Running') <= MaxParallel
<1>1. Running' = {} /\ Launched' = {}
  BY DEF LoopGone, Running, Launched
<1> QED BY <1>1, FS_EmptySet, ArchonLoopAssumption DEF LoopGone

(* Every step keeps the phases.                                            *)
LEMMA PhasesKept ==
  ASSUME TypeOK, Phases, [Next]_vars
  PROVE  Phases'
<1> USE ArchonLoopAssumption DEF TypeOK
<1>0. UNCHANGED <<todo, prover>> => Running' = Running /\ Launched' = Launched
  BY DEF Running, Launched
<1>1. ASSUME NEW known \in BOOLEAN, BeginCycle(known) PROVE Phases'
  BY <1>1, <1>0 DEF BeginCycle, Phases
<1>2. CASE EmitLive
  BY <1>2, <1>0 DEF EmitLive, Phases
<1>3. CASE IdleKill
  BY <1>3, GonePhases DEF IdleKill, Phases
<1>4. CASE Crash
  BY <1>4, GonePhases DEF Crash, Phases
<1>5. CASE EndCycle
  BY <1>5, GonePhases DEF EndCycle, Phases
<1>6. ASSUME NEW ready \in BOOLEAN, Preflight(ready) PROVE Phases'
  BY <1>6, <1>0 DEF Preflight, Phases
<1>7. CASE BeginIteration
  <2>1. Launched = {}
    BY <1>7 DEF BeginIteration, Phases, Launched
  <2> QED BY <1>7, <1>0, <2>1 DEF BeginIteration, Phases
<1>8. CASE SkipPlan
  BY <1>8, <1>0 DEF SkipPlan, Phases
<1>9. ASSUME NEW status \in {"done", "error"}, NEW pending \in BOOLEAN, Plan(status, pending)
      PROVE  Phases'
  BY <1>9, <1>0 DEF Plan, Phases
<1>10. CASE Gate
  BY <1>10, <1>0 DEF Gate, Phases
<1>11. CASE Collect
  <2>1. Launched' = {} /\ Running' = Running
    BY <1>11 DEF Collect, Phases, Launched, Running
  <2>2. Objectives \subseteq Files
    BY DEF Objectives, InScope
  <2>3. ASSUME Cardinality(Objectives) = 1
        PROVE  \A f, g \in Objectives : f = g
    BY <2>2, <2>3, RunningFinite, FS_Singleton
  <2>4. meta'.prover = "running"
    BY <1>11 DEF Collect
  <2>5. pc' = "serial" => \A f, g \in todo' \cup Launched' : f = g
    BY <1>11, <2>1, <2>3 DEF Collect
  <2>6. pc' \in {"serial", "provers"}
    BY <1>11 DEF Collect
  <2> QED BY <2>1, <2>4, <2>5, <2>6 DEF Phases
<1>12. CASE Launch
  <2>1. PICK f \in todo :
          /\ todo' = todo \ {f}
          /\ prover' = [prover EXCEPT ![f] = "running"]
          /\ meta' = [meta EXCEPT !.provers[f] = "running"]
    BY <1>12 DEF Launch
  <2>2. Launched' = Launched \cup {f} /\ Running' = Running \cup {f}
    BY <2>1 DEF Launched, Running
  <2>3. Cardinality(Running') <= MaxParallel
    <3>1. CASE pc = "serial"
      <4>1. Running \subseteq {f}
        BY <3>1 DEF Phases, Launched, Running
      <4>2. Running' = {f}
        BY <2>2, <4>1
      <4>3. Cardinality(Running') = 1
        BY <4>2, FS_Singleton
      <4> QED BY <4>3
    <3>2. CASE pc = "provers"
      <4>1. Cardinality(Running) < MaxParallel /\ Cardinality(Running) \in Nat
        BY <1>12, <3>2, RunningFinite, FS_CardinalityType DEF Launch, SlotFree, Running
      <4>2. Cardinality(Running \cup {f}) <= Cardinality(Running) + 1
        <5>1. IsFiniteSet(Running)
          BY RunningFinite DEF Running
        <5>2. Cardinality(Running \cup {f}) =
                 IF f \in Running THEN Cardinality(Running) ELSE Cardinality(Running) + 1
          BY <5>1, FS_AddElement
        <5> QED BY <5>2, <4>1
      <4>3. Cardinality(Running \cup {f}) \in Nat
        BY RunningFinite, FS_CardinalityType, <2>1 DEF Running
      <4> QED BY <2>2, <4>1, <4>2, <4>3
    <3> QED BY <1>12, <3>1, <3>2 DEF Launch
  <2>4. pc' = pc /\ pc \in {"serial", "provers"}
    BY <1>12 DEF Launch
  <2>5. \A g \in Launched' : meta'.provers[g] = "running"
    BY <2>1, <2>2 DEF Phases, Launched
  <2>6. meta'.prover = meta.prover
    BY <2>1
  <2>7. todo' \cup Launched' \subseteq todo \cup Launched
    BY <2>1, <2>2
  <2> QED BY <2>3, <2>4, <2>5, <2>6, <2>7 DEF Phases
<1>13. CASE Report
  <2>1. PICK f \in Files :
          /\ prover[f] \in {"ended", "failed"}
          /\ meta' = [meta EXCEPT !.provers[f] = ExitStatus(f)]
          /\ prover' = [prover EXCEPT ![f] = "none"]
    BY <1>13 DEF Report
  <2>2. Launched' = Launched \ {f} /\ Running' = Running
    BY <2>1 DEF Launched, Running
  <2>3. pc' = pc /\ todo' = todo /\ pc \in {"serial", "provers"}
    BY <1>13, <2>1 DEF Report, Phases
  <2>4. \A g \in Launched' : meta'.provers[g] = "running"
    BY <2>1, <2>2 DEF Phases, Launched
  <2>5. meta'.prover = meta.prover
    BY <2>1
  <2> QED BY <2>2, <2>3, <2>4, <2>5 DEF Phases
<1>14. CASE EndIteration
  <2>1. Launched = {}
    BY <1>14 DEF EndIteration, Launched
  <2> QED BY <1>14, <1>0, <2>1 DEF EndIteration, Phases
<1>15. ASSUME NEW f \in Files, NEW status \in {"done", "error"}, NEW result \in BOOLEAN,
              ProverEnds(f, status, result)
       PROVE  Phases'
  <2>1. Launched' = Launched /\ Running' \subseteq Running /\ Running \subseteq Files
    BY <1>15 DEF ProverEnds, Launched, Running
  <2>2. Cardinality(Running') <= MaxParallel
    BY <2>1, FewerRunning DEF Phases
  <2>3. pc \in {"serial", "provers"}
    BY <1>15 DEF ProverEnds, Phases, Running
  <2> QED BY <1>15, <2>1, <2>2, <2>3 DEF ProverEnds, Phases
<1>16. CASE PlanHangs \/ PreflightHangs
  BY <1>16, <1>0 DEF PlanHangs, PreflightHangs, Phases
<1>17. ASSUME NEW f \in Files, ProverHangs(f) PROVE Phases'
  <2>1. Launched' = Launched /\ Running' = Running
    BY <1>17 DEF ProverHangs, Launched, Running
  <2>2. pc \in {"serial", "provers"}
    BY <1>17 DEF ProverHangs, Phases
  <2> QED BY <1>17, <2>1, <2>2 DEF ProverHangs, Phases
<1>18. CASE UNCHANGED vars
  BY <1>18, <1>0 DEF Phases
<1> QED BY <1>1, <1>2, <1>3, <1>4, <1>5, <1>6, <1>7, <1>8, <1>9, <1>10, <1>11, <1>12,
           <1>13, <1>14, <1>15, <1>16, <1>17, <1>18
        DEF Next, LoopStep, PlanStep, ProverStep

-----------------------------------------------------------------------------
(* The results of provers, an accepted run, and what is shown.             *)

(* Every step keeps results from an archive they are lost in.              *)
LEMMA MergedKept ==
  ASSUME TypeOK, Phases, Merged, [Next]_vars
  PROVE  Merged'
<1> USE DEF TypeOK
<1>1. ASSUME NEW known \in BOOLEAN, BeginCycle(known) PROVE Merged'
  BY <1>1 DEF BeginCycle, Merged
<1>2. CASE EmitLive
  BY <1>2 DEF EmitLive, Merged
<1>3. CASE IdleKill
  BY <1>3 DEF IdleKill, Merged
<1>4. CASE Crash
  BY <1>4 DEF Crash, Merged
<1>5. CASE EndCycle
  BY <1>5 DEF EndCycle, Merged
<1>6. ASSUME NEW ready \in BOOLEAN, Preflight(ready) PROVE Merged'
  BY <1>6 DEF Preflight, Merged
<1>7. CASE BeginIteration
  BY <1>7 DEF BeginIteration, Merged
<1>8. CASE SkipPlan
  BY <1>8 DEF SkipPlan, CanFallbackToExistingObjectives, HasLiveTaskResults, Merged
<1>9. ASSUME NEW status \in {"done", "error"}, NEW pending \in BOOLEAN, Plan(status, pending)
      PROVE  Merged'
  <2>1. status = "error" => meta'.plan = "error"
    BY <1>9 DEF Plan
  <2>2. status = "done" => fresh' = {}
    BY <1>9 DEF Plan
  <2> QED BY <1>9, <2>1, <2>2 DEF Plan, Merged
<1>10. CASE Gate
  BY <1>10 DEF Gate, CanFallbackToExistingObjectives, CanFallbackToRecoveredObjective,
               HasLiveTaskResults, Merged
<1>11. CASE Collect
  BY <1>11 DEF Collect, Merged
<1>12. CASE Launch
  BY <1>12 DEF Launch, Merged
<1>13. CASE Report
  BY <1>13 DEF Report, Phases, Merged
<1>14. CASE EndIteration
  BY <1>14 DEF EndIteration, Merged
<1>15. ASSUME NEW f \in Files, NEW status \in {"done", "error"}, NEW result \in BOOLEAN,
              ProverEnds(f, status, result)
       PROVE  Merged'
  BY <1>15 DEF ProverEnds, Running, Phases, Merged
<1>16. CASE PlanHangs \/ PreflightHangs
  BY <1>16 DEF PlanHangs, PreflightHangs, Merged
<1>17. ASSUME NEW f \in Files, ProverHangs(f) PROVE Merged'
  BY <1>17 DEF ProverHangs, Merged
<1>18. CASE UNCHANGED vars
  BY <1>18 DEF Merged
<1> QED BY <1>1, <1>2, <1>3, <1>4, <1>5, <1>6, <1>7, <1>8, <1>9, <1>10, <1>11, <1>12,
           <1>13, <1>14, <1>15, <1>16, <1>17, <1>18
        DEF Next, LoopStep, PlanStep, ProverStep

(* Every step keeps an accepted run at rest.                               *)
LEMMA RestsKept ==
  ASSUME TypeOK, Phases, Rests, [Next]_vars
  PROVE  Rests'
<1> USE DEF TypeOK
<1>1. ASSUME NEW known \in BOOLEAN, BeginCycle(known) PROVE Rests'
  BY <1>1 DEF BeginCycle, ProgressSurface, Rests
<1>2. CASE EmitLive
  BY <1>2 DEF EmitLive, ProgressSurface, Rests
<1>3. CASE IdleKill
  BY <1>3 DEF IdleKill, Rests
<1>4. CASE Crash
  BY <1>4 DEF Crash, Rests
<1>5. CASE EndCycle
  <2>1. settled' => allowed # {} /\ Accepted(validation') = allowed
    <3>1. settled' = (allowed # {} /\ \A f \in allowed : validation'[f] = "accepted")
      BY <1>5 DEF EndCycle
    <3> QED BY <3>1 DEF Accepted
  <2>2. settled' => progress'.stage = "COMPLETE"
    BY <1>5, <2>1 DEF EndCycle, Sync
  <2>3. ASSUME allowed # {}, surface'.closed = surface'.targets, surface'.rejected = {}
        PROVE  progress'.stage = "COMPLETE"
    <3>1. /\ surface'.targets = allowed
          /\ surface'.closed = ClosedTargets(allowed, validation')
          /\ surface'.rejected = RejectedTargets(allowed, validation')
      BY <1>5, <2>3 DEF EndCycle, ProgressSurface, ScopeTargets
    <3>2. Accepted(validation') = allowed
      BY <2>3, <3>1 DEF ClosedTargets, RejectedTargets, Accepted
    <3> QED BY <1>5, <2>3, <3>2 DEF EndCycle, Sync
  <2> QED BY <1>5, <2>2, <2>3 DEF EndCycle, Rests
<1>6. ASSUME NEW ready \in BOOLEAN, Preflight(ready) PROVE Rests'
  BY <1>6 DEF Preflight, Rests
<1>7. CASE BeginIteration
  BY <1>7 DEF BeginIteration, Rests
<1>8. CASE SkipPlan
  BY <1>8 DEF SkipPlan, Rests
<1>9. ASSUME NEW status \in {"done", "error"}, NEW pending \in BOOLEAN, Plan(status, pending)
      PROVE  Rests'
  BY <1>9 DEF Plan, Rests
<1>10. CASE Gate
  BY <1>10 DEF Gate, Rests
<1>11. CASE Collect
  BY <1>11 DEF Collect, Rests
<1>12. CASE Launch
  BY <1>12 DEF Launch, Rests
<1>13. CASE Report
  BY <1>13 DEF Report, Phases, Rests
<1>14. CASE EndIteration
  BY <1>14 DEF EndIteration, Rests
<1>15. ASSUME NEW f \in Files, NEW status \in {"done", "error"}, NEW result \in BOOLEAN,
              ProverEnds(f, status, result)
       PROVE  Rests'
  BY <1>15 DEF ProverEnds, Rests
<1>16. CASE PlanHangs \/ PreflightHangs
  BY <1>16 DEF PlanHangs, PreflightHangs, Rests
<1>17. ASSUME NEW f \in Files, ProverHangs(f) PROVE Rests'
  BY <1>17 DEF ProverHangs, Rests
<1>18. CASE UNCHANGED vars
  BY <1>18 DEF Rests
<1> QED BY <1>1, <1>2, <1>3, <1>4, <1>5, <1>6, <1>7, <1>8, <1>9, <1>10, <1>11, <1>12,
           <1>13, <1>14, <1>15, <1>16, <1>17, <1>18
        DEF Next, LoopStep, PlanStep, ProverStep

(* Every step keeps the meta of the iteration on record.                   *)
LEMMA OnRecordKept ==
  ASSUME TypeOK, Phases, OnRecord, [Next]_vars
  PROVE  OnRecord'
<1> USE DEF TypeOK
<1>a. round \in Nat
  BY ArchonLoopAssumption
<1>b. LoopGone => OnRecord'
  BY DEF LoopGone, OnRecord
<1>1. ASSUME NEW known \in BOOLEAN, BeginCycle(known) PROVE OnRecord'
  BY <1>1 DEF BeginCycle, OnRecord
<1>2. CASE EmitLive
  BY <1>2 DEF EmitLive, OnRecord
<1>3. CASE IdleKill
  BY <1>3, <1>b DEF IdleKill
<1>4. CASE Crash
  BY <1>4, <1>b DEF Crash
<1>5. CASE EndCycle
  BY <1>5, <1>b DEF EndCycle
<1>6. ASSUME NEW ready \in BOOLEAN, Preflight(ready) PROVE OnRecord'
  BY <1>6, <1>a DEF Preflight, Phases, OnRecord
<1>7. CASE BeginIteration
  BY <1>7 DEF BeginIteration, Phases, OnRecord
<1>8. CASE SkipPlan
  BY <1>8 DEF SkipPlan, OnRecord
<1>9. ASSUME NEW status \in {"done", "error"}, NEW pending \in BOOLEAN, Plan(status, pending)
      PROVE  OnRecord'
  BY <1>9 DEF Plan, OnRecord
<1>10. CASE Gate
  BY <1>10 DEF Gate, OnRecord
<1>11. CASE Collect
  BY <1>11 DEF Collect, OnRecord
<1>12. CASE Launch
  BY <1>12 DEF Launch, OnRecord
<1>13. CASE Report
  BY <1>13 DEF Report, ExitStatus, OnRecord
<1>14. CASE EndIteration
  BY <1>14 DEF EndIteration, OnRecord
<1>15. ASSUME NEW f \in Files, NEW status \in {"done", "error"}, NEW result \in BOOLEAN,
              ProverEnds(f, status, result)
       PROVE  OnRecord'
  BY <1>15 DEF ProverEnds, Running, OnRecord
<1>16. CASE PlanHangs \/ PreflightHangs
  BY <1>16 DEF PlanHangs, PreflightHangs, OnRecord
<1>17. ASSUME NEW f \in Files, ProverHangs(f) PROVE OnRecord'
  BY <1>17 DEF ProverHangs, OnRecord
<1>18. CASE UNCHANGED vars
  BY <1>18 DEF OnRecord
<1> QED BY <1>1, <1>2, <1>3, <1>4, <1>5, <1>6, <1>7, <1>8, <1>9, <1>10, <1>11, <1>12,
           <1>13, <1>14, <1>15, <1>16, <1>17, <1>18
        DEF Next, LoopStep, PlanStep, ProverStep

-----------------------------------------------------------------------------
(* The theorems.                                                           *)

(* The inductive invariant of the loop.                                    *)
THEOREM Inductive == Spec => []IInv
<1>1. Init => Phases /\ Merged /\ Rests /\ OnRecord
  <2> SUFFICES ASSUME Init PROVE Phases /\ Merged /\ Rests /\ OnRecord
    OBVIOUS
  <2>1. Running = {} /\ Launched = {}
    BY DEF Init, Running, Launched
  <2>2. Cardinality(Running) <= MaxParallel
    BY <2>1, FS_EmptySet, ArchonLoopAssumption
  <2> QED BY <2>1, <2>2 DEF Init, Phases, Merged, Rests, OnRecord
<1>2. TypeOK /\ Phases /\ Merged /\ Rests /\ OnRecord /\ [Next]_vars
         => (Phases /\ Merged /\ Rests /\ OnRecord)'
  BY PhasesKept, MergedKept, RestsKept, OnRecordKept
<1> QED BY <1>1, <1>2, TypeCorrect, PTL DEF Spec, IInv

(* Results are merged before they are archived, no more provers run than   *)
(* there are slots, and meta.json and RUN_PROGRESS tell who runs and what  *)
(* is left to do.                                                          *)
THEOREM LoopCorrect == Spec => []LoopInv
<1>1. IInv => ProversOnRecord
  <2> SUFFICES ASSUME IInv PROVE ProversOnRecord
    OBVIOUS
  <2>1. ASSUME NEW f \in Running PROVE meta.prover = "running" /\ meta.provers[f] = "running"
    <3>1. f \in Launched
      BY <2>1 DEF Running, Launched
    <3>2. pc \in {"serial", "provers"}
      BY <3>1 DEF IInv, Phases, Launched
    <3> QED BY <3>1, <3>2 DEF IInv, Phases
  <2> QED BY <2>1 DEF IInv, Phases, ProversOnRecord
<1>2. IInv => ProgressTold
  <2> SUFFICES ASSUME IInv PROVE ProgressTold
    OBVIOUS
  <2>1. ASSUME round > 0 /\ pc \notin {"idle", "analyse"}
        PROVE  /\ LiveRuntime.active = {f \in Files : prover[f] # "none"}
               /\ LiveRuntime.phase = "planning" <=> pc \in {"plan", "plan_hung"}
               /\ LiveRuntime.phase = "proving" <=> pc \in {"serial", "provers"}
    BY <2>1 DEF IInv, OnRecord, LiveRuntime, LivePhase, ActiveProvers
  <2> QED BY <2>1 DEF IInv, Rests, ProgressTold
<1>3. IInv => LoopInv
  BY <1>1, <1>2 DEF IInv, Merged, ResultsMerged, LoopInv
<1> QED BY <1>3, Inductive, PTL

(* A run that a cycle has found accepted starts no prover until another    *)
(* cycle finds otherwise, however often cycles are run, killed or crash.   *)
THEOREM RestsCorrect == Spec => []AcceptedRunRests
<1>1. IInv => AcceptedRunRests
  BY DEF IInv, Phases, Rests, AcceptedRunRests, Running
<1> QED BY <1>1, Inductive, PTL

-----------------------------------------------------------------------------
(***************************************************************************)
(* The calls for help, HelperCalls.  Its index is read, truncated and      *)
(* written back without a lock, so what it says holds only as long as no   *)
(* call collides with another or is killed: Calm.  That the notes go       *)
(* before the entries on them holds in any case: Noted.                    *)
(***************************************************************************)

USE HelperCallsAssumption

-----------------------------------------------------------------------------
(* The inductive invariant.                                                *)

\* What the histories are.
AskedType ==
    /\ asked \in [Targets -> [Config -> Seq({0} \cup Ats)]]
    /\ last \in [Targets -> [Config -> {"none", "answered", "failed"}]]

\* The checks are made for the first of the chain; a fallback only follows if
\* there is one.
ChainedAt(c) ==
    /\ proc[c].pc \in {"lookup", "failure", "policy"} => proc[c].nth = 1
    /\ \/ proc[c].pc = "fallback"
       \/ proc[c].pc \in {"read", "write", "fill"} /\ proc[c].then = "fallback"
       => ~ ChainEnds(c)

Chained == \A c \in Calling : ChainedAt(c)

NotedEntry(e, files) ==
    e.event = "provider_call" /\ e.noted /\ e.file # NoFile => e.file \in files

\* Notes go before the entries on them: in the index, in what has been read of
\* it, and in what is to be appended.
Noted ==
    /\ \A i \in DOMAIN index : NotedEntry(index[i], noteFiles)
    /\ \A c \in Caller : \A i \in DOMAIN proc[c].view : NotedEntry(proc[c].view[i], noteFiles)
    /\ \A c \in Caller :
          proc[c].pc \in {"read", "write", "fill"} /\ proc[c].event = "provider_call"
             /\ proc[c].call.auto /\ Target(c) # NoFile
          => Target(c) \in noteFiles

\* Calls whose entries decide on each other are made one after the other.
Apart == \A c, d \in Calling : c # d => ~ SameEntries(Target(c), Target(d))

\* So are appends, and what is written back is what there was.
OneAppends ==
    /\ \A c, d \in Appending : c = d
    /\ \A c \in Appending : proc[c].view = index
    /\ torn <=> \E c \in Caller : At(c, "fill")

CallEvents == {"provider_call", "provider_call_failed"}

\* An attempt has been made, and is not yet in the index.
Pending(c) ==
    \/ At(c, "note")
    \/ proc[c].pc \in {"read", "write", "fill"} /\ proc[c].event \in CallEvents

PendingFor(c, f, k) == Pending(c) /\ Target(c) = f /\ Sig(c) = k

Hits(f, k) == {i \in DOMAIN index : index[i].file = f /\ index[i].sig = k}

FailedAtLast(f, k) ==
    \E i \in Hits(f, k) : /\ \A j \in Hits(f, k) : j <= i
                          /\ index[i].event = "provider_call_failed"

InHits(f, k, at) == \E h \in Hits(f, k) : index[h].at = at

\* All the attempts are in the index.
Settled(f, k) ==
    /\ Len(asked[f][k]) <= Cardinality(Hits(f, k))
    /\ \A i \in DOMAIN asked[f][k] : InHits(f, k, asked[f][k][i])
    /\ last[f][k] = "failed" => FailedAtLast(f, k)

\* All but the one of c, which is about to record it.
SettledBut(c, f, k) ==
    /\ Len(asked[f][k]) <= Cardinality(Hits(f, k)) + 1
    /\ \A i \in DOMAIN asked[f][k] :
          asked[f][k][i] = proc[c].call.at \/ InHits(f, k, asked[f][k][i])
    /\ last[f][k] = "failed" => ~ At(c, "note") /\ proc[c].event = "provider_call_failed"

InIndex ==
    \A f \in Targets, k \in Config :
        /\ (\A c \in Caller : ~ PendingFor(c, f, k)) => Settled(f, k)
        /\ \A c \in Caller : PendingFor(c, f, k) => SettledBut(c, f, k)

\* A call that has passed the policy may ask the first of its chain; one that has
\* passed the check before it, and is not forced, does not repeat a failure.
MayAsk(c, ats) ==
    /\ Len(ats) < policy.budget
    /\ \A i \in DOMAIN ats :
          0 \notin {ats[i], proc[c].call.at, policy.cooldown} =>
              proc[c].call.at > ats[i] + policy.cooldown

ClearedAt(c) ==
    /\ At(c, "call") /\ proc[c].nth = 1 => MayAsk(c, asked[Target(c)][Primary(c)])
    /\ At(c, "policy") /\ ~ proc[c].call.force /\ Target(c) # NoFile =>
          last[Target(c)][Primary(c)] # "failed"

Cleared == \A c \in Calling : ClearedAt(c)

KeptFor(ats) ==
    /\ Len(ats) <= policy.budget
    /\ \A i, j \in DOMAIN ats :
          i < j /\ 0 \notin {ats[i], ats[j], policy.cooldown} =>
              ats[j] > ats[i] + policy.cooldown

Kept == \A f \in Targets, k \in Config : KeptFor(asked[f][k])

\* What holds as long as calls do not collide.
Calm == Apart /\ OneAppends /\ InIndex /\ Cleared /\ Kept

CallsIInv ==
    CallsTypeOK /\ AskedType /\ Chained /\ Noted /\ (~ disturbed => Calm)
-----------------------------------------------------------------------------
(* Types.                                                                  *)

PcOf == {"idle", "lookup", "failure", "policy", "call", "fallback", "note", "read", "write",
         "fill", "killed"}

\* Chains, from _attempt_chain, are sequences of configs, and not empty.
LEMMA ChainType ==
  ASSUME NEW s \in Chains
  PROVE  s \in Seq(Config) /\ DOMAIN s = 1 .. Len(s) /\ Len(s) \in Nat \ {0} /\ s[1] \in Config
<1>1. PICK n \in 1 .. Cardinality(Config) : s \in [1 .. n -> Config]
  BY DEF Chains
<1>2. n \in Nat \ {0}
  BY <1>1
<1>3. s \in Seq(Config) /\ Len(s) = n
  BY <1>1, <1>2
<1> QED
  BY <1>1, <1>2, <1>3

\* What an append makes of a sequence.
LEMMA Appended ==
  ASSUME NEW S, NEW s \in Seq(S), NEW e \in S
  PROVE  /\ Append(s, e) \in Seq(S) /\ Len(s) \in Nat /\ Len(Append(s, e)) = Len(s) + 1
         /\ DOMAIN s = 1 .. Len(s) /\ DOMAIN Append(s, e) = 1 .. Len(s) + 1
         /\ Append(s, e)[Len(s) + 1] = e
         /\ \A i \in 1 .. Len(s) : Append(s, e)[i] = s[i]
OBVIOUS

\* A caller between two calls.
LEMMA IdleType ==
  /\ Idle \in Callers /\ Idle.pc = "idle" /\ Idle.view = <<>> /\ Idle.nth = 1
  /\ Idle.tries = 0 /\ Idle.event = "none" /\ Idle.then = "idle"
BY DEF Idle, Callers

\* A caller goes on: its record, and nobody else's, has another pc.
LEMMA GotoType ==
  ASSUME proc \in [Caller -> Callers], NEW c \in Caller, NEW where \in PcOf, Goto(c, where)
  PROVE  /\ proc' \in [Caller -> Callers]
         /\ \A d \in Caller \ {c} : proc'[d] = proc[d]
         /\ proc'[c].pc = where /\ proc'[c].call = proc[c].call /\ proc'[c].nth = proc[c].nth
         /\ proc'[c].tries = proc[c].tries /\ proc'[c].view = proc[c].view
         /\ proc'[c].event = proc[c].event /\ proc'[c].then = proc[c].then
<1>1. proc' = [proc EXCEPT ![c] = [proc[c] EXCEPT !.pc = where]] /\ proc[c] \in Callers
  BY DEF Goto, Becomes
<1>2. [proc[c] EXCEPT !.pc = where] \in Callers
  BY <1>1 DEF Callers, PcOf
<1> QED
  BY <1>1, <1>2 DEF Callers

\* A caller goes to append to the index.
LEMMA RecordType ==
  ASSUME proc \in [Caller -> Callers], NEW c \in Caller,
         NEW what \in {"note_reuse", "skipped_by_cooldown", "skipped_by_budget",
                       "provider_call", "provider_call_failed"},
         NEW next \in {"idle", "fallback"}, Record(c, what, next)
  PROVE  /\ proc' \in [Caller -> Callers]
         /\ \A d \in Caller \ {c} : proc'[d] = proc[d]
         /\ proc'[c].pc = "read" /\ proc'[c].call = proc[c].call /\ proc'[c].nth = proc[c].nth
         /\ proc'[c].tries = proc[c].tries /\ proc'[c].view = proc[c].view
         /\ proc'[c].event = what /\ proc'[c].then = next
<1> DEFINE q == [proc[c] EXCEPT !.pc = "read", !.event = what, !.then = next]
<1>1. proc' = [proc EXCEPT ![c] = q] /\ proc[c] \in Callers
  BY DEF Record, Becomes
<1>2. /\ q \in Callers /\ q.pc = "read" /\ q.call = proc[c].call /\ q.nth = proc[c].nth
      /\ q.tries = proc[c].tries /\ q.view = proc[c].view /\ q.event = what /\ q.then = next
  BY <1>1 DEF Callers
<1> HIDE DEF q
<1> QED
  BY <1>1, <1>2

\* A caller's record is replaced.
LEMMA BecomesType ==
  ASSUME proc \in [Caller -> Callers], NEW c \in Caller, NEW p \in Callers, Becomes(c, p)
  PROVE  /\ proc' \in [Caller -> Callers] /\ proc'[c] = p
         /\ \A d \in Caller \ {c} : proc'[d] = proc[d]
BY DEF Becomes

\* What a caller that is in a call is.
LEMMA CallingType ==
  ASSUME CallsTypeOK, NEW c \in Calling
  PROVE  /\ c \in Caller /\ proc[c] \in Callers /\ proc[c].call \in Calls
         /\ Target(c) \in Targets /\ proc[c].call.at \in {0} \cup Ats
         /\ proc[c].call.chain \in Chains /\ Len(proc[c].call.chain) \in Nat \ {0}
         /\ proc[c].nth \in 1 .. Len(proc[c].call.chain)
         /\ Primary(c) \in Config /\ Sig(c) \in Config
<1>1. /\ c \in Caller /\ proc[c] \in Callers /\ proc[c].call \in Calls
      /\ proc[c].nth \in DOMAIN proc[c].call.chain
  BY DEF CallsTypeOK, Calling
<1>2. /\ proc[c].call.file \in Targets /\ proc[c].call.at \in {0} \cup Ats
      /\ proc[c].call.chain \in Chains
  BY <1>1 DEF Calls
<1>3. /\ proc[c].call.chain \in Seq(Config) /\ Len(proc[c].call.chain) \in Nat \ {0}
      /\ DOMAIN proc[c].call.chain = 1 .. Len(proc[c].call.chain)
      /\ proc[c].call.chain[1] \in Config
  BY <1>2, ChainType
<1> QED
  BY <1>1, <1>2, <1>3 DEF Target, Primary, Sig

-----------------------------------------------------------------------------
(* The types are kept, and so is the order of a chain.                     *)

TypeInv == CallsTypeOK /\ AskedType /\ Chained

\* Only the caller that steps need be looked at.
LEMMA CallersFit ==
  ASSUME CallsTypeOK, Chained, NEW c \in Caller,
         proc' \in [Caller -> Callers], \A d \in Caller \ {c} : proc'[d] = proc[d],
         c \in Calling' => /\ proc'[c].call \in Calls
                           /\ proc'[c].nth \in DOMAIN proc'[c].call.chain
                           /\ ChainedAt(c)'
  PROVE  /\ Chained'
         /\ \A d \in Calling' :
               proc'[d].call \in Calls /\ proc'[d].nth \in DOMAIN proc'[d].call.chain
<1> SUFFICES ASSUME NEW d \in Calling'
             PROVE  /\ ChainedAt(d)' /\ proc'[d].call \in Calls
                    /\ proc'[d].nth \in DOMAIN proc'[d].call.chain
  BY DEF Chained
<1>1. CASE d = c
  BY <1>1
<1>2. CASE d # c
  <2>1. d \in Caller /\ proc'[d] = proc[d]
    BY <1>2 DEF Calling
  <2>2. d \in Calling
    BY <2>1 DEF Calling
  <2> QED
    BY <2>1, <2>2 DEF CallsTypeOK, Chained, ChainedAt, ChainEnds
<1> QED
  BY <1>1, <1>2

\* What an append makes of an index, whoever appended to.
LEMMA EntryType ==
  ASSUME CallsTypeOK, NEW c \in Calling, proc[c].event \in CallEvents
  PROVE  Entry(c) \in Entries
<1>1. Target(c) \in Targets /\ Sig(c) \in Config /\ proc[c].call.at \in {0} \cup Ats
  BY CallingType
<1>2. proc[c].call.auto \in BOOLEAN
  BY CallingType DEF Calls
<1> QED
  BY <1>1, <1>2 DEF Entry, Entries, CallEvents

\* The histories count attempts.
LEMMA CountType ==
  ASSUME CallsTypeOK, AskedType, NEW c \in Calling, NEW how \in {"answered", "failed"},
         Count(c, how)
  PROVE  AskedType'
<1>1. Target(c) \in Targets /\ Sig(c) \in Config /\ proc[c].call.at \in {0} \cup Ats
  BY CallingType
<1>2. last' \in [Targets -> [Config -> {"none", "answered", "failed"}]]
  BY <1>1 DEF AskedType, Count
<1>3. Append(asked[Target(c)][Sig(c)], proc[c].call.at) \in Seq({0} \cup Ats)
  BY <1>1 DEF AskedType
<1>4. asked' \in [Targets -> [Config -> Seq({0} \cup Ats)]]
  BY <1>1, <1>3 DEF AskedType, Count
<1> QED
  BY <1>2, <1>4 DEF AskedType

\* Every step keeps the types, and fallbacks within their chains.
LEMMA TypeStep ==
  ASSUME TypeInv, NEW c \in Caller, Begin(c) \/ Step(c) \/ Kill(c)
  PROVE  TypeInv'
<1> USE DEF TypeInv
<1>0. proc \in [Caller -> Callers] /\ proc[c] \in Callers
  BY DEF CallsTypeOK
<1>b. CASE Begin(c)
  <2>1. PICK r \in Requests : Becomes(c, [Idle EXCEPT !.pc = "lookup", !.call = r])
    BY <1>b DEF Begin
  <2> DEFINE p == [Idle EXCEPT !.pc = "lookup", !.call = r]
  <2>2. /\ p \in Callers /\ p.pc = "lookup" /\ p.call \in Calls /\ p.nth = 1
        /\ p.call.chain \in Chains
    BY IdleType, RequestsAssumption DEF Callers, Calls
  <2> HIDE DEF p
  <2>3. 1 \in DOMAIN p.call.chain
    BY <2>2, ChainType
  <2>4. /\ proc' \in [Caller -> Callers] /\ proc'[c] = p
        /\ \A d \in Caller \ {c} : proc'[d] = proc[d]
    BY <1>0, <2>1, <2>2, BecomesType DEF p
  <2>5. ChainedAt(c)'
    BY <2>2, <2>4 DEF ChainedAt
  <2>6. Chained' /\ \A d \in Calling' :
              proc'[d].call \in Calls /\ proc'[d].nth \in DOMAIN proc'[d].call.chain
    BY <2>2, <2>3, <2>4, <2>5, CallersFit
  <2>7. made' \in 0 .. MaxCalls /\ disturbed' \in BOOLEAN
    <3>1. MaxCalls \in Nat
      BY HelperCallsAssumption
    <3>2. made' = made + 1 /\ made < MaxCalls /\ made \in 0 .. MaxCalls
      BY <1>b DEF Begin, CallsTypeOK
    <3>3. disturbed' \in BOOLEAN
      BY <1>b DEF Begin
    <3> QED
      BY <3>1, <3>2, <3>3
  <2> QED
    BY <1>b, <2>4, <2>6, <2>7 DEF Begin, CallsTypeOK, AskedType, shared
<1>k. CASE Kill(c)
  <2> DEFINE p == [Idle EXCEPT !.pc = "killed"]
  <2>1. p \in Callers /\ p.pc = "killed"
    BY IdleType DEF Callers
  <2> HIDE DEF p
  <2>2. /\ proc' \in [Caller -> Callers] /\ proc'[c] = p
        /\ \A d \in Caller \ {c} : proc'[d] = proc[d]
    BY <1>0, <1>k, <2>1, BecomesType DEF p, Kill
  <2>3. c \notin Calling'
    BY <2>1, <2>2 DEF Calling
  <2>4. Chained' /\ \A d \in Calling' :
              proc'[d].call \in Calls /\ proc'[d].nth \in DOMAIN proc'[d].call.chain
    BY <2>2, <2>3, CallersFit
  <2> QED
    BY <1>k, <2>2, <2>4 DEF Kill, CallsTypeOK, AskedType, shared
<1>s. ASSUME Step(c)
      PROVE  TypeInv'
  <2>c. c \in Calling
    BY <1>s DEF Step, Lookup, CheckFailure, CheckPolicy, Retry, Answer, Fail, Fallback, Break,
       WriteNote, Read, Truncate, Fill, At, Calling
  <2>t. /\ proc[c].call \in Calls /\ ChainedAt(c) /\ Len(proc[c].call.chain) \in Nat \ {0}
        /\ proc[c].nth \in 1 .. Len(proc[c].call.chain)
        /\ DOMAIN proc[c].call.chain = 1 .. Len(proc[c].call.chain)
        /\ Target(c) \in Targets
    BY <2>c, CallingType, ChainType DEF Chained
  <2> DEFINE Fits == /\ proc' \in [Caller -> Callers]
                     /\ \A d \in Caller \ {c} : proc'[d] = proc[d]
                     /\ c \in Calling' => /\ proc'[c].call \in Calls
                                          /\ proc'[c].nth \in DOMAIN proc'[c].call.chain
                                          /\ ChainedAt(c)'
             Rest == /\ torn' \in BOOLEAN /\ disturbed' \in BOOLEAN /\ noteFiles' \subseteq File
                     /\ policy' = policy /\ made' = made /\ index' \in Seq(Entries)
                     /\ AskedType'
  <2>q. SUFFICES Fits /\ Rest
    <3> HIDE DEF Fits, Rest
    <3>1. Fits => Chained' /\ \A d \in Calling' :
              proc'[d].call \in Calls /\ proc'[d].nth \in DOMAIN proc'[d].call.chain
      BY CallersFit DEF Fits
    <3> QED
      BY <3>1 DEF Fits, Rest, CallsTypeOK
  <2>r. ASSUME UNCHANGED <<shared, made, history>>
        PROVE  Rest
    BY <2>r DEF shared, history, AskedType, CallsTypeOK
  <2>1. CASE Lookup(c)
    <3>1. Fits
      <4>1. CASE Record(c, "note_reuse", "idle")
        BY <1>0, <2>t, <4>1, RecordType DEF ChainedAt
      <4>2. CASE Goto(c, "failure")
        BY <1>0, <2>t, <2>1, <4>2, GotoType DEF ChainedAt, Lookup, At, PcOf
      <4> QED
        BY <2>1, <4>1, <4>2 DEF Lookup
    <3> QED
      BY <2>1, <2>r, <3>1 DEF Lookup
  <2>2. CASE CheckFailure(c)
    <3>1. Fits
      <4>1. CASE Record(c, "skipped_by_cooldown", "idle")
        BY <1>0, <2>t, <4>1, RecordType DEF ChainedAt
      <4>2. CASE Goto(c, "policy")
        BY <1>0, <2>t, <2>2, <4>2, GotoType DEF ChainedAt, CheckFailure, At, PcOf
      <4> QED
        BY <2>2, <4>1, <4>2 DEF CheckFailure
    <3> QED
      BY <2>2, <3>1 DEF CheckFailure, shared, AskedType, CallsTypeOK
  <2>3. CASE CheckPolicy(c)
    <3>1. Fits
      <4>1. CASE Record(c, "skipped_by_cooldown", "idle")
        BY <1>0, <2>t, <4>1, RecordType DEF ChainedAt
      <4>2. CASE Record(c, "skipped_by_budget", "idle")
        BY <1>0, <2>t, <4>2, RecordType DEF ChainedAt
      <4>3. CASE Goto(c, "call")
        BY <1>0, <2>t, <2>3, <4>3, GotoType DEF ChainedAt, CheckPolicy, At, PcOf
      <4> QED
        BY <2>3, <4>1, <4>2, <4>3 DEF CheckPolicy
    <3> QED
      BY <2>3, <3>1 DEF CheckPolicy, shared, AskedType, CallsTypeOK
  <2>4. CASE Retry(c)
    <3> DEFINE p == [proc[c] EXCEPT !.tries = @ + 1]
    <3>0. proc[c].tries \in 0 .. MaxRetries /\ MaxRetries \in Nat
      BY <1>0, HelperCallsAssumption DEF Callers
    <3>a. proc[c].tries + 1 \in 0 .. MaxRetries
      BY <2>4, <3>0 DEF Retry, RetriesLeft
    <3>1. /\ p \in Callers /\ p.pc = "call" /\ p.call = proc[c].call /\ p.nth = proc[c].nth
          /\ Becomes(c, p)
      BY <1>0, <2>4, <3>a DEF Retry, At, Callers
    <3> HIDE DEF p
    <3>2. Fits
      BY <1>0, <2>t, <3>1, BecomesType DEF ChainedAt
    <3> QED
      BY <2>4, <2>r, <3>2 DEF Retry
  <2>5. CASE Answer(c)
    <3>1. Fits
      <4>1. CASE Goto(c, "note")
        BY <1>0, <2>t, <4>1, GotoType DEF ChainedAt, PcOf
      <4>2. CASE Record(c, "provider_call", "idle")
        BY <1>0, <2>t, <4>2, RecordType DEF ChainedAt
      <4> QED
        BY <2>5, <4>1, <4>2 DEF Answer
    <3>2. AskedType'
      BY <2>5, <2>c, CountType DEF Answer
    <3> QED
      BY <2>5, <3>1, <3>2 DEF Answer, shared, CallsTypeOK
  <2>6. CASE Fail(c)
    <3>1. PICK n \in {"idle", "fallback"} :
             /\ n = (IF ChainEnds(c) THEN "idle" ELSE "fallback")
             /\ Record(c, "provider_call_failed", n)
      BY <2>6 DEF Fail
    <3>2. Fits
      BY <1>0, <2>t, <3>1, RecordType DEF ChainedAt, ChainEnds
    <3>3. AskedType'
      BY <2>6, <2>c, CountType DEF Fail
    <3> QED
      BY <2>6, <3>2, <3>3 DEF Fail, shared, CallsTypeOK
  <2>7. CASE Fallback(c)
    <3> DEFINE p == [proc[c] EXCEPT !.pc = "call", !.nth = @ + 1, !.tries = 0]
    <3>0. proc[c].nth + 1 \in Nat /\ 0 \in 0 .. MaxRetries
      BY <1>0, HelperCallsAssumption DEF Callers
    <3>1. /\ p \in Callers /\ p.pc = "call" /\ p.call = proc[c].call
          /\ p.nth = proc[c].nth + 1 /\ Becomes(c, p)
      BY <1>0, <2>7, <3>0 DEF Fallback, Callers
    <3> HIDE DEF p
    <3>2. proc[c].nth # Len(proc[c].call.chain)
      BY <2>t, <2>7 DEF Fallback, At, ChainedAt, ChainEnds
    <3>3. Fits
      BY <1>0, <2>t, <3>1, <3>2, BecomesType DEF ChainedAt
    <3> QED
      BY <2>7, <2>r, <3>3 DEF Fallback
  <2>8. CASE Break(c)
    <3>1. Fits
      BY <1>0, <2>8, IdleType, BecomesType DEF Break, Calling
    <3> QED
      BY <2>8, <2>r, <3>1 DEF Break
  <2>9. CASE WriteNote(c)
    <3>1. Fits
      BY <1>0, <2>t, <2>9, RecordType DEF ChainedAt, WriteNote
    <3>2. noteFiles' \subseteq File
      BY <2>t, <2>9 DEF WriteNote, CallsTypeOK, Targets
    <3> QED
      BY <2>9, <3>1, <3>2 DEF WriteNote, history, AskedType, CallsTypeOK
  <2>10. CASE Read(c)
    <3> DEFINE p == [proc[c] EXCEPT !.pc = "write", !.view = Loaded]
    <3>0. Loaded \in Seq(Entries)
      BY DEF Loaded, CallsTypeOK
    <3>1. /\ p \in Callers /\ p.pc = "write" /\ p.call = proc[c].call /\ p.nth = proc[c].nth
          /\ p.then = proc[c].then /\ Becomes(c, p)
      BY <1>0, <2>10, <3>0 DEF Read, Callers
    <3> HIDE DEF p
    <3>2. Fits
      BY <1>0, <2>t, <2>10, <3>1, BecomesType DEF ChainedAt, ChainEnds, Read, At
    <3> QED
      BY <2>10, <3>2 DEF Read, shared, AskedType, CallsTypeOK
  <2>11. CASE Truncate(c)
    <3>1. Fits
      BY <1>0, <2>t, <2>11, GotoType DEF ChainedAt, ChainEnds, Truncate, At, PcOf
    <3> QED
      BY <2>11, <3>1 DEF Truncate, history, AskedType, CallsTypeOK
  <2>12. CASE Fill(c)
    <3>1. Fits
      <4>1. CASE Becomes(c, Idle)
        BY <1>0, <4>1, IdleType, BecomesType DEF Calling
      <4>2. CASE /\ proc[c].then # "idle"
                 /\ Becomes(c, [proc[c] EXCEPT !.pc = proc[c].then, !.view = <<>>])
        <5> DEFINE p == [proc[c] EXCEPT !.pc = proc[c].then, !.view = <<>>]
        <5>2. Becomes(c, p)
          BY <4>2
        <5>3. proc[c].then = "fallback" /\ <<>> \in Seq(Entries)
          BY <1>0, <4>2 DEF Callers
        <5>1. /\ p \in Callers /\ p.pc = "fallback" /\ p.call = proc[c].call
              /\ p.nth = proc[c].nth
          BY <1>0, <5>3 DEF Callers
        <5> HIDE DEF p
        <5> QED
          BY <1>0, <2>t, <2>12, <5>1, <5>2, <5>3, BecomesType DEF ChainedAt, ChainEnds,
             Fill, At
      <4> QED
        BY <2>12, <4>1, <4>2 DEF Fill
    <3>2. index' \in Seq(Entries)
      <4>1. proc[c].view \in Seq(Entries)
        BY <1>0 DEF Callers
      <4> QED
        BY <2>12, <2>c, <4>1, EntryType DEF Fill, CallEvents
    <3> QED
      BY <2>12, <3>1, <3>2 DEF Fill, history, AskedType, CallsTypeOK
  <2> QED
    BY <1>s, <2>1, <2>2, <2>3, <2>4, <2>5, <2>6, <2>7, <2>8, <2>9, <2>10, <2>11, <2>12
    DEF Step
<1> QED
  BY <1>b, <1>k, <1>s

-----------------------------------------------------------------------------
(* Notes go before the entries on them.                                    *)

\* The notes are never taken away, so only what is new need be looked at.
LEMMA NotedKept ==
  ASSUME Noted, NEW c \in Caller, noteFiles \subseteq noteFiles',
         \A d \in Caller \ {c} : proc'[d] = proc[d],
         index' = index \/ \A i \in DOMAIN index' : NotedEntry(index'[i], noteFiles'),
         \A i \in DOMAIN proc'[c].view : NotedEntry(proc'[c].view[i], noteFiles'),
         (/\ proc'[c].pc \in {"read", "write", "fill"} /\ proc'[c].event = "provider_call"
          /\ proc'[c].call.auto /\ proc'[c].call.file # NoFile)
         => proc'[c].call.file \in noteFiles'
  PROVE  Noted'
<1>1. \A i \in DOMAIN index' : NotedEntry(index'[i], noteFiles')
  BY DEF Noted, NotedEntry
<1>2. ASSUME NEW d \in Caller
      PROVE  \A i \in DOMAIN proc'[d].view : NotedEntry(proc'[d].view[i], noteFiles')
  <2>1. CASE d = c
    BY <2>1
  <2>2. CASE d # c
    BY <2>2 DEF Noted, NotedEntry
  <2> QED
    BY <2>1, <2>2
<1>3. ASSUME NEW d \in Caller,
             proc'[d].pc \in {"read", "write", "fill"}, proc'[d].event = "provider_call",
             proc'[d].call.auto, proc'[d].call.file # NoFile
      PROVE  proc'[d].call.file \in noteFiles'
  <2>1. CASE d = c
    BY <1>3, <2>1
  <2>2. CASE d # c
    BY <1>3, <2>2 DEF Noted, Target
  <2> QED
    BY <2>1, <2>2
<1> QED
  BY <1>1, <1>2, <1>3 DEF Noted, Target

\* No step puts an answer on record before its note.
LEMMA NotedStep ==
  ASSUME TypeInv, Noted, NEW c \in Caller, Begin(c) \/ Step(c) \/ Kill(c)
  PROVE  Noted'
<1>0. proc \in [Caller -> Callers] /\ proc[c] \in Callers
  BY DEF CallsTypeOK, TypeInv
<1>v. \A i \in DOMAIN proc[c].view : NotedEntry(proc[c].view[i], noteFiles)
  BY DEF Noted
<1>g. ASSUME UNCHANGED noteFiles, NEW s, \A i \in DOMAIN s : NotedEntry(s[i], noteFiles)
      PROVE  \A i \in DOMAIN s : NotedEntry(s[i], noteFiles')
  BY <1>g DEF NotedEntry
<1>b. CASE Begin(c)
  <2>1. PICK r \in Requests : Becomes(c, [Idle EXCEPT !.pc = "lookup", !.call = r])
    BY <1>b DEF Begin
  <2>2. proc'[c].pc = "lookup" /\ proc'[c].view = <<>> /\ DOMAIN proc'[c].view = {}
    BY <1>0, <2>1 DEF Becomes, Idle
  <2>3. \A d \in Caller \ {c} : proc'[d] = proc[d]
    BY <1>0, <2>1 DEF Becomes
  <2> QED
    BY <1>b, <2>2, <2>3, NotedKept DEF Begin, shared
<1>k. CASE Kill(c) \/ Break(c)
  <2>2. proc'[c].pc \in {"killed", "idle"} /\ proc'[c].view = <<>>
    BY <1>0, <1>k DEF Becomes, Idle, Kill, Break
  <2>3. \A d \in Caller \ {c} : proc'[d] = proc[d]
    BY <1>0, <1>k DEF Becomes, Kill, Break
  <2> QED
    BY <1>k, <2>2, <2>3, NotedKept DEF Kill, Break, shared
<1>1. CASE Lookup(c)
  BY <1>0, <1>1, <1>v, <1>g, RecordType, GotoType, NotedKept DEF Lookup, PcOf, shared
<1>2. CASE CheckFailure(c)
  BY <1>0, <1>2, <1>v, <1>g, RecordType, GotoType, NotedKept DEF CheckFailure, PcOf, shared
<1>3. CASE CheckPolicy(c)
  BY <1>0, <1>3, <1>v, <1>g, RecordType, GotoType, NotedKept DEF CheckPolicy, PcOf, shared
<1>4. CASE Retry(c) \/ Fallback(c)
  <2>1. PICK p \in Callers : Becomes(c, p) /\ p.pc = "call" /\ p.view = proc[c].view
    <3>1. CASE Retry(c)
      <4>1. [proc[c] EXCEPT !.tries = @ + 1] \in Callers
        <5>1. proc[c].tries \in 0 .. MaxRetries /\ MaxRetries \in Nat
          BY <1>0, HelperCallsAssumption DEF Callers
        <5>2. proc[c].tries + 1 \in 0 .. MaxRetries
          BY <3>1, <5>1 DEF Retry, RetriesLeft
        <5> QED
          BY <1>0, <5>2 DEF Callers
      <4> QED
        BY <1>0, <3>1, <4>1 DEF Retry, At, Callers
    <3>2. CASE Fallback(c)
      <4>1. [proc[c] EXCEPT !.pc = "call", !.nth = @ + 1, !.tries = 0] \in Callers
        <5>1. proc[c].nth + 1 \in Nat /\ 0 \in 0 .. MaxRetries
          BY <1>0, HelperCallsAssumption DEF Callers
        <5> QED
          BY <1>0, <5>1 DEF Callers
      <4> QED
        BY <1>0, <3>2, <4>1 DEF Fallback, Callers
    <3> QED
      BY <1>4, <3>1, <3>2
  <2>2. UNCHANGED shared
    BY <1>4 DEF Retry, Fallback
  <2> QED
    BY <1>0, <1>v, <1>g, <2>1, <2>2, BecomesType, NotedKept DEF shared
<1>5. CASE Answer(c)
  <2>1. CASE proc[c].call.auto
    BY <1>0, <1>5, <1>v, <1>g, <2>1, GotoType, NotedKept DEF Answer, PcOf, shared
  <2>2. CASE ~ proc[c].call.auto
    BY <1>0, <1>5, <1>v, <1>g, <2>2, RecordType, NotedKept DEF Answer, shared
  <2> QED
    BY <2>1, <2>2
<1>6. CASE Fail(c)
  BY <1>0, <1>6, <1>v, <1>g, RecordType, NotedKept DEF Fail, shared
<1>7. CASE WriteNote(c)
  <2>1. \A i \in DOMAIN proc[c].view : NotedEntry(proc[c].view[i], noteFiles')
    BY <1>7, <1>v DEF NotedEntry, WriteNote
  <2>2. noteFiles' = noteFiles \cup ({proc[c].call.file} \ {NoFile}) /\ index' = index
    BY <1>7 DEF WriteNote, Target
  <2>3. Record(c, "provider_call", "idle")
    BY <1>7 DEF WriteNote
  <2> QED
    BY <1>0, <2>1, <2>2, <2>3, RecordType, NotedKept
<1>8. CASE Read(c)
  <2> DEFINE p == [proc[c] EXCEPT !.pc = "write", !.view = Loaded]
  <2>1. Loaded \in Seq(Entries) /\ \A i \in DOMAIN Loaded : NotedEntry(Loaded[i], noteFiles)
    BY DEF Loaded, TypeInv, CallsTypeOK, Noted
  <2>2. /\ p \in Callers /\ p.event = proc[c].event /\ p.call = proc[c].call
        /\ p.view = Loaded /\ Becomes(c, p)
    BY <1>0, <1>8, <2>1 DEF Read, Callers
  <2> HIDE DEF p
  <2>3. p.event = "provider_call" /\ p.call.auto /\ p.call.file # NoFile
        => p.call.file \in noteFiles
    BY <1>8, <2>2 DEF Noted, Read, At, Target
  <2>4. UNCHANGED <<index, noteFiles>>
    BY <1>8 DEF Read, shared
  <2>5. \A i \in DOMAIN p.view : NotedEntry(p.view[i], noteFiles')
    BY <1>g, <2>1, <2>2, <2>4
  <2> QED
    BY <1>0, <2>2, <2>3, <2>4, <2>5, BecomesType, NotedKept
<1>9. CASE Truncate(c)
  <2>1. Goto(c, "fill") /\ UNCHANGED <<index, noteFiles>>
    BY <1>9 DEF Truncate
  <2>2. proc[c].event = "provider_call" /\ proc[c].call.auto /\ proc[c].call.file # NoFile
        => proc[c].call.file \in noteFiles
    BY <1>9 DEF Noted, Truncate, At, Target
  <2> QED
    BY <1>0, <1>v, <1>g, <2>1, <2>2, GotoType, NotedKept DEF PcOf
<1>10. CASE Fill(c)
  <2>1. UNCHANGED noteFiles
    BY <1>10 DEF Fill
  <2>2. \A i \in DOMAIN index' : NotedEntry(index'[i], noteFiles')
    <3>0. proc[c].view \in Seq(Entries)
      BY <1>0 DEF Callers
    <3>1. CASE proc[c].event \notin CallEvents
      BY <1>10, <1>v, <1>g, <2>1, <3>1 DEF Fill, CallEvents
    <3>2. CASE proc[c].event \in CallEvents
      <4>0. index' = Append(proc[c].view, Entry(c)) /\ Entry(c) \in Entries
        BY <1>10, <3>2, EntryType DEF Fill, CallEvents, Calling, At, TypeInv
      <4>1. NotedEntry(Entry(c), noteFiles)
        BY <1>10 DEF NotedEntry, Entry, Noted, Fill, At
      <4>2. ASSUME NEW i \in DOMAIN index'
            PROVE  \/ index'[i] = Entry(c)
                   \/ i \in DOMAIN proc[c].view /\ index'[i] = proc[c].view[i]
        BY <3>0, <4>0, Appended
      <4> QED
        BY <1>v, <2>1, <4>1, <4>2 DEF NotedEntry
    <3> QED
      BY <1>10, <3>1, <3>2 DEF Fill
  <2>3. \E p : /\ p \in Callers /\ Becomes(c, p)
              /\ p.pc \in {"idle", "fallback"} /\ p.view = <<>>
    <3>1. CASE Becomes(c, Idle)
      BY <3>1, IdleType
    <3>2. CASE /\ proc[c].then # "idle"
               /\ Becomes(c, [proc[c] EXCEPT !.pc = proc[c].then, !.view = <<>>])
      <4>1. proc[c].then = "fallback" /\ <<>> \in Seq(Entries)
        BY <1>0, <3>2 DEF Callers
      <4> DEFINE p == [proc[c] EXCEPT !.pc = proc[c].then, !.view = <<>>]
      <4>2. p \in Callers /\ p.pc = "fallback" /\ p.view = <<>>
        BY <1>0, <4>1 DEF Callers
      <4>3. Becomes(c, p)
        BY <3>2
      <4> HIDE DEF p
      <4> QED
        BY <4>2, <4>3
    <3> QED
      BY <1>10, <3>1, <3>2 DEF Fill
  <2> QED
    BY <1>0, <2>1, <2>2, <2>3, BecomesType, NotedKept
<1> QED
  BY <1>b, <1>k, <1>1, <1>2, <1>3, <1>4, <1>5, <1>6, <1>7, <1>8, <1>9, <1>10 DEF Step

-----------------------------------------------------------------------------
(* What holds while calls do not collide.                                  *)

\* No step of a call, other than Begin, has a call come nearer to another.
LEMMA ApartKept ==
  ASSUME Apart, NEW c \in Calling, \A d \in Caller \ {c} : proc'[d] = proc[d],
         c \in Calling' => proc'[c].call = proc[c].call
  PROVE  Apart'
<1> SUFFICES ASSUME NEW d \in Calling', NEW e \in Calling', d # e
             PROVE  ~ SameEntries(proc'[d].call.file, proc'[e].call.file)
  BY DEF Apart, Target, SameEntries
<1>1. ASSUME NEW x \in Calling'
      PROVE  x \in Calling /\ proc'[x].call = proc[x].call
  BY DEF Calling
<1>2. d \in Calling /\ e \in Calling /\ ~ SameEntries(Target(d), Target(e))
  BY <1>1 DEF Apart
<1> QED
  BY <1>1, <1>2 DEF Target

\* A step outside of an append leaves the appends alone.
LEMMA AppendsKept ==
  ASSUME OneAppends, NEW c \in Caller, \A d \in Caller \ {c} : proc'[d] = proc[d],
         proc[c].pc \notin {"write", "fill"}, proc'[c].pc \notin {"write", "fill"},
         UNCHANGED <<index, torn>>
  PROVE  OneAppends'
<1>1. \A d \in Caller : d \in Appending' <=> d \in Appending
  BY DEF Appending
<1>2. \A d \in Appending' : d \in Appending /\ proc'[d] = proc[d]
  BY <1>1 DEF Appending
<1>3. (\E d \in Caller : At(d, "fill"))' <=> \E d \in Caller : At(d, "fill")
  BY DEF At
<1> QED
  BY <1>2, <1>3 DEF OneAppends, Appending

\* A step that neither counts an attempt nor records one.
LEMMA RecordsKept ==
  ASSUME InIndex, NEW c \in Caller, \A d \in Caller \ {c} : proc'[d] = proc[d],
         UNCHANGED <<index, asked, last>>,
         Pending(c)' <=> Pending(c),
         Pending(c) => /\ proc'[c].call = proc[c].call /\ proc'[c].nth = proc[c].nth
                       /\ \/ At(c, "note")
                          \/ ~ At(c, "note")' /\ proc'[c].event = proc[c].event
  PROVE  InIndex'
<1> SUFFICES ASSUME NEW f \in Targets, NEW k \in Config
             PROVE  /\ (\A d \in Caller : ~ PendingFor(d, f, k)') => Settled(f, k)'
                    /\ \A d \in Caller : PendingFor(d, f, k)' => SettledBut(d, f, k)'
  BY DEF InIndex
<1>1. ASSUME NEW d \in Caller
      PROVE  PendingFor(d, f, k)' <=> PendingFor(d, f, k)
  <2>1. CASE d = c
    BY <2>1 DEF PendingFor, Target, Sig
  <2>2. CASE d # c
    BY <2>2 DEF PendingFor, Pending, At, Target, Sig
  <2> QED
    BY <2>1, <2>2
<1>2. Settled(f, k)' <=> Settled(f, k)
  BY DEF Settled, Hits, InHits, FailedAtLast
<1>3. ASSUME NEW d \in Caller, PendingFor(d, f, k)'
      PROVE  SettledBut(d, f, k)'
  <2>1. PendingFor(d, f, k) /\ SettledBut(d, f, k)
    BY <1>1, <1>3 DEF InIndex
  <2>2. /\ proc'[d].call = proc[d].call
        /\ At(d, "note") \/ (~ At(d, "note")' /\ proc'[d].event = proc[d].event)
    BY <2>1 DEF PendingFor, At
  <2>3. Hits(f, k)' = Hits(f, k) /\ \A at : InHits(f, k, at)' <=> InHits(f, k, at)
    BY DEF Hits, InHits
  <2> QED
    BY <2>1, <2>2, <2>3 DEF SettledBut
<1> QED
  BY <1>1, <1>2, <1>3 DEF InIndex

\* A step that counts no attempt: what the others may ask stays as it is.
LEMMA ClearedKept ==
  ASSUME Cleared, NEW c \in Caller, \A d \in Caller \ {c} : proc'[d] = proc[d],
         UNCHANGED <<policy, asked, last>>,
         c \in Calling' => ClearedAt(c)'
  PROVE  Cleared'
<1> SUFFICES ASSUME NEW d \in Calling', d # c
             PROVE  ClearedAt(d)'
  BY DEF Cleared
<1>1. d \in Caller /\ proc'[d] = proc[d] /\ d \in Calling
  BY DEF Calling
<1>2. ClearedAt(d)
  BY <1>1 DEF Cleared
<1> QED
  BY <1>1, <1>2 DEF ClearedAt, MayAsk, At, Target, Primary

\* The steps that neither count an attempt, record one, nor touch the index.
LEMMA CalmKept ==
  ASSUME Calm, NEW c \in Calling, \A d \in Caller \ {c} : proc'[d] = proc[d],
         UNCHANGED <<policy, index, torn, asked, last>>,
         c \in Calling' => proc'[c].call = proc[c].call,
         proc[c].pc \notin {"write", "fill"}, proc'[c].pc \notin {"write", "fill"},
         Pending(c)' <=> Pending(c),
         Pending(c) => /\ proc'[c].call = proc[c].call /\ proc'[c].nth = proc[c].nth
                       /\ \/ At(c, "note")
                          \/ ~ At(c, "note")' /\ proc'[c].event = proc[c].event,
         c \in Calling' => ClearedAt(c)'
  PROVE  Calm'
<1>1. c \in Caller
  BY DEF Calling
<1>2. Apart' /\ OneAppends' /\ InIndex' /\ Cleared'
  BY <1>1, ApartKept, AppendsKept, RecordsKept, ClearedKept DEF Calm
<1>3. Kept'
  BY DEF Calm, Kept, KeptFor
<1> QED
  BY <1>2, <1>3 DEF Calm

\* No other call is about to record an attempt for the file of this one.
LEMMA NobodyElse ==
  ASSUME Apart, NEW c \in Calling, NEW k, NEW d \in Caller, PendingFor(d, Target(c), k)
  PROVE  d = c
BY DEF Apart, PendingFor, Pending, At, Calling, SameEntries

\* The hits of a config for a file are finitely many, and an entry that is
\* appended is the last of them.
LEMMA HitsFinite ==
  ASSUME index \in Seq(Entries), NEW f, NEW k
  PROVE  /\ IsFiniteSet(Hits(f, k)) /\ Cardinality(Hits(f, k)) \in Nat
         /\ Hits(f, k) \subseteq 1 .. Len(index)
<1>1. IsFiniteSet(1 .. Len(index))
  BY FS_Interval
<1>2. Hits(f, k) \subseteq 1 .. Len(index)
  BY DEF Hits
<1> QED
  BY <1>1, <1>2, FS_Subset, FS_CardinalityType

\* A call that is at its checks, or asks, finds all that counts in the index.
LEMMA AllSettled ==
  ASSUME TypeInv, Calm, NEW c \in Calling, proc[c].pc \in {"failure", "policy", "call"},
         NEW k \in Config
  PROVE  Settled(Target(c), k)
<1>1. \A d \in Caller : ~ PendingFor(d, Target(c), k)
  BY NobodyElse DEF Calm, PendingFor, Pending, At
<1> QED
  BY <1>1, CallingType DEF Calm, InIndex, TypeInv

\* The attempts for a file are those for it; without one there are more.
LEMMA HitsAreAttempts ==
  ASSUME TypeInv, NEW c \in Calling, ~ torn
  PROVE  /\ Hits(Target(c), Primary(c)) \subseteq Attempts(c)
         /\ Target(c) # NoFile => Attempts(c) = Hits(Target(c), Primary(c))
         /\ IsFiniteSet(Attempts(c)) /\ Loaded = index
<1>1. Loaded = index /\ index \in Seq(Entries)
  BY DEF Loaded, TypeInv, CallsTypeOK
<1>2. IsFiniteSet(Attempts(c))
  <2>1. Attempts(c) \subseteq 1 .. Len(index)
    BY <1>1 DEF Attempts
  <2>2. IsFiniteSet(1 .. Len(index))
    BY <1>1, FS_Interval
  <2> QED
    BY <2>1, <2>2, FS_Subset
<1> QED
  BY <1>1, <1>2 DEF Hits, Attempts

\* CheckFailure lets no failure be repeated.
LEMMA FailureCalm ==
  ASSUME TypeInv, Calm, NEW c \in Calling, CheckFailure(c), ~ disturbed'
  PROVE  Calm'
<1>0. proc \in [Caller -> Callers] /\ c \in Caller /\ ~ torn /\ At(c, "failure")
  BY DEF TypeInv, CallsTypeOK, CheckFailure, Calling
<1>1. CASE Record(c, "skipped_by_cooldown", "idle")
  <2>1. /\ \A d \in Caller \ {c} : proc'[d] = proc[d]
        /\ proc'[c].pc = "read" /\ proc'[c].call = proc[c].call
        /\ proc'[c].event = "skipped_by_cooldown"
    BY <1>0, <1>1, RecordType
  <2>2. ClearedAt(c)' /\ ~ Pending(c) /\ ~ Pending(c)'
    BY <1>0, <2>1 DEF ClearedAt, Pending, At, CallEvents
  <2> QED
    BY <1>0, <2>1, <2>2, CalmKept DEF CheckFailure, shared, At
<1>2. CASE ~ FailedLast(c) /\ Goto(c, "policy")
  <2>1. /\ \A d \in Caller \ {c} : proc'[d] = proc[d]
        /\ proc'[c].pc = "policy" /\ proc'[c].call = proc[c].call
    BY <1>0, <1>2, GotoType DEF PcOf
  <2>2. ASSUME ~ proc[c].call.force, Target(c) # NoFile
        PROVE  last[Target(c)][Primary(c)] # "failed"
    <3>1. Settled(Target(c), Primary(c))
      BY <1>0, AllSettled, CallingType DEF At, TypeInv
    <3>2. Attempts(c) = Hits(Target(c), Primary(c)) /\ Loaded = index
      BY <1>0, <2>2, HitsAreAttempts
    <3>3. ~ FailedAtLast(Target(c), Primary(c))
      BY <1>2, <2>2, <3>2 DEF FailedLast, FailedAtLast
    <3> QED
      BY <3>1, <3>3 DEF Settled
  <2>3. ClearedAt(c)' /\ ~ Pending(c) /\ ~ Pending(c)'
    BY <1>0, <2>1, <2>2 DEF ClearedAt, Pending, At, Target, Primary, CheckFailure
  <2> QED
    BY <1>0, <2>1, <2>3, CalmKept DEF CheckFailure, shared, At
<1> QED
  BY <1>1, <1>2 DEF CheckFailure

\* CheckPolicy lets a call ask only what budget and cooldown allow.
LEMMA PolicyCalm ==
  ASSUME TypeInv, Calm, NEW c \in Calling, CheckPolicy(c), ~ disturbed'
  PROVE  Calm'
<1>0. proc \in [Caller -> Callers] /\ c \in Caller /\ ~ torn /\ At(c, "policy")
  BY DEF TypeInv, CallsTypeOK, CheckPolicy, Calling
<1>1. ASSUME NEW what \in {"skipped_by_cooldown", "skipped_by_budget"},
             Record(c, what, "idle")
      PROVE  Calm'
  <2>1. /\ \A d \in Caller \ {c} : proc'[d] = proc[d]
        /\ proc'[c].pc = "read" /\ proc'[c].call = proc[c].call
        /\ proc'[c].event = what
    BY <1>0, <1>1, RecordType
  <2>2. ClearedAt(c)' /\ ~ Pending(c) /\ ~ Pending(c)'
    BY <1>0, <2>1 DEF ClearedAt, Pending, At, CallEvents
  <2> QED
    BY <1>0, <2>1, <2>2, CalmKept DEF CheckPolicy, shared, At
<1>2. CASE ~ CooldownActive(c) /\ ~ BudgetSpent(c) /\ Goto(c, "call")
  <2>1. /\ \A d \in Caller \ {c} : proc'[d] = proc[d]
        /\ proc'[c].pc = "call" /\ proc'[c].call = proc[c].call
    BY <1>0, <1>2, GotoType DEF PcOf
  <2> DEFINE ats == asked[Target(c)][Primary(c)]
  <2>a. {0} \cup Ats \subseteq Nat
    BY HelperCallsAssumption
  <2>2. /\ Target(c) \in Targets /\ Primary(c) \in Config
        /\ proc[c].call.at \in Nat
    BY <2>a, CallingType DEF TypeInv
  <2>3. ats \in Seq({0} \cup Ats)
    BY <2>2 DEF TypeInv, AskedType
  <2>4. policy.budget \in Nat /\ policy.cooldown \in Nat
    BY HelperCallsAssumption DEF TypeInv, CallsTypeOK
  <2>5. Settled(Target(c), Primary(c))
    BY <1>0, <2>2, AllSettled DEF At
  <2>6. /\ Hits(Target(c), Primary(c)) \subseteq Attempts(c) /\ Loaded = index
        /\ IsFiniteSet(Attempts(c))
    BY <1>0, HitsAreAttempts
  <2>7. Cardinality(Hits(Target(c), Primary(c))) <= Cardinality(Attempts(c))
    BY <2>6, FS_Subset
  <2>8. Len(ats) < policy.budget
    <3>1. Cardinality(Attempts(c)) \in Nat /\ Cardinality(Hits(Target(c), Primary(c))) \in Nat
      BY <2>6, FS_Subset, FS_CardinalityType
    <3>2. Len(ats) \in Nat /\ Len(ats) <= Cardinality(Hits(Target(c), Primary(c)))
      BY <2>3, <2>5 DEF Settled
    <3>3. ~ Cardinality(Attempts(c)) >= policy.budget
      BY <1>2 DEF BudgetSpent
    <3> QED
      BY <2>4, <2>7, <3>1, <3>2, <3>3
  <2>9. ASSUME NEW i \in DOMAIN ats, 0 \notin {ats[i], proc[c].call.at, policy.cooldown}
        PROVE  proc[c].call.at > ats[i] + policy.cooldown
    <3>1. ats[i] \in PriorAts(c)
      BY <2>5, <2>6, <2>9 DEF Settled, InHits, PriorAts
    <3>2. ~ proc[c].call.at - ats[i] <= policy.cooldown
      BY <1>2, <2>2, <2>4, <2>9, <3>1 DEF CooldownActive
    <3>3. ats[i] \in Nat
      <4>1. ats[i] \in {0} \cup Ats
        BY <2>3, <2>9
      <4> QED
        BY <2>a, <4>1
    <3> QED
      BY <2>2, <2>4, <3>2, <3>3
  <2>10. MayAsk(c, ats)
    BY <2>8, <2>9 DEF MayAsk
  <2>11. ClearedAt(c)' /\ ~ Pending(c) /\ ~ Pending(c)'
    BY <1>0, <2>1, <2>10 DEF ClearedAt, MayAsk, Pending, At, Target, Primary, CheckPolicy,
       shared
  <2> QED
    BY <1>0, <2>1, <2>11, CalmKept DEF CheckPolicy, shared, At
<1> QED
  BY <1>1, <1>2 DEF CheckPolicy

\* An attempt is counted, and is then to be recorded.
LEMMA CountCalm ==
  ASSUME TypeInv, Calm, NEW c \in Calling, At(c, "call"),
         NEW how \in {"answered", "failed"}, Count(c, how),
         UNCHANGED <<policy, index, torn>>,
         \A d \in Caller \ {c} : proc'[d] = proc[d],
         proc'[c].pc \in {"note", "read"}, Pending(c)',
         proc'[c].call = proc[c].call, proc'[c].nth = proc[c].nth,
         how = "failed" => proc'[c].pc = "read" /\ proc'[c].event = "provider_call_failed"
  PROVE  Calm'
<1> DEFINE F == Target(c)
           K == Sig(c)
           at == proc[c].call.at
<1>1. /\ c \in Caller /\ F \in Targets /\ K \in Config /\ at \in {0} \cup Ats
      /\ at \in Nat
  <2>1. {0} \cup Ats \subseteq Nat
    BY HelperCallsAssumption
  <2> QED
    BY <2>1, CallingType DEF TypeInv
<1>2. /\ asked \in [Targets -> [Config -> Seq({0} \cup Ats)]]
      /\ last \in [Targets -> [Config -> {"none", "answered", "failed"}]]
  BY DEF TypeInv, AskedType
<1>3. /\ \A f \in Targets, k \in Config : f # F \/ k # K =>
            asked'[f][k] = asked[f][k] /\ last'[f][k] = last[f][k]
      /\ \A f \in Targets : f # F => asked'[f] = asked[f] /\ last'[f] = last[f]
  BY <1>1, <1>2 DEF Count
<1>4. /\ last'[F][K] = how
      /\ proc[c].nth = 1 => asked'[F][K] = Append(asked[F][K], at)
      /\ proc[c].nth # 1 => asked'[F][K] = asked[F][K]
  BY <1>1, <1>2 DEF Count
<1>5. asked[F][K] \in Seq({0} \cup Ats)
  BY <1>1, <1>2
<1>6. Apart'
  BY ApartKept DEF Calm
<1>7. OneAppends'
  BY <1>1, AppendsKept DEF Calm, At
<1>8. Target(c)' = F /\ Sig(c)' = K
  BY DEF Target, Sig
<1>9. Settled(F, K)
  BY <1>1, AllSettled DEF At
<1>10. ~ Pending(c)
  BY DEF Pending, At
<1>11. Cleared'
  <2> SUFFICES ASSUME NEW d \in Calling'
               PROVE  ClearedAt(d)'
    BY DEF Cleared
  <2>1. CASE d = c
    BY <2>1 DEF ClearedAt, At
  <2>2. CASE d # c
    <3>1. d \in Calling /\ proc'[d] = proc[d]
      BY <2>2 DEF Calling
    <3>2. Target(d) \in Targets /\ Target(d) # F /\ ClearedAt(d)
      BY <2>2, <3>1, CallingType DEF Calm, Apart, SameEntries, Cleared, TypeInv
    <3>3. asked'[Target(d)] = asked[Target(d)] /\ last'[Target(d)] = last[Target(d)]
      BY <1>3, <3>2
    <3> QED
      BY <3>1, <3>2, <3>3 DEF ClearedAt, MayAsk, At, Target, Primary
  <2> QED
    BY <2>1, <2>2
<1>12. Kept'
  <2> SUFFICES ASSUME NEW f \in Targets, NEW k \in Config
               PROVE  KeptFor(asked[f][k])'
    BY DEF Kept
  <2>1. KeptFor(asked[f][k])
    BY DEF Calm, Kept
  <2>2. CASE asked'[f][k] = asked[f][k]
    BY <2>1, <2>2 DEF KeptFor
  <2>3. CASE f = F /\ k = K /\ proc[c].nth = 1
    <3> DEFINE s == asked[F][K]
    <3>1. MayAsk(c, s)
      BY <2>3 DEF Calm, Cleared, ClearedAt, Primary, Sig
    <3>2. /\ asked'[f][k] = Append(s, at) /\ Len(s) \in Nat
          /\ Len(asked'[f][k]) = Len(s) + 1 /\ DOMAIN s = 1 .. Len(s)
          /\ DOMAIN asked'[f][k] = 1 .. Len(s) + 1
          /\ asked'[f][k][Len(s) + 1] = at
          /\ \A i \in 1 .. Len(s) : asked'[f][k][i] = s[i]
      BY <1>1, <1>4, <1>5, <2>3, Appended
    <3>3. policy.budget \in Nat /\ policy.cooldown \in Nat
      BY HelperCallsAssumption DEF TypeInv, CallsTypeOK
    <3>4. Len(asked'[f][k]) <= policy.budget
      BY <3>1, <3>2, <3>3 DEF MayAsk
    <3>5. ASSUME NEW i \in DOMAIN asked'[f][k], NEW j \in DOMAIN asked'[f][k], i < j,
                 0 \notin {asked'[f][k][i], asked'[f][k][j], policy.cooldown}
          PROVE  asked'[f][k][j] > asked'[f][k][i] + policy.cooldown
      <4>1. i \in 1 .. Len(s) /\ asked'[f][k][i] = s[i]
        BY <3>2, <3>5
      <4>2. CASE j \in 1 .. Len(s)
        BY <2>1, <2>3, <3>2, <3>5, <4>1, <4>2 DEF KeptFor
      <4>3. CASE j = Len(s) + 1
        BY <3>1, <3>2, <3>5, <4>1, <4>3 DEF MayAsk
      <4> QED
        BY <3>2, <4>2, <4>3
    <3> QED
      BY <3>4, <3>5 DEF KeptFor
  <2> QED
    BY <1>3, <1>4, <2>2, <2>3
<1>13. InIndex'
  <2> SUFFICES ASSUME NEW f \in Targets, NEW k \in Config
               PROVE  /\ (\A d \in Caller : ~ PendingFor(d, f, k)') => Settled(f, k)'
                      /\ \A d \in Caller : PendingFor(d, f, k)' => SettledBut(d, f, k)'
    BY DEF InIndex
  <2>h. Hits(f, k)' = Hits(f, k) /\ \A t : InHits(f, k, t)' <=> InHits(f, k, t)
    BY DEF Hits, InHits
  <2>1. CASE f = F /\ k = K
    <3>1. PendingFor(c, f, k)'
      BY <1>8, <2>1 DEF PendingFor
    <3>2. ASSUME NEW d \in Caller, PendingFor(d, f, k)'
          PROVE  d = c
      BY <1>6, <1>8, <2>1, <3>2 DEF Apart, PendingFor, Pending, At, Calling, SameEntries,
         Target
    <3>3. SettledBut(c, f, k)'
      <4>1. Len(asked'[F][K]) <= Cardinality(Hits(F, K)) + 1
        <5>1. Cardinality(Hits(F, K)) \in Nat
          BY HitsFinite DEF TypeInv, CallsTypeOK
        <5>2. /\ Len(asked'[F][K]) <= Len(asked[F][K]) + 1
              /\ Len(asked[F][K]) \in Nat /\ Len(asked'[F][K]) \in Nat
          BY <1>1, <1>4, <1>5, Appended
        <5> QED
          BY <1>9, <5>1, <5>2 DEF Settled
      <4>2. ASSUME NEW i \in DOMAIN asked'[F][K]
            PROVE  asked'[F][K][i] = at \/ InHits(F, K, asked'[F][K][i])
        <5>1. \/ asked'[F][K][i] = at
              \/ i \in DOMAIN asked[F][K] /\ asked'[F][K][i] = asked[F][K][i]
          <6>1. CASE proc[c].nth # 1
            BY <1>4, <6>1
          <6>2. CASE proc[c].nth = 1
            <7>1. asked'[F][K] = Append(asked[F][K], at)
              BY <1>4, <6>2
            <7> QED
              BY <1>1, <1>5, <7>1, Appended
          <6> QED
            BY <6>1, <6>2
        <5> QED
          BY <1>9, <5>1 DEF Settled
      <4>3. last'[F][K] = "failed"
            => ~ At(c, "note")' /\ proc'[c].event = "provider_call_failed"
        BY <1>4 DEF At
      <4> QED
        BY <2>1, <2>h, <4>1, <4>2, <4>3 DEF SettledBut
    <3>4. ASSUME NEW d \in Caller, PendingFor(d, f, k)'
          PROVE  SettledBut(d, f, k)'
      BY <3>2, <3>3, <3>4, Zenon
    <3> QED
      BY <1>1, <3>1, <3>4, Zenon
  <2>2. CASE f # F \/ k # K
    <3>1. asked'[f][k] = asked[f][k] /\ last'[f][k] = last[f][k]
      BY <1>3, <2>2
    <3>2. ASSUME NEW d \in Caller
          PROVE  PendingFor(d, f, k)' <=> (d # c /\ PendingFor(d, f, k))
      <4>1. CASE d = c
        BY <1>8, <2>2, <4>1 DEF PendingFor
      <4>2. CASE d # c
        BY <4>2 DEF PendingFor, Pending, At, Target, Sig
      <4> QED
        BY <4>1, <4>2
    <3>3. ~ PendingFor(c, f, k)
      BY <1>10 DEF PendingFor
    <3>4. Settled(f, k)' <=> Settled(f, k)
      BY <2>h, <3>1 DEF Settled, FailedAtLast
    <3>5. ASSUME NEW d \in Caller, PendingFor(d, f, k)'
          PROVE  SettledBut(d, f, k)'
      <4>1. d # c /\ proc'[d] = proc[d] /\ SettledBut(d, f, k)
        BY <3>2, <3>5 DEF Calm, InIndex
      <4> QED
        BY <2>h, <3>1, <4>1 DEF SettledBut, At
    <3> QED
      BY <3>2, <3>3, <3>4, <3>5 DEF Calm, InIndex
  <2> QED
    BY <2>1, <2>2
<1> QED
  BY <1>6, <1>7, <1>11, <1>12, <1>13 DEF Calm

\* Who fills the index in is the only one that appends, and puts back what it had.
LEMMA FillCalm ==
  ASSUME TypeInv, Calm, NEW c \in Calling, Fill(c)
  PROVE  Calm'
<1>0. /\ proc \in [Caller -> Callers] /\ proc[c] \in Callers /\ c \in Caller
      /\ At(c, "fill") /\ c \in Appending
  BY DEF TypeInv, CallsTypeOK, Fill, Calling, Appending, At
<1>1. /\ proc[c].view = index /\ torn /\ ~ torn'
      /\ \A d \in Appending : d = c
  BY <1>0 DEF Calm, OneAppends, Fill
<1>2. /\ \A d \in Caller \ {c} : proc'[d] = proc[d]
      /\ proc'[c].pc \in {"idle", "fallback"}
      /\ c \in Calling' => proc'[c].call = proc[c].call
  <2>1. CASE Becomes(c, Idle)
    BY <1>0, <2>1, IdleType, BecomesType DEF Calling
  <2>2. CASE /\ proc[c].then # "idle"
             /\ Becomes(c, [proc[c] EXCEPT !.pc = proc[c].then, !.view = <<>>])
    <3> DEFINE p == [proc[c] EXCEPT !.pc = proc[c].then, !.view = <<>>]
    <3>1. proc[c].then = "fallback" /\ <<>> \in Seq(Entries)
      BY <1>0, <2>2 DEF Callers
    <3>2. p \in Callers /\ p.pc = "fallback" /\ p.call = proc[c].call
      BY <1>0, <3>1 DEF Callers
    <3>3. Becomes(c, p)
      BY <2>2
    <3> HIDE DEF p
    <3> QED
      BY <1>0, <3>2, <3>3, BecomesType
  <2> QED
    BY <2>1, <2>2 DEF Fill
<1>3. UNCHANGED <<policy, asked, last>>
  BY DEF Fill, history
<1>4. Apart'
  BY <1>2, ApartKept DEF Calm
<1>5. OneAppends'
  <2>1. \A d \in Caller : d \notin Appending'
    BY <1>1, <1>2 DEF Appending
  <2> QED
    BY <1>1, <2>1 DEF OneAppends, Appending, At
<1>6. Cleared'
  <2>1. ClearedAt(c)'
    BY <1>2 DEF ClearedAt, At
  <2> QED
    BY <1>0, <1>2, <1>3, <2>1, ClearedKept DEF Calm
<1>7. Kept'
  BY <1>3 DEF Calm, Kept, KeptFor
<1>8. InIndex'
  <2>1. CASE proc[c].event \notin CallEvents
    <3>1. UNCHANGED <<index, asked, last>>
      BY <1>1, <1>3, <2>1 DEF Fill, CallEvents
    <3>2. ~ Pending(c) /\ ~ Pending(c)'
      BY <1>0, <1>2, <2>1 DEF Pending, At
    <3> QED
      BY <1>0, <1>2, <3>1, <3>2, RecordsKept DEF Calm
  <2>2. CASE proc[c].event \in CallEvents
    <3> DEFINE F == Target(c)
               K == Sig(c)
               n == Len(index)
    <3>1. /\ F \in Targets /\ K \in Config /\ index \in Seq(Entries) /\ Entry(c) \in Entries
      BY <2>2, CallingType, EntryType DEF TypeInv, CallsTypeOK
    <3>2. index' = Append(index, Entry(c))
      BY <1>1, <2>2 DEF Fill, CallEvents
    <3>3. /\ n \in Nat /\ DOMAIN index = 1 .. n /\ DOMAIN index' = 1 .. n + 1
          /\ index'[n + 1] = Entry(c)
          /\ \A i \in 1 .. n : index'[i] = index[i]
      BY <3>1, <3>2, Appended
    <3>4. /\ Entry(c).file = F /\ Entry(c).sig = K /\ Entry(c).at = proc[c].call.at
          /\ Entry(c).event = proc[c].event
      BY DEF Entry
    <3>5. PendingFor(c, F, K)
      BY <1>0, <2>2 DEF PendingFor, Pending, At
    <3>6. SettledBut(c, F, K)
      BY <1>0, <3>1, <3>5 DEF Calm, InIndex
    <3> HIDE DEF n, F, K
    <3> SUFFICES ASSUME NEW f \in Targets, NEW k \in Config
                 PROVE  /\ (\A d \in Caller : ~ PendingFor(d, f, k)') => Settled(f, k)'
                        /\ \A d \in Caller : PendingFor(d, f, k)' => SettledBut(d, f, k)'
      BY DEF InIndex
    <3>7. CASE f = F /\ k = K
      <4>0. /\ Entry(c).file = f /\ Entry(c).sig = k /\ Entry(c).at = proc[c].call.at
            /\ Entry(c).event = proc[c].event
            /\ SettledBut(c, f, k)
        BY <3>4, <3>6, <3>7
      <4>1. Hits(f, k)' = Hits(f, k) \cup {n + 1}
        <5>1. \A i : i \in 1 .. n + 1 <=> i \in 1 .. n \/ i = n + 1
          BY <3>3
        <5>2. \A i : i \in Hits(f, k)' <=>
                       i \in 1 .. n + 1 /\ index'[i].file = f /\ index'[i].sig = k
          BY <3>3 DEF Hits
        <5>3. \A i : i \in Hits(f, k) <=>
                       i \in 1 .. n /\ index[i].file = f /\ index[i].sig = k
          BY <3>3 DEF Hits
        <5>4. \A i : i \in Hits(f, k)' <=> i \in Hits(f, k) \/ i = n + 1
          BY <3>3, <4>0, <5>1, <5>2, <5>3
        <5> QED
          BY <5>4
      <4>2. n + 1 \notin Hits(f, k) /\ \A j \in Hits(f, k) : j <= n
        BY <3>3 DEF Hits
      <4>3. /\ Cardinality(Hits(f, k)') = Cardinality(Hits(f, k)) + 1
            /\ Cardinality(Hits(f, k)) \in Nat
        BY <3>1, <4>1, <4>2, HitsFinite, FS_AddElement
      <4>4. Len(asked'[f][k]) <= Cardinality(Hits(f, k)')
        BY <1>3, <4>0, <4>3 DEF SettledBut
      <4>5. ASSUME NEW i \in DOMAIN asked'[f][k]
            PROVE  \E h \in Hits(f, k)' : index'[h].at = asked'[f][k][i]
        <5>1. asked'[f][k][i] = proc[c].call.at \/ InHits(f, k, asked[f][k][i])
          BY <1>3, <4>0 DEF SettledBut
        <5>2. CASE asked'[f][k][i] = proc[c].call.at
          BY <3>3, <4>0, <4>1, <5>2
        <5>3. CASE InHits(f, k, asked[f][k][i])
          <6>1. PICK h \in Hits(f, k) : index[h].at = asked[f][k][i]
            BY <5>3 DEF InHits
          <6>2. h \in 1 .. n
            BY <3>3, <6>1 DEF Hits
          <6> QED
            BY <1>3, <3>3, <4>1, <6>1, <6>2
        <5> QED
          BY <5>1, <5>2, <5>3
      <4>6. ASSUME last'[f][k] = "failed"
            PROVE  \E i \in Hits(f, k)' : /\ \A j \in Hits(f, k)' : j <= i
                                          /\ index'[i].event = "provider_call_failed"
        <5>1. index'[n + 1].event = "provider_call_failed"
          BY <1>3, <3>3, <4>0, <4>6 DEF SettledBut
        <5>2. \A j \in Hits(f, k)' : j <= n + 1
          BY <3>3, <4>1, <4>2 DEF Hits
        <5> QED
          BY <4>1, <5>1, <5>2
      <4>7. Settled(f, k)'
        BY <3>7, <4>4, <4>5, <4>6 DEF Settled, InHits, FailedAtLast
      <4>8. ASSUME NEW d \in Caller, PendingFor(d, f, k)'
            PROVE  FALSE
        <5>1. d # c
          BY <1>2, <4>8 DEF PendingFor, Pending, At
        <5>2. PendingFor(d, F, k)
          BY <1>2, <3>7, <4>8, <5>1 DEF PendingFor, Pending, At, Target, Sig
        <5> QED
          BY <5>1, <5>2, NobodyElse DEF Calm, F
      <4> QED
        BY <4>7, <4>8
    <3>8. CASE f # F \/ k # K
      <4>1. Hits(f, k)' = Hits(f, k) /\ Hits(f, k) \subseteq 1 .. n
        <5>1. n + 1 \notin Hits(f, k)'
          BY <3>3, <3>4, <3>8 DEF Hits
        <5> QED
          BY <3>3, <5>1 DEF Hits
      <4>2. /\ \A t : InHits(f, k, t)' <=> InHits(f, k, t)
            /\ FailedAtLast(f, k)' <=> FailedAtLast(f, k)
        BY <3>3, <4>1 DEF InHits, FailedAtLast
      <4>3. Settled(f, k)' <=> Settled(f, k)
        BY <1>3, <4>1, <4>2 DEF Settled
      <4>4. ASSUME NEW d \in Caller
            PROVE  PendingFor(d, f, k)' <=> PendingFor(d, f, k)
        <5>1. CASE d = c
          BY <1>2, <3>8, <5>1 DEF PendingFor, Pending, At, F, K
        <5>2. CASE d # c
          BY <1>2, <5>2 DEF PendingFor, Pending, At, Target, Sig
        <5> QED
          BY <5>1, <5>2
      <4>5. ASSUME NEW d \in Caller, PendingFor(d, f, k)'
            PROVE  SettledBut(d, f, k)'
        <5>1. d # c
          BY <1>2, <4>5 DEF PendingFor, Pending, At
        <5>2. proc'[d] = proc[d] /\ SettledBut(d, f, k)
          BY <1>2, <4>4, <4>5, <5>1 DEF Calm, InIndex
        <5> QED
          BY <1>3, <4>1, <4>2, <5>2 DEF SettledBut, At
      <4> QED
        BY <4>3, <4>4, <4>5 DEF Calm, InIndex
    <3> QED
      BY <3>7, <3>8
  <2> QED
    BY <2>1, <2>2
<1> QED
  BY <1>4, <1>5, <1>6, <1>7, <1>8 DEF Calm

\* Reading and truncating: one append at a time, of what the index is.
LEMMA AppendCalm ==
  ASSUME TypeInv, Calm, NEW c \in Calling, Read(c) \/ Truncate(c), ~ disturbed'
  PROVE  Calm'
<1>0. proc \in [Caller -> Callers] /\ proc[c] \in Callers /\ c \in Caller
  BY DEF TypeInv, CallsTypeOK, Calling
<1>1. /\ \A d \in Caller \ {c} : proc'[d] = proc[d]
      /\ proc[c].pc \in {"read", "write"} /\ proc'[c].pc \in {"write", "fill"}
      /\ proc'[c].call = proc[c].call /\ proc'[c].nth = proc[c].nth
      /\ proc'[c].event = proc[c].event
      /\ Read(c) => proc'[c].view = Loaded /\ proc'[c].pc = "write"
      /\ Truncate(c) => proc'[c].view = proc[c].view /\ proc'[c].pc = "fill"
  <2>1. CASE Read(c)
    <3> DEFINE p == [proc[c] EXCEPT !.pc = "write", !.view = Loaded]
    <3>1. Loaded \in Seq(Entries)
      BY DEF Loaded, TypeInv, CallsTypeOK
    <3>2. /\ p \in Callers /\ p.pc = "write" /\ p.view = Loaded /\ p.call = proc[c].call
          /\ p.nth = proc[c].nth /\ p.event = proc[c].event /\ Becomes(c, p)
      BY <1>0, <2>1, <3>1 DEF Read, Callers
    <3> HIDE DEF p
    <3> QED
      BY <1>0, <2>1, <3>2, BecomesType DEF Read, Truncate, At
  <2>2. CASE Truncate(c)
    BY <1>0, <2>2, GotoType DEF Read, Truncate, At, PcOf
  <2> QED
    BY <2>1, <2>2
<1>2. UNCHANGED <<policy, index, asked, last>>
  BY DEF Read, Truncate, shared, history
<1>3. Apart' /\ InIndex' /\ Cleared'
  <2>1. (Pending(c)' <=> Pending(c)) /\ ~ At(c, "note")'
    BY <1>1 DEF Pending, At
  <2>2. ClearedAt(c)'
    BY <1>1 DEF ClearedAt, At
  <2> QED
    BY <1>0, <1>1, <1>2, <2>1, <2>2, ApartKept, RecordsKept, ClearedKept DEF Calm
<1>4. Kept'
  BY <1>2 DEF Calm, Kept, KeptFor
<1>5. OneAppends'
  <2>1. CASE Read(c)
    <3>1. Appending = {} /\ ~ torn /\ ~ torn' /\ Loaded = index
      BY <2>1 DEF Read, shared, Loaded
    <3>2. \A d \in Appending' : d = c
      BY <1>1, <3>1 DEF Appending
    <3>3. \A d \in Caller : ~ At(d, "fill")'
      BY <1>1, <2>1, <3>1 DEF Appending, At
    <3> QED
      BY <1>1, <1>2, <2>1, <3>1, <3>2, <3>3 DEF OneAppends
  <2>2. CASE Truncate(c)
    <3>1. torn' /\ c \in Appending
      BY <1>0, <2>2 DEF Truncate, Appending, At
    <3>2. /\ \A d \in Appending : d = c
          /\ proc[c].view = index
      BY <3>1 DEF Calm, OneAppends
    <3>3. \A d \in Appending' : d = c
      BY <1>1, <3>2 DEF Appending
    <3>4. At(c, "fill")'
      BY <1>1, <2>2 DEF At
    <3> QED
      BY <1>0, <1>1, <1>2, <2>2, <3>1, <3>2, <3>3, <3>4 DEF OneAppends
  <2> QED
    BY <2>1, <2>2
<1> QED
  BY <1>3, <1>4, <1>5 DEF Calm

\* A call that begins does not collide with another, or it is noticed.
LEMMA BeginCalm ==
  ASSUME TypeInv, Calm, NEW c \in Caller, Begin(c), ~ disturbed'
  PROVE  Calm'
<1>0. proc \in [Caller -> Callers] /\ At(c, "idle")
  BY DEF TypeInv, CallsTypeOK, Begin
<1>1. PICK r \in Requests :
         /\ Becomes(c, [Idle EXCEPT !.pc = "lookup", !.call = r])
         /\ disturbed' = (disturbed \/ \E d \in Calling : SameEntries(r.file, Target(d)))
  BY DEF Begin
<1>2. /\ \A d \in Caller \ {c} : proc'[d] = proc[d]
      /\ proc'[c].pc = "lookup" /\ proc'[c].call = r
  BY <1>0, <1>1 DEF Becomes, Idle
<1>3. UNCHANGED <<policy, index, torn, asked, last>>
  BY DEF Begin, shared
<1>4. ~ Pending(c) /\ ~ Pending(c)' /\ ClearedAt(c)'
  BY <1>0, <1>2 DEF Pending, ClearedAt, At
<1>5. Apart'
  <2>1. \A d \in Calling : ~ SameEntries(r.file, Target(d))
    BY <1>1
  <2>2. ASSUME NEW d \in Calling', d # c
        PROVE  d \in Calling /\ proc'[d].call = proc[d].call
    BY <1>2, <2>2 DEF Calling
  <2> SUFFICES ASSUME NEW d \in Calling', NEW e \in Calling', d # e
               PROVE  ~ SameEntries(proc'[d].call.file, proc'[e].call.file)
    BY DEF Apart, Target, SameEntries
  <2>3. CASE d = c
    BY <1>2, <2>1, <2>2, <2>3 DEF SameEntries, Target
  <2>4. CASE e = c
    BY <1>2, <2>1, <2>2, <2>4 DEF SameEntries, Target
  <2>5. CASE d # c /\ e # c
    BY <2>2, <2>5 DEF Calm, Apart, SameEntries, Target
  <2> QED
    BY <2>3, <2>4, <2>5
<1>6. OneAppends' /\ InIndex' /\ Cleared'
  BY <1>0, <1>2, <1>3, <1>4, AppendsKept, RecordsKept, ClearedKept DEF Calm, At
<1>7. Kept'
  BY <1>3 DEF Calm, Kept, KeptFor
<1> QED
  BY <1>5, <1>6, <1>7 DEF Calm

\* Every step that is not noticed as a collision keeps what holds without one.
LEMMA CalmStep ==
  ASSUME TypeInv, Calm, NEW c \in Caller, Begin(c) \/ Step(c) \/ Kill(c), ~ disturbed'
  PROVE  Calm'
<1>0. proc \in [Caller -> Callers] /\ proc[c] \in Callers
  BY DEF TypeInv, CallsTypeOK
<1>b. CASE Begin(c)
  BY <1>b, BeginCalm
<1>k. CASE Kill(c)
  BY <1>k DEF Kill
<1>s. ASSUME Step(c)
      PROVE  Calm'
  <2>c. c \in Calling
    BY <1>s DEF Step, Lookup, CheckFailure, CheckPolicy, Retry, Answer, Fail, Fallback, Break,
       WriteNote, Read, Truncate, Fill, At, Calling
  <2>1. CASE Lookup(c)
    <3>1. /\ \A d \in Caller \ {c} : proc'[d] = proc[d]
          /\ proc'[c].call = proc[c].call
          /\ \/ proc'[c].pc = "failure"
             \/ proc'[c].pc = "read" /\ proc'[c].event = "note_reuse"
      BY <1>0, <2>1, RecordType, GotoType DEF Lookup, PcOf
    <3>2. ~ Pending(c) /\ ~ Pending(c)' /\ ClearedAt(c)'
      BY <2>1, <3>1 DEF Lookup, Pending, ClearedAt, At, CallEvents
    <3> QED
      BY <2>1, <2>c, <3>1, <3>2, CalmKept DEF Lookup, At, shared, history
  <2>2. CASE CheckFailure(c)
    BY <2>2, <2>c, FailureCalm
  <2>3. CASE CheckPolicy(c)
    BY <2>3, <2>c, PolicyCalm
  <2>4. CASE Retry(c)
    <3>1. /\ \A d \in Caller \ {c} : proc'[d] = proc[d]
          /\ proc'[c].call = proc[c].call /\ proc'[c].nth = proc[c].nth
          /\ proc'[c].pc = "call" /\ proc[c].pc = "call"
      BY <1>0, <2>4 DEF Retry, Becomes, At, Callers
    <3>2. ~ Pending(c) /\ ~ Pending(c)'
      BY <3>1 DEF Pending, At
    <3>3. ClearedAt(c)'
      <4>1. ClearedAt(c) /\ UNCHANGED <<asked, policy>>
        BY <2>4, <2>c DEF Calm, Cleared, Retry, history, shared
      <4> QED
        BY <3>1, <4>1 DEF ClearedAt, MayAsk, At, Target, Primary
    <3> QED
      BY <2>4, <2>c, <3>1, <3>2, <3>3, CalmKept DEF Retry, shared, history
  <2>5. CASE Answer(c)
    <3>1. /\ \A d \in Caller \ {c} : proc'[d] = proc[d]
          /\ proc'[c].call = proc[c].call /\ proc'[c].nth = proc[c].nth
          /\ \/ proc'[c].pc = "note"
             \/ proc'[c].pc = "read" /\ proc'[c].event = "provider_call"
      BY <1>0, <2>5, RecordType, GotoType DEF Answer, PcOf
    <3>2. Pending(c)'
      BY <3>1 DEF Pending, At, CallEvents
    <3> QED
      BY <2>5, <2>c, <3>1, <3>2, CountCalm DEF Answer, shared
  <2>6. CASE Fail(c)
    <3>1. /\ \A d \in Caller \ {c} : proc'[d] = proc[d]
          /\ proc'[c].call = proc[c].call /\ proc'[c].nth = proc[c].nth
          /\ proc'[c].pc = "read" /\ proc'[c].event = "provider_call_failed"
      BY <1>0, <2>6, RecordType DEF Fail
    <3>2. Pending(c)'
      BY <3>1 DEF Pending, CallEvents
    <3> QED
      BY <2>6, <2>c, <3>1, <3>2, CountCalm DEF Fail, shared
  <2>7. CASE Fallback(c)
    <3>1. /\ \A d \in Caller \ {c} : proc'[d] = proc[d]
          /\ proc'[c].call = proc[c].call /\ proc'[c].nth = proc[c].nth + 1
          /\ proc'[c].pc = "call" /\ proc[c].pc = "fallback"
      BY <1>0, <2>7 DEF Fallback, Becomes, At, Callers
    <3>2. ~ Pending(c) /\ ~ Pending(c)'
      BY <3>1 DEF Pending, At
    <3>3. ClearedAt(c)'
      <4>1. proc[c].nth >= 1 /\ proc[c].nth \in Nat
        BY <2>c, CallingType DEF TypeInv
      <4> QED
        BY <3>1, <4>1 DEF ClearedAt, At
    <3> QED
      BY <2>7, <2>c, <3>1, <3>2, <3>3, CalmKept DEF Fallback, shared, history
  <2>8. CASE Break(c)
    <3>1. /\ \A d \in Caller \ {c} : proc'[d] = proc[d]
          /\ proc'[c] = Idle /\ c \notin Calling' /\ proc[c].pc = "call"
      BY <1>0, <2>8, IdleType DEF Break, Becomes, At, Calling
    <3>2. ~ Pending(c) /\ ~ Pending(c)'
      BY <3>1, IdleType DEF Pending, At
    <3> QED
      BY <2>8, <2>c, <3>1, <3>2, IdleType, CalmKept DEF Break, shared, history
  <2>9. CASE WriteNote(c)
    <3>1. /\ \A d \in Caller \ {c} : proc'[d] = proc[d]
          /\ proc'[c].call = proc[c].call /\ proc'[c].nth = proc[c].nth
          /\ proc'[c].pc = "read" /\ proc'[c].event = "provider_call"
      BY <1>0, <2>9, RecordType DEF WriteNote
    <3>2. Pending(c) /\ Pending(c)' /\ At(c, "note") /\ ClearedAt(c)'
      BY <2>9, <3>1 DEF WriteNote, Pending, ClearedAt, At, CallEvents
    <3> QED
      BY <2>9, <2>c, <3>1, <3>2, CalmKept DEF WriteNote, At, history
  <2>10. CASE Read(c) \/ Truncate(c)
    BY <2>10, <2>c, AppendCalm
  <2>11. CASE Fill(c)
    BY <2>11, <2>c, FillCalm
  <2> QED
    BY <1>s, <2>1, <2>2, <2>3, <2>4, <2>5, <2>6, <2>7, <2>8, <2>9, <2>10, <2>11 DEF Step
<1> QED
  BY <1>b, <1>k, <1>s

-----------------------------------------------------------------------------
(* The theorems.                                                           *)

\* Nothing has been asked, and nothing is on record.
LEMMA CallsBegin ==
  ASSUME CallsInit
  PROVE  CallsIInv
<1> USE DEF CallsInit
<1>1. proc = [c \in Caller |-> Idle] /\ Calling = {}
  BY IdleType DEF Calling
<1>2. \A c \in Caller : proc[c] = Idle /\ ~ Pending(c)
  BY <1>1, IdleType DEF Pending, At
<1>3. CallsTypeOK
  <2>1. 0 \in 0 .. MaxCalls
    BY HelperCallsAssumption
  <2>2. <<>> \in Seq(Entries)
    OBVIOUS
  <2>3. proc \in [Caller -> Callers]
    BY <1>1, IdleType
  <2> QED
    BY <1>1, <2>1, <2>2, <2>3 DEF CallsTypeOK
<1>4. AskedType /\ Chained
  <2>1. <<>> \in Seq({0} \cup Ats)
    OBVIOUS
  <2> QED
    BY <1>1, <2>1 DEF AskedType, Chained
<1>5. DOMAIN <<>> = {} /\ Len(<<>>) = 0
  OBVIOUS
<1>6. Noted
  BY <1>2, <1>5, IdleType DEF Noted
<1>7. Apart /\ OneAppends /\ Cleared
  BY <1>1, <1>2, IdleType DEF Apart, OneAppends, Cleared, Appending, At
<1>8. Kept
  <2>1. policy.budget \in Nat
    BY HelperCallsAssumption
  <2> QED
    BY <1>5, <2>1 DEF Kept, KeptFor
<1>9. InIndex
  <2> SUFFICES ASSUME NEW f \in Targets, NEW k \in Config
               PROVE  Settled(f, k) /\ \A c \in Caller : ~ PendingFor(c, f, k)
    BY DEF InIndex
  <2>1. Hits(f, k) = {} /\ Cardinality(Hits(f, k)) = 0
    BY <1>5, FS_EmptySet DEF Hits
  <2> QED
    BY <1>2, <1>5, <2>1 DEF Settled, PendingFor
<1> QED
  BY <1>3, <1>4, <1>6, <1>7, <1>8, <1>9 DEF CallsIInv, Calm

\* The invariant is inductive.
LEMMA CallsStep ==
  ASSUME CallsIInv, [CallsNext]_callsVars
  PROVE  CallsIInv'
<1>1. CASE CallsNext
  <2>1. PICK c \in Caller : Begin(c) \/ Step(c) \/ Kill(c)
    BY <1>1 DEF CallsNext
  <2>2. TypeInv'
    BY <2>1, TypeStep DEF CallsIInv, TypeInv
  <2>3. Noted'
    BY <2>1, NotedStep DEF CallsIInv, TypeInv
  <2>4. ASSUME ~ disturbed'
        PROVE  ~ disturbed
    BY <2>1, <2>4 DEF Begin, Kill, Step, Lookup, CheckFailure, CheckPolicy, Retry, Answer,
       Fail, Fallback, Break, WriteNote, Read, Truncate, Fill, history
  <2>5. ~ disturbed' => Calm'
    BY <2>1, <2>4, CalmStep DEF CallsIInv, TypeInv
  <2> QED
    BY <2>2, <2>3, <2>5 DEF CallsIInv, TypeInv
<1>2. CASE UNCHANGED callsVars
  <2>1. UNCHANGED <<policy, index, torn, noteFiles, made, proc, asked, last, disturbed>>
    BY <1>2 DEF callsVars, shared, history
  <2>2. CallsTypeOK' /\ AskedType' /\ Chained' /\ Noted'
    BY <2>1 DEF CallsIInv, CallsTypeOK, Calling, AskedType, Chained, ChainedAt, ChainEnds,
       Noted, Target
  <2>3. Calm' <=> Calm
    <3>1. (Apart' <=> Apart) /\ (OneAppends' <=> OneAppends)
      BY <2>1 DEF Apart, OneAppends, Calling, Appending, At, Target
    <3>2. (Cleared' <=> Cleared) /\ (Kept' <=> Kept)
      BY <2>1 DEF Cleared, ClearedAt, MayAsk, Kept, KeptFor, Calling, At, Target, Primary
    <3>3. InIndex' <=> InIndex
      BY <2>1 DEF InIndex, Settled, SettledBut, PendingFor, Pending, Hits, InHits,
       FailedAtLast, At, Target, Sig
    <3> QED
      BY <3>1, <3>2, <3>3 DEF Calm
  <2> QED
    BY <2>1, <2>2, <2>3 DEF CallsIInv
<1> QED
  BY <1>1, <1>2

\* What a call finds in the index is what has been asked, as long as no call
\* collides or is killed; and notes go before the entries on them in any case.
THEOREM CallsInductive == CallsSpec => []CallsIInv
<1>1. CallsInit => CallsIInv
  BY CallsBegin
<1>2. CallsIInv /\ [CallsNext]_callsVars => CallsIInv'
  BY CallsStep
<1> QED
  BY <1>1, <1>2, PTL DEF CallsSpec

\* Budgets and cooldowns are kept for every file and config, whoever forces
\* calls and whatever fallbacks they have; answers on record have their notes.
THEOREM CallsCorrect == CallsSpec => []CallsInv
<1>1. CallsIInv => CallsInv
  <2>1. Kept => PolicyKept
    BY DEF Kept, KeptFor, PolicyKept
  <2>2. Noted => AnswersNoted
    BY DEF Noted, NotedEntry, AnswersNoted, Range
  <2> QED
    BY <2>1, <2>2 DEF CallsIInv, Calm, CallsInv, PolicyKept
<1> QED
  BY <1>1, CallsInductive, PTL

\* A call that is not forced does not repeat what has failed for its file last.
THEOREM FailuresAreNotRepeated == CallsSpec => FailureNotRepeated
<1>1. ASSUME CallsIInv, CallsNext, NEW c \in Caller,
             At(c, "policy"), ~ proc[c].call.force, Target(c) # NoFile
      PROVE  disturbed \/ last[Target(c)][Primary(c)] # "failed"
  <2>1. c \in Calling
    BY <1>1 DEF At, Calling
  <2> QED
    BY <1>1, <2>1 DEF CallsIInv, Calm, Cleared, ClearedAt
<1>2. CallsIInv /\ [CallsNext]_callsVars
      => [\A c \in Caller :
             /\ At(c, "policy") /\ proc'[c].pc = "call"
             /\ ~ proc[c].call.force /\ Target(c) # NoFile
             => disturbed \/ last[Target(c)][Primary(c)] # "failed"]_proc
  BY <1>1 DEF callsVars
<1> QED
  BY <1>2, CallsInductive, PTL DEF CallsSpec, FailureNotRepeated

=============================================================================
