--------------------------- MODULE Acceptance_proofs ---------------------------
(***************************************************************************)
(* Proofs about Acceptance, for any files, cycles and iterations.          *)
(*                                                                         *)
(* Types are proved first.  The other properties follow from IInv, whose   *)
(* conjuncts say, in this order: at which step a job of each kind can be,  *)
(* what a validation remembers of the content it saw, that the event log   *)
(* covers the status, what the failure of a sole prover leaves behind, and *)
(* what an undisturbed finalization finds at each of its steps.            *)
(*                                                                         *)
(* The last parts are about StatementFidelity: the contract that the       *)
(* cycle's validation judges a comment-only file by, and the headers of a  *)
(* file whose source has theorems.                                         *)
(***************************************************************************)
EXTENDS Acceptance, StatementFidelity, SequenceTheorems, WellFoundedInduction, TLAPS

-----------------------------------------------------------------------------
(* The operators of Validation keep their types.                           *)

\* What a cycle writes is a payload.
LEMMA ValidatedType ==
    ASSUME NEW t, NEW how, NEW c, NEW n \in Note, NEW failed,
           NEW previous \in Payload
    PROVE  Validated(t, how, c, n, failed, previous) \in Payload
<1>1. AcceptanceStatus(how, c, n) \in {"none", "pending", "accepted", "rejected"}
  BY DEF AcceptanceStatus
<1> QED
  BY <1>1 DEF Validated, Payload

\* What an export leaves is a payload.
LEMMA ExportedType ==
    ASSUME NEW previous \in Payload, NEW current \in Payload, NEW proofExists
    PROVE  Exported(previous, current, proofExists) \in Payload
BY DEF Exported

\* The status of a cycle is one of those the code knows.
LEMMA CycleStatusType ==
    ASSUME NEW drifts, NEW recovered, NEW failed, NEW idle, NEW loopFailed, NEW new
    PROVE  CycleStatus(drifts, recovered, failed, idle, loopFailed, new) \in CycleStatuses
BY DEF CycleStatus, CycleStatuses

\* A collection writes a status.
LEMMA SummaryType ==
    ASSUME journal \subseteq Target
    PROVE  CurrentSummary \in StatusFile
<1> DEFINE ws  == [t \in Target |-> Refreshed(t, work[t], validation[t])]
           art == [t \in Target |-> Refreshed(t, work[t], exported[t])]
<1>1. \A ps : /\ Proved(ps) \subseteq Target /\ Formalized(ps) \subseteq Target
              /\ Blocked(ps) \subseteq Target /\ Rejected(ps) \subseteq Target
  BY DEF Proved, Formalized, Blocked, Rejected, Accepted
<1>2. \A closed, blocked, rejected, pending, unverified :
          RunClass(closed, blocked, rejected, pending, unverified)
              \in {"contaminated", "accepted", "blocked", "open"}
  BY DEF RunClass
<1>3. Sticky(ws, art, work, proof, journal) \subseteq Target
  BY DEF Sticky
<1> HIDE DEF ws, art
<1>4. /\ CurrentSummary.proofs \subseteq Target
      /\ CurrentSummary.formalizations \subseteq Target
      /\ CurrentSummary.blockers \subseteq Target
      /\ CurrentSummary.rejected \subseteq Target
      /\ CurrentSummary.class \in {"contaminated", "accepted", "blocked", "open"}
      /\ CurrentSummary = [proofs         |-> CurrentSummary.proofs,
                           formalizations |-> CurrentSummary.formalizations,
                           blockers       |-> CurrentSummary.blockers,
                           rejected       |-> CurrentSummary.rejected,
                           class          |-> CurrentSummary.class]
  BY <1>1, <1>2, <1>3 DEF CurrentSummary, Summary, ws, art
<1> QED
  BY <1>4 DEF StatusFile

-----------------------------------------------------------------------------
(* Type correctness.                                                       *)

\* Every step keeps the types.
LEMMA TypeStep == TypeOK /\ [Next]_vars => TypeOK'
<1> SUFFICES ASSUME TypeOK, [Next]_vars
             PROVE  TypeOK'
  OBVIOUS
<1> USE AcceptanceAssumption DEF TypeOK, workspace, running, artifacts, campaign, final
<1>1. CASE StartIteration
  <2>1. /\ cycle.iterations \in 0 .. MaxIterations
        /\ cycle.iterations < MaxIterations
        /\ MaxIterations \in Nat
    BY <1>1 DEF StartIteration, Cycle
  <2>2. cycle.iterations + 1 \in 0 .. MaxIterations
    BY <2>1
  <2>3. cycle' = [cycle EXCEPT !.phase = "plan", !.iterations = cycle.iterations + 1]
    BY <1>1 DEF StartIteration
  <2> DEFINE next == cycle.iterations + 1
  <2> HIDE DEF next
  <2>4. cycle' \in Cycle
    BY <2>2, <2>3 DEF next, Cycle, Phases
  <2> QED
    BY <1>1, <2>4 DEF StartIteration
<1>2. ASSUME NEW objective \in Objectives, StartProvers(objective)
      PROVE  TypeOK'
  BY <1>2 DEF StartProvers, Cycle, Phases, Objectives, Note
<1>3. ASSUME NEW t \in Target, NEW c \in Writable(t), Edit(t, c)
      PROVE  TypeOK'
  BY <1>3 DEF Edit, Cycle, Writable, Content
<1>4. ASSUME NEW t \in Target, NEW n \in Note \ {"absent"}, WriteNote(t, n)
      PROVE  TypeOK'
  BY <1>4 DEF WriteNote, Cycle
<1>5. ASSUME NEW t \in Target, ProverFails(t)
      PROVE  TypeOK'
  BY <1>5 DEF ProverFails, Cycle
<1>6. AtRest \in Cycle
  BY DEF AtRest, Cycle, Phases, CycleStatuses
<1>7. CASE OrphanEnds
  BY <1>6, <1>7 DEF OrphanEnds
<1>8. ASSUME NEW recovery \in BOOLEAN, NEW objective \in Objectives,
             BeginCycle(recovery, objective)
      PROVE  TypeOK'
  <2>1. cycle' \in Cycle
    BY <1>6, <1>8 DEF BeginCycle, Cycle, Phases
  <2>2. note' \in [Target -> Note]
    BY <1>8 DEF BeginCycle, Note
  <2>3. cycles' \in 0 .. MaxCycles
    BY <1>8 DEF BeginCycle
  <2> QED
    BY <1>8, <2>1, <2>2, <2>3 DEF BeginCycle
<1>9. ASSUME NEW idle \in BOOLEAN, NEW loopFailed \in BOOLEAN, Analyse(idle, loopFailed)
      PROVE  TypeOK'
  <2> DEFINE recovered == /\ cycle.recovery \/ idle \/ meta # {}
                          /\ Recovered(NewFiles, NewNotes, work, note)
             found == CycleStatus(Drifts, recovered, meta, idle, loopFailed,
                                  NewFiles \cup NewNotes)
  <2>1. found \in CycleStatuses
    BY CycleStatusType
  <2>2. cycle' = [cycle EXCEPT !.phase = "validate", !.status = found]
    BY <1>9 DEF Analyse
  <2> HIDE DEF found
  <2>3. cycle' \in Cycle
    BY <2>1, <2>2 DEF Cycle, Phases
  <2> QED
    BY <1>9, <2>3 DEF Analyse
<1>10. ASSUME NEW t \in Target, SynthesizeBlocker(t)
       PROVE  TypeOK'
  BY <1>10 DEF SynthesizeBlocker, Cycle, Phases, CycleStatuses, Note
<1>11. ASSUME NEW t \in Target, WriteValidation(t)
       PROVE  TypeOK'
  <2> DEFINE new == Validated(t, cycle.status, work[t], note[t], t \in meta,
                              validation[t])
  <2>0. note[t] \in Note /\ validation[t] \in Payload
    OBVIOUS
  <2>1. new \in Payload
    BY <2>0, ValidatedType
  <2>2. validation' = [validation EXCEPT ![t] = new]
    BY <1>11 DEF WriteValidation
  <2> HIDE DEF new
  <2>3. validation' \in [Target -> Payload]
    BY <2>1, <2>2
  <2>4. cycle' \in Cycle
    BY <1>11 DEF WriteValidation, Cycle
  <2> QED
    BY <1>11, <2>3, <2>4 DEF WriteValidation
<1>12. CASE EndCycle
  BY <1>6, <1>12 DEF EndCycle
<1>13. CASE KillCycle
  BY <1>6, <1>13 DEF KillCycle, Cycle
<1>14. ASSUME NEW kind \in {"export", "collect", "finalize"}, BeginJob(kind)
       PROVE  TypeOK'
  BY <1>14 DEF BeginJob, Job
<1>15. CASE ExportProofs
  BY <1>15 DEF ExportProofs, Job
<1>16. CASE ExportValidations
  <2>1. \A t \in Target : Exported(exported[t], validation[t], proof[t] # "absent")
                              \in Payload
    BY ExportedType
  <2>2. exported' \in [Target -> Payload]
    BY <1>16, <2>1 DEF ExportValidations
  <2>3. job' \in Job
    BY <1>16 DEF ExportValidations, Job, NoJob
  <2> QED
    BY <1>16, <2>2, <2>3 DEF ExportValidations
<1>17. CASE Collect
  <2>1. CurrentSummary \in StatusFile
    BY SummaryType
  <2>2. status' = CurrentSummary
    BY <1>17 DEF Collect
  <2>3. job' = [job EXCEPT !.at = "journal", !.log = CurrentSummary.proofs \ status.proofs]
    BY <1>17 DEF Collect
  <2>4. job' \in Job
    BY <2>1, <2>3 DEF StatusFile, Job
  <2> QED
    BY <1>17, <2>1, <2>2, <2>4 DEF Collect
<1>18. CASE LogAcceptances
  BY <1>18 DEF LogAcceptances, Job, NoJob
<1>19. CASE Publish
  BY <1>19 DEF Publish, Job, NoJob, StatusFile
<1>20. CASE KillJob
  BY <1>20 DEF KillJob, Job, NoJob
<1>21. CASE UNCHANGED vars
  BY <1>21 DEF vars
<1> QED
  BY <1>1, <1>2, <1>3, <1>4, <1>5, <1>7, <1>8, <1>9, <1>10, <1>11, <1>12, <1>13,
     <1>14, <1>15, <1>16, <1>17, <1>18, <1>19, <1>20, <1>21
     DEF Next, LoopStep, CycleStep, JobStep

\* The initial state has the types.
LEMMA InitType == Init => TypeOK
<1> SUFFICES ASSUME Init PROVE TypeOK
  OBVIOUS
<1>1. NoPayload \in Payload /\ AtRest \in Cycle /\ NoJob \in Job
  BY AcceptanceAssumption
     DEF NoPayload, Payload, Note, AtRest, Cycle, Phases, CycleStatuses, NoJob, Job
<1>2. status \in StatusFile
  BY DEF Init, StatusFile
<1>3. /\ work \in [Target -> Content]
      /\ note \in [Target -> Note]
      /\ proof \in [Target -> Content \cup {"absent"}]
      /\ report \in [Target -> Content \cup {"absent"}]
      /\ vetted \in [Target -> Content \cup {"absent"}]
  BY DEF Init, Content, Note
<1>4. validation \in [Target -> Payload] /\ exported \in [Target -> Payload]
  BY <1>1 DEF Init
<1>5. 0 \in 0 .. MaxCycles
  BY AcceptanceAssumption
<1>6. cycles \in 0 .. MaxCycles
  BY <1>5 DEF Init
<1>7. unlogged \in BOOLEAN
  BY DEF Init
<1> QED
  BY <1>1, <1>2, <1>3, <1>4, <1>6, <1>7 DEF Init, TypeOK

\* The variables have their types, for any files, cycles and iterations.
THEOREM TypeCorrect == Spec => []TypeOK
BY InitType, TypeStep, PTL DEF Spec

-----------------------------------------------------------------------------
(* The inductive invariant.                                                *)

\* Where a job of each kind can be, and when it has acceptances to log.
JobShape ==
    /\ job.kind = "none" <=> job.at = "idle"
    /\ job.at = "copy" => job.kind = "finalize"
    /\ job.kind = "export" => job.at \in {"proofs", "validations"}
    /\ job.at # "journal" => job.log = {}

\* What a validation remembers of the content it saw.
ValidationSeen ==
    \A t \in Target :
        /\ validation[t].acc = "absent" <=> vetted[t] = "absent"
        /\ vetted[t] = "drifted" => validation[t].acc = "rejected"
        /\ validation[t].acc = "absent" => exported[t].acc = "absent"

\* Comment-only files are never called proofs.
ProofTargets == (status.proofs \cup journal \cup job.log) \cap CommentOnly = {}

\* The meta file of a sole prover: nobody else wrote a note in its iteration.
SoleFailure ==
    \E t \in Target : /\ meta = {t} /\ cycle.objective = {t}
                      /\ \A u \in Target \ {t} : note[u] = "absent"

FailureTrace ==
    /\ cycle.phase # "validate" => cycle.written = {}
    /\ cycle.phase = "plan" => meta = {}
    /\ cycle.phase \in {"idle", "loop", "recover"} => cycle.touched = {}
    /\ cycle.recovery => cycle.phase \in {"recover", "validate"} /\ cycle.touched = {}
    /\ cycle.phase = "prove" =>
          \A u \in Target \ cycle.objective : note[u] = "absent"
    /\ (cycle.phase = "prove" \/ (cycle.phase = "validate" /\ cycle.touched # {}))
          /\ meta # {} => SoleFailure
    /\ cycle.phase = "validate" /\ cycle.status = "clean" =>
          \A t \in meta \cap cycle.touched :
              work[t] # "source" =>
                  Verifies(work[t]) \/ note[t] \in {"resolved", "blocker"}

\* What a finalization nobody disturbs finds at each of its steps.
Undisturbed ==
    /\ steady # {} => cycle.phase = "idle"
    /\ job.kind \in {"export", "collect"} => steady = {}
    /\ \A t \in steady :
          /\ vetted[t] = work[t]
          /\ /\ job.at \in {"validations", "collect", "journal", "copy"}
             /\ work[t] # "source"
             => proof[t] = work[t]
          /\ job.at = "collect" /\ validation[t].acc = "rejected"
             => exported[t].acc = "rejected"
          /\ /\ job.at \in {"journal", "copy"}
             /\ t \in status.proofs \cup status.formalizations
             => work[t] # "drifted" /\ Faithful(t, work[t])

IInv ==
    /\ TypeOK
    /\ JobShape
    /\ ValidationSeen
    /\ StatusIsJournaled
    /\ ProofTargets
    /\ FailureTrace
    /\ RecordedFailureNeedsEvidence
    /\ Undisturbed

-----------------------------------------------------------------------------
(* What a collection concludes.                                            *)

\* A file the status calls proved or formalized is faithful if it was ever
\* validated, and if its validation rejects it then only its export is accepted.
LEMMA SummaryAccepts ==
    ASSUME TypeOK, NEW t \in CurrentSummary.proofs \cup CurrentSummary.formalizations
    PROVE  /\ t \in Target
           /\ validation[t].acc # "absent" => Faithful(t, work[t])
           /\ validation[t].acc = "rejected" => exported[t].acc = "accepted"
<1> DEFINE ws  == [u \in Target |-> Refreshed(u, work[u], validation[u])]
           art == [u \in Target |-> Refreshed(u, work[u], exported[u])]
<1>1. \/ t \in Proved(ws) \cup Formalized(ws)
      \/ t \in Proved(art) \cup Formalized(art)
      \/ t \in Sticky(ws, art, work, proof, journal)
  BY DEF CurrentSummary, Summary
<1>2. t \in Target
  BY <1>1 DEF Proved, Formalized, Accepted, Sticky, TypeOK
<1>3. /\ validation[t] \in Payload
      /\ exported[t] \in Payload
  BY <1>2 DEF TypeOK
<1>4. CASE t \in Proved(ws) \cup Formalized(ws)
  <2>1. Refreshed(t, work[t], validation[t]).acc = "accepted"
    BY <1>4, <1>2 DEF Proved, Formalized, Accepted
  <2> QED
    BY <2>1, <1>2, <1>3 DEF Refreshed, Payload
<1>5. CASE t \in Proved(art) \cup Formalized(art)
  <2>1. Refreshed(t, work[t], exported[t]).acc = "accepted"
    BY <1>5, <1>2 DEF Proved, Formalized, Accepted
  <2> QED
    BY <2>1, <1>2, <1>3 DEF Refreshed, Payload
<1>6. CASE t \in Sticky(ws, art, work, proof, journal)
  <2> DEFINE p == Refreshed(t, work[t], validation[t])
  <2>1. p.acc # "absent" => /\ p.acc \notin {"pending", "rejected"}
                            /\ Faithful(t, work[t])
    BY <1>6, <1>2 DEF Sticky
  <2> QED
    BY <2>1, <1>2, <1>3 DEF Refreshed, Payload
<1> QED
  BY <1>1, <1>4, <1>5, <1>6

\* A comment-only file is called proved only by the event log.
LEMMA SummaryProofs ==
    ASSUME TypeOK, NEW t \in CurrentSummary.proofs, t \in CommentOnly
    PROVE  t \in journal
BY DEF CurrentSummary, Summary, Proved, Sticky

\* A run with a rejected validation is neither accepted nor blocked.
LEMMA SummaryClosed ==
    ASSUME TypeOK, NEW t \in Target, validation[t].acc = "rejected"
    PROVE  CurrentSummary.class = "contaminated"
<1> DEFINE ws == [u \in Target |-> Refreshed(u, work[u], validation[u])]
<1>1. t \in Rejected(ws)
  BY DEF Rejected, Refreshed
<1> QED
  BY <1>1 DEF CurrentSummary, Summary, RunClass

\* The event log keeps an exported proof unless a validation speaks against it.
LEMMA SummaryKeeps ==
    ASSUME TypeOK, ValidationSeen, NEW t \in journal, t \notin CommentOnly,
           validation[t].acc \notin {"pending", "rejected"},
           validation[t].note # "blocker",
           exported[t].acc # "rejected",
           proof[t] # "absent"
    PROVE  t \in CurrentSummary.proofs
<1> DEFINE ws  == [u \in Target |-> Refreshed(u, work[u], validation[u])]
           art == [u \in Target |-> Refreshed(u, work[u], exported[u])]
<1>1. t \in Target
  BY DEF TypeOK
<1>2. ws[t] = validation[t] /\ art[t] = exported[t]
  BY <1>1 DEF Refreshed, Faithful
<1>3. exported[t].acc = "absent" \/ validation[t].acc # "absent"
  BY <1>1 DEF ValidationSeen
<1> HIDE DEF ws, art
<1>4. t \in Sticky(ws, art, work, proof, journal)
  BY <1>1, <1>2, <1>3 DEF Sticky, Faithful
<1>5. t \notin Rejected(ws) \cup Rejected(art)
  BY <1>2 DEF Rejected
<1>6. t \notin Formalized(ws) \cup Formalized(art)
  BY DEF Formalized
<1> QED
  BY <1>4, <1>5, <1>6 DEF CurrentSummary, Summary, ws, art

-----------------------------------------------------------------------------
(* Every step keeps the invariant.                                         *)

\* Jobs.
LEMMA JobStepShape == TypeOK /\ JobShape /\ [Next]_vars => JobShape'
<1> SUFFICES ASSUME TypeOK, JobShape, [Next]_vars
             PROVE  JobShape'
  OBVIOUS
<1>1. CASE LoopStep \/ CycleStep \/ UNCHANGED vars
  <2>1. UNCHANGED job
    BY <1>1 DEF LoopStep, CycleStep, vars, StartIteration, StartProvers, Edit,
                WriteNote, ProverFails, OrphanEnds, BeginCycle, Analyse,
                SynthesizeBlocker, WriteValidation, EndCycle, KillCycle
  <2> QED
    BY <2>1 DEF JobShape
<1>2. CASE JobStep
  <2>1. job \in Job
    BY DEF TypeOK
  <2>2. CASE Collect
    BY <2>1, <2>2 DEF Collect, JobShape, Job
  <2>3. CASE LogAcceptances
    BY <2>1, <2>3 DEF LogAcceptances, JobShape, Job, NoJob
  <2>4. CASE ExportProofs
    BY <2>1, <2>4 DEF ExportProofs, JobShape, Job
  <2>5. CASE ExportValidations
    BY <2>1, <2>5 DEF ExportValidations, JobShape, Job, NoJob
  <2>6. CASE Publish \/ KillJob
    BY <2>6 DEF Publish, KillJob, JobShape, NoJob
  <2>7. ASSUME NEW kind \in {"export", "collect", "finalize"}, BeginJob(kind)
        PROVE  JobShape'
    BY <2>7 DEF BeginJob, JobShape
  <2> QED
    BY <1>2, <2>2, <2>3, <2>4, <2>5, <2>6, <2>7 DEF JobStep
<1> QED
  BY <1>1, <1>2 DEF Next

\* What a cycle writes: never absent, rejected if the header drifted.
LEMMA ValidatedSees ==
    ASSUME NEW t, NEW how, NEW c, NEW n, NEW failed, NEW previous
    PROVE  /\ Validated(t, how, c, n, failed, previous).acc # "absent"
           /\ c = "drifted" => Validated(t, how, c, n, failed, previous).acc = "rejected"
<1>1. AcceptanceStatus(how, c, n) # "absent"
  BY DEF AcceptanceStatus
<1>2. c = "drifted" => /\ AcceptanceStatus(how, c, n) = "rejected"
                       /\ ~ ShouldPreservePrevious(t, c, n, failed, previous)
  BY DEF AcceptanceStatus, ShouldPreservePrevious
<1> QED
  BY <1>1, <1>2 DEF Validated

\* Validations.
LEMMA ValidationStep == TypeOK /\ ValidationSeen /\ [Next]_vars => ValidationSeen'
<1> SUFFICES ASSUME TypeOK, ValidationSeen, [Next]_vars
             PROVE  ValidationSeen'
  OBVIOUS
<1> USE DEF workspace, running, artifacts, campaign, final
<1>1. ASSUME NEW t \in Target, WriteValidation(t)
      PROVE  ValidationSeen'
  <2> DEFINE new == Validated(t, cycle.status, work[t], note[t], t \in meta,
                              validation[t])
  <2>1. new.acc # "absent" /\ (work[t] = "drifted" => new.acc = "rejected")
    BY ValidatedSees
  <2>2. validation' = [validation EXCEPT ![t] = new]
    BY <1>1 DEF WriteValidation
  <2>3. vetted' = [vetted EXCEPT ![t] = work[t]] /\ UNCHANGED exported
    BY <1>1 DEF WriteValidation
  <2>4. work[t] # "absent"
    BY DEF TypeOK, Content
  <2> HIDE DEF new
  <2> QED
    BY <2>1, <2>2, <2>3, <2>4 DEF ValidationSeen, TypeOK
<1>2. CASE ExportValidations
  <2>1. UNCHANGED <<validation, vetted>>
    BY <1>2 DEF ExportValidations
  <2>2. \A u \in Target : validation[u].acc = "absent" => exported'[u] = exported[u]
    BY <1>2 DEF ExportValidations
  <2> QED
    BY <2>1, <2>2 DEF ValidationSeen
<1>3. ASSUME UNCHANGED <<validation, vetted, exported>>
      PROVE  ValidationSeen'
  BY <1>3 DEF ValidationSeen
<1> QED
  BY <1>1, <1>2, <1>3
     DEF Next, LoopStep, CycleStep, JobStep, vars, StartIteration, StartProvers, Edit,
         WriteNote, ProverFails, OrphanEnds, BeginCycle, Analyse, SynthesizeBlocker,
         EndCycle, KillCycle, BeginJob, ExportProofs, Collect, LogAcceptances,
         Publish, KillJob

\* The event log.
LEMMA LogStep ==
    /\ TypeOK /\ JobShape /\ StatusIsJournaled /\ ProofTargets
    /\ [Next]_vars
    => StatusIsJournaled' /\ ProofTargets'
<1> SUFFICES ASSUME TypeOK, JobShape, StatusIsJournaled, ProofTargets, [Next]_vars
             PROVE  StatusIsJournaled' /\ ProofTargets'
  OBVIOUS
<1> USE DEF workspace, running, artifacts, campaign, final, StatusIsJournaled, ProofTargets
<1>1. CASE Collect
  <2>1. status' = CurrentSummary /\ UNCHANGED <<journal, unlogged>>
    BY <1>1 DEF Collect
  <2>2. job'.log = CurrentSummary.proofs \ status.proofs
    BY <1>1 DEF Collect, TypeOK, Job
  <2>3. job.log = {}
    BY <1>1 DEF Collect, JobShape
  <2>4. CurrentSummary.proofs \cap CommentOnly \subseteq journal
    BY SummaryProofs
  <2> QED
    BY <2>1, <2>2, <2>3, <2>4
<1>2. CASE LogAcceptances
  BY <1>2 DEF LogAcceptances, TypeOK, Job, NoJob
<1>3. CASE KillJob
  BY <1>3 DEF KillJob, NoJob
<1>4. ASSUME NEW kind \in {"export", "collect", "finalize"}, BeginJob(kind)
      PROVE  StatusIsJournaled' /\ ProofTargets'
  BY <1>4 DEF BeginJob, JobShape
<1>5. CASE ExportProofs
  BY <1>5 DEF ExportProofs, TypeOK, Job
<1>6. CASE ExportValidations
  BY <1>6 DEF ExportValidations, TypeOK, Job, JobShape, NoJob
<1>7. CASE Publish
  BY <1>7 DEF Publish, JobShape, NoJob
<1>8. ASSUME UNCHANGED <<status, journal, job, unlogged>>
      PROVE  StatusIsJournaled' /\ ProofTargets'
  BY <1>8
<1> QED
  BY <1>1, <1>2, <1>3, <1>4, <1>5, <1>6, <1>7, <1>8
     DEF Next, LoopStep, CycleStep, JobStep, vars, StartIteration, StartProvers, Edit,
         WriteNote, ProverFails, OrphanEnds, BeginCycle, Analyse, SynthesizeBlocker,
         WriteValidation, EndCycle, KillCycle

\* A clean cycle that found a failure has evidence for what the prover left.
LEMMA CleanEvidence ==
    ASSUME TypeOK, FailureTrace, NEW idle \in BOOLEAN, NEW loopFailed \in BOOLEAN,
           Analyse(idle, loopFailed), cycle'.status = "clean",
           NEW t \in meta \cap cycle.touched, work[t] # "source"
    PROVE  Verifies(work[t]) \/ note[t] \in {"resolved", "blocker"}
<1> DEFINE recovered == /\ cycle.recovery \/ idle \/ meta # {}
                        /\ Recovered(NewFiles, NewNotes, work, note)
<1>1. cycle'.status = CycleStatus(Drifts, recovered, meta, idle, loopFailed,
                                  NewFiles \cup NewNotes)
  BY DEF Analyse, TypeOK, Cycle
<1>2. Recovered(NewFiles, NewNotes, work, note)
  BY <1>1 DEF CycleStatus
<1>3. ~ cycle.recovery /\ cycle.phase = "prove"
  BY DEF FailureTrace, Analyse, Looping
<1>4. SoleFailure
  BY <1>3 DEF FailureTrace
<1>5. CASE NewFiles # {} /\ \A u \in NewFiles : Verifies(work[u])
  BY <1>3, <1>5 DEF NewFiles, Changed, TypeOK
<1>6. CASE /\ NewNotes # {}
           /\ \A u \in NewNotes : note[u] \in {"resolved", "blocker"}
  <2>1. \A u \in NewNotes : u = t
    BY <1>4 DEF SoleFailure, NewNotes
  <2> QED
    BY <1>6, <2>1
<1> QED
  BY <1>2, <1>5, <1>6 DEF Recovered

\* Failures of provers.
LEMMA FailureStep ==
    /\ TypeOK /\ FailureTrace /\ RecordedFailureNeedsEvidence
    /\ [Next]_vars
    => FailureTrace' /\ RecordedFailureNeedsEvidence'
<1> SUFFICES ASSUME TypeOK, FailureTrace, RecordedFailureNeedsEvidence, [Next]_vars
             PROVE  FailureTrace' /\ RecordedFailureNeedsEvidence'
  OBVIOUS
<1> USE DEF workspace, running, artifacts, campaign, final
<1> DEFINE Goal == FailureTrace' /\ RecordedFailureNeedsEvidence'
<1>0. cycle \in Cycle
  BY DEF TypeOK
<1>1. ASSUME StartIteration
      PROVE  Goal
  <2>1. /\ cycle'.phase = "plan" /\ meta' = {} /\ cycle'.written = {}
        /\ ~ cycle'.recovery
    BY <1>0, <1>1 DEF StartIteration, Looping, FailureTrace, Cycle
  <2> QED
    BY <2>1 DEF FailureTrace, RecordedFailureNeedsEvidence
<1>2. ASSUME NEW objective \in Objectives, StartProvers(objective)
      PROVE  Goal
  <2>1. /\ cycle'.phase = "prove" /\ meta' = {} /\ cycle'.written = {}
        /\ ~ cycle'.recovery
        /\ note' = [u \in Target |-> "absent"]
    BY <1>0, <1>2 DEF StartProvers, FailureTrace, Cycle
  <2> QED
    BY <2>1 DEF FailureTrace, RecordedFailureNeedsEvidence
<1>3. ASSUME NEW t \in Target, NEW c \in Writable(t), Edit(t, c)
      PROVE  Goal
  <2>1. /\ cycle'.phase = "prove" /\ cycle.phase = "prove" /\ cycle'.written = {}
        /\ ~ cycle'.recovery
        /\ cycle'.objective = cycle.objective /\ UNCHANGED <<meta, note>>
    BY <1>0, <1>3 DEF Edit, FailureTrace, Cycle
  <2> QED
    BY <2>1 DEF FailureTrace, SoleFailure, RecordedFailureNeedsEvidence
<1>4. ASSUME NEW t \in Target, NEW n \in Note \ {"absent"}, WriteNote(t, n)
      PROVE  Goal
  <2>1. /\ cycle'.phase = "prove" /\ cycle.phase = "prove" /\ cycle'.written = {}
        /\ ~ cycle'.recovery
        /\ cycle'.objective = cycle.objective /\ UNCHANGED meta
        /\ t \in cycle.objective
        /\ \A u \in Target \ {t} : note'[u] = note[u]
    BY <1>0, <1>4 DEF WriteNote, FailureTrace, Cycle, TypeOK
  <2> QED
    BY <2>1 DEF FailureTrace, SoleFailure, RecordedFailureNeedsEvidence
<1>5. ASSUME NEW t \in Target, ProverFails(t)
      PROVE  Goal
  <2>1. /\ cycle'.phase = "prove" /\ cycle.phase = "prove" /\ cycle'.written = {}
        /\ ~ cycle'.recovery
        /\ cycle'.objective = cycle.objective /\ UNCHANGED note
        /\ meta' = IF cycle.objective = {t} THEN meta \cup {t} ELSE meta
    BY <1>0, <1>5 DEF ProverFails, FailureTrace, Cycle
  <2>2. meta' # {} => SoleFailure'
    BY <2>1 DEF FailureTrace, SoleFailure
  <2> QED
    BY <2>1, <2>2 DEF FailureTrace, RecordedFailureNeedsEvidence
<1>6. ASSUME OrphanEnds \/ EndCycle
      PROVE  Goal
  BY <1>6 DEF OrphanEnds, EndCycle, AtRest, FailureTrace, RecordedFailureNeedsEvidence
<1>7. ASSUME NEW recovery \in BOOLEAN, NEW objective \in Objectives,
             BeginCycle(recovery, objective)
      PROVE  Goal
  <2>1. /\ cycle'.phase = IF recovery THEN "recover" ELSE "loop"
        /\ cycle'.recovery = recovery
        /\ cycle'.touched = {} /\ cycle'.written = {}
    BY <1>7 DEF BeginCycle, AtRest
  <2> QED
    BY <2>1 DEF FailureTrace, RecordedFailureNeedsEvidence
<1>8. ASSUME NEW idle \in BOOLEAN, NEW loopFailed \in BOOLEAN, Analyse(idle, loopFailed)
      PROVE  Goal
  <2>1. /\ cycle'.phase = "validate" /\ cycle'.written = {}
        /\ cycle'.touched = cycle.touched
        /\ cycle'.recovery = cycle.recovery
        /\ cycle'.objective = cycle.objective
        /\ cycle.phase \in {"loop", "plan", "prove", "recover"}
        /\ UNCHANGED <<work, note, meta>>
    BY <1>0, <1>8 DEF Analyse, Looping, FailureTrace, Cycle
  <2>2. cycle'.status = "clean" =>
            \A t \in meta \cap cycle.touched :
                work[t] # "source" =>
                    Verifies(work[t]) \/ note[t] \in {"resolved", "blocker"}
    BY <1>8, CleanEvidence
  <2>3. cycle.touched # {} /\ meta # {} => SoleFailure
    BY <2>1 DEF FailureTrace
  <2> QED
    BY <2>1, <2>2, <2>3 DEF FailureTrace, SoleFailure, RecordedFailureNeedsEvidence
<1>9. ASSUME NEW t \in Target, SynthesizeBlocker(t)
      PROVE  Goal
  <2>1. /\ cycle'.phase = "validate" /\ cycle'.written = {}
        /\ cycle'.touched = cycle.touched
        /\ cycle'.recovery = cycle.recovery
        /\ cycle'.objective = cycle.objective
        /\ cycle.phase \in {"loop", "plan", "prove"}
        /\ Target = {t}
        /\ note'[t] = "blocker"
        /\ UNCHANGED <<work, meta>>
    BY <1>0, <1>9 DEF SynthesizeBlocker, Looping, FailureTrace, Cycle, TypeOK
  <2>2. cycle.touched # {} /\ meta # {} => SoleFailure
    BY <2>1 DEF FailureTrace
  <2>3. meta \subseteq Target
    BY DEF TypeOK
  <2>4. cycle.touched # {} /\ meta # {} => SoleFailure'
    BY <2>1, <2>2 DEF SoleFailure
  <2> QED
    BY <2>1, <2>3, <2>4 DEF FailureTrace, RecordedFailureNeedsEvidence
<1>10. ASSUME NEW t \in Target, WriteValidation(t)
       PROVE  Goal
  <2> DEFINE new == Validated(t, cycle.status, work[t], note[t], t \in meta,
                              validation[t])
  <2>1. /\ cycle' = [cycle EXCEPT !.written = @ \cup {t}]
        /\ cycle.phase = "validate"
        /\ validation' = [validation EXCEPT ![t] = new]
        /\ UNCHANGED <<work, note, meta>>
    BY <1>10 DEF WriteValidation
  <2>2. FailureTrace'
    BY <1>0, <2>1 DEF FailureTrace, SoleFailure, Cycle
  <2>3. t \in meta /\ new.acc = "accepted" => cycle.status = "clean" /\ new.note = note[t]
    <3> SUFFICES ASSUME t \in meta, new.acc = "accepted"
                 PROVE  cycle.status = "clean" /\ new.note = note[t]
      OBVIOUS
    <3>1. ~ ShouldPreservePrevious(t, work[t], note[t], t \in meta, validation[t])
      BY DEF ShouldPreservePrevious
    <3>2. AcceptanceStatus(cycle.status, work[t], note[t]) = "accepted"
      BY <3>1 DEF Validated
    <3> QED
      BY <3>1, <3>2 DEF Validated, AcceptanceStatus
  <2> HIDE DEF new
  <2>4. RecordedFailureNeedsEvidence'
    <3> SUFFICES ASSUME NEW u \in cycle'.written \cap meta' \cap cycle'.touched,
                        work'[u] # "source", validation'[u].acc = "accepted"
                 PROVE  Verifies(work'[u]) \/ validation'[u].note \in {"resolved", "blocker"}
      BY DEF RecordedFailureNeedsEvidence
    <3>1. u \in meta \cap cycle.touched /\ u \in cycle.written \cup {t}
      BY <1>0, <2>1 DEF Cycle
    <3>2. CASE u = t
      <4>1. validation'[t] = new
        BY <2>1 DEF TypeOK
      <4> QED
        BY <2>1, <2>3, <3>1, <3>2, <4>1 DEF FailureTrace
    <3>3. CASE u # t
      <4>1. validation'[u] = validation[u] /\ u \in cycle.written
        BY <2>1, <3>1, <3>3 DEF TypeOK
      <4> QED
        BY <2>1, <3>1, <4>1 DEF RecordedFailureNeedsEvidence
    <3> QED
      BY <3>2, <3>3
  <2> QED
    BY <2>2, <2>4
<1>11. ASSUME KillCycle
       PROVE  Goal
  <2>1. CASE Looping
    BY <1>0, <1>11, <2>1 DEF KillCycle, Looping, FailureTrace, SoleFailure,
                             RecordedFailureNeedsEvidence, Cycle
  <2>2. CASE ~ Looping
    BY <1>11, <2>2 DEF KillCycle, AtRest, FailureTrace, RecordedFailureNeedsEvidence
  <2> QED
    BY <2>1, <2>2
<1>12. ASSUME UNCHANGED <<work, note, validation, meta, cycle>>
       PROVE  Goal
  BY <1>12 DEF FailureTrace, SoleFailure, RecordedFailureNeedsEvidence
<1> HIDE DEF Goal
<1>13. Goal
  BY <1>1, <1>2, <1>3, <1>4, <1>5, <1>6, <1>7, <1>8, <1>9, <1>10, <1>11, <1>12
     DEF Next, LoopStep, CycleStep, JobStep, vars, BeginJob, ExportProofs,
         ExportValidations, Collect, LogAcceptances, Publish, KillJob
<1> QED
  BY <1>13 DEF Goal

\* A rejection is always exported.
LEMMA ExportedRejection ==
    ASSUME NEW previous, NEW current, NEW proofExists, current.acc = "rejected"
    PROVE  Exported(previous, current, proofExists).acc = "rejected"
BY DEF Exported

\* What the collection of an undisturbed finalization accepts.
LEMMA CollectedAsVetted ==
    ASSUME TypeOK, ValidationSeen, Undisturbed, job.at = "collect", NEW t \in steady,
           t \in CurrentSummary.proofs \cup CurrentSummary.formalizations
    PROVE  work[t] # "drifted" /\ Faithful(t, work[t])
<1>1. t \in Target /\ vetted[t] = work[t] /\ work[t] # "absent"
  BY DEF TypeOK, Undisturbed, Content
<1>2. validation[t].acc # "absent"
  BY <1>1 DEF ValidationSeen
<1>3. /\ Faithful(t, work[t])
      /\ validation[t].acc = "rejected" => exported[t].acc = "accepted"
  BY <1>2, SummaryAccepts
<1>4. work[t] = "drifted" => exported[t].acc = "rejected"
  BY <1>1 DEF ValidationSeen, Undisturbed
<1>5. work[t] = "drifted" => validation[t].acc = "rejected"
  BY <1>1 DEF ValidationSeen
<1> QED
  BY <1>3, <1>4, <1>5

\* Finalizations.
LEMMA FinalizeStep ==
    /\ TypeOK /\ JobShape /\ ValidationSeen /\ Undisturbed
    /\ [Next]_vars
    => Undisturbed'
<1> SUFFICES ASSUME TypeOK, JobShape, ValidationSeen, Undisturbed, [Next]_vars
             PROVE  Undisturbed'
  OBVIOUS
<1> USE DEF workspace, running, artifacts, campaign, final
<1>0. job \in Job /\ steady \subseteq Target
  BY DEF TypeOK
<1>1. ASSUME \/ StartIteration \/ OrphanEnds \/ EndCycle \/ KillCycle
             \/ \E objective \in Objectives : StartProvers(objective)
             \/ \E t \in Target : \/ \E c \in Writable(t) : Edit(t, c)
                                  \/ \E n \in Note \ {"absent"} : WriteNote(t, n)
                                  \/ ProverFails(t) \/ SynthesizeBlocker(t)
                                  \/ WriteValidation(t)
             \/ \E idle, loopFailed \in BOOLEAN : Analyse(idle, loopFailed)
      PROVE  Undisturbed'
  <2>1. cycle.phase # "idle"
    BY <1>1 DEF StartIteration, OrphanEnds, EndCycle, KillCycle, StartProvers, Edit,
                WriteNote, ProverFails, SynthesizeBlocker, WriteValidation, Analyse,
                Looping
  <2>2. steady = {}
    BY <2>1 DEF Undisturbed
  <2>3. steady' = {}
    BY <1>1, <2>2
       DEF StartIteration, OrphanEnds, EndCycle, KillCycle, StartProvers, Edit,
           WriteNote, ProverFails, SynthesizeBlocker, WriteValidation, Analyse
  <2> QED
    BY <2>3 DEF Undisturbed
<1>2. ASSUME NEW recovery \in BOOLEAN, NEW objective \in Objectives,
             BeginCycle(recovery, objective)
      PROVE  Undisturbed'
  BY <1>2 DEF BeginCycle, Undisturbed
<1>3. ASSUME NEW kind \in {"export", "collect", "finalize"}, BeginJob(kind)
      PROVE  Undisturbed'
  BY <1>3 DEF BeginJob, Undisturbed
<1>4. CASE ExportProofs
  <2>1. \A t \in Target : work[t] # "source" => proof'[t] = work[t]
    BY <1>4 DEF ExportProofs
  <2>2. /\ job'.at = "validations" /\ job'.kind = job.kind
        /\ UNCHANGED <<work, validation, cycle, vetted, steady>>
    BY <1>0, <1>4 DEF ExportProofs, Job
  <2> QED
    BY <1>0, <2>1, <2>2 DEF Undisturbed
<1>5. CASE ExportValidations
  <2>1. \A t \in Target : validation[t].acc = "rejected" => exported'[t].acc = "rejected"
    BY <1>5, ExportedRejection DEF ExportValidations
  <2>2. /\ job' = NoJob \/ (job'.at = "collect" /\ job'.kind = "finalize")
        /\ job.at = "validations"
        /\ UNCHANGED <<work, validation, cycle, proof, vetted, steady>>
    BY <1>0, <1>5 DEF ExportValidations, Job
  <2> QED
    BY <1>0, <2>1, <2>2 DEF Undisturbed, NoJob
<1>6. CASE Collect
  <2>1. /\ job.at = "collect" /\ job'.at = "journal" /\ job'.kind = job.kind
        /\ status' = CurrentSummary
        /\ UNCHANGED <<work, validation, cycle, proof, vetted, steady>>
    BY <1>0, <1>6 DEF Collect, Job
  <2>2. \A t \in steady :
            t \in CurrentSummary.proofs \cup CurrentSummary.formalizations =>
                work[t] # "drifted" /\ Faithful(t, work[t])
    BY <2>1, CollectedAsVetted
  <2> QED
    BY <2>1, <2>2 DEF Undisturbed
<1>7. CASE LogAcceptances
  <2>1. /\ job.at = "journal"
        /\ job' = NoJob \/ (job'.at = "copy" /\ job'.kind = "finalize")
        /\ UNCHANGED <<work, cycle, proof, vetted, steady, status>>
    BY <1>0, <1>7 DEF LogAcceptances, Job
  <2> QED
    BY <2>1 DEF Undisturbed, NoJob
<1>8. CASE Publish
  BY <1>8 DEF Publish, Undisturbed, NoJob
<1>9. CASE KillJob
  BY <1>9 DEF KillJob, Undisturbed, NoJob
<1>10. CASE UNCHANGED vars
  BY <1>10 DEF vars, Undisturbed
<1> QED
  BY <1>1, <1>2, <1>3, <1>4, <1>5, <1>6, <1>7, <1>8, <1>9, <1>10
     DEF Next, LoopStep, CycleStep, JobStep

\* Together.
LEMMA Invariance == Spec => []IInv
<1>1. Init => IInv
  <2> SUFFICES ASSUME Init PROVE IInv
    OBVIOUS
  <2>1. TypeOK
    BY InitType
  <2>2. JobShape /\ StatusIsJournaled /\ ProofTargets
    BY DEF Init, NoJob, JobShape, StatusIsJournaled, ProofTargets
  <2>3. ValidationSeen
    BY DEF Init, NoPayload, ValidationSeen
  <2>4. FailureTrace /\ RecordedFailureNeedsEvidence
    BY DEF Init, AtRest, FailureTrace, RecordedFailureNeedsEvidence
  <2>5. Undisturbed
    BY DEF Init, NoJob, Undisturbed
  <2> QED
    BY <2>1, <2>2, <2>3, <2>4, <2>5 DEF IInv
<1>2. IInv /\ [Next]_vars => IInv'
  BY TypeStep, JobStepShape, ValidationStep, LogStep, FailureStep, FinalizeStep DEF IInv
<1> QED
  BY <1>1, <1>2, PTL DEF Spec

-----------------------------------------------------------------------------
(* The properties of Acceptance, for any files, cycles and iterations.     *)

\* However cycles, kills and exports interleave, no run with a drifted header
\* in a validated file is accepted or blocked.
THEOREM NoDriftAccepted == Spec => []ClosedRunHasNoDrift
<1>1. IInv => ClosedRunHasNoDrift
  <2> SUFFICES ASSUME IInv, NEW t \in Target, vetted[t] = work[t], work[t] = "drifted"
               PROVE  CurrentSummary.class \notin {"accepted", "blocked"}
    BY DEF ClosedRunHasNoDrift
  <2>1. validation[t].acc = "rejected"
    BY DEF IInv, ValidationSeen
  <2> QED
    BY <2>1, SummaryClosed DEF IInv
<1> QED
  BY <1>1, Invariance, PTL

\* The event log covers the acceptances of the status.
THEOREM AcceptancesJournaled == Spec => []StatusIsJournaled
<1>1. IInv => StatusIsJournaled
  BY DEF IInv
<1> QED
  BY <1>1, Invariance, PTL

\* A recorded failure is accepted only on evidence.
THEOREM FailureEvidence == Spec => []RecordedFailureNeedsEvidence
<1>1. IInv => RecordedFailureNeedsEvidence
  BY DEF IInv
<1> QED
  BY <1>1, Invariance, PTL

\* An undisturbed finalization publishes what validation saw.
THEOREM PublicationAsVetted == Spec => PublishedAsVetted
<1> DEFINE Act == Publish => \A t \in steady \cap published' :
                      work[t] # "source" =>
                          /\ report'[t] = vetted[t]
                          /\ report'[t] # "drifted"
                          /\ Faithful(t, report'[t])
<1>1. IInv => Act
  <2> SUFFICES ASSUME IInv, Publish, NEW t \in steady \cap published',
                      work[t] # "source"
               PROVE  /\ report'[t] = vetted[t]
                      /\ report'[t] # "drifted"
                      /\ Faithful(t, report'[t])
    OBVIOUS
  <2>1. t \in Target /\ t \in status.proofs \cup status.formalizations /\ job.at = "copy"
    BY DEF Publish, IInv, TypeOK
  <2>2. /\ vetted[t] = work[t] /\ proof[t] = work[t]
        /\ work[t] # "drifted" /\ Faithful(t, work[t])
    BY <2>1 DEF IInv, Undisturbed
  <2>3. proof[t] # "absent"
    BY <2>1, <2>2 DEF IInv, TypeOK, Content
  <2>4. report'[t] = proof[t]
    BY <2>1, <2>3 DEF Publish
  <2> QED
    BY <2>2, <2>4
<1>2. IInv /\ [Next]_vars => [Act]_vars
  BY <1>1
<1> QED
  BY <1>2, Invariance, PTL DEF Spec, PublishedAsVetted

\* A proof the status accepted is lost only for a cause.
THEOREM LostForCause == Spec => AcceptanceLostForCause
<1> DEFINE Act == \A t \in status.proofs \ status'.proofs :
                      \/ validation[t].acc \in {"pending", "rejected"}
                      \/ exported[t].acc = "rejected"
                      \/ validation[t].note = "blocker"
                      \/ proof[t] = "absent"
                      \/ unlogged
<1>1. IInv /\ [Next]_vars => [Act]_vars
  <2> SUFFICES ASSUME IInv, Next, NEW t \in status.proofs \ status'.proofs
               PROVE  \/ validation[t].acc \in {"pending", "rejected"}
                      \/ exported[t].acc = "rejected"
                      \/ validation[t].note = "blocker"
                      \/ proof[t] = "absent"
                      \/ unlogged
    BY DEF vars
  <2>1. Collect
    BY DEF Next, LoopStep, CycleStep, JobStep, StartIteration, StartProvers, Edit,
           WriteNote, ProverFails, OrphanEnds, BeginCycle, Analyse, SynthesizeBlocker,
           WriteValidation, EndCycle, KillCycle, BeginJob, ExportProofs,
           ExportValidations, LogAcceptances, Publish, KillJob, campaign
  <2>2. status' = CurrentSummary /\ job.log = {}
    BY <2>1 DEF Collect, IInv, JobShape
  <2>3. unlogged \/ (t \in journal /\ t \notin CommentOnly)
    BY <2>2 DEF IInv, StatusIsJournaled, ProofTargets
  <2> QED
    BY <2>2, <2>3, SummaryKeeps DEF IInv
<1> QED
  BY <1>1, Invariance, PTL DEF Spec, AcceptanceLostForCause

\* A run and a file are accepted on grounds: without drift, and, where a prover
\* is known to have failed, on evidence.
THEOREM OnGrounds == Spec => []AcceptedOnGrounds
  BY NoDriftAccepted, FailureEvidence, PTL DEF AcceptedOnGrounds

-----------------------------------------------------------------------------
(***************************************************************************)
(* The contract of a comment-only file, StatementFidelity: what a file is  *)
(* judged by stays what the source asks for.                               *)
(***************************************************************************)

\* The object of the source, and when it is what a file is judged by.
Asked == source.own \cup source.bundle
Unrewritten == source.kind = "comment_only" /\ ~ rewritten /\ (source.snapshot \/ ~ lost)

\* Unless another contract was put there, the contract asks for the object of the
\* source; a torn one can be derived again as long as the workspace has no
\* declarations that would be taken for the source.
AsksForSource ==
    /\ source.kind = "comment_only" => contract.state \in {"torn", "whole"}
    /\ Unrewritten /\ contract.state = "whole" =>
          contract.kind = "comment_only" /\ contract.required = Asked
    /\ Unrewritten /\ contract.state = "torn" /\ ~ source.snapshot => file.decls = <<>>

\* what is derived from a source that is there is the object of the source
LEMMA DerivedAsksForSource ==
  ASSUME AsksForSource, Unrewritten, contract.state = "torn"
  PROVE  Derived = [state |-> "whole", kind |-> "comment_only", required |-> Asked]
<1>1. SourceKind = "comment_only"
  BY DEF SourceKind, Unrewritten, AsksForSource
<1> QED BY <1>1 DEF Derived, Asked

\* and so is what a validation leaves there
LEMMA MaterializedAsksForSource ==
  ASSUME AsksForSource, Unrewritten
  PROVE  Materialized.kind = "comment_only" /\ Materialized.required = Asked
         /\ Materialized.state = "whole"
<1>1. CASE contract.state = "whole"
  BY <1>1 DEF Materialized, AsksForSource
<1>2. CASE contract.state = "torn"
  BY <1>2, DerivedAsksForSource DEF Materialized
<1> QED BY <1>1, <1>2 DEF AsksForSource, Unrewritten

\* every step keeps it
LEMMA AsksForSourceKept ==
  ASSUME AsksForSource, [FidelityNext]_fidelityVars
  PROVE  AsksForSource'
<1>1. ASSUME NEW w, EditFile(w) PROVE AsksForSource'
  BY <1>1 DEF EditFile, AsksForSource, Unrewritten, Asked
<1>2. ASSUME NEW f, EditDecls(f) PROVE AsksForSource'
  BY <1>1, <1>2 DEF EditDecls
<1>3. CASE \E k \in 1..Len(file.decls) : Reprove(k) \/ Restate(k) \/ Discard(k)
  BY <1>2, <1>3 DEF Reprove, Restate, Discard
<1>4. CASE \E k \in 1..Len(file.decls) + 1 : AddHelper(k)
  BY <1>2, <1>4 DEF AddHelper
<1>5. CASE Formalize
  BY <1>1, <1>5 DEF Formalize
<1>6. CASE RewriteContract
  BY <1>6 DEF RewriteContract, AsksForSource, Unrewritten
<1>7. CASE TearContract
  <2>1. contract'.state = "torn"
    BY <1>7 DEF TearContract, Torn, NoContract
  <2>2. UNCHANGED <<source, file>> /\ lost' = (file.decls # <<>> \/ lost)
    BY <1>7 DEF TearContract
  <2> QED BY <2>1, <2>2 DEF AsksForSource, Unrewritten
<1>8. CASE Validate
  <2>0. UNCHANGED <<source, file, rewritten, lost>> /\ contract' = Materialized
    BY <1>8 DEF Validate
  <2>1. Materialized \in {contract, Derived} /\ Derived.state = "whole"
    BY DEF Materialized, Derived
  <2>2. source.kind = "comment_only" => contract'.state \in {"torn", "whole"}
    BY <2>0, <2>1 DEF AsksForSource
  <2>3. CASE Unrewritten
    BY <2>0, <2>2, <2>3, MaterializedAsksForSource DEF AsksForSource, Unrewritten, Asked
  <2>4. CASE ~ Unrewritten
    BY <2>0, <2>2, <2>4 DEF AsksForSource, Unrewritten
  <2> QED BY <2>3, <2>4
<1>9. CASE UNCHANGED fidelityVars
  BY <1>9 DEF fidelityVars, AsksForSource, Unrewritten, Asked
<1> QED BY <1>3, <1>4, <1>5, <1>6, <1>7, <1>8, <1>9 DEF FidelityNext

\* a file preserves the object of a contract exactly when it covers what it asks for
LEMMA Preserved ==
  ASSUME NEW c, NEW w, c.kind = "comment_only"
  PROVE  Fidelity(c, w) = "preserved" <=> c.required \subseteq w.covers
<1>1. c.required \subseteq w.covers => Detected(w, c.required) = {}
  <2> SUFFICES ASSUME c.required \subseteq w.covers, NEW f \in Detected(w, c.required)
               PROVE  FALSE
    OBVIOUS
  <2>1. f \in {"drop_monic", "replace_exact", "symmetrize"}
    BY DEF Detected
  <2>2. c.required \ w.covers = {}
    OBVIOUS
  <2> QED BY <2>1, <2>2 DEF Detected
<1> QED BY <1>1 DEF Fidelity

(* The status collector and a validation judge a comment-only file alike,  *)
(* and, while nobody has rewritten the contract and none was lost where    *)
(* the workspace is its own source, by the object of the source.           *)
THEOREM ContractCorrect == FidelitySpec => []ContractInv
<1>1. FidelityInit => AsksForSource
  BY DEF FidelityInit, AsksForSource, Unrewritten, Asked, NoContract
<1>2. AsksForSource /\ [FidelityNext]_fidelityVars => AsksForSource'
  BY AsksForSourceKept
<1>3. AsksForSource => ContractInv
  <2> SUFFICES ASSUME AsksForSource PROVE ContractInv
    OBVIOUS
  <2>1. JudgedAlike
    <3>1. CASE contract.state = "whole"
      BY <3>1 DEF JudgedAlike, Assess, Materialized
    <3>2. CASE contract.state # "whole" /\ Derived.kind = "comment_only"
      <4>1. Materialized = Derived /\ LoadOrDerive(Derived) = Derived
        BY <3>2 DEF Materialized, LoadOrDerive
      <4> QED BY <3>2, <4>1 DEF JudgedAlike, Assess, LoadOrDerive
    <3>3. CASE contract.state # "whole" /\ Derived.kind # "comment_only"
      BY <3>3 DEF JudgedAlike, Assess, Materialized
    <3> QED BY <3>1, <3>2, <3>3
  <2>2. ASSUME Unrewritten
        PROVE  Assess(contract) = "preserved" <=> Asked \subseteq file.covers
    <3>1. LoadOrDerive(contract).kind = "comment_only" /\ LoadOrDerive(contract).required = Asked
      <4>1. CASE contract.state = "whole"
        BY <2>2, <4>1 DEF LoadOrDerive, AsksForSource
      <4>2. CASE contract.state = "torn"
        BY <2>2, <4>2, DerivedAsksForSource DEF LoadOrDerive
      <4> QED BY <2>2, <4>1, <4>2 DEF AsksForSource, Unrewritten
    <3> QED BY <3>1, Preserved DEF Assess
  <2>3. JudgedBySource
    BY <2>2 DEF JudgedBySource, Unrewritten, Asked
  <2> QED BY <2>1, <2>3 DEF ContractInv
<1> QED BY <1>1, <1>2, <1>3, PTL DEF FidelitySpec

-----------------------------------------------------------------------------
(***************************************************************************)
(* The headers of a file, StatementFidelity: which are read, and which     *)
(* changes are reported as what.  Nothing is computed by recursion: what   *)
(* the loops do is the least set closed under their steps, or a function   *)
(* that obeys them, and a least natural number, which any set of them has, *)
(* stands for induction.                                                   *)
(***************************************************************************)

\* The types of the declarations in both files.  A source with theorems is kept
\* as a snapshot, so that a validation never derives a contract for it.
FidelityIInv ==
    /\ FidelityTypeOK
    /\ source \in [kind : {"comment_only", "theorem_header"}, snapshot : BOOLEAN,
                   decls : Seq(Decl), own : SUBSET Item, bundle : SUBSET Item]
    /\ file \in [decls : Seq(Decl), covers : SUBSET Item,
                 symmetric : BOOLEAN, bounded : BOOLEAN]
    /\ source.kind = "theorem_header" => source.snapshot

\* A set of natural numbers that is not empty has a least one.
LEMMA Smallest ==
  ASSUME NEW S \in SUBSET Nat, S # {}
  PROVE  \E m \in S : \A k \in S : m <= k
<1> DEFINE less == {ss \in Nat \X Nat : ss[1] < ss[2]}
<1>1. IsWellFoundedOn(less, Nat)
  BY NatLessThanWellFounded DEF OpToRel
<1>2. \A k, m \in Nat : k < m => <<k, m>> \in less
  OBVIOUS
<1> HIDE DEF less
<1>3. PICK m \in S : \A k \in S : <<k, m>> \notin less
  BY <1>1, WFMin
<1>4. ASSUME NEW k \in S
      PROVE  m <= k
  <2>1. k \in Nat /\ m \in Nat /\ ~ k < m
    BY <1>2, <1>3
  <2> QED
    BY <2>1
<1> QED
  BY <1>4

\* A declaration is covered exactly if the one before it is open and not itself
\* covered.
LEMMA CoveredStep ==
  ASSUME NEW f \in Seq(Decl), NEW k \in 1 .. Len(f)
  PROVE  k \in Covered(f) <=> k > 1 /\ Open(f, k - 1) /\ k - 1 \notin Covered(f)
<1>0. Len(f) \in Nat /\ k \in Int /\ k >= 1 /\ k <= Len(f)
  OBVIOUS
<1>1. ASSUME k \in Covered(f)
      PROVE  k > 1 /\ Open(f, k - 1) /\ k - 1 \notin Covered(f)
  <2>1. PICK m \in 1 .. k - 1 : /\ \A l \in m .. k - 1 : Open(f, l)
                                /\ m = 1 \/ ~Open(f, m - 1)
                                /\ (k - m) % 2 = 1
    BY <1>1 DEF Covered
  <2>2. k > 1 /\ k - 1 \in m .. k - 1
    BY <1>0
  <2>3. ASSUME k - 1 \in Covered(f)
        PROVE  FALSE
    <3>1. PICK n \in 1 .. k - 2 : /\ \A l \in n .. k - 2 : Open(f, l)
                                  /\ n = 1 \/ ~Open(f, n - 1)
                                  /\ (k - 1 - n) % 2 = 1
      BY <1>0, <2>2, <2>3 DEF Covered
    <3>2. ~ m < n
      <4>1. m < n => n - 1 \in m .. k - 1 /\ n # 1
        BY <1>0
      <4> QED
        BY <2>1, <3>1, <4>1
    <3>3. ~ n < m
      <4>1. n < m => m - 1 \in n .. k - 2 /\ m # 1
        BY <1>0
      <4> QED
        BY <2>1, <3>1, <4>1
    <3>4. m = n
      BY <1>0, <3>2, <3>3
    <3> QED
      BY <1>0, <2>1, <3>1, <3>4
  <2> QED
    BY <2>1, <2>2, <2>3
<1>2. ASSUME k > 1, Open(f, k - 1), k - 1 \notin Covered(f)
      PROVE  k \in Covered(f)
  <2> DEFINE row == {m \in 1 .. k - 1 : \A l \in m .. k - 1 : Open(f, l)}
  <2>1. row \in SUBSET Nat
    OBVIOUS
  <2>2. k - 1 \in row
    <3>1. k - 1 \in 1 .. k - 1 /\ \A l \in k - 1 .. k - 1 : l = k - 1
      BY <1>0, <1>2
    <3> QED
      BY <1>2, <3>1
  <2>3. PICK m \in row : \A l \in row : m <= l
    <3> HIDE DEF row
    <3> QED
      BY <2>1, <2>2, Smallest
  <2>4. m \in 1 .. k - 1 /\ \A l \in m .. k - 1 : Open(f, l)
    OBVIOUS
  <2>5. m = 1 \/ ~Open(f, m - 1)
    <3> SUFFICES ASSUME m # 1, Open(f, m - 1)
                 PROVE  FALSE
      OBVIOUS
    <3>1. m - 1 \in 1 .. k - 1 /\ \A l \in m - 1 .. k - 1 : l = m - 1 \/ l \in m .. k - 1
      BY <1>0, <2>4
    <3>2. m - 1 \in row
      BY <2>4, <3>1
    <3> QED
      BY <2>3, <2>4, <3>2
  <2>6. (k - m) % 2 = 1
    <3> SUFFICES ASSUME (k - m) % 2 # 1
                 PROVE  FALSE
      OBVIOUS
    <3>1. m \in 1 .. k - 2 /\ (k - 1 - m) % 2 = 1
      BY <1>0, <2>4
    <3>2. k - 1 \in 1 .. Len(f) /\ \A l \in m .. k - 2 : l \in m .. k - 1
      BY <1>0, <2>4
    <3>3. m \in 1 .. (k - 1) - 1 /\ (k - 1) - 1 = k - 2
      BY <1>0, <3>1
    <3>4. k - 1 \in Covered(f)
      BY <2>4, <2>5, <3>1, <3>2, <3>3 DEF Covered
    <3> QED
      BY <1>2, <3>4
  <2> QED
    BY <2>4, <2>5, <2>6 DEF Covered
<1> QED
  BY <1>1, <1>2

\* The declaration whose header is read next: the one after, or, below an open
\* declaration, whose header takes in its line, the one after that.
LEMMA NextBelow ==
  ASSUME NEW f \in Seq(Decl), NEW k \in 1 .. Len(f)
  PROVE  LET n == IF Open(f, k) THEN k + 2 ELSE k + 1
         IN  /\ Below(f, k) # {} <=> n <= Len(f)
             /\ n <= Len(f) => Min(Below(f, k)) = n
<1>0. Len(f) \in Nat /\ k \in Int /\ k >= 1 /\ k <= Len(f)
  OBVIOUS
<1>1. \A l \in 1 .. Len(f) : /\ f[l].inline \in BOOLEAN
                             /\ f[l].assigns \in BOOLEAN
  <2> SUFFICES ASSUME NEW l \in 1 .. Len(f)
               PROVE  f[l].inline \in BOOLEAN /\ f[l].assigns \in BOOLEAN
    OBVIOUS
  <2>1. f[l] \in Decl
    OBVIOUS
  <2> QED
    BY <2>1 DEF Decl
<1>2. ASSUME NEW l \in 1 .. Len(f)
      PROVE  /\ Assigns(f, 3 * (l - 1) + 1) <=> f[l].inline
             /\ Assigns(f, 3 * (l - 1) + 2) <=> ~f[l].inline
             /\ Assigns(f, 3 * (l - 1) + 3) <=> f[l].assigns
  <2>1. /\ Lines(f, l)[1] = f[l].inline
        /\ Lines(f, l)[2] = ~f[l].inline
        /\ Lines(f, l)[3] = f[l].assigns
    BY DEF Lines
  <2>2. ASSUME NEW r \in 1 .. 3
        PROVE  Assigns(f, 3 * (l - 1) + r) <=> Lines(f, l)[r]
    <3>1. \A h \in 1 .. Len(f), s \in 1 .. 3 :
             3 * (l - 1) + r = 3 * (h - 1) + s => h = l /\ s = r
      BY <1>0
    <3>2. Assigns(f, 3 * (l - 1) + r) =>
             \E h \in 1 .. Len(f), s \in 1 .. 3 :
                3 * (l - 1) + r = 3 * (h - 1) + s /\ Lines(f, h)[s]
      BY DEF Assigns
    <3>3. Lines(f, l)[r] => Assigns(f, 3 * (l - 1) + r)
      BY DEF Assigns
    <3> QED
      BY <3>1, <3>2, <3>3
  <2> QED
    BY <2>1, <2>2, 1 \in 1 .. 3, 2 \in 1 .. 3, 3 \in 1 .. 3
<1>3. \A l \in Below(f, k) : l >= k + 1
  <2> SUFFICES ASSUME NEW l \in Below(f, k)
               PROVE  l >= k + 1
    OBVIOUS
  <2>1. PICK i \in Begin(k) + 1 .. Begin(l) - 1 : Assigns(f, i)
    BY DEF Below
  <2>2. l \in 1 .. Len(f)
    BY DEF Below
  <2> QED
    BY <1>0, <2>1, <2>2 DEF Begin
<1>4. ASSUME ~Open(f, k), k + 1 <= Len(f)
      PROVE  k + 1 \in Below(f, k)
  <2>1. f[k].inline => f[k].assigns
    BY <1>1, <1>4 DEF Open
  <2>2. \E i \in {3 * (k - 1) + 2, 3 * (k - 1) + 3} : Assigns(f, i)
    BY <1>1, <1>2, <2>1
  <2>3. /\ k + 1 \in 1 .. Len(f)
        /\ 3 * (k - 1) + 2 \in Begin(k) + 1 .. Begin(k + 1) - 1
        /\ 3 * (k - 1) + 3 \in Begin(k) + 1 .. Begin(k + 1) - 1
    BY <1>0, <1>4 DEF Begin
  <2> QED
    BY <2>2, <2>3 DEF Below
<1>5. ASSUME Open(f, k), k + 2 <= Len(f)
      PROVE  k + 2 \in Below(f, k)
  <2>1. k + 1 \in 1 .. Len(f) /\ k + 2 \in 1 .. Len(f)
    BY <1>0, <1>5
  <2>2. Assigns(f, 3 * (k + 1 - 1) + 1) \/ Assigns(f, 3 * (k + 1 - 1) + 2)
    <3>1. /\ Assigns(f, 3 * (k + 1 - 1) + 1) <=> f[k + 1].inline
          /\ Assigns(f, 3 * (k + 1 - 1) + 2) <=> ~f[k + 1].inline
      BY <1>2, <2>1
    <3> QED
      BY <3>1
  <2>3. /\ 3 * (k + 1 - 1) + 1 \in Begin(k) + 1 .. Begin(k + 2) - 1
        /\ 3 * (k + 1 - 1) + 2 \in Begin(k) + 1 .. Begin(k + 2) - 1
    BY <1>0 DEF Begin
  <2> QED
    BY <2>1, <2>2, <2>3 DEF Below
<1>6. ASSUME Open(f, k)
      PROVE  k + 1 \notin Below(f, k)
  <2> SUFFICES ASSUME NEW i \in Begin(k) + 1 .. Begin(k + 1) - 1, Assigns(f, i)
               PROVE  FALSE
    BY DEF Below
  <2>1. i = 3 * (k - 1) + 2 \/ i = 3 * (k - 1) + 3
    BY <1>0 DEF Begin
  <2>2. f[k].inline /\ ~f[k].assigns
    BY <1>6 DEF Open
  <2> QED
    BY <1>2, <2>1, <2>2
<1> DEFINE n == IF Open(f, k) THEN k + 2 ELSE k + 1
<1>7. n \in Int /\ \A l \in Below(f, k) : l \in Int /\ l >= n /\ l <= Len(f)
  <2>1. \A l \in Below(f, k) : l \in 1 .. Len(f)
    BY DEF Below
  <2>2. CASE Open(f, k)
    <3>1. \A l \in Below(f, k) : l # k + 1
      BY <1>6, <2>2
    <3> QED
      BY <1>0, <1>3, <2>1, <2>2, <3>1
  <2>3. CASE ~Open(f, k)
    BY <1>0, <1>3, <2>1, <2>3
  <2> QED
    BY <2>2, <2>3
<1>8. n <= Len(f) => n \in Below(f, k)
  BY <1>4, <1>5
<1> HIDE DEF n
<1>9. Below(f, k) # {} <=> n <= Len(f)
  BY <1>0, <1>7, <1>8
<1>10. n <= Len(f) => Min(Below(f, k)) = n
  <2> SUFFICES ASSUME n <= Len(f)
               PROVE  Min(Below(f, k)) = n
    OBVIOUS
  <2>1. n \in Below(f, k) /\ \A l \in Below(f, k) : n <= l
    BY <1>7, <1>8
  <2>2. /\ Min(Below(f, k)) \in Below(f, k)
        /\ \A l \in Below(f, k) : Min(Below(f, k)) <= l
    BY <2>1 DEF Min
  <2> DEFINE m == Min(Below(f, k))
  <2>3. m \in Int /\ n \in Int /\ m >= n /\ n <= m /\ m <= n
    BY <1>7, <2>1, <2>2
  <2> HIDE DEF m
  <2>4. m = n
    BY <2>3
  <2> QED
    BY <2>4 DEF m
<1> QED
  BY <1>9, <1>10 DEF n

\* The declarations whose headers are read are those that are not covered: they
\* are closed under going on below a header, and the first of them that a closed
\* set did not have would be the one below a header it has.
LEMMA ExtractedAreUncovered ==
  ASSUME NEW f \in Seq(Decl)
  PROVE  Extracted(f) = (1 .. Len(f)) \ Covered(f)
<1> DEFINE D == 1 .. Len(f)
<1> DEFINE E == D \ Covered(f)
<1> DEFINE Closed(S) ==
      1 \in S /\ \A l \in S : Below(f, l) # {} => Min(Below(f, l)) \in S
<1>0. Len(f) \in Nat
  OBVIOUS
<1>1. ASSUME D # {}
      PROVE  Closed(E)
  <2>1. 1 \in D
    BY <1>0, <1>1
  <2>2. 1 \in E
    BY <2>1, CoveredStep
  <2>3. ASSUME NEW l \in E, Below(f, l) # {}
        PROVE  Min(Below(f, l)) \in E
    <3>0. l \in D /\ l \in Int /\ l >= 1
      OBVIOUS
    <3>1. CASE Open(f, l)
      <4>1. l + 2 <= Len(f) /\ Min(Below(f, l)) = l + 2
        BY <2>3, <3>0, <3>1, NextBelow
      <4>2. l + 1 \in D /\ l + 2 \in D /\ (l + 1) - 1 = l /\ (l + 2) - 1 = l + 1 /\ l + 1 > 1
        BY <1>0, <3>0, <4>1
      <4>3. l + 1 \in Covered(f)
        BY <3>0, <3>1, <4>2, CoveredStep
      <4>4. l + 2 \notin Covered(f)
        BY <4>2, <4>3, CoveredStep
      <4> QED
        BY <4>1, <4>2, <4>4
    <3>2. CASE ~Open(f, l)
      <4>1. l + 1 <= Len(f) /\ Min(Below(f, l)) = l + 1
        BY <2>3, <3>0, <3>2, NextBelow
      <4>2. l + 1 \in D /\ (l + 1) - 1 = l
        BY <1>0, <3>0, <4>1
      <4>3. l + 1 \notin Covered(f)
        BY <3>2, <4>2, CoveredStep
      <4> QED
        BY <4>1, <4>2, <4>3
    <3> QED
      BY <3>1, <3>2
  <2> QED
    BY <2>2, <2>3
<1>2. ASSUME NEW S \in SUBSET D, Closed(S)
      PROVE  E \subseteq S
  <2> SUFFICES ASSUME E \ S # {}
               PROVE  FALSE
    OBVIOUS
  <2>1. E \ S \in SUBSET Nat
    BY <1>0
  <2>2. PICK k \in E \ S : \A l \in E \ S : k <= l
    <3> HIDE DEF E
    <3> QED
      BY <2>1, Smallest
  <2>3. k \in D /\ k \notin Covered(f) /\ k # 1 /\ k \notin S /\ k \in Int
    BY <1>2
  <2>4. k - 1 \in D /\ k > 1 /\ k <= Len(f)
    BY <1>0, <2>3
  <2>5. \A l \in E : l < k => l \in S
    BY <1>0, <2>2, <2>3
  <2>6. CASE k - 1 \in Covered(f)
    <3>1. k - 1 > 1 /\ Open(f, k - 1 - 1) /\ k - 1 - 1 \notin Covered(f)
      BY <2>4, <2>6, CoveredStep
    <3>2. k - 2 = k - 1 - 1 /\ k - 2 \in D /\ k - 2 < k /\ (k - 2) + 2 = k
      BY <1>0, <2>3, <2>4, <3>1
    <3>3. k - 2 \in S
      BY <2>5, <3>1, <3>2
    <3>4. Below(f, k - 2) # {} /\ Min(Below(f, k - 2)) = k
      BY <2>4, <3>1, <3>2, NextBelow
    <3> QED
      BY <1>2, <2>3, <3>3, <3>4
  <2>7. CASE k - 1 \notin Covered(f)
    <3>1. ~Open(f, k - 1)
      BY <2>3, <2>4, <2>7, CoveredStep
    <3>2. k - 1 < k /\ (k - 1) + 1 = k
      BY <2>3
    <3>3. k - 1 \in S
      BY <2>4, <2>5, <2>7, <3>2
    <3>4. Below(f, k - 1) # {} /\ Min(Below(f, k - 1)) = k
      BY <2>4, <3>1, <3>2, NextBelow
    <3> QED
      BY <1>2, <2>3, <3>3, <3>4
  <2> QED
    BY <2>6, <2>7
<1>3. Extracted(f) = {k \in D : \A S \in SUBSET D : Closed(S) => k \in S}
  BY DEF Extracted
<1>4. E \in SUBSET D
  OBVIOUS
<1> HIDE DEF Closed
<1>5. Extracted(f) \subseteq E
  <2> HIDE DEF E
  <2> SUFFICES ASSUME NEW k \in Extracted(f)
               PROVE  k \in E
    OBVIOUS
  <2> QED
    BY <1>1, <1>3, <1>4
<1>6. E \subseteq Extracted(f)
  <2> HIDE DEF E
  <2> QED
    BY <1>2, <1>3, <1>4
<1> QED
  BY <1>5, <1>6

\* The pass of IsSubsequence over the first L items of the target
Passed(s, t, c, L) ==
    /\ c[0] = 0
    /\ \A j \in 1 .. L :
          c[j] = IF c[j - 1] < Len(s) /\ s[c[j - 1] + 1] = t[j] THEN c[j - 1] + 1 ELSE c[j - 1]

\* There is a pass over the whole target, for none is the first to have none.
LEMMA PassEnds ==
  ASSUME NEW s \in Seq(STRING), NEW t \in Seq(STRING)
  PROVE  \E c \in [0 .. Len(t) -> 0 .. Len(s)] : Passed(s, t, c, Len(t))
<1>0. Len(s) \in Nat /\ Len(t) \in Nat
  OBVIOUS
<1> DEFINE short ==
      {L \in 0 .. Len(t) : ~ \E c \in [0 .. L -> 0 .. Len(s)] : Passed(s, t, c, L)}
<1>1. short \in SUBSET Nat
  BY <1>0
<1> SUFFICES ASSUME short # {}
             PROVE  FALSE
  BY <1>0
<1>2. PICK L \in short : \A k \in short : L <= k
  <2> HIDE DEF short
  <2> QED
    BY <1>1, Smallest
<1>3. L \in Nat /\ L <= Len(t)
  BY <1>0
<1>4. L # 0
  <2> SUFFICES ASSUME L = 0
               PROVE  FALSE
    OBVIOUS
  <2> DEFINE c == [j \in 0 .. L |-> 0]
  <2>1. c \in [0 .. L -> 0 .. Len(s)] /\ c[0] = 0
    BY <1>0
  <2>2. 1 .. L = {}
    OBVIOUS
  <2>3. Passed(s, t, c, L)
    BY <2>1, <2>2 DEF Passed
  <2> QED
    BY <2>1, <2>3
<1>5. L - 1 \in 0 .. Len(t) /\ L - 1 \notin short
  <2>1. L - 1 \in 0 .. Len(t) /\ ~ L <= L - 1
    BY <1>0, <1>3, <1>4
  <2> HIDE DEF short
  <2> QED
    BY <1>2, <2>1
<1>6. PICK c \in [0 .. L - 1 -> 0 .. Len(s)] : Passed(s, t, c, L - 1)
  BY <1>5
<1> DEFINE next == IF c[L - 1] < Len(s) /\ s[c[L - 1] + 1] = t[L]
                   THEN c[L - 1] + 1 ELSE c[L - 1]
<1> DEFINE d == [j \in 0 .. L |-> IF j = L THEN next ELSE c[j]]
<1>7. c[L - 1] \in 0 .. Len(s)
  BY <1>3, <1>4, <1>6
<1>8. next \in 0 .. Len(s)
  BY <1>0, <1>7
<1>9. \A j \in 0 .. L - 1 : d[j] = c[j] /\ c[j] \in 0 .. Len(s)
  <2> HIDE DEF next
  <2> QED
    BY <1>3, <1>6
<1>10. d[L] = next
  BY <1>3
<1>11. d \in [0 .. L -> 0 .. Len(s)]
  <2> SUFFICES ASSUME NEW j \in 0 .. L
               PROVE  (IF j = L THEN next ELSE c[j]) \in 0 .. Len(s)
    OBVIOUS
  <2> HIDE DEF next
  <2>1. j = L \/ j \in 0 .. L - 1
    BY <1>3
  <2> QED
    BY <1>6, <1>8, <2>1
<1> HIDE DEF d
<1>12. Passed(s, t, d, L)
  <2>1. d[0] = 0
    BY <1>3, <1>4, <1>6, <1>9 DEF Passed
  <2>2. ASSUME NEW j \in 1 .. L
        PROVE  d[j] = IF d[j - 1] < Len(s) /\ s[d[j - 1] + 1] = t[j]
                      THEN d[j - 1] + 1 ELSE d[j - 1]
    <3>1. j - 1 \in 0 .. L - 1 /\ (j = L \/ j \in 1 .. L - 1)
      BY <1>3
    <3>2. CASE j = L
      BY <1>9, <1>10, <3>1, <3>2
    <3>3. CASE j \in 1 .. L - 1
      <4>1. d[j] = c[j] /\ d[j - 1] = c[j - 1]
        BY <1>9, <3>1, <3>3
      <4> QED
        BY <1>6, <3>3, <4>1 DEF Passed
    <3> QED
      BY <3>1, <3>2, <3>3
  <2> QED
    BY <2>1, <2>2 DEF Passed
<1> QED
  BY <1>11, <1>12

\* A pass goes forward, at most by the item that it has found.
LEMMA PassForward ==
  ASSUME NEW s \in Seq(STRING), NEW t \in Seq(STRING),
         NEW c \in [0 .. Len(t) -> 0 .. Len(s)], Passed(s, t, c, Len(t))
  PROVE  /\ \A j \in 1 .. Len(t) : \/ c[j] = c[j - 1]
                                   \/ (c[j] = c[j - 1] + 1 /\ s[c[j]] = t[j])
         /\ \A i \in 0 .. Len(t), j \in 0 .. Len(t) : i <= j => c[i] <= c[j]
<1>0. Len(s) \in Nat /\ Len(t) \in Nat
  OBVIOUS
<1>1. ASSUME NEW j \in 1 .. Len(t)
      PROVE  c[j] = c[j - 1] \/ (c[j] = c[j - 1] + 1 /\ s[c[j]] = t[j])
  <2>1. c[j] = IF c[j - 1] < Len(s) /\ s[c[j - 1] + 1] = t[j] THEN c[j - 1] + 1 ELSE c[j - 1]
    BY DEF Passed
  <2>2. CASE c[j - 1] < Len(s) /\ s[c[j - 1] + 1] = t[j]
    <3>1. c[j] = c[j - 1] + 1
      BY <2>1, <2>2
    <3>2. s[c[j]] = s[c[j - 1] + 1]
      BY <3>1
    <3> QED
      BY <2>2, <3>1, <3>2
  <2>3. CASE ~(c[j - 1] < Len(s) /\ s[c[j - 1] + 1] = t[j])
    <3>1. c[j] = c[j - 1]
      BY <2>1, <2>3
    <3> QED
      BY <3>1
  <2> QED
    BY <2>2, <2>3
<1>2. \A j \in 0 .. Len(t) : c[j] \in Int
  BY <1>0
<1>3. ASSUME NEW i \in 0 .. Len(t), NEW h \in 0 .. Len(t), i <= h, ~ c[i] <= c[h]
      PROVE  FALSE
  <2> DEFINE back == {j \in 0 .. Len(t) : i <= j /\ ~ c[i] <= c[j]}
  <2>1. back \in SUBSET Nat /\ back # {}
    BY <1>0, <1>3
  <2>2. PICK j \in back : \A k \in back : j <= k
    <3> HIDE DEF back
    <3> QED
      BY <2>1, Smallest
  <2>3. j # i
    BY <1>2
  <2>4. j - 1 \in 0 .. Len(t) /\ i <= j - 1 /\ j \in 1 .. Len(t) /\ ~ j <= j - 1
    BY <1>0, <2>3
  <2>5. c[i] <= c[j - 1]
    BY <2>2, <2>4
  <2>6. c[i] \in Int /\ c[j] \in Int /\ c[j - 1] \in Int
    BY <1>2, <2>4
  <2>7. c[j] = c[j - 1] \/ c[j] = c[j - 1] + 1
    BY <1>1, <2>4
  <2>8. ~ c[i] <= c[j]
    BY <2>2
  <2> QED
    BY <2>5, <2>6, <2>7, <2>8
<1> QED
  BY <1>1, <1>3

\* What remains when items are left out is found at its place or later, and at
\* its place when nothing was left out.
LEMMA PlacesForward ==
  ASSUME NEW a \in Nat, NEW b \in Nat, NEW at \in [1 .. a -> 1 .. b],
         \A i, j \in 1 .. a : i < j => at[i] < at[j]
  PROVE  /\ \A i \in 1 .. a : i <= at[i]
         /\ a <= b
         /\ a = b => \A i \in 1 .. a : at[i] = i
<1>0. \A i \in 1 .. a : at[i] \in Int /\ at[i] >= 1 /\ at[i] <= b
  OBVIOUS
<1>1. ASSUME NEW h \in 1 .. a, ~ h <= at[h]
      PROVE  FALSE
  <2> DEFINE early == {i \in 1 .. a : ~ i <= at[i]}
  <2>1. early \in SUBSET Nat /\ early # {}
    BY <1>1
  <2>2. PICK i \in early : \A k \in early : i <= k
    <3> HIDE DEF early
    <3> QED
      BY <2>1, Smallest
  <2>3. i \in 1 .. a /\ ~ i <= at[i]
    OBVIOUS
  <2>4. i # 1
    BY <1>0, <2>3
  <2>5. i - 1 \in 1 .. a /\ i - 1 < i /\ ~ i <= i - 1
    BY <2>3, <2>4
  <2>6. i - 1 <= at[i - 1] /\ at[i - 1] < at[i]
    BY <2>2, <2>3, <2>5
  <2> QED
    BY <1>0, <2>3, <2>5, <2>6
<1>2. a <= b
  <2>1. CASE a = 0
    BY <2>1
  <2>2. CASE a # 0
    <3>1. a \in 1 .. a
      BY <2>2
    <3> QED
      BY <1>0, <1>1, <3>1
  <2> QED
    BY <2>1, <2>2
<1>3. ASSUME a = b, NEW h \in 1 .. a, at[h] # h
      PROVE  FALSE
  <2> DEFINE gaps == {g \in 0 .. a : g < a /\ at[a - g] # a - g}
  <2>1. a - h \in gaps
    <3>1. a - (a - h) = h /\ a - h \in 0 .. a /\ a - h < a
      OBVIOUS
    <3> QED
      BY <1>3, <3>1
  <2>2. gaps \in SUBSET Nat
    OBVIOUS
  <2>3. PICK g \in gaps : \A k \in gaps : g <= k
    <3> HIDE DEF gaps
    <3> QED
      BY <2>1, <2>2, Smallest
  <2>4. g \in 0 .. a /\ g < a /\ at[a - g] # a - g
    OBVIOUS
  <2> DEFINE i == a - g
  <2>5. i \in 1 .. a /\ at[i] # i /\ i <= at[i] /\ at[i] <= a /\ at[i] \in Int
    <3>1. a - g \in 1 .. a
      BY <2>4
    <3> QED
      BY <1>0, <1>1, <1>3, <2>4, <3>1
  <2>6. i # a
    <3> HIDE DEF i
    <3> QED
      BY <2>5
  <2>7. g - 1 \in 0 .. a /\ g - 1 < a /\ a - (g - 1) = i + 1 /\ ~ g <= g - 1
    BY <2>4, <2>6
  <2>8. at[i + 1] = i + 1
    BY <2>3, <2>7
  <2>9. i + 1 \in 1 .. a /\ i < i + 1
    BY <2>4, <2>6
  <2>10. at[i] < at[i + 1]
    BY <2>5, <2>9
  <2> HIDE DEF i
  <2> QED
    BY <2>5, <2>8, <2>10
<1> QED
  BY <1>1, <1>2, <1>3

\* The pass, which takes every item as early as it can, finds all of s exactly if
\* s is what remains of t when items are left out.
LEMMA PassFinds ==
  ASSUME NEW s \in Seq(STRING), NEW t \in Seq(STRING)
  PROVE  IsSubsequence(s, t) <=> Remains(s, t)
<1> DEFINE m == Len(s)
<1> DEFINE n == Len(t)
<1>0. m \in Nat /\ n \in Nat
  OBVIOUS
<1>1. IsSubsequence(s, t) <=>
         m <= n /\ \E c \in [0 .. n -> 0 .. m] : Passed(s, t, c, n) /\ c[n] = m
  BY DEF IsSubsequence, Passed
<1>2. ASSUME NEW c \in [0 .. n -> 0 .. m], Passed(s, t, c, n), c[n] = m
      PROVE  Remains(s, t)
  <2> DEFINE Place(i, j) == /\ c[j] = i /\ t[j] = s[i]
                            /\ \A k \in 0 .. n : i <= c[k] => j <= k
  <2>0. \A j \in 0 .. n : c[j] \in Int
    BY <1>0
  <2>8. Passed(s, t, c, n)
    BY <1>2
  <2>9. \A j \in 1 .. n : \/ c[j] = c[j - 1]
                         \/ (c[j] = c[j - 1] + 1 /\ s[c[j]] = t[j])
    BY <2>8, PassForward
  <2>1. ASSUME NEW i \in 1 .. m
        PROVE  \E j \in 1 .. n : Place(i, j)
    <3> DEFINE past == {j \in 0 .. n : i <= c[j]}
    <3>1. past \in SUBSET Nat /\ n \in past
      BY <1>0, <1>2
    <3>2. PICK j \in past : \A k \in past : j <= k
      <4> HIDE DEF past
      <4> QED
        BY <3>1, Smallest
    <3>3. j # 0 /\ j \in 0 .. n /\ i <= c[j]
      BY <1>2 DEF Passed
    <3>4. j \in 1 .. n /\ j - 1 \in 0 .. n /\ ~ j <= j - 1
      BY <1>0, <3>3
    <3>5. ~ i <= c[j - 1]
      BY <3>2, <3>4
    <3>6. c[j] = c[j - 1] \/ (c[j] = c[j - 1] + 1 /\ s[c[j]] = t[j])
      BY <2>9, <3>4
    <3>7. c[j - 1] \in Int /\ c[j] \in Int /\ i \in Int
      BY <2>0, <3>3, <3>4
    <3>8. c[j] # c[j - 1]
      BY <3>3, <3>5
    <3>9. c[j] = i
      BY <3>3, <3>5, <3>6, <3>7, <3>8
    <3>10. t[j] = s[i]
      BY <3>6, <3>8, <3>9
    <3>11. \A k \in 0 .. n : i <= c[k] => j <= k
      BY <3>2
    <3> HIDE DEF past, n
    <3> QED
      BY <3>4, <3>9, <3>10, <3>11
  <2> DEFINE at == [i \in 1 .. m |-> CHOOSE j \in 1 .. n : Place(i, j)]
  <2> HIDE DEF Place
  <2>2. \A i \in 1 .. m : at[i] \in 1 .. n /\ Place(i, at[i])
    BY <2>1
  <2>3. at \in [1 .. m -> 1 .. n]
    BY <2>2
  <2> HIDE DEF at
  <2>4. ASSUME NEW i \in 1 .. m, NEW j \in 1 .. m
        PROVE  s[i] = t[at[i]] /\ (i < j => at[i] < at[j])
    <3>1. /\ c[at[i]] = i /\ t[at[i]] = s[i]
          /\ \A k \in 0 .. n : i <= c[k] => at[i] <= k
          /\ c[at[j]] = j /\ at[j] \in 1 .. n /\ at[i] \in 1 .. n
      BY <2>2 DEF Place
    <3>2. at[j] \in 0 .. n /\ i \in Int /\ j \in Int /\ at[i] \in Int /\ at[j] \in Int
      BY <1>0, <3>1
    <3>3. i < j => at[i] <= at[j]
      BY <3>1, <3>2
    <3>4. i < j => at[i] # at[j]
      BY <3>1, <3>2
    <3> QED
      BY <3>1, <3>2, <3>3, <3>4
  <2> QED
    BY <2>3, <2>4 DEF Remains
<1>3. ASSUME Remains(s, t)
      PROVE  m <= n /\ \E c \in [0 .. n -> 0 .. m] : Passed(s, t, c, n) /\ c[n] = m
  <2>1. PICK at \in [1 .. m -> 1 .. n] :
               \A i, j \in 1 .. m : s[i] = t[at[i]] /\ (i < j => at[i] < at[j])
    BY <1>3 DEF Remains
  <2>2. m <= n
    <3>1. \A i, j \in 1 .. m : i < j => at[i] < at[j]
      BY <2>1
    <3> HIDE DEF m, n
    <3> QED
      BY <1>0, <3>1, PlacesForward
  <2>3. PICK c \in [0 .. n -> 0 .. m] : Passed(s, t, c, n)
    BY PassEnds
  <2>4. /\ \A j \in 1 .. n : \/ c[j] = c[j - 1]
                             \/ (c[j] = c[j - 1] + 1 /\ s[c[j]] = t[j])
        /\ \A i \in 0 .. n, j \in 0 .. n : i <= j => c[i] <= c[j]
    BY <2>3, PassForward
  <2>5. \A j \in 0 .. n : c[j] \in Int /\ c[j] >= 0 /\ c[j] <= m
    BY <1>0
  <2>6. ASSUME NEW h \in 1 .. m, ~ h <= c[at[h]]
        PROVE  FALSE
    <3> DEFINE missed == {i \in 1 .. m : ~ i <= c[at[i]]}
    <3>1. missed \in SUBSET Nat /\ missed # {}
      BY <2>6
    <3>2. PICK i \in missed : \A k \in missed : i <= k
      <4> HIDE DEF missed
      <4> QED
        BY <3>1, Smallest
    <3>3. i \in 1 .. m /\ ~ i <= c[at[i]]
      OBVIOUS
    <3> DEFINE x == at[i]
    <3>4. x \in 1 .. n /\ x \in 0 .. n /\ x - 1 \in 0 .. n /\ x \in Int /\ i \in Int
      <4>1. at[i] \in 1 .. n
        BY <2>1, <3>3
      <4> QED
        BY <1>0, <3>3, <4>1
    <3>5. i - 1 <= c[x - 1]
      <4>1. CASE i = 1
        BY <2>5, <3>4, <4>1
      <4>2. CASE i # 1
        <5>1. i - 1 \in 1 .. m /\ i - 1 < i /\ ~ i <= i - 1
          BY <3>3, <4>2
        <5>2. i - 1 <= c[at[i - 1]]
          BY <3>2, <5>1
        <5>3. at[i - 1] < x /\ at[i - 1] \in 1 .. n
          BY <2>1, <3>3, <5>1
        <5>4. at[i - 1] \in 0 .. n /\ at[i - 1] <= x - 1
          BY <1>0, <3>4, <5>3
        <5>5. c[at[i - 1]] <= c[x - 1]
          BY <2>4, <3>4, <5>4
        <5>6. c[at[i - 1]] \in Int /\ c[x - 1] \in Int
          BY <2>5, <3>4, <5>4
        <5> HIDE DEF x
        <5> QED
          BY <3>4, <5>2, <5>5, <5>6
      <4> QED
        BY <4>1, <4>2
    <3>6. c[x] = IF c[x - 1] < Len(s) /\ s[c[x - 1] + 1] = t[x] THEN c[x - 1] + 1 ELSE c[x - 1]
      BY <2>3, <3>4 DEF Passed
    <3>7. s[i] = t[x]
      BY <2>1, <3>3
    <3>8. c[x] \in Int /\ c[x - 1] \in Int /\ ~ i <= c[x] /\ i <= m
      BY <2>5, <3>3, <3>4
    <3> HIDE DEF x
    <3>9. c[x] = c[x - 1] \/ c[x] = c[x - 1] + 1
      BY <3>6
    <3>10. c[x - 1] = i - 1
      BY <3>4, <3>5, <3>8, <3>9
    <3>11. c[x - 1] < Len(s) /\ c[x - 1] + 1 = i
      BY <1>0, <3>4, <3>8, <3>10
    <3>12. c[x] = c[x - 1] + 1
      BY <3>6, <3>7, <3>11
    <3> QED
      BY <3>4, <3>8, <3>11, <3>12
  <2>7. c[n] = m
    <3>1. n \in 0 .. n
      BY <1>0
    <3>2. CASE m = 0
      BY <2>5, <3>1, <3>2
    <3>3. CASE m # 0
      <4>1. m \in 1 .. m
        BY <1>0, <3>3
      <4>2. m <= c[at[m]]
        BY <2>6, <4>1
      <4>3. at[m] \in 0 .. n /\ at[m] <= n
        BY <1>0, <2>1, <4>1
      <4>4. c[at[m]] <= c[n]
        BY <2>4, <3>1, <4>3
      <4>5. c[n] \in Int /\ c[n] <= m /\ c[at[m]] \in Int
        BY <2>5, <3>1, <4>3
      <4> QED
        BY <1>0, <4>2, <4>4, <4>5
    <3> QED
      BY <3>2, <3>3
  <2> QED
    BY <2>2, <2>3, <2>7
<1> QED
  BY <1>1, <1>2, <1>3

\* The class of an added hypothesis is given to exactly those changes.
LEMMA AddedExact ==
  ASSUME NEW d \in Decl, NEW e \in Decl
  PROVE  Classify(d, e) = "added_hypothesis" <=>
            d.concl = e.concl /\ d.hyps # e.hyps /\ Remains(d.hyps, e.hyps)
<1> DEFINE s == d.hyps
<1> DEFINE t == e.hyps
<1>0. s \in Seq(STRING) /\ t \in Seq(STRING) /\ Len(s) \in Nat /\ Len(t) \in Nat
  <2>1. s \in Hypotheses /\ t \in Hypotheses
    BY DEF Decl
  <2> QED
    BY <2>1, StatementFidelityAssumption
<1>1. Remains(s, t) /\ s # t => Len(t) > Len(s)
  <2> SUFFICES ASSUME Remains(s, t), ~ Len(t) > Len(s)
               PROVE  s = t
    OBVIOUS
  <2>1. PICK at \in [1 .. Len(s) -> 1 .. Len(t)] :
               \A i, j \in 1 .. Len(s) : s[i] = t[at[i]] /\ (i < j => at[i] < at[j])
    BY DEF Remains
  <2>2. \A i, j \in 1 .. Len(s) : i < j => at[i] < at[j]
    BY <2>1
  <2> HIDE DEF s, t
  <2>3. Len(s) <= Len(t)
    BY <1>0, <2>2, PlacesForward
  <2>4. Len(s) = Len(t)
    BY <1>0, <2>3
  <2>5. \A i \in 1 .. Len(s) : at[i] = i
    BY <1>0, <2>2, <2>4, PlacesForward
  <2>6. \A i \in 1 .. Len(s) : s[i] = t[i]
    BY <2>1, <2>5
  <2> QED
    BY <1>0, <2>4, <2>6, SeqEqual
<1>2. IsSubsequence(s, t) <=> Remains(s, t)
  BY <1>0, PassFinds
<1>3. <<s, d.concl>> = <<t, e.concl>> <=> s = t /\ d.concl = e.concl
  OBVIOUS
<1>4. Classify(d, e) = "added_hypothesis" <=>
        /\ ~(s = t /\ d.concl = e.concl) /\ d.concl = e.concl
        /\ Len(t) > Len(s) /\ IsSubsequence(s, t)
  BY <1>3 DEF Classify
<1> HIDE DEF s, t
<1>5. Classify(d, e) = "added_hypothesis" <=>
        s # t /\ d.concl = e.concl /\ Remains(s, t)
  BY <1>1, <1>2, <1>4
<1> QED
  BY <1>5 DEF s, t

\* A difference in hypotheses or conclusion has a class, and nothing else has.
LEMMA DriftExact ==
  ASSUME NEW d \in Decl, NEW e \in Decl
  PROVE  Classify(d, e) # "none" <=> <<e.hyps, e.concl>> # <<d.hyps, d.concl>>
BY DEF Classify

\* The names of the drifts are those of the theorems, not covered in either file,
\* that differ.
LEMMA HeadersReported ==
  ASSUME NEW f \in Seq(Decl), NEW g \in Seq(Decl)
  PROVE  {d.name : d \in HeaderDrifts(f, g)} =
           {f[j].name : j \in
              {k \in (1..Len(f)) \ Covered(f) :
                 \E l \in (1..Len(g)) \ Covered(g) :
                    /\ g[l].name = f[k].name
                    /\ <<g[l].hyps, g[l].concl>> # <<f[k].hyps, f[k].concl>>}}
<1> DEFINE D == (1 .. Len(f)) \ Covered(f)
<1> DEFINE E == (1 .. Len(g)) \ Covered(g)
<1> DEFINE Differ(k, l) == /\ g[l].name = f[k].name
                           /\ <<g[l].hyps, g[l].concl>> # <<f[k].hyps, f[k].concl>>
<1>1. Extracted(f) = D /\ Extracted(g) = E
  BY ExtractedAreUncovered
<1>2. \A k \in D, l \in E : f[k] \in Decl /\ g[l] \in Decl
  OBVIOUS
<1>3. \A k \in D, l \in E :
         Classify(f[k], g[l]) # "none" <=> <<g[l].hyps, g[l].concl>> # <<f[k].hyps, f[k].concl>>
  BY <1>2, DriftExact
<1> DEFINE Pairs == {q \in D \X E : f[q[1]].name = g[q[2]].name}
<1> DEFINE Told(p) == [name |-> f[p[1]].name, class |-> Classify(f[p[1]], g[p[2]])]
<1>4. HeaderDrifts(f, g) = {d \in {Told(p) : p \in Pairs} : d.class # "none"}
  BY <1>1 DEF HeaderDrifts
<1>5. \A p : Told(p).name = f[p[1]].name /\ Told(p).class = Classify(f[p[1]], g[p[2]])
  OBVIOUS
<1>6. \A p \in Pairs : p[1] \in D /\ p[2] \in E /\ f[p[1]].name = g[p[2]].name
  OBVIOUS
<1>7. \A k \in D, l \in E : g[l].name = f[k].name => <<k, l>> \in Pairs
  OBVIOUS
<1> HIDE DEF D, E, Pairs, Told
<1>8. ASSUME NEW d \in HeaderDrifts(f, g)
      PROVE  \E k \in D : d.name = f[k].name /\ \E l \in E : Differ(k, l)
  <2>1. PICK p \in Pairs : d = Told(p) /\ Told(p).class # "none"
    BY <1>4
  <2>2. /\ p[1] \in D /\ p[2] \in E /\ f[p[1]].name = g[p[2]].name
        /\ Classify(f[p[1]], g[p[2]]) # "none" /\ d.name = f[p[1]].name
    BY <1>5, <1>6, <2>1
  <2> QED
    BY <1>3, <2>2
<1>9. ASSUME NEW k \in D, NEW l \in E, Differ(k, l)
      PROVE  \E d \in HeaderDrifts(f, g) : d.name = f[k].name
  <2>1. <<k, l>> \in Pairs /\ Classify(f[k], g[l]) # "none"
    BY <1>3, <1>7, <1>9
  <2>2. /\ Told(<<k, l>>).name = f[k].name
        /\ Told(<<k, l>>).class = Classify(f[k], g[l])
    BY <1>5
  <2>3. Told(<<k, l>>) \in HeaderDrifts(f, g)
    BY <1>4, <2>1, <2>2
  <2> QED
    BY <2>2, <2>3
<1> HIDE DEF Differ
<1>10. {d.name : d \in HeaderDrifts(f, g)} =
          {f[j].name : j \in {k \in D : \E l \in E : Differ(k, l)}}
  BY <1>8, <1>9
<1> QED
  BY <1>10 DEF D, E, Differ

\* An edit of the declarations keeps the types.
LEMMA DeclsEdited ==
  ASSUME FidelityIInv, NEW f \in Seq(Decl), EditDecls(f)
  PROVE  FidelityIInv'
<1>1. /\ file' = [file EXCEPT !.decls = f] /\ edits < MaxEdits /\ edits' = edits + 1
      /\ UNCHANGED <<source, contract>>
  BY DEF EditDecls, EditFile
<1>2. /\ file'.decls = f /\ file'.covers = file.covers
      /\ file' \in [decls : Seq(Decl), covers : SUBSET Item,
                   symmetric : BOOLEAN, bounded : BOOLEAN]
  BY <1>1 DEF FidelityIInv
<1>3. edits' \in 0 .. MaxEdits
  BY <1>1, StatementFidelityAssumption DEF FidelityIInv, FidelityTypeOK
<1> QED
  BY <1>1, <1>2, <1>3 DEF FidelityIInv, FidelityTypeOK

\* So does every step.
LEMMA FidelityIInvKept ==
  ASSUME FidelityIInv, [FidelityNext]_fidelityVars
  PROVE  FidelityIInv'
<1> DEFINE s == file.decls
<1>0. s \in Seq(Decl) /\ Len(s) \in Nat /\ \A k \in 1 .. Len(s) : s[k] \in Decl
  BY DEF FidelityIInv, FidelityTypeOK
<1>1. ASSUME NEW k \in 1 .. Len(file.decls), Reprove(k)
      PROVE  FidelityIInv'
  <2>1. PICK inline \in BOOLEAN, assigns \in BOOLEAN :
           EditDecls([s EXCEPT ![k].inline = inline, ![k].assigns = assigns])
    BY <1>1 DEF Reprove
  <2>2. [s[k] EXCEPT !.inline = inline, !.assigns = assigns] \in Decl
    BY <1>0 DEF Decl
  <2>5. k \in 1 .. Len(s)
    OBVIOUS
  <2> HIDE DEF s
  <2>3. [s EXCEPT ![k] = [s[k] EXCEPT !.inline = inline, !.assigns = assigns]] \in Seq(Decl)
    BY <1>0, <2>2, <2>5, ExceptSeq
  <2>4. [s EXCEPT ![k].inline = inline, ![k].assigns = assigns]
           = [s EXCEPT ![k] = [s[k] EXCEPT !.inline = inline, !.assigns = assigns]]
    BY <1>0, <2>5
  <2> QED
    BY <2>1, <2>3, <2>4, DeclsEdited
<1>2. ASSUME NEW k \in 1 .. Len(file.decls), Restate(k)
      PROVE  FidelityIInv'
  <2>1. PICK hyps \in Hypotheses, concl \in {"P", "Q"} :
           EditDecls([s EXCEPT ![k].hyps = hyps, ![k].concl = concl])
    BY <1>2 DEF Restate
  <2>2. [s[k] EXCEPT !.hyps = hyps, !.concl = concl] \in Decl
    BY <1>0 DEF Decl
  <2>5. k \in 1 .. Len(s)
    OBVIOUS
  <2> HIDE DEF s
  <2>3. [s EXCEPT ![k] = [s[k] EXCEPT !.hyps = hyps, !.concl = concl]] \in Seq(Decl)
    BY <1>0, <2>2, <2>5, ExceptSeq
  <2>4. [s EXCEPT ![k].hyps = hyps, ![k].concl = concl]
           = [s EXCEPT ![k] = [s[k] EXCEPT !.hyps = hyps, !.concl = concl]]
    BY <1>0, <2>5
  <2> QED
    BY <2>1, <2>3, <2>4, DeclsEdited
<1>3. ASSUME NEW k \in 1 .. Len(file.decls), Discard(k)
      PROVE  FidelityIInv'
  <2>1. SubSeq(s, 1, k - 1) \in Seq(Decl) /\ SubSeq(s, k + 1, Len(s)) \in Seq(Decl)
    <3>1. k \in 1 .. Len(s)
      OBVIOUS
    <3> HIDE DEF s
    <3> QED
      BY <1>0, <3>1
  <2>2. RemoveAt(s, k) \in Seq(Decl)
    <3> HIDE DEF s
    <3> QED
      BY <2>1 DEF RemoveAt
  <2> QED
    BY <1>3, <2>2, DeclsEdited DEF Discard
<1>4. ASSUME NEW k \in 1 .. Len(file.decls) + 1, AddHelper(k)
      PROVE  FidelityIInv'
  <2>1. PICK inline \in BOOLEAN, assigns \in BOOLEAN :
           EditDecls(InsertAt(s, k, [name |-> Helper, hyps |-> <<>>, concl |-> "Q",
                                     inline |-> inline, assigns |-> assigns]))
    BY <1>4 DEF AddHelper
  <2> DEFINE d == [name |-> Helper, hyps |-> <<>>, concl |-> "Q",
                   inline |-> inline, assigns |-> assigns]
  <2>2. d \in Decl
    BY StatementFidelityAssumption DEF Decl
  <2>3. k \in 1 .. Len(s) + 1
    OBVIOUS
  <2> HIDE DEF s, d
  <2>4. SubSeq(s, 1, k - 1) \in Seq(Decl) /\ SubSeq(s, k, Len(s)) \in Seq(Decl)
    BY <1>0, <2>3
  <2>5. InsertAt(s, k, d) \in Seq(Decl)
    BY <2>2, <2>4 DEF InsertAt
  <2> QED
    BY <2>1, <2>5, DeclsEdited DEF d
<1>5. ASSUME Formalize
      PROVE  FidelityIInv'
  <2> DEFINE d == [name |-> Helper, hyps |-> <<>>, concl |-> "Q",
                   inline |-> FALSE, assigns |-> FALSE]
  <2>1. PICK covers \in SUBSET Item, symmetric \in BOOLEAN, bounded \in BOOLEAN :
           EditFile([decls |-> <<d>>, covers |-> covers,
                     symmetric |-> symmetric, bounded |-> bounded])
    BY <1>5 DEF Formalize
  <2>2. d \in Decl
    BY StatementFidelityAssumption DEF Decl
  <2> HIDE DEF d
  <2>3. <<d>> \in Seq(Decl)
    BY <2>2
  <2>4. /\ file' = [decls   |-> <<d>>, covers |-> covers,
                    symmetric |-> symmetric, bounded |-> bounded]
        /\ edits < MaxEdits /\ edits' = edits + 1 /\ UNCHANGED <<source, contract>>
    BY <2>1 DEF EditFile
  <2>5. edits' \in 0 .. MaxEdits
    BY <2>4, StatementFidelityAssumption DEF FidelityIInv, FidelityTypeOK
  <2> QED
    BY <2>3, <2>4, <2>5 DEF FidelityIInv, FidelityTypeOK
<1>6. ASSUME RewriteContract
      PROVE  FidelityIInv'
  <2>1. edits' \in 0 .. MaxEdits
    BY <1>6, StatementFidelityAssumption DEF RewriteContract, FidelityIInv, FidelityTypeOK
  <2>2. PICK items \in SUBSET (source.own \cup source.bundle),
             kind \in {"comment_only", "theorem_header"} :
           contract' = [state |-> "whole", kind |-> kind, required |-> items]
    BY <1>6 DEF RewriteContract
  <2>3. contract'.state = "whole" /\ contract'.required \subseteq Item
    BY <2>2 DEF FidelityIInv
  <2>4. UNCHANGED <<source, file>> /\ source.kind = "comment_only"
    BY <1>6 DEF RewriteContract
  <2> QED
    BY <2>1, <2>3, <2>4 DEF FidelityIInv, FidelityTypeOK
<1>7. ASSUME TearContract
      PROVE  FidelityIInv'
  <2>1. edits' \in 0 .. MaxEdits
    BY <1>7, StatementFidelityAssumption DEF TearContract, FidelityIInv, FidelityTypeOK
  <2> QED
    BY <1>7, <2>1 DEF TearContract, Torn, NoContract, FidelityIInv, FidelityTypeOK
<1>8. ASSUME Validate
      PROVE  FidelityIInv'
  <2>1. Derived.kind = SourceKind /\ Derived.state = "whole" /\ Derived.required \subseteq Item
    BY DEF Derived, FidelityIInv
  <2>2. source.kind = "theorem_header" => SourceKind = "theorem_header"
    BY DEF SourceKind, FidelityIInv
  <2>3. /\ contract'.required \subseteq Item /\ contract'.state \in {"absent", "torn", "whole"}
        /\ contract'.state = "absent" <=> source.kind = "theorem_header"
    <3>1. CASE contract.state = "whole" \/ Derived.kind # "comment_only"
      <4>1. contract' = contract
        BY <1>8, <3>1 DEF Validate, Materialized
      <4> QED
        BY <4>1 DEF FidelityIInv, FidelityTypeOK
    <3>2. CASE contract.state # "whole" /\ Derived.kind = "comment_only"
      <4>1. contract' = Derived
        BY <1>8, <3>2 DEF Validate, Materialized
      <4> QED
        BY <2>1, <2>2, <3>2, <4>1
    <3> QED
      BY <3>1, <3>2
  <2> QED
    BY <1>8, <2>3 DEF Validate, FidelityIInv, FidelityTypeOK
<1>9. CASE UNCHANGED fidelityVars
  BY <1>9 DEF fidelityVars, FidelityIInv, FidelityTypeOK
<1> QED
  BY <1>1, <1>2, <1>3, <1>4, <1>5, <1>6, <1>7, <1>8, <1>9 DEF FidelityNext

\* For any source, any lists of hypotheses and any number of edits: the headers
\* reported are exactly those of theorems, not covered by the header before, whose
\* hypotheses or conclusion differ, and a drift is called an added hypothesis
\* exactly when leaving out hypotheses gives the statement of the source back.
THEOREM HeadersCorrect == FidelitySpec => []HeadersInv
<1>1. FidelityInit => FidelityIInv
  <2>1. ASSUME NEW f \in Theorems
        PROVE  f \in Seq(Decl)
    BY StatementFidelityAssumption DEF Theorems
  <2>2. ASSUME FidelityInit, source.kind = "theorem_header"
        PROVE  FidelityIInv
    <3>1. PICK f \in Theorems :
            /\ source = [kind |-> "theorem_header", snapshot |-> TRUE, decls |-> f,
                         own |-> {}, bundle |-> {}]
            /\ file = [decls |-> f, covers |-> {}, symmetric |-> FALSE, bounded |-> FALSE]
            /\ contract = NoContract
      BY <2>2 DEF FidelityInit
    <3>2. f \in Seq(Decl)
      BY <2>1
    <3>3. edits \in 0 .. MaxEdits
      BY <2>2, StatementFidelityAssumption DEF FidelityInit
    <3> QED
      BY <3>1, <3>2, <3>3 DEF FidelityIInv, FidelityTypeOK, NoContract
  <2>3. ASSUME FidelityInit, source.kind # "theorem_header"
        PROVE  FidelityIInv
    <3>1. PICK snapshot \in BOOLEAN, own \in SUBSET Item, bundle \in SUBSET Item :
            /\ source = [kind |-> "comment_only", snapshot |-> snapshot, decls |-> <<>>,
                         own |-> own, bundle |-> bundle]
            /\ file = [decls |-> <<>>, covers |-> {}, symmetric |-> FALSE, bounded |-> FALSE]
            /\ contract = [state |-> "whole", kind |-> "comment_only",
                           required |-> own \cup bundle]
      BY <2>3 DEF FidelityInit
    <3>2. <<>> \in Seq(Decl)
      OBVIOUS
    <3>3. edits \in 0 .. MaxEdits
      BY <2>3, StatementFidelityAssumption DEF FidelityInit
    <3> QED
      BY <3>1, <3>2, <3>3 DEF FidelityIInv, FidelityTypeOK
  <2> QED
    BY <2>2, <2>3
<1>2. FidelityIInv /\ [FidelityNext]_fidelityVars => FidelityIInv'
  BY FidelityIInvKept
<1>3. FidelityIInv => HeadersInv
  <2> SUFFICES ASSUME FidelityIInv PROVE HeadersInv
    OBVIOUS
  <2>1. source.decls \in Seq(Decl) /\ file.decls \in Seq(Decl)
    BY DEF FidelityIInv, FidelityTypeOK
  <2>2. DriftsExact
    BY <2>1, HeadersReported DEF DriftsExact
  <2>3. AddedMeansAdded
    <3> SUFFICES ASSUME NEW k \in 1 .. Len(source.decls), NEW l \in 1 .. Len(file.decls)
                 PROVE  LET d == source.decls[k]
                            e == file.decls[l]
                        IN  Classify(d, e) = "added_hypothesis" <=>
                               d.concl = e.concl /\ d.hyps # e.hyps /\ Remains(d.hyps, e.hyps)
      BY DEF AddedMeansAdded
    <3>1. source.decls[k] \in Decl /\ file.decls[l] \in Decl
      BY <2>1
    <3> QED
      BY <3>1, AddedExact
  <2> QED
    BY <2>2, <2>3 DEF HeadersInv, FidelityIInv
<1> QED
  BY <1>1, <1>2, <1>3, PTL DEF FidelitySpec
=============================================================================
