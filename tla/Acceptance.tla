------------------------------ MODULE Acceptance ------------------------------
(***************************************************************************)
(* The life of a proof in one run: provers edit files and write notes in   *)
(* the iterations of archon-loop.sh, a supervised cycle turns what they    *)
(* left into validations, an export copies files and validations into      *)
(* artifacts/, the status collector merges workspace, artifacts and event  *)
(* log into campaign-status.json, and the finalization publishes what that *)
(* status accepts.                                                         *)
(*                                                                         *)
(* One cycle runs at a time (the run lease is another matter), and one     *)
(* export, collection or finalization; but the latter are not held up by a *)
(* running cycle, for nothing in the code makes them wait.  Both may be    *)
(* killed between any two steps, and the loop of a killed cycle, which is  *)
(* a session of its own, goes on without it.                               *)
(***************************************************************************)
EXTENDS Validation, Naturals, FiniteSets

CONSTANTS
    MaxCycles,      \* bound: supervised cycles
    MaxIterations   \* bound: iterations of the loop within one cycle

ASSUME AcceptanceAssumption ==
    /\ IsFiniteSet(Target) /\ Target # {}
    /\ MaxCycles \in Nat /\ MaxIterations \in Nat

VARIABLES
    work,        \* workspace/<file>
    note,        \* .archon/task_results/<file>.md
    validation,  \* .archon/validation/<file>.json
    meta,        \* the files the latest meta.json says a prover failed on
    cycle,       \* the supervised cycle and its loop
    cycles,      \* how many cycles have begun
    proof,       \* artifacts/proofs/<file>
    exported,    \* artifacts/validation/<file>.json
    journal,     \* the validation_accepted events of events.jsonl
    status,      \* campaign-status.json
    job,         \* the export, collection or finalization in progress
    report,      \* reports/final/: the content published for an accepted file
    published,   \* the acceptedProofs and acceptedFormalizations it lists
    vetted,      \* history: the content each file had when last validated
    steady,      \* history: files as last validated since the finalization began
    unlogged     \* history: a collector was killed before it wrote its events

workspace == <<work, note, validation, meta>>
running   == <<cycle, cycles>>
artifacts == <<proof, exported>>
campaign  == <<journal, status>>
final     == <<report, published>>
vars == <<workspace, running, artifacts, campaign, job, final,
          vetted, steady, unlogged>>

-----------------------------------------------------------------------------
Phases == {"idle", "loop", "plan", "prove", "recover", "validate"}
Cycle  == [phase      : Phases,
           supervised : BOOLEAN,          \* FALSE: only its loop is left
           recovery   : BOOLEAN,          \* --recovery-only
           objective  : SUBSET Target,    \* the files the provers work on
           iterations : 0 .. MaxIterations,
           touched    : SUBSET Target,    \* files written since the cycle began
           noted      : SUBSET Target,    \* notes written since the cycle began
           crashed    : SUBSET Target,    \* files a prover of this cycle failed on
           status     : CycleStatuses,
           written    : SUBSET Target]    \* validations written by this cycle

AtRest == [phase |-> "idle", supervised |-> TRUE, recovery |-> FALSE,
           objective |-> {}, iterations |-> 0, touched |-> {}, noted |-> {},
           crashed |-> {}, status |-> "none", written |-> {}]

Job   == [kind : {"none", "export", "collect", "finalize"},
          at   : {"proofs", "validations", "collect", "journal", "copy", "idle"},
          log  : SUBSET Target]           \* the acceptances still to be logged
NoJob == [kind |-> "none", at |-> "idle", log |-> {}]

StatusFile == [proofs : SUBSET Target, formalizations : SUBSET Target,
               blockers : SUBSET Target, rejected : SUBSET Target,
               class : {"contaminated", "accepted", "blocked", "open"}]

Init ==
    /\ work = [t \in Target |-> "source"]
    /\ note = [t \in Target |-> "absent"]
    /\ validation = [t \in Target |-> NoPayload]
    /\ meta = {}
    /\ cycle = AtRest
    /\ cycles = 0
    /\ proof = [t \in Target |-> "absent"]
    /\ exported = [t \in Target |-> NoPayload]
    /\ journal = {}
    /\ status = [proofs |-> {}, formalizations |-> {}, blockers |-> {},
                 rejected |-> {}, class |-> "open"]
    /\ job = NoJob
    /\ report = [t \in Target |-> "absent"]
    /\ published = {}
    /\ vetted = [t \in Target |-> "absent"]
    /\ steady = {}
    /\ unlogged = FALSE

-----------------------------------------------------------------------------
(* A supervised cycle begins.                                              *)

\* Accepted files that are not among the objectives lose their note.
StaleNotes(objective) ==
    IF objective = {} THEN {}
    ELSE {t \in Target \ objective :
             validation[t].acc = "accepted" /\ note[t] # "absent"}

BeginCycle(recovery, objective) ==
    /\ cycle.phase = "idle"
    /\ cycles < MaxCycles
    /\ cycles' = cycles + 1
    /\ cycle' = [AtRest EXCEPT !.phase = IF recovery THEN "recover" ELSE "loop",
                               !.recovery = recovery]
    /\ note' = [t \in Target |->
                  IF t \in StaleNotes(objective) THEN "absent" ELSE note[t]]
    /\ steady' = {}
    /\ UNCHANGED <<work, validation, meta, artifacts, campaign, job, final,
                   vetted, unlogged>>

-----------------------------------------------------------------------------
(* archon-loop.sh, with or without a supervisor.                           *)

Looping == cycle.phase \in {"loop", "plan", "prove"}

\* An iteration creates its meta.json and lets the plan agent loose.
StartIteration ==
    /\ Looping
    /\ cycle.iterations < MaxIterations
    /\ cycle' = [cycle EXCEPT !.phase = "plan", !.iterations = @ + 1]
    /\ meta' = {}
    /\ UNCHANGED <<work, note, validation, cycles, artifacts, campaign, job,
                   final, vetted, steady, unlogged>>

\* run_parallel_provers archives the notes and launches a prover per file.
StartProvers(objective) ==
    /\ cycle.phase = "plan"
    /\ cycle' = [cycle EXCEPT !.phase = "prove", !.objective = objective]
    /\ note' = [t \in Target |-> "absent"]
    /\ UNCHANGED <<work, validation, meta, cycles, artifacts, campaign, job,
                   final, vetted, steady, unlogged>>

\* A prover writes its file.
Edit(t, c) ==
    /\ cycle.phase = "prove"
    /\ t \in cycle.objective
    /\ c # work[t]
    /\ work' = [work EXCEPT ![t] = c]
    /\ cycle' = [cycle EXCEPT !.touched = @ \cup {t}]
    /\ steady' = steady \ {t}
    /\ UNCHANGED <<note, validation, meta, cycles, artifacts, campaign, job,
                   final, vetted, unlogged>>

\* A prover writes its note.
WriteNote(t, n) ==
    /\ cycle.phase = "prove"
    /\ t \in cycle.objective
    /\ n # note[t]
    /\ note' = [note EXCEPT ![t] = n]
    /\ cycle' = [cycle EXCEPT !.noted = @ \cup {t}]
    /\ UNCHANGED <<work, validation, meta, cycles, artifacts, campaign, job,
                   final, vetted, steady, unlogged>>

\* A prover fails or times out.  Only the prover of a sole objective leaves a
\* trace: with several, the subshell ends in "run_codex || true", so that wait
\* succeeds and the status is written as done.
ProverFails(t) ==
    /\ cycle.phase = "prove"
    /\ t \in cycle.objective
    /\ t \notin cycle.crashed
    /\ cycle' = [cycle EXCEPT !.crashed = @ \cup {t}]
    /\ meta' = IF cycle.objective = {t} THEN meta \cup {t} ELSE meta
    /\ UNCHANGED <<work, note, validation, cycles, artifacts, campaign, job,
                   final, vetted, steady, unlogged>>

\* The loop of a killed cycle ends.
OrphanEnds ==
    /\ Looping
    /\ ~ cycle.supervised
    /\ cycle' = AtRest
    /\ UNCHANGED <<workspace, cycles, artifacts, campaign, job, final,
                   vetted, steady, unlogged>>

-----------------------------------------------------------------------------
(* The cycle judges what the loop left, and validates every file.          *)

Changed == {t \in Target : work[t] # "source"}
Drifts  == {t \in Target : work[t] = "drifted"}

NewFiles == IF cycle.recovery THEN Changed ELSE Changed \cap cycle.touched
NewNotes == {t \in Target : /\ note[t] # "absent"
                            /\ cycle.recovery \/ t \in cycle.noted}

\* _recover_after_stall asks after a recovery pass, an idle timeout, or a
\* prover failure the latest meta.json tells of, whatever cycle it is from.
Analyse(idle, loopFailed) ==
    LET asked     == cycle.recovery \/ idle \/ meta # {}
        recovered == asked /\ Recovered(NewFiles, NewNotes, work, note)
    IN  /\ Looping \/ cycle.phase = "recover"
        /\ cycle.supervised
        /\ cycle.recovery => ~ idle /\ ~ loopFailed
        /\ cycle' = [cycle EXCEPT
                       !.phase = "validate",
                       !.status = CycleStatus(Drifts, recovered, meta, idle,
                                              loopFailed, NewFiles \cup NewNotes)]
        /\ UNCHANGED <<workspace, cycles, artifacts, campaign, job, final,
                       vetted, steady, unlogged>>

\* With a single allowed file and nothing new, an idle cycle may find a blocker
\* in the planning notes and write the note itself.
SynthesizeBlocker(t) ==
    /\ Looping
    /\ cycle.supervised
    /\ Target = {t}
    /\ NewFiles = {} /\ note[t] = "absent"
    /\ note' = [note EXCEPT ![t] = "blocker"]
    /\ cycle' = [cycle EXCEPT !.phase = "validate",
                              !.status = IF Drifts # {} THEN "policy_violation"
                                         ELSE "clean"]
    /\ UNCHANGED <<work, validation, meta, cycles, artifacts, campaign, job,
                   final, vetted, steady, unlogged>>

WriteValidation(t) ==
    /\ cycle.phase = "validate"
    /\ t \notin cycle.written
    /\ validation' = [validation EXCEPT ![t] =
                        Validated(t, cycle.status, work[t], note[t],
                                  t \in meta, validation[t])]
    /\ cycle' = [cycle EXCEPT !.written = @ \cup {t}]
    /\ vetted' = [vetted EXCEPT ![t] = work[t]]
    /\ UNCHANGED <<work, note, meta, cycles, artifacts, campaign, job, final,
                   steady, unlogged>>

EndCycle ==
    /\ cycle.phase = "validate"
    /\ cycle.written = Target
    /\ cycle' = AtRest
    /\ UNCHANGED <<workspace, cycles, artifacts, campaign, job, final,
                   vetted, steady, unlogged>>

\* A killed cycle leaves its validations half written, or its loop running.
KillCycle ==
    /\ cycle.phase # "idle"
    /\ cycle.supervised
    /\ cycle' = IF Looping THEN [cycle EXCEPT !.supervised = FALSE] ELSE AtRest
    /\ UNCHANGED <<workspace, cycles, artifacts, campaign, job, final,
                   vetted, steady, unlogged>>

-----------------------------------------------------------------------------
(* Export, collection and finalization.                                    *)

CurrentSummary == Summary(work, note, validation, exported, proof, journal)

BeginJob(kind) ==
    /\ job.kind = "none"
    /\ job' = [kind |-> kind, log |-> {},
               at |-> IF kind = "collect" THEN "collect" ELSE "proofs"]
    /\ steady' = IF kind = "finalize" /\ cycle.phase = "idle"
                 THEN {t \in Target : vetted[t] = work[t]} ELSE {}
    /\ UNCHANGED <<workspace, running, artifacts, campaign, final, vetted,
                   unlogged>>

\* Every file that differs from its source is copied, validated or not.
ExportProofs ==
    /\ job.at = "proofs"
    /\ proof' = [t \in Target |-> IF work[t] # "source" THEN work[t] ELSE proof[t]]
    /\ job' = [job EXCEPT !.at = "validations"]
    /\ UNCHANGED <<workspace, running, exported, campaign, final, vetted,
                   steady, unlogged>>

ExportValidations ==
    /\ job.at = "validations"
    /\ exported' = [t \in Target |->
                      IF validation[t].acc = "absent" THEN exported[t]
                      ELSE Exported(exported[t], validation[t], proof[t] # "absent")]
    /\ job' = IF job.kind = "finalize" THEN [job EXCEPT !.at = "collect"] ELSE NoJob
    /\ UNCHANGED <<workspace, running, proof, campaign, final, vetted, steady, unlogged>>

\* The status is written; its new acceptances are logged after it.
Collect ==
    /\ job.at = "collect"
    /\ status' = CurrentSummary
    /\ job' = [job EXCEPT !.at = "journal",
                          !.log = CurrentSummary.proofs \ status.proofs]
    /\ UNCHANGED <<workspace, running, artifacts, journal, final, vetted,
                   steady, unlogged>>

\* Mutant: a finalization does not log what it finds accepted.
LogUnlessFinalizing ==
    /\ job.at = "journal"
    /\ journal' = IF job.kind = "finalize" THEN journal ELSE journal \cup job.log
    /\ job' = IF job.kind = "finalize"
              THEN [job EXCEPT !.at = "copy", !.log = {}] ELSE NoJob
    /\ UNCHANGED <<workspace, running, artifacts, status, final, vetted,
                   steady, unlogged>>

LogAcceptances ==
    /\ job.at = "journal"
    /\ journal' = journal \cup job.log
    /\ job' = IF job.kind = "finalize"
              THEN [job EXCEPT !.at = "copy", !.log = {}] ELSE NoJob
    /\ UNCHANGED <<workspace, running, artifacts, status, final, vetted,
                   steady, unlogged>>

\* The accepted files are copied from artifacts, those that are there.
Publish ==
    /\ job.at = "copy"
    /\ published' = status.proofs \cup status.formalizations
    /\ report' = [t \in Target |->
                    IF t \in published' /\ proof[t] # "absent" THEN proof[t]
                    ELSE report[t]]
    /\ job' = NoJob
    /\ UNCHANGED <<workspace, running, artifacts, campaign, vetted, steady, unlogged>>

KillJob ==
    /\ job.kind # "none"
    /\ unlogged' = (unlogged \/ job.log # {})
    /\ job' = NoJob
    /\ steady' = {}
    /\ UNCHANGED <<workspace, running, artifacts, campaign, final, vetted>>

-----------------------------------------------------------------------------
Objectives == SUBSET Target

LoopStep ==
    \/ StartIteration
    \/ \E objective \in Objectives : StartProvers(objective)
    \/ \E t \in Target : \/ \E c \in Writable(t) : Edit(t, c)
                         \/ \E n \in Note \ {"absent"} : WriteNote(t, n)
                         \/ ProverFails(t)
    \/ OrphanEnds

CycleStep ==
    \/ \E recovery \in BOOLEAN, objective \in Objectives :
          BeginCycle(recovery, objective)
    \/ \E idle, loopFailed \in BOOLEAN : Analyse(idle, loopFailed)
    \/ \E t \in Target : SynthesizeBlocker(t) \/ WriteValidation(t)
    \/ EndCycle
    \/ KillCycle

JobStep ==
    \/ \E kind \in {"export", "collect", "finalize"} : BeginJob(kind)
    \/ ExportProofs \/ ExportValidations \/ Collect \/ LogAcceptances
    \/ Publish \/ KillJob

Next == LoopStep \/ CycleStep \/ JobStep

Spec == Init /\ [][Next]_vars

-----------------------------------------------------------------------------
(* What acceptance promises.                                               *)

\* The variables have their types.
TypeOK ==
    /\ work \in [Target -> Content]
    /\ note \in [Target -> Note]
    /\ validation \in [Target -> Payload]
    /\ meta \subseteq Target
    /\ cycle \in Cycle
    /\ cycles \in 0 .. MaxCycles
    /\ proof \in [Target -> Content \cup {"absent"}]
    /\ exported \in [Target -> Payload]
    /\ journal \subseteq Target
    /\ status \in StatusFile
    /\ job \in Job
    /\ report \in [Target -> Content \cup {"absent"}]
    /\ published \subseteq Target
    /\ vetted \in [Target -> Content \cup {"absent"}]
    /\ steady \subseteq Target
    /\ unlogged \in BOOLEAN

\* However cycles, kills and exports interleave: a run whose summary says
\* accepted or blocked has no file with a drifted header that is still as the
\* last cycle to look at it saw it.
ClosedRunHasNoDrift ==
    CurrentSummary.class \in {"accepted", "blocked"} =>
        \A t \in Target : vetted[t] = work[t] => work[t] # "drifted"

\* The event log covers the acceptances of the status, unless a collector is
\* about to log them or was killed before it did.
StatusIsJournaled ==
    \/ unlogged
    \/ status.proofs \subseteq journal \cup job.log

\* A finalization publishes, of a file that differs from its source and that
\* no cycle has disturbed since it was last validated, the very content that
\* validation saw: a faithful one, without a drifted header.
PublishedAsVetted ==
    [][Publish => \A t \in steady \cap published' :
          work[t] # "source" =>
              /\ report'[t] = vetted[t]
              /\ report'[t] # "drifted"
              /\ Faithful(t, report'[t])]_vars

\* A proof the status accepted is lost by a later collection only for a cause:
\* a validation that pends, rejects or found a blocker, or a proof that was
\* never exported, or a collector killed before it logged the acceptance.
\* In particular no cycle without progress costs an exported proof.
AcceptanceLostForCause ==
    [][\A t \in status.proofs \ status'.proofs :
          \/ validation[t].acc \in {"pending", "rejected"}
          \/ exported[t].acc = "rejected"
          \/ validation[t].note = "blocker"
          \/ proof[t] = "absent"
          \/ unlogged]_vars

\* A prover failure that left its trace in meta.json: a changed file of a failed
\* prover is accepted only if it verifies or its note says resolved or blocker,
\* and what an earlier validation said does not change that.
RecordedFailureNeedsEvidence ==
    \A t \in cycle.written \cap meta \cap cycle.touched :
        work[t] # "source" /\ validation[t].acc = "accepted" =>
            Verifies(work[t]) \/ validation[t].note \in {"resolved", "blocker"}

\* What a run or a file is accepted for: no drifted header, and no recorded
\* failure of its prover without evidence to the contrary.
AcceptedOnGrounds == ClosedRunHasNoDrift /\ RecordedFailureNeedsEvidence

=============================================================================
