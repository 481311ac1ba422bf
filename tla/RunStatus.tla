------------------------------ MODULE RunStatus ------------------------------
(***************************************************************************)
(* The status of one run and what is done about it: the collector calls it *)
(* queued, running, unverified, needs_relaunch, accepted, blocked or       *)
(* contaminated, and execute_run_recovery launches a teacher or runs a     *)
(* recovery-only cycle accordingly.  A launch first undoes comment-only    *)
(* drift: it moves the state of the run away, RUN_SCOPE.md included, which *)
(* the init of the launch writes anew.                                     *)
(*                                                                         *)
(* Validation says what a cycle writes and what the collector merges; the  *)
(* interleavings inside a cycle, an export or a collection are Acceptance's*)
(* subject, and those of a launch TeacherLaunch's: here each is one step.  *)
(* Target is what the manifest configures.  The scope is what init found    *)
(* to do, which may be less: in a project with a sorry left, only the      *)
(* files that have one.                                                    *)
(***************************************************************************)
EXTENDS Validation, Naturals, FiniteSets

CONSTANT MaxResults    \* bound: what the provers do, over all iterations

ASSUME RunStatusAssumption ==
    IsFiniteSet(Target) /\ Target # {} /\ MaxResults \in Nat

VARIABLES
    scoped,      \* RUN_SCOPE.md is there
    scope,       \* the files it names
    teacher,     \* of the launched script and its teacher
    launched,    \* there is a teacher-launch-state.json
    iterated,    \* .archon/logs holds an iteration
    work, note, validation,
    stray,       \* a task result under a name that stands for no file
    proof, exported,
    journal,     \* the validation_accepted events
    results,     \* how many results the provers have left
    reopened     \* history: files a reset has restored

launch    == <<teacher, launched, scoped, scope>>
workspace == <<work, note, validation, stray>>
artifacts == <<proof, exported>>
vars == <<launch, iterated, workspace, artifacts, journal, results, reopened>>

-----------------------------------------------------------------------------
(* collect_campaign_status, as far as it decides about the run.  What it   *)
(* reports of a run is a function of the run and of the event log.         *)

\* Without a scope every file is looked at.
InView  == IF scope = {} THEN Target ELSE scope
Changed == {t \in InView : work[t] # "source"}
Noted   == {t \in Target : note[t] # "absent"}

\* Changed files no validation tells of, and notes none refers to.
Unverified ==
    \/ \E t \in Changed : validation[t].acc = "absent" /\ exported[t].acc = "absent"
    \/ \E t \in Noted : validation[t].note = "absent" /\ exported[t].note = "absent"
    \/ stray

Pendings == {t \in Target : Refreshed(t, work[t], validation[t]).acc = "pending"}

\* Mutant: what is closed or changed is all that is asked for.
ExpectedUnscoped(closed) == closed \cup Changed

\* Where there is no scope, the files of the manifest do not count ...
Expected(closed) == IF scope # {} THEN scope ELSE closed \cup Changed

\* ... though here they do.
Remaining(closed) == (InView \cup Pendings \cup Changed) \ closed

\* The state of the supervisor and the notes add nothing once a run has been
\* launched: it is relaunched, never launched.
Status(found, closed) ==
    LET settled == /\ Expected(closed) # {} /\ Expected(closed) \subseteq closed
                   /\ Pendings \subseteq closed /\ ~ Unverified
    IN  IF found.rejected # {} THEN "contaminated"
        ELSE IF settled THEN IF closed \subseteq found.blockers THEN "blocked"
                             ELSE "accepted"
        ELSE IF teacher # "none" THEN "running"
        ELSE IF Unverified THEN "unverified"
        ELSE IF launched THEN "needs_relaunch"
        ELSE "queued"

\* The summary of the run.
Report ==
    LET found  == Summary(work, note, validation, exported, proof, journal)
        closed == found.proofs \cup found.formalizations
                     \cup found.blockers \cup found.rejected
    IN  [status |-> Status(found, closed), proofs |-> found.proofs,
         closed |-> closed, remaining |-> Remaining(closed)]

\* The new acceptances are logged.
Collects(r) == journal' = journal \cup r.proofs

-----------------------------------------------------------------------------
Init ==
    /\ scoped = FALSE /\ scope = {}
    /\ teacher = "none" /\ launched = FALSE /\ iterated = FALSE
    /\ work = [t \in Target |-> "source"]
    /\ note = [t \in Target |-> "absent"]
    /\ validation = [t \in Target |-> NoPayload]
    /\ stray = FALSE
    /\ proof = [t \in Target |-> "absent"]
    /\ exported = [t \in Target |-> NoPayload]
    /\ journal = {}
    /\ results = 0 /\ reopened = {}

Collect ==
    /\ Collects(Report)
    /\ UNCHANGED <<launch, iterated, workspace, artifacts, results, reopened>>

-----------------------------------------------------------------------------
(* execute_run_recovery, which collects before it acts: it launches a      *)
(* teacher for a queued run or one that needs it, runs a recovery-only     *)
(* cycle for an unverified one, and does nothing for any other.            *)

\* Comment-only files that fall short of their source, and have left a trace.
Drifted ==
    {t \in CommentOnly :
        /\ ~ Faithful(t, work[t])
        /\ \/ work[t] # "source" \/ note[t] # "absent" \/ proof[t] # "absent"
           \/ validation[t].acc # "absent" \/ exported[t].acc # "absent"}

\* Mutant: the artifacts of every file are moved away.
ResetAll ==
    /\ scoped' = FALSE /\ scope' = {} /\ iterated' = FALSE /\ stray' = FALSE
    /\ work' = [t \in Target |-> IF t \in Drifted THEN "source" ELSE work[t]]
    /\ note' = [t \in Target |-> "absent"]
    /\ validation' = [t \in Target |-> NoPayload]
    /\ proof' = [t \in Target |-> "absent"]
    /\ exported' = [t \in Target |-> NoPayload]

\* The drifted files are restored and their artifacts moved away, and with
\* them the notes, validations, logs and scope of the whole run.
Reset ==
    /\ scoped' = FALSE /\ scope' = {} /\ iterated' = FALSE /\ stray' = FALSE
    /\ work' = [t \in Target |-> IF t \in Drifted THEN "source" ELSE work[t]]
    /\ note' = [t \in Target |-> "absent"]
    /\ validation' = [t \in Target |-> NoPayload]
    /\ proof' = [t \in Target |-> IF t \in Drifted THEN "absent" ELSE proof[t]]
    /\ exported' = [t \in Target |-> IF t \in Drifted THEN NoPayload ELSE exported[t]]

Launch ==
    LET r == Report
    IN  /\ r.status \in {"queued", "needs_relaunch"}
        /\ Collects(r)
        /\ IF Drifted # {} THEN Reset
           ELSE UNCHANGED <<scoped, scope, iterated, workspace, artifacts>>
        /\ reopened' = reopened \cup Drifted
        /\ teacher' = "booting"
        /\ launched' = TRUE
        /\ UNCHANGED results

\* The files a cycle validates: those in scope, or without one what it finds.
Covered == scope \cup Changed

\* Mutant: only the files that changed are validated.
ValidateChanged(status, failed) ==
    validation' = [t \in Target |->
        IF t \in Changed
        THEN Validated(t, status, work[t], note[t], t \in failed, validation[t])
        ELSE validation[t]]

\* A cycle of this status validates every file it covers.
Validate(status, failed) ==
    validation' = [t \in Target |->
        IF t \in Covered \cup failed
        THEN Validated(t, status, work[t], note[t], t \in failed, validation[t])
        ELSE validation[t]]

\* export_run_artifacts, of the validations that have just been written.
Export(ps) ==
    /\ proof' = [t \in Target |-> IF work[t] # "source" THEN work[t] ELSE proof[t]]
    /\ exported' = [t \in Target |->
                      IF ps[t].acc = "absent" THEN exported[t]
                      ELSE Exported(exported[t], ps[t], proof'[t] # "absent")]

DriftedHeaders == {t \in InView : work[t] = "drifted"}

\* A recovery-only cycle takes every change and note for new.  Its export
\* follows if it ends well.  failed are the failures in the latest meta.json.
Recover(failed) ==
    LET r == Report
        recovered == Recovered(Changed, Noted, work, note)
        status == CycleStatus(DriftedHeaders, recovered, failed, FALSE, FALSE,
                              Changed \cup Noted)
    IN  /\ r.status = "unverified"
        /\ Collects(r)
        /\ failed # {} => iterated
        /\ Validate(status, failed)
        /\ IF status = "clean" THEN Export(validation') ELSE UNCHANGED artifacts
        /\ UNCHANGED <<launch, iterated, work, note, stray, results, reopened>>

-----------------------------------------------------------------------------
(* The launched script and its teacher.                                    *)

\* The files in which a sorry may be left: a formalization may be without one.
MayHaveSorry(t) == work[t] # "good" /\ (t \in CommentOnly => work[t] # "source")
MustHaveSorry(t) == t \notin CommentOnly /\ work[t] = "source"

\* Unless there is a sorry, every file of the run is an objective.
Objectives(stage, sorry) == IF stage = "prover" THEN sorry ELSE Target

\* init.sh, when there is no scope: the stage is that of the whole project, of
\* which the run may be the smaller part.
InitRun ==
    /\ teacher = "booting"
    /\ teacher' = "working"
    /\ scoped' = TRUE
    /\ IF scoped THEN scope' = scope
       ELSE \E sorry \in SUBSET Target, stage \in {"autoformalize", "prover", "polish"} :
              /\ \A t \in Target : /\ MustHaveSorry(t) => t \in sorry
                                   /\ t \in sorry => MayHaveSorry(t)
              /\ stage = "autoformalize" =>
                     Target \subseteq CommentOnly /\ Changed = {}
              /\ sorry # {} => stage = "prover"
              /\ scope' = Objectives(stage, sorry)
    /\ UNCHANGED <<launched, iterated, workspace, artifacts, journal, results, reopened>>

TeacherEnds ==
    /\ teacher # "none"
    /\ teacher' = "none"
    /\ UNCHANGED <<scoped, scope, launched, iterated, workspace, artifacts, journal,
                   results, reopened>>

\* archon-loop.sh archives the notes and lets a prover loose on a file.  It
\* leaves a file and a note, or a note under a name of its own choice.
Prove(t, c, n, astray) ==
    /\ teacher = "working"
    /\ t \in InView
    /\ results < MaxResults /\ results' = results + 1
    /\ iterated' = TRUE
    /\ work' = [work EXCEPT ![t] = c]
    /\ note' = [u \in Target |-> IF u = t THEN n ELSE "absent"]
    /\ stray' = astray
    /\ UNCHANGED <<launch, validation, artifacts, journal, reopened>>

\* The cycle judges what its loop left.
EndCycle(new, failed, idle, loopFailed) ==
    LET recovered == /\ idle \/ failed # {}
                     /\ Recovered(new \cap Changed, new \cap Noted, work, note)
        status == CycleStatus(DriftedHeaders, recovered, failed, idle, loopFailed, new)
    IN  /\ teacher = "working" /\ iterated
        /\ new \subseteq Changed \cup Noted
        /\ Validate(status, failed)
        /\ UNCHANGED <<launch, iterated, work, note, stray, artifacts,
                       journal, results, reopened>>

ExportRun ==
    /\ teacher = "working"
    /\ Export(validation)
    /\ UNCHANGED <<launch, iterated, workspace, journal, results, reopened>>

-----------------------------------------------------------------------------
Failures == {{}} \cup {{t} : t \in Target}

TeacherStep ==
    \/ InitRun \/ TeacherEnds \/ ExportRun
    \/ \E t \in Target, n \in Note, astray \in BOOLEAN :
           /\ astray => n = "absent"
           /\ \E c \in Writable(t) \cup {work[t]} : Prove(t, c, n, astray)
    \/ \E new \in SUBSET (Changed \cup Noted), failed \in Failures,
          idle, loopFailed \in BOOLEAN : EndCycle(new, failed, idle, loopFailed)

RecoverRun == \E failed \in Failures : Recover(failed)

Next == Collect \/ Launch \/ RecoverRun \/ TeacherStep

Spec == Init /\ [][Next]_vars

-----------------------------------------------------------------------------
\* Every variable has the values the code gives it.
TypeOK ==
    /\ teacher \in {"none", "booting", "working"}
    /\ scoped \in BOOLEAN /\ launched \in BOOLEAN /\ iterated \in BOOLEAN /\ stray \in BOOLEAN
    /\ scope \subseteq Target /\ reopened \subseteq CommentOnly
    /\ work \in [Target -> Content]
    /\ \A t \in Target : work[t] \in {"source"} \cup Writable(t)
    /\ note \in [Target -> Note]
    /\ validation \in [Target -> Payload] /\ exported \in [Target -> Payload]
    /\ proof \in [Target -> {"absent"} \cup Content]
    /\ journal \subseteq Target
    /\ results \in 0 .. MaxResults

Complete == {"accepted", "blocked"}

\* A run whose scope names a file is reported accepted or blocked only when no
\* file is reported as remaining, though the two are computed apart.
NothingLeftOpen ==
    LET r == Report IN scope # {} /\ r.status \in Complete => r.remaining = {}

\* What was validated as it stands, and exported.
Kept == {t \in Target : /\ validation[t].acc = "accepted"
                        /\ exported[t] = validation[t]
                        /\ proof[t] = work[t]}

\* The reset of a launch costs no file but the drifted ones what was validated
\* and exported: what was closed is still closed when the launch is under way.
KeptOverReset ==
    [][teacher = "none" /\ teacher' = "booting"
        => (Report.closed \cap Kept) \ Drifted \subseteq Report'.closed]_vars

\* One recovery-only cycle settles an unverified run, however it ends, as long
\* as its notes are of files in scope: it is not recovered again and again.
RecoverySettles ==
    [][RecoverRun /\ ~ stray /\ Noted \subseteq scope
        => Report'.status # "unverified"]_vars

\* The status of a run, and what it says of its files.
StatusInv == TypeOK /\ NothingLeftOpen

=============================================================================
