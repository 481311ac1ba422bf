---------------------------- MODULE RunStatus_proofs ----------------------------
(***************************************************************************)
(* Proofs about RunStatus, for any files and any number of results.        *)
(*                                                                         *)
(* TypeOK is inductive.  What a collection reports is then a matter of the *)
(* state it looks at: that a complete run leaves no file open follows from *)
(* the types alone.  What a launch or a recovery does to the next report   *)
(* needs the lemmas about Validation that come first: a faithful file      *)
(* whose acceptance is exported is closed, and a file that was validated   *)
(* leaves neither a change nor a note without a validation.                *)
(***************************************************************************)
EXTENDS RunStatus, TLAPS

-----------------------------------------------------------------------------
(* The operators of Validation.                                            *)

\* A cycle judges a file one of four ways; it never leaves it without a word.
LEMMA AcceptanceValues ==
    ASSUME NEW how, NEW c, NEW n
    PROVE  AcceptanceStatus(how, c, n) \in {"none", "pending", "accepted", "rejected"}
BY DEF AcceptanceStatus

\* What a cycle writes is a payload, which has a status and refers to the note
\* there is.
LEMMA ValidatedType ==
    ASSUME NEW t, NEW how, NEW c, NEW n \in Note, NEW failed,
           NEW previous \in Payload
    PROVE  /\ Validated(t, how, c, n, failed, previous) \in Payload
           /\ Validated(t, how, c, n, failed, previous).acc # "absent"
           /\ n # "absent" => Validated(t, how, c, n, failed, previous).note # "absent"
<1>1. AcceptanceStatus(how, c, n) \in {"none", "pending", "accepted", "rejected"}
  BY AcceptanceValues
<1> QED
  BY <1>1 DEF Validated, Payload

\* What an export leaves is a payload.
LEMMA ExportedType ==
    ASSUME NEW previous \in Payload, NEW current \in Payload, NEW proofExists
    PROVE  Exported(previous, current, proofExists) \in Payload
BY DEF Exported

\* A collection names targets only.
LEMMA SummaryNamesTargets ==
    ASSUME NEW w, NEW n, NEW v, NEW e, NEW p, NEW j, j \subseteq Target
    PROVE  Summary(w, n, v, e, p, j).proofs \subseteq Target
<1> DEFINE ws  == [t \in Target |-> Refreshed(t, w[t], v[t])]
           art == [t \in Target |-> Refreshed(t, w[t], e[t])]
<1>1. \A ps : Proved(ps) \subseteq Target
  BY DEF Proved, Accepted
<1>2. Sticky(ws, art, w, p, j) \subseteq Target
  BY DEF Sticky
<1> HIDE DEF ws, art
<1> QED
  BY <1>1, <1>2 DEF Summary, ws, art

\* A faithful file whose exported payload is an acceptance is closed, whatever
\* the workspace says of it.
LEMMA ExportedIsClosed ==
    ASSUME NEW w, NEW n, NEW v, NEW e, NEW p, NEW j, NEW t \in Target,
           e[t].acc = "accepted", Faithful(t, w[t])
    PROVE  t \in Summary(w, n, v, e, p, j).proofs
                    \cup Summary(w, n, v, e, p, j).formalizations
                    \cup Summary(w, n, v, e, p, j).blockers
<1> DEFINE ws  == [u \in Target |-> Refreshed(u, w[u], v[u])]
           art == [u \in Target |-> Refreshed(u, w[u], e[u])]
<1>1. Refreshed(t, w[t], e[t]) = e[t]
  BY DEF Refreshed
<1>2. art[t] = e[t]
  BY <1>1
<1> HIDE DEF ws, art
<1>3. t \in Accepted(art)
  BY <1>2 DEF Accepted
<1>4. t \in Proved(art) \cup Formalized(art) \cup Blocked(art)
  BY <1>3 DEF Proved, Formalized, Blocked
<1> QED
  BY <1>4 DEF Summary, ws, art

-----------------------------------------------------------------------------
(* The report of a run.                                                    *)

\* A run is reported complete only if what it expects is closed, nothing open
\* is pending and nothing is left to validate.
LEMMA CompleteIsSettled ==
    ASSUME NEW found, NEW closed, Status(found, closed) \in Complete
    PROVE  /\ Expected(closed) # {} /\ Expected(closed) \subseteq closed
           /\ Pendings \subseteq closed
           /\ ~ Unverified
BY DEF Status, Complete

\* It is reported unverified only if something is left to validate.
LEMMA UnverifiedIsSo ==
    ASSUME NEW found, NEW closed, Status(found, closed) = "unverified"
    PROVE  Unverified
BY DEF Status

\* A run with a scope that is complete has no file remaining.
LEMMA CompleteLeavesNothing == TypeOK => NothingLeftOpen
<1> SUFFICES ASSUME TypeOK, scope # {}, Report.status \in Complete
             PROVE  Report.remaining = {}
  BY DEF NothingLeftOpen
<1> DEFINE found  == Summary(work, note, validation, exported, proof, journal)
           closed == found.proofs \cup found.formalizations
                        \cup found.blockers \cup found.rejected
<1>1. /\ Report.status = Status(found, closed)
      /\ Report.remaining = Remaining(closed)
  BY DEF Report
<1> HIDE DEF found, closed
<1>2. scope \subseteq closed /\ Pendings \subseteq closed
  BY <1>1, CompleteIsSettled DEF Expected
<1>3. InView = scope /\ Changed \subseteq scope
  BY DEF InView, Changed
<1> QED
  BY <1>1, <1>2, <1>3 DEF Remaining

-----------------------------------------------------------------------------
(* Type correctness.                                                       *)

\* The events a collection adds are about targets.
LEMMA CollectsType ==
    ASSUME journal \subseteq Target, Collects(Report)
    PROVE  journal' \subseteq Target
BY SummaryNamesTargets DEF Collects, Report

\* A cycle writes payloads.
LEMMA ValidateType ==
    ASSUME TypeOK, NEW status, NEW failed, Validate(status, failed)
    PROVE  validation' \in [Target -> Payload]
<1>1. ASSUME NEW t \in Target
      PROVE  Validated(t, status, work[t], note[t], t \in failed, validation[t]) \in Payload
  <2>1. note[t] \in Note /\ validation[t] \in Payload
    BY DEF TypeOK
  <2> QED
    BY <2>1, ValidatedType
<1>2. \A t \in Target : validation[t] \in Payload
  BY DEF TypeOK
<1> QED
  BY <1>1, <1>2 DEF Validate

\* An export leaves contents and payloads.
LEMMA ExportType ==
    ASSUME TypeOK, NEW ps \in [Target -> Payload], Export(ps)
    PROVE  /\ proof' \in [Target -> {"absent"} \cup Content]
           /\ exported' \in [Target -> Payload]
<1>1. proof' \in [Target -> {"absent"} \cup Content]
  BY DEF Export, TypeOK
<1>2. ASSUME NEW t \in Target
      PROVE  Exported(exported[t], ps[t], proof'[t] # "absent") \in Payload
  <2>1. exported[t] \in Payload /\ ps[t] \in Payload
    BY DEF TypeOK
  <2> QED
    BY <2>1, ExportedType
<1>3. \A t \in Target : exported[t] \in Payload
  BY DEF TypeOK
<1>4. exported' \in [Target -> Payload]
  BY <1>2, <1>3 DEF Export
<1> QED
  BY <1>1, <1>4

\* Every step keeps the types.
LEMMA TypeStep == TypeOK /\ [Next]_vars => TypeOK'
<1> SUFFICES ASSUME TypeOK, [Next]_vars
             PROVE  TypeOK'
  OBVIOUS
<1> USE DEF launch, workspace, artifacts
<1>0. NoPayload \in Payload
  BY DEF NoPayload, Payload, Note
<1>1. CASE Collect
  BY <1>1, CollectsType DEF Collect, TypeOK
<1>2. CASE Launch
  <2>1. /\ journal' \subseteq Target
        /\ teacher' = "booting" /\ launched' = TRUE /\ results' = results
        /\ reopened' \subseteq CommentOnly
    BY <1>2, CollectsType DEF Launch, TypeOK, Drifted
  <2>2. CASE Drifted # {}
    <3>1. Reset
      BY <1>2, <2>2 DEF Launch
    <3>2. /\ work' \in [Target -> Content]
          /\ \A t \in Target : work'[t] \in {"source"} \cup Writable(t)
      BY <3>1 DEF Reset, TypeOK, Content
    <3>3. /\ note' \in [Target -> Note]
          /\ validation' \in [Target -> Payload]
      BY <1>0, <3>1 DEF Reset, Note
    <3>4. /\ proof' \in [Target -> {"absent"} \cup Content]
          /\ exported' \in [Target -> Payload]
      BY <1>0, <3>1 DEF Reset, TypeOK
    <3> QED
      BY <2>1, <3>1, <3>2, <3>3, <3>4 DEF TypeOK, Reset
  <2>3. CASE Drifted = {}
    <3>1. UNCHANGED <<scoped, scope, iterated, workspace, artifacts>>
      BY <1>2, <2>3 DEF Launch
    <3> QED
      BY <2>1, <3>1 DEF TypeOK
  <2> QED
    BY <2>2, <2>3
<1>3. ASSUME NEW failed \in Failures, Recover(failed)
      PROVE  TypeOK'
  <2> DEFINE recovered == Recovered(Changed, Noted, work, note)
             status == CycleStatus(DriftedHeaders, recovered, failed, FALSE, FALSE,
                                   Changed \cup Noted)
  <2>1. /\ Collects(Report)
        /\ Validate(status, failed)
        /\ IF status = "clean" THEN Export(validation') ELSE UNCHANGED artifacts
        /\ UNCHANGED <<launch, iterated, work, note, stray, results, reopened>>
    BY <1>3 DEF Recover
  <2> HIDE DEF status
  <2>2. validation' \in [Target -> Payload]
    BY <2>1, ValidateType
  <2>3. /\ proof' \in [Target -> {"absent"} \cup Content]
        /\ exported' \in [Target -> Payload]
    <3>1. CASE Export(validation')
      BY <3>1, <2>2, ExportType
    <3>2. CASE UNCHANGED artifacts
      BY <3>2 DEF TypeOK
    <3> QED
      BY <2>1, <3>1, <3>2
  <2>4. journal' \subseteq Target
    BY <2>1, CollectsType DEF TypeOK
  <2> QED
    BY <2>1, <2>2, <2>3, <2>4 DEF TypeOK
<1>4. CASE InitRun
  <2>1. scope' \subseteq Target
    <3>1. CASE scoped
      BY <1>4, <3>1 DEF InitRun, TypeOK
    <3>2. CASE ~ scoped
      BY <1>4, <3>2 DEF InitRun, Objectives
    <3> QED
      BY <3>1, <3>2
  <2> QED
    BY <1>4, <2>1 DEF InitRun, TypeOK
<1>5. CASE TeacherEnds
  BY <1>5 DEF TeacherEnds, TypeOK
<1>6. CASE ExportRun
  <2>1. validation \in [Target -> Payload] /\ Export(validation)
    BY <1>6 DEF ExportRun, TypeOK
  <2>2. /\ proof' \in [Target -> {"absent"} \cup Content]
        /\ exported' \in [Target -> Payload]
    BY <2>1, ExportType
  <2> QED
    BY <1>6, <2>2 DEF ExportRun, TypeOK
<1>7. ASSUME NEW t \in Target, NEW n \in Note, NEW astray \in BOOLEAN,
             NEW c \in Writable(t) \cup {work[t]}, Prove(t, c, n, astray)
      PROVE  TypeOK'
  <2>1. c \in Content /\ c \in {"source"} \cup Writable(t)
    BY <1>7 DEF TypeOK, Writable, Content
  <2>2. /\ work' \in [Target -> Content]
        /\ \A u \in Target : work'[u] \in {"source"} \cup Writable(u)
    BY <1>7, <2>1 DEF Prove, TypeOK
  <2>3. note' \in [Target -> Note]
    BY <1>7 DEF Prove, Note
  <2>4. results' \in 0 .. MaxResults
    BY <1>7, RunStatusAssumption DEF Prove, TypeOK
  <2>5. stray' \in BOOLEAN /\ iterated' = TRUE
    BY <1>7 DEF Prove
  <2> QED
    BY <1>7, <2>2, <2>3, <2>4, <2>5 DEF Prove, TypeOK
<1>8. ASSUME NEW new, NEW failed \in Failures, NEW idle \in BOOLEAN,
             NEW loopFailed \in BOOLEAN, EndCycle(new, failed, idle, loopFailed)
      PROVE  TypeOK'
  <2>1. PICK status : Validate(status, failed)
    BY <1>8 DEF EndCycle
  <2>2. validation' \in [Target -> Payload]
    BY <2>1, ValidateType
  <2> QED
    BY <1>8, <2>2 DEF EndCycle, TypeOK
<1>9. CASE UNCHANGED vars
  BY <1>9 DEF vars, TypeOK
<1> QED
  BY <1>1, <1>2, <1>3, <1>4, <1>5, <1>6, <1>7, <1>8, <1>9
     DEF Next, RecoverRun, TeacherStep

\* Every reachable state has the types of RunStatus: each file holds its source
\* or what a prover may leave in it, only comment-only files are reopened, and
\* the event log tells of configured files.
THEOREM TypeCorrect == Spec => []TypeOK
<1>1. Init => TypeOK
  <2>1. NoPayload \in Payload
    BY DEF NoPayload, Payload, Note
  <2>2. ASSUME Init
        PROVE  /\ validation \in [Target -> Payload] /\ exported \in [Target -> Payload]
               /\ proof \in [Target -> {"absent"} \cup Content]
               /\ work \in [Target -> Content] /\ note \in [Target -> Note]
               /\ \A t \in Target : work[t] \in {"source"} \cup Writable(t)
    BY <2>1, <2>2 DEF Init, Note, Content
  <2>3. ASSUME Init
        PROVE  /\ scope \subseteq Target /\ reopened \subseteq CommentOnly
               /\ journal \subseteq Target /\ results \in 0 .. MaxResults
    BY <2>3, RunStatusAssumption DEF Init
  <2> QED
    BY <2>2, <2>3 DEF Init, TypeOK
<1> QED
  BY <1>1, TypeStep, PTL DEF Spec

\* In every reachable state, a run that has a scope and is reported accepted or
\* blocked has no file that the same report lists as remaining.
THEOREM StatusCorrect == Spec => []StatusInv
<1>1. TypeOK => StatusInv
  BY CompleteLeavesNothing DEF StatusInv
<1> QED
  BY <1>1, TypeCorrect, PTL

-----------------------------------------------------------------------------
(* What a launch keeps, and what a recovery settles.                       *)

\* A launch leaves closed what is exported as it was validated.
LEMMA LaunchKeeps ==
    ASSUME TypeOK, Launch, NEW t \in Kept \ Drifted
    PROVE  t \in Report'.closed
<1> USE DEF workspace, artifacts
<1>1. /\ t \in Target /\ t \notin Drifted
      /\ validation[t].acc = "accepted" /\ exported[t] = validation[t]
  BY DEF Kept
<1>2. Faithful(t, work[t])
  BY <1>1 DEF Drifted, Faithful
<1>3. work'[t] = work[t] /\ exported'[t] = exported[t]
  <2>1. CASE Drifted # {}
    <3>1. Reset
      BY <2>1 DEF Launch
    <3> QED
      BY <1>1, <3>1 DEF Reset
  <2>2. CASE Drifted = {}
    BY <2>2 DEF Launch
  <2> QED
    BY <2>1, <2>2
<1>4. exported'[t].acc = "accepted" /\ Faithful(t, work'[t])
  BY <1>1, <1>2, <1>3
<1>5. t \in Summary(work', note', validation', exported', proof', journal').proofs
          \cup Summary(work', note', validation', exported', proof', journal').formalizations
          \cup Summary(work', note', validation', exported', proof', journal').blockers
  BY <1>1, <1>4, ExportedIsClosed
<1> QED
  BY <1>5 DEF Report

\* Whatever state a launch finds the run in, and even if it resets the state of
\* the whole run for the sake of one drifted file, the files whose acceptance
\* was exported as it stood are closed in the next report.
THEOREM KeptOverResetCorrect == Spec => KeptOverReset
<1>1. ASSUME TypeOK, [Next]_vars, teacher = "none", teacher' = "booting"
      PROVE  (Report.closed \cap Kept) \ Drifted \subseteq Report'.closed
  <2>1. Launch
    BY <1>1 DEF Next, Collect, RecoverRun, Recover, TeacherStep, InitRun, TeacherEnds,
                ExportRun, Prove, EndCycle, vars, launch
  <2> QED
    BY <1>1, <2>1, LaunchKeeps
<1>2. TypeOK /\ [Next]_vars
        => [teacher = "none" /\ teacher' = "booting"
            => (Report.closed \cap Kept) \ Drifted \subseteq Report'.closed]_vars
  BY <1>1
<1> QED
  BY <1>2, TypeCorrect, PTL DEF Spec, KeptOverReset

\* A recovery-only cycle, whatever has failed, leaves nothing unverified.
LEMMA RecoverySettlesAll ==
    ASSUME TypeOK, NEW failed, Recover(failed), ~ stray, Noted \subseteq scope
    PROVE  ~ Unverified'
<1> USE DEF launch
<1>1. PICK status : Validate(status, failed)
  BY DEF Recover
<1>2. work' = work /\ note' = note /\ stray' = stray /\ scope' = scope
  BY DEF Recover
<1>3. ASSUME NEW t \in Target, t \in Covered
      PROVE  /\ validation'[t].acc # "absent"
             /\ note[t] # "absent" => validation'[t].note # "absent"
  <2>1. validation'[t] = Validated(t, status, work[t], note[t], t \in failed, validation[t])
    BY <1>1, <1>3 DEF Validate
  <2>2. note[t] \in Note /\ validation[t] \in Payload
    BY DEF TypeOK
  <2> QED
    BY <2>1, <2>2, ValidatedType
<1>4. Changed' = Changed /\ Changed \subseteq Target /\ Changed \subseteq Covered
  BY <1>2 DEF Changed, InView, Covered, TypeOK
<1>5. Noted' = Noted /\ Noted \subseteq Target /\ Noted \subseteq Covered
  BY <1>2 DEF Noted, Covered
<1>6. \A t \in Changed : validation'[t].acc # "absent"
  BY <1>3, <1>4
<1>7. \A t \in Noted : validation'[t].note # "absent"
  BY <1>3, <1>5 DEF Noted
<1> QED
  BY <1>2, <1>4, <1>5, <1>6, <1>7 DEF Unverified

\* After one recovery-only cycle, however it ends and whatever it exports, the
\* run is not reported unverified again, as long as its notes are of files in
\* scope: recovery is not recommended for ever.
THEOREM RecoverySettlesCorrect == Spec => RecoverySettles
<1>1. ASSUME TypeOK, RecoverRun, ~ stray, Noted \subseteq scope
      PROVE  Report'.status # "unverified"
  <2>1. ~ Unverified'
    BY <1>1, RecoverySettlesAll DEF RecoverRun
  <2>2. ASSUME NEW found, NEW closed, Status(found, closed)' = "unverified"
        PROVE  Unverified'
    BY <2>2 DEF Status
  <2> QED
    BY <2>1, <2>2 DEF Report
<1>2. TypeOK => [RecoverRun /\ ~ stray /\ Noted \subseteq scope
                 => Report'.status # "unverified"]_vars
  BY <1>1
<1> QED
  BY <1>2, TypeCorrect, PTL DEF RecoverySettles

=============================================================================
