------------------------------ MODULE Validation ------------------------------
(***************************************************************************)
(* What a supervised cycle, the exporter and the status collector conclude *)
(* from a file: the pure part of acceptance.  Nothing here is state; the   *)
(* processes that call these operators are in Acceptance.                  *)
(*                                                                         *)
(* A Lean file is abstracted to what the code can tell about it: whether   *)
(* it is the source unchanged, whether it verifies, whether a header of    *)
(* the source drifted, and whether a comment-only source is covered.  A    *)
(* task-result note is abstracted to the marker it carries.                *)
(*                                                                         *)
(* validationStatus and checks.headerDrift are left out of a payload: they *)
(* are functions of acceptanceStatus in every payload the code writes      *)
(* (accepted/passed, rejected/failed, none/no_progress, pending/attention).*)
(* checks.proverError is left out too: the one reader of it asks only when *)
(* acceptanceStatus is none, and then it is always false.                  *)
(***************************************************************************)
CONSTANTS
    Target,        \* the allowed files of one run
    CommentOnly    \* those whose source is a comment, without any header

ASSUME ValidationAssumption == CommentOnly \subseteq Target

Content == {"source", "good", "bad", "drifted", "partial"}
Note    == {"absent", "resolved", "blocker", "other"}

\* A validation file; acc is "absent" when there is no such file.
Payload == [acc      : {"absent", "none", "pending", "accepted", "rejected"},
            note     : Note,        \* checks.taskResult.kind
            blockers : BOOLEAN]     \* blockerNotes is not empty
NoPayload == [acc |-> "absent", note |-> "absent", blockers |-> FALSE]

\* What a prover may leave in a file.
Writable(t) == IF t \in CommentOnly THEN {"good", "bad", "partial"}
               ELSE {"source", "good", "bad", "drifted"}

Verifies(c) == c \in {"good", "drifted", "partial"}

\* The formalization fidelity of a file is neither partial nor violated.
Faithful(t, c) == t \in CommentOnly => c \notin {"source", "partial"}

-----------------------------------------------------------------------------
(* archonlib/validation.py: one target of write_validation_artifacts.      *)

\* Mutant: a drifted header does not reject.
AcceptanceBlindToDrift(status, c, n) ==
    IF status = "clean" /\ (c # "source" \/ n # "absent") THEN "accepted"
    ELSE IF status = "no_progress" THEN "none" ELSE "pending"

AcceptanceStatus(status, c, n) ==
    IF c = "drifted" THEN "rejected"
    ELSE IF status = "clean" /\ (c # "source" \/ n # "absent") THEN "accepted"
    ELSE IF status = "no_progress" THEN "none" ELSE "pending"

ShouldPreservePrevious(t, c, n, failed, previous) ==
    /\ previous.acc = "accepted"
    /\ c # "drifted"
    /\ ~ failed
    /\ n # "blocker"
    /\ Faithful(t, c)
    /\ c # "source" \/ n # "absent" \/ previous.blockers

\* The payload a cycle of this status writes over the previous one.
Validated(t, status, c, n, failed, previous) ==
    LET kept == ShouldPreservePrevious(t, c, n, failed, previous)
        acc  == IF kept THEN "accepted" ELSE AcceptanceStatus(status, c, n)
    IN  [acc      |-> IF acc = "accepted" /\ ~ Faithful(t, c) THEN "pending" ELSE acc,
         note     |-> IF kept /\ n = "absent" THEN previous.note ELSE n,
         blockers |-> n = "blocker" \/ (kept /\ previous.blockers)]

-----------------------------------------------------------------------------
(* scripts/supervised_cycle.py: the status of a cycle.                     *)

\* _recover_after_stall: every new file verifies, or every new note is marked.
Recovered(newFiles, newNotes, work, note) ==
    \/ newFiles # {} /\ \A t \in newFiles : Verifies(work[t])
    \/ newNotes # {} /\ \A t \in newNotes : note[t] \in {"resolved", "blocker"}

\* recovered is the event of _recover_after_stall, false where it is not asked.
CycleStatus(drifts, recovered, failed, idle, loopFailed, new) ==
    IF drifts # {}      THEN "policy_violation"
    ELSE IF recovered   THEN "clean"
    ELSE IF failed # {} THEN "prover_failed"
    ELSE IF idle        THEN "prover_idle"
    ELSE IF loopFailed  THEN "loop_failed"
    ELSE IF new = {}    THEN "no_progress"
    ELSE "clean"

CycleStatuses == {"none", "policy_violation", "clean", "prover_failed",
                  "prover_idle", "loop_failed", "no_progress"}

-----------------------------------------------------------------------------
(* archonlib/run_workspace.py: what the export leaves in artifacts.        *)

\* Mutant: the exported acceptance outlives a rejection.
ExportKeepingRejected(previous, current, proofExists) ==
    IF /\ proofExists
       /\ previous.acc = "accepted"
       /\ current.acc # "accepted"
    THEN previous ELSE current

\* A pending or rejected validation replaces the exported one; one that found
\* no progress does not.
Exported(previous, current, proofExists) ==
    IF /\ proofExists
       /\ previous.acc = "accepted"
       /\ current.acc = "none"
    THEN previous ELSE current

-----------------------------------------------------------------------------
(* archonlib/campaign.py: what the status collector makes of a run.        *)

\* _refresh_validation_payload judges the fidelity of the workspace file anew.
Refreshed(t, c, p) ==
    IF p.acc = "accepted" /\ ~ Faithful(t, c) THEN [p EXCEPT !.acc = "pending"]
    ELSE p

Accepted(ps) == {t \in Target : ps[t].acc = "accepted"}
Rejected(ps) == {t \in Target : ps[t].acc = "rejected"}
Pending(ps)  == {t \in Target : ps[t].acc = "pending"}
Blocked(ps)  == {t \in Accepted(ps) : ps[t].note = "blocker"}
Proved(ps)   == Accepted(ps) \ (Blocked(ps) \cup CommentOnly)
Formalized(ps) == (Accepted(ps) \ Blocked(ps)) \cap CommentOnly

\* Mutant: the event log is not consulted.
StickyNone(ws, art, work, proof, journal) == {}

\* Targets the event log once reported accepted and that neither side rejects:
\* kept as long as their proof is exported and the payload that counts, the
\* workspace's if there is one, does not speak against them.
Sticky(ws, art, work, proof, journal) ==
    {t \in journal :
        LET p == IF ws[t].acc # "absent" THEN ws[t] ELSE art[t]
        IN  /\ p.acc # "absent" =>
                  /\ ~ (p.acc = "accepted" /\ p.note = "blocker")
                  /\ p.acc \notin {"pending", "rejected"}
                  /\ Faithful(t, work[t])
            /\ proof[t] # "absent"}

\* The class of a run whose files are closed, pending or not validated so far.
RunClass(closed, blocked, rejected, pending, unverified) ==
    IF rejected # {} THEN "contaminated"
    ELSE IF Target \subseteq closed /\ pending = {} /\ unverified = {}
         THEN IF closed \subseteq blocked THEN "blocked" ELSE "accepted"
    ELSE "open"

\* The acceptance part of a run's summary in campaign-status.json.
Summary(work, note, validation, exported, proof, journal) ==
    LET ws  == [t \in Target |-> Refreshed(t, work[t], validation[t])]
        art == [t \in Target |-> Refreshed(t, work[t], exported[t])]
        rejected   == Rejected(ws) \cup Rejected(art)
        formalized == Formalized(ws) \cup Formalized(art)
        proved     == Proved(ws) \cup Proved(art)
        blocked    == Blocked(ws) \cup Blocked(art)
        sticky     == Sticky(ws, art, work, proof, journal)
                          \ (proved \cup formalized \cup rejected)
        pending    == (Pending(ws) \ (proved \cup formalized \cup blocked \cup rejected))
                          \ sticky
        closed     == proved \cup sticky \cup formalized \cup blocked \cup rejected
        unverified == {t \in Target :
                          \/ work[t] # "source" /\ ws[t].acc = "absent"
                                                /\ art[t].acc = "absent"
                          \/ note[t] # "absent" /\ ws[t].note = "absent"
                                                /\ art[t].note = "absent"}
    IN  [proofs         |-> proved \cup sticky,
         formalizations |-> formalized,
         blockers       |-> blocked,
         rejected       |-> rejected,
         class          |->
            RunClass(closed, blocked, rejected, pending, unverified)]

=============================================================================
