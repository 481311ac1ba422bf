--------------------------- MODULE CampaignReports ----------------------------
(***************************************************************************)
(* What a campaign tells of itself.  Commands, the watchdog and the        *)
(* observer collect the status of the runs, log what has changed since the *)
(* last collection, compare, give an overview with a queue of what needs   *)
(* an operator, and archive.  All of them rewrite the same files in place  *)
(* and append to the same log, without a lock.                             *)
(*                                                                         *)
(* How a collection arrives at the status of a run is RunStatus's subject; *)
(* here the runs simply change between one collection and the next, which  *)
(* sees them at one go.                                                    *)
(*                                                                         *)
(* The specification has names of its own, ReportsSpec and so on, for the  *)
(* proofs about it stand in one module with those of Watchdog.             *)
(***************************************************************************)
EXTENDS Integers, FiniteSets, FiniteSetsExt, Functions, Sequences

CONSTANTS
    Run, File,       \* the runs of the manifest, and the files of each
    Reporter,        \* processes that run one command after the other
    Observed,        \* bound: what is seen of runs
    MaxMoves,        \* bound: on the changes of runs
    MaxStamps        \* bound: on the time stamps the commands may need

ASSUME CampaignReportsAssumption ==
    /\ IsFiniteSet(Run) /\ IsFiniteSet(File)
    /\ {MaxMoves, MaxStamps} \subseteq Nat

VARIABLES
    world,      \* the runs, as the last collection found them
    moves,      \* how often that was not as before
    status,     \* campaign-status.json
    log,        \* events.jsonl
    report,     \* compare-report.json
    proc,       \* the processes
    budget,     \* the time stamps for which commands may still be started
    clock,      \* for time stamps, no two of which are equal
    overlapped, \* history: two of them were at work at once
    cut         \* history: one was killed, or failed, before it had logged

files == <<status, log, report>>
reportsVars == <<world, moves, files, proc, budget, clock, overlapped, cut>>

TerminalStatuses == {"accepted", "blocked", "contaminated"}
Complete == {"accepted", "blocked"}
Statuses == TerminalStatuses \cup {"queued", "running", "unverified", "needs_relaunch"}

\* What is accepted of a run: proofs, formalizations and blockers.
Finalized(o) == o.proofs \cup o.formalizations \cup o.blockers

\* What no validation speaks of: changed files, and a note in task_results.
Unverified(o) == o.unverified # {} \/ o.note

\* A run in the status.  What it has to close may not be known before it is
\* launched, nor later where it has no scope, and a contaminated one has closed
\* what was rejected.
Seen == {o \in [status : Statuses, proofs : SUBSET File, formalizations : SUBSET File,
                blockers : SUBSET File, remaining : SUBSET File,
                unverified : SUBSET File, note : BOOLEAN] :
            /\ o.proofs \cap o.formalizations = {}
            /\ (o.proofs \cup o.formalizations) \cap o.blockers = {}
            /\ o.remaining \cap Finalized(o) = {} /\ o.unverified \subseteq o.remaining
            /\ o.status \notin TerminalStatuses /\ o.remaining = {} =>
                   Finalized(o) = {} \/ o.note
            /\ o.status = "queued" => Finalized(o) = {}
            /\ o.status \in {"queued", "needs_relaunch"} => ~ Unverified(o)
            /\ o.status = "unverified" => Unverified(o)
            /\ o.status \in Complete => o.remaining = {} /\ ~ o.note
            /\ o.status = "accepted" => o.proofs \cup o.formalizations # {}
            /\ o.status = "blocked" => Finalized(o) = o.blockers /\ o.blockers # {}}

Observable == Observed \cap Seen

\* No file, or one that is being written or was left half written.
Missing == [at |-> 0, runs |-> <<>>]
NoReport == [at |-> 0, runs |-> <<>>, ends |-> <<>>]

Records == {Missing} \cup [at : Nat \ {0}, runs : [Run -> Seen]]
Reports == {NoReport} \cup
           [at : Nat \ {0}, runs : [Run -> Seen], ends : [Run -> Statuses \cup {"none"}]]

-----------------------------------------------------------------------------
(* What is derived from the status of the runs.                            *)

Counts(runs) == [s \in Statuses |-> Cardinality({r \in DOMAIN runs : runs[r].status = s})]

\* _campaign_target_counts: of the files of all the runs, and of the notes.
TargetCounts(runs) ==
    LET Files == (DOMAIN runs) \X File
    IN  [proofs     |-> Cardinality({x \in Files : x[2] \in runs[x[1]].proofs}),
         formalizations |->
             Cardinality({x \in Files : x[2] \in runs[x[1]].formalizations}),
         blockers   |-> Cardinality({x \in Files : x[2] \in runs[x[1]].blockers}),
         remaining  |-> Cardinality({x \in Files : x[2] \in runs[x[1]].remaining}),
         unverified |-> Cardinality({x \in Files : x[2] \in runs[x[1]].unverified})
                            + Cardinality({r \in DOMAIN runs : runs[r].note})]

RecommendedRecovery(o) ==
    CASE o.status = "queued"         -> "launch_teacher"
      [] o.status = "unverified"     -> "recovery_only"
      [] o.status = "needs_relaunch" -> "relaunch_teacher"
      [] o.status = "contaminated"   -> "manual_rebuild"
      [] OTHER                       -> "none"

Running(runs)     == {r \in Run : runs[r].status = "running"}
Recoverable(runs) == {r \in Run : RecommendedRecovery(runs[r]) # "none"}

\* The operator queue, regardless of its order.
OperatorQueue(runs) == Running(runs) \cup Recoverable(runs)

\* Not told apart: what the running runs wait for, and how long it will take.
LikelyBottleneck(runs) ==
    CASE Recoverable(runs) # {} -> "recovery_backlog"
      [] Recoverable(runs) = {} /\ Running(runs) # {} -> "theorem_search"
      [] OTHER -> "stable_or_idle"

\* Mutant: no file is left, so all is done.
EtaByTargets(runs) == TargetCounts(runs).remaining = 0

EtaComplete(runs) ==
    /\ TargetCounts(runs).remaining = 0
    /\ \A r \in Run : runs[r].status \in TerminalStatuses

\* Mutant: whatever has these counts is fresh.
FreshByCounts(s, c) == c # NoReport /\ Counts(c.runs) = Counts(s.runs)

\* compare_report_freshness: the counts of the files are not compared.
Fresh(s, c) == c # NoReport /\ c.at >= s.at /\ Counts(c.runs) = Counts(s.runs)

\* _status_buckets
Bucket(s) ==
    CASE s \in TerminalStatuses -> "terminal"
      [] s = "running"               -> "active"
      [] s = "queued"                -> "queued"
      [] OTHER                       -> "attention"

StatusBuckets(runs) ==
    [b \in {"terminal", "active", "queued", "attention"} |->
        Cardinality({r \in DOMAIN runs : Bucket(runs[r].status) = b})]

\* build_campaign_progress_payload: files are counted if there are any, and
\* runs otherwise.  A file that is unverified counts twice, for it remains, too; a
\* note that no validation speaks of is counted, though it never remains.
ProgressOf(runs) ==
    LET targets == TargetCounts(runs)
        closed  == targets.proofs + targets.formalizations + targets.blockers
        total   == closed + targets.remaining + targets.unverified
    IN  IF total > 0
        THEN [completed |-> closed, total |-> total]
        ELSE [completed |-> StatusBuckets(runs)["terminal"],
              total |-> Cardinality(DOMAIN runs)]

\* The commands an operator is offered, those aside that always are.
RecommendedCommands(runs) ==
    {c \in {"recover", "watch_run"} :
        \/ c = "recover" /\ Recoverable(runs) # {}
        \/ c = "watch_run" /\ Running(runs) # {}}

Overview(s, c) ==
    [runs |-> s.runs, queue |-> OperatorQueue(s.runs), fresh |-> Fresh(s, c),
     bottleneck |-> LikelyBottleneck(s.runs), complete |-> EtaComplete(s.runs),
     buckets |-> StatusBuckets(s.runs), progress |-> ProgressOf(s.runs),
     commands |-> RecommendedCommands(s.runs)]

NoOverview == [runs |-> <<>>, queue |-> {}, fresh |-> FALSE,
               bottleneck |-> "none", complete |-> FALSE, buckets |-> <<>>,
               progress |-> <<>>, commands |-> {}]

-----------------------------------------------------------------------------
(* The events of a collection, given the status before it and the log.     *)

Changed(r, before, after) ==
    [event |-> "run_status_changed", run |-> r, item |-> <<before, after>>]

Accepted(kind, r, f) == [event |-> kind, run |-> r, item |-> <<f>>]

Events ==
    {Changed(r, before, after) :
        r \in Run, before \in Statuses \cup {"none"}, after \in Statuses}
    \cup {Accepted(kind, r, f) :
            kind \in {"validation_accepted", "blocker_accepted"}, r \in Run, f \in File}

\* Mutant: what the previous status does not have is new.
NewToStatus(kind, r, now, before, logged) ==
    {Accepted(kind, r, f) : f \in now \ before}

\* Of the acceptances those the previous status does not have, nor the log.
\* There is no event for a formalization that is accepted.
NewAcceptances(kind, r, now, before, logged) ==
    {Accepted(kind, r, f) : f \in now \ before} \ Range(logged)

RunAcceptances(r, prev, runs, logged) ==
    LET proofs == IF prev = Missing THEN {} ELSE prev.runs[r].proofs
        blocks == IF prev = Missing THEN {} ELSE prev.runs[r].blockers
    IN  NewAcceptances("validation_accepted", r, runs[r].proofs, proofs, logged)
        \cup NewAcceptances("blocker_accepted", r, runs[r].blockers, blocks, logged)

StatusBefore(r, prev) == IF prev = Missing THEN "none" ELSE prev.runs[r].status

StatusChange(r, prev, runs) ==
    IF StatusBefore(r, prev) = runs[r].status THEN {}
    ELSE {Changed(r, StatusBefore(r, prev), runs[r].status)}

\* campaign_status_refreshed, which comes last, is read by nobody and left out.
StatusEvents(prev, runs, logged) ==
    UNION {StatusChange(r, prev, runs) \cup RunAcceptances(r, prev, runs, logged) : r \in Run}

-----------------------------------------------------------------------------
\* What the commands are made of.  A peek is an overview with
\* --no-refresh-status, as the watchdog has it written; the observer's are
\* refreshed.
Jobs == [collect  |-> <<"collect">>,
         compare  |-> <<"collect", "compare">>,
         overview |-> <<"collect", "overview", "write_surface">>,
         peek     |-> <<"status", "overview", "write_surface">>,
         archive  |-> <<"collect", "collect", "compare", "status", "overview",
                        "write_postmortem">>]

\* A process: where it is, what is left to do after that, the status it found
\* before and the one it made or read, the events it still has to append, and
\* the overview it has built.
Idle == [pc |-> "idle", todo |-> <<>>, prev |-> Missing, mine |-> Missing,
         out |-> {}, overview |-> NoOverview]

Busy == {w \in Reporter : proc[w].pc # "idle"}

ReportsInit ==
    /\ world \in [Run -> {o \in Observable : o.status \in {"queued", "running"}}] /\ moves = 0
    /\ status = Missing /\ log = <<>> /\ report = NoReport
    /\ proc = [w \in Reporter |-> Idle]
    /\ budget = MaxStamps /\ clock = 0
    /\ overlapped = FALSE /\ cut = FALSE

At(w, where) == proc[w].pc = where
Becomes(w, p) == proc' = [proc EXCEPT ![w] = p]

\* The process p, done with a step of its job.
Onward(p) ==
    IF p.todo = <<>> THEN Idle ELSE [p EXCEPT !.pc = Head(p.todo), !.todo = Tail(p.todo)]

Ticks == clock' = clock + 1

Stamps(job) ==
    Cardinality({i \in DOMAIN Jobs[job] : Jobs[job][i] \in {"collect", "compare", "status"}})

Start(w, job) ==
    /\ w \notin Busy
    /\ budget >= Stamps(job) /\ budget' = budget - Stamps(job)
    /\ Becomes(w, Onward([Idle EXCEPT !.todo = Jobs[job]]))
    /\ overlapped' = (overlapped \/ Busy # {})
    /\ UNCHANGED <<world, moves, files, clock, cut>>

-----------------------------------------------------------------------------
(* collect_campaign_status *)

\* The status of the last collection is read before the runs are looked at.
Collect(w) ==
    /\ At(w, "collect")
    /\ Becomes(w, [proc[w] EXCEPT !.pc = "observe", !.prev = status])
    /\ UNCHANGED <<world, moves, files, clock, budget, overlapped, cut>>

\* The new one is stamped, and its file truncated.  Of the runs, which change
\* on their own, one at most has changed since they were last looked at.
Observe(w, r, o) ==
    /\ At(w, "observe")
    /\ Ticks
    /\ world' = [world EXCEPT ![r] = o]
    /\ moves' = IF world' = world THEN moves ELSE moves + 1
    /\ moves' <= MaxMoves
    /\ Becomes(w, [proc[w] EXCEPT !.pc = "fill", !.mine = [at |-> clock', runs |-> world']])
    /\ status' = Missing
    /\ UNCHANGED <<log, report, budget, overlapped, cut>>

Fill(w) ==
    /\ At(w, "fill")
    /\ Becomes(w, [proc[w] EXCEPT !.pc = "diff"])
    /\ status' = proc[w].mine
    /\ UNCHANGED <<world, moves, log, report, clock, budget, overlapped, cut>>

\* The log is read once for all the events that will be appended.
Diff(w) ==
    /\ At(w, "diff")
    /\ LET events == StatusEvents(proc[w].prev, proc[w].mine.runs, log)
           p == [proc[w] EXCEPT !.prev = Missing]
       IN  Becomes(w, IF events = {} THEN Onward(p)
                      ELSE [p EXCEPT !.pc = "append", !.out = events])
    /\ UNCHANGED <<world, moves, files, clock, budget, overlapped, cut>>

\* The change of a run goes before its acceptances; the order is open otherwise.
AppendEvent(w, e) ==
    /\ At(w, "append") /\ e \in proc[w].out
    /\ \A d \in proc[w].out : d.event = "run_status_changed" /\ d.run = e.run => d = e
    /\ log' = Append(log, e)
    /\ LET p == [proc[w] EXCEPT !.out = @ \ {e}]
       IN  Becomes(w, IF p.out = {} THEN Onward(p) ELSE p)
    /\ UNCHANGED <<world, moves, status, report, clock, budget, overlapped, cut>>

CollectStep(w) ==
    \/ Collect(w) \/ Fill(w) \/ Diff(w)
    \/ \E e \in proc[w].out : AppendEvent(w, e)
    \/ \E r \in Run : \E o \in {world[r]} \cup Observable : Observe(w, r, o)

-----------------------------------------------------------------------------
(* Reports and overviews. *)

\* Where in a log the status of a run changed.
Changes(r, logged) ==
    {i \in DOMAIN logged : logged[i].event = "run_status_changed" /\ logged[i].run = r}

\* The timeline of a run, of which only the status it ends in matters.
TimelineEnd(r, logged) ==
    IF Changes(r, logged) = {} THEN "none" ELSE logged[Max(Changes(r, logged))].item[2]

\* build_campaign_compare_report, once the status is collected: the report is
\* stamped after that.
Compare(w) ==
    /\ At(w, "compare")
    /\ Ticks
    /\ report' = [at |-> clock', runs |-> proc[w].mine.runs,
                  ends |-> [r \in Run |-> TimelineEnd(r, log)]]
    /\ Becomes(w, Onward(proc[w]))
    /\ UNCHANGED <<world, moves, status, log, budget, overlapped, cut>>

\* Without a refresh the status is that of the file, if it can be read.
ReadStatus(w) ==
    /\ At(w, "status")
    /\ Becomes(w, IF status = Missing THEN [proc[w] EXCEPT !.pc = "collect"]
                  ELSE Onward([proc[w] EXCEPT !.mine = status]))
    /\ UNCHANGED <<world, moves, files, clock, budget, overlapped, cut>>

BuildOverview(w) ==
    /\ At(w, "overview")
    /\ Becomes(w, Onward([proc[w] EXCEPT !.overview = Overview(proc[w].mine, report)]))
    /\ UNCHANGED <<world, moves, files, clock, budget, overlapped, cut>>

\* What is written in the end is read by people only.
WriteSurface(w) ==
    /\ At(w, "write_surface")
    /\ Becomes(w, Onward(proc[w]))
    /\ UNCHANGED <<world, moves, files, clock, budget, overlapped, cut>>

WritePostmortem(w) ==
    /\ At(w, "write_postmortem")
    /\ Becomes(w, Onward(proc[w]))
    /\ UNCHANGED <<world, moves, files, clock, budget, overlapped, cut>>

ReportStep(w) ==
    \/ Compare(w) \/ ReadStatus(w) \/ BuildOverview(w)
    \/ WriteSurface(w) \/ WritePostmortem(w)

\* Between Observe and the last event something is lost for good.  Anywhere
\* else a command that is killed leaves what a shorter one would.
Kill(w) ==
    /\ proc[w].pc \in {"fill", "diff", "append"}
    /\ Becomes(w, Idle)
    /\ cut' = TRUE
    /\ UNCHANGED <<world, moves, files, budget, clock, overlapped>>

-----------------------------------------------------------------------------
ReportsNext ==
    \/ \E w \in Reporter : CollectStep(w) \/ ReportStep(w) \/ Kill(w)
    \/ \E w \in Reporter, job \in DOMAIN Jobs : Start(w, job)

ReportsSpec == ReportsInit /\ [][ReportsNext]_reportsVars

-----------------------------------------------------------------------------
\* Every variable has the values the code gives it.
ReportsTypeOK ==
    /\ world \in [Run -> Seen] /\ moves \in 0 .. MaxMoves
    /\ clock \in Nat /\ budget \in 0 .. MaxStamps
    /\ status \in Records /\ report \in Reports /\ log \in Seq(Events)
    /\ {status.at, report.at} \subseteq 0 .. clock
    /\ \A w \in Reporter : proc[w].pc # "idle" \/ proc[w] = Idle
    /\ {overlapped, cut} \subseteq BOOLEAN

\* Collections that do not overlap log an acceptance once, even if the status
\* they go by was lost or the file was open again in between: the log decides,
\* and throughput and timelines are taken from it.
LoggedOnce ==
    ~ overlapped => \A i, j \in DOMAIN log :
        i # j /\ log[i].event # "run_status_changed" => log[i] # log[j]

\* No acceptance of a proof or a blocker is lost, even by collections that
\* overlap: once nobody is at work, those that the status has are in the log.
\* One that reads the status of another logs nothing of it; the other will,
\* unless it is cut short.  Of accepted formalizations the log has nothing.
NothingLost ==
    ~ cut /\ Busy = {} /\ status # Missing => \A r \in Run :
        /\ \A f \in status.runs[r].proofs :
               Accepted("validation_accepted", r, f) \in Range(log)
        /\ \A f \in status.runs[r].blockers :
               Accepted("blocker_accepted", r, f) \in Range(log)

\* The status changes of a run follow on each other, and the timelines of a
\* report end in the status it has for the run, as long as collections neither
\* overlap nor are cut short.
ChangesChain ==
    ~ overlapped /\ ~ cut =>
        /\ \A r \in Run : \A i, j \in Changes(r, log) :
               i < j /\ (\A k \in Changes(r, log) : k <= i \/ j <= k) =>
                   log[j].item[1] = log[i].item[2]
        /\ \A r \in DOMAIN report.runs : report.ends[r] = report.runs[r].status

\* A compare report that passes for fresh counts the same files as the status,
\* although only time stamps and counts of runs are compared.
FreshReportAgrees ==
    ~ overlapped /\ status # Missing /\ Fresh(status, report) =>
        TargetCounts(report.runs) = TargetCounts(status.runs)

\* The overview that goes into a postmortem finds its report fresh, if nothing
\* else reports at the time.
PostmortemFresh ==
    \A w \in Reporter : ~ overlapped /\ At(w, "write_postmortem") => proc[w].overview.fresh

\* No run is forgotten: what is neither accepted nor blocked is in the operator
\* queue, with a command for it, a campaign that passes for idle has nothing
\* open, and where no time is left the buckets have terminal runs only, no run
\* can still be worked on by a teacher, and the progress is complete, unless a
\* contaminated run has a note that no validation speaks of.
OverviewTellsAll ==
    \A o \in {proc[w].overview : w \in Reporter} \ {NoOverview} :
        LET open == {r \in Run : o.runs[r].status \notin Complete}
        IN  /\ o.queue = open
            /\ o.commands = {} <=> open = {}
            /\ o.bottleneck = "stable_or_idle" => open = {}
            /\ o.complete =>
                   /\ \/ o.progress.completed = o.progress.total
                      \/ \E r \in open : o.runs[r].note
                   /\ o.buckets["terminal"] = Cardinality(Run)
                   /\ \A r \in open : RecommendedRecovery(o.runs[r]) = "manual_rebuild"

\* The log of a campaign: nothing is missing, nothing is there twice, and what
\* follows on each other agrees.
LogInv == ReportsTypeOK /\ LoggedOnce /\ NothingLost /\ ChangesChain

\* A report that passes for fresh is, and the postmortem's does.
ReportsFresh == FreshReportAgrees /\ PostmortemFresh

=============================================================================
