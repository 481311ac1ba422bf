------------------------------- MODULE RunLease -------------------------------
(***************************************************************************)
(* The run lease, workspace/.archon/supervisor/run-lease.json: how the     *)
(* supervised cycles of one run root (scripts/supervised_cycle.py) keep    *)
(* out of each other's way, and what the status collector concludes from   *)
(* it (archonlib/campaign.py).                                             *)
(*                                                                         *)
(* A cycle looks for a conflicting lease, claims the lease, starts         *)
(* archon-loop.sh as a session of its own, and only then writes the pid of *)
(* that loop into the lease, which it rewrites at every poll.  A cycle     *)
(* that is killed leaves its loop running.  A recovery pass (--recovery-   *)
(* only --skip-process-check) runs no loop and does not look at the lease: *)
(* it is started on the word of the status collector.                      *)
(*                                                                         *)
(* Every write truncates the file before it fills it, and a reader that    *)
(* meets the empty file finds no lease.  All four fields kept here are in  *)
(* every write, so that what a write merges from the old lease is nothing. *)
(* Pids are not reused.                                                    *)
(***************************************************************************)
EXTENDS FiniteSets

CONSTANTS
    Cycle,      \* the supervised cycle processes ever started on the run root
    Recovery,   \* those started as recovery passes
    Nobody      \* the pid a lease does not give

ASSUME RunLeaseAssumption == Recovery \subseteq Cycle /\ Nobody \notin Cycle

VARIABLES
    file,      \* the content of run-lease.json
    fresh,     \* its lastHeartbeatAt is not older than heartbeat_seconds
    pc,        \* where each cycle is
    loops,     \* the cycles whose archon-loop.sh is running
    seen,      \* the lease each cycle last read or wrote
    raced,     \* history: a write hit a lease its writer did not know, or a
               \* cycle died before its lease named its loop
    overtaken  \* history: the cycles whose lease a recovery pass overwrote
               \* while they, or the loop it named, were alive

vars == <<file, fresh, pc, loops, seen, raced, overtaken>>

-----------------------------------------------------------------------------
Lease == [kind   : {"missing", "torn", "whole"},
          active : BOOLEAN,
          sup    : Cycle \cup {Nobody},
          loop   : Cycle \cup {Nobody}]

Unreadable(kind) == [kind |-> kind, active |-> FALSE, sup |-> Nobody, loop |-> Nobody]
Missing == Unreadable("missing")
Torn    == Unreadable("torn")

Held(c, loop) == [kind |-> "whole", active |-> TRUE, sup |-> c, loop |-> loop]

Completed(c) == [kind |-> "whole", active |-> FALSE, sup |-> c, loop |-> Nobody]

Writing == {"claim", "record", "beat", "analyse", "complete"}
Looping == {"spawned", "record", "looping", "beat"}
Over    == {"busy", "done", "dead"}
Phase   == {"new", "checked", "claimed", "analysing"} \cup Writing \cup Looping \cup Over

Live(c) == c \in Cycle /\ pc[c] \notin {"new"} \cup Over

\* It has claimed the lease, or is about to write the claim.
AtWork(c) == pc[c] \notin {"new", "checked"} \cup Over

\* d, or its loop, is alive and the lease is its.
Holds(d, lease) ==
    lease.active /\ ((lease.sup = d /\ Live(d)) \/ (lease.loop = d /\ d \in loops))

\* Mutant: the orphaned loop of a dead supervisor is not looked for.
ConflictsBySupervisor(lease) == lease.active /\ Live(lease.sup)

\* Mutant: a supervisor that analyses is not looked for.
ConflictsByLoop(lease) == lease.active /\ lease.loop \in loops

\* _lease_conflicts: an active lease whose supervisor or loop is alive.
Conflicts(lease) == lease.active /\ (Live(lease.sup) \/ lease.loop \in loops)

\* Without a readable lease: the output files of a loop that is followed.
Followed == file.kind # "whole" /\ \E c \in Cycle : pc[c] \in Looping

\* Mutant: a lease is believed for its loop alone.
RunningByLoop == (file.active /\ file.loop \in loops /\ fresh) \/ Followed

\* _is_running_signal, for a run whose launcher is gone and whose logs are old.
RunningSignal ==
    \/ file.active /\ (Live(file.sup) \/ file.loop \in loops) /\ fresh
    \/ Followed

-----------------------------------------------------------------------------
Init ==
    /\ file = Missing
    /\ fresh = FALSE
    /\ pc = [c \in Cycle |-> "new"]
    /\ loops = {}
    /\ seen = [c \in Cycle |-> Missing]
    /\ raced = FALSE
    /\ overtaken = {}

Goto(c, phase) == pc' = [pc EXCEPT ![c] = phase]

-----------------------------------------------------------------------------
(* The start of a cycle.                                                   *)

\* It reads the lease, and stops as run_busy if somebody alive holds it.
Check(c) ==
    /\ pc[c] = "new"
    /\ c \notin Recovery
    /\ Goto(c, IF Conflicts(file) THEN "busy" ELSE "checked")
    /\ seen' = [seen EXCEPT ![c] = file]
    /\ UNCHANGED <<file, fresh, loops, raced, overtaken>>

\* execute_run_recovery, or a teacher, starts a recovery pass on a run that
\* is not reported running; the pass skips the check.
Recover(c) ==
    /\ pc[c] = "new"
    /\ c \in Recovery
    /\ ~ RunningSignal
    /\ Goto(c, "checked")
    /\ seen' = [seen EXCEPT ![c] = file]
    /\ UNCHANGED <<file, fresh, loops, raced, overtaken>>

\* Popen, in a session of its own.
SpawnLoop(c) ==
    /\ pc[c] = "claimed"
    /\ c \notin Recovery
    /\ Goto(c, "spawned")
    /\ loops' = loops \cup {c}
    /\ UNCHANGED <<file, fresh, seen, raced, overtaken>>

-----------------------------------------------------------------------------
(* _update_lease, in two steps.                                            *)

\* Mutant: a heartbeat only refreshes a lease that is active.
DueWhileActive(c) ==
    CASE pc[c] = "checked"   -> "claim"
      [] pc[c] = "spawned"   -> "record"
      [] pc[c] = "looping"   -> IF c \notin loops THEN "analyse"
                                ELSE IF file.active THEN "beat" ELSE "none"
      [] pc[c] = "claimed"   -> IF c \in Recovery THEN "analyse" ELSE "none"
      [] pc[c] = "analysing" -> "complete"
      [] OTHER               -> "none"

\* The write a cycle makes next: the claim, the pid of the loop it started, a
\* heartbeat while the loop runs, the analysis when it ended or when there is
\* none, and the end of the cycle.
Due(c) ==
    CASE pc[c] = "checked"   -> "claim"
      [] pc[c] = "spawned"   -> "record"
      [] pc[c] = "looping"   -> IF c \in loops THEN "beat" ELSE "analyse"
      [] pc[c] = "claimed"   -> IF c \in Recovery THEN "analyse" ELSE "none"
      [] pc[c] = "analysing" -> "complete"
      [] OTHER               -> "none"

BeginWrite(c) ==
    /\ Due(c) # "none"
    /\ Goto(c, Due(c))
    /\ file' = Torn
    /\ raced' = (raced \/ file # seen[c] \/ file.kind = "torn")
    /\ overtaken' = overtaken \cup
                      {d \in Cycle \ {c} : c \in Recovery /\ Holds(d, file)}
    /\ UNCHANGED <<fresh, loops, seen>>

Text(c) ==
    CASE pc[c] \in {"claim", "analyse"} -> Held(c, Nobody)
      [] pc[c] \in {"record", "beat"}   -> Held(c, c)
      [] OTHER                          -> Completed(c)

After(phase) ==
    CASE phase = "claim"              -> "claimed"
      [] phase \in {"record", "beat"} -> "looping"
      [] phase = "analyse"            -> "analysing"
      [] OTHER                        -> "done"

\* A file another writer has filled since it was truncated may keep a tail of
\* the longer text, and is then no JSON.
EndWrite(c) ==
    /\ pc[c] \in Writing
    /\ file' = Text(c) \/ (file.kind # "torn" /\ file' = Torn)
    /\ fresh' = TRUE
    /\ seen' = [seen EXCEPT ![c] = Text(c)]
    /\ Goto(c, After(pc[c]))
    /\ UNCHANGED <<loops, raced, overtaken>>

-----------------------------------------------------------------------------
(* What happens to the processes.                                          *)

\* A loop ends, fails, or is killed by its cycle as idle.
LoopEnds(c) ==
    /\ c \in loops
    /\ loops' = loops \ {c}
    /\ UNCHANGED <<file, fresh, pc, seen, raced, overtaken>>

\* A cycle is killed, with its teacher or alone, or raises an exception.
Kill(c) ==
    /\ Live(c)
    /\ Goto(c, "dead")
    /\ raced' = (raced \/ (c \in loops /\ ~ (file.active /\ file.loop = c)))
    /\ UNCHANGED <<file, fresh, loops, seen, overtaken>>

\* The heartbeat gets older than heartbeat_seconds.  A cycle whose loop runs,
\* or is about to, writes it every few seconds.
Tick ==
    /\ fresh
    /\ \A c \in Cycle : pc[c] \notin {"claimed"} \cup Looping
    /\ fresh' = FALSE
    /\ UNCHANGED <<file, pc, loops, seen, raced, overtaken>>

-----------------------------------------------------------------------------
Step(c) ==
    \/ Check(c) \/ Recover(c) \/ SpawnLoop(c)
    \/ BeginWrite(c) \/ EndWrite(c)
    \/ LoopEnds(c) \/ Kill(c)

Next == (\E c \in Cycle : Step(c)) \/ Tick

Spec == Init /\ [][Next]_vars

\* A write that was begun is ended, and a cycle polls its loop.
FairSpec ==
    /\ Spec
    /\ \A c \in Cycle : WF_vars(BeginWrite(c)) /\ WF_vars(EndWrite(c))

-----------------------------------------------------------------------------
(* What the run lease promises.                                            *)

\* The variables have their types.
TypeOK ==
    /\ file \in Lease
    /\ fresh \in BOOLEAN
    /\ pc \in [Cycle -> Phase]
    /\ loops \subseteq Cycle
    /\ seen \in [Cycle -> Lease]
    /\ raced \in BOOLEAN
    /\ overtaken \subseteq Cycle

\* As long as every write hits the lease its writer knows, two cycles are at
\* work on one workspace only if a recovery pass overtook one of them.
OneCycle ==
    ~ raced => \A c, d \in {w \in Cycle \ overtaken : AtWork(w)} : c = d

\* Under the same proviso, and if no cycle dies before its loop is recorded:
\* one loop edits the workspace, the orphaned loops of killed cycles included,
\* unless a recovery pass erased the name of one of them.
OneLoop ==
    ~ raced => \A c, d \in loops \ overtaken : c = d

\* Under the same provisos: although a recovery pass looks at the lease only
\* through the status collector, and before it writes, it overtakes no cycle
\* that is about to start a loop or follows one.
RecoveryKeepsOff ==
    ~ raced => \A c \in overtaken : pc[c] \notin {"claimed"} \cup Looping

\* campaign.py:1385, "A completed or explicitly inactive supervisor lease is
\* authoritative": under the same provisos, no loop runs behind such a lease,
\* but one that was overtaken, and no cycle is about to start one.
InactiveIsAuthoritative ==
    ~ raced /\ file.kind = "whole" /\ ~ file.active =>
        /\ loops \subseteq overtaken
        /\ \A c \in Cycle : pc[c] \notin {"claimed"} \cup Looping

\* What the lease says is to be believed: by a recovery pass, and when it is
\* inactive.
LeaseBelieved == RecoveryKeepsOff /\ InactiveIsAuthoritative

\* Whatever raced: while a cycle that runs its loop is the only process left,
\* the lease names its loop again and again, whoever overwrote or released it.
Alone(c) == \A d \in Cycle \ {c} : ~ Live(d)
LoopSeenAgain ==
    \A c \in Cycle \ Recovery :
        <>[](Alone(c) /\ Live(c) /\ c \in loops) =>
            []<>(file.active /\ file.loop = c)

=============================================================================
