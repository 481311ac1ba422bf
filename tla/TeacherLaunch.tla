---------------------------- MODULE TeacherLaunch ----------------------------
(***************************************************************************)
(* The teachers of one run root: how execute_run_recovery                  *)
(* (archonlib/campaign.py) dispatches them, what the generated             *)
(* launch-teacher.sh does, what the status collector concludes from        *)
(* control/teacher-launch-state.json next to the run lease, and which      *)
(* launchers cleanup_stale_launch_processes kills.                         *)
(*                                                                         *)
(* A launch is an attempt: the dispatcher that judged the run idle, the    *)
(* script it spawned, the codex teacher of the script and the supervised   *)
(* cycles of the teacher.  Any of them can die alone.  The cycles keep     *)
(* only what the collector can see of them; RunLease has their detail, and *)
(* here a cycle looks for a conflict and claims the lease in one step.     *)
(*                                                                         *)
(* A write of the launch state truncates the file and fills it.  The two   *)
(* halves are one step here, and a judgement made while some process has a *)
(* write to make next may read the empty file instead.                     *)
(***************************************************************************)
EXTENDS Integers, Sequences, FiniteSets

CONSTANTS
    Attempt,   \* the launches ever made on the run root
    Nobody     \* the pid a launch state does not give

ASSUME TeacherLaunchAssumption ==
    /\ IsFiniteSet(Attempt)
    /\ Nobody \notin Attempt /\ {"none", "inactive"} \cap Attempt = {}

VARIABLES
    launch,       \* the content of teacher-launch-state.json
    fresh,        \* it has no pid, and is within LAUNCH_GRACE_SECONDS
    launchNewer,  \* it was written after the lease was
    lease,        \* run-lease.json: none, inactive, or the attempt it names
    leaseFresh,   \* its heartbeat is within heartbeat_seconds
    disp,         \* where the dispatcher of each attempt is
    script,       \* where its launch-teacher.sh is
    codex,        \* the attempts whose teacher is alive
    cyc,          \* the supervised cycle of each teacher
    loops,        \* the attempts whose archon-loop.sh is running
    born,         \* the attempts in the order their scripts were spawned
    old,          \* the live scripts spawned over duplicate_grace_seconds ago
    behind,       \* those that were old when the lease was last written, when
                  \* the launch state was, and when a newer script was spawned
    scope,        \* .archon/RUN_SCOPE.md exists
    prewarm,      \* bootstrap-state.json asks for a prewarm
    cl,           \* the cleanup in progress
    worked,       \* history: the attempts whose teacher has begun a cycle
    writer,       \* history: who wrote the launch state last
    raced         \* history: a judgement or a write missed a launch in progress

files   == <<launch, fresh, launchNewer, lease, leaseFresh>>
ages    == <<born, old, behind>>
setup   == <<scope, prewarm>>
history == <<worked, writer, raced>>
vars    == <<files, disp, script, codex, cyc, loops, ages, setup, cl, history>>

-----------------------------------------------------------------------------
(* The files, and what is read from them.                                  *)

LaunchState == [kind : {"missing", "whole"}, active : BOOLEAN,
                pid : Attempt \cup {Nobody}]

Lease == {"none", "inactive"} \cup Attempt

DispPhase   == {"idle", "judged", "reset", "marked", "spawned", "done"}
ScriptPhase == {"none", "new", "bootstrap", "prewarm", "init", "codex", "gone"}
CyclePhase  == {"none", "looping", "analysing"}
Reference   == {"lease", "launch", "spawn"}

Alive(a) == script[a] \notin {"none", "gone"}
SomeScript == \E a \in Attempt : Alive(a)

AtWork == {a \in Attempt : cyc[a] # "none"}

NoCleanup == [pc |-> "idle", idle |-> FALSE, worker |-> Nobody]

LeaseLive == lease \in Attempt /\ (cyc[lease] # "none" \/ lease \in loops)

\* Mutant: a dispatch without a pid is believed for ever.
ActivityWithoutGrace ==
    /\ launch.kind = "whole" /\ launch.active
    /\ IF launch.pid # Nobody THEN Alive(launch.pid) ELSE TRUE

\* _effective_launch_activity: the pid if the state gives one, else the launch
\* script among the processes, else the age of the mark.
Activity ==
    /\ launch.kind = "whole" /\ launch.active
    /\ IF launch.pid # Nobody THEN Alive(launch.pid) ELSE SomeScript \/ fresh

\* _effective_launch_activity_with_lease: behind an inactive lease only a newer
\* launch with a live process counts.
LaunchActive ==
    Activity /\ (lease = "inactive" => SomeScript /\ launchNewer)

\* _is_running_signal.
Running == IF LeaseLive THEN leaseFresh ELSE LaunchActive

\* Judgements that are read from a file some process is writing: without a
\* launch state only a live lease keeps the run.
MayWrite ==
    \/ \E a \in Attempt : disp[a] \in {"reset", "spawned"} \/ Alive(a)
    \/ cl.pc = "killed"
MayLookIdle == ~ Running \/ (MayWrite /\ ~ (LeaseLive /\ leaseFresh))

-----------------------------------------------------------------------------
(* Launches in progress, and what disturbs them.                           *)

\* The script runs and its teacher has not begun a cycle.
Booting(a) == Alive(a) /\ a \notin worked

\* The dispatcher has decided to launch, and not yet noted the pid.
InFlight(a) == disp[a] \in {"judged", "reset", "marked", "spawned"}

Disturbs(who) == \E a \in Attempt \ {who} : InFlight(a) \/ Booting(a)

\* A live lease whose heartbeat has gone stale hides every launch.
Hidden == LeaseLive /\ ~ leaseFresh

\* A dispatcher that has not marked its launch cannot be seen, nor can a script
\* in the foreground that has written nothing; one that has not
\* spawned it cannot be seen behind an inactive lease; a torn launch state and
\* a stale live lease hide both.
Overlooks(d) ==
    \E a \in Attempt \ {d} :
        \/ disp[a] \in {"judged", "reset"} \/ (script[a] = "new" /\ writer # a)
        \/ disp[a] = "marked" /\ lease = "inactive"
        \/ (InFlight(a) \/ Booting(a)) /\ (Hidden \/ Running)

\* What is written, or spawned, now is newer than the launchers that are old.
Overtake(reference) == behind' = [behind EXCEPT ![reference] = @ \cup old]

\* A script that is gone has no age.
Forget(dead) ==
    /\ old' = old \ dead
    /\ behind' = [r \in Reference |-> behind[r] \ dead]

WriteLaunch(active, pid, who) ==
    /\ launch' = [kind |-> "whole", active |-> active, pid |-> pid]
    /\ fresh' = (active /\ pid = Nobody)
    /\ launchNewer' = TRUE
    /\ writer' = who
    /\ raced' = (raced \/ Disturbs(who))
    /\ UNCHANGED <<lease, leaseFresh>>

WriteLease(content, who) ==
    /\ lease' = content
    /\ leaseFresh' = (content # "inactive")
    /\ launchNewer' = FALSE
    /\ raced' = (raced \/ Disturbs(who))
    /\ Overtake("lease")
    /\ UNCHANGED <<launch, fresh, writer>>

-----------------------------------------------------------------------------
\* The run is new, or an earlier launch is over that left its last cycle's
\* lease, or died before it wrote any.
Init ==
    /\ \/ /\ launch = [kind |-> "missing", active |-> FALSE, pid |-> Nobody]
          /\ lease = "none" /\ scope = FALSE /\ prewarm \in BOOLEAN
       \/ /\ launch = [kind |-> "whole", active |-> FALSE, pid |-> Nobody]
          /\ lease \in {"none", "inactive"} /\ scope = TRUE /\ prewarm = FALSE
    /\ fresh = FALSE /\ launchNewer = FALSE /\ leaseFresh = FALSE
    /\ disp = [a \in Attempt |-> "idle"]
    /\ script = [a \in Attempt |-> "none"]
    /\ codex = {}
    /\ cyc = [a \in Attempt |-> "none"]
    /\ loops = {}
    /\ born = <<>> /\ old = {} /\ behind = [r \in Reference |-> {}]
    /\ cl = NoCleanup
    /\ worked = {} /\ writer = Nobody /\ raced = FALSE

-----------------------------------------------------------------------------
(* execute_run_recovery.                                                   *)

\* The collected status calls the run idle, and its recovery is a launch.
Judge(d) ==
    /\ disp[d] = "idle"
    /\ MayLookIdle
    /\ disp' = [disp EXCEPT ![d] = "judged"]
    /\ raced' = (raced \/ Overlooks(d))
    /\ UNCHANGED <<files, script, codex, cyc, loops, ages, setup, cl, worked, writer>>

\* campaign_recover.py --action: the operator names the launch, the status is
\* collected but not asked.
Order(d) ==
    /\ disp[d] = "idle"
    /\ disp' = [disp EXCEPT ![d] = "judged"]
    /\ raced' = (raced \/ Disturbs(d))
    /\ UNCHANGED <<files, script, codex, cyc, loops, ages, setup, cl, worked, writer>>

\* The comment-only reset, when there is drift to undo: the scope, the logs and
\* the supervisor's files are moved away, the lease with them.
Reset(d) ==
    /\ disp[d] = "judged"
    /\ disp' = [disp EXCEPT ![d] = "reset"]
    /\ \/ UNCHANGED <<files, behind, scope, raced>>
       \/ /\ lease' = "none" /\ leaseFresh' = FALSE /\ launchNewer' = TRUE
          /\ behind' = [behind EXCEPT !["lease"] = {}]
          /\ scope' = FALSE
          /\ raced' = (raced \/ Disturbs(d))
          /\ UNCHANGED <<launch, fresh>>
    /\ UNCHANGED <<script, codex, cyc, loops, born, old, prewarm, cl, worked, writer>>

\* Mutant: the launch is not marked before it is spawned.
MarkNothing(d) ==
    /\ disp[d] = "reset"
    /\ disp' = [disp EXCEPT ![d] = "marked"]
    /\ UNCHANGED <<files, script, codex, cyc, loops, ages, setup, cl, history>>

\* The launch state says that a dispatch is under way, and by no pid.
Mark(d) ==
    /\ disp[d] = "reset"
    /\ disp' = [disp EXCEPT ![d] = "marked"]
    /\ WriteLaunch(TRUE, Nobody, d) /\ Overtake("launch")
    /\ UNCHANGED <<script, codex, cyc, loops, born, old, setup, cl, worked>>

\* In the foreground: no mark is made and no pid noted, the script writes both.
SpawnForeground(d) ==
    /\ disp[d] = "reset"
    /\ disp' = [disp EXCEPT ![d] = "done"]
    /\ script' = [script EXCEPT ![d] = "new"]
    /\ born' = Append(born, d)
    /\ Overtake("spawn")
    /\ UNCHANGED <<files, codex, cyc, loops, old, setup, cl, history>>

Spawn(d) ==
    /\ disp[d] = "marked"
    /\ disp' = [disp EXCEPT ![d] = "spawned"]
    /\ script' = [script EXCEPT ![d] = "new"]
    /\ born' = Append(born, d)
    /\ Overtake("spawn")
    /\ UNCHANGED <<files, codex, cyc, loops, old, setup, cl, history>>

\* The pid of the script, which has been running for a while.
NotePid(d) ==
    /\ disp[d] = "spawned"
    /\ disp' = [disp EXCEPT ![d] = "done"]
    /\ WriteLaunch(TRUE, d, d) /\ Overtake("launch")
    /\ UNCHANGED <<script, codex, cyc, loops, born, old, setup, cl, worked>>

DispatcherDies(d) ==
    /\ InFlight(d)
    /\ disp' = [disp EXCEPT ![d] = "done"]
    /\ UNCHANGED <<files, script, codex, cyc, loops, ages, setup, cl, history>>

-----------------------------------------------------------------------------
(* launch-teacher.sh.                                                      *)

\* A run without a scope is prewarmed, unless that was done, and initialised.
NextPhase(a) ==
    CASE script[a] = "new"       -> "bootstrap"
      [] script[a] = "bootstrap" -> IF scope THEN "codex"
                                    ELSE IF prewarm THEN "prewarm" ELSE "init"
      [] script[a] = "prewarm"   -> "init"
      [] OTHER                   -> "codex"

\* What a phase has done is in place before the next is written down; the
\* teacher starts with the last.
Advance(a) ==
    /\ script[a] \in {"new", "bootstrap", "prewarm", "init"}
    /\ script' = [script EXCEPT ![a] = NextPhase(a)]
    /\ WriteLaunch(TRUE, a, a) /\ Overtake("launch")
    /\ prewarm' = (prewarm /\ script[a] # "prewarm")
    /\ scope' = (scope \/ script[a] = "init")
    /\ codex' = IF NextPhase(a) = "codex" THEN codex \cup {a} ELSE codex
    /\ UNCHANGED <<disp, cyc, loops, born, old, cl, worked>>

\* A command fails under set -e, or the teacher has exited: the state says so.
Finish(a) ==
    /\ script[a] \in {"bootstrap", "prewarm", "init"} \/ (script[a] = "codex" /\ a \notin codex)
    /\ script' = [script EXCEPT ![a] = "gone"]
    /\ WriteLaunch(FALSE, a, a)
    /\ old' = old \ {a}
    /\ behind' = [r \in Reference |->
                    (IF r = "launch" THEN behind[r] \cup old ELSE behind[r]) \ {a}]
    /\ UNCHANGED <<disp, codex, cyc, loops, born, setup, cl, worked>>

\* A signal ends the script: its EXIT trap sees code 0 and writes nothing.
ScriptDies(a) ==
    /\ Alive(a)
    /\ script' = [script EXCEPT ![a] = "gone"]
    /\ Forget({a})
    /\ UNCHANGED <<files, disp, codex, cyc, loops, born, setup, cl, history>>

\* The teacher ends.  Its cycle ends with it, or goes on alone.
TeacherEnds(a) ==
    /\ a \in codex
    /\ codex' = codex \ {a}
    /\ cyc' = cyc \/ cyc' = [cyc EXCEPT ![a] = "none"]
    /\ UNCHANGED <<files, disp, script, loops, ages, setup, cl, history>>

-----------------------------------------------------------------------------
(* The supervised cycles of a teacher, as RunLease has them.               *)

\* It finds no live lease, claims it, and starts its loop.
BeginCycle(a) ==
    /\ a \in codex
    /\ cyc[a] = "none" /\ a \notin loops
    /\ ~ LeaseLive
    /\ cyc' = [cyc EXCEPT ![a] = "looping"]
    /\ loops' = loops \cup {a}
    /\ WriteLease(a, a)
    /\ worked' = worked \cup {a}
    /\ UNCHANGED <<disp, script, codex, born, old, setup, cl>>

LoopEnds(a) ==
    /\ a \in loops
    /\ loops' = loops \ {a}
    /\ UNCHANGED <<files, disp, script, codex, cyc, ages, setup, cl, history>>

\* A heartbeat, or the analysis that follows the loop.
Beat(a) ==
    /\ cyc[a] = "looping"
    /\ WriteLease(a, a)
    /\ cyc' = IF a \in loops THEN cyc ELSE [cyc EXCEPT ![a] = "analysing"]
    /\ UNCHANGED <<disp, script, codex, loops, born, old, setup, cl, worked>>

EndCycle(a) ==
    /\ cyc[a] = "analysing"
    /\ cyc' = [cyc EXCEPT ![a] = "none"]
    /\ WriteLease("inactive", a)
    /\ UNCHANGED <<disp, script, codex, loops, born, old, setup, cl, worked>>

CycleDies(a) ==
    /\ cyc[a] # "none"
    /\ cyc' = [cyc EXCEPT ![a] = "none"]
    /\ UNCHANGED <<files, disp, script, codex, loops, ages, setup, cl, history>>

-----------------------------------------------------------------------------
(* cleanup_stale_launch_processes.                                         *)

\* Mutant: a stale heartbeat alone makes the launcher idle.
CollectSignal ==
    /\ cl.pc = "idle"
    /\ SomeScript
    /\ cl' = [pc |-> "collected", idle |-> ~ Running,
              worker |-> IF lease \in AtWork THEN lease ELSE Nobody]
    /\ UNCHANGED <<files, disp, script, codex, cyc, loops, ages, setup, history>>

\* The status: idle if neither the running signal nor the launch is active.
Collect ==
    /\ cl.pc = "idle"
    /\ SomeScript
    /\ cl' = [pc |-> "collected", idle |-> ~ Running /\ ~ LaunchActive,
              worker |-> IF lease \in AtWork THEN lease ELSE Nobody]
    /\ UNCHANGED <<files, disp, script, codex, cyc, loops, ages, setup, history>>

Launchers == {a \in Attempt : Alive(a)}

\* The launcher that was spawned last, if there are any.
Newest ==
    {a \in Launchers : \E i \in DOMAIN born :
        /\ born[i] = a
        /\ \A j \in DOMAIN born : j > i => born[j] \notin Launchers}

\* Older than the newest launch, or than what was written last, by a grace.
Duplicates == {a \in Launchers \ Newest : \E r \in Reference : a \in behind[r]}

\* The newest launcher of a run that was reported idle, if the lease or an
\* inactive launch state was written a grace after its start.
Primary ==
    {a \in Newest :
        /\ Duplicates = {} /\ cl.idle
        /\ \/ lease # "none" /\ a \in behind["lease"]
           \/ launch.kind = "whole" /\ ~ launch.active /\ a \in behind["launch"]}

\* cleanup_stale_launch_processes goes by the table of processes.
Candidates == Duplicates \cup Primary

\* SIGTERM to the process group: the script, its teacher, and the cycle if it
\* is in the group.  The loop is a session of its own.
KillGroups ==
    /\ cl.pc = "collected"
    /\ LET victims == Candidates
       IN  /\ script' = [a \in Attempt |-> IF a \in victims THEN "gone" ELSE script[a]]
           /\ codex' = codex \ victims
           /\ \E outlive \in {{}, victims} :
                cyc' = [a \in Attempt |->
                          IF a \in victims \ outlive THEN "none" ELSE cyc[a]]
           /\ Forget(victims)
           /\ cl' = IF Primary # {} THEN [NoCleanup EXCEPT !.pc = "killed"]
                    ELSE NoCleanup
    /\ UNCHANGED <<files, disp, loops, born, setup, history>>

\* After a primary: cleanup_terminated, whatever the state says meanwhile.
MarkTerminated ==
    /\ cl.pc = "killed"
    /\ cl' = NoCleanup
    /\ WriteLaunch(FALSE, Nobody, Nobody) /\ Overtake("launch")
    /\ UNCHANGED <<disp, script, codex, cyc, loops, born, old, setup, worked>>

-----------------------------------------------------------------------------
\* Minutes pass: the age of a mark, of a launcher and of a heartbeat.  No
\* dispatcher takes so long from its mark to the pid, and a looping cycle
\* writes the lease every few seconds.
Tick ==
    /\ \A a \in Attempt : disp[a] \notin {"marked", "spawned"} /\ script[a] # "new"
    /\ fresh' = FALSE
    /\ leaseFresh' = (leaseFresh /\ cyc[lease] = "looping")
    /\ old' = {a \in Attempt : Alive(a)}
    /\ UNCHANGED <<launch, launchNewer, lease, disp, script, codex, cyc, loops,
                   born, behind, setup, cl, history>>

Dispatch(a) ==
    \/ Judge(a) \/ Order(a) \/ Reset(a) \/ SpawnForeground(a)
    \/ Mark(a) \/ Spawn(a) \/ NotePid(a) \/ DispatcherDies(a)
Script(a)  == Advance(a) \/ Finish(a) \/ ScriptDies(a) \/ TeacherEnds(a)
Cycle(a)   == BeginCycle(a) \/ LoopEnds(a) \/ Beat(a) \/ EndCycle(a) \/ CycleDies(a)
Cleanup    == Collect \/ KillGroups \/ MarkTerminated

Next == (\E a \in Attempt : Dispatch(a) \/ Script(a) \/ Cycle(a)) \/ Cleanup \/ Tick

Spec == Init /\ [][Next]_vars

\* Time passes.
FairSpec == Spec /\ WF_vars(Tick)

-----------------------------------------------------------------------------
(* What the launches of a run promise.                                     *)

\* The variables have their types.
TypeOK ==
    /\ launch \in LaunchState
    /\ fresh \in BOOLEAN /\ launchNewer \in BOOLEAN
    /\ lease \in Lease /\ leaseFresh \in BOOLEAN
    /\ disp \in [Attempt -> DispPhase]
    /\ script \in [Attempt -> ScriptPhase]
    /\ codex \subseteq Attempt /\ loops \subseteq Attempt
    /\ cyc \in [Attempt -> CyclePhase]
    /\ born \in Seq(Attempt) /\ old \subseteq Attempt
    /\ behind \in [Reference -> SUBSET Attempt]
    /\ scope \in BOOLEAN /\ prewarm \in BOOLEAN
    /\ cl \in [pc : {"idle", "collected", "killed"}, idle : BOOLEAN,
               worker : Attempt \cup {Nobody}]
    /\ worked \subseteq Attempt /\ writer \in Attempt \cup {Nobody}
    /\ raced \in BOOLEAN

\* A launcher that prewarms, initialises or runs a teacher that has not begun a
\* cycle is reported running, as long as it, or its dispatcher, wrote the
\* launch state last, no lease was written since, and no live lease has gone
\* stale: also while its pid is not noted, and after its dispatcher died.
BootingSeen ==
    \A a \in Attempt :
        Booting(a) /\ writer = a /\ (launchNewer \/ lease = "none") /\ ~ Hidden => Running

\* Two launchers that have not begun a cycle run at a time only if a judgement
\* or a write missed a launch in progress, in one of the ways Overlooks and
\* Disturbs name.
LaunchedOnce ==
    ~ raced => \A a, b \in Attempt : Booting(a) /\ Booting(b) => a = b

\* Under the same proviso: a teacher that has not begun a cycle works on a run
\* whose scope is written, however many launches were reset, failed or died
\* before it.
ScopedTeacher ==
    ~ raced => \A a \in Attempt : Booting(a) /\ script[a] = "codex" => scope

\* Under the same proviso: a cleanup that calls the newest launcher stale spares
\* the one whose cycle held the lease when the status was collected, though its
\* heartbeat may have stopped long ago, unless another launch has been tried
\* since.
WorkerSpared ==
    ~ raced /\ cl.pc = "collected" =>
        \A a \in Primary \cap {cl.worker} : writer # a

\* Once every process of the run is gone, wherever each of them died, the run
\* is not reported running for ever.
AllGone ==
    /\ \A a \in Attempt : ~ InFlight(a) /\ ~ Alive(a)
    /\ codex = {} /\ AtWork = {} /\ loops = {} /\ cl.pc # "killed"
AbandonedRunIsFreed == AllGone ~> ~ (AllGone /\ Running)

\* Of a launch: it is seen, it is made once, and it is complete.
LaunchInv == TypeOK /\ BootingSeen /\ LaunchedOnce /\ ScopedTeacher

=============================================================================
