------------------------- MODULE TeacherLaunch_proofs -------------------------
(***************************************************************************)
(* Proofs about the teachers of a run for any number of launches of it:    *)
(* a launch in progress is seen, no other is made beside it unless one was *)
(* missed, its teacher has a scope, and a cleanup spares it if it works.   *)
(*                                                                         *)
(* The argument is about one launch at a time.  From the judgement to the  *)
(* first cycle it is pending; while nothing has been missed or disturbed   *)
(* it is the only one, what the launch state says is what it wrote, and    *)
(* that is newer than the lease.  Whoever judges the run idle then must    *)
(* have missed it.                                                         *)
(***************************************************************************)
EXTENDS TeacherLaunch, TLAPS

USE DEF files, ages, setup, history, vars, LaunchState, Lease, DispPhase, ScriptPhase,
        CyclePhase, Reference, NoCleanup

\* Decided upon or spawned, and no cycle has begun.
Pending(a) == disp[a] \in {"judged", "reset", "marked"} \/ Booting(a)

\* What the processes of a launch have come from.
Lineage ==
    /\ \A a \in Attempt : disp[a] \in {"idle", "judged", "reset", "marked"} => script[a] = "none"
    /\ \A a \in codex \cup worked : script[a] \in {"codex", "gone"}
    /\ AtWork \subseteq worked
    /\ writer # Nobody => disp[writer] \in {"marked", "spawned", "done"}

\* The launch state is of its writer, and active as long as the script is.
Written ==
    writer # Nobody =>
        /\ launch.kind = "whole" /\ launch.pid \in {writer, Nobody}
        /\ launch.active \/ script[writer] = "gone"

\* A launch in progress is the only one, and on record.
Alone ==
    /\ \A a, b \in Attempt : Pending(a) /\ Pending(b) => a = b
    /\ \A a \in Attempt :
          \/ disp[a] \in {"marked", "spawned"}
          \/ Booting(a) /\ script[a] # "new"
          => writer = a
    /\ \A a \in Attempt : disp[a] = "marked" =>
          launch.active /\ launch.pid = Nobody /\ fresh /\ launchNewer
    /\ \A a \in Attempt : Booting(a) /\ writer = a => launchNewer
    /\ \A a \in Attempt : Booting(a) /\ script[a] = "codex" => scope

\* A worker whose run was reported idle is not the one that wrote last.
Unwritten ==
    cl.pc = "collected" /\ cl.idle /\ cl.worker # Nobody =>
        /\ cl.worker \in worked
        /\ Alive(cl.worker) => writer # cl.worker

IInv ==
    /\ TypeOK /\ Lineage /\ Written
    /\ ~ raced => Alone /\ Unwritten

-----------------------------------------------------------------------------
(* At first the variables of the launches have their types.                *)
LEMMA TypeFirst == Init => TypeOK
<1> SUFFICES ASSUME Init PROVE TypeOK
  OBVIOUS
<1>1. /\ launch \in LaunchState /\ lease \in Lease
      /\ scope \in BOOLEAN /\ prewarm \in BOOLEAN
  <2>1. launch \in LaunchState
    <3>1. \E k \in {"missing", "whole"} :
            launch = [kind |-> k, active |-> FALSE, pid |-> Nobody]
      BY DEF Init
    <3> QED BY <3>1
  <2>2. lease \in Lease
    BY DEF Init
  <2>3. scope \in BOOLEAN /\ prewarm \in BOOLEAN
    BY DEF Init
  <2> QED BY <2>1, <2>2, <2>3
<1>2. /\ fresh \in BOOLEAN /\ launchNewer \in BOOLEAN /\ leaseFresh \in BOOLEAN
      /\ writer \in Attempt \cup {Nobody} /\ raced \in BOOLEAN
  BY DEF Init
<1>3. /\ disp \in [Attempt -> DispPhase] /\ script \in [Attempt -> ScriptPhase]
      /\ cyc \in [Attempt -> CyclePhase] /\ behind \in [Reference -> SUBSET Attempt]
  BY DEF Init
<1>4. /\ codex \subseteq Attempt /\ loops \subseteq Attempt /\ born \in Seq(Attempt)
      /\ old \subseteq Attempt /\ worked \subseteq Attempt
  BY DEF Init
<1>5. cl \in [pc : {"idle", "collected", "killed"}, idle : BOOLEAN,
             worker : Attempt \cup {Nobody}]
  BY DEF Init
<1> QED BY <1>1, <1>2, <1>3, <1>4, <1>5 DEF TypeOK

(* A step of a launch keeps the types.                                     *)
LEMMA TypeKept == TypeOK /\ [Next]_vars => TypeOK'
<1> SUFFICES ASSUME TypeOK, [Next]_vars PROVE TypeOK'
  OBVIOUS
<1> USE TeacherLaunchAssumption DEF TypeOK, Overtake, Forget
<1>1. ASSUME NEW a \in Attempt, Judge(a) PROVE TypeOK'
  BY <1>1 DEF Judge
<1>2. ASSUME NEW a \in Attempt, Order(a) PROVE TypeOK'
  BY <1>2 DEF Order
<1>3. ASSUME NEW a \in Attempt, Reset(a) PROVE TypeOK'
  <2>1. /\ launch' \in LaunchState /\ fresh' \in BOOLEAN /\ launchNewer' \in BOOLEAN
        /\ lease' \in Lease /\ leaseFresh' \in BOOLEAN
        /\ scope' \in BOOLEAN /\ prewarm' \in BOOLEAN
    BY <1>3 DEF Reset
  <2>2. /\ disp' \in [Attempt -> DispPhase] /\ script' \in [Attempt -> ScriptPhase]
        /\ cyc' \in [Attempt -> CyclePhase]
        /\ codex' \subseteq Attempt /\ loops' \subseteq Attempt
    BY <1>3 DEF Reset
  <2>3. /\ born' \in Seq(Attempt) /\ old' \subseteq Attempt
        /\ behind' \in [Reference -> SUBSET Attempt]
    BY <1>3 DEF Reset
  <2>4. /\ cl' \in [pc : {"idle", "collected", "killed"}, idle : BOOLEAN,
                   worker : Attempt \cup {Nobody}]
        /\ worked' \subseteq Attempt /\ writer' \in Attempt \cup {Nobody}
        /\ raced' \in BOOLEAN
    BY <1>3 DEF Reset
  <2> QED BY <2>1, <2>2, <2>3, <2>4
<1>4. ASSUME NEW a \in Attempt, SpawnForeground(a) PROVE TypeOK'
  BY <1>4 DEF SpawnForeground
<1>5. ASSUME NEW a \in Attempt, Mark(a) PROVE TypeOK'
  <2>1. /\ launch' \in LaunchState /\ fresh' \in BOOLEAN /\ launchNewer' \in BOOLEAN
        /\ lease' \in Lease /\ leaseFresh' \in BOOLEAN
        /\ scope' \in BOOLEAN /\ prewarm' \in BOOLEAN
    BY <1>5 DEF Mark, WriteLaunch
  <2>2. /\ disp' \in [Attempt -> DispPhase] /\ script' \in [Attempt -> ScriptPhase]
        /\ cyc' \in [Attempt -> CyclePhase]
        /\ codex' \subseteq Attempt /\ loops' \subseteq Attempt
    BY <1>5 DEF Mark, WriteLaunch
  <2>3. /\ born' \in Seq(Attempt) /\ old' \subseteq Attempt
        /\ behind' \in [Reference -> SUBSET Attempt]
    BY <1>5 DEF Mark, WriteLaunch
  <2>4. /\ cl' \in [pc : {"idle", "collected", "killed"}, idle : BOOLEAN,
                   worker : Attempt \cup {Nobody}]
        /\ worked' \subseteq Attempt /\ writer' \in Attempt \cup {Nobody}
        /\ raced' \in BOOLEAN
    BY <1>5 DEF Mark, WriteLaunch
  <2> QED BY <2>1, <2>2, <2>3, <2>4
<1>6. ASSUME NEW a \in Attempt, Spawn(a) PROVE TypeOK'
  BY <1>6 DEF Spawn
<1>7. ASSUME NEW a \in Attempt, NotePid(a) PROVE TypeOK'
  <2>1. /\ launch' \in LaunchState /\ fresh' \in BOOLEAN /\ launchNewer' \in BOOLEAN
        /\ lease' \in Lease /\ leaseFresh' \in BOOLEAN
        /\ scope' \in BOOLEAN /\ prewarm' \in BOOLEAN
    BY <1>7 DEF NotePid, WriteLaunch
  <2>2. /\ disp' \in [Attempt -> DispPhase] /\ script' \in [Attempt -> ScriptPhase]
        /\ cyc' \in [Attempt -> CyclePhase]
        /\ codex' \subseteq Attempt /\ loops' \subseteq Attempt
    BY <1>7 DEF NotePid, WriteLaunch
  <2>3. /\ born' \in Seq(Attempt) /\ old' \subseteq Attempt
        /\ behind' \in [Reference -> SUBSET Attempt]
    BY <1>7 DEF NotePid, WriteLaunch
  <2>4. /\ cl' \in [pc : {"idle", "collected", "killed"}, idle : BOOLEAN,
                   worker : Attempt \cup {Nobody}]
        /\ worked' \subseteq Attempt /\ writer' \in Attempt \cup {Nobody}
        /\ raced' \in BOOLEAN
    BY <1>7 DEF NotePid, WriteLaunch
  <2> QED BY <2>1, <2>2, <2>3, <2>4
<1>8. ASSUME NEW a \in Attempt, DispatcherDies(a) PROVE TypeOK'
  BY <1>8 DEF DispatcherDies
<1>9. ASSUME NEW a \in Attempt, Advance(a) PROVE TypeOK'
  <2>1. /\ launch' \in LaunchState /\ fresh' \in BOOLEAN /\ launchNewer' \in BOOLEAN
        /\ lease' \in Lease /\ leaseFresh' \in BOOLEAN
        /\ scope' \in BOOLEAN /\ prewarm' \in BOOLEAN
    BY <1>9 DEF Advance, WriteLaunch
  <2>2. /\ disp' \in [Attempt -> DispPhase] /\ script' \in [Attempt -> ScriptPhase]
        /\ cyc' \in [Attempt -> CyclePhase]
        /\ codex' \subseteq Attempt /\ loops' \subseteq Attempt
    <3>1. NextPhase(a) \in ScriptPhase
      BY DEF NextPhase
    <3>2. script' = [script EXCEPT ![a] = NextPhase(a)] /\ UNCHANGED <<disp, cyc, loops>>
      BY <1>9 DEF Advance
    <3>3. codex' \in {codex, codex \cup {a}}
      BY <1>9 DEF Advance
    <3> QED BY <3>1, <3>2, <3>3
  <2>3. /\ born' \in Seq(Attempt) /\ old' \subseteq Attempt
        /\ behind' \in [Reference -> SUBSET Attempt]
    BY <1>9 DEF Advance, WriteLaunch
  <2>4. /\ cl' \in [pc : {"idle", "collected", "killed"}, idle : BOOLEAN,
                   worker : Attempt \cup {Nobody}]
        /\ worked' \subseteq Attempt /\ writer' \in Attempt \cup {Nobody}
        /\ raced' \in BOOLEAN
    BY <1>9 DEF Advance, WriteLaunch
  <2> QED BY <2>1, <2>2, <2>3, <2>4
<1>10. ASSUME NEW a \in Attempt, Finish(a) PROVE TypeOK'
  <2>1. /\ launch' \in LaunchState /\ fresh' \in BOOLEAN /\ launchNewer' \in BOOLEAN
        /\ lease' \in Lease /\ leaseFresh' \in BOOLEAN
        /\ scope' \in BOOLEAN /\ prewarm' \in BOOLEAN
    BY <1>10 DEF Finish, WriteLaunch
  <2>2. /\ disp' \in [Attempt -> DispPhase] /\ script' \in [Attempt -> ScriptPhase]
        /\ cyc' \in [Attempt -> CyclePhase]
        /\ codex' \subseteq Attempt /\ loops' \subseteq Attempt
    BY <1>10 DEF Finish, WriteLaunch
  <2>3. /\ born' \in Seq(Attempt) /\ old' \subseteq Attempt
        /\ behind' \in [Reference -> SUBSET Attempt]
    BY <1>10 DEF Finish, WriteLaunch
  <2>4. /\ cl' \in [pc : {"idle", "collected", "killed"}, idle : BOOLEAN,
                   worker : Attempt \cup {Nobody}]
        /\ worked' \subseteq Attempt /\ writer' \in Attempt \cup {Nobody}
        /\ raced' \in BOOLEAN
    BY <1>10 DEF Finish, WriteLaunch
  <2> QED BY <2>1, <2>2, <2>3, <2>4
<1>11. ASSUME NEW a \in Attempt, ScriptDies(a) PROVE TypeOK'
  BY <1>11 DEF ScriptDies
<1>12. ASSUME NEW a \in Attempt, TeacherEnds(a) PROVE TypeOK'
  BY <1>12 DEF TeacherEnds
<1>13. ASSUME NEW a \in Attempt, BeginCycle(a) PROVE TypeOK'
  <2>1. /\ launch' \in LaunchState /\ fresh' \in BOOLEAN /\ launchNewer' \in BOOLEAN
        /\ lease' \in Lease /\ leaseFresh' \in BOOLEAN
        /\ scope' \in BOOLEAN /\ prewarm' \in BOOLEAN
    BY <1>13 DEF BeginCycle, WriteLease
  <2>2. /\ disp' \in [Attempt -> DispPhase] /\ script' \in [Attempt -> ScriptPhase]
        /\ cyc' \in [Attempt -> CyclePhase]
        /\ codex' \subseteq Attempt /\ loops' \subseteq Attempt
    BY <1>13 DEF BeginCycle, WriteLease
  <2>3. /\ born' \in Seq(Attempt) /\ old' \subseteq Attempt
        /\ behind' \in [Reference -> SUBSET Attempt]
    BY <1>13 DEF BeginCycle, WriteLease
  <2>4. /\ cl' \in [pc : {"idle", "collected", "killed"}, idle : BOOLEAN,
                   worker : Attempt \cup {Nobody}]
        /\ worked' \subseteq Attempt /\ writer' \in Attempt \cup {Nobody}
        /\ raced' \in BOOLEAN
    BY <1>13 DEF BeginCycle, WriteLease
  <2> QED BY <2>1, <2>2, <2>3, <2>4
<1>14. ASSUME NEW a \in Attempt, LoopEnds(a) PROVE TypeOK'
  BY <1>14 DEF LoopEnds
<1>15. ASSUME NEW a \in Attempt, Beat(a) PROVE TypeOK'
  <2>1. /\ launch' \in LaunchState /\ fresh' \in BOOLEAN /\ launchNewer' \in BOOLEAN
        /\ lease' \in Lease /\ leaseFresh' \in BOOLEAN
        /\ scope' \in BOOLEAN /\ prewarm' \in BOOLEAN
    BY <1>15 DEF Beat, WriteLease
  <2>2. /\ disp' \in [Attempt -> DispPhase] /\ script' \in [Attempt -> ScriptPhase]
        /\ cyc' \in [Attempt -> CyclePhase]
        /\ codex' \subseteq Attempt /\ loops' \subseteq Attempt
    BY <1>15 DEF Beat, WriteLease
  <2>3. /\ born' \in Seq(Attempt) /\ old' \subseteq Attempt
        /\ behind' \in [Reference -> SUBSET Attempt]
    BY <1>15 DEF Beat, WriteLease
  <2>4. /\ cl' \in [pc : {"idle", "collected", "killed"}, idle : BOOLEAN,
                   worker : Attempt \cup {Nobody}]
        /\ worked' \subseteq Attempt /\ writer' \in Attempt \cup {Nobody}
        /\ raced' \in BOOLEAN
    BY <1>15 DEF Beat, WriteLease
  <2> QED BY <2>1, <2>2, <2>3, <2>4
<1>16. ASSUME NEW a \in Attempt, EndCycle(a) PROVE TypeOK'
  <2>1. /\ launch' \in LaunchState /\ fresh' \in BOOLEAN /\ launchNewer' \in BOOLEAN
        /\ lease' \in Lease /\ leaseFresh' \in BOOLEAN
        /\ scope' \in BOOLEAN /\ prewarm' \in BOOLEAN
    BY <1>16 DEF EndCycle, WriteLease
  <2>2. /\ disp' \in [Attempt -> DispPhase] /\ script' \in [Attempt -> ScriptPhase]
        /\ cyc' \in [Attempt -> CyclePhase]
        /\ codex' \subseteq Attempt /\ loops' \subseteq Attempt
    BY <1>16 DEF EndCycle, WriteLease
  <2>3. /\ born' \in Seq(Attempt) /\ old' \subseteq Attempt
        /\ behind' \in [Reference -> SUBSET Attempt]
    BY <1>16 DEF EndCycle, WriteLease
  <2>4. /\ cl' \in [pc : {"idle", "collected", "killed"}, idle : BOOLEAN,
                   worker : Attempt \cup {Nobody}]
        /\ worked' \subseteq Attempt /\ writer' \in Attempt \cup {Nobody}
        /\ raced' \in BOOLEAN
    BY <1>16 DEF EndCycle, WriteLease
  <2> QED BY <2>1, <2>2, <2>3, <2>4
<1>17. ASSUME NEW a \in Attempt, CycleDies(a) PROVE TypeOK'
  BY <1>17 DEF CycleDies
<1>18. CASE Collect
  <2>1. /\ launch' \in LaunchState /\ fresh' \in BOOLEAN /\ launchNewer' \in BOOLEAN
        /\ lease' \in Lease /\ leaseFresh' \in BOOLEAN
        /\ scope' \in BOOLEAN /\ prewarm' \in BOOLEAN
    BY <1>18 DEF Collect
  <2>2. /\ disp' \in [Attempt -> DispPhase] /\ script' \in [Attempt -> ScriptPhase]
        /\ cyc' \in [Attempt -> CyclePhase]
        /\ codex' \subseteq Attempt /\ loops' \subseteq Attempt
    BY <1>18 DEF Collect
  <2>3. /\ born' \in Seq(Attempt) /\ old' \subseteq Attempt
        /\ behind' \in [Reference -> SUBSET Attempt]
    BY <1>18 DEF Collect
  <2>4. /\ cl' \in [pc : {"idle", "collected", "killed"}, idle : BOOLEAN,
                   worker : Attempt \cup {Nobody}]
        /\ worked' \subseteq Attempt /\ writer' \in Attempt \cup {Nobody}
        /\ raced' \in BOOLEAN
    <3>1. /\ cl'.pc = "collected" /\ cl'.idle \in BOOLEAN
          /\ cl'.worker \in Attempt \cup {Nobody}
          /\ cl' = [pc |-> cl'.pc, idle |-> cl'.idle, worker |-> cl'.worker]
      BY <1>18 DEF Collect, AtWork
    <3> QED BY <3>1, <1>18 DEF Collect
  <2> QED BY <2>1, <2>2, <2>3, <2>4
<1>19. CASE KillGroups
  <2>1. /\ launch' \in LaunchState /\ fresh' \in BOOLEAN /\ launchNewer' \in BOOLEAN
        /\ lease' \in Lease /\ leaseFresh' \in BOOLEAN
        /\ scope' \in BOOLEAN /\ prewarm' \in BOOLEAN
    BY <1>19 DEF KillGroups
  <2>2. /\ disp' \in [Attempt -> DispPhase] /\ script' \in [Attempt -> ScriptPhase]
        /\ cyc' \in [Attempt -> CyclePhase]
        /\ codex' \subseteq Attempt /\ loops' \subseteq Attempt
    BY <1>19 DEF KillGroups
  <2>3. /\ born' \in Seq(Attempt) /\ old' \subseteq Attempt
        /\ behind' \in [Reference -> SUBSET Attempt]
    BY <1>19 DEF KillGroups
  <2>4. /\ cl' \in [pc : {"idle", "collected", "killed"}, idle : BOOLEAN,
                   worker : Attempt \cup {Nobody}]
        /\ worked' \subseteq Attempt /\ writer' \in Attempt \cup {Nobody}
        /\ raced' \in BOOLEAN
    BY <1>19 DEF KillGroups
  <2> QED BY <2>1, <2>2, <2>3, <2>4
<1>20. CASE MarkTerminated
  <2>1. /\ launch' \in LaunchState /\ fresh' \in BOOLEAN /\ launchNewer' \in BOOLEAN
        /\ lease' \in Lease /\ leaseFresh' \in BOOLEAN
        /\ scope' \in BOOLEAN /\ prewarm' \in BOOLEAN
    BY <1>20 DEF MarkTerminated, WriteLaunch
  <2>2. /\ disp' \in [Attempt -> DispPhase] /\ script' \in [Attempt -> ScriptPhase]
        /\ cyc' \in [Attempt -> CyclePhase]
        /\ codex' \subseteq Attempt /\ loops' \subseteq Attempt
    BY <1>20 DEF MarkTerminated, WriteLaunch
  <2>3. /\ born' \in Seq(Attempt) /\ old' \subseteq Attempt
        /\ behind' \in [Reference -> SUBSET Attempt]
    BY <1>20 DEF MarkTerminated, WriteLaunch
  <2>4. /\ cl' \in [pc : {"idle", "collected", "killed"}, idle : BOOLEAN,
                   worker : Attempt \cup {Nobody}]
        /\ worked' \subseteq Attempt /\ writer' \in Attempt \cup {Nobody}
        /\ raced' \in BOOLEAN
    BY <1>20 DEF MarkTerminated, WriteLaunch
  <2> QED BY <2>1, <2>2, <2>3, <2>4
<1>21. CASE Tick
  <2>1. /\ launch' \in LaunchState /\ fresh' \in BOOLEAN /\ launchNewer' \in BOOLEAN
        /\ lease' \in Lease /\ leaseFresh' \in BOOLEAN
        /\ scope' \in BOOLEAN /\ prewarm' \in BOOLEAN
    BY <1>21 DEF Tick
  <2>2. /\ disp' \in [Attempt -> DispPhase] /\ script' \in [Attempt -> ScriptPhase]
        /\ cyc' \in [Attempt -> CyclePhase]
        /\ codex' \subseteq Attempt /\ loops' \subseteq Attempt
    BY <1>21 DEF Tick
  <2>3. /\ born' \in Seq(Attempt) /\ old' \subseteq Attempt
        /\ behind' \in [Reference -> SUBSET Attempt]
    BY <1>21 DEF Tick
  <2>4. /\ cl' \in [pc : {"idle", "collected", "killed"}, idle : BOOLEAN,
                   worker : Attempt \cup {Nobody}]
        /\ worked' \subseteq Attempt /\ writer' \in Attempt \cup {Nobody}
        /\ raced' \in BOOLEAN
    BY <1>21 DEF Tick
  <2> QED BY <2>1, <2>2, <2>3, <2>4
<1>22. CASE UNCHANGED vars
  BY <1>22
<1> QED BY <1>1, <1>2, <1>3, <1>4, <1>5, <1>6, <1>7, <1>8, <1>9, <1>10, <1>11,
           <1>12, <1>13, <1>14, <1>15, <1>16, <1>17, <1>18, <1>19,
           <1>20, <1>21, <1>22
        DEF Next, Dispatch, Script, Cycle, Cleanup

(* The variables of the launches have their types.                         *)
THEOREM TypeCorrect == Spec => []TypeOK
BY TypeFirst, TypeKept, PTL DEF Spec

-----------------------------------------------------------------------------
(* The processes of a launch come from where they should.                  *)
LEMMA LineageKept == TypeOK /\ Lineage /\ [Next]_vars => Lineage'
<1> SUFFICES ASSUME TypeOK, Lineage, [Next]_vars PROVE Lineage'
  OBVIOUS
<1> USE TeacherLaunchAssumption DEF TypeOK, Lineage, AtWork, Alive
<1>1. ASSUME NEW a \in Attempt, Judge(a) PROVE Lineage'
  BY <1>1 DEF Judge
<1>2. ASSUME NEW a \in Attempt, Order(a) PROVE Lineage'
  BY <1>2 DEF Order
<1>3. ASSUME NEW a \in Attempt, Reset(a) PROVE Lineage'
  BY <1>3 DEF Reset
<1>4. ASSUME NEW a \in Attempt, SpawnForeground(a) PROVE Lineage'
  BY <1>4 DEF SpawnForeground
<1>5. ASSUME NEW a \in Attempt, Mark(a) PROVE Lineage'
  BY <1>5 DEF Mark, WriteLaunch
<1>6. ASSUME NEW a \in Attempt, Spawn(a) PROVE Lineage'
  BY <1>6 DEF Spawn
<1>7. ASSUME NEW a \in Attempt, NotePid(a) PROVE Lineage'
  BY <1>7 DEF NotePid, WriteLaunch
<1>8. ASSUME NEW a \in Attempt, DispatcherDies(a) PROVE Lineage'
  BY <1>8 DEF DispatcherDies
<1>9. ASSUME NEW a \in Attempt, Advance(a) PROVE Lineage'
  BY <1>9 DEF Advance, WriteLaunch
<1>10. ASSUME NEW a \in Attempt, Finish(a) PROVE Lineage'
  BY <1>10 DEF Finish, WriteLaunch
<1>11. ASSUME NEW a \in Attempt, ScriptDies(a) PROVE Lineage'
  BY <1>11 DEF ScriptDies
<1>12. ASSUME NEW a \in Attempt, TeacherEnds(a) PROVE Lineage'
  BY <1>12 DEF TeacherEnds
<1>13. ASSUME NEW a \in Attempt, BeginCycle(a) PROVE Lineage'
  BY <1>13 DEF BeginCycle, WriteLease
<1>14. ASSUME NEW a \in Attempt, LoopEnds(a) PROVE Lineage'
  BY <1>14 DEF LoopEnds
<1>15. ASSUME NEW a \in Attempt, Beat(a) PROVE Lineage'
  BY <1>15 DEF Beat, WriteLease
<1>16. ASSUME NEW a \in Attempt, EndCycle(a) PROVE Lineage'
  BY <1>16 DEF EndCycle, WriteLease
<1>17. ASSUME NEW a \in Attempt, CycleDies(a) PROVE Lineage'
  BY <1>17 DEF CycleDies
<1>18. CASE Collect
  BY <1>18 DEF Collect
<1>19. CASE KillGroups
  <2>1. PICK out \in {{}, Candidates} :
          cyc' = [a \in Attempt |-> IF a \in Candidates \ out THEN "none" ELSE cyc[a]]
    BY <1>19 DEF KillGroups
  <2>2. /\ script' = [a \in Attempt |-> IF a \in Candidates THEN "gone" ELSE script[a]]
        /\ codex' = codex \ Candidates /\ UNCHANGED <<disp, history>>
    BY <1>19 DEF KillGroups
  <2>3. \A a \in Candidates : a \in Attempt /\ script[a] \notin {"none", "gone"}
    BY DEF Candidates, Duplicates, Primary, Newest, Launchers
  <2> QED BY <2>1, <2>2, <2>3
<1>20. CASE MarkTerminated
  BY <1>20 DEF MarkTerminated, WriteLaunch
<1>21. CASE Tick
  BY <1>21 DEF Tick
<1>22. CASE UNCHANGED vars
  BY <1>22
<1> QED BY <1>1, <1>2, <1>3, <1>4, <1>5, <1>6, <1>7, <1>8, <1>9, <1>10, <1>11, <1>12,
           <1>13, <1>14, <1>15, <1>16, <1>17, <1>18, <1>19, <1>20, <1>21, <1>22
        DEF Next, Dispatch, Script, Cycle, Cleanup

(* The launch state stays that of its writer.                              *)
LEMMA WrittenKept == TypeOK /\ Lineage /\ Written /\ [Next]_vars => Written'
<1> SUFFICES ASSUME TypeOK, Lineage, Written, [Next]_vars PROVE Written'
  OBVIOUS
<1> USE TeacherLaunchAssumption DEF TypeOK, Lineage, Written, Alive
<1>1. ASSUME NEW a \in Attempt, Judge(a) PROVE Written'
  BY <1>1 DEF Judge
<1>2. ASSUME NEW a \in Attempt, Order(a) PROVE Written'
  BY <1>2 DEF Order
<1>3. ASSUME NEW a \in Attempt, Reset(a) PROVE Written'
  BY <1>3 DEF Reset
<1>4. ASSUME NEW a \in Attempt, SpawnForeground(a) PROVE Written'
  BY <1>4 DEF SpawnForeground
<1>5. ASSUME NEW a \in Attempt, Mark(a) PROVE Written'
  BY <1>5 DEF Mark, WriteLaunch
<1>6. ASSUME NEW a \in Attempt, Spawn(a) PROVE Written'
  BY <1>6 DEF Spawn
<1>7. ASSUME NEW a \in Attempt, NotePid(a) PROVE Written'
  BY <1>7 DEF NotePid, WriteLaunch
<1>8. ASSUME NEW a \in Attempt, DispatcherDies(a) PROVE Written'
  BY <1>8 DEF DispatcherDies
<1>9. ASSUME NEW a \in Attempt, Advance(a) PROVE Written'
  BY <1>9 DEF Advance, WriteLaunch
<1>10. ASSUME NEW a \in Attempt, Finish(a) PROVE Written'
  BY <1>10 DEF Finish, WriteLaunch
<1>11. ASSUME NEW a \in Attempt, ScriptDies(a) PROVE Written'
  BY <1>11 DEF ScriptDies
<1>12. ASSUME NEW a \in Attempt, TeacherEnds(a) PROVE Written'
  BY <1>12 DEF TeacherEnds
<1>13. ASSUME NEW a \in Attempt, BeginCycle(a) PROVE Written'
  BY <1>13 DEF BeginCycle, WriteLease
<1>14. ASSUME NEW a \in Attempt, LoopEnds(a) PROVE Written'
  BY <1>14 DEF LoopEnds
<1>15. ASSUME NEW a \in Attempt, Beat(a) PROVE Written'
  BY <1>15 DEF Beat, WriteLease
<1>16. ASSUME NEW a \in Attempt, EndCycle(a) PROVE Written'
  BY <1>16 DEF EndCycle, WriteLease
<1>17. ASSUME NEW a \in Attempt, CycleDies(a) PROVE Written'
  BY <1>17 DEF CycleDies
<1>18. CASE Collect
  BY <1>18 DEF Collect
<1>19. CASE KillGroups
  BY <1>19 DEF KillGroups
<1>20. CASE MarkTerminated
  BY <1>20 DEF MarkTerminated, WriteLaunch
<1>21. CASE Tick
  BY <1>21 DEF Tick
<1>22. CASE UNCHANGED vars
  BY <1>22
<1> QED BY <1>1, <1>2, <1>3, <1>4, <1>5, <1>6, <1>7, <1>8, <1>9, <1>10, <1>11, <1>12,
           <1>13, <1>14, <1>15, <1>16, <1>17, <1>18, <1>19, <1>20, <1>21, <1>22
        DEF Next, Dispatch, Script, Cycle, Cleanup

(* A launch that was missed once stays missed.                             *)
LEMMA MissedForGood == TypeOK /\ [Next]_vars /\ ~ raced' => ~ raced
BY DEF Next, Dispatch, Script, Cycle, Cleanup, Judge, Order, Reset, SpawnForeground, Mark,
       Spawn, NotePid, DispatcherDies, Advance, Finish, ScriptDies, TeacherEnds, BeginCycle,
       LoopEnds, Beat, EndCycle, CycleDies, Collect, KillGroups, MarkTerminated, Tick,
       WriteLaunch, WriteLease

(* A process that disturbs nobody has no other launch beside it.           *)
LEMMA Undisturbed ==
  ASSUME TypeOK, Lineage, NEW who, ~ Disturbs(who), NEW a \in Attempt \ {who}
  PROVE  ~ InFlight(a) /\ ~ Pending(a)
BY DEF Disturbs, InFlight, Pending

(* A launch that is on record is seen, unless a stale lease hides it.      *)
LEMMA RecordSeen ==
  ASSUME TypeOK, Lineage, Written, NEW a \in Attempt, writer = a,
         launch.active, launchNewer \/ lease # "inactive",
         Alive(a) \/ (launch.pid = Nobody /\ fresh /\ lease # "inactive")
  PROVE  LaunchActive
BY TeacherLaunchAssumption DEF Written, LaunchActive, Activity, SomeScript, TypeOK

(* Who judges a run idle and overlooks nothing has no other launch beside  *)
(* it.                                                                     *)
LEMMA JudgedAlone ==
  ASSUME TypeOK, Lineage, Written, Alone, NEW d \in Attempt, ~ Overlooks(d),
         NEW a \in Attempt \ {d}
  PROVE  ~ Pending(a)
<1> SUFFICES ASSUME Pending(a) PROVE FALSE
  OBVIOUS
<1>1. disp[a] = "marked" \/ (Booting(a) /\ (script[a] # "new" \/ writer = a))
  BY DEF Pending, Overlooks
<1>2. writer = a /\ ~ Hidden /\ ~ Running
  BY <1>1 DEF Overlooks, InFlight, Alone
<1>3. LaunchActive
  <2>1. CASE disp[a] = "marked"
    BY <2>1, <1>2, RecordSeen DEF Overlooks, Alone
  <2>2. CASE Booting(a)
    <3>1. launchNewer /\ Alive(a)
      BY <2>2, <1>2 DEF Alone, Booting
    <3>2. launch.active
      BY <3>1, <1>2, TeacherLaunchAssumption DEF Written, Alive
    <3> QED BY <3>1, <3>2, <1>2, RecordSeen
  <2> QED BY <1>1, <2>1, <2>2
<1> QED BY <1>2, <1>3 DEF Running, Hidden

(* A launch in progress stays the only one, and on record.                 *)
LEMMA AloneKept ==
  ASSUME TypeOK, Lineage, Written, Alone, [Next]_vars, ~ raced'
  PROVE  Alone'
<1> USE TeacherLaunchAssumption DEF TypeOK, Lineage, Alone, Pending, Booting, Alive, AtWork
<1>1. ASSUME NEW a \in Attempt, Judge(a) PROVE Alone'
  <2>1. \A b \in Attempt \ {a} : ~ Pending(b)
    <3> HIDE DEF Alone, Pending, TypeOK, Lineage
    <3> QED BY <1>1, JudgedAlone DEF Judge
  <2>2. disp' = [disp EXCEPT ![a] = "judged"] /\ UNCHANGED <<files, script, worked, writer, scope>>
    BY <1>1 DEF Judge, setup
  <2> QED BY <2>1, <2>2, <1>1 DEF Judge
<1>2. ASSUME NEW a \in Attempt, Order(a) PROVE Alone'
  <2>1. \A b \in Attempt \ {a} : ~ InFlight(b) /\ ~ Pending(b)
    <3> HIDE DEF Alone, Pending, TypeOK, Lineage
    <3> QED BY <1>2, Undisturbed DEF Order
  <2> QED BY <2>1, <1>2 DEF Order, InFlight
<1>3. ASSUME NEW a \in Attempt, Reset(a) PROVE Alone'
  BY <1>3, Undisturbed DEF Reset
<1>4. ASSUME NEW a \in Attempt, SpawnForeground(a) PROVE Alone'
  BY <1>4 DEF SpawnForeground
<1>5. ASSUME NEW a \in Attempt, Mark(a) PROVE Alone'
  <2>1. \A b \in Attempt \ {a} : ~ InFlight(b) /\ ~ Pending(b)
    <3> HIDE DEF Alone, Pending, TypeOK, Lineage
    <3> QED BY <1>5, Undisturbed DEF Mark, WriteLaunch
  <2>2. /\ disp[a] = "reset" /\ disp' = [disp EXCEPT ![a] = "marked"]
        /\ UNCHANGED <<script, worked, scope>> /\ writer' = a
    BY <1>5 DEF Mark, WriteLaunch
  <2>3. launch'.active /\ launch'.pid = Nobody /\ fresh' /\ launchNewer'
    BY <1>5 DEF Mark, WriteLaunch
  <2> QED BY <2>1, <2>2, <2>3 DEF InFlight
<1>6. ASSUME NEW a \in Attempt, Spawn(a) PROVE Alone'
  BY <1>6 DEF Spawn
<1>7. ASSUME NEW a \in Attempt, NotePid(a) PROVE Alone'
  BY <1>7, Undisturbed DEF NotePid, WriteLaunch
<1>8. ASSUME NEW a \in Attempt, DispatcherDies(a) PROVE Alone'
  BY <1>8 DEF DispatcherDies
<1>9. ASSUME NEW a \in Attempt, Advance(a) PROVE Alone'
  <2>1. \A b \in Attempt \ {a} : ~ InFlight(b) /\ ~ Pending(b)
    <3> HIDE DEF Alone, Pending, TypeOK, Lineage
    <3> QED BY <1>9, Undisturbed DEF Advance, WriteLaunch
  <2> QED BY <2>1, <1>9 DEF Advance, WriteLaunch, InFlight, NextPhase
<1>10. ASSUME NEW a \in Attempt, Finish(a) PROVE Alone'
  <2>1. \A b \in Attempt \ {a} : ~ InFlight(b) /\ ~ Pending(b)
    <3> HIDE DEF Alone, Pending, TypeOK, Lineage
    <3> QED BY <1>10, Undisturbed DEF Finish, WriteLaunch
  <2> QED BY <2>1, <1>10 DEF Finish, WriteLaunch, InFlight
<1>11. ASSUME NEW a \in Attempt, ScriptDies(a) PROVE Alone'
  BY <1>11 DEF ScriptDies
<1>12. ASSUME NEW a \in Attempt, TeacherEnds(a) PROVE Alone'
  BY <1>12 DEF TeacherEnds
<1>13. ASSUME NEW a \in Attempt, BeginCycle(a) PROVE Alone'
  BY <1>13, Undisturbed DEF BeginCycle, WriteLease
<1>14. ASSUME NEW a \in Attempt, LoopEnds(a) PROVE Alone'
  BY <1>14 DEF LoopEnds
<1>15. ASSUME NEW a \in Attempt, Beat(a) PROVE Alone'
  BY <1>15, Undisturbed DEF Beat, WriteLease
<1>16. ASSUME NEW a \in Attempt, EndCycle(a) PROVE Alone'
  BY <1>16, Undisturbed DEF EndCycle, WriteLease
<1>17. ASSUME NEW a \in Attempt, CycleDies(a) PROVE Alone'
  BY <1>17 DEF CycleDies
<1>18. CASE Collect
  BY <1>18 DEF Collect
<1>19. CASE KillGroups
  BY <1>19 DEF KillGroups
<1>20. CASE MarkTerminated
  <2>1. \A b \in Attempt : ~ InFlight(b) /\ ~ Pending(b)
    <3> HIDE DEF Alone, Pending, TypeOK, Lineage
    <3> QED BY <1>20, Undisturbed DEF MarkTerminated, WriteLaunch
  <2> QED BY <2>1, <1>20 DEF MarkTerminated, WriteLaunch, InFlight
<1>21. CASE Tick
  BY <1>21 DEF Tick
<1>22. CASE UNCHANGED vars
  BY <1>22
<1> QED BY <1>1, <1>2, <1>3, <1>4, <1>5, <1>6, <1>7, <1>8, <1>9, <1>10, <1>11, <1>12,
           <1>13, <1>14, <1>15, <1>16, <1>17, <1>18, <1>19, <1>20, <1>21, <1>22
        DEF Next, Dispatch, Script, Cycle, Cleanup

(* A worker that was reported idle does not become the one that wrote last. *)
LEMMA UnwrittenKept ==
  ASSUME TypeOK, Lineage, Written, Alone, Unwritten, [Next]_vars, ~ raced'
  PROVE  Unwritten'
<1> USE TeacherLaunchAssumption DEF TypeOK, Lineage, Unwritten, Alive, AtWork
<1>1. ASSUME NEW a \in Attempt, Judge(a) PROVE Unwritten'
  BY <1>1 DEF Judge
<1>2. ASSUME NEW a \in Attempt, Order(a) PROVE Unwritten'
  BY <1>2 DEF Order
<1>3. ASSUME NEW a \in Attempt, Reset(a) PROVE Unwritten'
  BY <1>3 DEF Reset
<1>4. ASSUME NEW a \in Attempt, SpawnForeground(a) PROVE Unwritten'
  BY <1>4 DEF SpawnForeground
<1>5. ASSUME NEW a \in Attempt, Mark(a) PROVE Unwritten'
  BY <1>5 DEF Mark, WriteLaunch
<1>6. ASSUME NEW a \in Attempt, Spawn(a) PROVE Unwritten'
  BY <1>6 DEF Spawn
<1>7. ASSUME NEW a \in Attempt, NotePid(a) PROVE Unwritten'
  <2>1. writer = a /\ writer' = a /\ UNCHANGED <<cl, script, worked>>
    BY <1>7 DEF NotePid, WriteLaunch, Alone
  <2> QED BY <2>1
<1>8. ASSUME NEW a \in Attempt, DispatcherDies(a) PROVE Unwritten'
  BY <1>8 DEF DispatcherDies
<1>9. ASSUME NEW a \in Attempt, Advance(a) PROVE Unwritten'
  BY <1>9 DEF Advance, WriteLaunch
<1>10. ASSUME NEW a \in Attempt, Finish(a) PROVE Unwritten'
  BY <1>10 DEF Finish, WriteLaunch
<1>11. ASSUME NEW a \in Attempt, ScriptDies(a) PROVE Unwritten'
  BY <1>11 DEF ScriptDies
<1>12. ASSUME NEW a \in Attempt, TeacherEnds(a) PROVE Unwritten'
  BY <1>12 DEF TeacherEnds
<1>13. ASSUME NEW a \in Attempt, BeginCycle(a) PROVE Unwritten'
  BY <1>13 DEF BeginCycle, WriteLease
<1>14. ASSUME NEW a \in Attempt, LoopEnds(a) PROVE Unwritten'
  BY <1>14 DEF LoopEnds
<1>15. ASSUME NEW a \in Attempt, Beat(a) PROVE Unwritten'
  BY <1>15 DEF Beat, WriteLease
<1>16. ASSUME NEW a \in Attempt, EndCycle(a) PROVE Unwritten'
  BY <1>16 DEF EndCycle, WriteLease
<1>17. ASSUME NEW a \in Attempt, CycleDies(a) PROVE Unwritten'
  BY <1>17 DEF CycleDies
<1>18. CASE Collect
  <2> SUFFICES ASSUME cl'.idle, cl'.worker # Nobody
               PROVE  cl'.worker \in worked /\ (Alive(cl'.worker) => writer # cl'.worker)
    BY <1>18 DEF Collect
  <2>1. lease \in AtWork /\ cl'.worker = lease /\ ~ LaunchActive
    BY <1>18 DEF Collect
  <2>2. lease \in Attempt /\ lease \in worked
    BY <2>1
  <2>3. ASSUME Alive(lease), writer = lease PROVE LaunchActive
    <3>1. launch.active /\ lease # "inactive"
      BY <2>2, <2>3 DEF Written
    <3> HIDE DEF TypeOK, Lineage, Alive
    <3> QED BY <3>1, <2>2, <2>3, RecordSeen
  <2> QED BY <2>1, <2>2, <2>3
<1>19. CASE KillGroups
  BY <1>19 DEF KillGroups
<1>20. CASE MarkTerminated
  BY <1>20 DEF MarkTerminated, WriteLaunch
<1>21. CASE Tick
  BY <1>21 DEF Tick
<1>22. CASE UNCHANGED vars
  BY <1>22
<1> QED BY <1>1, <1>2, <1>3, <1>4, <1>5, <1>6, <1>7, <1>8, <1>9, <1>10, <1>11, <1>12,
           <1>13, <1>14, <1>15, <1>16, <1>17, <1>18, <1>19, <1>20, <1>21, <1>22
        DEF Next, Dispatch, Script, Cycle, Cleanup

(* The invariant the promises of a launch rest on.                         *)
THEOREM Inductive == Spec => []IInv
<1>1. Init => IInv
  <2> SUFFICES ASSUME Init PROVE Lineage /\ Written /\ Alone /\ Unwritten
    BY TypeFirst DEF IInv
  <2>1. Lineage /\ Written
    BY DEF Init, Lineage, Written, AtWork
  <2>2. Alone
    BY DEF Init, Alone, Pending, Booting, Alive
  <2>3. Unwritten
    BY DEF Init, Unwritten
  <2> QED BY <2>1, <2>2, <2>3
<1>2. IInv /\ [Next]_vars => IInv'
  BY TypeKept, LineageKept, WrittenKept, MissedForGood, AloneKept, UnwrittenKept DEF IInv
<1> QED BY <1>1, <1>2, PTL DEF Spec

(* The variables of the launches have their types, a launch in progress is *)
(* reported running, and unless one was missed it is the only one and its  *)
(* teacher has a scope: whatever process of whatever launch dies when.     *)
THEOREM LaunchCorrect == Spec => []LaunchInv
<1>1. IInv => LaunchInv
  <2> SUFFICES ASSUME IInv PROVE LaunchInv
    OBVIOUS
  <2>1. BootingSeen
    <3> SUFFICES ASSUME NEW a \in Attempt, Booting(a), writer = a,
                        launchNewer \/ lease = "none", ~ Hidden
                 PROVE  Running
      BY DEF BootingSeen
    <3>1. Alive(a) /\ launch.active
      BY TeacherLaunchAssumption DEF IInv, Booting, Alive, Written
    <3>2. LaunchActive
      BY <3>1, RecordSeen DEF IInv
    <3> QED BY <3>2 DEF Hidden, Running
  <2>2. LaunchedOnce
    BY DEF IInv, Alone, Pending, LaunchedOnce
  <2>3. ScopedTeacher
    BY DEF IInv, Alone, ScopedTeacher
  <2> QED BY <2>1, <2>2, <2>3 DEF IInv, LaunchInv
<1> QED BY <1>1, Inductive, PTL

(* Unless a launch was missed, a cleanup spares the launcher whose cycle   *)
(* held the lease when the status was collected.                           *)
THEOREM WorkerIsSpared == Spec => []WorkerSpared
<1>1. IInv => WorkerSpared
  <2> SUFFICES ASSUME IInv, ~ raced, cl.pc = "collected", NEW a \in Primary \cap {cl.worker}
               PROVE  writer # a
    BY DEF WorkerSpared
  <2>1. cl.idle /\ a = cl.worker /\ a \in Attempt /\ Alive(a)
    BY DEF Primary, Newest, Launchers
  <2> QED BY <2>1, TeacherLaunchAssumption DEF IInv, Unwritten
<1> QED BY <1>1, Inductive, PTL

=============================================================================
