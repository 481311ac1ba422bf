--------------------------- MODULE RunLease_proofs ---------------------------
(***************************************************************************)
(* Proofs about RunLease for every set of cycles and of recovery passes,   *)
(* and about HistoricalRoutes on top of it for everything other campaigns  *)
(* may publish.                                                            *)
(***************************************************************************)
EXTENDS HistoricalRoutes, TLAPS

\* The lease values: what writing and reading a lease gives.
LEMMA LeaseValues ==
    /\ Missing \in Lease /\ ~ Missing.active /\ Missing.kind = "missing"
    /\ Missing.sup = Nobody /\ Missing.loop = Nobody
    /\ Torn \in Lease /\ ~ Torn.active /\ Torn.kind = "torn"
    /\ Torn.sup = Nobody /\ Torn.loop = Nobody
  BY DEF Missing, Torn, Unreadable, Lease

LEMMA HeldValues ==
    ASSUME NEW c \in Cycle, NEW l \in Cycle \cup {Nobody}
    PROVE  /\ Held(c, l) \in Lease
           /\ Held(c, l).kind = "whole" /\ Held(c, l).active
           /\ Held(c, l).sup = c /\ Held(c, l).loop = l
  BY DEF Held, Lease

LEMMA CompletedValues ==
    ASSUME NEW c \in Cycle
    PROVE  /\ Completed(c) \in Lease
           /\ Completed(c).kind = "whole" /\ ~ Completed(c).active
           /\ Completed(c).sup = c /\ Completed(c).loop = Nobody
  BY DEF Completed, Lease

\* What a cycle writes, phase by phase: always its own pid, its own loop only
\* when it records or beats, and an inactive lease only at the end.
LEMMA TextValues ==
    ASSUME NEW c \in Cycle, pc[c] \in Writing
    PROVE  /\ Text(c) \in Lease /\ Text(c).kind = "whole" /\ Text(c).sup = c
           /\ Text(c).loop \in {c, Nobody}
           /\ pc[c] \in {"claim", "analyse"} => Text(c) = Held(c, Nobody)
           /\ pc[c] \in {"record", "beat"} => Text(c) = Held(c, c)
           /\ pc[c] = "complete" => Text(c) = Completed(c)
           /\ Text(c).loop = c => pc[c] \in {"record", "beat"}
  <1>1. CASE pc[c] \in {"claim", "analyse"}
    BY <1>1, HeldValues, RunLeaseAssumption DEF Text
  <1>2. CASE pc[c] \in {"record", "beat"}
    BY <1>2, HeldValues DEF Text
  <1>3. CASE pc[c] = "complete"
    BY <1>3, CompletedValues, RunLeaseAssumption DEF Text
  <1> QED
    BY <1>1, <1>2, <1>3 DEF Writing

\* The phase a write leads to, and the phases it starts from.
LEMMA AfterValues ==
    ASSUME NEW c \in Cycle, pc[c] \in Writing
    PROVE  /\ pc[c] = "claim" => After(pc[c]) = "claimed"
           /\ pc[c] \in {"record", "beat"} => After(pc[c]) = "looping"
           /\ pc[c] = "analyse" => After(pc[c]) = "analysing"
           /\ pc[c] = "complete" => After(pc[c]) = "done"
  BY DEF After, Writing

LEMMA DueValues ==
    ASSUME NEW c \in Cycle, Due(c) # "none"
    PROVE  /\ Due(c) \in Writing
           /\ pc[c] \in {"checked", "spawned", "looping", "claimed", "analysing"}
           /\ pc[c] = "checked" <=> Due(c) = "claim"
           /\ pc[c] = "spawned" <=> Due(c) = "record"
           /\ Due(c) = "beat" <=> pc[c] = "looping" /\ c \in loops
           /\ Due(c) = "analyse" <=>
                \/ pc[c] = "looping" /\ c \notin loops
                \/ pc[c] = "claimed" /\ c \in Recovery
           /\ Due(c) = "complete" <=> pc[c] = "analysing"
  <1>1. CASE pc[c] = "checked"
    BY <1>1 DEF Due, Writing
  <1>2. CASE pc[c] = "spawned"
    BY <1>2 DEF Due, Writing
  <1>3. CASE pc[c] = "looping"
    BY <1>3 DEF Due, Writing
  <1>4. CASE pc[c] = "claimed"
    BY <1>4 DEF Due, Writing
  <1>5. CASE pc[c] = "analysing"
    BY <1>5 DEF Due, Writing
  <1> QED
    BY <1>1, <1>2, <1>3, <1>4, <1>5 DEF Due

-----------------------------------------------------------------------------
(* Type correctness.                                                       *)

LEMMA TypeStep == TypeOK /\ [Next]_vars => TypeOK'
  <1> SUFFICES ASSUME TypeOK, [Next]_vars PROVE TypeOK'
    OBVIOUS
  <1> USE LeaseValues DEF TypeOK, Phase, Writing, Looping, Over, Goto
  <1>1. ASSUME NEW c \in Cycle, Check(c) PROVE TypeOK'
    BY <1>1 DEF Check
  <1>2. ASSUME NEW c \in Cycle, Recover(c) PROVE TypeOK'
    BY <1>2 DEF Recover
  <1>3. ASSUME NEW c \in Cycle, SpawnLoop(c) PROVE TypeOK'
    BY <1>3 DEF SpawnLoop
  <1>4. ASSUME NEW c \in Cycle, BeginWrite(c) PROVE TypeOK'
    BY <1>4, DueValues DEF BeginWrite
  <1>5. ASSUME NEW c \in Cycle, EndWrite(c) PROVE TypeOK'
    BY <1>5, TextValues, AfterValues DEF EndWrite
  <1>6. ASSUME NEW c \in Cycle, LoopEnds(c) PROVE TypeOK'
    BY <1>6 DEF LoopEnds
  <1>7. ASSUME NEW c \in Cycle, Kill(c) PROVE TypeOK'
    BY <1>7 DEF Kill
  <1>8. CASE Tick
    BY <1>8 DEF Tick
  <1>9. CASE UNCHANGED vars
    BY <1>9 DEF vars
  <1> QED
    BY <1>1, <1>2, <1>3, <1>4, <1>5, <1>6, <1>7, <1>8, <1>9 DEF Next, Step

LEMMA TypeInit == Init => TypeOK
  BY LeaseValues DEF Init, TypeOK, Phase

\* The variables of the run lease keep their types.
THEOREM TypeCorrect == Spec => []TypeOK
  BY TypeInit, TypeStep, PTL DEF Spec

-----------------------------------------------------------------------------
(* The strengthening.  Facts that hold whatever races:                     *)

\* A lease names no cycle that has not written one, and no loop that was not
\* started; nor is a cycle overtaken before it has written one.
Names(lease) ==
    \A c \in Cycle :
        /\ lease.sup = c => pc[c] \notin {"new", "checked", "busy", "claim"}
        /\ lease.loop = c => pc[c] \notin {"new", "checked", "busy", "claim",
                                           "claimed", "spawned", "record"}
NamesWriters ==
    /\ Names(file) /\ \A c \in Cycle : Names(seen[c])
    /\ \A c \in overtaken : pc[c] \notin {"new", "checked", "busy", "claim"}

\* A followed loop has a fresh heartbeat.
FollowedIsFresh == (\E c \in Cycle : pc[c] \in {"claimed"} \cup Looping) => fresh

\* A loop is followed, or outlives its cycle.
LoopHasCycle == \A c \in loops : pc[c] \in Looping \cup {"dead"}

\* Between its writes a cycle knows its own lease.
KnowsOwn ==
    \A c \in Cycle :
        /\ pc[c] \in {"claimed", "spawned", "analysing"} => seen[c] = Held(c, Nobody)
        /\ pc[c] = "looping" => seen[c] = Held(c, c)

\* What a check has found stays true: no cycle of the lease it read is about
\* to start a loop or follows one; a supervised cycle has found nobody alive.
CheckStands ==
    \A c \in Cycle : pc[c] = "checked" /\ seen[c].active =>
        /\ \A d \in Cycle : seen[c].sup = d => pc[d] \notin {"claimed"} \cup Looping
        /\ c \notin Recovery => ~ Conflicts(seen[c])

(* And facts that hold until a race:                                       *)

\* A cycle writes a torn file, and nobody writes with it.
OneWriter ==
    \A c \in Cycle : pc[c] \in Writing =>
        file = Torn /\ \A d \in Cycle : pc[d] \in Writing => c = d

\* The lease is that of the cycle at work.
FileIsOwn ==
    \A c \in Cycle :
        pc[c] \in {"claimed", "spawned", "looping"}
        \/ (pc[c] = "analysing" /\ c \notin overtaken)
            => file = seen[c]

\* The lease names the loop of a killed cycle.
OrphanNamed ==
    \A c \in loops \ overtaken : pc[c] = "dead" => file.active /\ file.loop = c

Always == NamesWriters /\ FollowedIsFresh /\ LoopHasCycle /\ KnowsOwn /\ CheckStands
Unraced == OneWriter /\ FileIsOwn /\ OrphanNamed /\ RecoveryKeepsOff
IInv == TypeOK /\ Always /\ (~ raced => Unraced)

-----------------------------------------------------------------------------
(* The facts that hold whatever races are inductive.                       *)

\* What the end of a write does, phase by phase.
LEMMA EndWriteEffect ==
    ASSUME TypeOK, NEW c \in Cycle, EndWrite(c)
    PROVE  /\ pc[c] \in Writing
           /\ file' \in {seen'[c], Torn} /\ (file = Torn => file' = seen'[c])
           /\ seen'[c].sup = c /\ seen'[c].loop \in {c, Nobody}
           /\ pc[c] = "claim" =>
                pc'[c] = "claimed" /\ seen'[c] = Held(c, Nobody)
           /\ pc[c] \in {"record", "beat"} =>
                pc'[c] = "looping" /\ seen'[c] = Held(c, c)
           /\ pc[c] = "analyse" =>
                pc'[c] = "analysing" /\ seen'[c] = Held(c, Nobody)
           /\ pc[c] = "complete" =>
                pc'[c] = "done" /\ seen'[c] = Completed(c)
           /\ seen'[c].loop = c => pc'[c] = "looping"
           /\ \A d \in Cycle \ {c} : pc'[d] = pc[d] /\ seen'[d] = seen[d]
           /\ UNCHANGED <<loops, raced, overtaken>>
  <1>1. /\ pc[c] \in Writing
        /\ seen'[c] = Text(c)
        /\ pc'[c] = After(pc[c])
        /\ \A d \in Cycle \ {c} : pc'[d] = pc[d] /\ seen'[d] = seen[d]
        /\ UNCHANGED <<loops, raced, overtaken>>
    BY DEF TypeOK, EndWrite, Goto
  <1>2. file' \in {seen'[c], Torn} /\ (file = Torn => file' = seen'[c])
    BY <1>1, LeaseValues DEF EndWrite
  <1> QED
    BY <1>1, <1>2, TextValues, AfterValues

\* What the start of a write does.
LEMMA BeginWriteEffect ==
    ASSUME TypeOK, NEW c \in Cycle, BeginWrite(c)
    PROVE  /\ pc[c] \in {"checked", "claimed", "spawned", "looping", "analysing"}
           /\ pc'[c] \in Writing
           /\ pc'[c] = "claim" <=> pc[c] = "checked"
           /\ pc'[c] = "record" <=> pc[c] = "spawned"
           /\ pc'[c] \in Looping => pc[c] \in Looping
           /\ c \in loops => pc[c] \notin Looping \/ pc'[c] \in {"record", "beat"}
           /\ \A d \in Cycle \ {c} : pc'[d] = pc[d]
           /\ file' = Torn
           /\ ~ raced' => ~ raced /\ file = seen[c] /\ file.kind # "torn"
           /\ overtaken \subseteq overtaken'
           /\ \A d \in Cycle : d \in overtaken' \ overtaken =>
                                 c \in Recovery /\ d # c /\ Holds(d, file)
           /\ \A d \in Cycle \ {c} : c \in Recovery /\ Holds(d, file) => d \in overtaken'
           /\ UNCHANGED <<fresh, seen, loops>>
  <1>1. /\ Due(c) # "none" /\ pc'[c] = Due(c)
        /\ \A d \in Cycle \ {c} : pc'[d] = pc[d]
    BY DEF TypeOK, BeginWrite, Goto
  <1>2. /\ file' = Torn
        /\ ~ raced' => ~ raced /\ file = seen[c] /\ file.kind # "torn"
        /\ overtaken \subseteq overtaken'
        /\ \A d \in Cycle : d \in overtaken' \ overtaken =>
                              c \in Recovery /\ d # c /\ Holds(d, file)
        /\ \A d \in Cycle \ {c} : c \in Recovery /\ Holds(d, file) => d \in overtaken'
        /\ UNCHANGED <<fresh, seen, loops>>
    BY DEF TypeOK, BeginWrite
  <1>3. /\ pc[c] \in {"checked", "claimed", "spawned", "looping", "analysing"}
        /\ pc'[c] \in Writing
        /\ pc'[c] = "claim" <=> pc[c] = "checked"
        /\ pc'[c] = "record" <=> pc[c] = "spawned"
        /\ pc'[c] \in Looping => pc[c] \in Looping
        /\ c \in loops => pc[c] \notin Looping \/ pc'[c] \in {"record", "beat"}
    BY <1>1, DueValues DEF Writing, Looping
  <1> QED
    BY <1>1, <1>2, <1>3

LEMMA NamesStep == TypeOK /\ NamesWriters /\ LoopHasCycle /\ [Next]_vars => NamesWriters'
  <1> SUFFICES ASSUME TypeOK, NamesWriters, LoopHasCycle, [Next]_vars PROVE NamesWriters'
    OBVIOUS
  <1> USE RunLeaseAssumption, LeaseValues
  <1> USE DEF TypeOK, NamesWriters, Names, Looping, Over, Goto
  <1>1. ASSUME NEW c \in Cycle, Check(c) PROVE NamesWriters'
    <2>1. pc[c] = "new" /\ seen' = [seen EXCEPT ![c] = file]
          /\ (\E phase \in {"busy", "checked"} : pc' = [pc EXCEPT ![c] = phase])
          /\ UNCHANGED <<file, overtaken>>
      BY <1>1 DEF Check
    <2>2. Names(file)'
      BY <2>1
    <2>3. \A d \in Cycle : Names(seen[d])'
      <3> SUFFICES ASSUME NEW d \in Cycle PROVE Names(seen[d])'
        OBVIOUS
      <3>1. CASE d = c
        BY <2>1, <2>2, <3>1
      <3>2. CASE d # c
        <4>1. seen'[d] = seen[d] /\ Names(seen[d]) /\ seen[d].sup # c /\ seen[d].loop # c
          BY <2>1, <3>2
        <4>2. \A e \in Cycle \ {c} : pc'[e] = pc[e]
          BY <2>1
        <4> QED
          BY <4>1, <4>2
      <3> QED
        BY <3>1, <3>2
    <2>4. \A d \in overtaken' : pc'[d] \notin {"new", "checked", "busy", "claim"}
      <3>1. \A d \in overtaken : d # c /\ d \in Cycle
        BY <2>1
      <3>2. \A d \in Cycle \ {c} : pc'[d] = pc[d]
        BY <2>1
      <3> QED
        BY <2>1, <3>1, <3>2
    <2> QED
      BY <2>2, <2>3, <2>4
  <1>2. ASSUME NEW c \in Cycle, Recover(c) PROVE NamesWriters'
    BY <1>2 DEF Recover
  <1>3. ASSUME NEW c \in Cycle, SpawnLoop(c) PROVE NamesWriters'
    BY <1>3 DEF SpawnLoop
  <1>4. ASSUME NEW c \in Cycle, BeginWrite(c) PROVE NamesWriters'
    <2>1. Names(file)' /\ \A d \in Cycle : Names(seen[d])'
      <3>1. /\ pc'[c] \notin {"new", "checked", "busy"}
            /\ pc'[c] = "claim" => pc[c] = "checked"
            /\ pc'[c] \in {"claimed", "spawned", "record"} => pc[c] = "spawned"
            /\ \A d \in Cycle \ {c} : pc'[d] = pc[d]
            /\ file' = Torn /\ seen' = seen
        BY <1>4, BeginWriteEffect DEF Writing
      <3> QED
        BY <3>1
    <2>2. ASSUME NEW d \in overtaken' PROVE pc'[d] \notin {"new", "checked", "busy", "claim"}
      <3>1. d \in Cycle /\ (d \notin overtaken => d # c /\ (file.sup = d \/ file.loop = d))
        BY <1>4, BeginWriteEffect DEF BeginWrite, Holds
      <3>2. pc[d] \notin {"new", "checked", "busy", "claim"}
        BY <3>1
      <3> QED
        BY <1>4, <3>1, <3>2, BeginWriteEffect DEF Writing
    <2> QED
      BY <2>1, <2>2
  <1>5. ASSUME NEW c \in Cycle, EndWrite(c) PROVE NamesWriters'
    <2>1. Names(seen[c])'
      BY <1>5, EndWriteEffect DEF Writing
    <2>2. Names(Torn)'
      BY DEF Torn, Unreadable
    <2>3. \A d \in Cycle \ {c} : Names(seen[d])'
      BY <1>5, EndWriteEffect DEF Writing
    <2> QED
      BY <2>1, <2>2, <2>3, <1>5, EndWriteEffect
  <1>6. ASSUME NEW c \in Cycle, LoopEnds(c) PROVE NamesWriters'
    BY <1>6 DEF LoopEnds
  <1>7. ASSUME NEW c \in Cycle, Kill(c) PROVE NamesWriters'
    BY <1>7 DEF Kill
  <1>8. CASE Tick
    BY <1>8 DEF Tick
  <1>9. CASE UNCHANGED vars
    BY <1>9 DEF vars
  <1> QED
    BY <1>1, <1>2, <1>3, <1>4, <1>5, <1>6, <1>7, <1>8, <1>9 DEF Next, Step

LEMMA PhaseStep ==
    TypeOK /\ FollowedIsFresh /\ LoopHasCycle /\ KnowsOwn /\ [Next]_vars
        => FollowedIsFresh' /\ LoopHasCycle' /\ KnowsOwn'
  <1> DEFINE G == FollowedIsFresh /\ LoopHasCycle /\ KnowsOwn
  <1> SUFFICES ASSUME TypeOK, G, [Next]_vars PROVE G'
    OBVIOUS
  <1> USE DEF TypeOK, G, FollowedIsFresh, LoopHasCycle, KnowsOwn, Looping, Over, Goto
  <1>1. ASSUME NEW c \in Cycle, Check(c) PROVE G'
    BY <1>1 DEF Check
  <1>2. ASSUME NEW c \in Cycle, Recover(c) PROVE G'
    BY <1>2 DEF Recover
  <1>3. ASSUME NEW c \in Cycle, SpawnLoop(c) PROVE G'
    BY <1>3 DEF SpawnLoop
  <1>4. ASSUME NEW c \in Cycle, BeginWrite(c) PROVE G'
    BY <1>4, DueValues DEF BeginWrite, Writing
  <1>5. ASSUME NEW c \in Cycle, EndWrite(c) PROVE G'
    <2>1. FollowedIsFresh'
      BY <1>5 DEF EndWrite
    <2>2. LoopHasCycle'
      BY <1>5, EndWriteEffect DEF Writing
    <2>3. KnowsOwn'
      BY <1>5, EndWriteEffect DEF Writing
    <2> QED
      BY <2>1, <2>2, <2>3
  <1>6. ASSUME NEW c \in Cycle, LoopEnds(c) PROVE G'
    BY <1>6 DEF LoopEnds
  <1>7. ASSUME NEW c \in Cycle, Kill(c) PROVE G'
    BY <1>7 DEF Kill, Live
  <1>8. CASE Tick
    BY <1>8 DEF Tick
  <1>9. CASE UNCHANGED vars
    BY <1>9 DEF vars
  <1> QED
    BY <1>1, <1>2, <1>3, <1>4, <1>5, <1>6, <1>7, <1>8, <1>9 DEF Next, Step

\* A lease a cycle has read names no cycle that could come to life, or start a
\* loop, after it was read.
LEMMA CheckStep ==
    TypeOK /\ NamesWriters /\ FollowedIsFresh /\ LoopHasCycle /\ CheckStands
        /\ [Next]_vars => CheckStands'
  <1> SUFFICES ASSUME TypeOK, NamesWriters, FollowedIsFresh, LoopHasCycle,
                      CheckStands, [Next]_vars
               PROVE  CheckStands'
    OBVIOUS
  <1> USE DEF TypeOK, NamesWriters, Names, CheckStands, Conflicts, Live, Looping, Over, Goto
  <1>1. ASSUME NEW c \in Cycle, Check(c) PROVE CheckStands'
    <2>1. /\ seen'[c] = file
          /\ pc'[c] = "checked" => ~ Conflicts(file)
          /\ \A d \in Cycle \ {c} : pc'[d] = pc[d] /\ seen'[d] = seen[d]
          /\ UNCHANGED <<file, loops>>
      BY <1>1 DEF Check
    <2>2. pc'[c] \in {"checked", "busy"} /\ pc[c] = "new" /\ c \notin Recovery
      BY <1>1 DEF Check
    <2>3. \A x \in {file} \cup {seen[e] : e \in Cycle} :
             /\ x.sup # c
             /\ \A d \in Cycle : x.sup = d => pc'[d] = pc[d]
             /\ Live(x.sup)' = Live(x.sup)
      BY <2>1, <2>2
    <2>4. \A d \in Cycle \ {c} : pc'[d] = "checked" /\ seen'[d].active =>
            /\ \A e \in Cycle : seen'[d].sup = e => pc'[e] \notin {"claimed"} \cup Looping
            /\ d \notin Recovery => ~ Conflicts(seen[d])'
      BY <2>1, <2>3
    <2>5. ASSUME pc'[c] = "checked", file.active
          PROVE  /\ \A e \in Cycle : file.sup = e => pc'[e] \notin {"claimed"} \cup Looping
                 /\ ~ Conflicts(file)'
      <3>1. ~ Live(file.sup) /\ file.loop \notin loops
        BY <2>1, <2>5
      <3>2. ~ Live(file.sup)' /\ \A e \in Cycle : file.sup = e => pc'[e] = pc[e]
        BY <3>1, <2>1, <2>3
      <3>3. \A e \in Cycle : file.sup = e => pc[e] \in {"new"} \cup Over
        BY <3>1
      <3> QED
        BY <2>1, <3>1, <3>2, <3>3
    <2> HIDE DEF Conflicts
    <2>6. Conflicts(seen[c])' = Conflicts(file)'
      BY <2>1 DEF Conflicts
    <2> QED
      BY <2>1, <2>4, <2>5, <2>6
  <1>2. ASSUME NEW c \in Cycle, Recover(c) PROVE CheckStands'
    <2>1. /\ pc[c] = "new" /\ c \in Recovery /\ ~ RunningSignal
          /\ pc'[c] = "checked" /\ seen'[c] = file
          /\ \A d \in Cycle \ {c} : pc'[d] = pc[d] /\ seen'[d] = seen[d]
          /\ UNCHANGED <<file, loops>>
      BY <1>2 DEF Recover
    <2>2. file.active => \A d \in Cycle : file.sup = d => pc[d] \notin {"claimed"} \cup Looping
      BY <2>1 DEF RunningSignal, FollowedIsFresh
    <2>3. \A d \in Cycle \ {c} : pc'[d] = "checked" /\ seen'[d].active =>
            /\ \A e \in Cycle : seen'[d].sup = e => pc'[e] \notin {"claimed"} \cup Looping
            /\ d \notin Recovery => ~ Conflicts(seen[d])'
      <3> SUFFICES ASSUME NEW d \in Cycle \ {c}, pc[d] = "checked", seen[d].active
                   PROVE  /\ \A e \in Cycle : seen[d].sup = e =>
                                 pc'[e] \notin {"claimed"} \cup Looping
                          /\ d \notin Recovery => ~ Conflicts(seen[d])'
        BY <2>1
      <3>1. seen[d].sup # c
        BY <2>1
      <3>2. \A e \in Cycle : seen[d].sup = e => pc'[e] = pc[e]
        BY <2>1, <3>1
      <3> QED
        BY <2>1, <3>2
    <2>4. pc'[c] = "checked" /\ seen'[c].active =>
            /\ \A e \in Cycle : seen'[c].sup = e => pc'[e] \notin {"claimed"} \cup Looping
            /\ c \in Recovery
      BY <2>1, <2>2
    <2> QED
      BY <2>1, <2>3, <2>4 DEF Conflicts
  <1>3. ASSUME NEW c \in Cycle, SpawnLoop(c) PROVE CheckStands'
    BY <1>3 DEF SpawnLoop
  <1>4. ASSUME NEW c \in Cycle, BeginWrite(c) PROVE CheckStands'
    BY <1>4, BeginWriteEffect DEF Writing
  <1>5. ASSUME NEW c \in Cycle, EndWrite(c) PROVE CheckStands'
    BY <1>5, EndWriteEffect DEF Writing
  <1>6. ASSUME NEW c \in Cycle, LoopEnds(c) PROVE CheckStands'
    BY <1>6 DEF LoopEnds
  <1>7. ASSUME NEW c \in Cycle, Kill(c) PROVE CheckStands'
    BY <1>7 DEF Kill
  <1>8. CASE Tick
    BY <1>8 DEF Tick
  <1>9. CASE UNCHANGED vars
    BY <1>9 DEF vars
  <1> QED
    BY <1>1, <1>2, <1>3, <1>4, <1>5, <1>6, <1>7, <1>8, <1>9 DEF Next, Step

-----------------------------------------------------------------------------
(* The facts that hold until a race.                                       *)

\* The heart of the argument: a write that hits the lease its writer knows
\* finds no other cycle at work and no other loop, but overtaken ones.
LEMMA WriterIsAlone ==
    ASSUME TypeOK, Always, Unraced, NEW c \in Cycle, BeginWrite(c), ~ raced',
           NEW d \in Cycle, d # c
    PROVE  /\ pc[d] \notin Writing \cup {"claimed", "spawned", "looping"}
           /\ pc[d] = "analysing" => d \in overtaken'
           /\ d \in loops => d \in overtaken'
  <1> USE RunLeaseAssumption
  <1>1. file = seen[c] /\ file.kind # "torn" /\ overtaken \subseteq overtaken'
    BY BeginWriteEffect
  <1>2. CASE pc[c] = "checked"
    <2>1. file.active => /\ file.sup = d => pc[d] \notin {"claimed"} \cup Looping
                         /\ c \notin Recovery => ~ Conflicts(file)
      BY <1>1, <1>2 DEF Always, CheckStands
    <2>2. pc[d] \notin Writing
      BY <1>1, LeaseValues DEF Unraced, OneWriter
    <2>3. pc[d] \notin {"claimed", "spawned", "looping"}
      <3> SUFFICES ASSUME pc[d] \in {"claimed", "spawned", "looping"} PROVE FALSE
        OBVIOUS
      <3>1. file \in {Held(d, Nobody), Held(d, d)}
        BY DEF Unraced, FileIsOwn, Always, KnowsOwn
      <3> QED
        BY <2>1, <3>1, HeldValues DEF Looping
    <2>4. pc[d] = "analysing" => d \in overtaken'
      <3> SUFFICES ASSUME pc[d] = "analysing", d \notin overtaken PROVE d \in overtaken'
        BY <1>1
      <3>1. file = Held(d, Nobody)
        BY DEF Unraced, FileIsOwn, Always, KnowsOwn
      <3>2. Live(d) /\ file.active /\ file.sup = d
        BY <3>1, HeldValues DEF Live, Over
      <3>3. c \in Recovery /\ Holds(d, file)
        BY <2>1, <3>2 DEF Conflicts, Holds
      <3> QED
        BY <3>3, BeginWriteEffect
    <2>5. d \in loops => d \in overtaken'
      <3> SUFFICES ASSUME d \in loops, d \notin overtaken PROVE d \in overtaken'
        BY <1>1
      <3>1. pc[d] = "dead"
        BY <2>2, <2>3 DEF Always, LoopHasCycle, Looping, Writing
      <3>2. file.active /\ file.loop = d
        BY <3>1 DEF Unraced, OrphanNamed
      <3>3. c \in Recovery /\ Holds(d, file)
        BY <2>1, <3>2 DEF Conflicts, Holds
      <3> QED
        BY <3>3, BeginWriteEffect
    <2> QED
      BY <2>2, <2>3, <2>4, <2>5
  <1>3. CASE pc[c] # "checked"
    <2>1. file \in {Held(c, Nobody), Held(c, c)}
      BY <1>1, <1>3, BeginWriteEffect DEF Always, KnowsOwn
    <2>2. file.kind = "whole" /\ file.sup = c /\ file.loop \in {c, Nobody}
      BY <2>1, HeldValues
    <2>3. pc[d] \notin Writing
      BY <2>2, LeaseValues DEF Unraced, OneWriter
    <2>4. pc[d] \notin {"claimed", "spawned", "looping"}
      BY <2>2, HeldValues DEF Unraced, FileIsOwn, Always, KnowsOwn
    <2>5. pc[d] = "analysing" => d \in overtaken
      BY <2>2, HeldValues DEF Unraced, FileIsOwn, Always, KnowsOwn
    <2>6. d \in loops => d \in overtaken
      <3> SUFFICES ASSUME d \in loops, d \notin overtaken PROVE FALSE
        OBVIOUS
      <3>1. pc[d] = "dead"
        BY <2>3, <2>4 DEF Always, LoopHasCycle, Looping, Writing
      <3> QED
        BY <3>1, <2>2 DEF Unraced, OrphanNamed
    <2> QED
      BY <1>1, <2>3, <2>4, <2>5, <2>6
  <1> QED
    BY <1>2, <1>3

LEMMA UnracedStep ==
    TypeOK /\ Always /\ Unraced /\ [Next]_vars /\ ~ raced' => Unraced'
  <1> SUFFICES ASSUME TypeOK, Always, Unraced, [Next]_vars, ~ raced' PROVE Unraced'
    OBVIOUS
  <1> USE DEF TypeOK, Unraced, OneWriter, FileIsOwn, OrphanNamed, RecoveryKeepsOff,
              Looping, Over, Writing, Goto
  <1>1. ASSUME NEW c \in Cycle, Check(c) PROVE Unraced'
    BY <1>1 DEF Check
  <1>2. ASSUME NEW c \in Cycle, Recover(c) PROVE Unraced'
    BY <1>2 DEF Recover
  <1>3. ASSUME NEW c \in Cycle, SpawnLoop(c) PROVE Unraced'
    BY <1>3 DEF SpawnLoop
  <1>4. ASSUME NEW c \in Cycle, BeginWrite(c) PROVE Unraced'
    <2>1. \A d \in Cycle \ {c} :
            /\ pc'[d] \notin Writing \cup {"claimed", "spawned", "looping"}
            /\ pc'[d] = "analysing" => d \in overtaken'
            /\ d \in loops' => d \in overtaken'
      <3> SUFFICES ASSUME NEW d \in Cycle, d # c
                   PROVE  /\ pc'[d] \notin Writing \cup {"claimed", "spawned", "looping"}
                          /\ pc'[d] = "analysing" => d \in overtaken'
                          /\ d \in loops' => d \in overtaken'
        OBVIOUS
      <3>1. /\ pc[d] \notin Writing \cup {"claimed", "spawned", "looping"}
            /\ pc[d] = "analysing" => d \in overtaken'
            /\ d \in loops => d \in overtaken'
        BY <1>4, WriterIsAlone
      <3>2. pc'[d] = pc[d] /\ loops' = loops
        BY <1>4, BeginWriteEffect
      <3> QED
        BY <3>1, <3>2
    <2>2. pc'[c] \in Writing /\ file' = Torn
      BY <1>4, BeginWriteEffect
    <2>3. OneWriter' /\ FileIsOwn'
      BY <2>1, <2>2
    <2>4. OrphanNamed'
      BY <1>4, <2>1, <2>2 DEF BeginWrite
    <2>5. c \in overtaken' => pc'[c] \notin {"claimed"} \cup Looping
      BY <1>4, BeginWriteEffect
    <2>6. RecoveryKeepsOff'
      <3>1. overtaken' \subseteq Cycle
        BY <1>4 DEF BeginWrite
      <3> QED
        BY <2>1, <2>5, <3>1
    <2> QED
      BY <2>3, <2>4, <2>6
  <1>5. ASSUME NEW c \in Cycle, EndWrite(c) PROVE Unraced'
    <2>1. file = Torn /\ \A d \in Cycle \ {c} : pc[d] \notin Writing
      BY <1>5, EndWriteEffect
    <2>2. \A d \in Cycle \ {c} :
            /\ pc[d] \notin {"claimed", "spawned", "looping"}
            /\ pc[d] = "analysing" => d \in overtaken
      BY <2>1, LeaseValues, HeldValues, RunLeaseAssumption DEF Always, KnowsOwn
    <2>3. \A d \in loops \ overtaken : pc[d] # "dead"
      BY <2>1, LeaseValues
    <2>4. file' = seen'[c] /\ pc'[c] \in {"claimed", "looping", "analysing", "done"}
      BY <1>5, <2>1, EndWriteEffect
    <2>5. OneWriter' /\ FileIsOwn' /\ OrphanNamed'
      BY <1>5, <2>1, <2>2, <2>3, <2>4, EndWriteEffect
    <2>6. c \in overtaken => pc[c] \in {"analyse", "complete"}
      BY <1>5, EndWriteEffect DEF Always, NamesWriters
    <2>7. RecoveryKeepsOff'
      BY <1>5, <2>6, EndWriteEffect
    <2> QED
      BY <2>5, <2>7
  <1>6. ASSUME NEW c \in Cycle, LoopEnds(c) PROVE Unraced'
    BY <1>6 DEF LoopEnds
  <1>7. ASSUME NEW c \in Cycle, Kill(c) PROVE Unraced'
    BY <1>7 DEF Kill, Live
  <1>8. CASE Tick
    BY <1>8 DEF Tick
  <1>9. CASE UNCHANGED vars
    BY <1>9 DEF vars
  <1> QED
    BY <1>1, <1>2, <1>3, <1>4, <1>5, <1>6, <1>7, <1>8, <1>9 DEF Next, Step

-----------------------------------------------------------------------------
(* The theorems.                                                           *)

LEMMA InvInit == Init => IInv
  BY TypeInit, LeaseValues, RunLeaseAssumption
  DEF Init, IInv, Always, NamesWriters, Names, FollowedIsFresh, LoopHasCycle,
      KnowsOwn, CheckStands, Unraced, OneWriter, FileIsOwn, OrphanNamed,
      RecoveryKeepsOff, Looping, Writing

\* A race is never forgotten.
LEMMA RacedStays == TypeOK /\ [Next]_vars /\ raced => raced'
  BY DEF TypeOK, Next, Step, Check, Recover, SpawnLoop, BeginWrite, EndWrite,
         LoopEnds, Kill, Tick, vars

LEMMA InvStep == IInv /\ [Next]_vars => IInv'
  <1> SUFFICES ASSUME IInv, [Next]_vars PROVE IInv'
    OBVIOUS
  <1>1. TypeOK'
    BY TypeStep DEF IInv
  <1>2. Always'
    BY NamesStep, PhaseStep, CheckStep DEF IInv, Always
  <1>3. ~ raced' => Unraced'
    BY UnracedStep, RacedStays DEF IInv
  <1> QED
    BY <1>1, <1>2, <1>3 DEF IInv

LEMMA InvAlways == Spec => []IInv
  BY InvInit, InvStep, PTL DEF Spec

\* As long as no write hits a lease its writer does not know, two cycles are at
\* work on one workspace only if a recovery pass overtook one of them
\* (_lease_conflicts, _update_lease).
THEOREM CycleExclusion == Spec => []OneCycle
  <1>1. IInv => OneCycle
    <2> SUFFICES ASSUME IInv, ~ raced,
                        NEW c \in Cycle \ overtaken, AtWork(c),
                        NEW d \in Cycle \ overtaken, AtWork(d)
                 PROVE  c = d
      BY DEF OneCycle
    <2> DEFINE Idle(e) == pc[e] \in {"claimed", "spawned", "looping", "analysing"}
    <2>1. \A e \in {c, d} : pc[e] \in Writing \/ Idle(e)
      BY DEF IInv, TypeOK, AtWork, Phase, Over, Writing, Looping
    <2>2. \A e \in {c, d} : Idle(e) => file.kind = "whole" /\ file.sup = e
      BY HeldValues, RunLeaseAssumption
      DEF IInv, Unraced, FileIsOwn, Always, KnowsOwn
    <2>3. \A e \in {c, d} : pc[e] \in Writing => file.kind = "torn"
      BY LeaseValues DEF IInv, Unraced, OneWriter
    <2>4. pc[c] \in Writing /\ pc[d] \in Writing => c = d
      BY DEF IInv, Unraced, OneWriter
    <2> QED
      BY <2>1, <2>2, <2>3, <2>4
  <1> QED
    BY <1>1, InvAlways, PTL

\* Under the same proviso one loop edits the workspace, the orphaned loops of
\* killed cycles included, but for those a recovery pass erased from the lease.
THEOREM LoopExclusion == Spec => []OneLoop
  <1>1. IInv => OneLoop
    <2> SUFFICES ASSUME IInv, ~ raced,
                        NEW c \in loops \ overtaken, NEW d \in loops \ overtaken
                 PROVE  c = d
      BY DEF OneLoop
    <2>1. \A e \in {c, d} : e \in Cycle /\ (pc[e] = "dead" \/ pc[e] \in Looping)
      BY DEF IInv, TypeOK, Always, LoopHasCycle
    <2>2. \A e \in {c, d} : pc[e] = "dead" => file.active /\ file.loop = e
      BY DEF IInv, Unraced, OrphanNamed
    <2>3. \A e \in {c, d} : pc[e] \in {"spawned", "looping"} =>
             file.kind = "whole" /\ file.sup = e /\ file.loop \in {e, Nobody}
      BY <2>1, HeldValues, RunLeaseAssumption
      DEF IInv, Unraced, FileIsOwn, Always, KnowsOwn
    <2>4. \A e \in {c, d} : pc[e] \in {"record", "beat"} =>
             file = Torn /\ \A f \in {c, d} : pc[f] \in {"record", "beat"} => e = f
      BY <2>1 DEF IInv, Unraced, OneWriter, Writing
    <2>5. file = Torn => ~ file.active /\ file.kind = "torn"
      BY LeaseValues
    <2> QED
      BY <2>1, <2>2, <2>3, <2>4, <2>5, RunLeaseAssumption DEF Looping
  <1> QED
    BY <1>1, InvAlways, PTL

\* Under the same proviso a recovery pass, which checks nothing itself, overtakes
\* no cycle that is about to start a loop or follows one (_is_running_signal).
THEOREM RecoveryStaysOff == Spec => []RecoveryKeepsOff
  <1>1. IInv => RecoveryKeepsOff
    BY DEF IInv, Unraced, RecoveryKeepsOff
  <1> QED
    BY <1>1, InvAlways, PTL

\* Under the same proviso no loop runs behind an inactive lease, but those a
\* recovery pass erased (_is_running_signal).
THEOREM InactiveLease == Spec => []InactiveIsAuthoritative
  <1>1. IInv => InactiveIsAuthoritative
    <2> SUFFICES ASSUME IInv, ~ raced, file.kind = "whole", ~ file.active
                 PROVE  /\ loops \subseteq overtaken
                        /\ \A c \in Cycle : pc[c] \notin {"claimed"} \cup Looping
      BY DEF InactiveIsAuthoritative
    <2>1. \A c \in Cycle : pc[c] \notin {"claimed", "spawned", "looping"}
      BY HeldValues, RunLeaseAssumption
      DEF IInv, Unraced, FileIsOwn, Always, KnowsOwn
    <2>2. \A c \in Cycle : pc[c] \notin Writing
      BY LeaseValues DEF IInv, Unraced, OneWriter
    <2>3. \A c \in loops \ overtaken : pc[c] # "dead"
      BY DEF IInv, Unraced, OrphanNamed
    <2> QED
      BY <2>1, <2>2, <2>3 DEF IInv, TypeOK, Always, LoopHasCycle, Looping, Writing
  <1> QED
    BY <1>1, InvAlways, PTL

\* The lease can be believed by a recovery pass, and when it is inactive.
THEOREM LeaseIsBelieved == Spec => []LeaseBelieved
  BY RecoveryStaysOff, InactiveLease, PTL DEF LeaseBelieved

-----------------------------------------------------------------------------
(* HistoricalRoutes.  A cycle whose routes no other cycle has written to   *)
(* since it began finds them as it left them: what can change them is a    *)
(* cycle that begins, and that is what disturbed tells.                    *)

\* What has been published has a newest, which is what Newest chooses.
Ordered ==
    archive # {} =>
        \E a \in archive : \A b \in archive :
            b.at < a.at \/ (b.at = a.at /\ (b.kind = a.kind \/ a.kind = "proof"))

\* How far a cycle has come with its routes and with its lease.
Stepwise ==
    \A c \in Cycle :
        /\ pc[c] \in Over => stage[c] = "start"
        /\ pc[c] \notin {"new"} \cup Over /\ ~ Starting(c) => stage[c] = "ready"
        /\ stage[c] = "start" => seeded[c] = "none" /\ c \notin planless
        /\ stage[c] \in {"cleared", "noted"} => archive # {} /\ Seeds(c)
        /\ stage[c] = "cleared" => seeded[c] = "none"
        /\ stage[c] = "noted" => seeded[c] # "none"
        /\ seeded[c] # "none" => Seeds(c)

\* The workspace holds the routes of a cycle as far as it has come with them.
Undisturbed ==
    \A c \in Cycle \ disturbed :
        /\ stage[c] = "cleared" => summary = "none" /\ notes = {}
        /\ stage[c] = "noted" => summary = "none" /\ notes = {seeded[c]}
        /\ stage[c] = "ready" => summary = seeded[c] /\ notes = {seeded[c]} \ {"none"}
        /\ c \in planless => seeded[c] # "none"

HInv == HTypeOK /\ Ordered /\ Stepwise /\ Undisturbed

(* A step of the routes is a step of the run lease, or leaves it alone.    *)
LEMMA RoutesAside == HNext => [Next]_vars
BY DEF HNext, Seed, Clear, SeedNote, Summarize, Seeding, LeaseStep, CheckLease, Begin, End,
       Synthesize, Publish, Next, Step, vars

(* Whatever cycles seed, the run lease keeps its rules: what is proved of  *)
(* it holds here, too.                                                     *)
THEOREM RoutesKeepLease == HSpec => Spec
<1>1. HInit => Init
  BY DEF HInit
<1>2. [HNext]_all => [Next]_vars
  BY RoutesAside DEF all
<1> QED BY <1>1, <1>2, PTL DEF HSpec, Spec

(* A step of a cycle with the lease moves no other cycle, does not revive  *)
(* it, and needs the routes to be ready to go beyond the look at the lease. *)
LEMMA LeaseMoves ==
  ASSUME TypeOK, NEW c \in Cycle, LeaseStep(c)
  PROVE  /\ \A d \in Cycle : d # c => pc'[d] = pc[d]
         /\ pc[c] \in Over => pc'[c] = pc[c]
         /\ \/ pc'[c] = pc[c] \/ pc'[c] \in Over \/ stage[c] = "ready" \/ ~ Starting(c)
            \/ c \in Recovery /\ pc'[c] = "checked"
         /\ pc[c] = "new" => \/ pc'[c] = pc[c] \/ pc'[c] \in Over \/ stage[c] = "ready"
                             \/ c \in Recovery /\ pc'[c] = "checked"
         /\ pc'[c] = "new" => pc[c] = "new"
<1> USE RunLeaseAssumption DEF TypeOK, Goto, Over, Writing, Looping, Phase, Starting
<1>1. CASE CheckLease(c)
  BY <1>1 DEF CheckLease, Check
<1>2. CASE Begin(c)
  BY <1>2 DEF Begin, BeginWrite, Due
<1>3. CASE End(c)
  BY <1>3 DEF End, EndWrite, After
<1>4. CASE Recover(c)
  BY <1>4 DEF Recover
<1>5. CASE SpawnLoop(c)
  BY <1>5 DEF SpawnLoop
<1>6. CASE LoopEnds(c)
  BY <1>6 DEF LoopEnds
<1>7. CASE Kill(c)
  BY <1>7 DEF Kill, Live
<1> QED BY <1>1, <1>2, <1>3, <1>4, <1>5, <1>6, <1>7 DEF LeaseStep

(* What a step of a cycle with the lease makes of the routes.              *)
LEMMA LeaseRemembers ==
  ASSUME NEW c \in Cycle, LeaseStep(c)
  PROVE  \E cycles \in {planless, planless \cup {c}} :
            Remember(cycles) /\ (c \in cycles \ planless => stage[c] = "ready" /\ RouteKnown)
BY DEF LeaseStep, CheckLease, Begin, End, Aside

(* The routes keep their types.                                            *)
LEMMA RoutesTyped == HInv /\ [HNext]_all => HTypeOK'
<1> SUFFICES ASSUME HInv, [HNext]_all PROVE HTypeOK'
  OBVIOUS
<1> USE RunLeaseAssumption, HistoricalRoutesAssumption DEF HInv, HTypeOK, Kinds, Stages
<1>1. TypeOK'
  BY RoutesAside, TypeStep DEF all
<1>2. archive # {} => Newest \in archive /\ Newest.kind \in {"proof", "blocker"}
  BY DEF Ordered, Newest
<1>3. ASSUME NEW c \in Cycle, Clear(c) PROVE HTypeOK'
  BY <1>1, <1>3 DEF Clear, Seeding
<1>4. ASSUME NEW c \in Cycle, SeedNote(c) PROVE HTypeOK'
  <2>1. archive # {}
    BY <1>4 DEF SeedNote, Seeding, Stepwise
  <2> QED BY <1>1, <1>2, <1>4, <2>1 DEF SeedNote, Seeding
<1>5. ASSUME NEW c \in Cycle, Summarize(c) PROVE HTypeOK'
  BY <1>1, <1>5 DEF Summarize, Seeding
<1>6. ASSUME NEW cycles \in SUBSET Cycle, Remember(cycles) PROVE HTypeOK'
  BY <1>1, <1>6 DEF Remember, routes
<1>7. ASSUME NEW c \in Cycle, LeaseStep(c) PROVE HTypeOK'
  <2>1. PICK cycles \in {planless, planless \cup {c}} : Remember(cycles)
    BY <1>7, LeaseRemembers
  <2>2. cycles \in SUBSET Cycle
    OBVIOUS
  <2> QED BY <1>6, <2>1, <2>2
<1>8. ASSUME NEW c \in Cycle, Synthesize(c) PROVE HTypeOK'
  BY <1>1, <1>8 DEF Synthesize, routes, process
<1>9. ASSUME NEW a \in Artifact, Publish(a) PROVE HTypeOK'
  BY <1>1, <1>9 DEF Publish, routes, process
<1>10. CASE Tick /\ Aside
  BY <1>6, <1>10 DEF Aside
<1>11. CASE UNCHANGED all
  BY <1>1, <1>11 DEF all, routes, process
<1> QED BY <1>3, <1>4, <1>5, <1>7, <1>8, <1>9, <1>10, <1>11 DEF HNext, Seed

(* What is published later is newer.                                       *)
LEMMA OrderKept == HInv /\ [HNext]_all => Ordered'
<1> SUFFICES ASSUME HInv, [HNext]_all PROVE Ordered'
  OBVIOUS
<1>1. ASSUME NEW a \in Artifact, Publish(a) PROVE Ordered'
  <2>1. archive' = archive \cup {a} /\ \A b \in archive' : b.at \in Nat
    BY <1>1, HistoricalRoutesAssumption DEF Publish, HInv, HTypeOK
  <2>2. ASSUME NEW b \in archive PROVE b.at < a.at
    <3>1. /\ Newest \in archive
          /\ b.at < Newest.at \/ b.at = Newest.at
      BY DEF HInv, Ordered, Newest
    <3>2. a.at > Newest.at
      BY <1>1 DEF Publish
    <3> QED BY <2>1, <3>1, <3>2
  <2> QED BY <2>1, <2>2 DEF Ordered
<1>2. UNCHANGED archive => Ordered'
  BY DEF HInv, Ordered
<1> QED BY <1>1, <1>2, LeaseRemembers
        DEF HNext, Seed, Clear, SeedNote, Summarize, Seeding, Synthesize, Aside, Remember,
            all, process

(* What a process had in mind goes with it, and no sooner.                 *)
LEMMA RememberKeeps ==
  ASSUME HInv, NEW cycles \in SUBSET Cycle, Remember(cycles),
         \A c \in Cycle : pc'[c] = pc[c] \/ pc'[c] \in Over \/ stage[c] = "ready"
                          \/ (c \in Recovery /\ pc'[c] = "checked"),
         \A c \in Cycle : pc[c] \in Over => pc'[c] = pc[c],
         \A c \in cycles \ planless : stage[c] = "ready" /\ RouteKnown
  PROVE  Stepwise' /\ Undisturbed'
<1> USE DEF HInv, Remember, routes
<1>1. Stepwise'
  <2> SUFFICES ASSUME NEW c \in Cycle
      PROVE  (/\ pc[c] \in Over => stage[c] = "start"
              /\ pc[c] \notin {"new"} \cup Over /\ ~ Starting(c) => stage[c] = "ready"
              /\ stage[c] = "start" => seeded[c] = "none" /\ c \notin planless
              /\ stage[c] \in {"cleared", "noted"} => archive # {} /\ Seeds(c)
              /\ stage[c] = "cleared" => seeded[c] = "none"
              /\ stage[c] = "noted" => seeded[c] # "none"
              /\ seeded[c] # "none" => Seeds(c))'
    BY DEF Stepwise
  <2>1. CASE pc'[c] \in Over
    BY <2>1 DEF Seeds
  <2>2. CASE pc'[c] \notin Over
    BY <2>2 DEF Stepwise, Starting, Seeds
  <2> QED BY <2>1, <2>2
<1>2. Undisturbed'
  <2> SUFFICES ASSUME NEW c \in Cycle, c \notin disturbed'
      PROVE  (/\ stage[c] = "cleared" => summary = "none" /\ notes = {}
              /\ stage[c] = "noted" => summary = "none" /\ notes = {seeded[c]}
              /\ stage[c] = "ready" => summary = seeded[c] /\ notes = {seeded[c]} \ {"none"}
              /\ c \in planless => seeded[c] # "none")'
    BY DEF Undisturbed
  <2>1. CASE pc'[c] \in Over
    BY <2>1
  <2>2. CASE pc'[c] \notin Over
    BY <2>2 DEF Undisturbed, RouteKnown
  <2> QED BY <2>1, <2>2
<1> QED BY <1>1, <1>2

(* A cycle that seeds leaves the routes as it means to, and disturbs every *)
(* cycle that had begun.                                                   *)
LEMMA SeedKeeps ==
  ASSUME HInv, NEW c \in Cycle, Seed(c)
  PROVE  Stepwise' /\ Undisturbed'
<1> USE DEF HInv, HTypeOK
<1>1. /\ UNCHANGED <<pc, archive, planless>> /\ Starting(c) /\ pc[c] \notin Over
      /\ disturbed' = disturbed \cup {d \in Cycle \ {c} : Begun(d)}
      /\ \A d \in Cycle : d # c => stage'[d] = stage[d] /\ seeded'[d] = seeded[d]
  BY DEF Seed, Clear, SeedNote, Summarize, Seeding, Starting, Over, vars
<1>2. \/ /\ stage[c] = "start" /\ seeded'[c] = "none" /\ summary' = "none" /\ notes' = {}
         /\ stage'[c] = "ready" \/ (stage'[c] = "cleared" /\ Seeds(c) /\ archive # {})
      \/ /\ stage[c] = "cleared" /\ stage'[c] = "noted"
         /\ seeded'[c] \in {"proof", "blocker"}
         /\ summary' = summary /\ notes' = notes \cup {seeded'[c]}
      \/ /\ stage[c] = "noted" /\ stage'[c] = "ready"
         /\ seeded'[c] = seeded[c] /\ summary' = seeded[c] /\ notes' = notes
  <2>1. CASE Clear(c)
    BY <2>1 DEF Clear, Seeding, Stepwise
  <2>2. CASE SeedNote(c)
    <3>1. Newest \in archive
      BY <2>2 DEF SeedNote, Seeding, Stepwise, Ordered, Newest
    <3>2. Newest.kind \in {"proof", "blocker"}
      BY <3>1, HistoricalRoutesAssumption
    <3> QED BY <2>2, <3>2 DEF SeedNote, Seeding
  <2>3. CASE Summarize(c)
    BY <2>3 DEF Summarize, Seeding
  <2> QED BY <2>1, <2>2, <2>3 DEF Seed
<1>3. Stepwise'
  BY <1>1, <1>2 DEF Stepwise, Starting, Seeds
<1>4. Undisturbed'
  <2> SUFFICES ASSUME NEW d \in Cycle, d \notin disturbed'
      PROVE  (/\ stage[d] = "cleared" => summary = "none" /\ notes = {}
              /\ stage[d] = "noted" => summary = "none" /\ notes = {seeded[d]}
              /\ stage[d] = "ready" => summary = seeded[d] /\ notes = {seeded[d]} \ {"none"}
              /\ d \in planless => seeded[d] # "none")'
    BY DEF Undisturbed
  <2>1. CASE d = c
    BY <2>1, <1>1, <1>2 DEF Undisturbed, Stepwise
  <2>2. CASE d # c
    <3>1. stage[d] = "start"
      BY <2>2, <1>1 DEF Begun, Stepwise
    <3> QED BY <2>2, <3>1, <1>1 DEF Stepwise
  <2> QED BY <2>1, <2>2
<1> QED BY <1>3, <1>4

(* The routes and their cycles stay in step.                               *)
LEMMA StepwiseKept == HInv /\ [HNext]_all => Stepwise' /\ Undisturbed'
<1> SUFFICES ASSUME HInv, [HNext]_all PROVE Stepwise' /\ Undisturbed'
  OBVIOUS
<1>1. ASSUME NEW c \in Cycle, LeaseStep(c) PROVE Stepwise' /\ Undisturbed'
  <2>1. PICK cycles \in {planless, planless \cup {c}} :
          Remember(cycles) /\ (c \in cycles \ planless => stage[c] = "ready" /\ RouteKnown)
    BY <1>1, LeaseRemembers
  <2>2. cycles \in SUBSET Cycle
    BY DEF HInv, HTypeOK
  <2>3. \A d \in cycles \ planless : stage[d] = "ready" /\ RouteKnown
    BY <2>1
  <2>4. \A d \in Cycle : /\ pc[d] \in Over => pc'[d] = pc[d]
                         /\ \/ pc'[d] = pc[d] \/ pc'[d] \in Over \/ stage[d] = "ready"
                            \/ d \in Recovery /\ pc'[d] = "checked"
    BY <1>1, LeaseMoves DEF HInv, HTypeOK, Stepwise
  <2> QED BY <2>1, <2>2, <2>3, <2>4, RememberKeeps
<1>2. CASE Tick /\ Aside
  BY <1>2, RememberKeeps DEF Tick, Aside, HInv, HTypeOK
<1>3. ASSUME NEW c \in Cycle, Synthesize(c) PROVE Stepwise' /\ Undisturbed'
  BY <1>3 DEF HInv, Synthesize, routes, process, vars, Stepwise, Undisturbed, Starting, Seeds
<1>4. ASSUME NEW a \in Artifact, Publish(a) PROVE Stepwise' /\ Undisturbed'
  BY <1>4 DEF HInv, Publish, routes, process, vars, Stepwise, Undisturbed, Starting, Seeds
<1>5. CASE UNCHANGED all
  BY <1>5 DEF HInv, all, routes, process, vars, Stepwise, Undisturbed, Starting, Seeds
<1> QED BY <1>1, <1>2, <1>3, <1>4, <1>5, SeedKeeps DEF HNext

(* A cycle that is at work has the routes it reports to have seeded and no *)
(* others, and skips its first plan for none but these, unless another     *)
(* cycle was started meanwhile: for any cycles, and whatever is published. *)
THEOREM RoutesCorrect == HSpec => []RoutesInv
<1>1. HInit => HInv
  <2> SUFFICES ASSUME HInit PROVE HInv
    OBVIOUS
  <2>1. HTypeOK
    BY TypeInit DEF HInit, HTypeOK, Kinds, Stages
  <2>2. Ordered /\ Stepwise /\ Undisturbed
    BY DEF HInit, Init, Ordered, Stepwise, Undisturbed, Over, Starting
  <2> QED BY <2>1, <2>2 DEF HInv
<1>2. HInv /\ [HNext]_all => HInv'
  BY RoutesTyped, OrderKept, StepwiseKept DEF HInv
<1>3. HInv => RoutesInv
  <2> SUFFICES ASSUME HInv, NEW c \in Cycle \ disturbed
               PROVE  /\ AtWork(c) => summary = seeded[c] /\ notes = {seeded[c]} \ {"none"}
                      /\ c \in planless => seeded[c] # "none"
                      /\ seeded[c] # "none" => c \in Preload \ Recovery
    BY DEF HInv, RoutesInv, RoutesAsReported
  <2>1. AtWork(c) => stage[c] = "ready"
    BY DEF AtWork, HInv, Stepwise, Starting
  <2> QED BY <2>1 DEF HInv, Undisturbed, Stepwise, Seeds
<1> QED BY <1>1, <1>2, <1>3, PTL DEF HSpec

=============================================================================
