------------------------ MODULE CampaignLaunch_proofs ------------------------
(***************************************************************************)
(* Proofs about the launches of a campaign, for any number of them and of  *)
(* source files: what is on disk is what the manifest has, a manifest is   *)
(* not replaced, who declared the owner mode is on record, the pid file    *)
(* names the watchdog, and what is watched is what was contracted.         *)
(*                                                                         *)
(* The runs are safe because run 1 is made first: the launch that has made *)
(* it is the only one that can go on, and whoever else tries is stopped    *)
(* there.  The owner mode is, because as long as a declaration stands      *)
(* whoever is about to write the file is about to write just that.         *)
(*                                                                         *)
(* The last part is about the caches that the runs are created with: what  *)
(* is proved of WarmCaches is proved of an instance of it.                 *)
(***************************************************************************)
EXTENDS CampaignLaunch, WarmCaches, FiniteSetTheorems, TLAPS

USE DEF disk, owner, history, vars, Ids, Runs, Specs, Ended, Places, Goto, Forget

\* No file is in two runs, and unless there are none there is a first.
WellPlanned(runs) ==
    /\ \A q, r \in runs : q # r => q.id # r.id /\ q.files \cap r.files = {}
    /\ runs # {} => \E r \in runs : r.id = 1

Plans ==
    /\ WellPlanned(planFile.runs) /\ WellPlanned(manifest.runs)
    /\ \A l \in Launch : WellPlanned(plan[l])

\* The run is on disk as it was planned.
OnDisk(r) == runDir[r.id] = "made" /\ config[r.id] = r.files

Progress ==
    /\ \A r \in manifest.runs : OnDisk(r)
    /\ \A l \in Launch : \A r \in plan[l] : r.id < next[l] => OnDisk(r)
    /\ \A l \in Launch :
          pc[l] \in {"idle", "resolved", "create", "scaffold", "surfaces"} => next[l] = 1

Making(l) == pc[l] = "run" \/ (pc[l] = "runs" /\ next[l] > 1)

\* There is one launch at most that makes runs, and it is the first to.
Makers ==
    /\ \A l, k \in Launch : Making(l) /\ Making(k) => l = k
    /\ \A l \in Launch : Making(l) => runDir[1] # "absent" /\ manifest.runs = {}
    /\ \A l \in Launch : pc[l] = "run" => runDir[next[l]] = "begun"

NoneKilled == \A l \in Launch : pc[l] # "killed"

\* A declaration that stands is what everybody writes, and what the file has
\* unless somebody has it torn.
Owned ==
    declared # "none" =>
        /\ \A p \in Actors : AtRest(p) \/ held[p].mode = declared
        /\ ownerMode \in {"none", declared}
        /\ (\A p \in Actors : held[p].step # "torn") => ownerMode = declared

\* The owner's part of the type.
OwnerTyped ==
    /\ ownerMode \in OwnerModes \cup {"none"} /\ declared \in OwnerModes \cup {"none"}
    /\ held \in [Actors -> {NotWriting} \cup [step : {"read", "torn"}, mode : OwnerModes]]

\* As long as launches come one by one there is one watchdog at most, in the
\* pid file or about to be noted there.
Watched ==
    ~ overlapped /\ NoneKilled =>
        /\ \A l, k \in Running : l = k
        /\ \A l \in LiveWatchdogs : pc[l] = "poll" \/ pidFile = l
        /\ \A l \in Launch : pc[l] = "poll" => LiveWatchdogs \subseteq {l}

\* The runs are those of the spec, or of an earlier one, but then there are some.
Targeted(s, runs) == runs = {} => Planned(s) = {}

\* As long as the spec is not edited, all that is done is done with it.
Contracted ==
    ~ edited =>
        /\ manifest.written => Targeted(spec, manifest.runs) /\ manifest.preload = spec.preload
        /\ \A l \in Launch :
              /\ pc[l] \in {"resolved", "create", "scaffold", "surfaces", "runs", "run",
                            "status", "control", "resolve"}
                    => loaded[l] = spec /\ Targeted(spec, plan[l])
              /\ pc[l] \in {"status", "control", "resolve", "validate", "spawn", "poll"}
                    => manifest.written
              /\ pc[l] \in {"validate", "spawn", "poll"} => resolved = spec
              /\ pc[l] \in {"spawn", "poll"} \/ watchdog[l] # "none"
                    => manifest.written /\ ContractErrors(spec) = {}

IInv == TypeOK /\ Plans /\ Progress /\ Makers /\ Owned /\ Watched /\ Contracted

-----------------------------------------------------------------------------
(* What plan_campaign_shards makes of a spec.                              *)

(* What a regex matches is a finite list, and a file has its place there.  *)
LEMMA MatchFinite ==
  ASSUME NEW s \in Specs
  PROVE  /\ IsFiniteSet(s.match) /\ Cardinality(s.match) \in Nat
         /\ \A f \in s.match : Index(s, f) \in Nat
<1>1. IsFiniteSet(Files)
  BY FS_Interval, CampaignLaunchAssumption DEF Files
<1>2. \A m \in SUBSET Files : IsFiniteSet(m) /\ Cardinality(m) \in Nat
  BY <1>1, FS_Subset, FS_CardinalityType
<1>3. s.match \in SUBSET Files /\ \A f \in s.match : {g \in s.match : g < f} \in SUBSET Files
  OBVIOUS
<1> QED BY <1>2, <1>3 DEF Index

(* The runs that are planned have each an id of their own and files of     *)
(* their own, and if there are any there is a first.                       *)
LEMMA PlannedWell ==
  ASSUME NEW s \in Specs
  PROVE  Planned(s) \subseteq Runs /\ WellPlanned(Planned(s))
<1>1. Planned(s) \subseteq Runs
  BY DEF Planned, Shards, Shard, Files
<1>2. \A k, j \in Shards(s) : k # j => Shard(s, k) \cap Shard(s, j) = {}
  <2>1. ASSUME NEW k \in Shards(s), NEW j \in Shards(s), k < j,
               NEW f \in Shard(s, k) \cap Shard(s, j)
        PROVE  FALSE
    <3>1. /\ k \in Nat /\ j \in Nat /\ k <= j - 1 /\ s.size \in Nat /\ s.size > 0
          /\ Index(s, f) \in Nat
      BY <2>1, MatchFinite, CampaignLaunchAssumption DEF Shards, Shard
    <3>2. Index(s, f) < k * s.size /\ (j - 1) * s.size <= Index(s, f)
      BY DEF Shard
    <3> HIDE DEF Index
    <3>3. \A a, b, c \in Nat : a <= b => a * c <= b * c
      OBVIOUS
    <3>4. k * s.size <= (j - 1) * s.size
      BY <3>1, <3>3
    <3>5. k * s.size \in Nat /\ (j - 1) * s.size \in Nat
      BY <3>1
    <3> QED BY <3>1, <3>2, <3>4, <3>5
  <2>2. \A k, j \in Shards(s) : k # j => k < j \/ j < k
    BY CampaignLaunchAssumption DEF Shards
  <2> QED BY <2>1, <2>2
<1>3. \A q, r \in Planned(s) : q # r => q.id # r.id /\ q.files \cap r.files = {}
  BY <1>2 DEF Planned
<1>4. Planned(s) # {} => \E r \in Planned(s) : r.id = 1
  <2> SUFFICES ASSUME NEW k \in Shards(s) PROVE \E r \in Planned(s) : r.id = 1
    BY DEF Planned
  <2>1. k \in Nat /\ k >= 1 /\ k <= NFiles /\ s.size \in Nat /\ Cardinality(s.match) \in Nat
        /\ (k - 1) * s.size < Cardinality(s.match)
    BY MatchFinite, CampaignLaunchAssumption DEF Shards
  <2>2. 0 <= (k - 1) * s.size /\ (k - 1) * s.size \in Nat
    BY <2>1
  <2>3. 0 < Cardinality(s.match)
    BY <2>1, <2>2
  <2>4. (1 - 1) * s.size = 0
    BY <2>1
  <2>5. 1 \in Shards(s)
    BY <2>1, <2>3, <2>4, CampaignLaunchAssumption DEF Shards
  <2>6. [id |-> 1, files |-> Shard(s, 1)] \in Planned(s)
    BY <2>5 DEF Planned
  <2> QED BY <2>6
<1> QED BY <1>1, <1>3, <1>4 DEF WellPlanned

(* Every file that matches is in one of the runs that are planned.         *)
THEOREM EveryFilePlanned ==
  ASSUME NEW s \in Specs, NEW f \in s.match
  PROVE  \E r \in Planned(s) : f \in r.files
<1> DEFINE i == Index(s, f)
           k == (i \div s.size) + 1
<1>1. s.size \in Nat /\ s.size > 0 /\ i \in Nat /\ f \in Files
  BY MatchFinite, CampaignLaunchAssumption
<1>2. i < Cardinality(s.match) /\ Cardinality(s.match) <= NFiles
  <2>1. i < Cardinality(s.match)
    <3>1. {g \in s.match : g < f} \subseteq s.match /\ {g \in s.match : g < f} # s.match
      BY <1>1, CampaignLaunchAssumption DEF Files
    <3> QED BY <3>1, MatchFinite, FS_Subset, FS_CardinalityType DEF Index
  <2>2. IsFiniteSet(Files) /\ Cardinality(Files) = NFiles
    BY FS_Interval, CampaignLaunchAssumption DEF Files
  <2> QED BY <2>1, <2>2, FS_Subset, CampaignLaunchAssumption
<1> HIDE DEF i
<1>3. /\ i \div s.size \in Nat /\ (i \div s.size) * s.size <= i
      /\ i < (i \div s.size) * s.size + s.size
  BY <1>1
<1>4. i \div s.size <= i
  BY <1>1
<1>5. /\ k \in Ids /\ k - 1 = i \div s.size
      /\ (k - 1) * s.size <= i /\ i < k * s.size
  BY <1>1, <1>2, <1>3, <1>4, MatchFinite, CampaignLaunchAssumption
<1> HIDE DEF k
<1>6. (k - 1) * s.size \in Nat /\ Cardinality(s.match) \in Nat
  BY <1>1, <1>5, MatchFinite, CampaignLaunchAssumption
<1>7. k \in Shards(s) /\ f \in Shard(s, k)
  BY <1>1, <1>2, <1>5, <1>6 DEF Shards, Shard, i
<1>8. [id |-> k, files |-> Shard(s, k)] \in Planned(s)
  BY <1>7 DEF Planned
<1> QED BY <1>7, <1>8

-----------------------------------------------------------------------------
(* The types.                                                              *)

(* The launch assets of a manifest whose runs are made are what they are   *)
(* already, however often they are refreshed.                              *)
LEMMA RefreshedSame ==
  ASSUME TypeOK, WellPlanned(manifest.runs), \A r \in manifest.runs : OnDisk(r)
  PROVE  Refreshed = config
<1>1. ASSUME NEW i \in Ids, NEW q \in manifest.runs, q.id = i
      PROVE  (CHOOSE r \in manifest.runs : r.id = i).files = config[i]
  <2>1. \E r \in manifest.runs : r.id = i
    BY <1>1
  <2>2. (CHOOSE r \in manifest.runs : r.id = i) = q
    BY <1>1, <2>1 DEF WellPlanned
  <2> QED BY <1>1, <2>2 DEF OnDisk
<1>2. config \in [Ids -> SUBSET Files]
  BY DEF TypeOK
<1> QED BY <1>1, <1>2 DEF Refreshed

(* A watchdog that is alive moves on, and touches nothing but the owner     *)
(* mode; and if it exits it is because it can.                             *)
LEMMA WatchdogMoves ==
  ASSUME NEW l \in Launch, WatchdogStep(l)
  PROVE  /\ l \in LiveWatchdogs
         /\ \E where \in {"declared", "claiming", "watching", "releasing", "gone"} :
               WatchdogTo(l, where)
BY DEF WatchdogStep, WatchdogStarts, WatchdogClaims, WatchdogClaimed, WatchdogRefreshes,
       WatchdogReleases, WatchdogEnds, LiveWatchdogs

(* The steps with the owner mode keep its type.                            *)
LEMMA OwnerTypes ==
  ASSUME OwnerTyped, NEW p \in Actors
  PROVE  /\ ReadOwnerMode(p) => OwnerTyped'
         /\ \A mode \in OwnerModes : DeclareOwnerMode(p, mode) => OwnerTyped'
         /\ TruncateOwnerMode(p) => OwnerTyped'
         /\ FillOwnerMode(p) => OwnerTyped'
         /\ Abandon(p) => OwnerTyped'
         /\ UNCHANGED owner => OwnerTyped'
<1> DEFINE Writes == [step : {"read", "torn"}, mode : OwnerModes]
<1> USE DEF OwnerTyped
<1>1. ASSUME NEW w \in {NotWriting} \cup Writes, held' = [held EXCEPT ![p] = w]
      PROVE  held' \in [Actors -> {NotWriting} \cup Writes]
  BY <1>1
<1>2. ASSUME ReadOwnerMode(p) PROVE OwnerTyped'
  <2>1. [step |-> "read", mode |-> KeepOwnerMode] \in Writes
    BY DEF KeepOwnerMode, OwnerModes
  <2> HIDE DEF Writes
  <2> QED BY <1>1, <1>2, <2>1 DEF ReadOwnerMode, Writes
<1>3. ASSUME NEW mode \in OwnerModes, DeclareOwnerMode(p, mode) PROVE OwnerTyped'
  <2>1. [step |-> "torn", mode |-> mode] \in Writes
    OBVIOUS
  <2> QED BY <1>1, <1>3, <2>1 DEF DeclareOwnerMode
<1>4. ASSUME TruncateOwnerMode(p) PROVE OwnerTyped'
  <2>1. held[p] \in Writes
    BY <1>4 DEF TruncateOwnerMode, NotWriting
  <2>2. [held[p] EXCEPT !.step = "torn"] \in Writes
    BY <2>1
  <2> QED BY <1>1, <1>4, <2>2 DEF TruncateOwnerMode
<1>5. ASSUME FillOwnerMode(p) PROVE OwnerTyped'
  <2>1. held[p] \in Writes
    BY <1>5 DEF FillOwnerMode, NotWriting
  <2>2. ownerMode' \in OwnerModes \cup {"none"}
    BY <1>5, <2>1 DEF FillOwnerMode
  <2> QED BY <1>1, <1>5, <2>2 DEF FillOwnerMode
<1>6. ASSUME Abandon(p) PROVE OwnerTyped'
  BY <1>1, <1>6 DEF Abandon
<1>7. ASSUME UNCHANGED owner PROVE OwnerTyped'
  BY <1>7
<1> QED BY <1>2, <1>3, <1>4, <1>5, <1>6, <1>7

(* Processes of a launch.                                                  *)
LEMMA ActorsOf ==
  ASSUME NEW l \in Launch
  PROVE  <<"launch", l>> \in Actors /\ <<"watchdog", l>> \in Actors
BY DEF Actors

(* A step keeps the types.                                                 *)
LEMMA TypeKept ==
  TypeOK /\ OwnerTyped' /\ Plans /\ Progress /\ [Next]_vars => TypeOK'
<1> SUFFICES ASSUME TypeOK, OwnerTyped', Plans, Progress, [Next]_vars PROVE TypeOK'
  OBVIOUS
<1> USE CampaignLaunchAssumption DEF TypeOK, OwnerTyped
<1>1. CASE EditSpec
  BY <1>1 DEF EditSpec
<1>2. ASSUME NEW l \in Launch, NEW replan \in BOOLEAN, Begin(l, replan) PROVE TypeOK'
  <2>1. pc' \in [Launch -> Places]
    BY <1>2 DEF Begin
  <2>2. Planned(spec) \subseteq Runs
    BY PlannedWell
  <2>3. plan' \in [Launch -> SUBSET Runs] /\ loaded' \in [Launch -> Specs]
    <3>1. PICK runs \in SUBSET Runs : plan' = [plan EXCEPT ![l] = runs]
      <4>1. planFile.runs \in SUBSET Runs /\ Planned(spec) \in SUBSET Runs
        BY <2>2
      <4>2. \/ plan' = [plan EXCEPT ![l] = planFile.runs]
            \/ plan' = [plan EXCEPT ![l] = Planned(spec)]
        BY <1>2 DEF Begin
      <4> QED BY <4>1, <4>2
    <3>2. plan' \in [Launch -> SUBSET Runs]
      BY <3>1
    <3>3. loaded' \in [Launch -> Specs]
      BY <1>2 DEF Begin
    <3> QED BY <3>2, <3>3
  <2>5. planFile' \in [written : BOOLEAN, runs : SUBSET Runs]
    <3>1. planFile' = planFile \/ planFile' = [written |-> TRUE, runs |-> Planned(spec)]
      BY <1>2 DEF Begin, Written
    <3>2. CASE planFile' = planFile
      BY <3>2
    <3>3. CASE planFile' = [written |-> TRUE, runs |-> Planned(spec)]
      <4> HIDE DEF Runs, TypeOK
      <4>1. TRUE \in BOOLEAN /\ Planned(spec) \in SUBSET Runs
        BY <2>2
      <4> QED BY <3>3, <4>1
    <3> QED BY <3>1, <3>2, <3>3
  <2>4. overlapped' \in BOOLEAN
    BY <1>2 DEF Begin
  <2> QED BY <1>2, <2>1, <2>3, <2>4, <2>5 DEF Begin
<1>3. ASSUME NEW l \in Launch, NEW refresh \in BOOLEAN, FindManifest(l, refresh) PROVE TypeOK'
  <2>1. pc' \in [Launch -> Places]
    BY <1>3 DEF FindManifest
  <2>2. config' = config
    BY <1>3, RefreshedSame DEF FindManifest, Plans, Progress
  <2> QED BY <1>3, <2>1, <2>2 DEF FindManifest
<1>4. ASSUME NEW l \in Launch, TakeOver(l) PROVE TypeOK'
  BY <1>4 DEF TakeOver
<1>5. ASSUME NEW l \in Launch, NEW start \in BOOLEAN, ValidateContract(l, start) PROVE TypeOK'
  <2>1. pc' \in [Launch -> Places]
    <3>1. pc' = [pc EXCEPT ![l] = "spawn"] \/ pc' = [pc EXCEPT ![l] = "ended"]
      <4> HIDE DEF TypeOK
      <4> QED BY <1>5 DEF ValidateContract
    <3> QED BY <3>1
  <2>2. report' \in [Launch -> {"none", "disabled", "not_started", "already_running",
                                "started", "failed"}]
    <3>1. \/ report' = report
          \/ report' = [report EXCEPT ![l] = "not_started"]
          \/ report' = [report EXCEPT ![l] = "disabled"]
      <4> HIDE DEF TypeOK
      <4> QED BY <1>5 DEF ValidateContract
    <3> QED BY <3>1
  <2> QED BY <1>5, <2>1, <2>2 DEF ValidateContract
<1>6. ASSUME NEW l \in Launch, OptionsMalformed(l) PROVE TypeOK'
  BY <1>6 DEF OptionsMalformed
<1>7. ASSUME NEW l \in Launch, Spawn(l) PROVE TypeOK'
  <2>1. pc' \in [Launch -> Places]
    <3>1. pc' = [pc EXCEPT ![l] = "ended"] \/ pc' = [pc EXCEPT ![l] = "poll"]
      <4> HIDE DEF TypeOK
      <4> QED BY <1>7 DEF Spawn
    <3> QED BY <3>1
  <2>2. /\ report' \in [Launch -> {"none", "disabled", "not_started", "already_running",
                                   "started", "failed"}]
        /\ watchdog' \in [Launch -> {"none", "starting", "declared", "claiming", "watching",
                                "releasing", "gone"}]
    <3>1. report' = report \/ report' = [report EXCEPT ![l] = "already_running"]
      <4> HIDE DEF TypeOK
      <4> QED BY <1>7 DEF Spawn
    <3>2. watchdog' = watchdog \/ watchdog' = [watchdog EXCEPT ![l] = "starting"]
      <4> HIDE DEF TypeOK
      <4> QED BY <1>7 DEF Spawn
    <3> QED BY <3>1, <3>2
  <2> QED BY <1>7, <2>1, <2>2 DEF Spawn
<1>8. ASSUME NEW l \in Launch, Poll(l) PROVE TypeOK'
  BY <1>8 DEF Poll
<1>9. ASSUME NEW l \in Launch, Kill(l) PROVE TypeOK'
  <2>1. pc' \in [Launch -> Places]
    BY <1>9 DEF Kill
  <2>2. loaded' \in [Launch -> Specs] /\ plan' \in [Launch -> SUBSET Runs]
        /\ next' \in [Launch -> 1 .. NFiles + 1]
    <3>1. NoSpec \in Specs /\ {} \in SUBSET Runs /\ 1 \in 1 .. NFiles + 1
      BY DEF NoSpec
    <3> QED BY <1>9, <3>1 DEF Kill
  <2> QED BY <1>9, <2>1, <2>2 DEF Kill
<1>10. ASSUME NEW l \in Launch, CheckRoot(l) PROVE TypeOK'
  BY <1>10 DEF CheckRoot
<1>11. ASSUME NEW l \in Launch, Scaffold(l) PROVE TypeOK'
  <2>1. pc' \in [Launch -> Places]
    BY <1>11 DEF Scaffold
  <2>2. root' \in BOOLEAN
    BY <1>11 DEF Scaffold
  <2> QED BY <1>11, <2>1, <2>2 DEF Scaffold
<1>12. ASSUME NEW l \in Launch, BeginRun(l) PROVE TypeOK'
  <2>1. pc' \in [Launch -> Places]
    BY <1>12 DEF BeginRun
  <2>2. runDir' \in [Ids -> {"absent", "begun", "made"}]
    BY <1>12 DEF BeginRun
  <2> QED BY <1>12, <2>1, <2>2 DEF BeginRun
<1>13. ASSUME NEW l \in Launch, MakeRun(l) PROVE TypeOK'
  BY <1>13 DEF MakeRun
<1>14. ASSUME NEW l \in Launch, WriteManifest(l) PROVE TypeOK'
  BY <1>14 DEF WriteManifest
<1>15. ASSUME NEW l \in Launch, WriteOwnerMode(l) PROVE TypeOK'
  BY <1>15 DEF WriteOwnerMode
<1>16. ASSUME NEW l \in Launch, WatchdogStep(l) PROVE TypeOK'
  BY <1>16, WatchdogMoves DEF WatchdogTo, LiveWatchdogs
<1>17. ASSUME NEW p \in Actors, TruncateOwnerMode(p) \/ FillOwnerMode(p) PROVE TypeOK'
  BY <1>17 DEF TruncateOwnerMode, FillOwnerMode
<1>18. CASE UNCHANGED vars
  BY <1>18
<1>19. ASSUME NEW l \in Launch, WriteResolved(l) PROVE TypeOK'
  <2>1. pc' \in [Launch -> Places]
    BY <1>19 DEF WriteResolved
  <2>2. loaded' \in [Launch -> Specs] /\ plan' \in [Launch -> SUBSET Runs]
        /\ next' \in [Launch -> 1 .. NFiles + 1]
    <3>1. NoSpec \in Specs /\ {} \in SUBSET Runs /\ 1 \in 1 .. NFiles + 1
      BY DEF NoSpec
    <3> QED BY <1>19, <3>1 DEF WriteResolved
  <2>3. resolved' \in Specs
    BY <1>19 DEF WriteResolved
  <2> QED BY <1>19, <2>1, <2>2, <2>3 DEF WriteResolved
<1>20. ASSUME NEW l \in Launch, EnsureControlRoot(l) PROVE TypeOK'
  BY <1>20 DEF EnsureControlRoot
<1> HIDE DEF TypeOK
<1> QED BY <1>1, <1>2, <1>3, <1>4, <1>5, <1>6, <1>7, <1>8, <1>9, <1>10,
           <1>11, <1>12, <1>13, <1>14, <1>15, <1>16, <1>17, <1>18, <1>19, <1>20
        DEF Next, LaunchStep, CreateStep

-----------------------------------------------------------------------------
(* The runs.                                                               *)

(* What is planned, whoever has planned it, is well planned.               *)
LEMMA PlansKept ==
  ASSUME TypeOK, Plans, Progress, [Next]_vars
  PROVE  Plans'
<1> USE CampaignLaunchAssumption DEF TypeOK, Plans
<1>1. CASE EditSpec
  BY <1>1 DEF EditSpec
<1>2. ASSUME NEW l \in Launch, NEW replan \in BOOLEAN, Begin(l, replan) PROVE Plans'
  <2>1. WellPlanned(Planned(spec)) /\ manifest' = manifest
    BY <1>2, PlannedWell DEF Begin
  <2>2. \A k \in Launch :
          plan'[k] = plan[k] \/ plan'[k] = planFile.runs \/ plan'[k] = Planned(spec)
    BY <1>2 DEF Begin
  <2>3. planFile'.runs = planFile.runs \/ planFile'.runs = Planned(spec)
    <3> HIDE DEF TypeOK, Plans
    <3> QED BY <1>2 DEF Begin, Written
  <2> QED BY <2>1, <2>2, <2>3
<1>3. ASSUME NEW l \in Launch, NEW refresh \in BOOLEAN, FindManifest(l, refresh) PROVE Plans'
  BY <1>3 DEF FindManifest
<1>4. ASSUME NEW l \in Launch, TakeOver(l) PROVE Plans'
  BY <1>4 DEF TakeOver
<1>5. ASSUME NEW l \in Launch, NEW start \in BOOLEAN, ValidateContract(l, start) PROVE Plans'
  BY <1>5 DEF ValidateContract
<1>6. ASSUME NEW l \in Launch, OptionsMalformed(l) PROVE Plans'
  BY <1>6 DEF OptionsMalformed
<1>7. ASSUME NEW l \in Launch, Spawn(l) PROVE Plans'
  BY <1>7 DEF Spawn
<1>8. ASSUME NEW l \in Launch, Poll(l) PROVE Plans'
  BY <1>8 DEF Poll
<1>9. ASSUME NEW l \in Launch, Kill(l) PROVE Plans'
  <2>1. WellPlanned({}) /\ UNCHANGED <<planFile, manifest>>
    BY <1>9 DEF Kill, WellPlanned
  <2>2. \A k \in Launch : plan'[k] = plan[k] \/ plan'[k] = {}
    BY <1>9 DEF Kill
  <2> QED BY <2>1, <2>2
<1>10. ASSUME NEW l \in Launch, CheckRoot(l) PROVE Plans'
  BY <1>10 DEF CheckRoot
<1>11. ASSUME NEW l \in Launch, Scaffold(l) PROVE Plans'
  BY <1>11 DEF Scaffold
<1>12. ASSUME NEW l \in Launch, BeginRun(l) PROVE Plans'
  BY <1>12 DEF BeginRun
<1>13. ASSUME NEW l \in Launch, MakeRun(l) PROVE Plans'
  BY <1>13 DEF MakeRun
<1>14. ASSUME NEW l \in Launch, WriteManifest(l) PROVE Plans'
  BY <1>14 DEF WriteManifest
<1>15. ASSUME NEW l \in Launch, WriteOwnerMode(l) PROVE Plans'
  BY <1>15 DEF WriteOwnerMode
<1>16. ASSUME NEW l \in Launch, WatchdogStep(l) PROVE Plans'
  BY <1>16, WatchdogMoves DEF WatchdogTo, LiveWatchdogs
<1>17. ASSUME NEW p \in Actors, TruncateOwnerMode(p) \/ FillOwnerMode(p) PROVE Plans'
  BY <1>17 DEF TruncateOwnerMode, FillOwnerMode
<1>18. CASE UNCHANGED vars
  BY <1>18
<1>19. ASSUME NEW l \in Launch, WriteResolved(l) PROVE Plans'
  <2>1. WellPlanned({}) /\ UNCHANGED <<planFile, manifest>>
    BY <1>19 DEF WriteResolved, WellPlanned
  <2>2. \A k \in Launch : plan'[k] = plan[k] \/ plan'[k] = {}
    BY <1>19 DEF WriteResolved
  <2> QED BY <2>1, <2>2
<1>20. ASSUME NEW l \in Launch, EnsureControlRoot(l) PROVE Plans'
  BY <1>20 DEF EnsureControlRoot
<1> HIDE DEF TypeOK
<1> QED BY <1>1, <1>2, <1>3, <1>4, <1>5, <1>6, <1>7, <1>8, <1>9, <1>10,
           <1>11, <1>12, <1>13, <1>14, <1>15, <1>16, <1>17, <1>18, <1>19, <1>20
        DEF Next, LaunchStep, CreateStep

(* What a launch has made stays as it was planned.                         *)
LEMMA ProgressKept ==
  ASSUME TypeOK, Plans, Progress, Makers, [Next]_vars
  PROVE  Progress'
<1> USE CampaignLaunchAssumption DEF TypeOK, Progress, OnDisk
<1>1. CASE EditSpec
  BY <1>1 DEF EditSpec
<1>2. ASSUME NEW l \in Launch, NEW replan \in BOOLEAN, Begin(l, replan) PROVE Progress'
  <2>1. \A k \in Launch : k # l => plan'[k] = plan[k] /\ pc'[k] = pc[k]
    BY <1>2 DEF Begin
  <2>2. plan'[l] \in SUBSET Runs
    <3>1. Planned(spec) \in SUBSET Runs
      BY PlannedWell
    <3>2. plan'[l] = planFile.runs \/ plan'[l] = Planned(spec)
      BY <1>2 DEF Begin
    <3> QED BY <3>1, <3>2
  <2>3. next[l] = 1 /\ UNCHANGED <<next, runDir, config, manifest>>
    BY <1>2 DEF Begin
  <2>4. \A r \in plan'[l] : ~ (r.id < next[l])
    BY <2>2, <2>3
  <2>5. \A r \in Runs : OnDisk(r)' <=> OnDisk(r)
    BY <2>3
  <2> HIDE DEF OnDisk
  <2>6. \A r \in manifest'.runs : OnDisk(r)'
    BY <2>3, <2>5
  <2>7. \A k \in Launch : \A r \in plan'[k] : r.id < next'[k] => OnDisk(r)'
    BY <2>1, <2>3, <2>4, <2>5
  <2> QED BY <2>1, <2>3, <2>6, <2>7
<1>3. ASSUME NEW l \in Launch, NEW refresh \in BOOLEAN, FindManifest(l, refresh) PROVE Progress'
  <2>1. config' = config
    BY <1>3, RefreshedSame DEF FindManifest, Plans
  <2> QED BY <1>3, <2>1 DEF FindManifest
<1>4. ASSUME NEW l \in Launch, TakeOver(l) PROVE Progress'
  BY <1>4 DEF TakeOver
<1>5. ASSUME NEW l \in Launch, NEW start \in BOOLEAN, ValidateContract(l, start) PROVE Progress'
  BY <1>5 DEF ValidateContract
<1>6. ASSUME NEW l \in Launch, OptionsMalformed(l) PROVE Progress'
  BY <1>6 DEF OptionsMalformed
<1>7. ASSUME NEW l \in Launch, Spawn(l) PROVE Progress'
  BY <1>7 DEF Spawn
<1>8. ASSUME NEW l \in Launch, Poll(l) PROVE Progress'
  BY <1>8 DEF Poll
<1>9. ASSUME NEW l \in Launch, Kill(l) PROVE Progress'
  BY <1>9 DEF Kill
<1>10. ASSUME NEW l \in Launch, CheckRoot(l) PROVE Progress'
  BY <1>10 DEF CheckRoot
<1>11. ASSUME NEW l \in Launch, Scaffold(l) PROVE Progress'
  BY <1>11 DEF Scaffold
<1>12. ASSUME NEW l \in Launch, BeginRun(l) PROVE Progress'
  BY <1>12 DEF BeginRun
<1>13. ASSUME NEW l \in Launch, MakeRun(l) PROVE Progress'
  <2>1. PICK r \in plan[l] :
          /\ r.id = next[l] /\ runDir' = [runDir EXCEPT ![r.id] = "made"]
          /\ config' = [config EXCEPT ![r.id] = r.files]
          /\ next' = [next EXCEPT ![l] = @ + 1]
    BY <1>13 DEF MakeRun
  <2>2. /\ pc[l] = "run" /\ pc' = [pc EXCEPT ![l] = "runs"]
        /\ UNCHANGED <<plan, manifest>> /\ runDir[r.id] = "begun" /\ r \in Runs
    BY <1>13, <2>1 DEF MakeRun, Makers
  <2>3. ASSUME NEW q \in Runs, OnDisk(q) PROVE OnDisk(q)'
    BY <2>1, <2>2, <2>3
  <2>4. OnDisk(r)'
    BY <2>1, <2>2
  <2>5. ASSUME NEW q \in plan[l], q.id < next[l] + 1 PROVE OnDisk(q)'
    <3>1. CASE q.id < next[l]
      BY <3>1, <2>3
    <3>2. CASE q.id = next[l]
      <4>1. q = r
        BY <3>2, <2>1 DEF Plans, WellPlanned
      <4> QED BY <4>1, <2>4
    <3> QED BY <2>5, <3>1, <3>2
  <2>6. \A k \in Launch : next'[k] = IF k = l THEN next[l] + 1 ELSE next[k]
    BY <2>1
  <2> HIDE DEF OnDisk
  <2>7. \A q \in manifest'.runs : OnDisk(q)'
    BY <2>2, <2>3
  <2>8. \A k \in Launch : \A q \in plan'[k] : q.id < next'[k] => OnDisk(q)'
    BY <2>2, <2>3, <2>5, <2>6
  <2> QED BY <2>2, <2>6, <2>7, <2>8
<1>14. ASSUME NEW l \in Launch, WriteManifest(l) PROVE Progress'
  BY <1>14 DEF WriteManifest
<1>15. ASSUME NEW l \in Launch, WriteOwnerMode(l) PROVE Progress'
  BY <1>15 DEF WriteOwnerMode
<1>16. ASSUME NEW l \in Launch, WatchdogStep(l) PROVE Progress'
  BY <1>16, WatchdogMoves DEF WatchdogTo, LiveWatchdogs
<1>17. ASSUME NEW p \in Actors, TruncateOwnerMode(p) \/ FillOwnerMode(p) PROVE Progress'
  BY <1>17 DEF TruncateOwnerMode, FillOwnerMode
<1>18. CASE UNCHANGED vars
  BY <1>18
<1>19. ASSUME NEW l \in Launch, WriteResolved(l) PROVE Progress'
  BY <1>19 DEF WriteResolved
<1>20. ASSUME NEW l \in Launch, EnsureControlRoot(l) PROVE Progress'
  BY <1>20 DEF EnsureControlRoot
<1> HIDE DEF TypeOK
<1> QED BY <1>1, <1>2, <1>3, <1>4, <1>5, <1>6, <1>7, <1>8, <1>9, <1>10,
           <1>11, <1>12, <1>13, <1>14, <1>15, <1>16, <1>17, <1>18, <1>19, <1>20
        DEF Next, LaunchStep, CreateStep

(* No launch begins to make runs beside another, or beside a manifest.     *)
LEMMA MakersKept ==
  ASSUME TypeOK, Plans, Progress, Makers, [Next]_vars
  PROVE  Makers'
<1> USE CampaignLaunchAssumption DEF TypeOK, Makers, Making
<1>1. CASE EditSpec
  BY <1>1 DEF EditSpec
<1>2. ASSUME NEW l \in Launch, NEW replan \in BOOLEAN, Begin(l, replan) PROVE Makers'
  <2>1. pc' = [pc EXCEPT ![l] = "resolved"] \/ pc' = [pc EXCEPT ![l] = "raised"]
    <3> HIDE DEF TypeOK, Makers, Making
    <3> QED BY <1>2 DEF Begin
  <2>2. UNCHANGED <<next, runDir, manifest>> /\ pc[l] \notin {"runs", "run"}
    BY <1>2 DEF Begin
  <2>3. \A k \in Launch : pc'[k] = pc[k] \/ pc'[k] \notin {"runs", "run"}
    BY <2>1, <2>2
  <2> QED BY <2>2, <2>3
<1>3. ASSUME NEW l \in Launch, NEW refresh \in BOOLEAN, FindManifest(l, refresh) PROVE Makers'
  BY <1>3 DEF FindManifest
<1>4. ASSUME NEW l \in Launch, TakeOver(l) PROVE Makers'
  BY <1>4 DEF TakeOver
<1>5. ASSUME NEW l \in Launch, NEW start \in BOOLEAN, ValidateContract(l, start) PROVE Makers'
  <2>1. pc' = [pc EXCEPT ![l] = "spawn"] \/ pc' = [pc EXCEPT ![l] = "ended"]
    <3> HIDE DEF TypeOK, Makers, Making
    <3> QED BY <1>5 DEF ValidateContract
  <2>2. UNCHANGED <<next, runDir, manifest>> /\ pc[l] \notin {"runs", "run"}
    BY <1>5 DEF ValidateContract
  <2>3. \A k \in Launch : pc'[k] = pc[k] \/ pc'[k] \notin {"runs", "run"}
    BY <2>1, <2>2
  <2> QED BY <2>2, <2>3
<1>6. ASSUME NEW l \in Launch, OptionsMalformed(l) PROVE Makers'
  BY <1>6 DEF OptionsMalformed
<1>7. ASSUME NEW l \in Launch, Spawn(l) PROVE Makers'
  <2>1. pc' = [pc EXCEPT ![l] = "ended"] \/ pc' = [pc EXCEPT ![l] = "poll"]
    <3> HIDE DEF TypeOK, Makers, Making
    <3> QED BY <1>7 DEF Spawn
  <2>2. UNCHANGED <<next, runDir, manifest>> /\ pc[l] \notin {"runs", "run"}
    BY <1>7 DEF Spawn
  <2>3. \A k \in Launch : pc'[k] = pc[k] \/ pc'[k] \notin {"runs", "run"}
    BY <2>1, <2>2
  <2> QED BY <2>2, <2>3
<1>8. ASSUME NEW l \in Launch, Poll(l) PROVE Makers'
  BY <1>8 DEF Poll
<1>9. ASSUME NEW l \in Launch, Kill(l) PROVE Makers'
  BY <1>9 DEF Kill
<1>10. ASSUME NEW l \in Launch, CheckRoot(l) PROVE Makers'
  BY <1>10 DEF CheckRoot
<1>11. ASSUME NEW l \in Launch, Scaffold(l) PROVE Makers'
  <2>1. /\ next[l] = 1 /\ pc' = [pc EXCEPT ![l] = "runs"]
        /\ UNCHANGED <<next, runDir, manifest>>
    BY <1>11 DEF Scaffold, Progress
  <2> QED BY <2>1
<1>12. ASSUME NEW l \in Launch, BeginRun(l) PROVE Makers'
  <2>1. PICK r \in plan[l] :
          /\ r.id = next[l]
          /\ \/ /\ runDir[r.id] = "absent" /\ runDir' = [runDir EXCEPT ![r.id] = "begun"]
                /\ pc' = [pc EXCEPT ![l] = "run"]
             \/ pc' = [pc EXCEPT ![l] = "raised"] /\ UNCHANGED runDir
    BY <1>12 DEF BeginRun
  <2>2. /\ pc[l] = "runs" /\ UNCHANGED <<next, manifest>> /\ r \in Runs
        /\ next[l] \in Nat /\ 1 <= next[l]
    BY <1>12 DEF BeginRun
  <2>3. CASE pc' = [pc EXCEPT ![l] = "raised"] /\ UNCHANGED runDir
    BY <2>2, <2>3
  <2>4. CASE /\ runDir[r.id] = "absent" /\ runDir' = [runDir EXCEPT ![r.id] = "begun"]
             /\ pc' = [pc EXCEPT ![l] = "run"]
    <3>1. \A k \in Launch \ {l} : ~ Making(k)
      <4> SUFFICES ASSUME NEW k \in Launch \ {l}, Making(k) PROVE FALSE
        OBVIOUS
      <4>1. next[l] = 1
        BY <2>2
      <4> QED BY <4>1, <2>1, <2>4
    <3>2. manifest.runs = {}
      <4> SUFFICES ASSUME manifest.runs # {} PROVE FALSE
        OBVIOUS
      <4>1. next[l] = 1
        <5>1. ~ Making(l)
          OBVIOUS
        <5>2. ~ (next[l] > 1)
          BY <5>1, <2>2
        <5> QED BY <5>2, <2>2
      <4>2. runDir[1] = "made"
        BY DEF Plans, WellPlanned, Progress, OnDisk
      <4> QED BY <4>1, <4>2, <2>1, <2>4
    <3>3. \A k \in Launch : Making(k)' => k = l
      BY <3>1, <2>2, <2>4
    <3>4. runDir'[1] # "absent" /\ runDir'[next[l]] = "begun"
      BY <2>1, <2>2, <2>4
    <3> QED BY <2>2, <3>2, <3>3, <3>4
  <2> QED BY <2>1, <2>3, <2>4
<1>13. ASSUME NEW l \in Launch, MakeRun(l) PROVE Makers'
  BY <1>13 DEF MakeRun
<1>14. ASSUME NEW l \in Launch, WriteManifest(l) PROVE Makers'
  BY <1>14 DEF WriteManifest
<1>15. ASSUME NEW l \in Launch, WriteOwnerMode(l) PROVE Makers'
  BY <1>15 DEF WriteOwnerMode
<1>16. ASSUME NEW l \in Launch, WatchdogStep(l) PROVE Makers'
  BY <1>16, WatchdogMoves DEF WatchdogTo, LiveWatchdogs
<1>17. ASSUME NEW p \in Actors, TruncateOwnerMode(p) \/ FillOwnerMode(p) PROVE Makers'
  BY <1>17 DEF TruncateOwnerMode, FillOwnerMode
<1>18. CASE UNCHANGED vars
  BY <1>18
<1>19. ASSUME NEW l \in Launch, WriteResolved(l) PROVE Makers'
  BY <1>19 DEF WriteResolved
<1>20. ASSUME NEW l \in Launch, EnsureControlRoot(l) PROVE Makers'
  BY <1>20 DEF EnsureControlRoot
<1> HIDE DEF TypeOK
<1> QED BY <1>1, <1>2, <1>3, <1>4, <1>5, <1>6, <1>7, <1>8, <1>9, <1>10,
           <1>11, <1>12, <1>13, <1>14, <1>15, <1>16, <1>17, <1>18, <1>19, <1>20
        DEF Next, LaunchStep, CreateStep

-----------------------------------------------------------------------------
(* The owner, the watchdog and the contract.                               *)

(* The steps with the owner mode keep what a declaration rests on.         *)
LEMMA OwnerSteps ==
  ASSUME OwnerTyped, Owned, NEW p \in Actors
  PROVE  /\ ReadOwnerMode(p) => Owned'
         /\ \A mode \in OwnerModes : DeclareOwnerMode(p, mode) => Owned'
         /\ TruncateOwnerMode(p) => Owned'
         /\ FillOwnerMode(p) => Owned'
         /\ Abandon(p) => Owned'
         /\ UNCHANGED owner => Owned'
<1> USE DEF OwnerTyped, Owned, AtRest, NotWriting, OwnerModes
<1>1. ASSUME ReadOwnerMode(p) PROVE Owned'
  <2>1. declared' # "none" => declared' = declared /\ ownerMode = declared
    BY <1>1 DEF ReadOwnerMode
  <2>2. declared' # "none" => held'[p] = [step |-> "read", mode |-> declared]
    BY <1>1, <2>1 DEF ReadOwnerMode, KeepOwnerMode
  <2>3. \A q \in Actors : q # p => held'[q] = held[q]
    BY <1>1 DEF ReadOwnerMode
  <2>4. ownerMode' = ownerMode
    BY <1>1 DEF ReadOwnerMode
  <2> QED BY <2>1, <2>2, <2>3, <2>4
<1>2. ASSUME NEW mode \in OwnerModes, DeclareOwnerMode(p, mode) PROVE Owned'
  <2>1. declared' # "none" => declared' = mode /\ \A q \in Actors : AtRest(q)
    BY <1>2 DEF DeclareOwnerMode
  <2>2. held'[p] = [step |-> "torn", mode |-> mode] /\ ownerMode' = "none"
    BY <1>2 DEF DeclareOwnerMode
  <2>3. \A q \in Actors : q # p => held'[q] = held[q]
    BY <1>2 DEF DeclareOwnerMode
  <2> QED BY <2>1, <2>2, <2>3
<1>3. ASSUME TruncateOwnerMode(p) PROVE Owned'
  <2>1. declared' = declared /\ ownerMode' = "none" /\ ~ AtRest(p)
    BY <1>3 DEF TruncateOwnerMode
  <2>2. held'[p] = [held[p] EXCEPT !.step = "torn"]
    BY <1>3 DEF TruncateOwnerMode
  <2>3. held'[p].step = "torn" /\ held'[p].mode = held[p].mode
    BY <2>1, <2>2
  <2>4. \A q \in Actors : q # p => held'[q] = held[q]
    BY <1>3 DEF TruncateOwnerMode
  <2> QED BY <2>1, <2>3, <2>4
<1>4. ASSUME FillOwnerMode(p) PROVE Owned'
  <2>1. declared' = declared /\ ~ AtRest(p)
    BY <1>4 DEF FillOwnerMode
  <2>2. declared # "none" => ownerMode' = declared
    BY <1>4, <2>1 DEF FillOwnerMode
  <2>3. held'[p] = NotWriting /\ \A q \in Actors : q # p => held'[q] = held[q]
    BY <1>4 DEF FillOwnerMode
  <2> QED BY <2>1, <2>2, <2>3
<1>5. ASSUME Abandon(p) PROVE Owned'
  <2>1. ownerMode' = ownerMode /\ (declared' # "none" => declared' = declared)
    BY <1>5 DEF Abandon
  <2>2. declared' # "none" => held[p].step # "torn"
    BY <1>5 DEF Abandon
  <2>3. held'[p] = NotWriting /\ \A q \in Actors : q # p => held'[q] = held[q]
    BY <1>5 DEF Abandon
  <2> QED BY <2>1, <2>2, <2>3
<1>6. ASSUME UNCHANGED owner PROVE Owned'
  BY <1>6
<1> QED BY <1>1, <1>2, <1>3, <1>4, <1>5, <1>6

(* Whatever a step does, to the owner mode it does one of these.           *)
LEMMA OwnerMoves ==
  ASSUME [Next]_vars
  PROVE  \/ UNCHANGED owner
         \/ \E p \in Actors : \/ ReadOwnerMode(p) \/ TruncateOwnerMode(p) \/ FillOwnerMode(p)
                              \/ Abandon(p)
                              \/ \E mode \in OwnerModes : DeclareOwnerMode(p, mode)
<1> DEFINE Moves == \E p \in Actors : \/ ReadOwnerMode(p) \/ TruncateOwnerMode(p)
                                     \/ FillOwnerMode(p) \/ Abandon(p)
                                     \/ \E mode \in OwnerModes : DeclareOwnerMode(p, mode)
<1> SUFFICES UNCHANGED owner \/ Moves
  OBVIOUS
<1> USE DEF OwnerModes
<1>1. CASE EditSpec
  BY <1>1 DEF EditSpec
<1>2. ASSUME NEW l \in Launch, LaunchStep(l) PROVE UNCHANGED owner \/ Moves
  <2>1. CASE TakeOver(l) \/ Kill(l)
    BY <2>1, ActorsOf DEF TakeOver, Kill
  <2>2. CASE \E replan \in BOOLEAN : Begin(l, replan)
    BY <2>2 DEF Begin
  <2>3. CASE \E refresh \in BOOLEAN : FindManifest(l, refresh)
    BY <2>3 DEF FindManifest
  <2>4. CASE \E start \in BOOLEAN : ValidateContract(l, start)
    BY <2>4 DEF ValidateContract
  <2>5. CASE WriteResolved(l) \/ OptionsMalformed(l) \/ Spawn(l) \/ Poll(l)
    BY <2>5 DEF WriteResolved, OptionsMalformed, Spawn, Poll
  <2> HIDE DEF Moves
  <2> QED BY <1>2, <2>1, <2>2, <2>3, <2>4, <2>5 DEF LaunchStep
<1>3. ASSUME NEW l \in Launch, CreateStep(l) PROVE UNCHANGED owner \/ Moves
  <2>1. CASE EnsureControlRoot(l) \/ WriteOwnerMode(l)
    BY <2>1, ActorsOf DEF EnsureControlRoot, WriteOwnerMode
  <2>2. CASE CheckRoot(l) \/ Scaffold(l) \/ BeginRun(l) \/ MakeRun(l) \/ WriteManifest(l)
    BY <2>2 DEF CheckRoot, Scaffold, BeginRun, MakeRun, WriteManifest
  <2> HIDE DEF Moves
  <2> QED BY <1>3, <2>1, <2>2 DEF CreateStep
<1>4. ASSUME NEW l \in Launch, WatchdogStep(l) PROVE UNCHANGED owner \/ Moves
  BY <1>4, ActorsOf DEF WatchdogStep, WatchdogStarts, WatchdogClaims, WatchdogClaimed,
                        WatchdogRefreshes, WatchdogReleases, WatchdogEnds
<1>5. ASSUME NEW p \in Actors, TruncateOwnerMode(p) \/ FillOwnerMode(p) PROVE Moves
  BY <1>5
<1>6. CASE UNCHANGED vars
  BY <1>6
<1> HIDE DEF Moves, vars, owner, OwnerModes
<1>7. CASE Next
  BY <1>1, <1>2, <1>3, <1>4, <1>5, <1>7 DEF Next
<1> QED BY <1>6, <1>7

(* Every step keeps what a declaration rests on.                           *)
LEMMA OwnedKept ==
  ASSUME OwnerTyped, Owned, [Next]_vars
  PROVE  OwnerTyped' /\ Owned'
<1>1. CASE UNCHANGED owner
  BY <1>1 DEF OwnerTyped, Owned, AtRest
<1>2. ASSUME NEW p \in Actors,
             \/ ReadOwnerMode(p) \/ TruncateOwnerMode(p) \/ FillOwnerMode(p) \/ Abandon(p)
             \/ \E mode \in OwnerModes : DeclareOwnerMode(p, mode)
      PROVE  OwnerTyped' /\ Owned'
  <2> HIDE DEF owner
  <2> QED BY <1>2, OwnerSteps, OwnerTypes
<1> HIDE DEF owner
<1> QED BY <1>1, <1>2, OwnerMoves

(* Launches that come one by one leave one watchdog, on record.            *)
LEMMA WatchedKept ==
  ASSUME TypeOK, Watched, [Next]_vars
  PROVE  Watched'
<1> USE CampaignLaunchAssumption DEF TypeOK, Watched, NoneKilled, Running, LiveWatchdogs
<1>1. CASE EditSpec
  BY <1>1 DEF EditSpec
<1>2. ASSUME NEW l \in Launch, NEW replan \in BOOLEAN, Begin(l, replan) PROVE Watched'
  <2>1. /\ overlapped' = (overlapped \/ Running # {})
        /\ pc' = [pc EXCEPT ![l] = "resolved"] \/ pc' = [pc EXCEPT ![l] = "raised"]
        /\ pc[l] = "idle" /\ UNCHANGED <<pidFile, watchdog>>
    <3> HIDE DEF TypeOK, Watched, Running
    <3> QED BY <1>2 DEF Begin
  <2> SUFFICES ASSUME ~ overlapped', NoneKilled'
               PROVE  /\ \A k, m \in Running' : k = m
                      /\ \A k \in LiveWatchdogs' : pc'[k] = "poll" \/ pidFile' = k
                      /\ \A k \in Launch : pc'[k] = "poll" => LiveWatchdogs' \subseteq {k}
    OBVIOUS
  <2>2. ~ overlapped /\ Running = {}
    <3> HIDE DEF Running, LiveWatchdogs, TypeOK, Watched
    <3> QED BY <2>1
  <2>5. \A k \in Launch : pc[k] \in {"idle"} \cup Ended
    BY <2>2
  <2>6. \A k \in Launch : k # l => pc'[k] = pc[k]
    BY <2>1
  <2>7. pc'[l] \in {"resolved", "raised"}
    BY <2>1
  <2>3. /\ NoneKilled /\ LiveWatchdogs' = LiveWatchdogs
        /\ \A k \in Launch : pc[k] # "poll" /\ pc'[k] # "poll"
    <3>1. NoneKilled
      BY <2>1, <2>6
    <3>2. LiveWatchdogs' = LiveWatchdogs
      BY <2>1
    <3>3. \A k \in Launch : pc[k] # "poll" /\ pc'[k] # "poll"
      BY <2>5, <2>6, <2>7
    <3> QED BY <3>1, <3>2, <3>3
  <2>8. Running' \subseteq {l}
    BY <2>5, <2>6
  <2>4. \A k \in LiveWatchdogs : pidFile = k /\ k \in Launch
    BY <2>2, <2>3
  <2> HIDE DEF Running, LiveWatchdogs, NoneKilled, TypeOK, Watched
  <2> QED BY <2>1, <2>3, <2>4, <2>8
<1>3. ASSUME NEW l \in Launch, NEW refresh \in BOOLEAN, FindManifest(l, refresh) PROVE Watched'
  BY <1>3 DEF FindManifest
<1>4. ASSUME NEW l \in Launch, TakeOver(l) PROVE Watched'
  BY <1>4 DEF TakeOver
<1>5. ASSUME NEW l \in Launch, NEW start \in BOOLEAN, ValidateContract(l, start) PROVE Watched'
  <2>1. pc' = [pc EXCEPT ![l] = "spawn"] \/ pc' = [pc EXCEPT ![l] = "ended"]
    <3> HIDE DEF TypeOK, Watched
    <3> QED BY <1>5 DEF ValidateContract
  <2>2. pc[l] = "validate" /\ UNCHANGED <<pidFile, watchdog, overlapped>>
    BY <1>5 DEF ValidateContract
  <2>3. /\ \A k \in Launch : pc'[k] = pc[k] \/ k = l
        /\ l \in Running /\ Running' \subseteq Running /\ LiveWatchdogs' = LiveWatchdogs
        /\ pc'[l] # "poll"
    BY <2>1, <2>2
  <2>4. NoneKilled' => NoneKilled
    BY <2>2, <2>3
  <2>5. \A k \in LiveWatchdogs : pc[k] = "poll" => pc'[k] = "poll"
    BY <2>2, <2>3
  <2>6. \A k \in Launch : pc'[k] = "poll" => pc[k] = "poll"
    BY <2>2, <2>3
  <2> HIDE DEF Running, LiveWatchdogs, NoneKilled, TypeOK
  <2> QED BY <2>2, <2>3, <2>4, <2>5, <2>6
<1>6. ASSUME NEW l \in Launch, OptionsMalformed(l) PROVE Watched'
  BY <1>6 DEF OptionsMalformed
<1>7. ASSUME NEW l \in Launch, Spawn(l) PROVE Watched'
  <2>1. CASE /\ pidFile \in LiveWatchdogs /\ pc' = [pc EXCEPT ![l] = "ended"]
             /\ UNCHANGED watchdog
    <3>1. pc[l] = "spawn" /\ UNCHANGED <<pidFile, overlapped>>
      BY <1>7 DEF Spawn
    <3>2. /\ Running' \subseteq Running /\ LiveWatchdogs' = LiveWatchdogs
          /\ \A k \in Launch : pc'[k] = "poll" <=> pc[k] = "poll"
      BY <2>1, <3>1
    <3>3. NoneKilled' => NoneKilled
      BY <2>1, <3>1
    <3>4. \A k \in LiveWatchdogs : k \in Launch
      OBVIOUS
    <3> HIDE DEF Running, LiveWatchdogs, NoneKilled, TypeOK
    <3> QED BY <3>1, <3>2, <3>3, <3>4
  <2>2. CASE /\ pidFile \notin LiveWatchdogs /\ pc' = [pc EXCEPT ![l] = "poll"]
             /\ watchdog' = [watchdog EXCEPT ![l] = "starting"]
    <3>1. pc[l] = "spawn" /\ UNCHANGED <<pidFile, overlapped>>
      BY <1>7 DEF Spawn
    <3> SUFFICES ASSUME ~ overlapped', NoneKilled'
                 PROVE  /\ \A k, m \in Running' : k = m
                        /\ \A k \in LiveWatchdogs' : pc'[k] = "poll" \/ pidFile' = k
                        /\ \A k \in Launch : pc'[k] = "poll" => LiveWatchdogs' \subseteq {k}
      OBVIOUS
    <3>2. l \in Running /\ Running' = Running /\ NoneKilled
      BY <2>2, <3>1
    <3>3. \A k, m \in Running : k = m
      <4> HIDE DEF Running, LiveWatchdogs, NoneKilled, TypeOK
      <4> QED BY <3>1, <3>2
    <3>4. \A k \in Launch : pc[k] = "poll" => k \in Running
      OBVIOUS
    <3>5. LiveWatchdogs = {}
      <4> SUFFICES ASSUME NEW k \in LiveWatchdogs PROVE FALSE
        OBVIOUS
      <4>1. pc[k] = "poll"
        BY <2>2, <3>1, <3>2
      <4>2. k = l
        BY <4>1, <3>2, <3>3, <3>4
      <4> QED BY <4>1, <4>2, <3>1
    <3>6. LiveWatchdogs' = {l}
      BY <2>2, <3>5
    <3>7. \A k \in Launch : pc'[k] = "poll" => k = l
      BY <2>2, <3>2, <3>3, <3>4
    <3> HIDE DEF Running, LiveWatchdogs
    <3> QED BY <2>2, <3>2, <3>3, <3>6, <3>7
  <2>3. \/ pidFile \in LiveWatchdogs /\ Goto(l, "ended") /\ UNCHANGED watchdog
        \/ /\ pidFile \notin LiveWatchdogs /\ Goto(l, "poll")
           /\ watchdog' = [watchdog EXCEPT ![l] = "starting"]
    <3> HIDE DEF LiveWatchdogs, TypeOK, Watched
    <3> QED BY <1>7 DEF Spawn
  <2> QED BY <2>1, <2>2, <2>3
<1>8. ASSUME NEW l \in Launch, Poll(l) PROVE Watched'
  BY <1>8 DEF Poll
<1>9. ASSUME NEW l \in Launch, Kill(l) PROVE Watched'
  BY <1>9 DEF Kill
<1>10. ASSUME NEW l \in Launch, CheckRoot(l) PROVE Watched'
  BY <1>10 DEF CheckRoot
<1>11. ASSUME NEW l \in Launch, Scaffold(l) PROVE Watched'
  BY <1>11 DEF Scaffold
<1>12. ASSUME NEW l \in Launch, BeginRun(l) PROVE Watched'
  <2>1. pc' = [pc EXCEPT ![l] = "run"] \/ pc' = [pc EXCEPT ![l] = "raised"]
    <3> HIDE DEF TypeOK, Watched
    <3> QED BY <1>12 DEF BeginRun
  <2>2. pc[l] = "runs" /\ UNCHANGED <<pidFile, watchdog, overlapped>>
    BY <1>12 DEF BeginRun
  <2>3. /\ \A k \in Launch : pc'[k] = pc[k] \/ k = l
        /\ l \in Running /\ Running' \subseteq Running /\ LiveWatchdogs' = LiveWatchdogs
        /\ pc'[l] # "poll"
    BY <2>1, <2>2
  <2>4. NoneKilled' => NoneKilled
    BY <2>2, <2>3
  <2>5. \A k \in LiveWatchdogs : pc[k] = "poll" => pc'[k] = "poll"
    BY <2>2, <2>3
  <2>6. \A k \in Launch : pc'[k] = "poll" => pc[k] = "poll"
    BY <2>2, <2>3
  <2> HIDE DEF Running, LiveWatchdogs, NoneKilled, TypeOK
  <2> QED BY <2>2, <2>3, <2>4, <2>5, <2>6
<1>13. ASSUME NEW l \in Launch, MakeRun(l) PROVE Watched'
  BY <1>13 DEF MakeRun
<1>14. ASSUME NEW l \in Launch, WriteManifest(l) PROVE Watched'
  BY <1>14 DEF WriteManifest
<1>15. ASSUME NEW l \in Launch, WriteOwnerMode(l) PROVE Watched'
  BY <1>15 DEF WriteOwnerMode
<1>16. ASSUME NEW l \in Launch, WatchdogStep(l) PROVE Watched'
  BY <1>16, WatchdogMoves DEF WatchdogTo, LiveWatchdogs
<1>17. ASSUME NEW p \in Actors, TruncateOwnerMode(p) \/ FillOwnerMode(p) PROVE Watched'
  BY <1>17 DEF TruncateOwnerMode, FillOwnerMode
<1>18. CASE UNCHANGED vars
  BY <1>18
<1>19. ASSUME NEW l \in Launch, WriteResolved(l) PROVE Watched'
  BY <1>19 DEF WriteResolved
<1>20. ASSUME NEW l \in Launch, EnsureControlRoot(l) PROVE Watched'
  BY <1>20 DEF EnsureControlRoot
<1> HIDE DEF TypeOK
<1> QED BY <1>1, <1>2, <1>3, <1>4, <1>5, <1>6, <1>7, <1>8, <1>9, <1>10,
           <1>11, <1>12, <1>13, <1>14, <1>15, <1>16, <1>17, <1>18, <1>19, <1>20
        DEF Next, LaunchStep, CreateStep

(* Whatever is made of a spec that is not edited is made of this one.      *)
LEMMA ContractedKept ==
  ASSUME TypeOK, Contracted, [Next]_vars
  PROVE  Contracted'
<1> USE CampaignLaunchAssumption DEF TypeOK, Contracted
<1>1. CASE EditSpec
  BY <1>1 DEF EditSpec
<1>2. ASSUME NEW l \in Launch, NEW replan \in BOOLEAN, Begin(l, replan) PROVE Contracted'
  <2> SUFFICES ASSUME ~ edited PROVE Contracted'
    BY <1>2 DEF Begin
  <2>1. /\ \A k \in Launch : k # l => /\ pc'[k] = pc[k] /\ loaded'[k] = loaded[k]
                                      /\ plan'[k] = plan[k]
        /\ loaded'[l] = spec /\ pc'[l] \in {"resolved", "raised"}
        /\ UNCHANGED <<spec, manifest, resolved, watchdog, edited>>
    BY <1>2 DEF Begin
  <2>2. pc'[l] = "resolved" => plan'[l] # {} \/ plan'[l] = Planned(spec)
    BY <1>2 DEF Begin
  <2>3. pc'[l] = "resolved" => Targeted(spec, plan'[l])
    BY <2>2 DEF Targeted
  <2> HIDE DEF TypeOK
  <2> QED BY <2>1, <2>3
<1>3. ASSUME NEW l \in Launch, NEW refresh \in BOOLEAN, FindManifest(l, refresh)
      PROVE  Contracted'
  BY <1>3 DEF FindManifest
<1>4. ASSUME NEW l \in Launch, TakeOver(l) PROVE Contracted'
  BY <1>4 DEF TakeOver
<1>5. ASSUME NEW l \in Launch, NEW start \in BOOLEAN, ValidateContract(l, start)
      PROVE  Contracted'
  <2>1. /\ \A k \in Launch : k # l => pc'[k] = pc[k]
        /\ pc[l] = "validate" /\ pc'[l] \in {"spawn", "ended"}
        /\ UNCHANGED <<spec, planFile, manifest, resolved, loaded, plan, watchdog, edited>>
    BY <1>5 DEF ValidateContract
  <2>2. pc'[l] = "spawn" => ContractErrors(resolved) = {}
    BY <1>5 DEF ValidateContract, ContractValid
  <2>3. ~ edited => resolved = spec
    BY <2>1
  <2> HIDE DEF TypeOK
  <2> QED BY <2>1, <2>2, <2>3
<1>6. ASSUME NEW l \in Launch, OptionsMalformed(l) PROVE Contracted'
  BY <1>6 DEF OptionsMalformed
<1>7. ASSUME NEW l \in Launch, Spawn(l) PROVE Contracted'
  BY <1>7 DEF Spawn
<1>8. ASSUME NEW l \in Launch, Poll(l) PROVE Contracted'
  BY <1>8 DEF Poll
<1>9. ASSUME NEW l \in Launch, Kill(l) PROVE Contracted'
  BY <1>9 DEF Kill
<1>10. ASSUME NEW l \in Launch, CheckRoot(l) PROVE Contracted'
  BY <1>10 DEF CheckRoot
<1>11. ASSUME NEW l \in Launch, Scaffold(l) PROVE Contracted'
  BY <1>11 DEF Scaffold
<1>12. ASSUME NEW l \in Launch, BeginRun(l) PROVE Contracted'
  BY <1>12 DEF BeginRun
<1>13. ASSUME NEW l \in Launch, MakeRun(l) PROVE Contracted'
  BY <1>13 DEF MakeRun
<1>14. ASSUME NEW l \in Launch, WriteManifest(l) PROVE Contracted'
  BY <1>14 DEF WriteManifest
<1>15. ASSUME NEW l \in Launch, WriteOwnerMode(l) PROVE Contracted'
  BY <1>15 DEF WriteOwnerMode
<1>16. ASSUME NEW l \in Launch, WatchdogStep(l) PROVE Contracted'
  <2>1. /\ \A k \in Launch : watchdog'[k] # "none" => watchdog[k] # "none"
        /\ UNCHANGED <<spec, manifest, resolved, pc, loaded, plan, edited>>
    <3> HIDE DEF Contracted
    <3>1. watchdog[l] # "none"
      <4> HIDE DEF TypeOK
      <4> QED BY <1>16, WatchdogMoves DEF LiveWatchdogs
    <3>3. DOMAIN watchdog = Launch
      OBVIOUS
    <3> HIDE DEF TypeOK
    <3>2. PICK where \in {"declared", "claiming", "watching", "releasing", "gone"} :
             WatchdogTo(l, where)
      BY <1>16, WatchdogMoves
    <3> QED BY <3>1, <3>2, <3>3 DEF WatchdogTo
  <2> HIDE DEF TypeOK
  <2> QED BY <2>1
<1>17. ASSUME NEW p \in Actors, TruncateOwnerMode(p) \/ FillOwnerMode(p) PROVE Contracted'
  BY <1>17 DEF TruncateOwnerMode, FillOwnerMode
<1>18. CASE UNCHANGED vars
  BY <1>18
<1>19. ASSUME NEW l \in Launch, WriteResolved(l) PROVE Contracted'
  BY <1>19 DEF WriteResolved
<1>20. ASSUME NEW l \in Launch, EnsureControlRoot(l) PROVE Contracted'
  BY <1>20 DEF EnsureControlRoot
<1> HIDE DEF TypeOK
<1> QED BY <1>1, <1>2, <1>3, <1>4, <1>5, <1>6, <1>7, <1>8, <1>9, <1>10,
           <1>11, <1>12, <1>13, <1>14, <1>15, <1>16, <1>17, <1>18, <1>19, <1>20
        DEF Next, LaunchStep, CreateStep

-----------------------------------------------------------------------------
(* What launches promise.                                                  *)

(* The invariant the promises of the launches rest on.                     *)
THEOREM Inductive == Spec => []IInv
<1>1. Init => IInv
  <2> SUFFICES ASSUME Init PROVE IInv
    OBVIOUS
  <2> USE CampaignLaunchAssumption DEF Init
  <2>1. NoSpec \in Specs /\ Absent \in [written : BOOLEAN, runs : SUBSET Runs]
        /\ NoManifest \in [written : BOOLEAN, runs : SUBSET Runs, preload : BOOLEAN]
    BY DEF NoSpec, Absent, NoManifest
  <2>6. \/ planFile = Absent
        \/ \E runs \in SUBSET Runs : WellPlanned(runs) /\ planFile = Written(runs)
    BY PlannedWell
  <2> USE DEF Written
  <2>2. TypeOK
    <3>1. /\ spec \in Specs /\ resolved \in Specs /\ loaded \in [Launch -> Specs]
          /\ plan \in [Launch -> SUBSET Runs] /\ next \in [Launch -> 1 .. NFiles + 1]
      BY <2>1
    <3>2. /\ kept \in BOOLEAN /\ root \in BOOLEAN
          /\ overlapped \in BOOLEAN /\ edited \in BOOLEAN
      OBVIOUS
    <3>3. /\ planFile \in [written : BOOLEAN, runs : SUBSET Runs]
          /\ manifest \in [written : BOOLEAN, runs : SUBSET Runs, preload : BOOLEAN]
      <4>1. manifest = NoManifest
        OBVIOUS
      <4> HIDE DEF Init, Runs
      <4>2. CASE planFile = Absent
        BY <4>1, <4>2, <2>1
      <4>3. ASSUME NEW runs \in SUBSET Runs, planFile = Written(runs)
            PROVE  planFile \in [written : BOOLEAN, runs : SUBSET Runs]
        BY <4>3
      <4> QED BY <4>1, <4>2, <4>3, <2>1, <2>6
    <3>4. /\ runDir \in [Ids -> {"absent", "begun", "made"}]
          /\ config \in [Ids -> SUBSET Files]
          /\ pidFile \in Launch \cup {Nobody}
      OBVIOUS
    <3>5. /\ pc \in [Launch -> Places]
          /\ report \in [Launch -> {"none", "disabled", "not_started", "already_running",
                                    "started", "failed"}]
          /\ watchdog \in [Launch -> {"none", "starting", "declared", "claiming", "watching",
                                "releasing", "gone"}]
      OBVIOUS
    <3>6. OwnerTyped
      BY DEF OwnerTyped
    <3> QED BY <3>1, <3>2, <3>3, <3>4, <3>5, <3>6 DEF TypeOK, OwnerTyped
  <2>3. Plans /\ Progress
    <3>1. WellPlanned({})
      BY DEF WellPlanned
    <3>2. WellPlanned(planFile.runs)
      <4> HIDE DEF Init, Runs
      <4> QED BY <2>6, <3>1 DEF Absent
    <3> QED BY <3>1, <3>2 DEF Plans, Progress, NoManifest
  <2>4. Makers /\ Owned
    BY DEF Makers, Making, Owned
  <2>5. Watched /\ Contracted
    BY DEF Watched, Running, LiveWatchdogs, Contracted, Absent, NoManifest
  <2> QED BY <2>2, <2>3, <2>4, <2>5 DEF IInv
<1>2. IInv /\ [Next]_vars => IInv'
  <2> SUFFICES ASSUME IInv, [Next]_vars PROVE IInv'
    OBVIOUS
  <2>1. OwnerTyped
    BY DEF IInv, TypeOK, OwnerTyped
  <2>2. OwnerTyped' /\ Owned'
    BY <2>1, OwnedKept DEF IInv
  <2> QED BY <2>2, TypeKept, PlansKept, ProgressKept, MakersKept, WatchedKept, ContractedKept
          DEF IInv
<1> QED BY <1>1, <1>2, PTL DEF Spec

(* The variables have their types.                                         *)
THEOREM TypeCorrect == Spec => []TypeOK
<1>1. IInv => TypeOK
  BY DEF IInv
<1> QED BY <1>1, Inductive, PTL

(* Whatever launches overlap, die or are repeated: the runs of a manifest  *)
(* are on disk as it has them, the owner mode is the one that was declared *)
(* last, however many leases are claimed, refreshed and released after     *)
(* that, unless somebody was writing it at the time, and the pid file is   *)
(* that of the watchdog if the launches came one by one.                   *)
THEOREM CampaignCorrect == Spec => []CampaignInv
<1>1. IInv => CampaignInv
  <2> SUFFICES ASSUME IInv PROVE CampaignInv
    OBVIOUS
  <2>1. RunsOfManifest
    BY DEF IInv, Plans, WellPlanned, Progress, OnDisk, RunsOfManifest
  <2>2. OwnerOnRecord
    BY DEF IInv, Owned, OwnerOnRecord
  <2>3. WatchdogOnRecord
    <3> SUFFICES ASSUME Running = {}, ~ overlapped, NoneKilled,
                        NEW l \in Launch, watchdog[l] = "watching"
                 PROVE  pidFile = l
      BY DEF WatchdogOnRecord, NoneKilled
    <3>1. l \in LiveWatchdogs /\ pc[l] # "poll"
      BY DEF LiveWatchdogs, Running
    <3> QED BY <3>1 DEF IInv, Watched
  <2> QED BY <2>1, <2>2, <2>3 DEF IInv, CampaignInv
<1> QED BY <1>1, Inductive, PTL

(* Unless the spec was edited, or has no regex that the contract counts,   *)
(* what a watchdog watches has runs, and no historical routes if it is a   *)
(* benchmark.                                                              *)
THEOREM ContractCorrect == Spec => []WatchedAsContracted
<1>1. IInv => WatchedAsContracted
  <2> SUFFICES ASSUME IInv, ~ edited, spec.counted, ~ spec.ignored,
                      NEW l \in Launch, watchdog[l] = "watching"
               PROVE  manifest.runs # {} /\ (Mode = "benchmark_faithful" => ~ manifest.preload)
    BY DEF WatchedAsContracted
  <2>1. /\ Targeted(spec, manifest.runs) /\ manifest.preload = spec.preload
        /\ ContractErrors(spec) = {}
    BY DEF IInv, Contracted
  <2>2. ScopeMatches(spec) /\ ~ (Mode = "benchmark_faithful" /\ spec.preload)
    BY <2>1 DEF ContractErrors
  <2>3. PICK f \in spec.match : TRUE
    BY <2>2 DEF ScopeMatches
  <2>4. Planned(spec) # {}
    BY <2>3, EveryFilePlanned DEF IInv, TypeOK
  <2> QED BY <2>1, <2>2, <2>4 DEF Targeted
<1> QED BY <1>1, Inductive, PTL

(* No launch replaces the runs of a manifest by others.                    *)
THEOREM ManifestIsKept == Spec => ManifestKept
<1>1. IInv /\ [Next]_vars =>
        [manifest.runs \in {{}, manifest'.runs} \/ manifest'.runs = {}]_manifest
  <2> SUFFICES ASSUME IInv, [Next]_vars, manifest' # manifest
               PROVE  manifest.runs = {} \/ manifest'.runs = {}
    OBVIOUS
  <2>1. PICK l \in Launch : WriteManifest(l)
    <3>1. ASSUME NEW l \in Launch, WatchdogStep(l) PROVE FALSE
      BY <3>1, WatchdogMoves DEF WatchdogTo
    <3> QED
      BY <3>1 DEF Next, LaunchStep, CreateStep, EditSpec, Begin, FindManifest, TakeOver,
           WriteResolved, ValidateContract, OptionsMalformed, Spawn, Poll, Kill, CheckRoot,
           EnsureControlRoot, Scaffold, BeginRun, MakeRun, WriteOwnerMode,
           TruncateOwnerMode, FillOwnerMode
  <2> SUFFICES ASSUME plan[l] # {} PROVE manifest.runs = {}
    BY <2>1 DEF WriteManifest
  <2>2. PICK r \in plan[l] : r.id = 1
    BY DEF IInv, Plans, WellPlanned
  <2>3. pc[l] = "runs" /\ next[l] > 1
    BY <2>1, <2>2 DEF WriteManifest, IInv, TypeOK
  <2> QED BY <2>3 DEF IInv, Makers, Making
<1> QED BY <1>1, Inductive, PTL DEF Spec, ManifestKept

-----------------------------------------------------------------------------
(***************************************************************************)
(* The caches of the runs, WarmCaches: whatever prewarms, teachers and     *)
(* prunes do to each other's packages.                                     *)
(***************************************************************************)

USE WarmCachesAssumption

\* the states of a prewarm
Job == [at : {"idle", "scan", "remove", "check", "get", "build"},
        try : 0..Retries, repo : BOOLEAN, clone : BOOLEAN]

\* What has a cache, is warmed, launched or at work is there.
Present ==
    /\ lake \subseteq made \cup {Hub}
    /\ \A s \in Site : Warming(s) => s \in made \cup {Hub}
    /\ \A r \in Run : script[r] # "none" => r \in made
    /\ cycle \subseteq lease

\* How far no run comes without packages that have been warm.
Warmed ==
    /\ codex \cup scope \cup (made \ needs) \subseteq warmed
    /\ \A r \in Run : script[r] \in {"mark", "init"} => r \in warmed

\* A candidate of the prune that is at work came to it after the prune looked.
Spared ==
    /\ prune.safe \cap prune.todo = {}
    /\ \A s \in prune.safe : Referenced(s) => s \in newcomers
    /\ \A s \in prune.todo \ prune.hints : Referenced(s) => s \in newcomers

\* A checkout to be removed is broken still, unless others are at it.
Broken ==
    /\ \A s, t \in Site : Overlap(s, t) => s \in met
    /\ \A s \in Site : /\ prewarm[s].clone => prewarm[s].at \in {"get", "build"}
                       /\ prewarm[s].at = "remove" => s \in met \/ ~ HasPackage(s)

CachesIInv == CachesTypeOK /\ Present /\ Warmed /\ Spared /\ Broken

\* what a step of the prewarm of s may do to it,
JobStep(s) ==
  \E p \in Job : /\ prewarm' = [prewarm EXCEPT ![s] = p]
                 /\ p.clone => p.at \in {"get", "build"}
                 /\ p.at = "remove" => UNCHANGED caches /\ ~ HasPackage(s)

\* to the script that waits for it
ScriptStep(s) ==
  \/ script' = script
  \/ /\ s \in Run /\ script[s] = "prewarm"
     /\ \/ script' = [script EXCEPT ![s] = "failed"]
        \/ script' = [script EXCEPT ![s] = "mark"] /\ s \in warmed'

\* and to the caches
CacheStep(s) ==
  \/ UNCHANGED caches
  \/ /\ link' = link /\ lake' \in {lake, lake \cup {s}} /\ {s, Store(s)} \subseteq lake'
     /\ built' \in BOOLEAN
     /\ \E k \in Package : pkg' = [pkg EXCEPT ![Store(s)] = k]
  \/ /\ lake' = lake /\ link' = link /\ built' = built
     /\ pkg' = [pkg EXCEPT ![Store(s)] = "none"]

\* the last step of a prewarm
LEMMA FinishEffect ==
  ASSUME NEW s \in Site, NEW ok \in BOOLEAN, Finish(s, ok), ok => s \in warmed'
  PROVE  JobStep(s) /\ ScriptStep(s)
<1>1. Idle \in Job /\ ~ Idle.clone /\ Idle.at = "idle"
  BY DEF Idle, Job, WarmCachesAssumption
<1>2. prewarm' = [prewarm EXCEPT ![s] = Idle]
  BY DEF Finish, SetPrewarm
<1>3. JobStep(s)
  BY <1>1, <1>2 DEF JobStep
<1>4. ScriptStep(s)
  BY DEF Finish, ScriptStep
<1> QED BY <1>3, <1>4

\* a failed attempt, whether it is the last or not
LEMMA RetryEffect ==
  ASSUME NEW s \in Site, Retry(s), prewarm[s] \in Job, prewarm[s].at \in {"get", "build"}
  PROVE  JobStep(s) /\ ScriptStep(s)
<1>1. CASE prewarm[s].try = Retries
  BY <1>1, FinishEffect DEF Retry
<1>2. CASE prewarm[s].try # Retries
  <2> DEFINE p == [prewarm[s] EXCEPT !.try = @ + 1, !.clone = FALSE]
  <2>1. prewarm[s].try + 1 \in 0..Retries
    BY <1>2 DEF Job, WarmCachesAssumption
  <2>2. p \in Job /\ p.at = prewarm[s].at /\ ~ p.clone
    BY <2>1 DEF Job
  <2>3. prewarm' = [prewarm EXCEPT ![s] = p] /\ script' = script
    BY <1>2 DEF Retry, SetPrewarm
  <2> HIDE DEF p
  <2> QED BY <2>2, <2>3 DEF JobStep, ScriptStep
<1> QED BY <1>1, <1>2

\* a step that only goes on to other work
LEMMA GoOnEffect ==
  ASSUME NEW s \in Site, NEW p \in Job, SetPrewarm(s, p), p.clone => p.at \in {"get",
         "build"},
         p.at # "remove", UNCHANGED script
  PROVE  JobStep(s) /\ ScriptStep(s)
BY DEF SetPrewarm, JobStep, ScriptStep

\* whatever a prewarm does, or that it is killed
LEMMA PrewarmEffect ==
  ASSUME CachesTypeOK, Broken, NEW s \in Site, Histories,
         PrewarmStep(s) \/ KillPrewarm(s)
  PROVE  /\ Warming(s) /\ JobStep(s) /\ ScriptStep(s) /\ CacheStep(s)
         /\ UNCHANGED <<made, needs, scope, codex, cycle, lease, fresh, prune, spent>>
<1>0. prewarm[s] \in Job /\ (prewarm[s].clone => prewarm[s].at \in {"get", "build"})
  BY DEF CachesTypeOK, Job, Broken
<1>w. prewarm[s].at # "idle" => Warming(s)
  BY DEF Warming, Idle
<1>t. 0 \in 0..Retries
  BY DEF WarmCachesAssumption
<1>u. UNCHANGED caches => CacheStep(s)
  BY DEF CacheStep
<1>h. Pkg(s)' = "warm" => s \in warmed'
  BY DEF Histories
<1>p. Pkg(s) # "none" => {s, Store(s)} \subseteq lake
  BY DEF Pkg
<1> DEFINE Rest == UNCHANGED <<made, needs, scope, codex, cycle, lease, fresh, prune, spent>>
<1>15. ASSUME PrewarmStep(s) PROVE Rest
  BY <1>15 DEF PrewarmStep, setup
<1>16. ASSUME KillPrewarm(s) PROVE Rest
  BY <1>16 DEF KillPrewarm, setup
<1> HIDE DEF Rest
<1>17. Rest
  BY <1>15, <1>16
<1> SUFFICES Warming(s) /\ JobStep(s) /\ ScriptStep(s) /\ CacheStep(s)
  BY <1>17 DEF Rest
<1>1. CASE Scan(s)
  <2>1. CASE Pkg(s) = "broken"
    <3> DEFINE p == [prewarm[s] EXCEPT !.at = "remove"]
    <3>1. p \in Job /\ ~ p.clone
      BY <1>0, <1>1 DEF Job, Scan
    <3>2. prewarm' = [prewarm EXCEPT ![s] = p] /\ UNCHANGED <<caches, script>>
      BY <1>1, <2>1 DEF Scan, SetPrewarm
    <3>3. ~ HasPackage(s)
      BY <2>1 DEF HasPackage
    <3> HIDE DEF p
    <3> QED BY <1>1, <1>u, <1>w, <3>1, <3>2, <3>3 DEF JobStep, ScriptStep, Scan
  <2>2. CASE Pkg(s) # "broken"
    <3> DEFINE p == [prewarm[s] EXCEPT !.at = "check"]
    <3>1. p \in Job /\ ~ p.clone /\ p.at # "remove"
      BY <1>0, <1>1 DEF Job, Scan
    <3>2. SetPrewarm(s, p) /\ UNCHANGED <<caches, script>>
      BY <1>1, <2>2 DEF Scan
    <3> HIDE DEF p
    <3> QED BY <1>1, <1>u, <1>w, <3>1, <3>2, GoOnEffect DEF Scan
  <2> QED BY <2>1, <2>2
<1>2. CASE RemoveBroken(s)
  <2>1. CASE Pkg(s) = "none"
    BY <1>2, <1>u, <1>w, <2>1, FinishEffect DEF RemoveBroken
  <2>2. CASE Pkg(s) # "none"
    <3> DEFINE p == [prewarm[s] EXCEPT !.at = "check"]
    <3>1. p \in Job /\ ~ p.clone /\ p.at # "remove"
      BY <1>0, <1>2 DEF Job, RemoveBroken
    <3>2. SetPrewarm(s, p) /\ UNCHANGED script
      BY <1>2, <2>2 DEF RemoveBroken
    <3>3. CacheStep(s)
      BY <1>2, <2>2 DEF RemoveBroken, CacheStep
    <3> HIDE DEF p
    <3> QED BY <1>2, <1>w, <3>1, <3>2, <3>3, GoOnEffect DEF RemoveBroken
  <2> QED BY <2>1, <2>2
<1>3. CASE CheckCache(s)
  <2> PICK at \in {"build", "get"} : SetPrewarm(s, [prewarm[s] EXCEPT !.at = at])
    BY <1>3 DEF CheckCache
  <2> DEFINE p == [prewarm[s] EXCEPT !.at = at]
  <2>1. p \in Job /\ ~ p.clone /\ p.at # "remove"
    BY <1>0, <1>3 DEF Job, CheckCache
  <2>2. SetPrewarm(s, p)
    OBVIOUS
  <2> HIDE DEF p
  <2> QED BY <1>3, <1>u, <1>w, <2>1, <2>2, GoOnEffect DEF CheckCache
<1>4. CASE BeginClone(s)
  <2> DEFINE p == [prewarm[s] EXCEPT !.clone = TRUE]
  <2>1. p \in Job /\ p.at \in {"get", "build"}
    BY <1>0, <1>4 DEF Job, BeginClone
  <2>2. SetPrewarm(s, p) /\ UNCHANGED script
    BY <1>4 DEF BeginClone
  <2>3. {s, Store(s)} \subseteq lake'
    BY <1>4 DEF BeginClone, Store, Dangling
  <2>4. "broken" \in Package /\ built \in BOOLEAN
    BY DEF Package, CachesTypeOK
  <2>5. CacheStep(s)
    BY <1>4, <2>3, <2>4 DEF BeginClone, CacheStep
  <2> HIDE DEF p
  <2> QED BY <1>4, <1>w, <2>1, <2>2, <2>5, GoOnEffect DEF BeginClone
<1>5. CASE EndClone(s)
  <2>0. Warming(s)
    BY <1>0, <1>5, <1>w DEF EndClone
  <2>1. CASE Pkg(s) = "none"
    BY <1>0, <1>5, <1>u, <2>0, <2>1, RetryEffect DEF EndClone
  <2>2. CASE Pkg(s) # "none"
    <3> DEFINE p == [prewarm[s] EXCEPT !.clone = FALSE]
    <3>1. p \in Job /\ p.at \in {"get", "build"}
      BY <1>0, <1>5 DEF Job, EndClone
    <3>2. SetPrewarm(s, p) /\ UNCHANGED script
      BY <1>5, <2>2 DEF EndClone
    <3>3. Store(s) \in Site /\ pkg \in [Site -> Package] /\ built \in BOOLEAN
      BY DEF Store, Site, CachesTypeOK
    <3>4. \E k \in Package : pkg' = [pkg EXCEPT ![Store(s)] = k]
      <4>1. CASE pkg[Store(s)] = "broken"
        <5>1. pkg' = [pkg EXCEPT ![Store(s)] = "source"]
          BY <1>5, <2>2, <3>3, <4>1 DEF EndClone
        <5> QED BY <5>1 DEF Package
      <4>2. CASE pkg[Store(s)] # "broken"
        <5>1. pkg' = [pkg EXCEPT ![Store(s)] = pkg[Store(s)]]
          BY <1>5, <2>2, <3>3, <4>2 DEF EndClone
        <5> QED BY <3>3, <5>1
      <4> QED BY <4>1, <4>2
    <3>5. CacheStep(s)
      BY <1>5, <1>p, <2>2, <3>3, <3>4 DEF EndClone, CacheStep
    <3> HIDE DEF p
    <3> QED BY <1>5, <2>0, <3>1, <3>2, <3>5, GoOnEffect DEF EndClone
  <2> QED BY <2>1, <2>2
<1>b. ASSUME GoOnToBuild(s), UNCHANGED script, ~ prewarm[s].clone
      PROVE  JobStep(s) /\ ScriptStep(s)
  <2> DEFINE p == [prewarm[s] EXCEPT !.at = "build", !.try = 0]
  <2>1. p \in Job /\ ~ p.clone /\ p.at # "remove"
    BY <1>0, <1>b, <1>t DEF Job
  <2>2. SetPrewarm(s, p)
    BY <1>b DEF GoOnToBuild
  <2> HIDE DEF p
  <2> QED BY <1>b, <2>1, <2>2, GoOnEffect
<1>m. ASSUME HasPackage(s), MakeWarm(s), UNCHANGED <<lake, link>>, built' \in BOOLEAN
      PROVE  CacheStep(s)
  <2>1. pkg' = [pkg EXCEPT ![Store(s)] = "warm"] /\ "warm" \in Package
    BY <1>m DEF MakeWarm, Package
  <2>2. {s, Store(s)} \subseteq lake'
    BY <1>m, <1>p DEF HasPackage
  <2> QED BY <1>m, <2>1, <2>2 DEF CacheStep
<1>6. CASE CacheGot(s)
  BY <1>6, <1>b, <1>m, <1>w DEF CacheGot, Working, CachesTypeOK
<1>7. CASE CacheUnavailable(s)
  BY <1>7, <1>b, <1>u, <1>w DEF CacheUnavailable, Working
<1>8. CASE FallBack(s)
  <2> DEFINE p == [prewarm[s] EXCEPT !.repo = FALSE]
  <2>1. p \in Job /\ ~ p.clone /\ p.at # "remove"
    BY <1>0, <1>8 DEF Job, FallBack, Working
  <2>2. SetPrewarm(s, p)
    BY <1>8 DEF FallBack
  <2> HIDE DEF p
  <2> QED BY <1>8, <1>u, <1>w, <2>1, <2>2, GoOnEffect DEF FallBack, Working
<1>9. CASE CacheFailed(s)
  BY <1>0, <1>9, <1>u, <1>w, RetryEffect DEF CacheFailed, Working
<1>10. CASE Verified(s)
  <2>1. Pkg(s)' = "warm"
    BY <1>10 DEF Verified, caches, Pkg, Store
  <2> QED BY <1>10, <1>h, <1>u, <1>w, <2>1, FinishEffect DEF Verified, Working
<1>11. CASE Built(s)
  <2>1. Store(s) \in Site /\ pkg \in [Site -> Package]
    BY DEF Store, Site, CachesTypeOK
  <2>2. Pkg(s)' = "warm"
    BY <1>11, <1>p, <2>1 DEF Built, MakeWarm, HasPackage, Pkg, Store
  <2>3. built' \in BOOLEAN
    BY <1>11 DEF Built, CachesTypeOK
  <2> QED BY <1>11, <1>h, <1>m, <1>w, <2>2, <2>3, FinishEffect DEF Built, Working
<1>12. CASE BuildFailed(s)
  BY <1>0, <1>12, <1>u, <1>w, RetryEffect DEF BuildFailed, Working
<1>13. CASE VerifyFileMissing(s)
  BY <1>13, <1>u, <1>w, FinishEffect DEF VerifyFileMissing, Working
<1>14. CASE KillPrewarm(s)
  BY <1>14, <1>u, FinishEffect DEF KillPrewarm, caches, setup
<1> QED
  BY <1>1, <1>2, <1>3, <1>4, <1>5, <1>6, <1>7, <1>8, <1>9, <1>10, <1>11, <1>12, <1>13, <1>14
  DEF PrewarmStep

\* The parts of the type invariant.
CacheType ==
    /\ lake \subseteq Site /\ link \subseteq Run \cap lake
    /\ pkg \in [Site -> Package] /\ built \in BOOLEAN
    /\ \A s \in Site : (s \notin lake \/ s \in link) => pkg[s] = "none"

TeacherType ==
    /\ made \subseteq Run /\ needs \subseteq made /\ scope \subseteq made
    /\ script \in [Run -> {"none", "bootstrap", "prewarm", "mark", "init", "codex",
                           "ended", "failed"}]
    /\ codex \subseteq made /\ cycle \subseteq codex
    /\ lease \subseteq made /\ fresh \subseteq lease

PruneType == [at : {"idle", "judge", "delete"}, hints : SUBSET Site,
              todo : SUBSET made, safe : SUBSET Site]
SpentType == [launch : 0..MaxLaunches, warm : 0..MaxWarmings, prune : 0..MaxPrunes]

HistoryType == newcomers \cup met \cup warmed \subseteq Site

\* the type invariant is the conjunction of these
LEMMA Types ==
  CachesTypeOK <=> /\ CacheType /\ TeacherType /\ HistoryType
             /\ prewarm \in [Site -> Job] /\ prune \in PruneType /\ spent \in SpentType
BY DEF CachesTypeOK, CacheType, TeacherType, HistoryType, Job, PruneType, SpentType

\* what the steps of a teacher leave alone
LEMMA TeacherFrame ==
  ASSUME NEW r \in Run, TeacherStep(r)
  PROVE  UNCHANGED <<caches, made, prune>>
BY DEF TeacherStep, LaunchTeacher, Bootstrap, MarkPrewarmComplete, InitProject, BeginCycle,
       EndCycle,
   HeartbeatAges, TeacherEnds, KillScript, setup, tools

\* what the steps of a prune leave alone
LEMMA PruneFrame ==
  ASSUME PruneStep
  PROVE  UNCHANGED <<setup, teacher, prewarm>>
BY DEF PruneStep, TakeHints, JudgeHub, EndPrune, Judge, Delete, SetPrune

\* each part of the invariant is kept by every step
LEMMA CacheTypeKept ==
  ASSUME CachesTypeOK, Present, Broken, CachesNext
  PROVE  CacheType'
<1>0. CacheType
  BY Types
<1>1. ASSUME UNCHANGED caches PROVE CacheType'
  BY <1>0, <1>1 DEF CacheType, caches
<1>2. ASSUME NEW r \in Run, NEW same \in BOOLEAN, CreateRun(r, same) PROVE CacheType'
  <2>1. r \notin lake /\ r \in Site /\ Hub \in Site
    BY <1>2 DEF CreateRun, Present, Site
  <2>2. link' \subseteq Run \cap lake'
    BY <1>0, <1>2 DEF CacheType, CreateRun, Pkg
  <2>3. lake \subseteq lake' /\ lake' \subseteq Site /\ link' \subseteq link \cup {r}
        /\ UNCHANGED <<pkg, built>>
    BY <1>0, <1>2, <2>1 DEF CacheType, CreateRun
  <2> QED BY <1>0, <2>1, <2>2, <2>3 DEF CacheType
<1>3. ASSUME NEW s \in Site, CacheStep(s) PROVE CacheType'
  <2>1. Store(s) \in Site \ link
    BY <1>0 DEF Store, Site, CacheType
  <2>2. CASE UNCHANGED caches
    BY <2>2, <1>1
  <2>3. ASSUME link' = link, lake' \in {lake, lake \cup {s}}, {s, Store(s)} \subseteq lake',
               built' \in BOOLEAN, NEW k \in Package, pkg' = [pkg EXCEPT ![Store(s)] = k]
        PROVE  CacheType'
    BY <1>0, <2>1, <2>3 DEF CacheType
  <2>4. ASSUME lake' = lake, link' = link, built' = built,
               pkg' = [pkg EXCEPT ![Store(s)] = "none"]
        PROVE  CacheType'
    <3>1. "none" \in Package
      BY DEF Package
    <3> QED BY <1>0, <2>1, <2>4, <3>1 DEF CacheType
  <2> QED BY <1>3, <2>2, <2>3, <2>4 DEF CacheStep
<1>4. ASSUME NEW s \in Site, Delete(s) PROVE CacheType'
  <2>0. \A k \in {"none", "broken"} : k \in Package
    BY DEF Package
  <2>1. ASSUME lake' = lake \ {s}, link' = link \ {s}, pkg' = [pkg EXCEPT ![s] = "none"],
               built' = (built /\ s # Hub)
        PROVE  CacheType'
    <3>1. built' \in BOOLEAN
      BY <1>0, <2>1 DEF CacheType
    <3> QED BY <1>0, <2>0, <2>1, <3>1 DEF CacheType
  <2>2. ASSUME s \in lake, s \notin link, NEW rest \in {"none", "broken"},
               pkg' = [pkg EXCEPT ![s] = rest], UNCHANGED <<lake, link, built>>
        PROVE  CacheType'
    BY <1>0, <2>0, <2>2 DEF CacheType
  <2> QED BY <1>4, <2>1, <2>2 DEF Delete
<1>5. ASSUME NEW r \in Run, TeacherStep(r) PROVE UNCHANGED caches
  BY <1>5, TeacherFrame
<1>6. ASSUME PruneStep PROVE CacheType'
  BY <1>1, <1>4, <1>6 DEF PruneStep, TakeHints, JudgeHub, EndPrune, Judge, SetPrune
<1>7. ASSUME NEW repo \in BOOLEAN, WarmHub(repo) PROVE UNCHANGED caches
  BY <1>7 DEF WarmHub
<1> HIDE DEF CacheType
<1> QED
  BY <1>1, <1>2, <1>3, <1>5, <1>6, <1>7, PrewarmEffect DEF CachesNext

\* (types of the teachers and of their scripts)
LEMMA TeacherTypeKept ==
  ASSUME CachesTypeOK, Present, Broken, CachesNext
  PROVE  TeacherType'
<1>0. TeacherType
  BY Types
<1>1. ASSUME UNCHANGED <<setup, teacher>> PROVE TeacherType'
  BY <1>0, <1>1 DEF TeacherType, setup, teacher
<1>2. ASSUME NEW r \in Run, NEW same \in BOOLEAN, CreateRun(r, same) PROVE TeacherType'
  BY <1>0, <1>2 DEF TeacherType, CreateRun, teacher
<1>3. ASSUME NEW s \in Site, ScriptStep(s),
             UNCHANGED <<made, needs, scope, codex, cycle, lease, fresh>>
      PROVE  TeacherType'
  BY <1>0, <1>3 DEF TeacherType, ScriptStep
<1>4. ASSUME NEW r \in Run, TeacherStep(r) PROVE TeacherType'
  <2>1. CASE LaunchTeacher(r)
    BY <1>0, <2>1 DEF TeacherType, LaunchTeacher, setup
  <2>2. CASE Bootstrap(r)
    BY <1>0, <2>2 DEF TeacherType, Bootstrap, setup, Present
  <2>3. CASE MarkPrewarmComplete(r)
    BY <1>0, <2>3 DEF TeacherType, MarkPrewarmComplete
  <2>4. CASE InitProject(r)
    BY <1>0, <2>4 DEF TeacherType, InitProject, Present
  <2>5. CASE BeginCycle(r)
    BY <1>0, <2>5 DEF TeacherType, BeginCycle, setup
  <2>6. CASE EndCycle(r)
    BY <1>0, <2>6 DEF TeacherType, EndCycle, setup
  <2>7. CASE HeartbeatAges(r)
    BY <1>0, <2>7 DEF TeacherType, HeartbeatAges, setup
  <2>8. CASE TeacherEnds(r)
    BY <1>0, <2>8 DEF TeacherType, TeacherEnds, setup
  <2>9. CASE KillScript(r)
    BY <1>0, <2>9 DEF TeacherType, KillScript, setup
  <2> QED BY <1>4, <2>1, <2>2, <2>3, <2>4, <2>5, <2>6, <2>7, <2>8, <2>9 DEF TeacherStep
<1>5. ASSUME PruneStep PROVE UNCHANGED <<setup, teacher>>
  BY <1>5, PruneFrame
<1>6. ASSUME NEW repo \in BOOLEAN, WarmHub(repo) PROVE UNCHANGED <<setup, teacher>>
  BY <1>6 DEF WarmHub
<1> HIDE DEF TeacherType
<1> QED
  BY <1>1, <1>2, <1>3, <1>4, <1>5, <1>6, PrewarmEffect DEF CachesNext

\* a prewarm begins for the hub, or for the run whose script asks for it
LEMMA BeginEffect ==
  ASSUME NEW s \in Site, NEW repo \in BOOLEAN,
         SetPrewarm(s, [Idle EXCEPT !.at = "scan", !.repo = repo])
  PROVE  JobStep(s)
<1>1. Idle \in Job /\ ~ Idle.clone
  BY DEF Idle, Job, WarmCachesAssumption
<1> DEFINE p == [Idle EXCEPT !.at = "scan", !.repo = repo]
<1>2. p \in Job /\ ~ p.clone /\ p.at # "remove"
  BY <1>1 DEF Job
<1>3. prewarm' = [prewarm EXCEPT ![s] = p]
  BY DEF SetPrewarm
<1> HIDE DEF p
<1> QED BY <1>2, <1>3 DEF JobStep

\* a bootstrap leaves the prewarm of its run alone or begins it
LEMMA BootstrapEffect ==
  ASSUME NEW r \in Run, Bootstrap(r)
  PROVE  UNCHANGED prewarm \/ JobStep(r)
BY BeginEffect DEF Bootstrap, Site

\* who has the prewarms change
LEMMA JobsStep ==
  ASSUME CachesTypeOK, Broken, CachesNext
  PROVE  \/ UNCHANGED prewarm
         \/ \E s \in Site : JobStep(s) /\ (Warming(s) \/ UNCHANGED caches)
                           /\ (Warming(s) \/ s = Hub \/ (s \in Run /\ script[s] = "bootstrap"))
<1>1. ASSUME NEW r \in Run, TeacherStep(r)
      PROVE  \/ UNCHANGED prewarm
             \/ JobStep(r) /\ UNCHANGED caches /\ script[r] = "bootstrap"
  <2>1. CASE Bootstrap(r)
    BY <2>1, BootstrapEffect DEF Bootstrap
  <2>2. CASE ~ Bootstrap(r)
    BY <1>1, <2>2 DEF TeacherStep, LaunchTeacher, MarkPrewarmComplete, InitProject,
       BeginCycle,
       EndCycle, HeartbeatAges, TeacherEnds, KillScript, tools
  <2> QED BY <2>1, <2>2
<1>2. ASSUME NEW repo \in BOOLEAN, WarmHub(repo)
      PROVE  JobStep(Hub) /\ UNCHANGED caches
  BY <1>2, BeginEffect DEF WarmHub, Site
<1>3. ASSUME PruneStep PROVE UNCHANGED prewarm
  BY <1>3, PruneFrame
<1>4. ASSUME NEW r \in Run, NEW same \in BOOLEAN, CreateRun(r, same) PROVE UNCHANGED prewarm
  BY <1>4 DEF CreateRun, tools
<1>5. Hub \in Site /\ Run \subseteq Site
  BY DEF Site
<1>6. CASE \E s \in Site : PrewarmStep(s) \/ KillPrewarm(s)
  <2> PICK s \in Site : PrewarmStep(s) \/ KillPrewarm(s)
    BY <1>6
  <2>1. Warming(s) /\ JobStep(s)
    BY PrewarmEffect DEF CachesNext
  <2> QED BY <2>1
<1>7. CASE \E repo \in BOOLEAN : WarmHub(repo)
  <2>1. JobStep(Hub) /\ UNCHANGED caches
    BY <1>2, <1>7
  <2> QED BY <1>5, <2>1
<1>8. CASE \E r \in Run : TeacherStep(r)
  BY <1>1, <1>5, <1>8
<1> QED
  BY <1>3, <1>4, <1>6, <1>7, <1>8 DEF CachesNext

\* (the types)
LEMMA CachesTypeKept ==
  ASSUME CachesTypeOK, Present, Broken, CachesNext
  PROVE  CachesTypeOK'
<1>0. made \subseteq Run /\ prewarm \in [Site -> Job] /\ prune \in PruneType
      /\ spent \in SpentType
  BY Types DEF TeacherType
<1>1. CacheType' /\ TeacherType'
  BY CacheTypeKept, TeacherTypeKept
<1>2. prewarm' \in [Site -> Job]
  BY <1>0, JobsStep DEF JobStep
<1>3. HistoryType'
  BY Types DEF CachesNext, Histories, HistoryType
<1>4. made \subseteq made'
  <2>1. ASSUME NEW r \in Run, TeacherStep(r) PROVE UNCHANGED made
    BY <2>1, TeacherFrame
  <2>2. ASSUME PruneStep PROVE UNCHANGED made
    BY <2>2, PruneFrame DEF setup
  <2>3. ASSUME NEW r \in Run, NEW same \in BOOLEAN, CreateRun(r, same)
        PROVE made \subseteq made'
    BY <2>3 DEF CreateRun
  <2>4. ASSUME NEW repo \in BOOLEAN, WarmHub(repo) PROVE UNCHANGED made
    BY <2>4 DEF WarmHub, setup
  <2> QED BY <2>1, <2>2, <2>3, <2>4, PrewarmEffect DEF CachesNext
<1>5. (UNCHANGED prune \/ prune' \in PruneType') /\ spent' \in SpentType
  <2>p. prune.hints \subseteq Site /\ prune.todo \subseteq made /\ prune.safe \subseteq Site
    BY <1>0 DEF PruneType
  <2>1. ASSUME NEW r \in Run, TeacherStep(r) PROVE UNCHANGED prune /\ spent' \in SpentType
    <3>1. CASE LaunchTeacher(r)
      <4>1. spent.launch + 1 \in 0..MaxLaunches
        BY <1>0, <3>1 DEF LaunchTeacher, SpentType, WarmCachesAssumption
      <4> QED BY <1>0, <3>1, <4>1 DEF LaunchTeacher, SpentType
    <3>2. CASE ~ LaunchTeacher(r)
      BY <1>0, <2>1, <3>2 DEF TeacherStep, Bootstrap, MarkPrewarmComplete, InitProject,
         BeginCycle, EndCycle, HeartbeatAges, TeacherEnds, KillScript, tools
    <3> QED BY <3>1, <3>2
  <2>2. CASE TakeHints
    <3>1. spent.prune + 1 \in 0..MaxPrunes
      BY <1>0, <2>2 DEF TakeHints, SpentType, WarmCachesAssumption
    <3>2. spent' \in SpentType
      BY <1>0, <2>2, <3>1 DEF TakeHints, SpentType
    <3>3. prune' = [at |-> "judge", hints |-> {t \in Site : Referenced(t)},
                    todo |-> made \cap lake, safe |-> {}]
      BY <2>2 DEF TakeHints, SetPrune
    <3>4. prune' \in PruneType'
      BY <1>4, <3>3 DEF PruneType
    <3> QED BY <3>2, <3>4
  <2>3. ASSUME NEW r \in Run, Judge(r) PROVE prune' \in PruneType' /\ spent' \in SpentType
    <3> PICK safe \in {prune.safe, prune.safe \cup {r}} :
           prune' = [prune EXCEPT !.todo = @ \ {r}, !.safe = safe]
      BY <2>3 DEF Judge, SetPrune
    <3>1. safe \subseteq Site
      BY <2>p DEF Site
    <3>2. prune' \in PruneType'
      BY <1>0, <1>4, <2>p, <3>1 DEF PruneType
    <3> QED BY <1>0, <2>3, <3>2 DEF Judge
  <2>4. ASSUME JudgeHub PROVE prune' \in PruneType' /\ spent' \in SpentType
    <3> PICK safe \in {prune.safe, prune.safe \cup {Hub}} :
           prune' = [prune EXCEPT !.at = "delete", !.safe = safe]
      BY <2>4 DEF JudgeHub, SetPrune
    <3>1. safe \subseteq Site
      BY <2>p DEF Site
    <3>2. prune' \in PruneType'
      BY <1>0, <1>4, <2>p, <3>1 DEF PruneType
    <3> QED BY <1>0, <2>4, <3>2 DEF JudgeHub
  <2>5. NoPrune \in PruneType'
    BY DEF NoPrune, PruneType
  <2>6. ASSUME NEW s \in Site, Delete(s) PROVE prune' \in PruneType' /\ spent' \in SpentType
    <3>1. prune' = NoPrune \/ prune' = [prune EXCEPT !.safe = @ \ {s}]
      BY <2>6 DEF Delete
    <3>2. ASSUME prune' = [prune EXCEPT !.safe = @ \ {s}] PROVE prune' \in PruneType'
      BY <1>0, <1>4, <2>p, <3>2 DEF PruneType
    <3> QED BY <1>0, <2>5, <2>6, <3>1, <3>2 DEF Delete
  <2>7. ASSUME EndPrune PROVE prune' \in PruneType' /\ spent' \in SpentType
    BY <1>0, <2>5, <2>7 DEF EndPrune, SetPrune
  <2>8. ASSUME NEW repo \in BOOLEAN, WarmHub(repo)
        PROVE UNCHANGED prune /\ spent' \in SpentType
    <3>1. spent.warm + 1 \in 0..MaxWarmings
      BY <1>0, <2>8 DEF WarmHub, SpentType, WarmCachesAssumption
    <3> QED BY <1>0, <2>8, <3>1 DEF WarmHub, SpentType
  <2>9. ASSUME NEW r \in Run, NEW same \in BOOLEAN, CreateRun(r, same)
        PROVE  UNCHANGED prune /\ spent' \in SpentType
    BY <1>0, <2>9 DEF CreateRun, tools
  <2>10. ASSUME NEW s \in Site, PrewarmStep(s) \/ KillPrewarm(s)
         PROVE  UNCHANGED prune /\ spent' \in SpentType
    <3>1. UNCHANGED <<prune, spent>>
      BY <2>10 DEF PrewarmStep, KillPrewarm
    <3> QED BY <1>0, <3>1
  <2> QED
    BY <2>1, <2>2, <2>3, <2>4, <2>6, <2>7, <2>8, <2>9, <2>10 DEF CachesNext, PruneStep
<1>6. UNCHANGED prune => prune' \in PruneType'
  BY <1>0, <1>4 DEF PruneType
<1> QED BY <1>1, <1>2, <1>3, <1>5, <1>6 DEF CachesTypeOK, CacheType, TeacherType,
           HistoryType, Job,
         PruneType, SpentType

\* nothing begins for a run that is not there
LEMMA PresentKept ==
  ASSUME CachesTypeOK, Present, Broken, CachesNext
  PROVE  Present'
<1>0. made \subseteq Run /\ cycle \subseteq codex /\ codex \subseteq made
      /\ script \in [Run -> {"none", "bootstrap", "prewarm", "mark", "init", "codex",
                             "ended", "failed"}]
  BY DEF CachesTypeOK
<1> DEFINE There ==
        /\ lake \subseteq made \cup {Hub}
        /\ \A r \in Run : script[r] # "none" => r \in made
        /\ cycle \subseteq lease
<1>1. There
  BY DEF Present
<1>2. There' /\ made \subseteq made'
  <2>1. ASSUME UNCHANGED <<lake, made, script, cycle, lease>>
        PROVE There' /\ made \subseteq made'
    BY <1>1, <2>1
  <2>2. ASSUME NEW r \in Run, NEW same \in BOOLEAN, CreateRun(r, same)
        PROVE  There' /\ made \subseteq made'
    BY <1>1, <2>2 DEF CreateRun, teacher
  <2>3. ASSUME NEW s \in Site, Warming(s), ScriptStep(s), CacheStep(s),
               UNCHANGED <<made, needs, scope, codex, cycle, lease, fresh>>
        PROVE  There' /\ made \subseteq made'
    <3>1. lake' \subseteq lake \cup {s}
      BY <2>3 DEF CacheStep, caches
    <3>2. s \in made \cup {Hub}
      BY <2>3 DEF Present
    <3>3. \A r \in Run : script'[r] # "none" => script[r] # "none"
      BY <1>0, <2>3 DEF ScriptStep
    <3> QED BY <1>1, <2>3, <3>1, <3>2, <3>3
  <2>4. ASSUME NEW r \in Run, TeacherStep(r) PROVE There' /\ made \subseteq made'
    <3>1. UNCHANGED <<lake, made>>
      BY <2>4, TeacherFrame DEF caches
    <3>2. r \in made /\ \A q \in Run \ {r} : script'[q] = script[q]
      BY <1>0, <1>1, <2>4 DEF TeacherStep, LaunchTeacher, Bootstrap, MarkPrewarmComplete,
         InitProject,
         BeginCycle, EndCycle, HeartbeatAges, TeacherEnds, KillScript, ScriptLive,
         CachesTypeOK
    <3>3. cycle' \subseteq lease'
      BY <1>1, <2>4 DEF TeacherStep, LaunchTeacher, Bootstrap, MarkPrewarmComplete,
         InitProject,
         BeginCycle, EndCycle, HeartbeatAges, TeacherEnds, KillScript
    <3> QED BY <1>1, <3>1, <3>2, <3>3
  <2>5. ASSUME PruneStep PROVE There' /\ made \subseteq made'
    <3>1. UNCHANGED <<made, script, cycle, lease>>
      BY <2>5, PruneFrame DEF setup, teacher
    <3>2. lake' \subseteq lake
      BY <2>5 DEF PruneStep, TakeHints, JudgeHub, EndPrune, Judge, Delete, SetPrune, caches
    <3> QED BY <1>1, <3>1, <3>2
  <2>6. ASSUME NEW repo \in BOOLEAN, WarmHub(repo)
        PROVE  UNCHANGED <<lake, made, script, cycle, lease>>
    BY <2>6 DEF WarmHub, caches, setup, teacher
  <2> HIDE DEF There
  <2> QED BY <2>1, <2>2, <2>3, <2>4, <2>5, <2>6, PrewarmEffect DEF CachesNext
<1>3. ASSUME NEW s \in Site, Warming(s)' PROVE s \in made' \cup {Hub}
  <2>1. CASE Warming(s)
    BY <1>2, <2>1 DEF Present
  <2>2. CASE ~ Warming(s)
    <3>0. prewarm \in [Site -> Job] /\ prewarm[s] = Idle
      BY <2>2, Types DEF Warming
    <3>1. PICK t \in Site : /\ JobStep(t)
                            /\ Warming(t) \/ t = Hub \/ (t \in Run /\ script[t] = "bootstrap")
      BY <1>3, <2>2, JobsStep DEF Warming
    <3>2. s = t
      BY <1>3, <3>0, <3>1 DEF JobStep, Warming
    <3> QED BY <1>1, <1>2, <2>2, <3>1, <3>2
  <2> QED BY <2>1, <2>2
<1> QED BY <1>2, <1>3 DEF Present, Site

\* a script goes on to "mark" or "init" only past warm packages
LEMMA WarmedKept ==
  ASSUME CachesTypeOK, Present, Warmed, Broken, CachesNext
  PROVE  Warmed'
<1>0. made \subseteq Run /\ needs \subseteq made
      /\ script \in [Run -> {"none", "bootstrap", "prewarm", "mark", "init", "codex",
                             "ended", "failed"}]
  BY DEF CachesTypeOK
<1>1. /\ warmed \subseteq warmed'
      /\ \A r \in Run : Reused(r) => r \in warmed'
  BY DEF CachesNext, Histories, Site
<1>2. ASSUME UNCHANGED <<codex, scope, made, needs, script>> PROVE Warmed'
  BY <1>1, <1>2 DEF Warmed
<1>3. ASSUME NEW r \in Run, NEW same \in BOOLEAN, CreateRun(r, same) PROVE Warmed'
  <2>1. UNCHANGED <<codex, scope, script>> /\ made' = made \cup {r}
    BY <1>3 DEF CreateRun, teacher
  <2>2. needs' = needs \cup {r} \/ (needs' = needs /\ r \in warmed')
    <3>1. CASE needs' = needs
      BY <1>0, <1>1, <1>3, <3>1 DEF CreateRun, Reused
    <3> QED BY <1>3, <3>1 DEF CreateRun
  <2> QED BY <1>1, <2>1, <2>2 DEF Warmed
<1>4. ASSUME NEW s \in Site, ScriptStep(s), UNCHANGED <<codex, scope, made, needs>>
      PROVE  Warmed'
  <2>1. \A r \in Run : script'[r] \in {"mark", "init"} => r \in warmed'
    BY <1>0, <1>1, <1>4 DEF ScriptStep, Warmed
  <2> QED BY <1>1, <1>4, <2>1 DEF Warmed
<1>5. ASSUME NEW r \in Run, TeacherStep(r) PROVE Warmed'
  <2>0. Warmed
    OBVIOUS
  <2>1. CASE LaunchTeacher(r)
    BY <1>0, <1>1, <2>0, <2>1 DEF LaunchTeacher, setup, Warmed
  <2>2. CASE Bootstrap(r)
    <3>1. r \in made
      BY <1>0, <2>2 DEF Bootstrap, Present
    <3>2. CASE r \notin scope /\ r \in needs
      BY <1>0, <1>1, <2>0, <2>2, <3>2 DEF Bootstrap, setup, Warmed
    <3>3. CASE ~ (r \notin scope /\ r \in needs)
      BY <1>0, <1>1, <2>0, <2>2, <3>1, <3>3 DEF Bootstrap, setup, Warmed
    <3> QED BY <3>2, <3>3
  <2>3. CASE MarkPrewarmComplete(r)
    BY <1>0, <1>1, <2>0, <2>3 DEF MarkPrewarmComplete, Warmed
  <2>4. CASE InitProject(r)
    BY <1>0, <1>1, <2>0, <2>4 DEF InitProject, Warmed
  <2>5. CASE BeginCycle(r) \/ EndCycle(r) \/ HeartbeatAges(r)
    BY <1>2, <2>5 DEF BeginCycle, EndCycle, HeartbeatAges, setup
  <2>6. CASE TeacherEnds(r)
    <3>1. codex' \subseteq codex /\ UNCHANGED <<made, needs, scope>>
          /\ \A q \in Run : script'[q] \in {"mark", "init"} => script'[q] = script[q]
      BY <1>0, <2>6 DEF TeacherEnds, setup
    <3> QED BY <1>1, <2>0, <3>1 DEF Warmed
  <2>7. CASE KillScript(r)
    BY <1>0, <1>1, <2>0, <2>7 DEF KillScript, setup, Warmed
  <2> QED BY <1>5, <2>1, <2>2, <2>3, <2>4, <2>5, <2>6, <2>7 DEF TeacherStep
<1>6. ASSUME PruneStep PROVE UNCHANGED <<codex, scope, made, needs, script>>
  BY <1>6, PruneFrame DEF setup, teacher
<1>7. ASSUME NEW repo \in BOOLEAN, WarmHub(repo)
      PROVE  UNCHANGED <<codex, scope, made, needs, script>>
  BY <1>7 DEF WarmHub, setup, teacher
<1> QED BY <1>2, <1>3, <1>4, <1>5, <1>6, <1>7, PrewarmEffect DEF CachesNext

\* nobody but a prewarm on the same packages repairs a checkout
LEMMA StaysBroken ==
  ASSUME CachesTypeOK, Present, Broken, CachesNext, NEW s \in Site,
         Warming(s), ~ HasPackage(s), s \notin met,
         prewarm'[s].at = "remove"
  PROVE  ~ HasPackage(s)'
<1>0. /\ CacheType /\ Store(s) \in Site \ link
      /\ prewarm \in [Site -> Job] /\ s \in made \cup {Hub}
  BY Types DEF CachesTypeOK, Store, Site, Present
<1>1. ASSUME UNCHANGED caches PROVE ~ HasPackage(s)'
  BY <1>1 DEF caches, HasPackage, Pkg, Store
<1>2. ASSUME NEW r \in Run, NEW same \in BOOLEAN, CreateRun(r, same) PROVE ~ HasPackage(s)'
  <2>1. r # s /\ Hub # r
    BY <1>0, <1>2 DEF CreateRun, WarmCachesAssumption
  <2>2. Store(s)' = Store(s) /\ pkg' = pkg
    BY <1>2, <2>1 DEF CreateRun, Store
  <2>3. ~ ({s, Store(s)} \subseteq lake) => ~ ({s, Store(s)} \subseteq lake')
    BY <1>2, <2>1 DEF CreateRun, Store
  <2> QED BY <2>2, <2>3 DEF HasPackage, Pkg
<1>3. ASSUME NEW t \in Site, Warming(t), JobStep(t), CacheStep(t) PROVE ~ HasPackage(s)'
  <2>1. CASE t = s
    <3>1. UNCHANGED caches
      BY <1>0, <1>3, <2>1 DEF JobStep
    <3> QED BY <1>1, <3>1
  <2>2. CASE t # s
    <3>1. Store(t) # Store(s)
      BY <1>3, <2>2 DEF Broken, Overlap
    <3>2. t # Store(s)
      BY <2>2, <3>1, <1>0 DEF Store, CacheType, WarmCachesAssumption
    <3>3. CASE UNCHANGED caches
      BY <1>1, <3>3
    <3>4. CASE ~ UNCHANGED caches
      <4>1. PICK k : pkg' = [pkg EXCEPT ![Store(t)] = k]
        BY <1>3, <3>4 DEF CacheStep
      <4>2. link' = link /\ lake' \in {lake, lake \cup {t}}
        BY <1>3, <3>4 DEF CacheStep
      <4>3. Store(s)' = Store(s)
        BY <4>2 DEF Store
      <4>4. pkg'[Store(s)] = pkg[Store(s)]
        BY <1>0, <3>1, <4>1 DEF CacheType
      <4>5. {s, Store(s)} \subseteq lake' => {s, Store(s)} \subseteq lake
        BY <2>2, <3>2, <4>2
      <4> QED BY <4>3, <4>4, <4>5 DEF HasPackage, Pkg
    <3> QED BY <3>3, <3>4
  <2> QED BY <2>1, <2>2
<1>4. ASSUME NEW t \in Site, Delete(t) PROVE ~ HasPackage(s)'
  <2>1. ASSUME lake' = lake \ {t}, link' = link \ {t}, pkg' = [pkg EXCEPT ![t] = "none"]
        PROVE  ~ HasPackage(s)'
    <3>1. CASE s = t
      BY <2>1, <3>1 DEF HasPackage, Pkg
    <3>2. CASE s # t
      <4>1. Store(s)' = Store(s)
        BY <2>1, <3>2 DEF Store
      <4>2. CASE Store(s) = t
        BY <2>1, <4>1, <4>2 DEF HasPackage, Pkg
      <4>3. CASE Store(s) # t
        BY <1>0, <2>1, <4>1, <4>3 DEF HasPackage, Pkg, CacheType
      <4> QED BY <4>2, <4>3
    <3> QED BY <3>1, <3>2
  <2>2. ASSUME NEW rest \in {"none", "broken"}, pkg' = [pkg EXCEPT ![t] = rest],
               UNCHANGED <<lake, link, built>>
        PROVE  ~ HasPackage(s)'
    <3>1. Store(s)' = Store(s)
      BY <2>2 DEF Store
    <3>2. pkg'[Store(s)] \in {pkg[Store(s)], rest}
      BY <1>0, <2>2 DEF CacheType
    <3> QED BY <2>2, <3>1, <3>2 DEF HasPackage, Pkg
  <2> QED BY <1>4, <2>1, <2>2 DEF Delete
<1>5. ASSUME NEW r \in Run, TeacherStep(r) PROVE UNCHANGED caches
  BY <1>5, TeacherFrame
<1>6. ASSUME PruneStep, ~ \E t \in Site : Delete(t) PROVE UNCHANGED caches
  BY <1>6 DEF PruneStep, TakeHints, JudgeHub, EndPrune, Judge, SetPrune
<1>7. ASSUME NEW repo \in BOOLEAN, WarmHub(repo) PROVE UNCHANGED caches
  BY <1>7 DEF WarmHub
<1> QED BY <1>1, <1>2, <1>3, <1>4, <1>5, <1>6, <1>7, PrewarmEffect DEF CachesNext

\* the list of broken packages goes stale only by an overlap
LEMMA BrokenKept ==
  ASSUME CachesTypeOK, Present, Broken, CachesNext
  PROVE  Broken'
<1>0. prewarm \in [Site -> Job]
  BY Types
<1>1. ASSUME NEW s \in Site, NEW t \in Site, Overlap(s, t)' PROVE s \in met'
  BY <1>1 DEF CachesNext, Histories, Overlap
<1>2. ASSUME NEW s \in Site, prewarm'[s].clone PROVE prewarm'[s].at \in {"get", "build"}
  BY <1>0, <1>2, JobsStep DEF JobStep, Broken
<1>3. ASSUME NEW s \in Site, prewarm'[s].at = "remove" PROVE s \in met' \/ ~ HasPackage(s)'
  <2>0. Warming(s)'
    BY <1>3 DEF Warming, Idle
  <2>1. CASE prewarm[s].at = "remove"
    <3>1. Warming(s)
      BY <2>1 DEF Warming, Idle
    <3>2. CASE s \in met
      BY <2>0, <3>2 DEF CachesNext, Histories
    <3>3. CASE s \notin met
      BY <1>3, <2>1, <3>1, <3>3, StaysBroken DEF Broken
    <3> QED BY <3>2, <3>3
  <2>2. CASE prewarm[s].at # "remove"
    <3>1. PICK t \in Site : JobStep(t)
      BY <1>3, <2>2, JobsStep
    <3>2. s = t
      BY <1>0, <1>3, <2>2, <3>1 DEF JobStep
    <3>3. UNCHANGED caches /\ ~ HasPackage(s)
      BY <1>0, <1>3, <3>1, <3>2 DEF JobStep
    <3> QED BY <3>3 DEF caches, HasPackage, Pkg, Store
  <2> QED BY <2>1, <2>2
<1> QED BY <1>1, <1>2, <1>3 DEF Broken, Site

\* the two looks of a prune, and the lease in between
LEMMA SparedKept ==
  ASSUME CachesTypeOK, Present, Spared, Broken, CachesNext
  PROVE  Spared'
<1> DEFINE Fine(s) == Referenced(s) => s \in newcomers
           Begins == prune.at = "idle" /\ prune'.at = "judge"
<1>0. prune \in PruneType /\ made \subseteq Run /\ Run \subseteq Site /\ cycle \subseteq lease
  BY Types DEF TeacherType, Present, Site
<1>p. prune.hints \subseteq Site /\ prune.todo \subseteq Site /\ prune.safe \subseteq Site
  BY <1>0 DEF PruneType
<1>1. ASSUME NEW s \in Site, Fine(s), ~ Begins,
             ~ (s \in prune.todo /\ s \notin prune'.todo /\ s \in cycle)
      PROVE  Fine(s)'
  BY <1>1 DEF CachesNext, Histories
<1>2. /\ \A s \in prune.safe : Fine(s)
      /\ \A s \in prune.todo \ prune.hints : Fine(s)
  BY DEF Spared
<1>s. ASSUME prune'.safe \cap prune'.todo = {},
             \A s \in prune'.safe : Fine(s)',
             \A s \in prune'.todo \ prune'.hints : Fine(s)'
      PROVE  Spared'
  BY <1>s DEF Spared
<1>3. ASSUME UNCHANGED prune PROVE Spared'
  <2>1. ~ Begins
    BY <1>3
  <2>2. \A s \in prune.safe : Fine(s)'
    BY <1>1, <1>2, <1>3, <1>p, <2>1
  <2>3. \A s \in prune.todo \ prune.hints : Fine(s)'
    BY <1>1, <1>2, <1>3, <1>p, <2>1
  <2> QED BY <1>3, <1>s, <2>2, <2>3 DEF Spared
<1>4. ASSUME prune' = NoPrune PROVE Spared'
  BY <1>4, <1>s DEF NoPrune
<1>5. CASE TakeHints
  <2>1. prune'.safe = {} /\ prune'.todo = made \cap lake
        /\ prune'.hints = {s \in Site : Referenced(s)}
    BY <1>5 DEF TakeHints, SetPrune
  <2>2. \A s \in Site : ~ Referenced(s) => ~ Referenced(s)'
    BY <1>5 DEF TakeHints, SetPrune, teacher, Referenced, Warming, ScriptLive
  <2>3. \A s \in prune'.todo \ prune'.hints : Fine(s)'
    BY <1>0, <2>1, <2>2
  <2> QED BY <1>s, <2>1, <2>3
<1>6. ASSUME NEW r \in Run, Judge(r) PROVE Spared'
  <2>1. /\ prune.at = "judge" /\ r \in prune.todo
        /\ prune'.at = prune.at /\ prune'.hints = prune.hints /\ prune'.todo = prune.todo \ {r}
        /\ prune'.safe = IF Unprotected(r) THEN prune.safe \cup {r} ELSE prune.safe
    BY <1>0, <1>6 DEF Judge, SetPrune, PruneType
  <2>2. ~ Begins
    BY <2>1
  <2>3. ASSUME NEW s \in prune.safe PROVE Fine(s)'
    <3>1. s \notin prune.todo
      BY DEF Spared
    <3> QED BY <1>1, <1>2, <1>p, <2>2, <3>1
  <2>4. ASSUME Unprotected(r) PROVE Fine(r)'
    <3>1. r \in prune.todo \ prune.hints /\ r \notin cycle
      BY <1>0, <2>1, <2>4 DEF Unprotected, LeaseActive
    <3> QED BY <1>0, <1>1, <1>2, <2>2, <3>1
  <2>5. ASSUME NEW s \in prune'.todo \ prune'.hints PROVE Fine(s)'
    <3>1. s \in prune.todo \ prune.hints
      BY <2>1
    <3> QED BY <1>1, <1>2, <1>p, <2>2, <3>1
  <2>6. prune'.safe \cap prune'.todo = {}
    BY <2>1 DEF Spared
  <2> HIDE DEF Fine
  <2>7. \A s \in prune'.safe : Fine(s)'
    BY <2>1, <2>3, <2>4
  <2> QED BY <1>s, <2>5, <2>6, <2>7
<1>7. CASE JudgeHub
  <2>1. /\ prune.at = "judge" /\ prune.todo = {}
        /\ prune'.at = "delete" /\ prune'.todo = prune.todo
        /\ prune'.safe = IF Hub \in lake /\ ~ Referenced(Hub) THEN prune.safe \cup {Hub}
                                                              ELSE prune.safe
    BY <1>0, <1>7 DEF JudgeHub, SetPrune, PruneType
  <2>2. ~ Begins
    BY <2>1
  <2>3. \A s \in prune.safe : Fine(s)'
    BY <1>1, <1>2, <1>p, <2>1, <2>2
  <2>4. ASSUME ~ Referenced(Hub) PROVE Fine(Hub)'
    BY <1>1, <2>1, <2>2, <2>4 DEF Site
  <2> HIDE DEF Fine
  <2>5. \A s \in prune'.safe : Fine(s)'
    BY <2>1, <2>3, <2>4
  <2> QED BY <1>s, <2>1, <2>5
<1>8. ASSUME NEW t \in Site, Delete(t) PROVE Spared'
  <2>1. CASE prune' = NoPrune
    BY <1>4, <2>1
  <2>2. CASE prune' # NoPrune
    <3>1. prune' = [prune EXCEPT !.safe = @ \ {t}]
      BY <1>8, <2>2 DEF Delete
    <3>2. prune'.safe \subseteq prune.safe /\ prune'.todo = prune.todo
          /\ prune'.hints = prune.hints /\ prune'.at = prune.at
      BY <1>0, <3>1 DEF PruneType
    <3>3. ~ Begins
      BY <3>2
    <3>4. \A s \in prune'.safe : Fine(s)'
      BY <1>1, <1>2, <1>p, <3>2, <3>3
    <3>5. \A s \in prune'.todo \ prune'.hints : Fine(s)'
      BY <1>1, <1>2, <1>p, <3>2, <3>3
    <3>6. prune'.safe \cap prune'.todo = {}
      BY <3>2 DEF Spared
    <3> QED BY <1>s, <3>4, <3>5, <3>6
  <2> QED BY <2>1, <2>2
<1>9. CASE EndPrune
  BY <1>4, <1>9 DEF EndPrune, SetPrune
<1>10. ASSUME NEW r \in Run, TeacherStep(r) PROVE UNCHANGED prune
  BY <1>10, TeacherFrame
<1>11. ASSUME NEW repo \in BOOLEAN, WarmHub(repo) PROVE UNCHANGED prune
  BY <1>11 DEF WarmHub
<1>12. ASSUME NEW r \in Run, NEW same \in BOOLEAN, CreateRun(r, same) PROVE UNCHANGED prune
  BY <1>12 DEF CreateRun, tools
<1>13. ASSUME NEW s \in Site, PrewarmStep(s) \/ KillPrewarm(s) PROVE UNCHANGED prune
  BY <1>13 DEF PrewarmStep, KillPrewarm
<1> QED BY <1>3, <1>5, <1>6, <1>7, <1>8, <1>9, <1>10, <1>11, <1>12, <1>13 DEF CachesNext,
           PruneStep

(* The invariant that the promises of the caches rest on.                  *)
THEOREM CachesInductive == CachesSpec => []CachesIInv
<1>1. CachesInit => CachesIInv
  <2> SUFFICES ASSUME CachesInit PROVE CachesIInv
    OBVIOUS
  <2>0. Idle \in Job /\ ~ Idle.clone /\ Idle.at = "idle"
    BY DEF Idle, Job, WarmCachesAssumption
  <2>1. CacheType /\ TeacherType /\ HistoryType
    BY DEF CachesInit, CacheType, TeacherType, HistoryType, Package, Site
  <2>2. prewarm \in [Site -> Job] /\ prune \in PruneType /\ spent \in SpentType
    BY <2>0 DEF CachesInit, PruneType, SpentType, WarmCachesAssumption
  <2>3. \A s \in Site : prewarm[s] = Idle
    BY DEF CachesInit
  <2>4. Present /\ Warmed
    BY <2>3 DEF CachesInit, Present, Warmed, Warming
  <2>5. Spared
    BY DEF CachesInit, Spared
  <2>6. Broken
    BY <2>0, <2>3 DEF Broken, Overlap, Warming
  <2> QED BY <2>1, <2>2, <2>4, <2>5, <2>6, Types DEF CachesIInv
<1>2. CachesIInv /\ [CachesNext]_cachesVars => CachesIInv'
  <2> SUFFICES ASSUME CachesIInv, [CachesNext]_cachesVars PROVE CachesIInv'
    OBVIOUS
  <2>1. CASE CachesNext
    BY <2>1, CachesTypeKept, PresentKept, WarmedKept, SparedKept, BrokenKept DEF CachesIInv
  <2>2. CASE UNCHANGED cachesVars
    <3>1. CachesTypeOK'
      BY <2>2 DEF CachesIInv, CachesTypeOK, cachesVars, caches, setup, teacher, tools
    <3>2. Present'
      BY <2>2 DEF CachesIInv, Present, Warming, cachesVars, caches, setup, teacher, tools
    <3>3. Warmed'
      BY <2>2 DEF CachesIInv, Warmed, cachesVars, caches, setup, teacher, tools
    <3>4. Spared'
      BY <2>2 DEF CachesIInv, Spared, Referenced, Warming, ScriptLive, cachesVars, caches,
         setup, teacher,
         tools
    <3>5. Broken'
      BY <2>2 DEF CachesIInv, Broken, Overlap, HasPackage, Pkg, Store, Warming, cachesVars,
         caches, setup,
         teacher, tools
    <3> QED BY <3>1, <3>2, <3>3, <3>4, <3>5 DEF CachesIInv
  <2> QED BY <2>1, <2>2
<1> QED BY <1>1, <1>2, PTL DEF CachesSpec

(* The variables have their types; a teacher first begins in a workspace   *)
(* whose packages have been warm, whatever launch failed or died before;   *)
(* and the reports on one directory agree.                                 *)
THEOREM CachesCorrect == CachesSpec => []CachesInv
<1>1. CachesIInv => CachesInv
  <2> SUFFICES ASSUME CachesIInv PROVE CachesInv
    OBVIOUS
  <2>1. StartsWarm
    BY DEF CachesIInv, Warmed, StartsWarm
  <2> DEFINE free == Hub \in lake /\ ~ Referenced(Hub)
  <2>2. HubAdvice = "prune_cache_only" <=> free
    BY DEF HubAdvice, RetentionAction, RetentionKind
  <2>3. CloneAdvice.emergency = "prune_clone_lake_only" <=> free
    BY DEF CloneAdvice, BenchmarkCloneAction
  <2>4. ASSUME NEW exported \in BOOLEAN, CampaignAdvice(exported) = "archive_or_delete_root"
        PROVE  exported /\ \A r \in made : ~ Referenced(r)
    BY <2>4 DEF CampaignAdvice, RetentionAction, RetentionKind, CampaignActive
  <2> HIDE DEF free
  <2>5. RetentionAgrees
    BY <2>2, <2>3, <2>4 DEF RetentionAgrees, free
  <2> QED BY <2>1, <2>5 DEF CachesIInv, CachesInv
<1>2. CachesSpec => []CachesIInv
  BY CachesInductive
<1> QED BY <1>1, <1>2, PTL

(* A prune takes no .lake from under a process but one that came after it  *)
(* looked, and a prewarm removes no whole checkout but one that another    *)
(* prewarm on the same packages has repaired meanwhile.                    *)
THEOREM CachesAreKept == CachesSpec => CachesKept
<1>1. CachesIInv => [\A s \in Site : (Delete(s) /\ Referenced(s)) => s \in newcomers]_cachesVars
  BY DEF CachesIInv, Spared, Delete
<1>2. CachesIInv => [\A s \in Site : (RemoveBroken(s) /\ HasPackage(s)) => s \in met]_cachesVars
  BY DEF CachesIInv, Broken, RemoveBroken
<1>3. CachesSpec => []CachesIInv
  BY CachesInductive
<1> QED BY <1>1, <1>2, <1>3, PTL DEF CachesKept, PruneSparesLive, WholeIsKept

=============================================================================
