---------------------------- MODULE CampaignLaunch ----------------------------
(***************************************************************************)
(* autoarchon-launch-from-spec, "the default campaign bootstrap and        *)
(* relaunch entrypoint": it shards the source files the launch spec        *)
(* matches, creates the campaign unless there is a manifest, takes it over *)
(* for the operator, validates the launch contract and starts a watchdog.  *)
(*                                                                         *)
(* Nothing locks the campaign.  Launches overlap, are killed anywhere and  *)
(* repeated, and between them the operator edits the spec.  A watchdog     *)
(* that finds another one watching exits: OwnerLease says how it finds out.*)
(* Run ids are those of run_id_mode "index", with a runIdPrefix and a      *)
(* startIndex that the operator leaves alone, so that a second plan repeats*)
(* them.  A dry run, which only resolves and prints, and explicit runSpecs,*)
(* which replace the plan, are left out.  A file is its rank among the     *)
(* files of the source project in the order of their paths.                *)
(***************************************************************************)
EXTENDS Naturals, FiniteSets

CONSTANTS
    NFiles,      \* the files of the source project
    MaxShard,    \* bound: the largest shard
    Launch,      \* runs of the launcher, one process each
    Nobody,      \* no pid
    Mode         \* what mode spec, mission brief and source root speak of

ASSUME CampaignLaunchAssumption ==
    /\ NFiles \in Nat /\ MaxShard \in Nat \ {0}
    /\ Nobody \notin Launch
    /\ Mode \in {"benchmark_faithful", "formalization", "open_problem"}

VARIABLES
    spec,        \* the launch spec
    planFile,    \* runSpecOutput: what was planned last
    kept,        \* whether the spec names a runSpecOutput
    root,        \* the campaign root holds more than control
    runDir, config,      \* of each run id: its root, and the files of its assets
    manifest,
    ownerMode,   \* control/owner-mode.json: who declared what it says
    held,        \* of each process: what it is about to write there
    declared,    \* history: what it ought to say, or "none"
    resolved,    \* control/launch-spec.resolved.json
    pidFile,     \* control/watchdog-launch.pid
    pc, loaded, plan,    \* of each launch: where it is, its spec, its runs
    next,        \* the run it is to create next
    report,      \* and the watchdog status it has reported
    watchdog,    \* the watchdog it has spawned
    overlapped,  \* history: two launches have run at a time
    edited       \* history: the spec has been edited

disk == <<planFile, root, runDir, config, manifest, resolved, pidFile>>
owner == <<ownerMode, held, declared>>
history == <<overlapped, edited>>
vars == <<spec, kept, disk, owner, pc, loaded, plan, next, report, watchdog, history>>

Files == 1 .. NFiles
Ids   == 1 .. NFiles
Runs  == [id : Ids, files : SUBSET Files]

\* What the planner takes, up to a limit, whether the regex matches Lean files
\* below .lake or the like, too, whether it is planShards.matchRegex, which the
\* contract counts, or else a matchRegex beside it or none, how large a shard is,
\* and preloadHistoricalRoutes.  Where there are files to take neither whether
\* there are others nor whether they are counted makes a difference.
Specs == {s \in [match : SUBSET Files, ignored : BOOLEAN, counted : BOOLEAN,
                 size : 1 .. MaxShard, preload : BOOLEAN] :
              /\ s.match # {} => s.counted /\ ~ s.ignored
              /\ ~ s.counted => ~ s.ignored}
NoSpec == [match |-> {}, ignored |-> FALSE, counted |-> TRUE, size |-> 1, preload |-> FALSE]

Absent == [written |-> FALSE, runs |-> {}]
Written(runs) == [written |-> TRUE, runs |-> runs]

\* The manifest has the historical routes among its teacherDefaults.
NoManifest == [written |-> FALSE, runs |-> {}, preload |-> FALSE]

\* Where a file is in the list of those the regex matches.
Index(s, f) == Cardinality({g \in s.match : g < f})

\* _chunked: items[index : index + size] ...
Shard(s, k) == {f \in s.match : (k - 1) * s.size <= Index(s, f) /\ Index(s, f) < k * s.size}

\* ... for every index in range(0, len(items), size).
Shards(s) == {k \in Ids : (k - 1) * s.size < Cardinality(s.match)}

\* What plan_campaign_shards makes of a spec.
Planned(s) == {[id |-> k, files |-> Shard(s, k)] : k \in Shards(s)}

Ended   == {"ended", "raised", "killed"}
Places  == {"idle", "resolved", "create", "scaffold", "surfaces", "runs", "run", "status",
            "control", "resolve", "validate", "spawn", "poll"} \cup Ended
Running == {l \in Launch : pc[l] \notin {"idle"} \cup Ended}

\* The processes that write owner-mode.json.
Actors == {"launch", "watchdog"} \X Launch

\* What is in the file: "default" is the mode "orchestrator" without an
\* entrypoint, "operator" is "campaign_operator" by a launch, and "watchdog" is
\* "orchestrator" by a watchdog.  It is "none" if it cannot be read.
OwnerModes == {"default", "operator", "watchdog"}
NotWriting == [step |-> "none", mode |-> "none"]
AtRest(p)  == held[p] = NotWriting

\* There may be a plan from an earlier spec.
Init ==
    /\ spec \in Specs /\ kept \in BOOLEAN
    /\ \/ planFile = Absent
       \/ kept /\ \E s \in Specs : planFile = Written(Planned(s))
    /\ root = FALSE
    /\ runDir = [i \in Ids |-> "absent"] /\ config = [i \in Ids |-> {}]
    /\ manifest = NoManifest /\ resolved = NoSpec
    /\ ownerMode = "none" /\ held = [p \in Actors |-> NotWriting] /\ declared = "none"
    /\ pidFile = Nobody
    /\ pc = [l \in Launch |-> "idle"]
    /\ loaded = [l \in Launch |-> NoSpec]
    /\ plan = [l \in Launch |-> {}] /\ next = [l \in Launch |-> 1]
    /\ report = [l \in Launch |-> "none"]
    /\ watchdog = [l \in Launch |-> "none"]
    /\ overlapped = FALSE /\ edited = FALSE

Goto(l, where) == pc' = [pc EXCEPT ![l] = where]

\* What a launch has loaded is of no more use to it.
Forget(l) ==
    /\ loaded' = [loaded EXCEPT ![l] = NoSpec]
    /\ plan' = [plan EXCEPT ![l] = {}] /\ next' = [next EXCEPT ![l] = 1]

-----------------------------------------------------------------------------
(* owner-mode.json, which any two processes may write at a time.           *)

\* Mutant: without a mode the default is written.
DefaultOwnerMode == "default"

\* ensure_campaign_control_root without a mode keeps the one on record.
KeepOwnerMode == IF ownerMode = "none" THEN "default" ELSE ownerMode

\* It reads the file first.  Whoever finds it torn will keep nothing.
ReadOwnerMode(p) ==
    /\ AtRest(p)
    /\ held' = [held EXCEPT ![p] = [step |-> "read", mode |-> KeepOwnerMode]]
    /\ declared' = IF ownerMode = "none" THEN "none" ELSE declared
    /\ UNCHANGED ownerMode

\* Given a mode it writes that, which stands if nobody else is at it.
DeclareOwnerMode(p, mode) ==
    /\ AtRest(p)
    /\ held' = [held EXCEPT ![p] = [step |-> "torn", mode |-> mode]]
    /\ ownerMode' = "none"
    /\ declared' = IF \A q \in Actors : AtRest(q) THEN mode ELSE "none"

\* The file is truncated and then filled.  If another process has filled it in
\* between with something longer, the end of that stays, and spoils it.
TruncateOwnerMode(p) ==
    /\ held[p].step = "read"
    /\ held' = [held EXCEPT ![p].step = "torn"]
    /\ ownerMode' = "none"
    /\ UNCHANGED <<spec, kept, disk, declared, pc, loaded, plan, next, report, watchdog,
                   history>>

FillOwnerMode(p) ==
    /\ held[p].step = "torn"
    /\ held' = [held EXCEPT ![p] = NotWriting]
    /\ ownerMode' \in {held[p].mode} \cup
                      (IF ownerMode \in {"none", held[p].mode} THEN {} ELSE {"none"})
    /\ UNCHANGED <<spec, kept, disk, declared, pc, loaded, plan, next, report, watchdog,
                   history>>

\* A process that is gone leaves the file as it is.
Abandon(p) ==
    /\ held' = [held EXCEPT ![p] = NotWriting]
    /\ declared' = IF held[p].step = "torn" THEN "none" ELSE declared
    /\ UNCHANGED ownerMode

-----------------------------------------------------------------------------
(* main of launch_from_spec.                                               *)

\* The operator edits the spec between two launches.
EditSpec ==
    /\ Running = {} /\ \E l \in Launch : pc[l] # "idle"
    /\ \E l \in Launch : pc[l] = "idle"
    /\ spec' \in Specs \ {spec}
    /\ edited' = TRUE
    /\ UNCHANGED <<kept, disk, owner, pc, loaded, plan, next, report, watchdog, overlapped>>

\* _load_spec and _resolve_run_specs: a plan on file is used as it is, though
\* not an empty one, unless the launch is asked to plan again.
Begin(l, replan) ==
    /\ pc[l] = "idle"
    /\ loaded' = [loaded EXCEPT ![l] = spec]
    /\ IF kept /\ planFile.written /\ ~ replan
       THEN /\ Goto(l, IF planFile.runs = {} THEN "raised" ELSE "resolved")
            /\ plan' = [plan EXCEPT ![l] = planFile.runs]
            /\ UNCHANGED planFile
       ELSE /\ Goto(l, "resolved")
            /\ plan' = [plan EXCEPT ![l] = Planned(spec)]
            /\ planFile' = IF kept THEN Written(Planned(spec)) ELSE planFile
    /\ overlapped' = (overlapped \/ Running # {})
    /\ UNCHANGED <<spec, kept, root, runDir, config, manifest, owner, resolved,
                   pidFile, next, report, watchdog, edited>>

\* refresh_campaign_launch_assets: the assets of every run of the manifest.
Refreshed ==
    [i \in Ids |-> IF \E r \in manifest.runs : r.id = i
                   THEN (CHOOSE r \in manifest.runs : r.id = i).files
                   ELSE config[i]]

\* A campaign with a manifest is not created again, whatever the plan; its
\* launch assets may be refreshed.
FindManifest(l, refresh) ==
    /\ pc[l] = "resolved"
    /\ Goto(l, IF manifest.written THEN "control" ELSE "create")
    /\ config' = IF manifest.written /\ refresh THEN Refreshed ELSE config
    /\ UNCHANGED <<spec, kept, planFile, root, runDir, manifest, owner, resolved,
                   pidFile, loaded, plan, next, report, watchdog, history>>

\* The control root is the operator's ...
TakeOver(l) ==
    /\ pc[l] = "control" /\ DeclareOwnerMode(<<"launch", l>>, "operator")
    /\ Goto(l, "resolve")
    /\ UNCHANGED <<spec, kept, disk, loaded, plan, next, report, watchdog, history>>

\* ... and holds the spec of this launch.
WriteResolved(l) ==
    /\ pc[l] = "resolve" /\ AtRest(<<"launch", l>>)
    /\ Goto(l, "validate")
    /\ resolved' = loaded[l] /\ Forget(l)
    /\ UNCHANGED <<spec, kept, planFile, root, runDir, config, manifest, owner, pidFile,
                   report, watchdog, history>>

\* _matches_scope_count: Lean files anywhere below the source root.
ScopeMatches(s) == s.match # {} \/ s.ignored

\* Mutant: routes of earlier campaigns are nobody's business.
ScopeErrors(s) ==
    IF s.counted /\ ~ ScopeMatches(s) THEN {"scope_regex_matches_no_files"} ELSE {}

\* What can be wrong with a spec that has come this far: its source root is
\* there, its regex has compiled, and the launch has just written what else the
\* contract looks for under control.
ContractErrors(s) ==
    {e \in {"scope_regex_matches_no_files", "historical_routes_forbidden"} :
        \/ e = "scope_regex_matches_no_files" /\ s.counted /\ ~ ScopeMatches(s)
        \/ e = "historical_routes_forbidden" /\ Mode = "benchmark_faithful" /\ s.preload}

\* A launch is not strict: warnings, as of scaffolded texts, do not stop it.
ContractValid == ContractErrors(resolved) = {}

\* A contract that is not valid starts no watchdog.  --no-start-watchdog ends the
\* launch here, too.
ValidateContract(l, start) ==
    /\ pc[l] = "validate"
    /\ IF start /\ ContractValid
       THEN Goto(l, "spawn") /\ UNCHANGED report
       ELSE /\ Goto(l, "ended")
            /\ report' = [report EXCEPT ![l] = IF start THEN "not_started" ELSE "disabled"]
    /\ UNCHANGED <<spec, kept, disk, owner, loaded, plan, next, watchdog, history>>

LiveWatchdogs ==
    {l \in Launch : watchdog[l] \in {"starting", "declared", "claiming", "watching",
                                     "releasing"}}

\* _build_watchdog_command comes first: the options are those of the spec and
\* of the environment of this launch, and one that is malformed raises.
OptionsMalformed(l) ==
    /\ pc[l] = "spawn"
    /\ Goto(l, "raised")
    /\ UNCHANGED <<spec, kept, disk, owner, loaded, plan, next, report, watchdog, history>>

\* _start_watchdog: the pid of the pid file lives, or a watchdog is spawned.
Spawn(l) ==
    /\ pc[l] = "spawn"
    /\ IF pidFile \in LiveWatchdogs
       THEN /\ Goto(l, "ended")
            /\ report' = [report EXCEPT ![l] = "already_running"]
            /\ UNCHANGED watchdog
       ELSE /\ Goto(l, "poll")
            /\ watchdog' = [watchdog EXCEPT ![l] = "starting"]
            /\ UNCHANGED report
    /\ UNCHANGED <<spec, kept, disk, owner, loaded, plan, next, history>>

\* After a second: a watchdog that has exited takes the pid file along, be it
\* its own or not.
Poll(l) ==
    /\ pc[l] = "poll"
    /\ Goto(l, "ended")
    /\ pidFile' = IF l \in LiveWatchdogs THEN l ELSE Nobody
    /\ report' = [report EXCEPT ![l] = IF l \in LiveWatchdogs THEN "started" ELSE "failed"]
    /\ UNCHANGED <<spec, kept, planFile, root, runDir, config, manifest, owner,
                   resolved, loaded, plan, next, watchdog, history>>

Kill(l) ==
    /\ l \in Running
    /\ Goto(l, "killed") /\ Forget(l) /\ Abandon(<<"launch", l>>)
    /\ UNCHANGED <<spec, kept, disk, report, watchdog, history>>

-----------------------------------------------------------------------------
(* create_campaign.                                                        *)

\* It refuses a root that holds anything but the control root.
CheckRoot(l) ==
    /\ pc[l] = "create"
    /\ Goto(l, IF root THEN "raised" ELSE "scaffold")
    /\ UNCHANGED <<spec, kept, disk, owner, loaded, plan, next, report, watchdog, history>>

EnsureControlRoot(l) ==
    /\ pc[l] = "scaffold" /\ ReadOwnerMode(<<"launch", l>>)
    /\ Goto(l, "surfaces")
    /\ UNCHANGED <<spec, kept, disk, loaded, plan, next, report, watchdog, history>>

Scaffold(l) ==
    /\ pc[l] = "surfaces" /\ AtRest(<<"launch", l>>)
    /\ Goto(l, "runs")
    /\ root' = TRUE
    /\ UNCHANGED <<spec, kept, planFile, runDir, config, manifest, owner, resolved, pidFile,
                   loaded, plan, next, report, watchdog, history>>

\* Mutant: what is there already is overwritten.
BeginRunAnyway(l) ==
    /\ pc[l] = "runs"
    /\ \E r \in plan[l] : r.id = next[l] /\ runDir' = [runDir EXCEPT ![r.id] = "begun"]
    /\ Goto(l, "run")
    /\ UNCHANGED <<spec, kept, planFile, root, config, manifest, owner, resolved,
                   pidFile, loaded, plan, next, report, watchdog, history>>

\* create_isolated_run refuses a run root that is not empty.
BeginRun(l) ==
    /\ pc[l] = "runs"
    /\ \E r \in plan[l] :
          /\ r.id = next[l]
          /\ IF runDir[r.id] = "absent"
             THEN Goto(l, "run") /\ runDir' = [runDir EXCEPT ![r.id] = "begun"]
             ELSE Goto(l, "raised") /\ UNCHANGED runDir
    /\ UNCHANGED <<spec, kept, planFile, root, config, manifest, owner, resolved,
                   pidFile, loaded, plan, next, report, watchdog, history>>

\* The rest of the run: its prompt, its bootstrap state, launch script and
\* run-config, all of them of the files of its shard.
MakeRun(l) ==
    /\ pc[l] = "run"
    /\ \E r \in plan[l] :
          /\ r.id = next[l]
          /\ runDir' = [runDir EXCEPT ![r.id] = "made"]
          /\ config' = [config EXCEPT ![r.id] = r.files]
          /\ next' = [next EXCEPT ![l] = @ + 1]
    /\ Goto(l, "runs")
    /\ UNCHANGED <<spec, kept, planFile, root, manifest, owner, resolved, pidFile,
                   loaded, plan, report, watchdog, history>>

\* The manifest comes after the last run, with the routes of the spec ...
WriteManifest(l) ==
    /\ pc[l] = "runs"
    /\ \A r \in plan[l] : r.id < next[l]
    /\ Goto(l, "status")
    /\ manifest' = [written |-> TRUE, runs |-> plan[l], preload |-> loaded[l].preload]
    /\ UNCHANGED <<spec, kept, planFile, root, runDir, config, owner, resolved,
                   pidFile, loaded, plan, next, report, watchdog, history>>

\* ... and then the status, and an owner mode whatever is on record.
WriteOwnerMode(l) ==
    /\ pc[l] = "status" /\ DeclareOwnerMode(<<"launch", l>>, "default")
    /\ Goto(l, "control")
    /\ UNCHANGED <<spec, kept, disk, loaded, plan, next, report, watchdog, history>>

-----------------------------------------------------------------------------
(* The watchdogs.  Each claim, refresh and release of the owner lease      *)
(* ensures the control root first.                                         *)

WatchdogTo(l, where) ==
    /\ watchdog' = [watchdog EXCEPT ![l] = where]
    /\ UNCHANGED <<spec, kept, disk, pc, loaded, plan, next, report, history>>

\* main of scripts/orchestrator_watchdog.py declares itself.
WatchdogStarts(l) ==
    /\ watchdog[l] = "starting" /\ DeclareOwnerMode(<<"watchdog", l>>, "watchdog")
    /\ WatchdogTo(l, "declared")

WatchdogClaims(l) ==
    /\ watchdog[l] = "declared" /\ ReadOwnerMode(<<"watchdog", l>>)
    /\ WatchdogTo(l, "claiming")

\* It takes the owner lease, or exits if another one has it.
WatchdogClaimed(l) ==
    /\ watchdog[l] = "claiming" /\ AtRest(<<"watchdog", l>>)
    /\ WatchdogTo(l, IF \E k \in Launch : watchdog[k] \in {"watching", "releasing"}
                     THEN "gone" ELSE "watching")
    /\ UNCHANGED owner

WatchdogRefreshes(l) ==
    /\ watchdog[l] = "watching" /\ ReadOwnerMode(<<"watchdog", l>>)
    /\ WatchdogTo(l, "watching")

WatchdogReleases(l) ==
    /\ watchdog[l] = "watching" /\ ReadOwnerMode(<<"watchdog", l>>)
    /\ WatchdogTo(l, "releasing")

\* A campaign of no runs is never terminal: its watchdog does not end, but
\* like any other it may die, at any time.
WatchdogEnds(l) ==
    /\ l \in LiveWatchdogs /\ Abandon(<<"watchdog", l>>)
    /\ WatchdogTo(l, "gone")

WatchdogStep(l) ==
    \/ WatchdogStarts(l) \/ WatchdogClaims(l) \/ WatchdogClaimed(l)
    \/ WatchdogRefreshes(l) \/ WatchdogReleases(l) \/ WatchdogEnds(l)

-----------------------------------------------------------------------------
LaunchStep(l) ==
    \/ \E replan \in BOOLEAN : Begin(l, replan)
    \/ \E refresh \in BOOLEAN : FindManifest(l, refresh)
    \/ \E start \in BOOLEAN : ValidateContract(l, start)
    \/ TakeOver(l) \/ WriteResolved(l) \/ OptionsMalformed(l) \/ Spawn(l) \/ Poll(l)
    \/ Kill(l)

CreateStep(l) ==
    \/ CheckRoot(l) \/ EnsureControlRoot(l) \/ Scaffold(l) \/ BeginRun(l) \/ MakeRun(l)
    \/ WriteManifest(l) \/ WriteOwnerMode(l)

Next ==
    \/ EditSpec
    \/ \E l \in Launch : LaunchStep(l) \/ CreateStep(l) \/ WatchdogStep(l)
    \/ \E p \in Actors : TruncateOwnerMode(p) \/ FillOwnerMode(p)

Spec == Init /\ [][Next]_vars

-----------------------------------------------------------------------------
\* Every variable has the values the code gives it, and a launch is at one of
\* the places of the code.
TypeOK ==
    /\ spec \in Specs /\ loaded \in [Launch -> Specs]
    /\ kept \in BOOLEAN /\ root \in BOOLEAN
    /\ overlapped \in BOOLEAN /\ edited \in BOOLEAN
    /\ planFile \in [written : BOOLEAN, runs : SUBSET Runs]
    /\ manifest \in [written : BOOLEAN, runs : SUBSET Runs, preload : BOOLEAN]
    /\ runDir \in [Ids -> {"absent", "begun", "made"}] /\ config \in [Ids -> SUBSET Files]
    /\ ownerMode \in OwnerModes \cup {"none"} /\ declared \in OwnerModes \cup {"none"}
    /\ held \in [Actors -> {NotWriting} \cup [step : {"read", "torn"}, mode : OwnerModes]]
    /\ resolved \in Specs /\ pidFile \in Launch \cup {Nobody}
    /\ pc \in [Launch -> Places]
    /\ plan \in [Launch -> SUBSET Runs] /\ next \in [Launch -> 1 .. NFiles + 1]
    /\ report \in [Launch -> {"none", "disabled", "not_started", "already_running",
                              "started", "failed"}]
    /\ watchdog \in [Launch -> {"none", "starting", "declared", "claiming", "watching",
                                "releasing", "gone"}]

\* The runs of the manifest are on disk as it has them, each file in one of
\* them, whoever else has been creating runs there, and wherever it stopped.
RunsOfManifest ==
    \A r \in manifest.runs :
        /\ runDir[r.id] = "made" /\ config[r.id] = r.files
        /\ \A q \in manifest.runs : q # r => q.id # r.id /\ q.files \cap r.files = {}

\* A launch that overlaps another, or finds a campaign, does not replace the
\* runs of a manifest by others: what it may do is empty or fill it.
ManifestKept ==
    [][manifest.runs \in {{}, manifest'.runs} \/ manifest'.runs = {}]_manifest

\* Whoever was the last to declare the owner mode is on record, whatever leases
\* are claimed, refreshed and released after that.  A declaration is lost only
\* to a process that had begun to write the file before it was made, or finds
\* the file torn, or is killed while it has the file truncated; and the next
\* one that is made while nobody is at the file stands again.
OwnerOnRecord ==
    declared # "none" /\ (\A p \in Actors : held[p].step # "torn") => ownerMode = declared

\* As long as launches neither overlap nor are killed, the watchdog that
\* watches is the one of the pid file, for the next launch to find.
WatchdogOnRecord ==
    /\ Running = {} /\ ~ overlapped /\ \A l \in Launch : pc[l] # "killed"
    => \A l \in Launch : watchdog[l] = "watching" => pidFile = l

\* As long as the spec is what it was, and its regex is one that the contract
\* counts and finds no files but those of the project, a watchdog watches a
\* campaign as the contract wants it: with targets, and without historical
\* routes if it is a benchmark.  It is the manifest that has both, and the spec
\* that is validated, after the fact.
WatchedAsContracted ==
    /\ ~ edited /\ spec.counted /\ ~ spec.ignored
    /\ \E l \in Launch : watchdog[l] = "watching"
    => /\ manifest.runs # {}
       /\ Mode = "benchmark_faithful" => ~ manifest.preload

\* What launches leave on disk: runs, their owner and the watchdog.
CampaignInv == TypeOK /\ RunsOfManifest /\ OwnerOnRecord /\ WatchdogOnRecord

=============================================================================
