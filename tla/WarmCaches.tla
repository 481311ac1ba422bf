------------------------------ MODULE WarmCaches ------------------------------
(***************************************************************************)
(* The Lake caches of a campaign: how a run comes by one                   *)
(* (run_workspace.py), how it is warmed before the first teacher           *)
(* (launch-teacher.sh, prewarm_project.py, lake_prewarm.py), and what      *)
(* prunes it (storage.py).                                                 *)
(*                                                                         *)
(* A .lake directory has the checkout of one package.  A run created from  *)
(* a project with packages has only a symbolic link to them, so that what  *)
(* one prewarm or a prune does there happens to all.  The prewarms, the    *)
(* teachers and the prune are processes that know of each other by         *)
(* nothing but the run lease and the table of processes.                   *)
(*                                                                         *)
(* Lake itself is external: its commands end, some time, well or badly.    *)
(*                                                                         *)
(* The specification has names of its own, CachesSpec and so on, for the   *)
(* proofs about it stand in one module with those of CampaignLaunch.       *)
(***************************************************************************)
EXTENDS Integers, FiniteSets

CONSTANTS
    Run,         \* the runs of the campaign
    Scoped,      \* those with allowed files, which a prewarm verifies
    Hub,         \* the project whose .lake they reuse, a legacy workspace
    Retries,     \* cache_retries and build_retries
    MaxLaunches, \* bound: on launches of teachers
    MaxWarmings, \* bound: on the prewarms that the operator makes of the hub
    MaxPrunes    \* bound: on prunes

ASSUME WarmCachesAssumption ==
    /\ Hub \notin Run /\ Scoped \subseteq Run
    /\ {Retries, MaxLaunches, MaxWarmings, MaxPrunes} \subseteq Nat

VARIABLES
    lake,      \* the roots that have a .lake directory
    link,      \* the runs whose packages are a link to those of the hub
    pkg,       \* the package in each .lake
    built,     \* the hub's .lake has build outputs
    made,      \* the runs that have been created
    needs,     \* those whose bootstrap state has prewarmRequired
    scope,     \* those with a RUN_SCOPE.md
    script,    \* the launch-teacher.sh of each run
    codex,     \* the runs whose teacher is alive
    cycle,     \* those with a supervised cycle at work
    lease,     \* those whose run-lease.json says it is active
    fresh,     \* those, of these, whose heartbeat is within STALE_LEASE_SECONDS
    prewarm,   \* the prewarm of each root
    prune,     \* the prune in progress
    spent,     \* the launches, prewarms and prunes so far
    newcomers, \* history: roots at work that the prune could not know of
    met,       \* history: roots whose prewarm overlapped with one on its packages
    warmed     \* history: roots whose packages have been warm

caches  == <<lake, link, pkg, built>>
setup   == <<made, needs, scope>>
teacher == <<script, codex, cycle, lease, fresh>>
tools   == <<prewarm, prune, spent>>
cachesVars == <<caches, setup, teacher, tools, newcomers, met, warmed>>

Site == Run \cup {Hub}

-----------------------------------------------------------------------------
(* Caches, and who is at work on them.                                     *)

\* a checkout without its configFile is broken; a warm one has its .olean
Package == {"none", "broken", "source", "warm"}

Store(s)    == IF s \in link THEN Hub ELSE s
Pkg(s)      == IF {s, Store(s)} \subseteq lake THEN pkg[Store(s)] ELSE "none"
Dangling(s) == s \in link /\ Hub \notin lake

Idle     == [at |-> "idle", try |-> 0, repo |-> FALSE, clone |-> FALSE]
Warming(s) == prewarm[s] # Idle
ScriptLive(r) == script[r] \in {"bootstrap", "prewarm", "mark", "init", "codex"}

\* its path is in the arguments or is the working directory of a process; the
\* teacher reads its prompt from standard input and shows nothing of the run
Referenced(s) == Warming(s) \/ (s \in Run /\ (ScriptLive(s) \/ s \in cycle))

\* _lease_activity: the lease alone protects a run
LeaseActive(r) == r \in lease /\ (r \in cycle \/ r \in fresh)

-----------------------------------------------------------------------------
(* Retention: what is advised for the directories of a root.               *)

RetentionKind(dir) ==
    CASE dir.name = "runs"                              -> "runs_root"
      [] dir.name = "benchmarks"                        -> "benchmarks_root"
      [] dir.name = "tmp"                               -> "ephemeral_root"
      [] dir.name = "other" /\ dir.campaign             -> "campaign_root"
      [] dir.name = "other" /\ ~dir.campaign /\ dir.archon /\ dir.lake
                                                        -> "legacy_workspace_root"
      [] OTHER                                          -> "generic_directory"

RetentionAction(kind, active, hasLake, exported) ==
    CASE kind \in {"runs_root", "benchmarks_root"}                   -> "inspect_children"
      [] kind \notin {"runs_root", "benchmarks_root"} /\ active      -> "keep_live"
      [] kind = "legacy_workspace_root" /\ ~active /\ hasLake        -> "prune_cache_only"
      [] kind = "legacy_workspace_root" /\ ~active /\ ~hasLake       -> "archive_or_delete_root"
      [] kind = "campaign_root" /\ ~active /\ hasLake                -> "prune_cache_only"
      [] kind = "campaign_root" /\ ~active /\ ~hasLake /\ exported   -> "archive_or_delete_root"
      [] kind = "campaign_root" /\ ~active /\ ~hasLake /\ ~exported  -> "review_campaign_root"
      [] OTHER                                                       -> "manual_review"

\* for a clone among the shared benchmarks its cache is the last resort
BenchmarkCloneAction(active, hasLake) ==
    [suggested |-> IF active THEN "keep_live" ELSE "keep_shared_clone",
     emergency |-> IF hasLake /\ ~active THEN "prune_clone_lake_only" ELSE "none"]

\* a process that names a run names its campaign as well
CampaignActive == \E r \in made : Referenced(r)

HubAdvice ==
    RetentionAction(RetentionKind([name |-> "other", campaign |-> FALSE, archon |-> TRUE,
                                   lake |-> Hub \in lake]),
                    Referenced(Hub), Hub \in lake, FALSE)
CloneAdvice == BenchmarkCloneAction(Referenced(Hub), Hub \in lake)
CampaignAdvice(exported) ==
    RetentionAction(RetentionKind([name |-> "other", campaign |-> TRUE, archon |-> FALSE,
                                   lake |-> FALSE]),
                    CampaignActive, FALSE, exported)

-----------------------------------------------------------------------------
CachesInit ==
    /\ lake = {Hub} /\ link = {} /\ built = FALSE
    /\ pkg \in [Site -> {"none"}] \cup {[s \in Site |-> IF s = Hub THEN "broken" ELSE "none"]}
    /\ made = {} /\ needs = {} /\ scope = {}
    /\ script = [r \in Run |-> "none"]
    /\ codex = {} /\ cycle = {} /\ lease = {} /\ fresh = {}
    /\ prewarm = [s \in Site |-> Idle]
    /\ prune = [at |-> "idle", hints |-> {}, todo |-> {}, safe |-> {}]
    /\ spent = [launch |-> 0, warm |-> 0, prune |-> 0]
    /\ newcomers = {} /\ met = {} /\ warmed = {}

\* create_isolated_run: the packages are linked if the hub has any, else its
\* .lake is copied; its build outputs are taken over if the lakefiles are the
\* same, and then no prewarm is asked for
CreateRun(r, sameLakefiles) ==
    LET reuse == Hub \in lake /\ built /\ sameLakefiles
    IN  /\ r \notin made
        /\ made'  = made \cup {r}
        /\ lake'  = IF Hub \in lake THEN lake \cup {r} ELSE lake
        /\ link'  = IF Pkg(Hub) # "none" THEN link \cup {r} ELSE link
        /\ needs' = IF reuse THEN needs ELSE needs \cup {r}
        /\ UNCHANGED <<pkg, built, scope, teacher, tools>>

-----------------------------------------------------------------------------
(* The prewarm of a root.                                                  *)

SetPrewarm(s, p) == prewarm' = [prewarm EXCEPT ![s] = p]

\* the script waits for the prewarm, under set -e; nobody waits for one that
\* its script did not outlive
FinishAnyway(s, ok) ==   \* mutant: not under set -e
    /\ SetPrewarm(s, Idle)
    /\ IF s \in Run /\ script[s] = "prewarm"
       THEN script' = [script EXCEPT ![s] = "mark"] ELSE UNCHANGED script
Finish(s, ok) ==
    /\ SetPrewarm(s, Idle)
    /\ IF s \in Run /\ script[s] = "prewarm"
       THEN script' = [script EXCEPT ![s] = IF ok THEN "mark" ELSE "failed"]
       ELSE UNCHANGED script

\* another attempt, as long as there are any left
RetryOverAgain(s) ==   \* mutant: the count begins again
    /\ SetPrewarm(s, [prewarm[s] EXCEPT !.try = (@ + 1) % (Retries + 1), !.clone = FALSE])
    /\ UNCHANGED script
Retry(s) ==
    IF prewarm[s].try = Retries
    THEN Finish(s, FALSE)
    ELSE /\ SetPrewarm(s, [prewarm[s] EXCEPT !.try = @ + 1, !.clone = FALSE])
         /\ UNCHANGED script

\* find_broken_packages makes its list first
Scan(s) ==
    /\ prewarm[s].at = "scan"
    /\ SetPrewarm(s, [prewarm[s] EXCEPT !.at = IF Pkg(s) = "broken" THEN "remove" ELSE "check"])
    /\ UNCHANGED <<caches, script>>

\* remove_broken_packages: rmtree raises if the directory is gone
RemoveBroken(s) ==
    /\ prewarm[s].at = "remove"
    /\ IF Pkg(s) = "none"
       THEN Finish(s, FALSE) /\ UNCHANGED caches
       ELSE /\ pkg' = [pkg EXCEPT ![Store(s)] = "none"]
            /\ SetPrewarm(s, [prewarm[s] EXCEPT !.at = "check"])
            /\ UNCHANGED <<lake, link, built, script>>

\* has_warmed_mathlib_cache
CheckCache(s) ==
    /\ prewarm[s].at = "check"
    /\ SetPrewarm(s, [prewarm[s] EXCEPT !.at = IF Pkg(s) = "warm" THEN "build" ELSE "get"])
    /\ UNCHANGED <<caches, script>>

\* whichever command of Lake comes first clones a missing package: it can be
\* seen before it is complete
BeginClone(s) ==
    /\ prewarm[s].at \in {"get", "build"} /\ ~prewarm[s].clone
    /\ Pkg(s) = "none" /\ ~Dangling(s)
    /\ lake' = lake \cup {s}
    /\ pkg'  = [pkg EXCEPT ![Store(s)] = "broken"]
    /\ SetPrewarm(s, [prewarm[s] EXCEPT !.clone = TRUE])
    /\ UNCHANGED <<link, built, script>>
EndClone(s) ==
    /\ prewarm[s].clone
    /\ IF Pkg(s) = "none"
       THEN Retry(s) /\ UNCHANGED caches
       ELSE /\ pkg' = [pkg EXCEPT ![Store(s)] = IF @ = "broken" THEN "source" ELSE @]
            /\ SetPrewarm(s, [prewarm[s] EXCEPT !.clone = FALSE])
            /\ UNCHANGED <<lake, link, built, script>>

Working(s, at)  == prewarm[s].at = at /\ ~prewarm[s].clone
HasPackage(s)   == Pkg(s) \in {"source", "warm"}
GoOnToBuild(s)  == SetPrewarm(s, [prewarm[s] EXCEPT !.at = "build", !.try = 0])
MakeWarm(s)     == pkg' = [pkg EXCEPT ![Store(s)] = "warm"]

\* run_cache_get_with_fallback: a lake that does not know --repo is asked again
\* without it, and that is no attempt
CacheGot(s) ==
    /\ Working(s, "get") /\ HasPackage(s)
    /\ MakeWarm(s) /\ GoOnToBuild(s)
    /\ UNCHANGED <<lake, link, built, script>>
CacheUnavailable(s) ==
    /\ Working(s, "get") /\ HasPackage(s)
    /\ GoOnToBuild(s)
    /\ UNCHANGED <<caches, script>>
FallBack(s) ==
    /\ Working(s, "get") /\ prewarm[s].repo
    /\ SetPrewarm(s, [prewarm[s] EXCEPT !.repo = FALSE])
    /\ UNCHANGED <<caches, script>>
CacheFailed(s) ==
    /\ Working(s, "get")
    /\ Retry(s) /\ UNCHANGED caches

\* with allowed files a prewarm verifies these, here as if they were one, and
\* builds nothing; that needs the package to be warm, which lake build makes it
Verifies(s) == s \in Scoped

Verified(s) ==
    /\ Working(s, "build") /\ Verifies(s) /\ Pkg(s) = "warm"
    /\ Finish(s, TRUE)
    /\ UNCHANGED caches
Built(s) ==
    /\ Working(s, "build") /\ ~Verifies(s) /\ HasPackage(s)
    /\ MakeWarm(s) /\ Finish(s, TRUE)
    /\ built' = (built \/ s = Hub)
    /\ UNCHANGED <<lake, link>>
BuildFailed(s) ==
    /\ Working(s, "build")
    /\ Retry(s) /\ UNCHANGED caches
VerifyFileMissing(s) ==
    /\ Working(s, "build") /\ Verifies(s)
    /\ Finish(s, FALSE) /\ UNCHANGED caches

PrewarmStep(s) ==
    /\ \/ Scan(s) \/ RemoveBroken(s) \/ CheckCache(s)
       \/ BeginClone(s) \/ EndClone(s)
       \/ CacheGot(s) \/ CacheUnavailable(s) \/ FallBack(s) \/ CacheFailed(s)
       \/ Verified(s) \/ Built(s) \/ BuildFailed(s) \/ VerifyFileMissing(s)
    /\ UNCHANGED <<setup, codex, cycle, lease, fresh, prune, spent>>

KillPrewarm(s) ==
    /\ Warming(s)
    /\ Finish(s, FALSE)
    /\ UNCHANGED <<caches, setup, codex, cycle, lease, fresh, prune, spent>>

\* the operator prewarms the hub, and may take the cache repository away that is
\* asked for by default
WarmHub(repo) ==
    /\ ~Warming(Hub) /\ spent.warm < MaxWarmings
    /\ SetPrewarm(Hub, [Idle EXCEPT !.at = "scan", !.repo = repo])
    /\ spent' = [spent EXCEPT !.warm = @ + 1]
    /\ UNCHANGED <<caches, setup, teacher, prune>>

-----------------------------------------------------------------------------
(* The script of a run, and the teacher it ends in.                        *)

LaunchTeacher(r) ==
    /\ r \in made /\ spent.launch < MaxLaunches
    /\ ~Referenced(r)
    /\ script' = [script EXCEPT ![r] = "bootstrap"]
    /\ spent'  = [spent EXCEPT !.launch = @ + 1]
    /\ UNCHANGED <<caches, setup, codex, cycle, lease, fresh, prewarm, prune>>

\* a run with a scope has been initialised: its caches are not looked at again;
\* the script leaves the cache repository at its default
Bootstrap(r) ==
    /\ script[r] = "bootstrap"
    /\ IF r \notin scope /\ r \in needs
       THEN /\ script' = [script EXCEPT ![r] = "prewarm"]
            /\ SetPrewarm(r, [Idle EXCEPT !.at = "scan", !.repo = TRUE])
       ELSE /\ script' = [script EXCEPT ![r] = IF r \in scope THEN "codex" ELSE "init"]
            /\ UNCHANGED prewarm
    /\ codex' = IF r \in scope THEN codex \cup {r} ELSE codex
    /\ UNCHANGED <<caches, setup, cycle, lease, fresh, prune, spent>>

MarkPrewarmComplete(r) ==
    /\ script[r] = "mark"
    /\ needs'  = needs \ {r}
    /\ script' = [script EXCEPT ![r] = "init"]
    /\ UNCHANGED <<caches, made, scope, codex, cycle, lease, fresh, tools>>

InitProject(r) ==
    /\ script[r] = "init"
    /\ \/ /\ scope'  = scope \cup {r}
          /\ script' = [script EXCEPT ![r] = "codex"]
          /\ codex'  = codex \cup {r}
       \/ /\ script' = [script EXCEPT ![r] = "failed"]
          /\ UNCHANGED <<scope, codex>>
    /\ UNCHANGED <<caches, made, needs, cycle, lease, fresh, tools>>

\* the teacher runs one supervised cycle after another
BeginCycle(r) ==
    /\ r \in codex \ cycle
    /\ cycle' = cycle \cup {r} /\ lease' = lease \cup {r} /\ fresh' = fresh \cup {r}
    /\ UNCHANGED <<caches, setup, script, codex, tools>>
EndCycle(r) ==
    /\ r \in cycle
    /\ cycle' = cycle \ {r}
    /\ \/ lease' = lease \ {r} /\ fresh' = fresh \ {r}
       \/ UNCHANGED <<lease, fresh>>   \* it was killed
    /\ UNCHANGED <<caches, setup, script, codex, tools>>
HeartbeatAges(r) ==
    /\ r \in fresh \ cycle
    /\ fresh' = fresh \ {r}
    /\ UNCHANGED <<caches, setup, script, codex, cycle, lease, tools>>

TeacherEnds(r) ==
    /\ r \in codex \ cycle
    /\ codex'  = codex \ {r}
    /\ script' = [script EXCEPT ![r] = IF @ = "codex" THEN "ended" ELSE @]
    /\ UNCHANGED <<caches, setup, cycle, lease, fresh, tools>>

\* what it has started goes on
KillScript(r) ==
    /\ ScriptLive(r)
    /\ script' = [script EXCEPT ![r] = "failed"]
    /\ UNCHANGED <<caches, setup, codex, cycle, lease, fresh, tools>>

TeacherStep(r) ==
    \/ LaunchTeacher(r) \/ Bootstrap(r) \/ MarkPrewarmComplete(r) \/ InitProject(r)
    \/ BeginCycle(r) \/ EndCycle(r) \/ HeartbeatAges(r) \/ TeacherEnds(r) \/ KillScript(r)

-----------------------------------------------------------------------------
(* prune_storage_candidates: a report, then one removal after another.     *)

SetPrune(p) == prune' = p /\ UNCHANGED <<caches, setup, teacher, prewarm>>

TakeHints ==
    /\ prune.at = "idle" /\ spent.prune < MaxPrunes
    /\ SetPrune([at |-> "judge", hints |-> {s \in Site : Referenced(s)},
                 todo |-> made \cap lake, safe |-> {}])
    /\ spent' = [spent EXCEPT !.prune = @ + 1]

UnprotectedByLease(r) == ~LeaseActive(r)   \* mutant
Unprotected(r) == ~LeaseActive(r) /\ r \notin prune.hints

\* _run_storage_candidates
Judge(r) ==
    /\ prune.at = "judge" /\ r \in prune.todo
    /\ SetPrune([prune EXCEPT !.todo = @ \ {r},
                              !.safe = IF Unprotected(r) THEN @ \cup {r} ELSE @])
    /\ UNCHANGED spent

\* _legacy_workspace_lake_candidates looks for processes again
JudgeHub ==
    /\ prune.at = "judge" /\ prune.todo = {}
    /\ SetPrune([prune EXCEPT !.at = "delete",
                              !.safe = IF Hub \in lake /\ ~Referenced(Hub)
                                       THEN @ \cup {Hub} ELSE @])
    /\ UNCHANGED spent

NoPrune == [at |-> "idle", hints |-> {}, todo |-> {}, safe |-> {}]

\* a directory that a process fills meanwhile makes rmtree fail halfway, and
\* leaves the other candidates alone
Delete(s) ==
    /\ prune.at = "delete" /\ s \in prune.safe
    /\ \/ /\ lake'  = lake \ {s}
          /\ link'  = link \ {s}
          /\ pkg'   = [pkg EXCEPT ![s] = "none"]
          /\ built' = (built /\ s # Hub)
          /\ prune' = [prune EXCEPT !.safe = @ \ {s}]
       \/ /\ s \in lake /\ s \notin link
          /\ \E rest \in {"none", "broken"} : pkg' = [pkg EXCEPT ![s] = rest]
          /\ prune' = NoPrune
          /\ UNCHANGED <<lake, link, built>>
    /\ UNCHANGED <<setup, teacher, prewarm, spent>>

EndPrune ==
    /\ \/ prune.at = "delete" /\ prune.safe = {}
       \/ prune.at # "idle"   \* killed
    /\ SetPrune(NoPrune) /\ UNCHANGED spent

PruneStep ==
    \/ TakeHints \/ JudgeHub \/ EndPrune
    \/ \E r \in Run : Judge(r)
    \/ \E s \in Site : Delete(s)

-----------------------------------------------------------------------------
Reused(r) == r \in made' \ made /\ r \notin needs'

Overlap(s, t) == s # t /\ Store(s) = Store(t) /\ Warming(s) /\ Warming(t)

Histories ==
    /\ newcomers' =
          {s \in Site :
             /\ Referenced(s)'
             /\ ~(prune.at = "idle" /\ prune'.at = "judge")
             /\ s \in newcomers \/ ~Referenced(s)
             /\ ~(s \in prune.todo /\ s \notin prune'.todo /\ s \in cycle)}
    /\ met' = {s \in Site : /\ Warming(s)'
                            /\ s \in met \/ \E t \in Site : Overlap(s, t)'}
    /\ warmed' = warmed \cup {s \in Site : Pkg(s)' = "warm" \/ (s \in Run /\ Reused(s))}

CachesNext ==
    /\ \/ \E r \in Run, same \in BOOLEAN : CreateRun(r, same)
       \/ \E s \in Site : PrewarmStep(s) \/ KillPrewarm(s)
       \/ \E repo \in BOOLEAN : WarmHub(repo)
       \/ \E r \in Run : TeacherStep(r)
       \/ PruneStep
    /\ Histories

\* the commands of Lake end: there is no timeout for them
CachesSpec ==
    /\ CachesInit /\ [][CachesNext]_cachesVars
    /\ \A s \in Site : WF_cachesVars(PrewarmStep(s) /\ Histories)

-----------------------------------------------------------------------------
CachesTypeOK ==
    /\ lake \subseteq Site /\ link \subseteq Run \cap lake
    /\ pkg \in [Site -> Package] /\ built \in BOOLEAN
    /\ \A s \in Site : (s \notin lake \/ s \in link) => pkg[s] = "none"
    /\ made \subseteq Run /\ needs \subseteq made /\ scope \subseteq made
    /\ script \in [Run -> {"none", "bootstrap", "prewarm", "mark", "init", "codex",
                           "ended", "failed"}]
    /\ codex \subseteq made /\ cycle \subseteq codex
    /\ lease \subseteq made /\ fresh \subseteq lease
    /\ prewarm \in [Site -> [at : {"idle", "scan", "remove", "check", "get", "build"},
                             try : 0..Retries, repo : BOOLEAN, clone : BOOLEAN]]
    /\ prune \in [at : {"idle", "judge", "delete"}, hints : SUBSET Site,
                 todo : SUBSET made, safe : SUBSET Site]
    /\ spent \in [launch : 0..MaxLaunches, warm : 0..MaxWarmings, prune : 0..MaxPrunes]
    /\ newcomers \cup met \cup warmed \subseteq Site

\* A prune takes the .lake of a run, or of the hub, from under a process at
\* work on it only if that process was not there when the report looked for
\* processes, nor in a supervised cycle when the run lease was read
PruneSparesLive ==
    [][\A s \in Site : (Delete(s) /\ Referenced(s)) => s \in newcomers]_cachesVars

\* A prewarm removes a checkout that is not broken only if it shares the
\* packages with another prewarm, which repaired them since it made its list
WholeIsKept ==
    [][\A s \in Site : (RemoveBroken(s) /\ HasPackage(s)) => s \in met]_cachesVars

\* A teacher first begins in a workspace whose packages have been warm: a run
\* is not taken for warmed because an earlier launch died, or failed, on the way
StartsWarm ==
    \A r \in Run : r \in codex => r \in warmed

\* Whatever happens to the packages meanwhile, a prewarm comes to an end
PrewarmEnds ==
    \A s \in Site : Warming(s) ~> ~Warming(s)

\* Two reports on one directory agree: retention advises to prune the hub's
\* cache exactly when a prune would take it, as a workspace or as a benchmark
\* clone, and to delete the campaign only when a prune would spare no run for
\* its processes
RetentionAgrees ==
    /\ HubAdvice = "prune_cache_only" <=> Hub \in lake /\ ~Referenced(Hub)
    /\ CloneAdvice.emergency = "prune_clone_lake_only" <=> HubAdvice = "prune_cache_only"
    /\ \A exported \in BOOLEAN :
          CampaignAdvice(exported) = "archive_or_delete_root" =>
             exported /\ \A r \in made : ~Referenced(r)

\* What teachers find, and what reports say, of the caches
CachesInv == CachesTypeOK /\ StartsWarm /\ RetentionAgrees

\* Neither a prune nor a prewarm takes away what is of use
CachesKept == PruneSparesLive /\ WholeIsKept
=============================================================================
