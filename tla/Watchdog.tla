---------------------------- MODULE Watchdog ----------------------------
(***************************************************************************)
(* The orchestrator watchdog (archonlib/orchestrator_watchdog.py): one     *)
(* process that wraps a codex owner session, polls the campaign status,    *)
(* launches or recovers runs when the campaign is idle, restarts the       *)
(* session when it exits or hangs, and finalizes a closed campaign.        *)
(*                                                                         *)
(* A run is what the status collector says of it, one name for each        *)
(* combination of status, activity and retry time the watchdog tells       *)
(* apart.  Clock readings become the thresholds they are compared with:    *)
(* `idle' counts the thresholds passed since the last progress, `cooldown' *)
(* the ticks left of a provider cooldown, `cooling' the runs launched too  *)
(* recently.  The campaign's fingerprint becomes `moved': it differs from  *)
(* the one the watchdog holds.  Claiming and refreshing the owner lease is *)
(* the subject of OwnerLease.                                              *)
(***************************************************************************)
EXTENDS Integers, FiniteSets, Sequences

CONSTANTS
  Runs,            \* run ids: a set of numbers, which orders them
  MaxActive,       \* --max-active-launches
  Batch,           \* --launch-batch-size
  Budget,          \* --owner-restart-budget
  CooldownBase,    \* --provider-cooldown-base-seconds, -step- and -max-, in ticks
  CooldownStep,
  CooldownMax,
  SessionMay,      \* what the wrapped session does on its own: "recover", "launch"
  MaxExits         \* bound: session exits in one behaviour

ASSUME RunsAssumption == Runs \subseteq Nat /\ IsFiniteSet(Runs) /\ Runs # {}
ASSUME BudgetAssumption == MaxActive \in Nat /\ Batch \in Nat /\ Budget \in Nat
ASSUME CooldownAssumption ==
  CooldownBase \in Nat /\ CooldownStep \in Nat /\ CooldownMax \in Nat
ASSUME SessionAssumption == SessionMay \subseteq {"recover", "launch"} /\ MaxExits \in Nat

VARIABLES
  run,        \* what the collector would report of each run now
  cooling,    \* runs whose launch state was written within the launch cooldown
  moved,      \* the campaign's fingerprint is not the one the watchdog holds
  pc,         \* where the watchdog is
  session,    \* the owner session it wraps
  picks,      \* runs selected in this tick and not yet executed
  idle,       \* thresholds passed since progress_at: 1 bootstrap, 2 stall
  bootDone,   \* bootstrap_done
  restarts,   \* restart_count
  exits,      \* owner_exit_count
  transport,  \* provider_transport_exit_count
  cooldown,   \* ticks until provider_cooldown_until
  outcome,    \* watchdog_status, or "error" after an exception
  exhausted,  \* budget_exhausted
  finalized,  \* finalize_campaign ran
  barren      \* history: session ends since the campaign last moved by itself

campaign == <<run, cooling>>
timers == <<idle, bootDone, cooldown, transport>>
ending == <<outcome, exhausted, finalized>>
vars == <<run, cooling, moved, pc, session, picks, idle, bootDone, restarts, exits,
          transport, cooldown, outcome, exhausted, finalized, barren>>

-----------------------------------------------------------------------------
(* What the collector says of a run.                                         *)

RunStates == {
  "queued",          \* never launched
  "unverified",      \* changed files without a validation: recovery_only
  "needs_relaunch",  \* partial progress and nobody working
  "failed",          \* a failed launch, or a rate limit, whose retry time has come
  "backoff",         \* the same before its retryAfter
  "running",         \* a live launch
  "hung",            \* its lease is active, its heartbeat too old: needs_relaunch
  "closing",         \* accepted, blocked or contaminated, its launch still live
  "closed"}          \* the same with nothing live

TERMINAL_RUN_STATUSES == {"closing", "closed"}
LAUNCH_ACTIONS == {"queued", "needs_relaunch", "failed", "backoff", "hung"}
AUTOMATIC_RECOVERY_ACTIONS == LAUNCH_ACTIONS \cup {"unverified"}

(* runningSignal or launchActive: the run occupies a launch slot.            *)
ActiveWork == {r \in Runs : run[r] \in {"running", "closing"}}

CampaignHasLiveWork == \E r \in Runs : run[r] \in {"running", "closing", "hung"}

IsCampaignTerminal == \A r \in Runs : run[r] \in TERMINAL_RUN_STATUSES

RecoveryClassPriority(s) ==
  CASE s = "unverified" -> 0
    [] s \in {"needs_relaunch", "hung"} -> 1
    [] s = "queued" -> 2
    [] OTHER -> 3

(* The order candidates are taken in: by class, then by run id.              *)
Before(q, r) ==
  \/ RecoveryClassPriority(run[q]) < RecoveryClassPriority(run[r])
  \/ RecoveryClassPriority(run[q]) = RecoveryClassPriority(run[r]) /\ q < r

-----------------------------------------------------------------------------
(* Selection of the runs one tick may act on.                                *)

SelectionBudget == IF cooldown > 0 THEN 0 ELSE MaxActive

Candidates(includeRecoveryOnly) ==
  {r \in Runs :
     /\ run[r] \in AUTOMATIC_RECOVERY_ACTIONS \ {"backoff"}
     /\ run[r] = "unverified" => includeRecoveryOnly
     /\ run[r] # "unverified" => r \notin cooling}

(* A launch is skipped when the launches before it used the free slots up;   *)
(* a recovery takes no slot.                                                 *)
\* Mutant: the slot of the launch itself is not counted.
FitsOneMore(r, candidates) ==
  \/ run[r] = "unverified"
  \/ Cardinality({q \in candidates : run[q] # "unverified" /\ Before(q, r)})
       <= SelectionBudget - Cardinality(ActiveWork)

Fits(r, candidates) ==
  \/ run[r] = "unverified"
  \/ Cardinality({q \in candidates : run[q] # "unverified" /\ Before(q, r)})
       < SelectionBudget - Cardinality(ActiveWork)

Selected(includeRecoveryOnly) ==
  LET candidates == Candidates(includeRecoveryOnly)
      fitting == {r \in candidates : Fits(r, candidates)}
  IN {r \in fitting : Cardinality({q \in fitting : Before(q, r)}) < Batch}

(* The selected runs in the order they are executed in.                      *)
Orders(chosen) ==
  {s \in [1..Cardinality(chosen) -> chosen] :
     \A i, j \in 1..Cardinality(chosen) : i < j => Before(s[i], s[j])}

-----------------------------------------------------------------------------
(* The provider cooldown grows with every transport exit up to a maximum.    *)
ProviderCooldown(transportExits) ==
  LET ladder == CooldownBase + (transportExits - 1) * CooldownStep
  IN IF transportExits <= 0 \/ CooldownBase = 0 \/ CooldownMax = 0 THEN 0
     ELSE IF ladder < CooldownMax THEN ladder ELSE CooldownMax

-----------------------------------------------------------------------------
Init ==
  /\ run \in [Runs -> {"queued", "unverified", "needs_relaunch", "running", "closed"}]
  /\ cooling = {}
  /\ moved = FALSE
  /\ pc = "loop" /\ session = "live" /\ picks = <<>>
  /\ idle = 0 /\ bootDone = FALSE
  /\ restarts = 0 /\ exits = 0 /\ transport = 0 /\ cooldown = 0
  /\ outcome = "running" /\ exhausted = FALSE /\ finalized = FALSE
  /\ barren = 0

-----------------------------------------------------------------------------
(* The watchdog.                                                             *)

(* The end of run_watchdog: finalize a terminal campaign, else leave.        *)
\* Mutant: only the terminal exit of the loop leads to finalization.
LeaveForFinalize(why) ==
  /\ pc' = IF why = "terminal" THEN "finalize" ELSE "stopped"
  /\ session' = IF why = "terminal" THEN session ELSE "none"
  /\ outcome' = why

Leave(why) ==
  /\ pc' = IF IsCampaignTerminal THEN "finalize" ELSE "stopped"
  /\ session' = IF IsCampaignTerminal THEN session ELSE "none"
  /\ outcome' = why

SessionEnded == pc = "loop" /\ session = "exited"

(* Every exit is classified and the status collected, fingerprint included,  *)
(* before the watchdog decides what to do about it.                          *)

TakeExit ==
  /\ moved' = FALSE
  /\ \E blamed \in BOOLEAN :
       /\ transport' = IF blamed THEN transport + 1 ELSE transport
       /\ cooldown' = IF blamed /\ ProviderCooldown(transport + 1) > 0
                      THEN ProviderCooldown(transport + 1) ELSE cooldown
  /\ barren' = barren + 1
  /\ UNCHANGED <<run, cooling, exits, picks, bootDone, finalized>>

RestartAfterExit ==
  /\ SessionEnded /\ ~IsCampaignTerminal /\ restarts < Budget
  /\ TakeExit
  /\ restarts' = restarts + 1 /\ session' = "live" /\ idle' = 0
  /\ UNCHANGED <<pc, outcome, exhausted>>

GiveUpAfterExit ==
  /\ SessionEnded /\ ~IsCampaignTerminal /\ restarts >= Budget
  /\ TakeExit
  /\ Leave("degraded") /\ exhausted' = TRUE
  /\ UNCHANGED <<restarts, idle>>

CloseAfterExit ==
  /\ SessionEnded /\ IsCampaignTerminal
  /\ TakeExit
  /\ Leave("terminal")
  /\ UNCHANGED <<restarts, idle, exhausted>>

-----------------------------------------------------------------------------
(* A poll: sleep, collect the status, compare fingerprints, then one branch. *)

(* The session is looked at before the sleep and may end during it.          *)
Sleep ==
  /\ pc = "loop" /\ session \in {"live", "silent"}
  /\ pc' = "sleep"
  /\ UNCHANGED <<campaign, moved, session, picks, timers, restarts, exits, ending, barren>>

Polling == pc = "sleep"

\* Mutant: every poll refreshes the time of the last progress.
IdleAtPoll == 0

\* Mutant: a fresh session resets the restart count.
RestartsIfFresh == IF moved \/ idle = 0 THEN 0 ELSE restarts

IdleNow == IF moved THEN 0 ELSE idle
BootDoneNow == bootDone /\ ~moved
RestartsNow == IF moved THEN 0 ELSE restarts

BootstrapDue == ~BootDoneNow /\ IdleNow >= 1 /\ ~CampaignHasLiveWork
StallDue == IdleNow >= 2

BootstrapPicks == IF BootstrapDue THEN Selected(TRUE) ELSE {}
TopUpPicks == IF CampaignHasLiveWork THEN Selected(FALSE) ELSE {}
StallPicks == IF StallDue THEN Selected(TRUE) ELSE {}

(* The first branch that finds a run to act on.                              *)
TickPicks ==
  IF BootstrapPicks # {} THEN BootstrapPicks
  ELSE IF TopUpPicks # {} THEN TopUpPicks ELSE StallPicks

(* bootstrap_done is set once the recoveries ran; nothing reads it before.   *)
PollActs ==
  /\ Polling /\ TickPicks # {}
  /\ moved' = FALSE /\ restarts' = RestartsNow
  /\ picks' \in Orders(TickPicks) /\ pc' = "execute"
  /\ bootDone' = (BootDoneNow \/ BootstrapPicks # {}) /\ idle' = IdleNow
  /\ UNCHANGED <<campaign, session, exits, transport, cooldown, ending, barren>>

(* A session that ended during the sleep may or may not have been silent.    *)
OwnerSilent == session \in {"silent", "exited"}
OwnerHeard == session \in {"live", "exited"}

(* A stalled campaign with nothing to recover and a silent owner: the        *)
(* session is terminated and resumed.                                        *)
PollKillsSession ==
  /\ Polling /\ TickPicks = {} /\ StallDue /\ OwnerSilent /\ restarts < Budget
  /\ moved' = FALSE /\ restarts' = restarts + 1 /\ barren' = barren + 1
  /\ idle' = 0
  /\ IF IsCampaignTerminal
     THEN Leave("terminal")
     ELSE pc' = "loop" /\ session' = "live" /\ UNCHANGED outcome
  /\ UNCHANGED <<campaign, picks, bootDone, exits, transport, cooldown, exhausted, finalized>>

PollGivesUp ==
  /\ Polling /\ TickPicks = {} /\ StallDue /\ OwnerSilent /\ restarts >= Budget
  /\ moved' = FALSE /\ exhausted' = TRUE /\ barren' = barren + 1
  /\ Leave("degraded")
  /\ UNCHANGED <<campaign, picks, timers, restarts, exits, finalized>>

PollQuiet ==
  /\ Polling /\ TickPicks = {} /\ (StallDue => OwnerHeard)
  /\ moved' = FALSE /\ restarts' = RestartsNow
  /\ idle' = IdleNow /\ bootDone' = BootDoneNow
  /\ IF IsCampaignTerminal
     THEN Leave("terminal")
     ELSE pc' = "loop" /\ UNCHANGED <<session, outcome>>
  /\ UNCHANGED <<campaign, picks, exits, transport, cooldown, exhausted, finalized, barren>>

(* execute_run_recovery(..., action="auto"): the status is collected again   *)
(* and the action resolved from what it says now, whatever the run's retry   *)
(* time.  The termination of stale launchers before it and the steps of a    *)
(* launch are TeacherLaunch's subject: here a launch succeeds at once and a  *)
(* recovery ends in one step.                                                *)
Execute ==
  /\ pc = "execute" /\ picks # <<>>
  /\ LET r == Head(picks) IN
       \/ /\ run[r] \in LAUNCH_ACTIONS
          /\ run' = [run EXCEPT ![r] = "running"]
          /\ cooling' = cooling \cup {r}
       \/ /\ run[r] = "unverified"
          /\ \E after \in {"unverified", "needs_relaunch", "closed"} :
               run' = [run EXCEPT ![r] = after]
          /\ UNCHANGED cooling
       \/ /\ run[r] \notin AUTOMATIC_RECOVERY_ACTIONS
          /\ UNCHANGED campaign
  /\ picks' = Tail(picks)
  /\ UNCHANGED <<moved, pc, session, timers, restarts, exits, ending, barren>>

(* After the recoveries the status and the fingerprint are taken afresh.     *)
Executed ==
  /\ pc = "execute" /\ picks = <<>>
  /\ pc' = "loop" /\ moved' = FALSE /\ idle' = 0
  /\ UNCHANGED <<campaign, session, picks, bootDone, cooldown, transport, restarts, exits,
                 ending, barren>>

Finalize ==
  /\ pc = "finalize"
  /\ pc' = "stopped" /\ session' = "none" /\ finalized' = TRUE
  /\ UNCHANGED <<campaign, moved, picks, timers, restarts, exits, outcome, exhausted, barren>>

(* Any exception ends the watchdog and takes the session with it.            *)
Fault ==
  /\ pc \in {"loop", "sleep", "execute", "finalize"}
  /\ pc' = "stopped" /\ session' = "none" /\ outcome' = "error" /\ picks' = <<>>
  /\ UNCHANGED <<campaign, moved, timers, restarts, exits, exhausted, finalized, barren>>

WatchdogStep ==
  \/ RestartAfterExit \/ GiveUpAfterExit \/ CloseAfterExit
  \/ Sleep \/ PollActs \/ PollKillsSession \/ PollGivesUp \/ PollQuiet
  \/ Execute \/ Executed \/ Finalize

-----------------------------------------------------------------------------
(* Its surroundings: the teachers, the session and time.                     *)

watchdogVars == <<pc, picks, timers, restarts, ending>>

Progress == moved' = TRUE /\ barren' = 0

TeacherOutcomes(s) ==
  CASE s = "running" -> RunStates \ {"queued", "failed", "closed"}
    [] s = "hung" -> {"needs_relaunch", "unverified"}
    [] s = "closing" -> {"closed", "running"}
    [] OTHER -> {}

TeacherMoves(r) ==
  /\ \E after \in TeacherOutcomes(run[r]) :
       /\ run' = [run EXCEPT ![r] = after]
       /\ cooling' \in {cooling, cooling \cup {r}}
  /\ Progress
  /\ UNCHANGED <<watchdogVars, session, exits>>

SessionRecovers(r) ==
  /\ "recover" \in SessionMay /\ session \in {"live", "silent"} /\ run[r] = "unverified"
  /\ \E after \in {"unverified", "needs_relaunch", "closed"} :
       run' = [run EXCEPT ![r] = after]
  /\ Progress
  /\ UNCHANGED <<watchdogVars, cooling, session, exits>>

SessionLaunches(r) ==
  /\ "launch" \in SessionMay /\ session \in {"live", "silent"} /\ run[r] \in LAUNCH_ACTIONS
  /\ run' = [run EXCEPT ![r] = "running"] /\ cooling' = cooling \cup {r}
  /\ Progress
  /\ UNCHANGED <<watchdogVars, session, exits>>

SessionExits ==
  /\ session \in {"live", "silent"} /\ exits < MaxExits
  /\ session' = "exited" /\ exits' = exits + 1
  /\ UNCHANGED <<watchdogVars, campaign, moved, barren>>

(* Output ends a silence; a silence is over the owner-silence threshold.     *)
SessionSpeaks ==
  /\ session \in {"live", "silent"}
  /\ session' = IF session = "live" THEN "silent" ELSE "live"
  /\ UNCHANGED <<watchdogVars, campaign, moved, exits, barren>>

Tick ==
  /\ idle < 2 \/ cooldown > 0
  /\ idle' = IF idle < 2 THEN idle + 1 ELSE idle
  /\ cooldown' = IF cooldown > 0 THEN cooldown - 1 ELSE 0
  /\ UNCHANGED <<campaign, moved, pc, session, picks, bootDone, transport, restarts, exits,
                 ending, barren>>

(* retryAfter passes, or the launch cooldown of a run ends: neither is part  *)
(* of the fingerprint.                                                       *)
RunTimer(r) ==
  /\ \/ run[r] = "backoff" /\ run' = [run EXCEPT ![r] = "failed"] /\ UNCHANGED cooling
     \/ r \in cooling /\ cooling' = cooling \ {r} /\ UNCHANGED run
  /\ UNCHANGED <<watchdogVars, moved, session, exits, barren>>

Surroundings ==
  \/ \E r \in Runs :
       TeacherMoves(r) \/ SessionRecovers(r) \/ SessionLaunches(r) \/ RunTimer(r)
  \/ SessionExits \/ SessionSpeaks \/ Tick

Next == WatchdogStep \/ Fault \/ Surroundings

Spec == Init /\ [][Next]_vars

(* The watchdog is a loop that keeps running, and time passes: no teacher    *)
(* and no session has to do anything.                                        *)
FairSpec ==
  /\ Spec
  /\ WF_vars(WatchdogStep) /\ WF_vars(Tick)
  /\ \A r \in Runs : WF_vars(RunTimer(r))

-----------------------------------------------------------------------------
(* Properties.                                                               *)

(* The state stays in its types: the watchdog's control, the collector's     *)
(* answer for each run, the counters within their budgets.                   *)
TypeOK ==
  /\ run \in [Runs -> RunStates]
  /\ cooling \subseteq Runs
  /\ moved \in BOOLEAN /\ bootDone \in BOOLEAN
  /\ exhausted \in BOOLEAN /\ finalized \in BOOLEAN
  /\ pc \in {"loop", "sleep", "execute", "finalize", "stopped"}
  /\ session \in {"live", "silent", "exited", "none"}
  /\ picks \in Seq(Runs)
  /\ idle \in 0..2
  /\ restarts \in 0..Budget
  /\ exits \in Nat /\ transport \in Nat /\ barren \in Nat
  /\ cooldown \in 0..CooldownMax
  /\ outcome \in {"running", "terminal", "degraded", "error"}

(* A campaign on which nothing moves burns at most the restart budget and    *)
(* the exit that exhausts it, whatever the exits, silences and recoveries    *)
(* in between: no reset of restart_count without progress since.             *)
BarrenExitsBounded == barren <= Budget + 1

(* As long as nothing else has moved the campaign since the poll, a launch   *)
(* the watchdog makes leaves at most --max-active-launches runs at work,     *)
(* although the slots are counted once for the whole batch and each action   *)
(* is resolved again when it is executed.                                    *)
LaunchCap ==
  [][Execute /\ ~moved /\ run[Head(picks)] \in LAUNCH_ACTIONS =>
       Cardinality(ActiveWork') <= MaxActive]_vars

(* An owner exit never brings the end of a provider cooldown forward.        *)
CooldownNeverShortened ==
  [][session = "exited" /\ session' # "exited" => cooldown' >= cooldown]_vars

(* A campaign that is entirely queued is launched, or the watchdog stops,    *)
(* even when its owner session keeps exiting.                                *)
QueuedIsLaunched ==
  (pc = "loop" /\ \A r \in Runs : run[r] = "queued")
    ~> (pc = "stopped" \/ \E r \in Runs : run[r] # "queued")

(* A campaign that is closed for good while the watchdog is in its loop is   *)
(* finalized, unless an exception ends the watchdog: neither an exhausted    *)
(* budget nor a hung session prevents it.                                    *)
ClosedIsFinalized ==
  []((pc = "loop" /\ []IsCampaignTerminal) => <>(finalized \/ outcome = "error"))

\* What bounds the teachers: the cap on launches, and the provider cooldowns.
BudgetsKept == LaunchCap /\ CooldownNeverShortened

=============================================================================
