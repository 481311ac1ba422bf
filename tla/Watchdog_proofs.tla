------------------------- MODULE Watchdog_proofs -------------------------
(***************************************************************************)
(* Proofs about the watchdog for any set of runs, budget, batch, cap and   *)
(* cooldown: type correctness, the bound on barren session ends, that a    *)
(* provider cooldown is never brought forward, and the cap on launches.    *)
(*                                                                         *)
(* The last part is about CampaignReports: the collections, reports and    *)
(* overviews that the watchdog, the observer and the operator have made.   *)
(***************************************************************************)
EXTENDS Watchdog, CampaignReports, FiniteSetTheorems, WellFoundedInduction, TLAPS

USE DEF campaign, timers, ending, watchdogVars, TERMINAL_RUN_STATUSES

-----------------------------------------------------------------------------
(* What the operators of the module return.                                  *)

(* The selected runs are runs, and there are finitely many of them.          *)
LEMMA PicksAreRuns == TickPicks \subseteq Runs
BY DEF TickPicks, BootstrapPicks, TopUpPicks, StallPicks, Selected, Candidates

(* An order of the selected runs is a sequence of runs.                      *)
LEMMA OrdersAreSequences == \A s \in Orders(TickPicks) : s \in Seq(Runs)
<1>1. Cardinality(TickPicks) \in Nat
  BY PicksAreRuns, RunsAssumption, FS_Subset, FS_CardinalityType
<1> QED BY <1>1, PicksAreRuns DEF Orders

(* A cooldown lasts between no tick at all and the maximum.                  *)
LEMMA CooldownRange ==
  ASSUME NEW n \in Nat PROVE ProviderCooldown(n) \in 0..CooldownMax
<1>1. CASE n = 0
  BY <1>1, CooldownAssumption DEF ProviderCooldown
<1>2. CASE n # 0
  <2>1. n - 1 \in Nat BY <1>2
  <2>2. (n - 1) * CooldownStep \in Nat BY <2>1, CooldownAssumption
  <2> DEFINE extra == (n - 1) * CooldownStep
  <2> HIDE DEF extra
  <2>3. extra \in Nat BY <2>2 DEF extra
  <2>4. ProviderCooldown(n) = LET ladder == CooldownBase + extra
                              IN IF n <= 0 \/ CooldownBase = 0 \/ CooldownMax = 0 THEN 0
                                 ELSE IF ladder < CooldownMax THEN ladder ELSE CooldownMax
    BY DEF ProviderCooldown, extra
  <2> QED BY <2>3, <2>4, CooldownAssumption
<1> QED BY <1>1, <1>2

(* One more transport exit never shortens the cooldown.                      *)
LEMMA CooldownGrows ==
  ASSUME NEW n \in Nat PROVE ProviderCooldown(n) <= ProviderCooldown(n + 1)
<1>1. ProviderCooldown(n) \in 0..CooldownMax /\ ProviderCooldown(n + 1) \in 0..CooldownMax
  BY CooldownRange
<1>2. CASE n = 0
  BY <1>1, <1>2 DEF ProviderCooldown
<1>3. CASE n # 0
  <2>1. n - 1 \in Nat BY <1>3
  <2> DEFINE before == (n - 1) * CooldownStep
             after == n * CooldownStep
  <2>2. before \in Nat /\ after \in Nat /\ before <= after
    <3>1. after = before + CooldownStep BY <2>1, CooldownAssumption
    <3>2. before \in Nat BY <2>1, CooldownAssumption
    <3> HIDE DEF before, after
    <3> QED BY <3>1, <3>2, CooldownAssumption
  <2>3. ProviderCooldown(n) = LET ladder == CooldownBase + before
                              IN IF n <= 0 \/ CooldownBase = 0 \/ CooldownMax = 0 THEN 0
                                 ELSE IF ladder < CooldownMax THEN ladder ELSE CooldownMax
    BY DEF ProviderCooldown
  <2>4. ProviderCooldown(n + 1) = LET ladder == CooldownBase + after
                              IN IF n + 1 <= 0 \/ CooldownBase = 0 \/ CooldownMax = 0 THEN 0
                                 ELSE IF ladder < CooldownMax THEN ladder ELSE CooldownMax
    <3>1. n + 1 - 1 = n OBVIOUS
    <3> QED BY <3>1 DEF ProviderCooldown
  <2> HIDE DEF before, after
  <2> QED BY <2>2, <2>3, <2>4, CooldownAssumption
<1> QED BY <1>2, <1>3

-----------------------------------------------------------------------------
(* Type correctness.                                                         *)

(* The watchdog's state stays in its types, the restart count within its     *)
(* budget and the cooldown within its maximum.                               *)
THEOREM TypeCorrect == Spec => []TypeOK
<1>1. Init => TypeOK
  <2> SUFFICES ASSUME Init PROVE TypeOK
    OBVIOUS
  <2>1. /\ idle \in 0..2 /\ restarts \in 0..Budget /\ cooldown \in 0..CooldownMax
        /\ exits \in Nat /\ transport \in Nat /\ barren \in Nat
    BY BudgetAssumption, CooldownAssumption DEF Init
  <2>2. picks \in Seq(Runs) /\ run \in [Runs -> RunStates]
    BY DEF Init, RunStates
  <2> QED BY <2>1, <2>2 DEF Init, TypeOK
<1>2. TypeOK /\ [Next]_vars => TypeOK'
  <2> SUFFICES ASSUME TypeOK, [Next]_vars PROVE TypeOK'
    OBVIOUS
  <2> USE BudgetAssumption, CooldownAssumption
  <2>1. ASSUME TakeExit PROVE cooldown' \in 0..CooldownMax /\ transport' \in Nat
                              /\ barren' \in Nat
    <3>1. transport + 1 \in Nat BY DEF TypeOK
    <3>2. ProviderCooldown(transport + 1) \in 0..CooldownMax BY <3>1, CooldownRange
    <3> QED BY <2>1, <3>1, <3>2 DEF TypeOK, TakeExit
  <2>2. CASE RestartAfterExit
    <3>1. restarts' \in 0..Budget /\ idle' \in 0..2 BY <2>2 DEF RestartAfterExit, TypeOK
    <3> QED BY <2>1, <2>2, <3>1 DEF RestartAfterExit, TakeExit, SessionEnded, TypeOK
  <2>3. CASE GiveUpAfterExit
    BY <2>1, <2>3 DEF GiveUpAfterExit, TakeExit, Leave, TypeOK
  <2>4. CASE CloseAfterExit
    BY <2>1, <2>4 DEF CloseAfterExit, TakeExit, Leave, TypeOK
  <2>5. CASE Sleep
    BY <2>5 DEF Sleep, TypeOK
  <2>6. CASE PollActs
    <3>1. picks' \in Seq(Runs) BY <2>6, OrdersAreSequences DEF PollActs
    <3>2. idle' \in 0..2 /\ restarts' \in 0..Budget
      BY <2>6 DEF PollActs, IdleNow, RestartsNow, TypeOK
    <3>3. bootDone' \in BOOLEAN BY <2>6 DEF PollActs
    <3> QED BY <2>6, <3>1, <3>2, <3>3 DEF PollActs, TypeOK
  <2>7. CASE PollKillsSession
    <3>1. idle' \in 0..2 /\ restarts' \in 0..Budget /\ barren' \in Nat
      BY <2>7 DEF PollKillsSession, TypeOK
    <3>2. outcome' \in {"running", "terminal", "degraded", "error"}
          /\ pc' \in {"loop", "sleep", "execute", "finalize", "stopped"}
          /\ session' \in {"live", "silent", "exited", "none"}
      BY <2>7 DEF PollKillsSession, Leave, TypeOK
    <3> QED BY <2>7, <3>1, <3>2 DEF PollKillsSession, TypeOK
  <2>8. CASE PollGivesUp
    <3>1. barren' \in Nat BY <2>8 DEF PollGivesUp, TypeOK
    <3> QED BY <2>8, <3>1 DEF PollGivesUp, Leave, TypeOK
  <2>9. CASE PollQuiet
    <3>1. idle' \in 0..2 /\ restarts' \in 0..Budget
      BY <2>9 DEF PollQuiet, IdleNow, RestartsNow, TypeOK
    <3>2. bootDone' \in BOOLEAN BY <2>9 DEF PollQuiet, BootDoneNow
    <3> QED BY <2>9, <3>1, <3>2 DEF PollQuiet, Leave, TypeOK
  <2>10. CASE Execute
    <3>1. Head(picks) \in Runs /\ Tail(picks) \in Seq(Runs)
      BY <2>10 DEF Execute, TypeOK
    <3>2. run' \in [Runs -> RunStates] /\ cooling' \subseteq Runs
      BY <2>10, <3>1 DEF Execute, TypeOK, RunStates
    <3> QED BY <2>10, <3>1, <3>2 DEF Execute, TypeOK
  <2>11. CASE Executed
    <3>1. idle' \in 0..2 BY <2>11 DEF Executed
    <3> QED BY <2>11, <3>1 DEF Executed, TypeOK
  <2>12. CASE Finalize
    BY <2>12 DEF Finalize, TypeOK
  <2>13. CASE Fault
    BY <2>13 DEF Fault, TypeOK
  <2>14. CASE \E r \in Runs : TeacherMoves(r)
    <3> PICK r \in Runs : TeacherMoves(r) BY <2>14
    <3>1. TeacherOutcomes(run[r]) \subseteq RunStates BY DEF TeacherOutcomes, RunStates
    <3> QED BY <3>1 DEF TeacherMoves, Progress, TypeOK
  <2>15. CASE \E r \in Runs : SessionRecovers(r)
    BY <2>15 DEF SessionRecovers, Progress, TypeOK, RunStates
  <2>16. CASE \E r \in Runs : SessionLaunches(r)
    BY <2>16 DEF SessionLaunches, Progress, TypeOK, RunStates
  <2>17. CASE \E r \in Runs : RunTimer(r)
    BY <2>17 DEF RunTimer, TypeOK, RunStates
  <2>18. CASE SessionExits
    BY <2>18 DEF SessionExits, TypeOK
  <2>19. CASE SessionSpeaks
    BY <2>19 DEF SessionSpeaks, TypeOK
  <2>20. CASE Tick
    BY <2>20 DEF Tick, TypeOK
  <2>21. CASE UNCHANGED vars
    BY <2>21 DEF vars, TypeOK
  <2> QED
    BY <2>2, <2>3, <2>4, <2>5, <2>6, <2>7, <2>8, <2>9, <2>10, <2>11, <2>12, <2>13, <2>14,
       <2>15, <2>16, <2>17, <2>18, <2>19, <2>20, <2>21
       DEF Next, WatchdogStep, Surroundings
<1> QED BY <1>1, <1>2, PTL DEF Spec

-----------------------------------------------------------------------------
(* The restart budget.                                                       *)

(* The restart count is never below the barren session ends, but for the end *)
(* that stops the watchdog; and a campaign that moved since the watchdog's   *)
(* fingerprint has no barren end, which is what makes a reset safe.          *)
LastEnd == IF pc \in {"finalize", "stopped"} THEN 1 ELSE 0

RestartsCoverExits ==
  /\ barren <= restarts + LastEnd
  /\ moved => barren = 0

LEMMA RestartsCoverExitsInvariant == Spec => []RestartsCoverExits
<1>1. Init => RestartsCoverExits
  BY DEF Init, RestartsCoverExits, LastEnd
<1>2. TypeOK /\ RestartsCoverExits /\ [Next]_vars => RestartsCoverExits'
  <2> SUFFICES ASSUME TypeOK, RestartsCoverExits, [Next]_vars PROVE RestartsCoverExits'
    OBVIOUS
  <2>1. barren \in Nat /\ restarts \in Nat
    BY BudgetAssumption DEF TypeOK
  <2>2. CASE RestartAfterExit
    BY <2>1, <2>2 DEF RestartAfterExit, TakeExit, SessionEnded, RestartsCoverExits, LastEnd
  <2>3. CASE GiveUpAfterExit
    BY <2>1, <2>3
       DEF GiveUpAfterExit, TakeExit, SessionEnded, Leave, RestartsCoverExits, LastEnd
  <2>4. CASE CloseAfterExit
    BY <2>1, <2>4
       DEF CloseAfterExit, TakeExit, SessionEnded, Leave, RestartsCoverExits, LastEnd
  <2>5. CASE Sleep
    BY <2>1, <2>5 DEF Sleep, RestartsCoverExits, LastEnd
  <2>6. CASE PollActs
    BY <2>1, <2>6 DEF PollActs, Polling, RestartsNow, RestartsCoverExits, LastEnd
  <2>7. CASE PollKillsSession
    BY <2>1, <2>7 DEF PollKillsSession, Polling, Leave, RestartsCoverExits, LastEnd
  <2>8. CASE PollGivesUp
    BY <2>1, <2>8 DEF PollGivesUp, Polling, Leave, RestartsCoverExits, LastEnd
  <2>9. CASE PollQuiet
    BY <2>1, <2>9 DEF PollQuiet, Polling, Leave, RestartsNow, RestartsCoverExits, LastEnd
  <2>10. CASE Execute
    BY <2>1, <2>10 DEF Execute, RestartsCoverExits, LastEnd
  <2>11. CASE Executed
    BY <2>1, <2>11 DEF Executed, RestartsCoverExits, LastEnd
  <2>12. CASE Finalize
    BY <2>1, <2>12 DEF Finalize, RestartsCoverExits, LastEnd
  <2>13. CASE Fault
    BY <2>1, <2>13 DEF Fault, RestartsCoverExits, LastEnd
  <2>14. CASE \E r \in Runs : TeacherMoves(r) \/ SessionRecovers(r) \/ SessionLaunches(r)
    BY <2>1, <2>14 DEF TeacherMoves, SessionRecovers, SessionLaunches, Progress,
                       RestartsCoverExits, LastEnd
  <2>15. CASE \E r \in Runs : RunTimer(r)
    BY <2>1, <2>15 DEF RunTimer, RestartsCoverExits, LastEnd
  <2>16. CASE SessionExits \/ SessionSpeaks \/ Tick
    BY <2>1, <2>16 DEF SessionExits, SessionSpeaks, Tick, RestartsCoverExits, LastEnd
  <2>17. CASE UNCHANGED vars
    BY <2>17 DEF vars, RestartsCoverExits, LastEnd
  <2> QED
    BY <2>2, <2>3, <2>4, <2>5, <2>6, <2>7, <2>8, <2>9, <2>10, <2>11, <2>12, <2>13, <2>14,
       <2>15, <2>16, <2>17
       DEF Next, WatchdogStep, Surroundings
<1> QED BY <1>1, <1>2, TypeCorrect, PTL DEF Spec

(* A campaign on which nothing moves burns at most the restart budget and    *)
(* the session end that exhausts it.                                         *)
THEOREM BarrenBounded == Spec => []BarrenExitsBounded
<1>1. TypeOK /\ RestartsCoverExits => BarrenExitsBounded
  BY BudgetAssumption DEF TypeOK, RestartsCoverExits, BarrenExitsBounded, LastEnd
<1> QED BY <1>1, TypeCorrect, RestartsCoverExitsInvariant, PTL

-----------------------------------------------------------------------------
(* Provider cooldowns.                                                       *)

(* What is left of the cooldown never exceeds the ladder's current rung.     *)
CooldownOnLadder == cooldown <= ProviderCooldown(transport)

LEMMA CooldownOnLadderInvariant == Spec => []CooldownOnLadder
<1>1. Init => CooldownOnLadder
  BY CooldownRange DEF Init, CooldownOnLadder, ProviderCooldown
<1>2. TypeOK /\ CooldownOnLadder /\ [Next]_vars => CooldownOnLadder'
  <2> SUFFICES ASSUME TypeOK, CooldownOnLadder, [Next]_vars PROVE CooldownOnLadder'
    OBVIOUS
  <2>1. transport \in Nat /\ transport + 1 \in Nat /\ cooldown \in Nat
    BY CooldownAssumption DEF TypeOK
  <2>2. /\ ProviderCooldown(transport) \in Nat
        /\ ProviderCooldown(transport + 1) \in Nat
        /\ ProviderCooldown(transport) <= ProviderCooldown(transport + 1)
    BY <2>1, CooldownRange, CooldownGrows, CooldownAssumption
  <2>3. CASE TakeExit
    <3>1. \/ transport' = transport /\ cooldown' = cooldown
          \/ transport' = transport + 1 /\ cooldown' = ProviderCooldown(transport + 1)
          \/ transport' = transport + 1 /\ cooldown' = cooldown
      BY <2>3 DEF TakeExit
    <3>2. CASE transport' = transport /\ cooldown' = cooldown
      BY <3>2 DEF CooldownOnLadder, ProviderCooldown
    <3>3. CASE transport' = transport + 1
      <4>1. ProviderCooldown(transport') = ProviderCooldown(transport + 1) BY <3>3
      <4>2. cooldown' = ProviderCooldown(transport + 1) \/ cooldown' = cooldown
        BY <3>1, <3>3
      <4>3. cooldown' <= ProviderCooldown(transport')
        BY <2>1, <2>2, <4>1, <4>2 DEF CooldownOnLadder
      <4> QED BY <4>3 DEF CooldownOnLadder, ProviderCooldown
    <3> QED BY <3>1, <3>2, <3>3
  <2>4. CASE transport' = transport /\ cooldown' \in Nat /\ cooldown' <= cooldown
    <3>1. cooldown' <= ProviderCooldown(transport)
      BY <2>1, <2>2, <2>4 DEF CooldownOnLadder
    <3> QED BY <2>4, <3>1 DEF CooldownOnLadder, ProviderCooldown
  <2>5. CASE UNCHANGED <<transport, cooldown>>
    BY <2>1, <2>4, <2>5
  <2>6. CASE Tick
    <3>1. transport' = transport BY <2>6 DEF Tick
    <3>2. cooldown' \in Nat /\ cooldown' <= cooldown BY <2>1, <2>6 DEF Tick
    <3> QED BY <2>4, <3>1, <3>2
  <2>7. CASE WatchdogStep
    <3>1. TakeExit \/ UNCHANGED <<transport, cooldown>>
      BY <2>7 DEF WatchdogStep, RestartAfterExit, GiveUpAfterExit, CloseAfterExit, Sleep,
                  PollActs, PollKillsSession, PollGivesUp, PollQuiet, Execute, Executed,
                  Finalize
    <3> QED BY <2>3, <2>5, <3>1
  <2>8. CASE Fault
    BY <2>5, <2>8 DEF Fault
  <2>9. CASE Surroundings
    <3>1. Tick \/ UNCHANGED <<transport, cooldown>>
      BY <2>9 DEF Surroundings, TeacherMoves, SessionRecovers, SessionLaunches, RunTimer,
                  SessionExits, SessionSpeaks
    <3> QED BY <2>5, <2>6, <3>1
  <2>10. CASE UNCHANGED vars
    BY <2>5, <2>10 DEF vars
  <2> QED BY <2>7, <2>8, <2>9, <2>10 DEF Next
<1> QED BY <1>1, <1>2, TypeCorrect, PTL DEF Spec

(* An owner exit never brings the end of a provider cooldown forward,        *)
(* whatever the ladder's base, step and maximum.                             *)
THEOREM CooldownKept == Spec => CooldownNeverShortened
<1>1. TypeOK /\ CooldownOnLadder /\ [Next]_vars
        => [session = "exited" /\ session' # "exited" => cooldown' >= cooldown]_vars
  <2> SUFFICES ASSUME TypeOK, CooldownOnLadder, Next,
                      session = "exited", session' # "exited"
               PROVE  cooldown' >= cooldown
    BY DEF vars
  <2>1. transport \in Nat /\ transport + 1 \in Nat /\ cooldown \in Nat
    BY CooldownAssumption DEF TypeOK
  <2>2. /\ ProviderCooldown(transport) \in Nat
        /\ ProviderCooldown(transport + 1) \in Nat
        /\ ProviderCooldown(transport) <= ProviderCooldown(transport + 1)
    BY <2>1, CooldownRange, CooldownGrows, CooldownAssumption
  <2>3. CASE TakeExit
    <3>1. cooldown' = cooldown \/ cooldown' = ProviderCooldown(transport + 1)
      BY <2>3 DEF TakeExit
    <3> QED BY <2>1, <2>2, <3>1 DEF CooldownOnLadder
  <2>4. TakeExit \/ UNCHANGED cooldown
    BY DEF Next, WatchdogStep, Fault, Surroundings, RestartAfterExit, GiveUpAfterExit,
           CloseAfterExit, Sleep, PollActs, PollKillsSession, PollGivesUp, PollQuiet, Execute,
           Executed, Finalize, TeacherMoves, SessionRecovers, SessionLaunches, RunTimer,
           SessionExits, SessionSpeaks, Tick
  <2> QED BY <2>1, <2>3, <2>4
<1> QED
  BY <1>1, TypeCorrect, CooldownOnLadderInvariant, PTL DEF Spec, CooldownNeverShortened

-----------------------------------------------------------------------------
(* The launch cap.  The slots are counted once for the whole batch, so that  *)
(* the invariant speaks of the launches still to be made, in their order.    *)

(* The runs at work when the i-th pick has been executed, if none before it  *)
(* is dropped.                                                               *)
AtWorkAfter(i) ==
  ActiveWork \cup {picks[j] : j \in {k \in 1..i : run[picks[k]] \in LAUNCH_ACTIONS}}

LaunchesFit ==
  pc = "execute" /\ ~moved =>
    /\ \A i, j \in DOMAIN picks : i < j => picks[i] # picks[j]
    /\ \A i \in DOMAIN picks :
         run[picks[i]] \in LAUNCH_ACTIONS => Cardinality(AtWorkAfter(i)) <= MaxActive

(* No run comes before itself.                                               *)
LEMMA BeforeIrreflexive == ASSUME NEW r \in Runs PROVE ~Before(r, r)
<1>1. RecoveryClassPriority(run[r]) \in Nat
  BY DEF RecoveryClassPriority
<1> QED BY <1>1, RunsAssumption DEF Before

(* A set of runs is finite, and at most the sum of two that cover it.        *)
LEMMA CoveredBy ==
  ASSUME NEW A \in SUBSET Runs, NEW B \in SUBSET Runs, NEW C \in SUBSET (A \cup B)
  PROVE  /\ Cardinality(A) \in Nat /\ Cardinality(B) \in Nat /\ Cardinality(C) \in Nat
         /\ Cardinality(C) <= Cardinality(A) + Cardinality(B)
<1>1. IsFiniteSet(A) /\ IsFiniteSet(B)
  BY RunsAssumption, FS_Subset
<1>2. /\ IsFiniteSet(A \cup B)
      /\ Cardinality(A \cup B) = Cardinality(A) + Cardinality(B) - Cardinality(A \cap B)
  BY <1>1, FS_Union
<1>3. IsFiniteSet(A \cap B)
  BY <1>1, FS_Subset
<1>4. IsFiniteSet(C) /\ Cardinality(C) <= Cardinality(A \cup B)
  BY <1>2, FS_Subset
<1>5. /\ Cardinality(A) \in Nat /\ Cardinality(B) \in Nat /\ Cardinality(C) \in Nat
      /\ Cardinality(A \cap B) \in Nat /\ Cardinality(A \cup B) \in Nat
  BY <1>1, <1>2, <1>3, <1>4, FS_CardinalityType
<1> QED BY <1>2, <1>4, <1>5

(* What a poll selects fits the free slots, in the order of execution.       *)
LEMMA PollSelectsWhatFits ==
  ASSUME TypeOK, PollActs PROVE LaunchesFit'
<1>1. /\ picks' \in Orders(TickPicks) /\ UNCHANGED run
  BY DEF PollActs
<1>2. PICK b \in BOOLEAN : TickPicks = Selected(b)
  BY DEF PollActs, TickPicks, BootstrapPicks, TopUpPicks, StallPicks
<1> DEFINE n == Cardinality(TickPicks)
<1>3. n \in Nat
  BY PicksAreRuns, RunsAssumption, FS_Subset, FS_CardinalityType
<1>4. /\ picks' \in [1..n -> TickPicks] /\ DOMAIN picks' = 1..n
      /\ \A i, j \in 1..n : i < j => Before(picks'[i], picks'[j])
  BY <1>1 DEF Orders
<1>5. \A i \in 1..n : picks'[i] \in Runs /\ picks'[i] \in Candidates(b)
                      /\ Fits(picks'[i], Candidates(b))
  BY <1>2, <1>4, PicksAreRuns DEF Selected
<1>6. \A i, j \in 1..n : i < j => picks'[i] # picks'[j]
  BY <1>4, <1>5, BeforeIrreflexive
<1>7. ASSUME NEW i \in 1..n, run[picks'[i]] \in LAUNCH_ACTIONS
      PROVE  Cardinality(AtWorkAfter(i)') <= MaxActive
  <2> DEFINE r == picks'[i]
             B == {q \in Candidates(b) : run[q] # "unverified" /\ Before(q, r)}
             A == {picks'[j] : j \in {k \in 1..i : run[picks'[k]] \in LAUNCH_ACTIONS}}
  <2>1. Cardinality(B) < SelectionBudget - Cardinality(ActiveWork)
    BY <1>5, <1>7 DEF Fits, LAUNCH_ACTIONS
  <2>2. ASSUME NEW j \in 1..i, run[picks'[j]] \in LAUNCH_ACTIONS
        PROVE  picks'[j] \in B \cup {r}
    <3>1. j \in 1..n /\ (j = i \/ j < i)
      BY <1>3
    <3>2. run[picks'[j]] # "unverified"
      BY <2>2 DEF LAUNCH_ACTIONS
    <3> QED BY <1>4, <1>5, <3>1, <3>2
  <2>3. A \subseteq B \cup {r}
    BY <2>2
  <2>4. ActiveWork \subseteq Runs /\ B \subseteq Runs /\ r \in Runs
    BY <1>5 DEF ActiveWork, Candidates
  <2>5. Cardinality({r}) = 1
    BY FS_Singleton
  <2>6. AtWorkAfter(i)' = ActiveWork \cup A
    BY <1>1 DEF AtWorkAfter, ActiveWork
  <2> HIDE DEF r, A, B
  <2>7. Cardinality(B \cup {r}) <= Cardinality(B) + 1
    BY <2>4, <2>5, CoveredBy
  <2>8. /\ Cardinality(ActiveWork \cup A) <= Cardinality(ActiveWork) + Cardinality(B \cup {r})
        /\ Cardinality(ActiveWork \cup A) \in Nat /\ Cardinality(ActiveWork) \in Nat
        /\ Cardinality(B \cup {r}) \in Nat
    BY <2>3, <2>4, CoveredBy
  <2>9. Cardinality(B) \in Nat
    BY <2>4, CoveredBy
  <2>10. SelectionBudget \in Nat /\ SelectionBudget <= MaxActive
    BY BudgetAssumption DEF SelectionBudget
  <2> QED BY <2>1, <2>6, <2>7, <2>8, <2>9, <2>10, BudgetAssumption
<1> QED BY <1>1, <1>4, <1>6, <1>7 DEF LaunchesFit, LAUNCH_ACTIONS

(* Executing a pick keeps the rest fitting.                                  *)
LEMMA ExecuteKeepsFit ==
  ASSUME TypeOK, LaunchesFit, Execute PROVE LaunchesFit'
<1> SUFFICES ASSUME ~moved PROVE LaunchesFit'
  BY DEF Execute, LaunchesFit
<1>1. /\ picks \in Seq(Runs) /\ picks # <<>> /\ picks' = Tail(picks) /\ pc = "execute"
      /\ run \in [Runs -> RunStates]
  BY DEF Execute, TypeOK
<1>2. /\ 1 \in DOMAIN picks /\ Head(picks) = picks[1] /\ picks[1] \in Runs
      /\ \A i \in DOMAIN picks' : i \in Nat \ {0} /\ i + 1 \in DOMAIN picks
                                 /\ picks'[i] = picks[i + 1] /\ picks[i + 1] \in Runs
  BY <1>1
<1>3. \A i, j \in DOMAIN picks' : i < j => picks'[i] # picks'[j]
  BY <1>1, <1>2 DEF LaunchesFit
<1>4. \A i \in DOMAIN picks' : picks'[i] # picks[1] /\ run'[picks'[i]] = run[picks'[i]]
  <2> SUFFICES ASSUME NEW i \in DOMAIN picks'
               PROVE  picks'[i] # picks[1] /\ run'[picks'[i]] = run[picks'[i]]
    OBVIOUS
  <2>1. picks'[i] # picks[1]
    BY <1>1, <1>2 DEF LaunchesFit
  <2> QED BY <1>1, <1>2, <2>1 DEF Execute
<1>5. ActiveWork' \subseteq ActiveWork
        \cup {r \in {picks[1]} : run[r] \in LAUNCH_ACTIONS}
  BY <1>1, <1>2 DEF Execute, ActiveWork
<1>6. ASSUME NEW i \in DOMAIN picks', run'[picks'[i]] \in LAUNCH_ACTIONS'
      PROVE  Cardinality(AtWorkAfter(i)') <= MaxActive
  <2>1. /\ run[picks[i + 1]] \in LAUNCH_ACTIONS /\ i + 1 \in DOMAIN picks
        /\ i \in Nat \ {0} /\ i + 1 <= Len(picks)
    BY <1>1, <1>2, <1>4, <1>6 DEF LAUNCH_ACTIONS
  <2>2. Cardinality(AtWorkAfter(i + 1)) <= MaxActive
    BY <1>1, <2>1 DEF LaunchesFit
  <2>3. AtWorkAfter(i)' \subseteq AtWorkAfter(i + 1)
    <3>1. ASSUME NEW k \in 1..i, run'[picks'[k]] \in LAUNCH_ACTIONS'
          PROVE  picks'[k] \in AtWorkAfter(i + 1)
      <4>1. k \in DOMAIN picks' /\ k + 1 \in 1..(i + 1)
        BY <1>1, <2>1
      <4>2. run[picks[k + 1]] \in LAUNCH_ACTIONS /\ picks'[k] = picks[k + 1]
        BY <1>2, <1>4, <3>1, <4>1 DEF LAUNCH_ACTIONS
      <4> QED BY <4>1, <4>2 DEF AtWorkAfter
    <3>2. ActiveWork' \subseteq AtWorkAfter(i + 1)
      BY <1>5, <2>1 DEF AtWorkAfter
    <3> QED BY <3>1, <3>2 DEF AtWorkAfter
  <2>4. AtWorkAfter(i + 1) \subseteq Runs
    BY <1>1, <2>1 DEF AtWorkAfter, ActiveWork
  <2>5. /\ Cardinality(AtWorkAfter(i)') <= Cardinality(AtWorkAfter(i + 1))
        /\ Cardinality(AtWorkAfter(i)') \in Nat /\ Cardinality(AtWorkAfter(i + 1)) \in Nat
    <3>1. IsFiniteSet(AtWorkAfter(i + 1))
      BY <2>4, RunsAssumption, FS_Subset
    <3> QED BY <2>3, <3>1, FS_Subset, FS_CardinalityType
  <2> QED BY <2>2, <2>5, BudgetAssumption
<1> QED BY <1>3, <1>6 DEF LaunchesFit

LEMMA LaunchesFitInvariant == Spec => []LaunchesFit
<1>1. Init => LaunchesFit
  BY DEF Init, LaunchesFit
<1>2. TypeOK /\ LaunchesFit /\ [Next]_vars => LaunchesFit'
  <2> SUFFICES ASSUME TypeOK, LaunchesFit, [Next]_vars PROVE LaunchesFit'
    OBVIOUS
  <2>1. CASE PollActs
    BY <2>1, PollSelectsWhatFits
  <2>2. CASE Execute
    BY <2>2, ExecuteKeepsFit
  <2>3. CASE pc' # "execute" \/ moved'
    BY <2>3 DEF LaunchesFit
  <2>4. CASE UNCHANGED <<run, picks, pc, moved>>
    BY <2>4 DEF LaunchesFit, AtWorkAfter, ActiveWork, LAUNCH_ACTIONS
  <2>5. CASE \E r \in Runs : RunTimer(r)
    <3> PICK r \in Runs : RunTimer(r) BY <2>5
    <3>1. UNCHANGED <<picks, pc, moved>>
      BY DEF RunTimer
    <3>2. \A q \in Runs : /\ run'[q] \in LAUNCH_ACTIONS <=> run[q] \in LAUNCH_ACTIONS
                          /\ run'[q] \in {"running", "closing"}
                               <=> run[q] \in {"running", "closing"}
      BY DEF RunTimer, TypeOK, LAUNCH_ACTIONS
    <3>3. \A i \in DOMAIN picks : picks[i] \in Runs
      BY DEF TypeOK
    <3>4. \A i \in DOMAIN picks : AtWorkAfter(i)' = AtWorkAfter(i)
      <4> SUFFICES ASSUME NEW i \in DOMAIN picks PROVE AtWorkAfter(i)' = AtWorkAfter(i)
        OBVIOUS
      <4>1. \A k \in 1..i : picks[k] \in Runs
        BY DEF TypeOK
      <4>2. ActiveWork' = ActiveWork
        BY <3>2 DEF ActiveWork
      <4>3. {k \in 1..i : run'[picks[k]] \in LAUNCH_ACTIONS}
              = {k \in 1..i : run[picks[k]] \in LAUNCH_ACTIONS}
        BY <3>2, <4>1
      <4> QED BY <3>1, <4>2, <4>3 DEF AtWorkAfter, LAUNCH_ACTIONS
    <3> QED BY <3>1, <3>2, <3>3, <3>4 DEF LaunchesFit, LAUNCH_ACTIONS
  <2>6. CASE \E r \in Runs : TeacherMoves(r) \/ SessionRecovers(r) \/ SessionLaunches(r)
    BY <2>3, <2>6 DEF TeacherMoves, SessionRecovers, SessionLaunches, Progress
  <2>7. CASE WatchdogStep
    <3>1. PollActs \/ Execute \/ pc' # "execute"
      BY <2>7 DEF WatchdogStep, RestartAfterExit, GiveUpAfterExit, CloseAfterExit, SessionEnded,
                  Sleep, PollKillsSession, PollGivesUp, PollQuiet, Executed, Finalize, Leave
    <3> QED BY <2>1, <2>2, <2>3, <3>1
  <2>8. CASE Fault \/ SessionExits \/ SessionSpeaks \/ Tick
    BY <2>3, <2>4, <2>8 DEF Fault, SessionExits, SessionSpeaks, Tick
  <2>9. CASE UNCHANGED vars
    BY <2>4, <2>9 DEF vars
  <2> QED BY <2>5, <2>6, <2>7, <2>8, <2>9 DEF Next, Surroundings
<1> QED BY <1>1, <1>2, TypeCorrect, PTL DEF Spec

(* As long as nothing else has moved the campaign since the poll, no launch  *)
(* of the watchdog exceeds --max-active-launches, for any number of runs,    *)
(* slots and batch, though the slots are counted once for the whole batch.   *)
THEOREM LaunchesCapped == Spec => LaunchCap
<1>1. TypeOK /\ LaunchesFit /\ [Next]_vars
        => [Execute /\ ~moved /\ run[Head(picks)] \in LAUNCH_ACTIONS =>
              Cardinality(ActiveWork') <= MaxActive]_vars
  <2> SUFFICES ASSUME TypeOK, LaunchesFit, Execute, ~moved,
                      run[Head(picks)] \in LAUNCH_ACTIONS
               PROVE  Cardinality(ActiveWork') <= MaxActive
    OBVIOUS
  <2>1. /\ 1 \in DOMAIN picks /\ Head(picks) = picks[1] /\ picks[1] \in Runs
        /\ run \in [Runs -> RunStates]
    BY DEF Execute, TypeOK
  <2>2. Cardinality(AtWorkAfter(1)) <= MaxActive
    BY <2>1 DEF LaunchesFit, Execute
  <2>3. run' = [run EXCEPT ![picks[1]] = "running"]
    BY <2>1 DEF Execute, LAUNCH_ACTIONS, AUTOMATIC_RECOVERY_ACTIONS
  <2>4. ActiveWork' = ActiveWork \cup {picks[1]}
    BY <2>1, <2>3 DEF ActiveWork
  <2>5. AtWorkAfter(1) = ActiveWork \cup {picks[1]}
    BY <2>1 DEF AtWorkAfter
  <2> QED BY <2>2, <2>4, <2>5
<1> QED BY <1>1, TypeCorrect, LaunchesFitInvariant, PTL DEF Spec, LaunchCap

(* The watchdog keeps to the cap on launches and to the provider cooldowns.  *)
THEOREM BudgetsAreKept == Spec => BudgetsKept
BY LaunchesCapped, CooldownKept, PTL DEF BudgetsKept

-----------------------------------------------------------------------------
(***************************************************************************)
(* What a campaign tells of itself, CampaignReports: an instance of it has *)
(* any number of runs, files and processes.  That nothing is lost holds    *)
(* however the processes interleave: an acceptance is in the log, or owed  *)
(* by one of them (Covered).  The rest holds as long as only one is at     *)
(* work at a time, which then finds the files as it has left them          *)
(* (Undisturbed); and of the changes of a run, as long as none is cut      *)
(* short, for then the timelines end in the status or lead to it (Chain).  *)
(***************************************************************************)

USE CampaignReportsAssumption

-----------------------------------------------------------------------------
(* The inductive invariant.                                                *)

Collecting == {"collect", "observe", "fill", "diff", "append"}
Places == Collecting \cup {"idle", "compare", "status", "overview", "write_surface",
                           "write_postmortem"}

\* What can be left to do: of an archive, and of the other jobs.
ArchiveRest ==
    {<<"collect", "compare", "status", "overview", "write_postmortem">>,
     <<"compare", "status", "overview", "write_postmortem">>,
     <<"status", "overview", "write_postmortem">>,
     <<"overview", "write_postmortem">>, <<"write_postmortem">>}
Rest == ArchiveRest \cup
    {<<>>, <<"compare">>, <<"overview", "write_surface">>, <<"write_surface">>}

Overviews == {NoOverview} \cup {Overview(s, c) : s \in Records \ {Missing}, c \in Reports}

Placed(p) ==
    \/ p = Idle
    \/ p.pc \in Collecting /\ p.todo \in Rest \ {<<"status", "overview", "write_postmortem">>,
                                                 <<"write_postmortem">>, <<"write_surface">>}
    \/ p.pc = "compare" /\ p.todo \in {<<>>, <<"status", "overview", "write_postmortem">>}
    \/ p.pc = "status" /\ p.todo \in {<<"overview", "write_surface">>,
                                      <<"overview", "write_postmortem">>}
    \/ p.pc = "overview" /\ p.todo \in {<<"write_surface">>, <<"write_postmortem">>}
    \/ p.pc \in {"write_surface", "write_postmortem"} /\ p.todo = <<>>

Procs == [pc : Places, todo : Rest, prev : Records, mine : Records, out : SUBSET Events,
          overview : Overviews]

\* A process is at a place of its job, with the status it needs there, and has
\* events to append only where it does.
Suits(p, now) ==
    /\ Placed(p)
    /\ p.pc \in {"fill", "diff", "append", "compare", "overview"} => p.mine # Missing
    /\ p.pc # "append" => p.out = {}
    /\ p.mine.at <= now

ProcType ==
    /\ proc \in [Reporter -> Procs]
    /\ \A w \in Reporter : Suits(proc[w], clock)

Alone == \A v, w \in Busy : v = w

\* The report is that of the status.
Current == status # Missing /\ report # NoReport /\ report.at >= status.at
           /\ report.runs = status.runs

\* What a process that is alone at work finds.
Steady(w) ==
    /\ At(w, "fill") => status = Missing /\ proc[w].mine.at > report.at
    /\ proc[w].pc \in {"diff", "append", "compare", "overview"} => status = proc[w].mine
    /\ At(w, "append") =>
          \A e \in proc[w].out : e.event # "run_status_changed" => e \notin Range(log)
    /\ proc[w].pc \in Collecting => proc[w].todo # <<"overview", "write_postmortem">>
    /\ \/ At(w, "status") /\ proc[w].todo = <<"overview", "write_postmortem">>
       \/ At(w, "overview") /\ proc[w].todo = <<"write_postmortem">>
       => Current
    /\ At(w, "write_postmortem") => proc[w].overview.fresh

Agrees == status # Missing /\ report # NoReport /\ report.at >= status.at =>
              report.runs = status.runs

Undisturbed == Alone /\ (\A w \in Busy : Steady(w)) /\ Agrees /\ LoggedOnce

\* Where the timelines of the log end, given a status.
EndsIn(s) == \A r \in Run : TimelineEnd(r, log) = StatusBefore(r, s)

ChangesOf(r, events) == {e \in events : e.event = "run_status_changed" /\ e.run = r}

\* The changes that a process has still to append lead from there to its status.
LeadsOn(w) ==
    \A r \in Run :
        /\ \A d, e \in ChangesOf(r, proc[w].out) : d = e
        /\ \A e \in ChangesOf(r, proc[w].out) :
              e.item[1] = TimelineEnd(r, log) /\ e.item[2] = proc[w].mine.runs[r].status
        /\ ChangesOf(r, proc[w].out) = {} => TimelineEnd(r, log) = proc[w].mine.runs[r].status

Logging == {w \in Reporter : proc[w].pc \in {"fill", "diff", "append"}}

\* The timelines end in the status, or lead to it.
Chain ==
    /\ Logging = {} => EndsIn(status)
    /\ \A w \in Reporter :
          /\ At(w, "observe") => proc[w].prev = status
          /\ proc[w].pc \in {"fill", "diff"} => EndsIn(proc[w].prev)
          /\ At(w, "append") => LeadsOn(w)

\* The acceptances of a status, those that a process will log, and all that are
\* in the log or will be.
Acceptances(s) ==
    IF s = Missing THEN {}
    ELSE UNION {{Accepted("validation_accepted", r, f) : f \in s.runs[r].proofs}
                \cup {Accepted("blocker_accepted", r, f) : f \in s.runs[r].blockers} :
                r \in Run}

Owed(w) ==
    IF proc[w].pc \in {"fill", "diff"}
    THEN Acceptances(proc[w].mine) \ Acceptances(proc[w].prev)
    ELSE proc[w].out

Handled == Range(log) \cup UNION {Owed(w) : w \in Reporter}

Covered ==
    /\ Acceptances(status) \subseteq Handled
    /\ \A w \in Reporter :
          proc[w].pc \in {"observe", "fill", "diff"} =>
              Acceptances(proc[w].prev) \subseteq Handled

ReportsIInv ==
    /\ ReportsTypeOK /\ ProcType
    /\ ~ overlapped => Undisturbed
    /\ ~ overlapped /\ ~ cut => Chain /\ ChangesChain
    /\ ~ cut => Covered

-----------------------------------------------------------------------------
(* Jobs and types.                                                         *)

\* What is next, and what is left after it.
LEMMA RestTable ==
  /\ Head(<<"compare">>) = "compare" /\ Tail(<<"compare">>) = <<>>
  /\ Head(<<"write_surface">>) = "write_surface" /\ Tail(<<"write_surface">>) = <<>>
  /\ Head(<<"write_postmortem">>) = "write_postmortem" /\ Tail(<<"write_postmortem">>) = <<>>
  /\ Head(<<"overview", "write_surface">>) = "overview"
  /\ Tail(<<"overview", "write_surface">>) = <<"write_surface">>
  /\ Head(<<"overview", "write_postmortem">>) = "overview"
  /\ Tail(<<"overview", "write_postmortem">>) = <<"write_postmortem">>
  /\ Head(<<"status", "overview", "write_postmortem">>) = "status"
  /\ Tail(<<"status", "overview", "write_postmortem">>) = <<"overview", "write_postmortem">>
  /\ Head(<<"compare", "status", "overview", "write_postmortem">>) = "compare"
  /\ Tail(<<"compare", "status", "overview", "write_postmortem">>)
        = <<"status", "overview", "write_postmortem">>
  /\ Head(<<"collect", "compare", "status", "overview", "write_postmortem">>) = "collect"
  /\ Tail(<<"collect", "compare", "status", "overview", "write_postmortem">>)
        = <<"compare", "status", "overview", "write_postmortem">>
OBVIOUS

\* Jobs that differ in what is next.
LEMMA RestDiffers ==
  /\ <<"compare", "status", "overview", "write_postmortem">>
        # <<"overview", "write_postmortem">>
  /\ <<"overview", "write_surface">> # <<"overview", "write_postmortem">>
OBVIOUS

\* Done with a step, a process is at one of the places of its job, or idle.
LEMMA OnwardType ==
  ASSUME NEW p \in Procs, Placed(p), p.pc # "idle"
  PROVE  LET q == Onward(p)
         IN  \/ q = Idle /\ p.todo = <<>>
             \/ /\ q \in Procs /\ Placed(q) /\ p.todo # <<>>
                /\ q.pc = Head(p.todo) /\ q.todo = Tail(p.todo) /\ q.pc \in Places \ {"idle"}
                /\ q.prev = p.prev /\ q.mine = p.mine /\ q.out = p.out
                /\ q.overview = p.overview
                /\ p.pc \in Collecting =>
                      \/ q.pc \in {"collect", "compare"}
                      \/ q.pc = "overview"
                         /\ (q.todo = <<"write_postmortem">> =>
                                p.todo = <<"overview", "write_postmortem">>)
                /\ q.pc \in Collecting => q.todo # <<"overview", "write_postmortem">>
                /\ p.pc = "compare" =>
                      q.pc = "status" /\ q.todo = <<"overview", "write_postmortem">>
                /\ p.pc = "status" =>
                      q.pc = "overview"
                      /\ (q.todo = <<"write_postmortem">> =>
                                p.todo = <<"overview", "write_postmortem">>)
                /\ p.pc = "overview" =>
                      /\ q.pc \in {"write_surface", "write_postmortem"}
                      /\ (q.pc = "write_postmortem" => p.todo = <<"write_postmortem">>)
                /\ p.pc \notin {"write_surface", "write_postmortem"}
<1> DEFINE q == [p EXCEPT !.pc = Head(p.todo), !.todo = Tail(p.todo)]
<1>1. CASE p.todo = <<>>
  BY <1>1 DEF Onward
<1>2. CASE p.todo # <<>>
  <2>1. Onward(p) = q
    BY <1>2 DEF Onward
  <2>2. Head(p.todo) \in Places \ {"idle"} /\ Tail(p.todo) \in Rest
    BY <1>2, RestTable DEF Procs, Rest, ArchiveRest, Places, Collecting
  <2>3. /\ q \in Procs /\ q.pc = Head(p.todo) /\ q.todo = Tail(p.todo)
        /\ q.prev = p.prev /\ q.mine = p.mine /\ q.out = p.out /\ q.overview = p.overview
    BY <2>2 DEF Procs
  <2> HIDE DEF q
  <2>4. Idle.pc = "idle"
    BY DEF Idle
  <2>5. CASE p.pc \in Collecting
    <3>1. p.todo \in {<<"compare">>, <<"overview", "write_surface">>,
                      <<"overview", "write_postmortem">>,
                      <<"compare", "status", "overview", "write_postmortem">>,
                      <<"collect", "compare", "status", "overview", "write_postmortem">>}
      BY <1>2, <2>4, <2>5 DEF Placed, Collecting, Rest, ArchiveRest
    <3>2. q.pc \in Collecting => q.todo # <<"overview", "write_postmortem">>
      BY <2>3, <3>1, RestTable, RestDiffers DEF Collecting
    <3> QED
      BY <1>2, <2>1, <2>2, <2>3, <2>5, <3>1, <3>2, RestTable
      DEF Placed, Collecting, Rest, ArchiveRest
  <2>6. CASE p.pc = "compare"
    <3>1. p.todo = <<"status", "overview", "write_postmortem">>
      BY <1>2, <2>4, <2>6 DEF Placed, Collecting
    <3> QED
      BY <1>2, <2>1, <2>2, <2>3, <2>6, <3>1, RestTable DEF Placed, Collecting
  <2>7. CASE p.pc = "status"
    <3>1. p.todo \in {<<"overview", "write_surface">>, <<"overview", "write_postmortem">>}
      BY <1>2, <2>4, <2>7 DEF Placed, Collecting
    <3> QED
      BY <1>2, <2>1, <2>2, <2>3, <2>7, <3>1, RestTable DEF Placed, Collecting
  <2>8. CASE p.pc = "overview"
    <3>1. p.todo \in {<<"write_surface">>, <<"write_postmortem">>}
      BY <1>2, <2>4, <2>8 DEF Placed, Collecting
    <3> QED
      BY <1>2, <2>1, <2>2, <2>3, <2>8, <3>1, RestTable DEF Placed, Collecting
  <2>9. CASE p.pc \in {"write_surface", "write_postmortem"}
    BY <1>2, <2>4, <2>9 DEF Placed, Collecting
  <2> QED
    BY <2>4, <2>5, <2>6, <2>7, <2>8, <2>9 DEF Procs, Places
<1> QED
  BY <1>1, <1>2

\* A process between two jobs.
LEMMA IdleProc ==
  /\ Idle \in Procs /\ Idle.pc = "idle" /\ Idle.todo = <<>> /\ Idle.out = {}
  /\ Idle.mine = Missing /\ Idle.prev = Missing /\ Idle.overview = NoOverview
  /\ \A now \in Nat : Suits(Idle, now)
BY DEF Idle, Procs, Places, Rest, Records, Overviews, Suits, Placed, Missing

\* A status on record is stamped; there is none otherwise.
LEMMA RecordType ==
  ASSUME NEW s \in Records
  PROVE  /\ s.at \in Nat
         /\ s # Missing => s.at > 0 /\ s.runs \in [Run -> Seen]
BY DEF Records, Missing

\* A report is stamped, and on all the runs; there is none otherwise.
LEMMA ReportType ==
  ASSUME NEW c \in Reports
  PROVE  /\ c.at \in Nat
         /\ c # NoReport => c.at > 0 /\ c.runs \in [Run -> Seen]
BY DEF Reports, NoReport

\* A process that goes on with a status finds what it needs there.
LEMMA OnwardSuits ==
  ASSUME NEW now \in Nat, NEW p \in Procs, Placed(p), p.pc # "idle", p.out = {},
         p.mine.at <= now, p.mine # Missing \/ p.pc \in {"write_surface", "write_postmortem"}
  PROVE  Onward(p) \in Procs /\ Suits(Onward(p), now)
<1> DEFINE q == Onward(p)
<1>1. CASE q = Idle
  BY <1>1, IdleProc
<1>2. CASE q # Idle
  <2>1. /\ q \in Procs /\ Placed(q) /\ q.out = p.out /\ q.mine = p.mine
        /\ p.pc \notin {"write_surface", "write_postmortem"}
        /\ \/ p.pc \in Collecting /\ q.pc \in {"collect", "compare", "overview"}
           \/ p.pc = "compare" /\ q.pc = "status"
           \/ p.pc = "status" /\ q.pc = "overview"
           \/ p.pc = "overview" /\ q.pc \in {"write_surface", "write_postmortem"}
    <3> HIDE DEF q
    <3>1. LET o == q
          IN  \/ o = Idle /\ p.todo = <<>>
              \/ /\ o \in Procs /\ Placed(o) /\ o.out = p.out /\ o.mine = p.mine
                 /\ p.pc \in Collecting => o.pc \in {"collect", "compare", "overview"}
                 /\ p.pc = "compare" => o.pc = "status"
                 /\ p.pc = "status" => o.pc = "overview"
                 /\ p.pc = "overview" => o.pc \in {"write_surface", "write_postmortem"}
                 /\ p.pc \notin {"write_surface", "write_postmortem"}
      BY OnwardType DEF q
    <3>2. p.pc \in Collecting \cup {"compare", "status", "overview", "write_surface",
                                    "write_postmortem"}
      BY DEF Procs, Places
    <3> QED
      BY <1>2, <3>1, <3>2
  <2> HIDE DEF q
  <2>2. q.pc # "append"
    BY <2>1
  <2> QED
    BY <2>1, <2>2 DEF Suits, q
<1> QED
  BY <1>1, <1>2

\* A step is one of one process.
LEMMA BecomesType ==
  ASSUME proc \in [Reporter -> Procs], NEW w \in Reporter, NEW p \in Procs, Becomes(w, p)
  PROVE  /\ proc' \in [Reporter -> Procs] /\ proc'[w] = p
         /\ \A v \in Reporter \ {w} : proc'[v] = proc[v]
BY DEF Becomes

\* A step of one process leaves the places of the others.
LEMMA ProcTypeKept ==
  ASSUME ReportsTypeOK, ProcType, NEW w \in Reporter, NEW p \in Procs, Becomes(w, p),
         Suits(p, clock'), clock' \in Nat, clock' >= clock
  PROVE  ProcType'
<1>1. /\ proc' \in [Reporter -> Procs] /\ proc'[w] = p
      /\ \A v \in Reporter \ {w} : proc'[v] = proc[v]
  BY BecomesType DEF ProcType
<1>2. ASSUME NEW v \in Reporter
      PROVE  Suits(proc'[v], clock')
  <2>1. CASE v = w
    BY <1>1, <2>1
  <2>2. CASE v # w
    <3>1. proc[v].mine.at \in Nat /\ proc[v].mine.at <= clock /\ clock \in Nat
      BY RecordType DEF ProcType, Procs, Suits, ReportsTypeOK
    <3> QED
      BY <1>1, <2>2, <3>1 DEF ProcType, Suits
  <2> QED
    BY <2>1, <2>2
<1> QED
  BY <1>1, <1>2 DEF ProcType

-----------------------------------------------------------------------------
(* The types of the variables.                                             *)

\* What a collection logs are events.
LEMMA StatusEventsType ==
  ASSUME NEW prev \in Records, NEW mine \in Records, mine # Missing, NEW logged
  PROVE  StatusEvents(prev, mine.runs, logged) \subseteq Events
<1> SUFFICES ASSUME NEW r \in Run
             PROVE  StatusChange(r, prev, mine.runs)
                       \cup RunAcceptances(r, prev, mine.runs, logged) \subseteq Events
  BY DEF StatusEvents
<1>1. /\ mine.runs[r].status \in Statuses
      /\ mine.runs[r].proofs \subseteq File /\ mine.runs[r].blockers \subseteq File
      /\ StatusBefore(r, prev) \in Statuses \cup {"none"}
  BY RecordType DEF Seen, StatusBefore
<1>2. StatusChange(r, prev, mine.runs) \subseteq Events
  BY <1>1 DEF StatusChange, Events
<1>3. RunAcceptances(r, prev, mine.runs, logged) \subseteq Events
  BY <1>1 DEF RunAcceptances, NewAcceptances, Events
<1> QED
  BY <1>2, <1>3

\* A job begins by a collection, or by the status on file.
LEMMA StartShape ==
  ASSUME NEW job \in DOMAIN Jobs, NEW now \in Nat
  PROVE  LET q == Onward([Idle EXCEPT !.todo = Jobs[job]])
         IN  /\ q \in Procs /\ Suits(q, now) /\ q.out = {}
             /\ \/ q.pc = "collect" /\ q.todo # <<"overview", "write_postmortem">>
                \/ q.pc = "status" /\ q.todo = <<"overview", "write_surface">>
<1> DEFINE q == Onward([Idle EXCEPT !.todo = Jobs[job]])
<1> DEFINE rest == {<<>>, <<"compare">>, <<"overview", "write_surface">>,
                    <<"collect", "compare", "status", "overview", "write_postmortem">>}
<1>1. /\ Jobs[job] # <<>>
      /\ \/ Head(Jobs[job]) = "collect" /\ Tail(Jobs[job]) \in rest
         \/ Head(Jobs[job]) = "status" /\ Tail(Jobs[job]) = <<"overview", "write_surface">>
  <2>1. job \in {"collect", "compare", "overview", "peek", "archive"}
    BY DEF Jobs
  <2>2. CASE job = "collect"
    <3>1. Jobs[job] = <<"collect">>
      BY <2>2 DEF Jobs
    <3>2. Head(<<"collect">>) = "collect" /\ Tail(<<"collect">>) = <<>> /\ <<"collect">> # <<>>
      OBVIOUS
    <3> QED
      BY <3>1, <3>2, Zenon
  <2>3. CASE job = "compare"
    <3>1. Jobs[job] = <<"collect", "compare">>
      BY <2>3 DEF Jobs
    <3>2. /\ Head(<<"collect", "compare">>) = "collect"
          /\ Tail(<<"collect", "compare">>) = <<"compare">> /\ <<"collect", "compare">> # <<>>
      OBVIOUS
    <3> QED
      BY <3>1, <3>2, Zenon
  <2>4. CASE job = "overview"
    <3>1. Jobs[job] = <<"collect", "overview", "write_surface">>
      BY <2>4 DEF Jobs
    <3>2. /\ Head(<<"collect", "overview", "write_surface">>) = "collect"
          /\ Tail(<<"collect", "overview", "write_surface">>) = <<"overview", "write_surface">>
          /\ <<"collect", "overview", "write_surface">> # <<>>
      OBVIOUS
    <3> QED
      BY <3>1, <3>2, Zenon
  <2>5. CASE job = "peek"
    <3>1. Jobs[job] = <<"status", "overview", "write_surface">>
      BY <2>5 DEF Jobs
    <3>2. /\ Head(<<"status", "overview", "write_surface">>) = "status"
          /\ Tail(<<"status", "overview", "write_surface">>) = <<"overview", "write_surface">>
          /\ <<"status", "overview", "write_surface">> # <<>>
      OBVIOUS
    <3> QED
      BY <3>1, <3>2, Zenon
  <2>6. CASE job = "archive"
    <3> DEFINE l ==
          <<"collect", "collect", "compare", "status", "overview", "write_postmortem">>
    <3>1. Jobs[job] = l
      BY <2>6 DEF Jobs
    <3>2. /\ Head(l) = "collect" /\ l # <<>>
          /\ Tail(l) = <<"collect", "compare", "status", "overview", "write_postmortem">>
      OBVIOUS
    <3> QED
      BY <3>1, <3>2, Zenon
  <2> QED
    BY <2>1, <2>2, <2>3, <2>4, <2>5, <2>6
<1>2. q = [Idle EXCEPT !.pc = Head(Jobs[job]), !.todo = Tail(Jobs[job])]
  BY <1>1 DEF Onward, Idle
<1>3. /\ q.pc = Head(Jobs[job]) /\ q.todo = Tail(Jobs[job]) /\ q.out = {} /\ q.mine = Missing
      /\ q.pc \in Places /\ q.todo \in Rest
  BY <1>1, <1>2 DEF Idle, Places, Collecting, Rest, ArchiveRest
<1>4. q \in Procs
  BY <1>2, <1>3, IdleProc DEF Procs
<1> HIDE DEF q
<1>5. Placed(q) /\ q.todo # <<"overview", "write_postmortem">>
  <2>1. CASE q.pc = "status"
    BY <1>1, <1>3, <2>1 DEF Placed
  <2>2. CASE q.pc = "collect" /\ q.todo \in rest
    <3>1. /\ q.todo # <<"status", "overview", "write_postmortem">>
          /\ q.todo # <<"write_postmortem">> /\ q.todo # <<"write_surface">>
          /\ q.todo # <<"overview", "write_postmortem">>
      <4>1. \/ q.todo = <<>>
            \/ q.todo = <<"compare">>
            \/ q.todo = <<"overview", "write_surface">>
            \/ q.todo = <<"collect", "compare", "status", "overview", "write_postmortem">>
        BY <2>2
      <4>2. CASE q.todo = <<>>
        BY <4>2
      <4>3. CASE q.todo = <<"compare">>
        BY <4>3
      <4>4. CASE q.todo = <<"overview", "write_surface">>
        BY <4>4
      <4>5. CASE q.todo = <<"collect", "compare", "status", "overview", "write_postmortem">>
        BY <4>5
      <4> QED
        BY <4>1, <4>2, <4>3, <4>4, <4>5
    <3> QED
      BY <1>3, <2>2, <3>1 DEF Placed, Collecting
  <2> QED
    BY <1>1, <1>3, <2>1, <2>2
<1>6. Suits(q, now)
  BY <1>1, <1>3, <1>5 DEF Suits, Missing
<1> QED
  BY <1>1, <1>3, <1>4, <1>5, <1>6 DEF q

\* At the places of a collection, what is left to do stays the same.
LEMMA Collects ==
  ASSUME NEW p \in Procs, p.pc \in Collecting, Placed(p), NEW q \in Procs,
         q.pc \in Collecting, q.todo = p.todo
  PROVE  Placed(q)
BY DEF Placed, Collecting, Idle

\* The overview of a status is one.
LEMMA OverviewType ==
  ASSUME NEW s \in Records, s # Missing, NEW c \in Reports
  PROVE  Overview(s, c) \in Overviews
BY DEF Overviews

-----------------------------------------------------------------------------
(* The log.                                                                *)

\* What an event added to a log makes of it.
LEMMA Logged ==
  ASSUME NEW logged \in Seq(Events), NEW e \in Events
  PROVE  LET l == Append(logged, e)
             n == Len(logged)
         IN  /\ l \in Seq(Events) /\ n \in Nat
             /\ DOMAIN logged = 1 .. n /\ DOMAIN l = 1 .. n + 1
             /\ l[n + 1] = e /\ \A i \in 1 .. n : l[i] = logged[i]
             /\ Range(l) = Range(logged) \cup {e}
<1> DEFINE l == Append(logged, e)
<1> DEFINE n == Len(logged)
<1>1. /\ l \in Seq(Events) /\ n \in Nat /\ DOMAIN logged = 1 .. n /\ DOMAIN l = 1 .. n + 1
      /\ l[n + 1] = e /\ \A i \in 1 .. n : l[i] = logged[i]
  OBVIOUS
<1> HIDE DEF l, n
<1>2. Range(l) \subseteq Range(logged) \cup {e}
  <2> SUFFICES ASSUME NEW i \in 1 .. n + 1
               PROVE  l[i] \in Range(logged) \cup {e}
    BY <1>1 DEF Range
  <2>1. i \in 1 .. n \/ i = n + 1
    BY <1>1
  <2> QED
    BY <1>1, <2>1 DEF Range
<1>3. Range(logged) \cup {e} \subseteq Range(l)
  <2>1. n + 1 \in 1 .. n + 1 /\ 1 .. n \subseteq 1 .. n + 1
    BY <1>1
  <2>2. e \in Range(l)
    BY <1>1, <2>1 DEF Range
  <2>3. ASSUME NEW i \in 1 .. n
        PROVE  logged[i] \in Range(l)
    BY <1>1, <2>1 DEF Range
  <2> QED
    BY <1>1, <2>2, <2>3 DEF Range
<1> QED
  BY <1>1, <1>2, <1>3 DEF l, n

\* Of natural numbers one is the smallest.
LEMMA Smallest ==
  ASSUME NEW S \in SUBSET Nat, S # {}
  PROVE  \E m \in S : \A k \in S : m <= k
<1> DEFINE less == {ss \in Nat \X Nat : ss[1] < ss[2]}
<1>1. IsWellFoundedOn(less, Nat)
  BY NatLessThanWellFounded DEF OpToRel
<1>2. \A k, m \in Nat : k < m => <<k, m>> \in less
  OBVIOUS
<1> HIDE DEF less
<1>3. PICK m \in S : \A k \in S : <<k, m>> \notin less
  BY <1>1, WFMin
<1>4. ASSUME NEW k \in S
      PROVE  m <= k
  <2>1. k \in Nat /\ m \in Nat /\ ~ k < m
    BY <1>2, <1>3
  <2> QED
    BY <2>1
<1> QED
  BY <1>4

\* The last of the changes of a run.
LEMMA LastChange ==
  ASSUME NEW logged \in Seq(Events), NEW r, Changes(r, logged) # {}
  PROVE  LET m == Max(Changes(r, logged))
         IN  /\ m \in Changes(r, logged)
             /\ \A i \in Changes(r, logged) : i <= m
<1> DEFINE C == Changes(r, logged)
<1> DEFINE n == Len(logged)
<1> DEFINE gaps == {n - i : i \in C}
<1>1. C \subseteq 1 .. n /\ n \in Nat /\ C # {}
  BY DEF Changes
<1> HIDE DEF C, n
<1>2. gaps \subseteq Nat /\ gaps # {}
  <2>1. ASSUME NEW i \in C
        PROVE  n - i \in Nat
    BY <1>1
  <2> QED
    BY <1>1, <2>1
<1>3. PICK g \in gaps : \A h \in gaps : g <= h
  BY <1>2, Smallest
<1>4. PICK m \in C : g = n - m
  BY <1>3
<1>5. ASSUME NEW i \in C
      PROVE  m >= i
  <2>1. n - i \in gaps
    OBVIOUS
  <2>2. n - m <= n - i
    BY <1>3, <1>4, <2>1
  <2> QED
    BY <1>1, <2>2
<1>6. \E x \in C : \A y \in C : x >= y
  BY <1>4, <1>5
<1>7. Max(C) \in C /\ \A i \in C : Max(C) >= i
  BY <1>6 DEF Max
<1>8. ASSUME NEW i \in C
      PROVE  i <= Max(C)
  BY <1>1, <1>7
<1> QED
  BY <1>7, <1>8 DEF C

\* What an event tells of.
LEMMA ChangedType ==
  ASSUME NEW e \in Events
  PROVE  IF e.event = "run_status_changed"
         THEN e.item[1] \in Statuses \cup {"none"} /\ e.item[2] \in Statuses
         ELSE e.event \in {"validation_accepted", "blocker_accepted"}
BY DEF Events, Changed, Accepted

\* A timeline ends in a status, if there is one.
LEMMA EndType ==
  ASSUME ReportsTypeOK, NEW r \in Run
  PROVE  TimelineEnd(r, log) \in Statuses \cup {"none"}
<1> DEFINE m == Max(Changes(r, log))
<1>1. CASE Changes(r, log) = {}
  BY <1>1 DEF TimelineEnd
<1>2. CASE Changes(r, log) # {}
  <2>1. m \in Changes(r, log)
    BY <1>2, LastChange DEF ReportsTypeOK
  <2> HIDE DEF m
  <2>2. log[m] \in Events /\ log[m].event = "run_status_changed"
    BY <2>1 DEF ReportsTypeOK, Changes
  <2>3. log[m].item[2] \in Statuses
    BY <2>2, ChangedType
  <2> QED
    BY <1>2, <2>3 DEF TimelineEnd, m
<1> QED
  BY <1>1, <1>2

\* Of a process.
LEMMA ProcAt ==
  ASSUME ReportsTypeOK, ProcType, NEW w \in Reporter
  PROVE  /\ proc[w] \in Procs /\ Suits(proc[w], clock) /\ Placed(proc[w])
         /\ proc[w].mine \in Records /\ proc[w].prev \in Records /\ proc[w].out \subseteq Events
         /\ proc[w].overview \in Overviews /\ proc[w].todo \in Rest /\ proc[w].pc \in Places
         /\ proc[w].mine.at \in Nat /\ clock \in Nat
BY RecordType DEF ProcType, Procs, Suits, ReportsTypeOK

\* Where a step of a process leaves everything else of its type, and its place
\* is one for what it has.
LEMMA StepType ==
  ASSUME ReportsTypeOK, ProcType, NEW w \in Reporter, NEW p \in Procs, Becomes(w, p),
         Suits(p, clock'), clock' \in {clock, clock + 1},
         world' \in [Run -> Seen], moves' \in 0 .. MaxMoves, budget' \in 0 .. MaxStamps,
         status' \in Records, report' \in Reports, log' \in Seq(Events),
         {status'.at, report'.at} \subseteq 0 .. clock', {overlapped', cut'} \subseteq BOOLEAN
  PROVE  ReportsTypeOK' /\ ProcType'
<1>1. clock' \in Nat /\ clock' >= clock
  BY DEF ReportsTypeOK
<1>2. ProcType'
  BY <1>1, ProcTypeKept
<1>3. ASSUME NEW v \in Reporter
      PROVE  proc'[v].pc # "idle" \/ proc'[v] = Idle
  <2>1. Placed(proc'[v])
    BY <1>2 DEF ProcType, Suits
  <2> QED
    BY <2>1 DEF Placed, Collecting
<1> QED
  BY <1>1, <1>2, <1>3 DEF ReportsTypeOK

\* Neither files nor history change.
FilesKept == UNCHANGED <<world, moves, files, clock, budget, overlapped, cut>>

\* A step that writes nothing.
LEMMA QuietType ==
  ASSUME ReportsTypeOK, ProcType, NEW w \in Reporter, NEW p \in Procs, Becomes(w, p),
         Suits(p, clock), FilesKept
  PROVE  ReportsTypeOK' /\ ProcType'
BY StepType DEF FilesKept, files, ReportsTypeOK

\* Start keeps the types.
LEMMA StartType ==
  ASSUME ReportsTypeOK, ProcType, NEW w \in Reporter, NEW job \in DOMAIN Jobs, Start(w, job)
  PROVE  ReportsTypeOK' /\ ProcType'
<1> DEFINE q == Onward([Idle EXCEPT !.todo = Jobs[job]])
<1>1. q \in Procs /\ Suits(q, clock')
  BY StartShape DEF Start, ReportsTypeOK
<1>2. Becomes(w, q)
  BY DEF Start
<1>3. Stamps(job) \in Nat
  <2>1. job \in {"collect", "compare", "overview", "peek", "archive"}
    BY DEF Jobs
  <2>2. \E n \in Nat : DOMAIN Jobs[job] = 1 .. n
    <3>1. CASE job = "collect"
      BY <3>1 DEF Jobs
    <3>2. CASE job = "compare"
      BY <3>2 DEF Jobs
    <3>3. CASE job = "overview"
      BY <3>3 DEF Jobs
    <3>4. CASE job = "peek"
      BY <3>4 DEF Jobs
    <3>5. CASE job = "archive"
      BY <3>5 DEF Jobs
    <3> QED
      BY <2>1, <3>1, <3>2, <3>3, <3>4, <3>5
  <2>3. IsFiniteSet(DOMAIN Jobs[job])
    BY <2>2, FS_Interval
  <2> QED
    BY <2>3, FS_Subset, FS_CardinalityType DEF Stamps
<1>4. budget' \in 0 .. MaxStamps
  BY <1>3 DEF Start, ReportsTypeOK
<1> HIDE DEF q
<1> QED
  BY <1>1, <1>2, <1>4, StepType DEF Start, files, ReportsTypeOK

\* So does Collect, which reads the status there was,
LEMMA CollectType ==
  ASSUME ReportsTypeOK, ProcType, NEW w \in Reporter, Collect(w)
  PROVE  ReportsTypeOK' /\ ProcType'
<1> DEFINE q == [proc[w] EXCEPT !.pc = "observe", !.prev = status]
<1>1. q \in Procs /\ q.pc = "observe" /\ q.todo = proc[w].todo /\ q.mine = proc[w].mine
      /\ q.out = proc[w].out
  BY ProcAt DEF Procs, Places, Collecting, ReportsTypeOK
<1>2. Becomes(w, q) /\ FilesKept
  BY DEF Collect, FilesKept
<1> HIDE DEF q
<1>3. Suits(q, clock)
  BY <1>1, ProcAt, Collects DEF Collect, At, Suits, Collecting
<1> QED
  BY <1>1, <1>2, <1>3, QuietType

\* and Observe, which stamps the new one,
LEMMA ObserveType ==
  ASSUME ReportsTypeOK, ProcType, NEW w \in Reporter, NEW r \in Run,
         NEW o \in {world[r]} \cup Observable, Observe(w, r, o)
  PROVE  /\ ReportsTypeOK' /\ ProcType' /\ proc'[w].mine.at = clock + 1
         /\ proc'[w].prev = proc[w].prev /\ proc'[w].todo = proc[w].todo
         /\ proc'[w].pc = "fill" /\ proc'[w].mine # Missing
<1> DEFINE mine == [at |-> clock + 1, runs |-> world']
<1> DEFINE q == [proc[w] EXCEPT !.pc = "fill", !.mine = mine]
<1>1. world' \in [Run -> Seen] /\ clock' = clock + 1 /\ clock \in Nat
  BY DEF Observe, Ticks, ReportsTypeOK, Observable
<1>2. mine \in Records /\ mine.at = clock + 1 /\ mine # Missing
  BY <1>1 DEF Records, Missing
<1>3. Becomes(w, q)
  BY <1>1 DEF Observe
<1> HIDE DEF mine
<1>4. /\ q \in Procs /\ q.pc = "fill" /\ q.todo = proc[w].todo /\ q.mine = mine
      /\ q.out = proc[w].out /\ q.prev = proc[w].prev
  BY <1>2, ProcAt DEF Procs, Places, Collecting
<1> HIDE DEF q
<1>5. Suits(q, clock')
  BY <1>1, <1>2, <1>4, ProcAt, Collects DEF Observe, At, Suits, Collecting
<1>6. moves' \in 0 .. MaxMoves
  BY DEF Observe, ReportsTypeOK
<1>7. /\ status' = Missing /\ Missing \in Records /\ Missing.at = 0
      /\ UNCHANGED <<log, report, budget, overlapped, cut>>
  BY DEF Observe, Records, Missing
<1>8. ReportsTypeOK' /\ ProcType'
  <2>1. {status'.at, report'.at} \subseteq 0 .. clock'
    BY <1>1, <1>7 DEF ReportsTypeOK
  <2> QED
    BY <1>1, <1>3, <1>4, <1>5, <1>6, <1>7, <2>1, StepType DEF ReportsTypeOK
<1>9. proc'[w] = q
  BY <1>3, <1>4, BecomesType DEF ProcType
<1> QED
  BY <1>2, <1>4, <1>8, <1>9

\* and Fill, which writes it.
LEMMA FillType ==
  ASSUME ReportsTypeOK, ProcType, NEW w \in Reporter, Fill(w)
  PROVE  ReportsTypeOK' /\ ProcType'
<1> DEFINE q == [proc[w] EXCEPT !.pc = "diff"]
<1>1. q \in Procs /\ q.pc = "diff" /\ q.todo = proc[w].todo /\ q.mine = proc[w].mine
      /\ q.out = proc[w].out
  BY ProcAt DEF Procs, Places, Collecting
<1>2. /\ Becomes(w, q) /\ status' = proc[w].mine
      /\ UNCHANGED <<world, moves, log, report, clock, budget, overlapped, cut>>
  BY DEF Fill
<1> HIDE DEF q
<1>3. Suits(q, clock)
  BY <1>1, ProcAt, Collects DEF Fill, At, Suits, Collecting
<1>4. status' \in Records /\ status'.at \in 0 .. clock
  BY <1>2, ProcAt, RecordType DEF Suits
<1> QED
  BY <1>1, <1>2, <1>3, <1>4, StepType DEF ReportsTypeOK

\* The process that has nothing to log goes on; one that has will append.
LEMMA DiffShape ==
  ASSUME ReportsTypeOK, ProcType, NEW w \in Reporter, Diff(w)
  PROVE  LET events == StatusEvents(proc[w].prev, proc[w].mine.runs, log)
             p == [proc[w] EXCEPT !.prev = Missing]
             q == proc'[w]
         IN  /\ p \in Procs /\ Placed(p) /\ p.pc = "diff" /\ p.out = {}
             /\ p.mine = proc[w].mine /\ p.todo = proc[w].todo /\ events \subseteq Events
             /\ p.prev = Missing /\ Missing \in Records
             /\ q \in Procs /\ Suits(q, clock) /\ Becomes(w, q) /\ FilesKept
             /\ events = {} => q = Onward(p)
             /\ events # {} =>
                   /\ q.pc = "append" /\ q.out = events /\ q.todo = p.todo
                   /\ q.mine = p.mine /\ q.prev = Missing
<1> DEFINE events == StatusEvents(proc[w].prev, proc[w].mine.runs, log)
<1> DEFINE p == [proc[w] EXCEPT !.prev = Missing]
<1> DEFINE o == [p EXCEPT !.pc = "append", !.out = events]
<1>1. At(w, "diff") /\ FilesKept /\ Becomes(w, IF events = {} THEN Onward(p) ELSE o)
  BY DEF Diff, FilesKept
<1>2. events \subseteq Events
  BY <1>1, ProcAt, StatusEventsType DEF Suits, At
<1>3. Missing \in Records
  BY DEF Records
<1>4. /\ p \in Procs /\ p.pc = "diff" /\ p.out = {} /\ p.mine = proc[w].mine
      /\ p.todo = proc[w].todo /\ p.prev = Missing
  BY <1>1, <1>3, ProcAt DEF Procs, At, Suits
<1> HIDE DEF events
<1>5. /\ o \in Procs /\ o.pc = "append" /\ o.out = events /\ o.todo = p.todo /\ o.mine = p.mine
      /\ o.prev = Missing
  BY <1>2, <1>4 DEF Procs, Places, Collecting
<1> HIDE DEF p, o
<1>6. Placed(p) /\ Placed(o)
  BY <1>1, <1>4, <1>5, ProcAt, Collects DEF At, Collecting
<1>7. p.mine # Missing /\ p.mine.at <= clock
  BY <1>1, <1>4, ProcAt DEF At, Suits
<1>8. Onward(p) \in Procs /\ Suits(Onward(p), clock)
  BY <1>4, <1>6, <1>7, ProcAt, OnwardSuits
<1>9. Suits(o, clock)
  BY <1>4, <1>5, <1>6, <1>7 DEF Suits
<1>10. proc'[w] = (IF events = {} THEN Onward(p) ELSE o)
  BY <1>1, <1>5, <1>8, BecomesType DEF ProcType
<1>11. Becomes(w, proc'[w]) /\ proc'[w] \in Procs /\ Suits(proc'[w], clock)
  BY <1>1, <1>5, <1>8, <1>9, <1>10
<1> QED
  BY <1>1, <1>2, <1>3, <1>4, <1>5, <1>6, <1>10, <1>11 DEF events, p

\* After the last event it goes on.
LEMMA AppendShape ==
  ASSUME ReportsTypeOK, ProcType, NEW w \in Reporter, NEW e \in proc[w].out, AppendEvent(w, e)
  PROVE  LET p == [proc[w] EXCEPT !.out = @ \ {e}]
             q == proc'[w]
         IN  /\ p \in Procs /\ Placed(p) /\ p.pc = "append" /\ p.out = proc[w].out \ {e}
             /\ p.mine = proc[w].mine /\ p.todo = proc[w].todo
             /\ q \in Procs /\ Suits(q, clock) /\ Becomes(w, q)
             /\ p.out = {} => q = Onward(p)
             /\ p.out # {} => q = p
<1> DEFINE p == [proc[w] EXCEPT !.out = @ \ {e}]
<1>1. At(w, "append") /\ Becomes(w, IF p.out = {} THEN Onward(p) ELSE p)
  BY DEF AppendEvent
<1>2. /\ p \in Procs /\ p.pc = "append" /\ p.out = proc[w].out \ {e} /\ p.mine = proc[w].mine
      /\ p.todo = proc[w].todo
  BY <1>1, ProcAt DEF Procs, At
<1> HIDE DEF p
<1>3. Placed(p)
  BY <1>1, <1>2, ProcAt, Collects DEF At, Collecting
<1>4. p.mine # Missing /\ p.mine.at <= clock
  BY <1>1, <1>2, ProcAt DEF At, Suits
<1>5. p.out = {} => Onward(p) \in Procs /\ Suits(Onward(p), clock)
  BY <1>2, <1>3, <1>4, ProcAt, OnwardSuits
<1>6. Suits(p, clock)
  BY <1>2, <1>3, <1>4 DEF Suits
<1>7. proc'[w] = (IF p.out = {} THEN Onward(p) ELSE p)
  BY <1>1, <1>2, <1>5, BecomesType DEF ProcType
<1>8. Becomes(w, proc'[w]) /\ proc'[w] \in Procs /\ Suits(proc'[w], clock)
  BY <1>1, <1>2, <1>5, <1>6, <1>7
<1> QED
  BY <1>2, <1>3, <1>7, <1>8 DEF p

\* The log stays one of events.
LEMMA AppendType ==
  ASSUME ReportsTypeOK, ProcType, NEW w \in Reporter, NEW e \in proc[w].out, AppendEvent(w, e)
  PROVE  ReportsTypeOK' /\ ProcType'
<1>1. proc'[w] \in Procs /\ Suits(proc'[w], clock) /\ Becomes(w, proc'[w])
  BY AppendShape
<1>2. log' \in Seq(Events)
  BY ProcAt DEF AppendEvent, ReportsTypeOK
<1>3. UNCHANGED <<world, moves, status, report, clock, budget, overlapped, cut>>
  BY DEF AppendEvent
<1> QED
  BY <1>1, <1>2, <1>3, StepType DEF ReportsTypeOK

\* A report is made of what has been collected.
LEMMA CompareShape ==
  ASSUME ReportsTypeOK, ProcType, NEW w \in Reporter, Compare(w)
  PROVE  LET q == proc'[w]
         IN  /\ proc[w].pc = "compare" /\ proc[w].mine # Missing
             /\ q \in Procs /\ Suits(q, clock') /\ Becomes(w, q) /\ q = Onward(proc[w])
             /\ report' \in Reports /\ report' # NoReport /\ report'.at = clock + 1
             /\ report'.runs = proc[w].mine.runs
             /\ report'.ends = [r \in Run |-> TimelineEnd(r, log)]
             /\ clock' = clock + 1
             /\ \A r \in Run : TimelineEnd(r, log) \in Statuses \cup {"none"}
<1> DEFINE p == proc[w]
<1>1. /\ p \in Procs /\ Placed(p) /\ p.pc = "compare" /\ p.mine # Missing /\ p.out = {}
      /\ p.mine.at \in Nat /\ p.mine.at <= clock /\ clock \in Nat /\ p.mine \in Records
  BY ProcAt DEF Compare, At, Suits
<1>2. /\ clock' = clock + 1 /\ Becomes(w, Onward(p))
      /\ report' = [at |-> clock', runs |-> p.mine.runs,
                    ends |-> [r \in Run |-> TimelineEnd(r, log)]]
  BY DEF Compare, Ticks
<1> HIDE DEF p
<1>3. Onward(p) \in Procs /\ Suits(Onward(p), clock')
  BY <1>1, <1>2, OnwardSuits
<1>4. proc'[w] = Onward(p)
  BY <1>2, <1>3, BecomesType DEF ProcType
<1>5. ASSUME NEW r \in Run
      PROVE  TimelineEnd(r, log) \in Statuses \cup {"none"}
  BY EndType
<1>6. report' \in Reports /\ report' # NoReport
  <2>1. [r \in Run |-> TimelineEnd(r, log)] \in [Run -> Statuses \cup {"none"}]
    BY <1>5
  <2>2. p.mine.runs \in [Run -> Seen]
    BY <1>1, RecordType
  <2> QED
    BY <1>1, <1>2, <2>1, <2>2 DEF Reports, NoReport
<1> QED
  BY <1>1, <1>2, <1>3, <1>4, <1>5, <1>6 DEF p

\* Compare writes a report on all the runs.
LEMMA CompareType ==
  ASSUME ReportsTypeOK, ProcType, NEW w \in Reporter, Compare(w)
  PROVE  ReportsTypeOK' /\ ProcType'
<1>1. /\ proc'[w] \in Procs /\ Suits(proc'[w], clock') /\ Becomes(w, proc'[w])
      /\ report' \in Reports /\ report'.at = clock + 1 /\ clock' = clock + 1
  BY CompareShape
<1>2. UNCHANGED <<world, moves, status, log, budget, overlapped, cut>>
  BY DEF Compare
<1>3. {status'.at, report'.at} \subseteq 0 .. clock'
  BY <1>1, <1>2 DEF ReportsTypeOK
<1> QED
  BY <1>1, <1>2, <1>3, StepType DEF ReportsTypeOK

\* The status of the file is taken, or collected anew.
LEMMA ReadStatusShape ==
  ASSUME ReportsTypeOK, ProcType, NEW w \in Reporter, ReadStatus(w)
  PROVE  LET q == proc'[w]
             p == [proc[w] EXCEPT !.mine = status]
         IN  /\ proc[w].pc = "status" /\ q \in Procs /\ Suits(q, clock) /\ Becomes(w, q)
             /\ proc[w].todo \in {<<"overview", "write_surface">>,
                                  <<"overview", "write_postmortem">>}
             /\ FilesKept
             /\ status = Missing =>
                   q.pc = "collect" /\ q.todo = proc[w].todo /\ q.out = {}
             /\ status # Missing =>
                   /\ p \in Procs /\ Placed(p) /\ p.pc = "status" /\ p.mine = status
                   /\ p.out = {} /\ p.todo = proc[w].todo /\ q = Onward(p)
<1> DEFINE p == [proc[w] EXCEPT !.mine = status]
<1> DEFINE o == [proc[w] EXCEPT !.pc = "collect"]
<1>1. /\ At(w, "status") /\ FilesKept
      /\ Becomes(w, IF status = Missing THEN o ELSE Onward(p))
  BY DEF ReadStatus, FilesKept
<1>2. /\ p \in Procs /\ p.pc = "status" /\ p.out = {} /\ p.mine = status
      /\ p.todo = proc[w].todo
      /\ o \in Procs /\ o.pc = "collect" /\ o.out = {} /\ o.todo = proc[w].todo
      /\ o.mine = proc[w].mine
  BY <1>1, ProcAt DEF Procs, At, Suits, ReportsTypeOK, Places, Collecting
<1>3. proc[w].todo \in {<<"overview", "write_surface">>, <<"overview", "write_postmortem">>}
  <2>1. Placed(proc[w]) /\ proc[w].pc = "status" /\ Idle.pc = "idle"
    BY <1>1, ProcAt, IdleProc DEF At
  <2> QED
    BY <2>1 DEF Placed, Collecting
<1> HIDE DEF p, o
<1>4. Placed(p)
  BY <1>2, <1>3 DEF Placed
<1>5. Placed(o) /\ Suits(o, clock)
  <2>1. /\ o.todo # <<"status", "overview", "write_postmortem">>
        /\ o.todo # <<"write_postmortem">> /\ o.todo # <<"write_surface">>
    <3>1. CASE o.todo = <<"overview", "write_surface">>
      BY <3>1
    <3>2. CASE o.todo = <<"overview", "write_postmortem">>
      BY <3>2
    <3> QED
      BY <1>2, <1>3, <3>1, <3>2
  <2>2. o.todo \in Rest
    BY <1>2, ProcAt
  <2>3. Placed(o)
    BY <1>2, <2>1, <2>2 DEF Placed, Collecting
  <2> QED
    BY <1>2, <2>3, ProcAt DEF Suits
<1>6. status \in Records /\ status.at <= clock /\ clock \in Nat
  BY RecordType DEF ReportsTypeOK
<1>7. status # Missing => Onward(p) \in Procs /\ Suits(Onward(p), clock)
  BY <1>2, <1>4, <1>6, OnwardSuits
<1>8. proc'[w] = (IF status = Missing THEN o ELSE Onward(p))
  BY <1>1, <1>2, <1>7, BecomesType DEF ProcType
<1>9. Becomes(w, proc'[w]) /\ proc'[w] \in Procs /\ Suits(proc'[w], clock)
  BY <1>1, <1>2, <1>5, <1>7, <1>8
<1> QED
  BY <1>1, <1>2, <1>3, <1>4, <1>8, <1>9 DEF p, At

\* The overview is one of the status that the process has.
LEMMA BuildOverviewShape ==
  ASSUME ReportsTypeOK, ProcType, NEW w \in Reporter, BuildOverview(w)
  PROVE  LET q == proc'[w]
             p == [proc[w] EXCEPT !.overview = Overview(proc[w].mine, report)]
         IN  /\ proc[w].pc = "overview" /\ proc[w].mine # Missing
             /\ p \in Procs /\ Placed(p) /\ p.pc = "overview" /\ p.out = {}
             /\ p.todo = proc[w].todo /\ p.overview = Overview(proc[w].mine, report)
             /\ q \in Procs /\ Suits(q, clock) /\ Becomes(w, q) /\ q = Onward(p) /\ FilesKept
<1> DEFINE p == [proc[w] EXCEPT !.overview = Overview(proc[w].mine, report)]
<1>1. At(w, "overview") /\ FilesKept /\ Becomes(w, Onward(p))
  BY DEF BuildOverview, FilesKept
<1>2. proc[w].mine # Missing
  BY <1>1, ProcAt DEF At, Suits
<1>3. Overview(proc[w].mine, report) \in Overviews
  BY <1>2, ProcAt, OverviewType DEF ReportsTypeOK
<1>4. /\ p \in Procs /\ p.pc = "overview" /\ p.out = {} /\ p.mine = proc[w].mine
      /\ p.todo = proc[w].todo /\ p.overview = Overview(proc[w].mine, report)
  BY <1>1, <1>3, ProcAt DEF Procs, At, Suits
<1> HIDE DEF p
<1>5. Placed(p)
  <2>1. Placed(proc[w]) /\ proc[w].pc = "overview" /\ Idle.pc = "idle"
    BY <1>1, ProcAt, IdleProc DEF At
  <2> QED
    BY <1>4, <2>1 DEF Placed, Collecting
<1>6. p.mine.at <= clock /\ clock \in Nat
  BY <1>4, ProcAt DEF Suits
<1>7. Onward(p) \in Procs /\ Suits(Onward(p), clock)
  BY <1>2, <1>4, <1>5, <1>6, OnwardSuits
<1>8. proc'[w] = Onward(p)
  BY <1>1, <1>7, BecomesType DEF ProcType
<1> QED
  BY <1>1, <1>2, <1>4, <1>5, <1>7, <1>8 DEF p, At

\* What is written for people is the end of a job.
LEMMA WriteShape ==
  ASSUME ReportsTypeOK, ProcType, NEW w \in Reporter, WriteSurface(w) \/ WritePostmortem(w)
  PROVE  /\ proc[w].pc \in {"write_surface", "write_postmortem"}
         /\ Becomes(w, Idle) /\ proc'[w] = Idle /\ FilesKept
<1>1. /\ proc[w].pc \in {"write_surface", "write_postmortem"} /\ FilesKept
      /\ Becomes(w, Onward(proc[w]))
  BY DEF WriteSurface, WritePostmortem, At, FilesKept
<1>2. proc[w].todo = <<>>
  <2>1. Placed(proc[w]) /\ Idle.pc = "idle"
    BY ProcAt, IdleProc
  <2> QED
    BY <1>1, <2>1 DEF Placed, Collecting
<1>3. Onward(proc[w]) = Idle
  BY <1>2 DEF Onward
<1> QED
  BY <1>1, <1>3, IdleProc, BecomesType DEF ProcType

\* One that is killed keeps nothing.
LEMMA KillType ==
  ASSUME ReportsTypeOK, ProcType, NEW w \in Reporter, Kill(w)
  PROVE  ReportsTypeOK' /\ ProcType' /\ cut'
<1>1. Becomes(w, Idle) /\ cut' = TRUE
      /\ UNCHANGED <<world, moves, files, budget, clock, overlapped>>
  BY DEF Kill
<1>2. Idle \in Procs /\ Suits(Idle, clock)
  BY IdleProc DEF ReportsTypeOK
<1> QED
  BY <1>1, <1>2, StepType DEF ReportsTypeOK, files

\* The types are kept by every step.
LEMMA TypesKept ==
  ASSUME ReportsTypeOK, ProcType, ReportsNext
  PROVE  ReportsTypeOK' /\ ProcType'
<1>1. ASSUME NEW w \in Reporter, Diff(w)
      PROVE  ReportsTypeOK' /\ ProcType'
  <2>1. proc'[w] \in Procs /\ Suits(proc'[w], clock) /\ Becomes(w, proc'[w]) /\ FilesKept
    BY <1>1, DiffShape
  <2> QED
    BY <2>1, QuietType
<1>2. ASSUME NEW w \in Reporter, ReadStatus(w)
      PROVE  ReportsTypeOK' /\ ProcType'
  <2>1. proc'[w] \in Procs /\ Suits(proc'[w], clock) /\ Becomes(w, proc'[w]) /\ FilesKept
    BY <1>2, ReadStatusShape
  <2> QED
    BY <2>1, QuietType
<1>3. ASSUME NEW w \in Reporter, BuildOverview(w)
      PROVE  ReportsTypeOK' /\ ProcType'
  <2>1. proc'[w] \in Procs /\ Suits(proc'[w], clock) /\ Becomes(w, proc'[w]) /\ FilesKept
    BY <1>3, BuildOverviewShape
  <2> QED
    BY <2>1, QuietType
<1>4. ASSUME NEW w \in Reporter, WriteSurface(w) \/ WritePostmortem(w)
      PROVE  ReportsTypeOK' /\ ProcType'
  <2>1. Becomes(w, Idle) /\ FilesKept
    BY <1>4, WriteShape
  <2>2. Idle \in Procs /\ Suits(Idle, clock)
    BY IdleProc DEF ReportsTypeOK
  <2> QED
    BY <2>1, <2>2, QuietType
<1> QED
  BY <1>1, <1>2, <1>3, <1>4, StartType, CollectType, ObserveType, FillType, AppendType,
     CompareType, KillType
  DEF ReportsNext, CollectStep, ReportStep

-----------------------------------------------------------------------------
(* What a process finds that is alone at work.                             *)

\* Where only one process is at work, the invariant is about that one.
LEMMA UndisturbedAgain ==
  ASSUME ProcType, NEW w \in Reporter, NEW p \in Procs, Becomes(w, p), Busy \subseteq {w},
         p.pc # "idle" => Steady(w)', Agrees', LoggedOnce'
  PROVE  Undisturbed'
<1>1. proc'[w] = p /\ \A v \in Reporter \ {w} : proc'[v] = proc[v]
  BY BecomesType DEF ProcType
<1>2. ASSUME NEW v \in Busy'
      PROVE  v = w /\ p.pc # "idle"
  BY <1>1, <1>2 DEF Busy
<1>3. Alone'
  BY <1>2 DEF Alone
<1>4. ASSUME NEW v \in Busy'
      PROVE  Steady(v)'
  BY <1>2, <1>4
<1> QED
  BY <1>3, <1>4 DEF Undisturbed

\* What a process finds that is at work, if it is alone.
LEMMA AtWork ==
  ASSUME Undisturbed, NEW w \in Reporter, proc[w].pc # "idle"
  PROVE  Busy \subseteq {w} /\ Steady(w) /\ Agrees /\ LoggedOnce
BY DEF Undisturbed, Alone, Busy

\* A process that starts while nobody is at work is alone.
LEMMA StartUndisturbed ==
  ASSUME ReportsTypeOK, ProcType, Undisturbed, ~ overlapped',
         NEW w \in Reporter, NEW job \in DOMAIN Jobs, Start(w, job)
  PROVE  Undisturbed'
<1> DEFINE q == Onward([Idle EXCEPT !.todo = Jobs[job]])
<1>1. Becomes(w, q) /\ Busy = {} /\ UNCHANGED <<status, log, report, overlapped>>
  BY DEF Start, files, ReportsTypeOK
<1>2. /\ q \in Procs
      /\ \/ q.pc = "collect" /\ q.todo # <<"overview", "write_postmortem">>
         \/ q.pc = "status" /\ q.todo = <<"overview", "write_surface">>
  BY StartShape DEF ReportsTypeOK
<1> HIDE DEF q
<1>3. proc'[w] = q
  BY <1>1, <1>2, BecomesType DEF ProcType
<1>4. Steady(w)'
  BY <1>2, <1>3, RestDiffers DEF Steady, At, Collecting
<1>5. Agrees' /\ LoggedOnce'
  BY <1>1 DEF Undisturbed, Agrees, LoggedOnce
<1> QED
  BY <1>1, <1>2, <1>4, <1>5, UndisturbedAgain

\* Of what is on file, Collect changes nothing,
LEMMA CollectUndisturbed ==
  ASSUME ReportsTypeOK, ProcType, Undisturbed, NEW w \in Reporter, Collect(w)
  PROVE  Undisturbed'
<1>1. proc[w].pc = "collect" /\ FilesKept
  BY DEF Collect, At, FilesKept
<1> DEFINE q == [proc[w] EXCEPT !.pc = "observe", !.prev = status]
<1>2. q \in Procs /\ q.pc = "observe" /\ q.todo = proc[w].todo /\ Becomes(w, q)
  BY ProcAt DEF Procs, Places, Collecting, ReportsTypeOK, Collect
<1> HIDE DEF q
<1>3. proc'[w] = q
  BY <1>2, BecomesType DEF ProcType
<1>4. Busy \subseteq {w} /\ Steady(w) /\ Agrees /\ LoggedOnce
  BY <1>1, AtWork
<1>5. Steady(w)'
  BY <1>1, <1>2, <1>3, <1>4 DEF Steady, At, Collecting
<1>6. Agrees' /\ LoggedOnce'
  BY <1>1, <1>4 DEF FilesKept, files, Agrees, LoggedOnce
<1> QED
  BY <1>2, <1>4, <1>5, <1>6, UndisturbedAgain

\* and Observe takes the status away, newer than any report as it is.
LEMMA ObserveUndisturbed ==
  ASSUME ReportsTypeOK, ProcType, Undisturbed, NEW w \in Reporter, NEW r \in Run,
         NEW o \in {world[r]} \cup Observable, Observe(w, r, o)
  PROVE  Undisturbed'
<1>1. /\ proc[w].pc = "observe" /\ status' = Missing
      /\ UNCHANGED <<log, report, overlapped>>
  BY DEF Observe, At
<1>2. /\ proc'[w].mine.at = clock + 1 /\ proc'[w].pc = "fill" /\ proc'[w].todo = proc[w].todo
      /\ ProcType'
  BY ObserveType
<1>3. Busy \subseteq {w} /\ Steady(w) /\ Agrees /\ LoggedOnce
  BY <1>1, AtWork
<1>4. report.at \in Nat /\ report.at <= clock /\ clock \in Nat
  BY DEF ReportsTypeOK
<1>5. Steady(w)'
  BY <1>1, <1>2, <1>3, <1>4 DEF Steady, At, Collecting
<1>6. Agrees' /\ LoggedOnce'
  BY <1>1, <1>3 DEF Agrees, LoggedOnce
<1>7. proc'[w] \in Procs /\ Becomes(w, proc'[w])
  BY <1>2 DEF ProcType, Observe, Becomes
<1> QED
  BY <1>3, <1>5, <1>6, <1>7, UndisturbedAgain

\* The status that Fill writes is newer than the report.
LEMMA FillUndisturbed ==
  ASSUME ReportsTypeOK, ProcType, Undisturbed, NEW w \in Reporter, Fill(w)
  PROVE  Undisturbed'
<1>1. /\ proc[w].pc = "fill" /\ status' = proc[w].mine /\ UNCHANGED <<log, report, overlapped>>
  BY DEF Fill, At
<1> DEFINE q == [proc[w] EXCEPT !.pc = "diff"]
<1>2. q \in Procs /\ q.pc = "diff" /\ q.todo = proc[w].todo /\ q.mine = proc[w].mine
      /\ Becomes(w, q)
  BY ProcAt DEF Procs, Places, Collecting, Fill
<1> HIDE DEF q
<1>3. proc'[w] = q
  BY <1>2, BecomesType DEF ProcType
<1>4. Busy \subseteq {w} /\ Steady(w) /\ Agrees /\ LoggedOnce
  BY <1>1, AtWork
<1>5. Steady(w)'
  BY <1>1, <1>2, <1>3, <1>4 DEF Steady, At, Collecting
<1>6. proc[w].mine.at > report.at /\ report.at \in Nat /\ proc[w].mine.at \in Nat
  BY <1>1, <1>4, ProcAt DEF Steady, At, ReportsTypeOK
<1>7. Agrees' /\ LoggedOnce'
  BY <1>1, <1>4, <1>6 DEF Agrees, LoggedOnce
<1> QED
  BY <1>2, <1>4, <1>5, <1>7, UndisturbedAgain

\* Done with a collection, it goes on with the status it has made.
LEMMA CollectedSteady ==
  ASSUME ReportsTypeOK, ProcType, NEW w \in Reporter, NEW p \in Procs, Placed(p),
         p.pc \in {"diff", "append"}, p.todo = proc[w].todo, p.mine = proc[w].mine,
         Steady(w), At(w, "diff") \/ At(w, "append"), proc'[w] = Onward(p),
         status' = status, proc'[w].pc # "idle"
  PROVE  Steady(w)'
<1> DEFINE q == Onward(p)
<1>1. /\ status = p.mine /\ p.todo # <<"overview", "write_postmortem">>
      /\ p.pc \in Collecting /\ p.pc # "idle"
  BY DEF Steady, At, Collecting
<1>2. /\ q.mine = p.mine
      /\ q.pc \in Collecting => q.todo # <<"overview", "write_postmortem">>
      /\ \/ q.pc \in {"collect", "compare"}
         \/ q.pc = "overview" /\ q.todo # <<"write_postmortem">>
  <2>1. q # Idle
    BY IdleProc
  <2> HIDE DEF q
  <2>2. LET o == q
        IN  \/ o = Idle
            \/ /\ o.mine = p.mine
               /\ o.pc \in Collecting => o.todo # <<"overview", "write_postmortem">>
               /\ \/ o.pc \in {"collect", "compare"}
                  \/ o.pc = "overview" /\ (o.todo = <<"write_postmortem">> =>
                                              p.todo = <<"overview", "write_postmortem">>)
    BY <1>1, OnwardType DEF q
  <2> QED
    BY <1>1, <2>1, <2>2
<1> HIDE DEF q
<1> QED
  BY <1>1, <1>2 DEF Steady, At, Collecting, q

\* What is new is not in the log.
LEMMA NewEvents ==
  ASSUME NEW prev, NEW runs, NEW logged, NEW e \in StatusEvents(prev, runs, logged),
         e.event # "run_status_changed"
  PROVE  e \notin Range(logged)
<1>1. PICK r \in Run :
         e \in StatusChange(r, prev, runs) \cup RunAcceptances(r, prev, runs, logged)
  BY DEF StatusEvents
<1>2. e \notin StatusChange(r, prev, runs)
  BY DEF StatusChange, Changed
<1> QED
  BY <1>1, <1>2 DEF RunAcceptances, NewAcceptances

\* The events to append are not in the log,
LEMMA DiffUndisturbed ==
  ASSUME ReportsTypeOK, ProcType, Undisturbed, NEW w \in Reporter, Diff(w)
  PROVE  Undisturbed'
<1> DEFINE events == StatusEvents(proc[w].prev, proc[w].mine.runs, log)
<1> DEFINE p == [proc[w] EXCEPT !.prev = Missing]
<1>1. /\ p \in Procs /\ Placed(p) /\ p.pc = "diff" /\ p.mine = proc[w].mine
      /\ p.todo = proc[w].todo
      /\ proc'[w] \in Procs /\ Becomes(w, proc'[w]) /\ FilesKept
      /\ events = {} => proc'[w] = Onward(p)
      /\ events # {} =>
            /\ proc'[w].pc = "append" /\ proc'[w].out = events /\ proc'[w].todo = p.todo
            /\ proc'[w].mine = p.mine
  BY DiffShape
<1>2. proc[w].pc = "diff"
  BY DEF Diff, At
<1>3. \A e \in events : e.event # "run_status_changed" => e \notin Range(log)
  BY NewEvents
<1> HIDE DEF p, events
<1>4. Busy \subseteq {w} /\ Steady(w) /\ Agrees /\ LoggedOnce
  BY <1>2, AtWork
<1>5. UNCHANGED <<status, log, report, overlapped>>
  BY <1>1 DEF FilesKept, files
<1>6. ASSUME proc'[w].pc # "idle"
      PROVE  Steady(w)'
  <2>1. CASE events = {}
    BY <1>1, <1>2, <1>4, <1>5, <1>6, <2>1, CollectedSteady DEF At
  <2>2. CASE events # {}
    <3>1. Range(log)' = Range(log)
      BY <1>5 DEF Range
    <3> QED
      BY <1>1, <1>2, <1>3, <1>4, <1>5, <2>2, <3>1 DEF Steady, At, Collecting
  <2> QED
    BY <2>1, <2>2
<1>7. Agrees' /\ LoggedOnce'
  BY <1>4, <1>5 DEF Agrees, LoggedOnce
<1> QED
  BY <1>1, <1>4, <1>6, <1>7, UndisturbedAgain

\* and are there once when they have been appended.
LEMMA AppendUndisturbed ==
  ASSUME ReportsTypeOK, ProcType, Undisturbed, ~ overlapped, NEW w \in Reporter,
         NEW e \in proc[w].out, AppendEvent(w, e)
  PROVE  Undisturbed'
<1> DEFINE p == [proc[w] EXCEPT !.out = @ \ {e}]
<1>1. /\ p \in Procs /\ Placed(p) /\ p.pc = "append" /\ p.out = proc[w].out \ {e}
      /\ p.mine = proc[w].mine /\ p.todo = proc[w].todo
      /\ proc'[w] \in Procs /\ Becomes(w, proc'[w])
      /\ p.out = {} => proc'[w] = Onward(p)
      /\ p.out # {} => proc'[w] = p
  BY AppendShape
<1>2. /\ proc[w].pc = "append" /\ log' = Append(log, e)
      /\ UNCHANGED <<status, report, overlapped>>
  BY DEF AppendEvent, At
<1> HIDE DEF p
<1>3. Busy \subseteq {w} /\ Steady(w) /\ Agrees /\ LoggedOnce
  BY <1>2, AtWork
<1>4. log \in Seq(Events) /\ e \in Events
  BY ProcAt DEF ReportsTypeOK
<1> DEFINE n == Len(log)
<1>5. /\ n \in Nat /\ DOMAIN log = 1 .. n /\ DOMAIN log' = 1 .. n + 1
      /\ log'[n + 1] = e /\ \A i \in 1 .. n : log'[i] = log[i]
      /\ Range(log') = Range(log) \cup {e}
  BY <1>2, <1>4, Logged
<1> HIDE DEF n
<1>6. ASSUME proc'[w].pc # "idle"
      PROVE  Steady(w)'
  <2>1. CASE p.out = {}
    BY <1>1, <1>2, <1>3, <1>6, <2>1, CollectedSteady DEF At
  <2>2. CASE p.out # {}
    <3>1. \A d \in proc'[w].out : d.event # "run_status_changed" => d \notin Range(log')
      BY <1>1, <1>2, <1>3, <1>5, <2>2 DEF Steady, At
    <3> QED
      BY <1>1, <1>2, <1>3, <2>2, <3>1 DEF Steady, At, Collecting
  <2> QED
    BY <2>1, <2>2
<1>7. Agrees'
  BY <1>2, <1>3 DEF Agrees
<1>8. LoggedOnce'
  <2> SUFFICES ASSUME NEW i \in 1 .. n + 1, NEW j \in 1 .. n + 1, i # j,
                      log'[i].event # "run_status_changed"
               PROVE  log'[i] # log'[j]
    BY <1>2, <1>5 DEF LoggedOnce
  <2>1. e.event # "run_status_changed" => e \notin Range(log)
    BY <1>2, <1>3 DEF Steady, At
  <2>2. \A k \in 1 .. n : log[k] \in Range(log)
    BY <1>5 DEF Range
  <2>3. CASE i = n + 1
    <3>1. j \in 1 .. n
      BY <1>5, <2>3
    <3> QED
      BY <1>5, <2>1, <2>2, <2>3, <3>1
  <2>4. CASE j = n + 1
    <3>1. i \in 1 .. n
      BY <1>5, <2>4
    <3> QED
      BY <1>5, <2>1, <2>2, <2>4, <3>1
  <2>5. CASE i # n + 1 /\ j # n + 1
    <3>1. i \in 1 .. n /\ j \in 1 .. n
      BY <1>5, <2>5
    <3> QED
      BY <1>3, <1>5, <3>1 DEF LoggedOnce
  <2> QED
    BY <2>3, <2>4, <2>5
<1> QED
  BY <1>1, <1>3, <1>6, <1>7, <1>8, UndisturbedAgain

\* The report that is written is that of the status.
LEMMA CompareUndisturbed ==
  ASSUME ReportsTypeOK, ProcType, Undisturbed, NEW w \in Reporter, Compare(w)
  PROVE  Undisturbed'
<1> DEFINE p == proc[w]
<1>1. /\ p.pc = "compare" /\ p.mine # Missing /\ proc'[w] \in Procs /\ Becomes(w, proc'[w])
      /\ proc'[w] = Onward(p) /\ report' # NoReport /\ report'.at = clock + 1
      /\ report'.runs = p.mine.runs
  BY CompareShape
<1>2. UNCHANGED <<status, log, overlapped>>
  BY DEF Compare
<1>3. Busy \subseteq {w} /\ Steady(w) /\ Agrees /\ LoggedOnce
  BY <1>1, AtWork
<1>4. status = p.mine /\ status.at \in Nat /\ status.at <= clock /\ clock \in Nat
  BY <1>1, <1>3, RecordType DEF Steady, ReportsTypeOK
<1>5. Current'
  BY <1>1, <1>2, <1>4 DEF Current
<1>6. ASSUME proc'[w].pc # "idle"
      PROVE  Steady(w)'
  <2>1. p \in Procs /\ Placed(p)
    BY ProcAt
  <2> HIDE DEF p
  <2>2. LET q == Onward(p)
        IN  q = Idle \/ q.pc = "status"
    BY <1>1, <2>1, OnwardType
  <2>3. proc'[w].pc = "status"
    BY <1>1, <1>6, <2>2, IdleProc
  <2> QED
    BY <1>5, <2>3 DEF Steady, At, Collecting
<1>7. Agrees'
  BY <1>5 DEF Agrees, Current
<1>8. LoggedOnce'
  BY <1>2, <1>3 DEF LoggedOnce
<1> QED
  BY <1>1, <1>3, <1>6, <1>7, <1>8, UndisturbedAgain

\* In an archive, the status that is read is the one reported on.
LEMMA ReadStatusUndisturbed ==
  ASSUME ReportsTypeOK, ProcType, Undisturbed, NEW w \in Reporter, ReadStatus(w)
  PROVE  Undisturbed'
<1> DEFINE p == [proc[w] EXCEPT !.mine = status]
<1>1. /\ proc[w].pc = "status" /\ proc'[w] \in Procs /\ Becomes(w, proc'[w]) /\ FilesKept
      /\ status = Missing => proc'[w].pc = "collect" /\ proc'[w].todo = proc[w].todo
      /\ status # Missing =>
            /\ p \in Procs /\ Placed(p) /\ p.pc = "status" /\ p.mine = status
            /\ p.todo = proc[w].todo /\ proc'[w] = Onward(p)
  BY ReadStatusShape
<1> HIDE DEF p
<1>2. UNCHANGED <<status, log, report, overlapped>>
  BY <1>1 DEF FilesKept, files
<1>3. Busy \subseteq {w} /\ Steady(w) /\ Agrees /\ LoggedOnce
  BY <1>1, AtWork
<1>4. proc[w].todo = <<"overview", "write_postmortem">> => Current
  BY <1>1, <1>3 DEF Steady, At
<1>5. ASSUME proc'[w].pc # "idle"
      PROVE  Steady(w)'
  <2>1. CASE status = Missing
    BY <1>1, <1>4, <2>1 DEF Steady, At, Collecting, Current
  <2>2. CASE status # Missing
    <3>1. LET q == Onward(p)
          IN  \/ q = Idle
              \/ /\ q.mine = p.mine /\ q.pc = "overview"
                 /\ q.todo = <<"write_postmortem">> =>
                       p.todo = <<"overview", "write_postmortem">>
      BY <1>1, <2>2, OnwardType
    <3>2. /\ proc'[w].pc = "overview" /\ proc'[w].mine = status
          /\ proc'[w].todo = <<"write_postmortem">> => Current
      BY <1>1, <1>4, <1>5, <2>2, <3>1, IdleProc
    <3>3. Current => Current'
      BY <1>2 DEF Current
    <3> QED
      BY <1>2, <3>2, <3>3 DEF Steady, At, Collecting
  <2> QED
    BY <2>1, <2>2
<1>6. Agrees' /\ LoggedOnce'
  BY <1>2, <1>3 DEF Agrees, LoggedOnce
<1> QED
  BY <1>1, <1>3, <1>5, <1>6, UndisturbedAgain

\* So the overview of an archive finds its report fresh.
LEMMA BuildOverviewUndisturbed ==
  ASSUME ReportsTypeOK, ProcType, Undisturbed, NEW w \in Reporter, BuildOverview(w)
  PROVE  Undisturbed'
<1> DEFINE p == [proc[w] EXCEPT !.overview = Overview(proc[w].mine, report)]
<1>1. /\ proc[w].pc = "overview" /\ proc[w].mine # Missing
      /\ proc'[w] \in Procs /\ Becomes(w, proc'[w]) /\ FilesKept
      /\ p \in Procs /\ Placed(p) /\ p.pc = "overview" /\ p.todo = proc[w].todo
      /\ p.overview = Overview(proc[w].mine, report) /\ proc'[w] = Onward(p)
  BY BuildOverviewShape
<1> HIDE DEF p
<1>2. UNCHANGED <<status, log, report, overlapped>>
  BY <1>1 DEF FilesKept, files
<1>3. Busy \subseteq {w} /\ Steady(w) /\ Agrees /\ LoggedOnce
  BY <1>1, AtWork
<1>4. ASSUME p.todo = <<"write_postmortem">>
      PROVE  p.overview.fresh
  <2>1. Current /\ status = proc[w].mine
    BY <1>1, <1>3, <1>4 DEF Steady, At
  <2>2. Fresh(proc[w].mine, report)
    BY <2>1 DEF Current, Fresh
  <2>3. Overview(proc[w].mine, report).fresh = Fresh(proc[w].mine, report)
    BY DEF Overview
  <2> QED
    BY <1>1, <2>2, <2>3
<1>5. ASSUME proc'[w].pc # "idle"
      PROVE  Steady(w)'
  <2>1. LET q == Onward(p)
        IN  \/ q = Idle
            \/ /\ q.pc \in {"write_surface", "write_postmortem"} /\ q.overview = p.overview
               /\ q.pc = "write_postmortem" => p.todo = <<"write_postmortem">>
    BY <1>1, OnwardType
  <2>2. /\ proc'[w].pc \in {"write_surface", "write_postmortem"}
        /\ proc'[w].pc = "write_postmortem" => proc'[w].overview.fresh
    BY <1>1, <1>4, <1>5, <2>1, IdleProc
  <2> QED
    BY <2>2 DEF Steady, At, Collecting
<1>6. Agrees' /\ LoggedOnce'
  BY <1>2, <1>3 DEF Agrees, LoggedOnce
<1> QED
  BY <1>1, <1>3, <1>5, <1>6, UndisturbedAgain

\* The end of a process leaves nobody at work.
LEMMA EndUndisturbed ==
  ASSUME ReportsTypeOK, ProcType, Undisturbed, NEW w \in Reporter,
         WriteSurface(w) \/ WritePostmortem(w) \/ Kill(w)
  PROVE  Undisturbed'
<1>1. /\ proc[w].pc \in {"write_surface", "write_postmortem", "fill", "diff", "append"}
      /\ Becomes(w, Idle) /\ UNCHANGED <<status, log, report, overlapped>>
  <2>1. CASE Kill(w)
    BY <2>1 DEF Kill, files
  <2>2. CASE WriteSurface(w) \/ WritePostmortem(w)
    BY <2>2, WriteShape DEF FilesKept, files
  <2> QED
    BY <2>1, <2>2
<1>2. Busy \subseteq {w} /\ Agrees /\ LoggedOnce
  BY <1>1, AtWork
<1>3. Agrees' /\ LoggedOnce'
  BY <1>1, <1>2 DEF Agrees, LoggedOnce
<1> QED
  BY <1>1, <1>2, <1>3, IdleProc, UndisturbedAgain

\* As long as nobody has overlapped, every step leaves a process what it expects.
LEMMA UndisturbedKept ==
  ASSUME ReportsTypeOK, ProcType, ~ overlapped => Undisturbed, ReportsNext, ~ overlapped'
  PROVE  ~ overlapped /\ Undisturbed'
<1>1. ~ overlapped
  BY DEF ReportsNext, CollectStep, ReportStep, Start, Collect, Observe, Fill, Diff, AppendEvent,
         Compare, ReadStatus, BuildOverview, WriteSurface, WritePostmortem, Kill, ReportsTypeOK
<1> QED
  BY <1>1, StartUndisturbed, CollectUndisturbed, ObserveUndisturbed, FillUndisturbed,
     DiffUndisturbed, AppendUndisturbed, CompareUndisturbed, ReadStatusUndisturbed,
     BuildOverviewUndisturbed, EndUndisturbed
  DEF ReportsNext, CollectStep, ReportStep

-----------------------------------------------------------------------------
(* The changes of a run follow on each other.                              *)

\* Where an event added to a log leaves its timelines.
LEMMA AppendEnds ==
  ASSUME NEW logged \in Seq(Events), NEW e \in Events, NEW r
  PROVE  LET l == Append(logged, e)
             changes == e.event = "run_status_changed" /\ e.run = r
         IN  /\ changes => Changes(r, l) = Changes(r, logged) \cup {Len(logged) + 1}
             /\ ~ changes => Changes(r, l) = Changes(r, logged)
             /\ TimelineEnd(r, l) = IF changes THEN e.item[2] ELSE TimelineEnd(r, logged)
<1> DEFINE l == Append(logged, e)
<1> DEFINE n == Len(logged)
<1> DEFINE changes == e.event = "run_status_changed" /\ e.run = r
<1>1. /\ l \in Seq(Events) /\ n \in Nat /\ DOMAIN logged = 1 .. n /\ DOMAIN l = 1 .. n + 1
      /\ l[n + 1] = e /\ \A i \in 1 .. n : l[i] = logged[i]
  BY Logged
<1> HIDE DEF l, n, changes
<1>2. Changes(r, logged) \subseteq 1 .. n /\ Changes(r, l) \subseteq 1 .. n + 1
  BY <1>1 DEF Changes
<1>3. \A i \in 1 .. n : i \in Changes(r, l) <=> i \in Changes(r, logged)
  <2>1. \A i \in 1 .. n : i \in 1 .. n + 1
    BY <1>1
  <2> QED
    BY <1>1, <2>1 DEF Changes
<1>4. n + 1 \in Changes(r, l) <=> changes
  <2>1. n + 1 \in 1 .. n + 1
    BY <1>1
  <2> QED
    BY <1>1, <2>1 DEF Changes, changes
<1>5. \A i \in 1 .. n + 1 : i \in 1 .. n \/ i = n + 1
  BY <1>1
<1>6. CASE changes
  <2>1. Changes(r, l) = Changes(r, logged) \cup {n + 1}
    BY <1>2, <1>3, <1>4, <1>5, <1>6
  <2>2. /\ Max(Changes(r, l)) \in Changes(r, l)
        /\ \A i \in Changes(r, l) : i <= Max(Changes(r, l))
    BY <1>1, <2>1, LastChange
  <2>3. Max(Changes(r, l)) = n + 1
    <3>1. Max(Changes(r, l)) \in 1 .. n + 1 /\ n + 1 <= Max(Changes(r, l))
      BY <1>2, <2>1, <2>2
    <3> QED
      BY <1>1, <3>1
  <2>4. TimelineEnd(r, l) = e.item[2]
    BY <1>1, <2>1, <2>3 DEF TimelineEnd
  <2> QED
    BY <1>6, <2>1, <2>4 DEF l, n, changes
<1>7. CASE ~ changes
  <2>1. Changes(r, l) = Changes(r, logged)
    BY <1>2, <1>3, <1>4, <1>5, <1>7
  <2>2. TimelineEnd(r, l) = TimelineEnd(r, logged)
    <3>1. Changes(r, logged) # {} => Max(Changes(r, logged)) \in 1 .. n
      BY <1>2, LastChange
    <3> QED
      BY <1>1, <2>1, <3>1 DEF TimelineEnd
  <2> QED
    BY <1>7, <2>1, <2>2 DEF l, n, changes
<1> QED
  BY <1>6, <1>7

\* Of a run, a collection logs the change of its status, if there is one.
LEMMA ChangesAmong ==
  ASSUME NEW prev, NEW runs, NEW logged, NEW r \in Run
  PROVE  ChangesOf(r, StatusEvents(prev, runs, logged)) = StatusChange(r, prev, runs)
<1>1. ASSUME NEW e \in ChangesOf(r, StatusEvents(prev, runs, logged))
      PROVE  e \in StatusChange(r, prev, runs)
  <2>1. e.event = "run_status_changed" /\ e.run = r
    BY DEF ChangesOf
  <2>2. PICK q \in Run :
           e \in StatusChange(q, prev, runs) \cup RunAcceptances(q, prev, runs, logged)
    BY DEF ChangesOf, StatusEvents
  <2>3. e \notin RunAcceptances(q, prev, runs, logged)
    BY <2>1 DEF RunAcceptances, NewAcceptances, Accepted
  <2>4. q = r
    BY <2>1, <2>2, <2>3 DEF StatusChange, Changed
  <2> QED
    BY <2>2, <2>3, <2>4
<1>2. ASSUME NEW e \in StatusChange(r, prev, runs)
      PROVE  e \in ChangesOf(r, StatusEvents(prev, runs, logged))
  BY DEF StatusChange, Changed, ChangesOf, StatusEvents
<1> QED
  BY <1>1, <1>2

\* Where only one process is at work, the invariant is about that one.
LEMMA ChainAgain ==
  ASSUME ProcType, NEW w \in Reporter, NEW p \in Procs, Becomes(w, p), Busy \subseteq {w},
         p.pc \notin {"fill", "diff", "append"} => EndsIn(status)',
         p.pc = "observe" => p.prev = status',
         p.pc \in {"fill", "diff"} => EndsIn(proc[w].prev)',
         p.pc = "append" => LeadsOn(w)'
  PROVE  Chain'
<1>1. proc'[w] = p /\ \A v \in Reporter \ {w} : proc'[v] = proc[v]
  BY BecomesType DEF ProcType
<1>2. \A v \in Reporter \ {w} : proc'[v].pc = "idle"
  BY <1>1 DEF Busy
<1>3. Logging' = {} => p.pc \notin {"fill", "diff", "append"}
  BY <1>1 DEF Logging
<1>4. ASSUME NEW v \in Reporter
      PROVE  /\ At(v, "observe")' => proc'[v].prev = status'
             /\ proc'[v].pc \in {"fill", "diff"} => EndsIn(proc[v].prev)'
             /\ At(v, "append")' => LeadsOn(v)'
  <2>1. CASE v = w
    BY <1>1, <2>1 DEF At
  <2>2. CASE v # w
    BY <1>2, <2>2 DEF At
  <2> QED
    BY <2>1, <2>2
<1> QED
  BY <1>3, <1>4 DEF Chain

\* Where nobody logs, the timelines end in the status.
LEMMA EndsHere ==
  ASSUME Chain, NEW w \in Reporter, Busy \subseteq {w},
         proc[w].pc \notin {"fill", "diff", "append"}
  PROVE  EndsIn(status)
BY DEF Chain, Logging, Busy

\* Where nobody logs before or after, and nothing is written, nothing changes.
LEMMA QuietChain ==
  ASSUME ProcType, Chain, NEW w \in Reporter, NEW p \in Procs, Becomes(w, p),
         Busy \subseteq {w}, proc[w].pc \notin {"fill", "diff", "append"},
         p.pc \notin {"observe", "fill", "diff", "append"},
         UNCHANGED <<status, log>>
  PROVE  Chain'
<1>1. EndsIn(status)'
  BY EndsHere DEF EndsIn
<1> QED
  BY <1>1, ChainAgain

\* Done with a collection, a process is none that logs.
LEMMA AfterCollecting ==
  ASSUME NEW p \in Procs, Placed(p), p.pc \in {"diff", "append"}
  PROVE  Onward(p).pc \notin {"observe", "fill", "diff", "append"}
<1>1. p.pc \in Collecting /\ p.pc # "idle"
  BY DEF Collecting
<1>2. LET q == Onward(p)
      IN  q = Idle \/ q.pc \in {"collect", "compare", "overview"}
  BY <1>1, OnwardType
<1> QED
  BY <1>2, IdleProc

\* What the steps of an undisturbed process, none of them the last of one that
\* is killed, may rely on.
ChainInv == ReportsTypeOK /\ ProcType /\ Undisturbed /\ Chain /\ ChangesChain

\* A process that starts logs nothing yet.
LEMMA StartChain ==
  ASSUME ChainInv, ~ overlapped', NEW w \in Reporter, NEW job \in DOMAIN Jobs, Start(w, job)
  PROVE  Chain'
<1> DEFINE q == Onward([Idle EXCEPT !.todo = Jobs[job]])
<1>1. /\ Becomes(w, q) /\ Busy = {} /\ UNCHANGED <<status, log>> /\ w \notin Busy
  BY DEF Start, files, ReportsTypeOK, ChainInv
<1>2. q \in Procs /\ q.pc \in {"collect", "status"}
  BY StartShape DEF ReportsTypeOK, ChainInv
<1> HIDE DEF q
<1>3. proc[w].pc = "idle"
  BY <1>1 DEF Busy
<1> QED
  BY <1>1, <1>2, <1>3, QuietChain DEF ChainInv

\* The status that Collect reads is where the timelines end,
LEMMA CollectChain ==
  ASSUME ChainInv, NEW w \in Reporter, Collect(w)
  PROVE  Chain'
<1>1. proc[w].pc = "collect" /\ UNCHANGED <<status, log>>
  BY DEF Collect, At, files
<1> DEFINE q == [proc[w] EXCEPT !.pc = "observe", !.prev = status]
<1>2. q \in Procs /\ q.pc = "observe" /\ q.prev = status /\ Becomes(w, q)
  BY ProcAt DEF Procs, Places, Collecting, ReportsTypeOK, Collect, ChainInv
<1> HIDE DEF q
<1>3. Busy \subseteq {w}
  BY <1>1, AtWork DEF ChainInv
<1>4. EndsIn(status)'
  BY <1>1, <1>3, EndsHere DEF EndsIn, ChainInv
<1> QED
  BY <1>1, <1>2, <1>3, <1>4, ChainAgain DEF ChainInv

\* and so it is still when the process has looked at the runs,
LEMMA ObserveChain ==
  ASSUME ChainInv, NEW w \in Reporter, NEW r \in Run,
         NEW o \in {world[r]} \cup Observable, Observe(w, r, o)
  PROVE  Chain'
<1>1. proc[w].pc = "observe" /\ log' = log
  BY DEF Observe, At
<1>2. /\ proc'[w].prev = proc[w].prev /\ proc'[w].pc = "fill" /\ ProcType'
  BY ObserveType DEF ChainInv
<1>3. Busy \subseteq {w}
  BY <1>1, AtWork DEF ChainInv
<1>4. proc[w].prev = status /\ EndsIn(status)
  BY <1>1, <1>3, EndsHere DEF Chain, At, ChainInv
<1>5. EndsIn(proc[w].prev)'
  BY <1>1, <1>2, <1>4 DEF EndsIn
<1>6. proc'[w] \in Procs /\ Becomes(w, proc'[w])
  BY <1>2 DEF ProcType, Observe, Becomes
<1> QED
  BY <1>2, <1>3, <1>5, <1>6, ChainAgain DEF ChainInv

\* and written their status.
LEMMA FillChain ==
  ASSUME ChainInv, NEW w \in Reporter, Fill(w)
  PROVE  Chain'
<1>1. proc[w].pc = "fill" /\ log' = log
  BY DEF Fill, At
<1> DEFINE q == [proc[w] EXCEPT !.pc = "diff"]
<1>2. q \in Procs /\ q.pc = "diff" /\ q.prev = proc[w].prev /\ Becomes(w, q)
  BY ProcAt DEF Procs, Places, Collecting, Fill, ChainInv
<1> HIDE DEF q
<1>3. proc'[w] = q
  BY <1>2, BecomesType DEF ProcType, ChainInv
<1>4. Busy \subseteq {w}
  BY <1>1, AtWork DEF ChainInv
<1>5. EndsIn(proc[w].prev)
  BY <1>1 DEF Chain, ChainInv
<1>6. EndsIn(proc[w].prev)'
  BY <1>1, <1>2, <1>3, <1>5 DEF EndsIn
<1> QED
  BY <1>2, <1>4, <1>6, ChainAgain DEF ChainInv

\* The changes to append lead from there to the status written.
LEMMA DiffChain ==
  ASSUME ChainInv, NEW w \in Reporter, Diff(w)
  PROVE  Chain'
<1> DEFINE prev == proc[w].prev
<1> DEFINE mine == proc[w].mine
<1> DEFINE events == StatusEvents(prev, mine.runs, log)
<1> DEFINE p == [proc[w] EXCEPT !.prev = Missing]
<1>1. /\ p \in Procs /\ Placed(p) /\ p.pc = "diff" /\ p.mine = mine
      /\ proc'[w] \in Procs /\ Becomes(w, proc'[w]) /\ FilesKept
      /\ events = {} => proc'[w] = Onward(p)
      /\ events # {} =>
            proc'[w].pc = "append" /\ proc'[w].out = events /\ proc'[w].mine = mine
  BY DiffShape DEF ChainInv
<1>2. proc[w].pc = "diff" /\ UNCHANGED <<status, log>>
  BY DEF Diff, At, files
<1>3. Busy \subseteq {w} /\ Steady(w)
  BY <1>2, AtWork DEF ChainInv
<1>4. status = mine /\ mine # Missing
  BY <1>2, <1>3, ProcAt DEF Steady, Suits, ChainInv
<1>5. \A r \in Run : TimelineEnd(r, log) = StatusBefore(r, prev)
  BY <1>2 DEF Chain, EndsIn, ChainInv
<1>6. \A r \in Run : ChangesOf(r, events) = StatusChange(r, prev, mine.runs)
  BY ChangesAmong
<1> HIDE DEF p, events, prev, mine
<1>7. CASE events = {}
  <2>1. ASSUME NEW r \in Run
        PROVE  TimelineEnd(r, log') = StatusBefore(r, status')
    <3>1. StatusChange(r, prev, mine.runs) = {}
      BY <1>6, <1>7 DEF ChangesOf
    <3> QED
      BY <1>2, <1>4, <1>5, <3>1 DEF StatusChange, StatusBefore
  <2>2. EndsIn(status)'
    BY <2>1 DEF EndsIn
  <2>3. proc'[w].pc \notin {"observe", "fill", "diff", "append"}
    BY <1>1, <1>7, AfterCollecting
  <2> QED
    BY <1>1, <1>3, <2>2, <2>3, ChainAgain DEF ChainInv
<1>8. CASE events # {}
  <2>1. ASSUME NEW r \in Run
        PROVE  /\ \A d, e \in ChangesOf(r, events) : d = e
               /\ \A e \in ChangesOf(r, events) :
                     e.item[1] = TimelineEnd(r, log) /\ e.item[2] = mine.runs[r].status
               /\ ChangesOf(r, events) = {} => TimelineEnd(r, log) = mine.runs[r].status
    <3>1. ChangesOf(r, events) = StatusChange(r, prev, mine.runs)
      BY <1>6
    <3>2. TimelineEnd(r, log) = StatusBefore(r, prev)
      BY <1>5
    <3>3. CASE StatusBefore(r, prev) = mine.runs[r].status
      BY <3>1, <3>2, <3>3 DEF StatusChange
    <3>4. CASE StatusBefore(r, prev) # mine.runs[r].status
      <4> DEFINE c == Changed(r, StatusBefore(r, prev), mine.runs[r].status)
      <4>1. ChangesOf(r, events) = {c}
        BY <3>1, <3>4 DEF StatusChange
      <4>2. c.item[1] = StatusBefore(r, prev) /\ c.item[2] = mine.runs[r].status
        BY DEF Changed
      <4> HIDE DEF c
      <4> QED
        BY <3>2, <4>1, <4>2
    <3> QED
      BY <3>3, <3>4
  <2>2. LeadsOn(w)'
    BY <1>1, <1>2, <1>8, <2>1 DEF LeadsOn
  <2> QED
    BY <1>1, <1>3, <1>8, <2>2, ChainAgain DEF ChainInv
<1> QED
  BY <1>7, <1>8

\* Of a change that is appended the timeline ends in the status written.
LEMMA AppendChain ==
  ASSUME ChainInv, NEW w \in Reporter, NEW e \in proc[w].out, AppendEvent(w, e)
  PROVE  Chain'
<1> DEFINE p == [proc[w] EXCEPT !.out = @ \ {e}]
<1>1. /\ p \in Procs /\ Placed(p) /\ p.pc = "append" /\ p.out = proc[w].out \ {e}
      /\ p.mine = proc[w].mine
      /\ proc'[w] \in Procs /\ Becomes(w, proc'[w])
      /\ p.out = {} => proc'[w] = Onward(p)
      /\ p.out # {} => proc'[w] = p
  BY AppendShape DEF ChainInv
<1>2. proc[w].pc = "append" /\ log' = Append(log, e) /\ status' = status
  BY DEF AppendEvent, At
<1> HIDE DEF p
<1>3. Busy \subseteq {w} /\ Steady(w)
  BY <1>2, AtWork DEF ChainInv
<1>4. log \in Seq(Events) /\ e \in Events /\ proc[w].mine # Missing
  BY <1>2, ProcAt DEF ReportsTypeOK, Suits, ChainInv
<1>5. LeadsOn(w) /\ status = proc[w].mine
  BY <1>2, <1>3 DEF Chain, At, Steady, ChainInv
<1>6. ASSUME NEW r \in Run
      PROVE  /\ \A c, d \in ChangesOf(r, p.out) : c = d
             /\ \A d \in ChangesOf(r, p.out) :
                   d.item[1] = TimelineEnd(r, log') /\ d.item[2] = p.mine.runs[r].status
             /\ ChangesOf(r, p.out) = {} => TimelineEnd(r, log') = p.mine.runs[r].status
  <2>1. /\ \A c, d \in ChangesOf(r, proc[w].out) : c = d
        /\ \A d \in ChangesOf(r, proc[w].out) :
              d.item[1] = TimelineEnd(r, log) /\ d.item[2] = p.mine.runs[r].status
        /\ ChangesOf(r, proc[w].out) = {} => TimelineEnd(r, log) = p.mine.runs[r].status
    BY <1>1, <1>5 DEF LeadsOn
  <2>2. CASE e.event = "run_status_changed" /\ e.run = r
    <3>1. e \in ChangesOf(r, proc[w].out)
      BY <2>2 DEF ChangesOf
    <3>2. ChangesOf(r, p.out) = {}
      BY <1>1, <2>1, <3>1 DEF ChangesOf
    <3>3. TimelineEnd(r, log') = e.item[2]
      BY <1>2, <1>4, <2>2, AppendEnds
    <3> QED
      BY <2>1, <3>1, <3>2, <3>3
  <2>3. CASE ~ (e.event = "run_status_changed" /\ e.run = r)
    <3>1. ChangesOf(r, p.out) = ChangesOf(r, proc[w].out)
      BY <1>1, <2>3 DEF ChangesOf
    <3>2. TimelineEnd(r, log') = TimelineEnd(r, log)
      BY <1>2, <1>4, <2>3, AppendEnds
    <3> QED
      BY <2>1, <3>1, <3>2
  <2> QED
    BY <2>2, <2>3
<1>7. CASE p.out = {}
  <2>1. ASSUME NEW r \in Run
        PROVE  TimelineEnd(r, log') = StatusBefore(r, status')
    <3>1. ChangesOf(r, p.out) = {}
      BY <1>7 DEF ChangesOf
    <3> QED
      BY <1>1, <1>2, <1>4, <1>5, <1>6, <3>1 DEF StatusBefore
  <2>2. EndsIn(status)'
    BY <2>1 DEF EndsIn
  <2>3. proc'[w].pc \notin {"observe", "fill", "diff", "append"}
    BY <1>1, <1>7, AfterCollecting
  <2> QED
    BY <1>1, <1>3, <2>2, <2>3, ChainAgain DEF ChainInv
<1>8. CASE p.out # {}
  <2>1. LeadsOn(w)'
    BY <1>1, <1>6, <1>8 DEF LeadsOn
  <2> QED
    BY <1>1, <1>3, <1>8, <2>1, ChainAgain DEF ChainInv
<1> QED
  BY <1>7, <1>8

\* A report or an overview is followed by none of the places of a collection but
\* the first.
LEMMA AfterReporting ==
  ASSUME ReportsTypeOK, ProcType, NEW w \in Reporter, ReportStep(w)
  PROVE  /\ proc[w].pc \in {"compare", "status", "overview", "write_surface",
                            "write_postmortem"}
         /\ proc'[w] \in Procs /\ Becomes(w, proc'[w]) /\ UNCHANGED <<status, log>>
         /\ proc'[w].pc \notin {"observe", "fill", "diff", "append"}
<1>1. CASE Compare(w)
  <2>1. /\ proc[w].pc = "compare" /\ proc'[w] \in Procs /\ Becomes(w, proc'[w])
        /\ proc'[w] = Onward(proc[w])
    BY <1>1, CompareShape
  <2>2. LET q == Onward(proc[w])
        IN  q = Idle \/ q.pc = "status"
    BY <2>1, ProcAt, OnwardType
  <2> QED
    BY <1>1, <2>1, <2>2, IdleProc DEF Compare
<1>2. CASE ReadStatus(w)
  <2> DEFINE p == [proc[w] EXCEPT !.mine = status]
  <2>1. /\ proc[w].pc = "status" /\ proc'[w] \in Procs /\ Becomes(w, proc'[w]) /\ FilesKept
        /\ status = Missing => proc'[w].pc = "collect"
        /\ status # Missing =>
              /\ p \in Procs /\ Placed(p) /\ p.pc = "status" /\ proc'[w] = Onward(p)
    BY <1>2, ReadStatusShape
  <2> HIDE DEF p
  <2>2. status # Missing => proc'[w].pc \in {"idle", "overview"}
    <3>1. ASSUME status # Missing
          PROVE  LET q == Onward(p)
                 IN  q = Idle \/ q.pc = "overview"
      BY <2>1, <3>1, OnwardType
    <3> QED
      BY <2>1, <3>1, IdleProc
  <2> QED
    BY <2>1, <2>2 DEF FilesKept, files
<1>3. CASE BuildOverview(w)
  <2> DEFINE p == [proc[w] EXCEPT !.overview = Overview(proc[w].mine, report)]
  <2>1. /\ proc[w].pc = "overview" /\ proc'[w] \in Procs /\ Becomes(w, proc'[w]) /\ FilesKept
        /\ p \in Procs /\ Placed(p) /\ p.pc = "overview" /\ proc'[w] = Onward(p)
    BY <1>3, BuildOverviewShape
  <2> HIDE DEF p
  <2>2. LET q == Onward(p)
        IN  q = Idle \/ q.pc \in {"write_surface", "write_postmortem"}
    BY <2>1, OnwardType
  <2> QED
    BY <2>1, <2>2, IdleProc DEF FilesKept, files
<1>4. CASE WriteSurface(w) \/ WritePostmortem(w)
  BY <1>4, WriteShape, IdleProc DEF FilesKept, files
<1> QED
  BY <1>1, <1>2, <1>3, <1>4 DEF ReportStep

\* A report or an overview logs nothing.
LEMMA ReportChain ==
  ASSUME ChainInv, NEW w \in Reporter, ReportStep(w)
  PROVE  Chain'
<1>1. /\ proc[w].pc \notin {"idle", "fill", "diff", "append"}
      /\ proc'[w] \in Procs /\ Becomes(w, proc'[w]) /\ UNCHANGED <<status, log>>
      /\ proc'[w].pc \notin {"observe", "fill", "diff", "append"}
  BY AfterReporting DEF ChainInv
<1>2. Busy \subseteq {w}
  BY <1>1, AtWork DEF ChainInv
<1> QED
  BY <1>1, <1>2, QuietChain DEF ChainInv

\* An event that tells of a change begins where the timeline has ended.
LEMMA AppendFollows ==
  ASSUME ChainInv, ~ overlapped, ~ cut, NEW w \in Reporter, NEW e \in proc[w].out,
         AppendEvent(w, e)
  PROVE  ChangesChain'
<1> DEFINE n == Len(log)
<1>1. /\ proc[w].pc = "append" /\ log' = Append(log, e) /\ UNCHANGED <<report, overlapped, cut>>
  BY DEF AppendEvent, At
<1>2. log \in Seq(Events) /\ e \in Events
  BY ProcAt DEF ReportsTypeOK, ChainInv
<1>3. /\ n \in Nat /\ DOMAIN log = 1 .. n /\ log'[n + 1] = e
      /\ \A i \in 1 .. n : log'[i] = log[i]
  BY <1>1, <1>2, Logged
<1>4. LeadsOn(w)
  BY <1>1 DEF Chain, At, ChainInv
<1> HIDE DEF n
<1>5. ASSUME NEW r \in Run, NEW i \in Changes(r, log'), NEW j \in Changes(r, log'), i < j,
             \A k \in Changes(r, log') : k <= i \/ j <= k
      PROVE  log'[j].item[1] = log'[i].item[2]
  <2>1. Changes(r, log) \subseteq 1 .. n
    BY <1>3 DEF Changes
  <2>2. CASE e.event = "run_status_changed" /\ e.run = r
    <3>1. Changes(r, log') = Changes(r, log) \cup {n + 1}
      BY <1>1, <1>2, <2>2, AppendEnds DEF n
    <3>2. i \in Changes(r, log)
      <4>1. i # n + 1
        BY <1>3, <1>5, <2>1, <3>1
      <4> QED
        BY <3>1, <4>1
    <3>3. CASE j = n + 1
      <4>1. \A k \in Changes(r, log) : k <= i
        BY <1>3, <1>5, <2>1, <3>1, <3>3
      <4>2. Max(Changes(r, log)) \in Changes(r, log) /\ i <= Max(Changes(r, log))
        BY <1>2, <3>2, LastChange
      <4>3. Max(Changes(r, log)) <= i /\ Max(Changes(r, log)) \in 1 .. n /\ i \in 1 .. n
        BY <2>1, <3>2, <4>1, <4>2
      <4>4. i = Max(Changes(r, log))
        BY <1>3, <4>2, <4>3
      <4>5. TimelineEnd(r, log) = log[i].item[2]
        BY <3>2, <4>4 DEF TimelineEnd
      <4>6. e.item[1] = TimelineEnd(r, log)
        BY <1>4, <2>2 DEF LeadsOn, ChangesOf
      <4> QED
        BY <1>3, <3>3, <4>3, <4>5, <4>6
    <3>4. CASE j # n + 1
      <4>1. j \in Changes(r, log)
        BY <3>1, <3>4
      <4>2. log[j].item[1] = log[i].item[2]
        BY <1>5, <3>1, <3>2, <4>1 DEF ChangesChain, ChainInv
      <4> QED
        BY <1>3, <2>1, <3>2, <4>1, <4>2
    <3> QED
      BY <3>3, <3>4
  <2>3. CASE ~ (e.event = "run_status_changed" /\ e.run = r)
    <3>1. Changes(r, log') = Changes(r, log)
      BY <1>1, <1>2, <2>3, AppendEnds
    <3>2. log[j].item[1] = log[i].item[2]
      BY <1>5, <3>1 DEF ChangesChain, ChainInv
    <3> QED
      BY <1>3, <2>1, <3>1, <3>2
  <2> QED
    BY <2>2, <2>3
<1>6. \A r \in DOMAIN report'.runs : report'.ends[r] = report'.runs[r].status
  BY <1>1 DEF ChangesChain, ChainInv
<1> QED
  BY <1>5, <1>6 DEF ChangesChain

\* A report that is made of the status has timelines that end in it.
LEMMA CompareFollows ==
  ASSUME ChainInv, ~ overlapped, ~ cut, NEW w \in Reporter, Compare(w)
  PROVE  ChangesChain'
<1>1. /\ proc[w].pc = "compare" /\ proc[w].mine # Missing
      /\ report'.runs = proc[w].mine.runs
      /\ report'.ends = [r \in Run |-> TimelineEnd(r, log)]
  BY CompareShape DEF ChainInv
<1>2. UNCHANGED <<log, overlapped, cut>>
  BY DEF Compare
<1>3. Busy \subseteq {w} /\ status = proc[w].mine
  BY <1>1, AtWork DEF ChainInv, Steady
<1>4. EndsIn(status)
  BY <1>1, <1>3, EndsHere DEF ChainInv
<1>5. proc[w].mine.runs \in [Run -> Seen]
  BY <1>1, ProcAt, RecordType DEF ChainInv
<1>6. ASSUME NEW r \in DOMAIN report'.runs
      PROVE  report'.ends[r] = report'.runs[r].status
  <2>1. r \in Run
    BY <1>1, <1>5
  <2>2. TimelineEnd(r, log) = StatusBefore(r, status)
    BY <1>4, <2>1 DEF EndsIn
  <2>3. StatusBefore(r, status) = proc[w].mine.runs[r].status
    BY <1>1, <1>3 DEF StatusBefore
  <2> QED
    BY <1>1, <2>1, <2>2, <2>3
<1>7. ASSUME NEW r \in Run, NEW i \in Changes(r, log'), NEW j \in Changes(r, log'), i < j,
             \A k \in Changes(r, log') : k <= i \/ j <= k
      PROVE  log'[j].item[1] = log'[i].item[2]
  BY <1>2, <1>7 DEF ChangesChain, ChainInv
<1> QED
  BY <1>6, <1>7 DEF ChangesChain

\* As long as nobody has overlapped nor been cut short, the timelines lead to the
\* status, and their changes follow on each other.
LEMMA ChainKept ==
  ASSUME ReportsTypeOK, ProcType, ~ overlapped => Undisturbed,
         ~ overlapped /\ ~ cut => Chain /\ ChangesChain,
         ReportsNext, ~ overlapped', ~ cut'
  PROVE  Chain' /\ ChangesChain'
<1>1. ~ overlapped /\ ~ cut
  <2>1. ~ overlapped
    BY UndisturbedKept
  <2>2. cut' = cut \/ cut'
    BY DEF ReportsNext, CollectStep, ReportStep, Start, Collect, Observe, Fill, Diff,
           AppendEvent, Compare, ReadStatus, BuildOverview, WriteSurface, WritePostmortem, Kill
  <2> QED
    BY <2>1, <2>2
<1>2. ChainInv
  BY <1>1 DEF ChainInv
<1>3. \A w \in Reporter : ~ Kill(w)
  BY DEF Kill
<1>4. Chain'
  BY <1>2, <1>3, StartChain, CollectChain, ObserveChain, FillChain, DiffChain, AppendChain,
     ReportChain
  DEF ReportsNext, CollectStep
<1>5. CASE UNCHANGED <<log, report>>
  <2>1. \A r : Changes(r, log') = Changes(r, log)
    BY <1>5 DEF Changes
  <2> QED
    BY <1>1, <1>2, <1>4, <1>5, <2>1 DEF ChangesChain, ChainInv
<1>6. \/ UNCHANGED <<log, report>>
      \/ \E w \in Reporter : Compare(w) \/ \E e \in proc[w].out : AppendEvent(w, e)
  BY <1>3
  DEF ReportsNext, CollectStep, ReportStep, Start, Collect, Observe, Fill, Diff,
      ReadStatus, BuildOverview, WriteSurface, WritePostmortem, files
<1> QED
  BY <1>1, <1>2, <1>4, <1>5, <1>6, CompareFollows, AppendFollows

-----------------------------------------------------------------------------
(* No acceptance is lost.                                                  *)

\* Whatever else is at work, what one process owes goes on being owed until it
\* is in the log.
LEMMA CoveredAgain ==
  ASSUME ProcType, Covered, NEW w \in Reporter, NEW p \in Procs, Becomes(w, p),
         Range(log) \subseteq Range(log'), Owed(w) \subseteq Range(log') \cup Owed(w)',
         Acceptances(status') \subseteq Handled \cup Handled',
         p.pc \in {"observe", "fill", "diff"} => Acceptances(p.prev) \subseteq Handled
  PROVE  Covered'
<1>1. proc'[w] = p /\ \A v \in Reporter \ {w} : proc'[v] = proc[v]
  BY BecomesType DEF ProcType
<1>2. ASSUME NEW v \in Reporter
      PROVE  Owed(v) \subseteq Range(log') \cup Owed(v)'
  <2>1. v # w => Owed(v)' = Owed(v)
    BY <1>1 DEF Owed
  <2> QED
    BY <2>1
<1>3. Handled \subseteq Handled'
  BY <1>2 DEF Handled
<1>4. ASSUME NEW v \in Reporter, proc'[v].pc \in {"observe", "fill", "diff"}
      PROVE  Acceptances(proc'[v].prev) \subseteq Handled'
  <2>1. CASE v = w
    BY <1>1, <1>3, <1>4, <2>1
  <2>2. CASE v # w
    BY <1>1, <1>3, <1>4, <2>2 DEF Covered
  <2> QED
    BY <2>1, <2>2
<1> QED
  BY <1>3, <1>4 DEF Covered

\* Where nothing is owed and no file written, nothing is lost.
LEMMA QuietCovered ==
  ASSUME ReportsTypeOK, ProcType, Covered, NEW w \in Reporter, NEW p \in Procs, Becomes(w, p),
         proc[w].pc \notin {"fill", "diff", "append"}, p.pc \notin {"observe", "fill", "diff"},
         UNCHANGED <<status, log>>
  PROVE  Covered'
<1>1. Owed(w) = {}
  BY ProcAt DEF Owed, Suits
<1>2. Range(log') = Range(log) /\ Acceptances(status') \subseteq Handled
  BY DEF Covered
<1> QED
  BY <1>1, <1>2, CoveredAgain

\* A process that starts owes nothing.
LEMMA StartCovered ==
  ASSUME ReportsTypeOK, ProcType, Covered, NEW w \in Reporter, NEW job \in DOMAIN Jobs,
         Start(w, job)
  PROVE  Covered'
<1> DEFINE q == Onward([Idle EXCEPT !.todo = Jobs[job]])
<1>1. Becomes(w, q) /\ UNCHANGED <<status, log>> /\ proc[w].pc = "idle"
  BY DEF Start, files, Busy
<1>2. q \in Procs /\ q.pc \in {"collect", "status"}
  BY StartShape DEF ReportsTypeOK
<1> HIDE DEF q
<1> QED
  BY <1>1, <1>2, QuietCovered

\* All of the status that Collect reads is in the log or owed.
LEMMA CollectCovered ==
  ASSUME ReportsTypeOK, ProcType, Covered, NEW w \in Reporter, Collect(w)
  PROVE  Covered'
<1>1. proc[w].pc = "collect" /\ UNCHANGED <<status, log>>
  BY DEF Collect, At, files
<1> DEFINE q == [proc[w] EXCEPT !.pc = "observe", !.prev = status]
<1>2. q \in Procs /\ q.pc = "observe" /\ q.prev = status /\ Becomes(w, q)
  BY ProcAt DEF Procs, Places, Collecting, ReportsTypeOK, Collect
<1> HIDE DEF q
<1>3. Owed(w) = {}
  BY <1>1, ProcAt DEF Owed, Suits
<1>4. Range(log') = Range(log) /\ Acceptances(status) \subseteq Handled
  BY <1>1 DEF Covered
<1> QED
  BY <1>1, <1>2, <1>3, <1>4, CoveredAgain

\* The status that is truncated is one the process still has to compare with.
LEMMA ObserveCovered ==
  ASSUME ReportsTypeOK, ProcType, Covered, NEW w \in Reporter, NEW r \in Run,
         NEW o \in {world[r]} \cup Observable, Observe(w, r, o)
  PROVE  Covered'
<1>1. proc[w].pc = "observe" /\ log' = log /\ status' = Missing
  BY DEF Observe, At
<1>2. proc'[w].prev = proc[w].prev /\ ProcType'
  BY ObserveType
<1>3. proc'[w] \in Procs /\ Becomes(w, proc'[w])
  BY <1>2 DEF ProcType, Observe, Becomes
<1>4. Owed(w) = {}
  BY <1>1, ProcAt DEF Owed, Suits
<1>5. Acceptances(status') = {} /\ Acceptances(proc'[w].prev) \subseteq Handled
  BY <1>1, <1>2 DEF Covered, Acceptances
<1> QED
  BY <1>1, <1>3, <1>4, <1>5, CoveredAgain

\* What the new status has accepted, the one before had, or it will be logged.
LEMMA FillCovered ==
  ASSUME ReportsTypeOK, ProcType, Covered, NEW w \in Reporter, Fill(w)
  PROVE  Covered'
<1>1. proc[w].pc = "fill" /\ log' = log /\ status' = proc[w].mine
  BY DEF Fill, At
<1> DEFINE q == [proc[w] EXCEPT !.pc = "diff"]
<1>2. /\ q \in Procs /\ q.pc = "diff" /\ q.prev = proc[w].prev /\ q.mine = proc[w].mine
      /\ Becomes(w, q)
  BY ProcAt DEF Procs, Places, Collecting, Fill
<1> HIDE DEF q
<1>3. proc'[w] = q
  BY <1>2, BecomesType DEF ProcType
<1>4. Owed(w)' = Owed(w)
  BY <1>1, <1>2, <1>3 DEF Owed
<1>5. Acceptances(proc[w].prev) \subseteq Handled
  BY <1>1 DEF Covered
<1>6. Acceptances(proc[w].mine) \subseteq Handled
  <2>1. Owed(w) = Acceptances(proc[w].mine) \ Acceptances(proc[w].prev)
    BY <1>1 DEF Owed
  <2>2. Owed(w) \subseteq Handled
    BY DEF Handled
  <2> QED
    BY <1>5, <2>1, <2>2
<1> QED
  BY <1>1, <1>2, <1>4, <1>5, <1>6, CoveredAgain

\* What is accepted, and was not before, will be logged if it has not been.
LEMMA AcceptedIsNew ==
  ASSUME NEW prev, NEW mine, mine # Missing, NEW logged,
         NEW e \in Acceptances(mine) \ Acceptances(prev), e \notin Range(logged)
  PROVE  e \in StatusEvents(prev, mine.runs, logged)
<1>1. PICK r \in Run :
         \/ \E f \in mine.runs[r].proofs : e = Accepted("validation_accepted", r, f)
         \/ \E f \in mine.runs[r].blockers : e = Accepted("blocker_accepted", r, f)
  BY DEF Acceptances
<1> DEFINE proofs == IF prev = Missing THEN {} ELSE prev.runs[r].proofs
<1> DEFINE blocks == IF prev = Missing THEN {} ELSE prev.runs[r].blockers
<1>2. ASSUME NEW f \in mine.runs[r].proofs, e = Accepted("validation_accepted", r, f)
      PROVE  e \in NewAcceptances("validation_accepted", r, mine.runs[r].proofs, proofs, logged)
  <2>1. f \notin proofs
    BY <1>2 DEF Acceptances
  <2> QED
    BY <1>2, <2>1 DEF NewAcceptances
<1>3. ASSUME NEW f \in mine.runs[r].blockers, e = Accepted("blocker_accepted", r, f)
      PROVE  e \in NewAcceptances("blocker_accepted", r, mine.runs[r].blockers, blocks, logged)
  <2>1. f \notin blocks
    BY <1>3 DEF Acceptances
  <2> QED
    BY <1>3, <2>1 DEF NewAcceptances
<1>4. e \in RunAcceptances(r, prev, mine.runs, logged)
  BY <1>1, <1>2, <1>3 DEF RunAcceptances
<1> QED
  BY <1>4 DEF StatusEvents

\* What was owed by the status is owed by the events, or in the log.
LEMMA DiffCovered ==
  ASSUME ReportsTypeOK, ProcType, Covered, NEW w \in Reporter, Diff(w)
  PROVE  Covered'
<1> DEFINE events == StatusEvents(proc[w].prev, proc[w].mine.runs, log)
<1> DEFINE p == [proc[w] EXCEPT !.prev = Missing]
<1>1. /\ p \in Procs /\ Placed(p) /\ p.pc = "diff"
      /\ proc'[w] \in Procs /\ Becomes(w, proc'[w]) /\ FilesKept
      /\ events = {} => proc'[w] = Onward(p)
      /\ events # {} => proc'[w].pc = "append" /\ proc'[w].out = events
  BY DiffShape
<1>2. proc[w].pc = "diff" /\ UNCHANGED <<status, log>> /\ proc[w].mine # Missing
  BY ProcAt DEF Diff, At, files, Suits
<1>3. Owed(w) \subseteq Range(log) \cup events
  BY <1>2, AcceptedIsNew DEF Owed
<1> HIDE DEF p, events
<1>4. proc'[w].pc \notin {"observe", "fill", "diff"}
  BY <1>1, AfterCollecting
<1>5. events \subseteq Owed(w)'
  BY <1>1 DEF Owed
<1>6. Acceptances(status') \subseteq Handled
  BY <1>2 DEF Covered
<1> QED
  BY <1>1, <1>2, <1>3, <1>4, <1>5, <1>6, CoveredAgain

\* What is appended is owed no longer, for it is in the log.
LEMMA AppendCovered ==
  ASSUME ReportsTypeOK, ProcType, Covered, NEW w \in Reporter,
         NEW e \in proc[w].out, AppendEvent(w, e)
  PROVE  Covered'
<1> DEFINE p == [proc[w] EXCEPT !.out = @ \ {e}]
<1>1. /\ p \in Procs /\ Placed(p) /\ p.pc = "append" /\ p.out = proc[w].out \ {e}
      /\ proc'[w] \in Procs /\ Becomes(w, proc'[w])
      /\ p.out = {} => proc'[w] = Onward(p)
      /\ p.out # {} => proc'[w] = p
  BY AppendShape
<1>2. proc[w].pc = "append" /\ log' = Append(log, e) /\ status' = status
  BY DEF AppendEvent, At
<1> HIDE DEF p
<1>3. Range(log') = Range(log) \cup {e}
  BY <1>2, ProcAt, Logged DEF ReportsTypeOK
<1>4. Owed(w) = proc[w].out
  BY <1>2 DEF Owed
<1>5. p.out \subseteq Owed(w)'
  BY <1>1 DEF Owed
<1>6. proc'[w].pc \notin {"observe", "fill", "diff"}
  BY <1>1, AfterCollecting
<1>7. Acceptances(status') \subseteq Handled
  BY <1>2 DEF Covered
<1> QED
  BY <1>1, <1>3, <1>4, <1>5, <1>6, <1>7, CoveredAgain

\* A report or an overview owes nothing.
LEMMA ReportCovered ==
  ASSUME ReportsTypeOK, ProcType, Covered, NEW w \in Reporter, ReportStep(w)
  PROVE  Covered'
BY AfterReporting, QuietCovered

\* As long as nobody has been cut short, what is accepted is in the log or will be.
LEMMA CoveredKept ==
  ASSUME ReportsTypeOK, ProcType, ~ cut => Covered, ReportsNext, ~ cut'
  PROVE  Covered'
<1>1. \A w \in Reporter : ~ Kill(w)
  BY DEF Kill
<1>2. ~ cut
  BY <1>1
  DEF ReportsNext, CollectStep, ReportStep, Start, Collect, Observe, Fill, Diff, AppendEvent,
      Compare, ReadStatus, BuildOverview, WriteSurface, WritePostmortem
<1> QED
  BY <1>1, <1>2, StartCovered, CollectCovered, ObserveCovered, FillCovered, DiffCovered,
     AppendCovered, ReportCovered
  DEF ReportsNext, CollectStep

-----------------------------------------------------------------------------
(* What an overview tells.                                                 *)

\* What a command is offered for.
LEMMA Recoveries ==
  ASSUME NEW o \in Seen
  PROVE  /\ o.status \in Statuses
         /\ RecommendedRecovery(o) # "none" <=> o.status \notin Complete \cup {"running"}
         /\ o.status = "contaminated" => RecommendedRecovery(o) = "manual_rebuild"
         /\ o.status \in Complete => ~ o.note
BY DEF Seen, Statuses, TerminalStatuses, Complete, RecommendedRecovery

\* Counts are numbers, and that of what is left tells whether anything is.
LEMMA CountsType ==
  ASSUME NEW runs \in [Run -> Seen]
  PROVE  LET t == TargetCounts(runs)
         IN  /\ t.proofs \in Nat /\ t.formalizations \in Nat /\ t.blockers \in Nat
             /\ t.remaining \in Nat /\ t.unverified \in Nat
             /\ t.remaining = 0 /\ (\A r \in Run : ~ runs[r].note) => t.unverified = 0
<1> DEFINE Files == (DOMAIN runs) \X File
<1> DEFINE Remaining == {x \in Files : x[2] \in runs[x[1]].remaining}
<1> DEFINE Touched == {x \in Files : x[2] \in runs[x[1]].unverified}
<1> DEFINE Notes == {r \in DOMAIN runs : runs[r].note}
<1>1. IsFiniteSet(Files) /\ IsFiniteSet(DOMAIN runs)
  BY FS_Product DEF CampaignReportsAssumption
<1>2. /\ \A S \in SUBSET Files : IsFiniteSet(S) /\ Cardinality(S) \in Nat
      /\ Cardinality(Notes) \in Nat
  <2>1. \A S \in SUBSET Files : IsFiniteSet(S) /\ Cardinality(S) \in Nat
    BY <1>1, FS_Subset, FS_CardinalityType
  <2>2. IsFiniteSet(Notes)
    BY <1>1, FS_Subset
  <2> QED
    BY <2>1, <2>2, FS_CardinalityType
<1>3. /\ {x \in Files : x[2] \in runs[x[1]].proofs} \subseteq Files
      /\ {x \in Files : x[2] \in runs[x[1]].formalizations} \subseteq Files
      /\ {x \in Files : x[2] \in runs[x[1]].blockers} \subseteq Files
      /\ Remaining \subseteq Files /\ Touched \subseteq Files
  OBVIOUS
<1>4. Touched \subseteq Remaining
  BY DEF Seen
<1>5. ASSUME Cardinality(Remaining) = 0, \A r \in Run : ~ runs[r].note
      PROVE  Cardinality(Touched) = 0 /\ Cardinality(Notes) = 0
  <2>1. Remaining = {}
    BY <1>2, <1>3, <1>5, FS_EmptySet
  <2>2. Touched = {} /\ Notes = {}
    BY <1>4, <1>5, <2>1
  <2> QED
    BY <2>2, FS_EmptySet
<1>6. LET t == TargetCounts(runs)
      IN  /\ t.proofs = Cardinality({x \in Files : x[2] \in runs[x[1]].proofs})
          /\ t.formalizations = Cardinality({x \in Files : x[2] \in runs[x[1]].formalizations})
          /\ t.blockers = Cardinality({x \in Files : x[2] \in runs[x[1]].blockers})
          /\ t.remaining = Cardinality(Remaining)
          /\ t.unverified = Cardinality(Touched) + Cardinality(Notes)
  BY DEF TargetCounts
<1> DEFINE t == TargetCounts(runs)
<1>7. /\ t.proofs \in Nat /\ t.formalizations \in Nat /\ t.blockers \in Nat
      /\ t.remaining \in Nat
  BY <1>2, <1>3, <1>6
<1>8. Cardinality(Touched) \in Nat /\ Cardinality(Notes) \in Nat
  BY <1>2, <1>3
<1> HIDE DEF Touched, Remaining, Notes, t
<1>9. t.unverified = Cardinality(Touched) + Cardinality(Notes)
  BY <1>6 DEF t
<1>10. t.unverified \in Nat
  BY <1>8, <1>9
<1>11. t.remaining = 0 /\ (\A r \in Run : ~ runs[r].note) => t.unverified = 0
  BY <1>5, <1>6, <1>9 DEF t
<1> QED
  BY <1>7, <1>10, <1>11 DEF t

\* An overview of runs tells of all of them.
LEMMA OverviewTells ==
  ASSUME NEW s, s.runs \in [Run -> Seen], NEW c
  PROVE  LET o == Overview(s, c)
             open == {r \in Run : o.runs[r].status \notin Complete}
         IN  /\ o.queue = open
             /\ o.commands = {} <=> open = {}
             /\ o.bottleneck = "stable_or_idle" => open = {}
             /\ o.complete =>
                    /\ \/ o.progress.completed = o.progress.total
                       \/ \E r \in open : o.runs[r].note
                    /\ o.buckets["terminal"] = Cardinality(Run)
                    /\ \A r \in open : RecommendedRecovery(o.runs[r]) = "manual_rebuild"
<1> DEFINE runs == s.runs
<1> DEFINE o == Overview(s, c)
<1> DEFINE open == {r \in Run : runs[r].status \notin Complete}
<1>1. /\ o.runs = runs /\ o.queue = OperatorQueue(runs)
      /\ o.commands = RecommendedCommands(runs)
      /\ o.bottleneck = LikelyBottleneck(runs) /\ o.complete = EtaComplete(runs)
      /\ o.buckets = StatusBuckets(runs) /\ o.progress = ProgressOf(runs)
  BY DEF Overview
<1>2. /\ runs \in [Run -> Seen] /\ DOMAIN runs = Run
      /\ \A r \in Run :
            /\ runs[r].status \in Statuses
            /\ RecommendedRecovery(runs[r]) # "none"
                  <=> runs[r].status \notin Complete \cup {"running"}
            /\ runs[r].status = "contaminated" =>
                  RecommendedRecovery(runs[r]) = "manual_rebuild"
            /\ runs[r].status \in Complete => ~ runs[r].note
  BY Recoveries
<1> HIDE DEF runs, o
<1>3. Running(runs) \cup Recoverable(runs) = open
  BY <1>2 DEF Running, Recoverable, Complete
<1>4. o.queue = open
  BY <1>1, <1>3 DEF OperatorQueue
<1>5. o.commands = {} <=> open = {}
  BY <1>1, <1>3 DEF RecommendedCommands
<1>6. o.bottleneck = "stable_or_idle" => open = {}
  BY <1>1, <1>3 DEF LikelyBottleneck
<1>7. ASSUME o.complete
      PROVE  /\ \/ o.progress.completed = o.progress.total
                \/ \E r \in open : runs[r].note
             /\ o.buckets["terminal"] = Cardinality(Run)
             /\ \A r \in open : RecommendedRecovery(runs[r]) = "manual_rebuild"
  <2>1. TargetCounts(runs).remaining = 0 /\ \A r \in Run : runs[r].status \in TerminalStatuses
    BY <1>1, <1>7 DEF EtaComplete
  <2>2. {r \in DOMAIN runs : Bucket(runs[r].status) = "terminal"} = Run
    <3>1. \A r \in Run : Bucket(runs[r].status) = "terminal"
      BY <2>1 DEF Bucket, TerminalStatuses
    <3> QED
      BY <1>2, <3>1
  <2>3. StatusBuckets(runs)["terminal"] = Cardinality(Run)
    BY <2>2 DEF StatusBuckets
  <2>4. ASSUME \A r \in open : ~ runs[r].note
        PROVE  ProgressOf(runs).completed = ProgressOf(runs).total
    <3> DEFINE t == TargetCounts(runs)
    <3> DEFINE closed == t.proofs + t.formalizations + t.blockers
    <3>1. \A r \in Run : ~ runs[r].note
      BY <1>2, <2>4
    <3>2. /\ t.proofs \in Nat /\ t.formalizations \in Nat /\ t.blockers \in Nat
          /\ t.remaining = 0 /\ t.unverified = 0
      BY <1>2, <2>1, <3>1, CountsType
    <3>3. /\ ProgressOf(runs) =
                IF closed + t.remaining + t.unverified > 0
                THEN [completed |-> closed, total |-> closed + t.remaining + t.unverified]
                ELSE [completed |-> StatusBuckets(runs)["terminal"],
                      total |-> Cardinality(DOMAIN runs)]
      BY DEF ProgressOf
    <3> HIDE DEF t
    <3>4. closed + t.remaining + t.unverified = closed
      BY <3>2
    <3> QED
      BY <1>2, <2>3, <3>3, <3>4
  <2>5. ASSUME NEW r \in open
        PROVE  RecommendedRecovery(runs[r]) = "manual_rebuild"
    <3>1. runs[r].status = "contaminated"
      BY <2>1, <2>5 DEF TerminalStatuses, Complete
    <3> QED
      BY <1>2, <3>1
  <2> QED
    BY <1>1, <2>3, <2>4, <2>5
<1> QED
  BY <1>1, <1>4, <1>5, <1>6, <1>7 DEF o, runs

-----------------------------------------------------------------------------
(* The theorems.                                                           *)

\* What the reports rest on holds whatever the processes do, in whatever order.
THEOREM ReportsInductive == ReportsSpec => []ReportsIInv
<1>1. ReportsInit => ReportsIInv
  <2> SUFFICES ASSUME ReportsInit
               PROVE  ReportsIInv
    OBVIOUS
  <2>1. /\ world \in [Run -> Seen] /\ moves = 0 /\ status = Missing /\ log = <<>>
        /\ report = NoReport /\ proc = [w \in Reporter |-> Idle] /\ budget = MaxStamps
        /\ clock = 0 /\ overlapped = FALSE /\ cut = FALSE
    BY DEF ReportsInit, Observable
  <2>2. /\ Missing \in Records /\ NoReport \in Reports /\ Missing.at = 0 /\ NoReport.at = 0
        /\ NoReport.runs = <<>> /\ MaxMoves \in Nat /\ MaxStamps \in Nat
    BY DEF Records, Reports, Missing, NoReport, CampaignReportsAssumption
  <2>3. ReportsTypeOK
    <3>1. /\ {status.at, report.at} \subseteq 0 .. clock /\ clock \in Nat
          /\ moves \in 0 .. MaxMoves /\ budget \in 0 .. MaxStamps
      <4>1. status.at = 0 /\ report.at = 0
        BY <2>1, <2>2
      <4> QED
        BY <2>1, <2>2, <4>1
    <3>2. {overlapped, cut} \subseteq BOOLEAN
      BY <2>1
    <3>3. log \in Seq(Events) /\ \A w \in Reporter : proc[w] = Idle
      BY <2>1
    <3> QED
      BY <2>1, <2>2, <3>1, <3>2, <3>3 DEF ReportsTypeOK
  <2>4. ProcType
    BY <2>1, IdleProc DEF ProcType
  <2>5. \A w \in Reporter : proc[w] = Idle /\ proc[w].pc = "idle" /\ proc[w].out = {}
    BY <2>1, IdleProc
  <2>6. DOMAIN log = {}
    BY <2>1
  <2>7. Undisturbed
    BY <2>1, <2>5, <2>6 DEF Undisturbed, Alone, Busy, Agrees, LoggedOnce
  <2>8. \A r : Changes(r, log) = {}
    BY <2>6 DEF Changes
  <2>9. Chain
    <3>1. EndsIn(status)
      BY <2>1, <2>8 DEF EndsIn, TimelineEnd, StatusBefore
    <3> QED
      BY <2>5, <3>1 DEF Chain, At
  <2>10. ChangesChain
    <3>1. DOMAIN report.runs = {}
      BY <2>1, <2>2
    <3> QED
      BY <2>8, <3>1 DEF ChangesChain
  <2>11. Covered
    BY <2>1, <2>5 DEF Covered, Acceptances
  <2> QED
    BY <2>3, <2>4, <2>7, <2>9, <2>10, <2>11 DEF ReportsIInv
<1>2. ReportsIInv /\ [ReportsNext]_reportsVars => ReportsIInv'
  <2> SUFFICES ASSUME ReportsIInv, [ReportsNext]_reportsVars
               PROVE  ReportsIInv'
    OBVIOUS
  <2>1. CASE ReportsNext
    BY <2>1, TypesKept, UndisturbedKept, ChainKept, CoveredKept DEF ReportsIInv
  <2>2. CASE UNCHANGED reportsVars
    <3>1. UNCHANGED <<world, moves, status, log, report, proc, budget, clock, overlapped, cut>>
      BY <2>2 DEF reportsVars, files
    <3>2. ReportsTypeOK' /\ ProcType'
      BY <3>1 DEF ReportsIInv, ReportsTypeOK, ProcType
    <3>3. Undisturbed => Undisturbed'
      BY <3>1 DEF Undisturbed, Alone, Busy, Steady, At, Agrees, Current, LoggedOnce
    <3>4. Chain => Chain'
      BY <3>1 DEF Chain, Logging, At, EndsIn, LeadsOn
    <3>5. ChangesChain => ChangesChain'
      BY <3>1 DEF ChangesChain
    <3>6. Covered => Covered'
      <4>1. \A w \in Reporter : Owed(w)' = Owed(w)
        BY <3>1 DEF Owed
      <4> QED
        BY <3>1, <4>1 DEF Covered, Handled
    <3> QED
      BY <3>1, <3>2, <3>3, <3>4, <3>5, <3>6 DEF ReportsIInv
  <2> QED
    BY <2>1, <2>2
<1> QED
  BY <1>1, <1>2, PTL DEF ReportsSpec

\* The log of a campaign (collect_campaign_status): of collections that do not
\* overlap every acceptance of a proof or a blocker is logged once and the changes
\* of a run follow on each other; and even of those that do, none is lost unless
\* one is cut short.  Accepted formalizations are in the status and never logged.
THEOREM LogCorrect == ReportsSpec => []LogInv
<1>1. ReportsIInv => LogInv
  <2> SUFFICES ASSUME ReportsIInv
               PROVE  LogInv
    OBVIOUS
  <2>1. LoggedOnce
    BY DEF ReportsIInv, Undisturbed, LoggedOnce
  <2>2. ChangesChain
    BY DEF ReportsIInv, ChangesChain
  <2>3. ASSUME ~ cut, Busy = {}, status # Missing, NEW r \in Run
        PROVE  /\ \A f \in status.runs[r].proofs :
                      Accepted("validation_accepted", r, f) \in Range(log)
               /\ \A f \in status.runs[r].blockers :
                      Accepted("blocker_accepted", r, f) \in Range(log)
    <3>1. \A w \in Reporter : Owed(w) = {}
      BY <2>3, ProcAt DEF Busy, Owed, Suits, ReportsIInv
    <3>2. Acceptances(status) \subseteq Range(log)
      BY <2>3, <3>1 DEF ReportsIInv, Covered, Handled
    <3>3. ASSUME NEW f \in status.runs[r].proofs
          PROVE  Accepted("validation_accepted", r, f) \in Acceptances(status)
      BY <2>3 DEF Acceptances
    <3>4. ASSUME NEW f \in status.runs[r].blockers
          PROVE  Accepted("blocker_accepted", r, f) \in Acceptances(status)
      BY <2>3 DEF Acceptances
    <3> QED
      BY <3>2, <3>3, <3>4
  <2>4. NothingLost
    BY <2>3 DEF NothingLost
  <2> QED
    BY <2>1, <2>2, <2>4 DEF LogInv, ReportsIInv
<1> QED
  BY <1>1, ReportsInductive, PTL

\* A report that passes for fresh is (compare_report_freshness compares time
\* stamps and counts only), and a postmortem's does, as long as nothing else
\* reports at the time.
THEOREM ReportsAreFresh == ReportsSpec => []ReportsFresh
<1>1. ReportsIInv => ReportsFresh
  <2> SUFFICES ASSUME ReportsIInv
               PROVE  ReportsFresh
    OBVIOUS
  <2>1. FreshReportAgrees
    BY DEF ReportsIInv, Undisturbed, Agrees, Fresh, FreshReportAgrees
  <2>2. PostmortemFresh
    BY DEF ReportsIInv, Undisturbed, Steady, PostmortemFresh, At, Busy
  <2> QED
    BY <2>1, <2>2 DEF ReportsFresh
<1> QED
  BY <1>1, ReportsInductive, PTL

\* No overview forgets a run (build_campaign_overview), nor calls a campaign
\* complete that a teacher may still work on.  Its progress is complete then, but
\* for the notes of contaminated runs.
THEOREM OverviewsTellAll == ReportsSpec => []OverviewTellsAll
<1>1. ReportsIInv => OverviewTellsAll
  <2> SUFFICES ASSUME ReportsIInv, NEW w \in Reporter, proc[w].overview # NoOverview
               PROVE  LET o == proc[w].overview
                          open == {r \in Run : o.runs[r].status \notin Complete}
                      IN  /\ o.queue = open
                          /\ o.commands = {} <=> open = {}
                          /\ o.bottleneck = "stable_or_idle" => open = {}
                          /\ o.complete =>
                                 /\ \/ o.progress.completed = o.progress.total
                                    \/ \E r \in open : o.runs[r].note
                                 /\ o.buckets["terminal"] = Cardinality(Run)
                                 /\ \A r \in open :
                                       RecommendedRecovery(o.runs[r]) = "manual_rebuild"
    BY DEF OverviewTellsAll
  <2>1. proc[w].overview \in Overviews
    BY ProcAt DEF ReportsIInv
  <2>2. PICK s \in Records \ {Missing}, c \in Reports : proc[w].overview = Overview(s, c)
    BY <2>1 DEF Overviews
  <2>3. s.runs \in [Run -> Seen]
    BY RecordType
  <2> QED
    BY <2>2, <2>3, OverviewTells
<1> QED
  BY <1>1, ReportsInductive, PTL

=============================================================================
