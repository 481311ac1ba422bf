-------------------------- MODULE OwnerLease_proofs --------------------------
(***************************************************************************)
(* Proofs about OwnerLease for every set of watchdogs, every lease length  *)
(* and every bound on sessions.                                            *)
(***************************************************************************)
EXTENDS OwnerLease, TLAPS

\* The record lemmas: what reading, ageing and writing a lease does to it.
LEMMA LeaseValues ==
    /\ AgeCap \in Nat
    /\ Missing \in Lease /\ ~ Missing.active /\ Missing.kind = "missing"
    /\ Torn \in Lease /\ ~ Torn.active /\ Torn.kind = "torn"
    /\ NoCall \in [read  : Lease, since : 0 .. AgeCap,
                   child : Session \cup {NoSession}]
    /\ NoCall.read = Missing
  BY OwnerLeaseAssumption
  DEF Missing, Torn, Unreadable, Lease, NoCall, AgeCap, NoSession

LEMMA OlderKeeps ==
    ASSUME NEW l \in Lease
    PROVE  /\ OlderLease(l) \in Lease
           /\ OlderLease(l).kind = l.kind
           /\ OlderLease(l).active = l.active
           /\ OlderLease(l).owner = l.owner
           /\ OlderLease(l).child = l.child
  BY OwnerLeaseAssumption DEF OlderLease, Older, Lease, AgeCap

LEMMA ClaimedValues ==
    ASSUME NEW w \in Watchdog, NEW s \in Session \cup {NoSession},
           NEW n \in 0 .. AgeCap
    PROVE  /\ Claimed(w, s, n) \in Lease
           /\ Claimed(w, s, n).kind = "whole"
           /\ Claimed(w, s, n).active
           /\ Claimed(w, s, n).owner = w
           /\ Claimed(w, s, n).child = s
  BY DEF Claimed, Lease

LEMMA ReleasedValues ==
    ASSUME NEW w \in Watchdog
    PROVE  /\ Released(w) \in Lease
           /\ Released(w).kind = "whole"
           /\ ~ Released(w).active
  BY LeaseValues DEF Released, Lease

-----------------------------------------------------------------------------
(* Type correctness.                                                       *)

\* A step of a watchdog, and a step of the environment, keep the types.
LEMMA TypeStep == TypeOK /\ [Next]_vars => TypeOK'
  <1> SUFFICES ASSUME TypeOK, [Next]_vars PROVE TypeOK'
    OBVIOUS
  <1> USE OwnerLeaseAssumption, LeaseValues
  <1> USE DEF TypeOK, Phase, Claiming, Refreshing, Owning, Leaving, Over, Goto,
              history
  <1>1. ASSUME NEW w \in Watchdog, ClaimRead(w) PROVE TypeOK'
    BY <1>1 DEF ClaimRead
  <1>2. ASSUME NEW w \in Watchdog, Refused(w) PROVE TypeOK'
    BY <1>2 DEF Refused
  <1>3. ASSUME NEW w \in Watchdog, BeginWrite(w) PROVE TypeOK'
    BY <1>3 DEF BeginWrite
  <1>4. ASSUME NEW w \in Watchdog, EndWrite(w) PROVE TypeOK'
    <2>1. Claimed(w, call[w].child, call[w].since) \in Lease
      BY ClaimedValues
    <2>2. file' \in Lease
      BY <1>4, <2>1 DEF EndWrite, Filled
    <2>3. recorded' \subseteq Session
      BY <1>4 DEF EndWrite
    <2> QED
      BY <1>4, <2>2, <2>3 DEF EndWrite
  <1>5. ASSUME NEW w \in Watchdog, LaunchSession(w) PROVE TypeOK'
    BY <1>5 DEF LaunchSession, Session
  <1>6. ASSUME NEW w \in Watchdog, AttachSession(w) PROVE TypeOK'
    BY <1>6 DEF AttachSession
  <1>7. ASSUME NEW w \in Watchdog, RefreshRead(w) PROVE TypeOK'
    <2>1. 0 \in 0 .. AgeCap
      BY LeaseValues
    <2>2. (IF Mine(w) \in codex THEN Mine(w) ELSE NoSession)
             \in Session \cup {NoSession}
      OBVIOUS
    <2> DEFINE c == [read  |-> file, since |-> 0,
                     child |-> IF Mine(w) \in codex THEN Mine(w) ELSE NoSession]
    <2>3. c \in [read  : Lease, since : 0 .. AgeCap,
                child : Session \cup {NoSession}]
      BY <2>1, <2>2
    <2>4. call' = [call EXCEPT ![w] = c]
      BY <1>7 DEF RefreshRead
    <2> HIDE DEF c
    <2> QED
      BY <1>7, <2>3, <2>4 DEF RefreshRead
  <1>8. ASSUME NEW w \in Watchdog, LoseOwnership(w) PROVE TypeOK'
    BY <1>8 DEF LoseOwnership
  <1>9. ASSUME NEW w \in Watchdog, RestartExited(w) \/ RestartStalled(w)
        PROVE  TypeOK'
    BY <1>9 DEF RestartExited, RestartStalled
  <1>10. ASSUME NEW w \in Watchdog, NextPoll(w) \/ Finish(w) \/ Exception(w)
         PROVE  TypeOK'
    <2>1. CASE NextPoll(w)
      BY <2>1 DEF NextPoll
    <2>2. CASE Finish(w)
      BY <2>2 DEF Finish
    <2>3. CASE Exception(w)
      BY <2>3 DEF Exception
    <2> QED
      BY <1>10, <2>1, <2>2, <2>3
  <1>11. ASSUME NEW w \in Watchdog, Teardown(w) \/ ReleaseBegin(w) PROVE TypeOK'
    BY <1>11 DEF Teardown, ReleaseBegin
  <1>12. ASSUME NEW w \in Watchdog, ReleaseEnd(w) PROVE TypeOK'
    BY <1>12, ReleasedValues DEF ReleaseEnd, Filled
  <1>13. ASSUME NEW w \in Watchdog, Kill(w) PROVE TypeOK'
    BY <1>13 DEF Kill
  <1>14. ASSUME NEW s \in codex, CodexExit(s) PROVE TypeOK'
    BY <1>14 DEF CodexExit
  <1>15. CASE Tick
    <2>1. file' \in Lease
      BY <1>15, OlderKeeps DEF Tick
    <2>2. \A w \in Watchdog : /\ OlderLease(call[w].read) \in Lease
                              /\ Older(call[w].since) \in 0 .. AgeCap
      BY OlderKeeps DEF Older, AgeCap
    <2>3. call' \in [Watchdog -> [read  : Lease, since : 0 .. AgeCap,
                                  child : Session \cup {NoSession}]]
      BY <1>15, <2>2 DEF Tick
    <2> QED
      BY <1>15, <2>1, <2>3 DEF Tick
  <1>16. CASE UNCHANGED vars
    BY <1>16 DEF vars
  <1> QED
    BY <1>1, <1>2, <1>3, <1>4, <1>5, <1>6, <1>7, <1>8, <1>9, <1>10, <1>11,
       <1>12, <1>13, <1>14, <1>15, <1>16 DEF Next, Step

\* The variables of the lease keep their types.
THEOREM TypeCorrect == Spec => []TypeOK
  <1>1. Init => TypeOK
    <2>1. [w \in Watchdog |-> 0] \in [Watchdog -> 0 .. MaxSessions]
      BY OwnerLeaseAssumption
    <2>2. "new" \in Phase
      BY DEF Phase
    <2> QED
      BY <2>1, <2>2, LeaseValues DEF Init, TypeOK
  <1> QED
    BY <1>1, TypeStep, PTL DEF Spec

-----------------------------------------------------------------------------
(* Exclusion.  While no claim has overwritten a lease it had not read, the *)
(* file names the only engaged watchdog, or is truncated: and then nobody  *)
(* may claim it without having raced.                                      *)

Writing == {"claimWrite", "refreshWrite", "releaseWrite"}

ExclusiveInv ==
    /\ ExclusiveUnlessRaced
    /\ ~ raced => \A w \in Watchdog :
           Engaged(w) => file.kind = "torn" \/ (file.active /\ file.owner = w)
    /\ ~ raced => \A w \in Watchdog : pc[w] \in Writing => file.kind = "torn"

\* A step that leaves the file and the history alone and engages nobody new.
LEMMA ExclusiveFrame ==
    ASSUME ExclusiveInv, UNCHANGED raced,
           file'.kind = file.kind, file'.active = file.active,
           file'.owner = file.owner,
           \A w \in Watchdog : Engaged(w)' => Engaged(w),
           \A w \in Watchdog : pc'[w] \in Writing => pc[w] \in Writing
    PROVE  ExclusiveInv'
  BY DEF ExclusiveInv, ExclusiveUnlessRaced

LEMMA ExclusiveStep == TypeOK /\ ExclusiveInv /\ [Next]_vars => ExclusiveInv'
  <1> SUFFICES ASSUME TypeOK, ExclusiveInv, [Next]_vars PROVE ExclusiveInv'
    OBVIOUS
  <1> USE LeaseValues
  <1> DEFINE Keeps == /\ UNCHANGED <<raced, file>>
                      /\ \A v \in Watchdog : Engaged(v)' => Engaged(v)
                      /\ \A v \in Watchdog : pc'[v] \in Writing => pc[v] \in Writing
  <1>1. ASSUME NEW w \in Watchdog, BeginWrite(w) PROVE ExclusiveInv'
    <2>1. file'.kind = "torn"
      BY <1>1 DEF BeginWrite
    <2>2. ASSUME ~ raced', NEW v \in Watchdog, Engaged(v)
          PROVE  v = w
      <3>1. ~ raced /\ call[w].read = file /\ file.kind # "torn"
        BY <1>1, <2>2 DEF BeginWrite, TypeOK
      <3>2. file.active /\ file.owner = v
        BY <2>2, <3>1 DEF ExclusiveInv
      <3>3. owner_lease_is_live(file)
        BY <2>2, <3>2 DEF owner_lease_is_live, PidLive, Engaged, Owning,
                          Refreshing, Leaving, Over
      <3> QED
        BY <1>1, <3>1, <3>2, <3>3 DEF BeginWrite, MayClaim
    <2>3. \A v \in Watchdog : Engaged(v)' => v = w \/ Engaged(v)
      BY <1>1 DEF BeginWrite, Goto, Engaged, TypeOK
    <2>4. ExclusiveUnlessRaced'
      BY <2>2, <2>3 DEF ExclusiveUnlessRaced
    <2> QED
      BY <2>1, <2>4 DEF ExclusiveInv
  <1>2. ASSUME NEW w \in Watchdog, EndWrite(w) PROVE ExclusiveInv'
    <2>1. Engaged(w) /\ pc[w] \in Writing
      BY <1>2 DEF EndWrite, Engaged, Writing, Owning, Refreshing
    <2>2. UNCHANGED raced
      BY <1>2 DEF EndWrite
    <2>3. ASSUME ~ raced PROVE file'.active /\ file'.owner = w
      <3>1. file.kind = "torn"
        BY <2>1, <2>3 DEF ExclusiveInv
      <3>2. file' = Claimed(w, call[w].child, call[w].since)
        BY <1>2, <3>1 DEF EndWrite, Filled
      <3>3. /\ call[w].child \in Session \cup {NoSession}
            /\ call[w].since \in 0 .. AgeCap
        BY DEF TypeOK
      <3> QED
        BY <3>2, <3>3, ClaimedValues
    <2>4. \A v \in Watchdog : Engaged(v)' => Engaged(v)
      BY <1>2, <2>1 DEF EndWrite, Goto, Engaged, TypeOK
    <2>5. \A v \in Watchdog : pc'[v] \in Writing => v # w /\ pc[v] \in Writing
      BY <1>2 DEF EndWrite, Goto, Writing, TypeOK
    <2>6. \A v \in Watchdog : pc[v] \in Writing => Engaged(v)
      BY DEF Writing, Engaged, Owning, Refreshing, Leaving
    <2> QED
      BY <2>1, <2>2, <2>3, <2>4, <2>5, <2>6 DEF ExclusiveInv, ExclusiveUnlessRaced
  <1>3. ASSUME NEW w \in Watchdog, ReleaseBegin(w) PROVE ExclusiveInv'
    <2>1. file'.kind = "torn" /\ UNCHANGED raced
      BY <1>3 DEF ReleaseBegin, history
    <2>2. \A v \in Watchdog : Engaged(v)' => Engaged(v)
      BY <1>3 DEF ReleaseBegin, Goto, Engaged, Leaving, TypeOK
    <2> QED
      BY <2>1, <2>2 DEF ExclusiveInv, ExclusiveUnlessRaced
  <1>4. ASSUME NEW w \in Watchdog, ReleaseEnd(w) PROVE ExclusiveInv'
    <2>1. Engaged(w) /\ UNCHANGED raced
      BY <1>4 DEF ReleaseEnd, Engaged, Leaving, history
    <2>2. \A v \in Watchdog : Engaged(v)' => v # w /\ Engaged(v)
      BY <1>4 DEF ReleaseEnd, Goto, Engaged, Owning, Refreshing, Leaving, TypeOK
    <2>3. \A v \in Watchdog : pc'[v] \in Writing => Engaged(v)'
      BY DEF Writing, Engaged, Owning, Refreshing, Leaving
    <2> QED
      BY <2>1, <2>2, <2>3 DEF ExclusiveInv, ExclusiveUnlessRaced
  <1>5. ASSUME NEW w \in Watchdog,
               \/ ClaimRead(w) \/ Refused(w) \/ LaunchSession(w)
               \/ AttachSession(w) \/ RefreshRead(w) \/ LoseOwnership(w)
        PROVE  Keeps
    BY <1>5
    DEF ClaimRead, Refused, LaunchSession, AttachSession, RefreshRead,
        LoseOwnership, Goto, history, Engaged, Writing, Owning, Refreshing,
        Leaving, TypeOK
  <1>6. ASSUME NEW w \in Watchdog,
               \/ RestartExited(w) \/ RestartStalled(w) \/ NextPoll(w)
               \/ Finish(w) \/ Exception(w) \/ Teardown(w)
        PROVE  Keeps
    BY <1>6
    DEF RestartExited, RestartStalled, NextPoll, Finish, Exception, Teardown,
        Goto, history, Engaged, Writing, Owning, Refreshing, Leaving, TypeOK
  <1>7. ASSUME NEW w \in Watchdog, Kill(w) PROVE Keeps
    BY <1>7 DEF Kill, Goto, history, Engaged, Writing, Owning, Refreshing,
                Leaving, TypeOK
  <1>8. CASE Tick
    <2>1. /\ file'.kind = file.kind /\ file'.active = file.active
          /\ file'.owner = file.owner /\ UNCHANGED <<pc, raced>>
      BY <1>8, OlderKeeps DEF Tick, TypeOK, history
    <2> QED
      BY <2>1, ExclusiveFrame DEF Engaged
  <1>9. ASSUME NEW s \in codex, CodexExit(s) PROVE Keeps
    BY <1>9 DEF CodexExit, history, Engaged
  <1>10. CASE UNCHANGED vars
    BY <1>10 DEF vars, ExclusiveInv, ExclusiveUnlessRaced, Engaged
  <1>11. ASSUME Keeps PROVE ExclusiveInv'
    BY <1>11, ExclusiveFrame
  <1> QED
    BY <1>1, <1>2, <1>3, <1>4, <1>5, <1>6, <1>7, <1>8, <1>9, <1>10, <1>11
    DEF Next, Step

LEMMA ExclusiveInvariant == Spec => []ExclusiveInv
  <1>1. Init => ExclusiveInv
    BY DEF Init, ExclusiveInv, ExclusiveUnlessRaced, Engaged, Writing, Owning,
           Refreshing, Leaving
  <1> QED
    BY <1>1, ExclusiveStep, TypeCorrect, PTL DEF Spec

\* A compare-and-swap is all the owner lease lacks: unless some claim or
\* refresh overwrote a lease it had not read, one watchdog at most runs the
\* campaign, for any number of watchdogs, crashes, exceptions and restarts.
THEOREM Exclusion == Spec => []ExclusiveUnlessRaced
  <1>1. ExclusiveInv => ExclusiveUnlessRaced
    BY DEF ExclusiveInv
  <1> QED
    BY <1>1, ExclusiveInvariant, PTL

-----------------------------------------------------------------------------
(* Ousting.  The last watchdog to fill the file can only read its own      *)
(* claim, a truncated file or a released lease until another claims.       *)

ClaimInv ==
    /\ file.active => file.owner = holder /\ holder \in Watchdog
    /\ file.active => pc[file.owner] \in Owning \cup Leaving \cup {"dead"}
    /\ \A w \in Watchdog :
          /\ pc[w] \in {"new"} \cup Claiming \cup Owning => reason[w] = "none"
          /\ reason[w] = "conflict" => pc[w] = "stopped"
          /\ reason[w] = "lost" => w # holder
          /\ call[w].read.active => holder # NoWatchdog
          /\ pc[w] = "refresh" /\ w = holder /\ call[w].read.active
                => call[w].read.owner = w

LEMMA ClaimStep == TypeOK /\ ClaimInv /\ [Next]_vars => ClaimInv'
  <1> SUFFICES ASSUME TypeOK, ClaimInv, [Next]_vars PROVE ClaimInv'
    OBVIOUS
  <1> USE LeaseValues, OwnerLeaseAssumption
  <1> USE DEF ClaimInv, Goto, history, Claiming, Owning, Refreshing, Leaving
  <1>0. /\ pc \in [Watchdog -> Phase] /\ DOMAIN call = Watchdog
        /\ reason \in [Watchdog -> {"none", "conflict", "lost", "ended", "exception"}]
    BY DEF TypeOK
  <1>1. ASSUME NEW w \in Watchdog, ClaimRead(w) PROVE ClaimInv'
    BY <1>0, <1>1 DEF ClaimRead
  <1>2. ASSUME NEW w \in Watchdog, Refused(w) PROVE ClaimInv'
    BY <1>0, <1>2 DEF Refused
  <1>3. ASSUME NEW w \in Watchdog, BeginWrite(w) PROVE ClaimInv'
    BY <1>0, <1>3 DEF BeginWrite
  <1>4. ASSUME NEW w \in Watchdog, EndWrite(w) PROVE ClaimInv'
    <2>1. /\ call[w].child \in Session \cup {NoSession}
          /\ call[w].since \in 0 .. AgeCap
      BY DEF TypeOK
    <2>2. file'.active => file'.owner = w
      BY <1>4, <2>1, ClaimedValues DEF EndWrite, Filled
    <2> QED
      BY <1>0, <1>4, <2>2 DEF EndWrite
  <1>5. ASSUME NEW w \in Watchdog,
               LaunchSession(w) \/ AttachSession(w) \/ RefreshRead(w)
        PROVE  ClaimInv'
    BY <1>0, <1>5 DEF LaunchSession, AttachSession, RefreshRead
  <1>6. ASSUME NEW w \in Watchdog, LoseOwnership(w) PROVE ClaimInv'
    <2>1. call[w].read.active /\ call[w].read.owner # w
      BY <1>6 DEF LoseOwnership, MayClaim, owner_lease_is_live
    <2> QED
      BY <1>0, <1>6, <2>1 DEF LoseOwnership
  <1>7. ASSUME NEW w \in Watchdog,
               RestartExited(w) \/ RestartStalled(w) \/ NextPoll(w)
        PROVE  ClaimInv'
    BY <1>0, <1>7 DEF RestartExited, RestartStalled, NextPoll
  <1>8. ASSUME NEW w \in Watchdog, Finish(w) \/ Exception(w) PROVE ClaimInv'
    BY <1>0, <1>8 DEF Finish, Exception
  <1>9. ASSUME NEW w \in Watchdog, Teardown(w) \/ ReleaseBegin(w) PROVE ClaimInv'
    BY <1>0, <1>9 DEF Teardown, ReleaseBegin
  <1>10. ASSUME NEW w \in Watchdog, ReleaseEnd(w) PROVE ClaimInv'
    <2>1. ~ file'.active
      BY <1>10, ReleasedValues DEF ReleaseEnd, Filled
    <2> QED
      BY <1>0, <1>10, <2>1 DEF ReleaseEnd
  <1>11. ASSUME NEW w \in Watchdog, Kill(w) PROVE ClaimInv'
    BY <1>0, <1>11 DEF Kill, PidLive, Over
  <1>12. CASE Tick
    <2>1. /\ file'.active = file.active /\ file'.owner = file.owner
          /\ UNCHANGED <<pc, reason, holder>>
      BY <1>12, OlderKeeps DEF Tick, TypeOK
    <2>2. \A w \in Watchdog : /\ call'[w].read.active = call[w].read.active
                              /\ call'[w].read.owner = call[w].read.owner
      <3> TAKE w \in Watchdog
      <3>1. call'[w].read = OlderLease(call[w].read)
        BY <1>12 DEF Tick, TypeOK
      <3> QED
        BY <3>1, OlderKeeps DEF TypeOK
    <2> QED
      BY <2>1, <2>2
  <1>13. ASSUME NEW s \in codex, CodexExit(s) PROVE ClaimInv'
    BY <1>13 DEF CodexExit
  <1>14. CASE UNCHANGED vars
    BY <1>14 DEF vars
  <1> QED
    BY <1>1, <1>2, <1>3, <1>4, <1>5, <1>6, <1>7, <1>8, <1>9, <1>10, <1>11,
       <1>12, <1>13, <1>14 DEF Next, Step

LEMMA ClaimInvariant == Spec => []ClaimInv
  <1>1. Init => ClaimInv
    BY LeaseValues DEF Init, ClaimInv, Claiming, Owning, Refreshing
  <1> QED
    BY <1>1, ClaimStep, TypeCorrect, PTL DEF Spec

\* Whatever races, tears and dies: the watchdog that claimed last is never the
\* one that gives up for lost ownership.
THEOREM LastClaimStays == Spec => []LastClaimNeverOusted
  <1>1. ClaimInv => LastClaimNeverOusted
    BY DEF ClaimInv, LastClaimNeverOusted
  <1> QED
    BY <1>1, ClaimInvariant, PTL

\* An active lease names a watchdog that runs the campaign, is about to release
\* it, or was killed.
THEOREM LeaseNamesOwner == Spec => []ActiveLeaseNamesOwner
  <1>1. TypeOK /\ ClaimInv => ActiveLeaseNamesOwner
    BY DEF TypeOK, ClaimInv, ActiveLeaseNamesOwner, Leaving, Owning, Refreshing
  <1> QED
    BY <1>1, ClaimInvariant, TypeCorrect, PTL

-----------------------------------------------------------------------------
(* Refinement.                                                             *)

\* The abstract standings of a step in which one watchdog moves.
LEMMA StandingChange ==
    ASSUME NEW w \in Watchdog, NEW X,
           \A v \in Watchdog \ {w} : pc'[v] = pc[v] /\ reason'[v] = reason[v],
           StandingOf(w)' = X
    PROVE  [v \in Watchdog |-> StandingOf(v)]' =
              [[v \in Watchdog |-> StandingOf(v)] EXCEPT ![w] = X]
  BY DEF StandingOf

LEMMA RefinementStep ==
    TypeOK /\ ClaimInv /\ [Next]_vars
        => [Ownership!Next]_<<[w \in Watchdog |-> StandingOf(w)], holder>>
  <1> SUFFICES ASSUME TypeOK, ClaimInv, [Next]_vars
               PROVE  [Ownership!Next]_<<[w \in Watchdog |-> StandingOf(w)], holder>>
    OBVIOUS
  <1> DEFINE st == [w \in Watchdog |-> StandingOf(w)]
             Stutters == st' = st /\ holder' = holder
  <1>0. /\ pc \in [Watchdog -> Phase]
        /\ reason \in [Watchdog -> {"none", "conflict", "lost", "ended", "exception"}]
    BY DEF TypeOK
  <1>1. ASSUME NEW w \in Watchdog, Refused(w) PROVE Ownership!Refuse(w)
    <2>1. StandingOf(w) = "waiting" /\ StandingOf(w)' = "refused"
      BY <1>0, <1>1 DEF Refused, Goto, StandingOf, Claiming, Owning, Refreshing
    <2>2. holder # NoWatchdog /\ UNCHANGED holder
      BY <1>1 DEF Refused, MayClaim, owner_lease_is_live, ClaimInv, history
    <2>3. st' = [st EXCEPT ![w] = "refused"]
      BY <1>0, <1>1, <2>1, StandingChange DEF Refused, Goto
    <2> QED
      BY <2>1, <2>2, <2>3 DEF Ownership!Refuse, Ownership!Become
  <1>2. ASSUME NEW w \in Watchdog, EndWrite(w)
        PROVE  Ownership!Acquire(w) \/ Ownership!Renew(w)
    <2>1. StandingOf(w)' = "owner" /\ holder' = w
      BY <1>0, <1>2 DEF EndWrite, Goto, StandingOf, Claiming, Owning, Refreshing
    <2>2. st' = [st EXCEPT ![w] = "owner"]
      BY <1>0, <1>2, <2>1, StandingChange DEF EndWrite, Goto
    <2>3. StandingOf(w) \in {"waiting", "owner"}
      BY <1>2 DEF EndWrite, StandingOf, Claiming, Owning, Refreshing
    <2> QED
      BY <2>1, <2>2, <2>3
      DEF Ownership!Acquire, Ownership!Renew, Ownership!Become
  <1>3. ASSUME NEW w \in Watchdog, LoseOwnership(w) PROVE Ownership!Oust(w)
    <2>1. call[w].read.active /\ call[w].read.owner # w /\ UNCHANGED holder
      BY <1>3 DEF LoseOwnership, MayClaim, owner_lease_is_live, history
    <2>2. holder # w
      BY <1>3, <2>1 DEF LoseOwnership, ClaimInv
    <2>3. StandingOf(w) = "owner" /\ StandingOf(w)' = "ousted"
      BY <1>0, <1>3 DEF LoseOwnership, Goto, StandingOf, Claiming, Owning, Refreshing
    <2>4. st' = [st EXCEPT ![w] = "ousted"]
      BY <1>0, <1>3, <2>3, StandingChange DEF LoseOwnership, Goto
    <2> QED
      BY <2>1, <2>2, <2>3, <2>4 DEF Ownership!Oust, Ownership!Become
  <1>4. ASSUME NEW w \in Watchdog, Finish(w) \/ Exception(w)
        PROVE  Ownership!Leave(w)
    <2>1. StandingOf(w) = "owner" /\ StandingOf(w)' = "left" /\ UNCHANGED holder
      BY <1>0, <1>4 DEF Finish, Exception, Goto, StandingOf, Claiming, Owning,
                        Refreshing, history
    <2>2. st' = [st EXCEPT ![w] = "left"]
      BY <1>0, <1>4, <2>1, StandingChange DEF Finish, Exception, Goto
    <2> QED
      BY <2>1, <2>2 DEF Ownership!Leave, Ownership!Become
  <1>5. ASSUME NEW w \in Watchdog, Kill(w)
        PROVE  Ownership!Leave(w) \/ Stutters
    <2>1. /\ pc' = [pc EXCEPT ![w] = "dead"] /\ UNCHANGED <<reason, holder>>
          /\ pc[w] \notin {"new", "stopped", "dead"}
      BY <1>5 DEF Kill, Goto, PidLive, Over, history
    <2>2. reason[w] # "conflict"
      BY <2>1 DEF ClaimInv
    <2>3. CASE pc[w] \in Claiming \cup Owning
      <3>1. StandingOf(w) \in {"waiting", "owner"} /\ StandingOf(w)' = "left"
        BY <1>0, <2>1, <2>3 DEF StandingOf, Claiming, Owning, Refreshing, ClaimInv
      <3>2. st' = [st EXCEPT ![w] = "left"]
        BY <1>0, <2>1, <3>1, StandingChange
      <3> QED
        BY <2>1, <3>1, <3>2 DEF Ownership!Leave, Ownership!Become
    <2>4. CASE pc[w] \notin Claiming \cup Owning
      BY <1>0, <2>1, <2>4 DEF StandingOf, Claiming, Owning, Refreshing
    <2> QED
      BY <2>3, <2>4
  <1>6. ASSUME NEW w \in Watchdog,
               ClaimRead(w) \/ BeginWrite(w) \/ LaunchSession(w) \/ AttachSession(w)
        PROVE  Stutters
    BY <1>0, <1>6 DEF ClaimRead, BeginWrite, LaunchSession, AttachSession, Goto,
                      history, StandingOf, Claiming, Owning, Refreshing
  <1>7. ASSUME NEW w \in Watchdog,
               RefreshRead(w) \/ RestartExited(w) \/ RestartStalled(w) \/ NextPoll(w)
        PROVE  Stutters
    BY <1>0, <1>7 DEF RefreshRead, RestartExited, RestartStalled, NextPoll, Goto,
                      history, StandingOf, Claiming, Owning, Refreshing
  <1>8. ASSUME NEW w \in Watchdog, Teardown(w) \/ ReleaseBegin(w) \/ ReleaseEnd(w)
        PROVE  Stutters
    BY <1>0, <1>8 DEF Teardown, ReleaseBegin, ReleaseEnd, Goto, history,
                      StandingOf, Claiming, Owning, Refreshing
  <1>9. ASSUME (\E s \in codex : CodexExit(s)) \/ Tick \/ UNCHANGED vars
        PROVE  Stutters
    BY <1>9 DEF CodexExit, Tick, vars, history, StandingOf
  <1> QED
    BY <1>1, <1>2, <1>3, <1>4, <1>5, <1>6, <1>7, <1>8, <1>9
    DEF Next, Step, Ownership!Next

\* The lease implements CampaignOwnership.
THEOREM Refinement == Spec => ImplementsOwnership
  <1>1. Init => Ownership!Init
    BY DEF Init, Ownership!Init, StandingOf
  <1> QED
    BY <1>1, RefinementStep, ClaimInvariant, TypeCorrect, PTL
    DEF Spec, ImplementsOwnership, Ownership!Spec

\* Who holds the campaign and whom its lease names agree, whatever races.
THEOREM LeaseTells == Spec => []LeaseTellsOwner
  BY LastClaimStays, LeaseNamesOwner, PTL DEF LeaseTellsOwner

-----------------------------------------------------------------------------
(* Sessions.  What a watchdog has recorded and is still alive is the       *)
(* session it holds a handle on; while nothing races, the file names it.   *)

\* Whatever races.
SessionInv ==
    /\ \A w \in Watchdog :
          /\ handle[w] <= started[w]
          /\ pc[w] \in {"new"} \cup Claiming => started[w] = 0
          /\ pc[w] \in Claiming => call[w].child = NoSession
          /\ pc[w] \in {"launch", "attach", "release", "releaseWrite"} => Mine(w) \notin codex
          /\ pc[w] \in Refreshing =>
                call[w].child \in {Mine(w), NoSession}
                /\ (Mine(w) \in codex => call[w].child = Mine(w))
    /\ \A s \in codex \cup recorded : s[2] <= started[s[1]]
    /\ \A s \in codex \cap recorded : s = Mine(s[1])

\* A recorded session that is alive is in the lease, or in one that is torn,
\* and belongs to the watchdog at work, if there is one.
RecordInv ==
    ~ raced => \A s \in codex \cap recorded :
        /\ file.kind = "torn" \/ (file.active /\ file.child = s)
        /\ \A w \in Watchdog : Engaged(w) => s[1] = w

LEMMA SessionValues ==
    /\ NoSession \notin Session
    /\ \A s \in Session : s = <<s[1], s[2]>> /\ s[1] \in Watchdog /\ s[2] \in 1 .. MaxSessions
    /\ \A w \in Watchdog : Mine(w)[1] = w /\ Mine(w)[2] = handle[w]
  BY OwnerLeaseAssumption DEF Session, NoSession, Mine

LEMMA SessionStep == TypeOK /\ SessionInv /\ [Next]_vars => SessionInv'
  <1> SUFFICES ASSUME TypeOK, SessionInv, [Next]_vars PROVE SessionInv'
    OBVIOUS
  <1> USE OwnerLeaseAssumption
  <1> USE DEF SessionInv, Goto, history, Claiming, Refreshing, Mine
  <1>0. /\ pc \in [Watchdog -> Phase] /\ DOMAIN call = Watchdog
        /\ started \in [Watchdog -> 0 .. MaxSessions]
        /\ handle \in [Watchdog -> 0 .. MaxSessions]
        /\ codex \subseteq Session /\ recorded \subseteq Session
        /\ NoCall.child = NoSession
    BY DEF TypeOK, NoCall
  <1>1. ASSUME NEW w \in Watchdog, ClaimRead(w) \/ RefreshRead(w) PROVE SessionInv'
    BY <1>0, <1>1 DEF ClaimRead, RefreshRead
  <1>2. ASSUME NEW w \in Watchdog, Refused(w) \/ BeginWrite(w) \/ LoseOwnership(w)
        PROVE  SessionInv'
    BY <1>0, <1>2 DEF Refused, BeginWrite, LoseOwnership
  <1>3. ASSUME NEW w \in Watchdog, EndWrite(w) PROVE SessionInv'
    <2>1. recorded' \subseteq recorded \cup {Mine(w)}
      BY <1>3 DEF EndWrite
    <2>2. \A s \in codex' \cup recorded' : s[2] <= started'[s[1]]
      BY <1>0, <1>3, <2>1, SessionValues DEF EndWrite
    <2>3. \A s \in codex' \cap recorded' : s = Mine(s[1])'
      BY <1>0, <1>3, <2>1, SessionValues DEF EndWrite
    <2>4. pc'[w] = "launch" => Mine(w) \notin codex
      BY <1>0, <1>3, SessionValues DEF EndWrite
    <2> QED
      BY <1>0, <1>3, <2>2, <2>3, <2>4 DEF EndWrite
  <1>4. ASSUME NEW w \in Watchdog, LaunchSession(w) PROVE SessionInv'
    <2>1. /\ codex' = codex \cup {<<w, started[w] + 1>>} /\ UNCHANGED <<recorded, handle, call>>
          /\ started' = [started EXCEPT ![w] = @ + 1] /\ pc' = [pc EXCEPT ![w] = "attach"]
          /\ pc[w] = "launch"
      BY <1>4 DEF LaunchSession
    <2>2. <<w, started[w] + 1>> \notin recorded /\ <<w, started[w] + 1>> # Mine(w)
      BY <1>0
    <2>3. \A s \in codex' \cup recorded' : s[2] <= started'[s[1]]
      BY <1>0, <2>1, SessionValues
    <2>4. \A s \in codex' \cap recorded' : s = Mine(s[1])'
      BY <2>1, <2>2
    <2>5. \A v \in Watchdog : v # w => Mine(v) # <<w, started[w] + 1>>
      OBVIOUS
    <2> QED
      BY <1>0, <2>1, <2>2, <2>3, <2>4, <2>5
  <1>5. ASSUME NEW w \in Watchdog, AttachSession(w) PROVE SessionInv'
    <2>1. \A s \in codex \cap recorded : s[1] # w
      BY <1>5 DEF AttachSession
    <2>2. \A s \in codex' \cap recorded' : s = Mine(s[1])'
      BY <1>0, <1>5, <2>1 DEF AttachSession
    <2> QED
      BY <1>0, <1>5, <2>2 DEF AttachSession
  <1>6. ASSUME NEW w \in Watchdog, RestartExited(w) \/ RestartStalled(w) \/ NextPoll(w)
        PROVE  SessionInv'
    BY <1>0, <1>6 DEF RestartExited, RestartStalled, NextPoll
  <1>7. ASSUME NEW w \in Watchdog, Finish(w) \/ Exception(w) PROVE SessionInv'
    BY <1>0, <1>7 DEF Finish, Exception
  <1>8. ASSUME NEW w \in Watchdog, Teardown(w) \/ ReleaseBegin(w) \/ ReleaseEnd(w)
        PROVE  SessionInv'
    BY <1>0, <1>8 DEF Teardown, ReleaseBegin, ReleaseEnd
  <1>9. ASSUME NEW w \in Watchdog, Kill(w) PROVE SessionInv'
    BY <1>0, <1>9 DEF Kill
  <1>10. ASSUME NEW s \in codex, CodexExit(s) PROVE SessionInv'
    BY <1>0, <1>10 DEF CodexExit
  <1>11. CASE Tick
    <2>1. \A w \in Watchdog : call'[w].child = call[w].child
      BY <1>11 DEF Tick, TypeOK
    <2> QED
      BY <1>11, <2>1 DEF Tick
  <1>12. CASE UNCHANGED vars
    BY <1>12 DEF vars
  <1> QED
    BY <1>1, <1>2, <1>3, <1>4, <1>5, <1>6, <1>7, <1>8, <1>9, <1>10, <1>11, <1>12
    DEF Next, Step

LEMMA SessionInvariant == Spec => []SessionInv
  <1>1. Init => SessionInv
    BY OwnerLeaseAssumption DEF Init, SessionInv, Mine, Claiming, Refreshing
  <1> QED
    BY <1>1, SessionStep, TypeCorrect, PTL DEF Spec

LEMMA RecordStep ==
    /\ TypeOK /\ ClaimInv /\ SessionInv /\ RecordInv /\ SessionsOnRecord
    /\ ExclusiveInv /\ ExclusiveUnlessRaced'
    /\ [Next]_vars
    => RecordInv' /\ SessionsOnRecord'
  <1> SUFFICES ASSUME TypeOK, ClaimInv, SessionInv, RecordInv, SessionsOnRecord,
                      ExclusiveInv, ExclusiveUnlessRaced', [Next]_vars
               PROVE  RecordInv' /\ SessionsOnRecord'
    OBVIOUS
  <1> DEFINE Both == RecordInv /\ SessionsOnRecord
  <1>0. /\ pc \in [Watchdog -> Phase] /\ DOMAIN call = Watchdog
        /\ handle \in [Watchdog -> 0 .. MaxSessions]
        /\ codex \subseteq Session /\ recorded \subseteq Session
    BY DEF TypeOK
  \* Steps after which no more is alive on record, nobody new is engaged, and
  \* nobody new is at work.
  <1> DEFINE Keeps ==
        /\ UNCHANGED raced /\ file'.kind = file.kind /\ file'.active = file.active
        /\ file'.child = file.child
        /\ codex' \cap recorded' \subseteq codex \cap recorded
        /\ \A v \in Watchdog : Engaged(v)' => Engaged(v)
        /\ \A v \in Watchdog : pc'[v] = "work" => pc[v] = "work" /\ Mine(v)' = Mine(v)
        /\ \A v \in Watchdog : pc'[v] = "work" /\ Mine(v) \in codex' => Mine(v) \in codex
  <1>1. ASSUME Keeps PROVE Both'
    BY <1>1 DEF RecordInv, SessionsOnRecord, OneRecordedSession, WorkingSessionRecorded
  <1>2. ASSUME NEW w \in Watchdog, BeginWrite(w) PROVE Both'
    <2>1. /\ file' = Torn /\ file'.kind = "torn" /\ UNCHANGED <<codex, recorded, handle>>
          /\ pc[w] \in {"claim", "refresh"} /\ pc'[w] \in {"claimWrite", "refreshWrite"}
          /\ Engaged(w)'
          /\ \A v \in Watchdog : v # w => pc'[v] = pc[v]
      BY <1>0, <1>2, LeaseValues DEF BeginWrite, Goto, Engaged, Owning, Refreshing
    <2>2. ASSUME ~ raced'
          PROVE  ~ raced /\ call[w].read = file /\ file.kind # "torn"
      BY <1>2, <2>2 DEF BeginWrite, TypeOK
    <2>3. ASSUME ~ raced', NEW v \in Watchdog, Engaged(v)' PROVE v = w
      BY <2>1, <2>3 DEF ExclusiveUnlessRaced
    <2>4. ASSUME ~ raced', NEW s \in codex \cap recorded PROVE s[1] = w
      <3>1. file.active /\ file.child = s
        BY <2>2, <2>4 DEF RecordInv
      <3>2. owner_lease_is_live(call[w].read)
        BY <2>2, <2>4, <3>1 DEF owner_lease_is_live
      <3>3. file.owner = w
        BY <1>2, <2>2, <2>4, <3>2 DEF BeginWrite, MayClaim
      <3>4. pc[w] = "refresh"
        BY <2>1, <3>1, <3>3 DEF ClaimInv, Owning, Refreshing, Leaving
      <3>5. ~ raced /\ Engaged(w)
        BY <2>2, <2>4, <3>4 DEF Engaged, Owning, Refreshing
      <3> QED
        BY <3>5, <2>4 DEF RecordInv
    <2>5. RecordInv'
      BY <2>1, <2>3, <2>4 DEF RecordInv
    <2>6. OneRecordedSession'
      BY <2>1, <2>2 DEF SessionsOnRecord, OneRecordedSession
    <2>7. WorkingSessionRecorded'
      <3>1. ASSUME NEW v \in Watchdog, ~ raced', pc'[v] = "work" PROVE FALSE
        BY <2>1, <2>3, <3>1 DEF Engaged, Owning
      <3> QED
        BY <3>1 DEF WorkingSessionRecorded
    <2> QED
      BY <2>5, <2>6, <2>7 DEF SessionsOnRecord
  <1>3. ASSUME NEW w \in Watchdog, EndWrite(w) PROVE Both'
    <2>1. /\ Engaged(w) /\ Engaged(w)' /\ UNCHANGED <<codex, handle, raced>>
          /\ recorded' \subseteq recorded \cup {call[w].child}
          /\ pc[w] \in {"claimWrite", "refreshWrite"}
          /\ Mine(w) \in recorded' => Mine(w) \in recorded \cup {call[w].child}
      BY <1>0, <1>3 DEF EndWrite, Goto, Engaged, Owning, Refreshing
    <2>2. ASSUME ~ raced PROVE file' = Claimed(w, call[w].child, call[w].since)
      BY <1>3, <2>1, <2>2 DEF ExclusiveInv, EndWrite, Filled, Writing
    <2>3. ASSUME ~ raced PROVE file'.active /\ file'.child = call[w].child
      <3>1. /\ call[w].child \in Session \cup {NoSession}
            /\ call[w].since \in 0 .. AgeCap
        BY DEF TypeOK
      <3> QED
        BY <2>2, <2>3, <3>1, ClaimedValues
    <2>4. ASSUME NEW s \in codex, s = Mine(w) PROVE call[w].child = s
      <3>1. CASE pc[w] = "claimWrite"
        BY <1>0, <2>4, <3>1, SessionValues, OwnerLeaseAssumption DEF SessionInv, Claiming
      <3>2. CASE pc[w] = "refreshWrite"
        BY <2>4, <3>2 DEF SessionInv, Refreshing
      <3> QED
        BY <2>1, <3>1, <3>2
    <2>5. ASSUME ~ raced, NEW s \in codex' \cap recorded' PROVE s = Mine(w)
      <3>1. CASE s \in recorded
        BY <2>1, <2>5, <3>1 DEF RecordInv, SessionInv
      <3>2. CASE s = call[w].child /\ s \notin recorded
        BY <1>0, <2>1, <2>5, <3>2, SessionValues DEF SessionInv, Claiming, Refreshing
      <3> QED
        BY <2>1, <2>5, <3>1, <3>2
    <2>6. RecordInv'
      <3>1. ASSUME ~ raced', NEW s \in codex' \cap recorded'
            PROVE  /\ file'.active /\ file'.child = s
                   /\ s[1] = w
        BY <2>1, <2>3, <2>4, <2>5, <3>1, SessionValues
      <3>2. ASSUME ~ raced', NEW v \in Watchdog, Engaged(v)' PROVE v = w
        BY <2>1, <3>2 DEF ExclusiveUnlessRaced
      <3> QED
        BY <3>1, <3>2 DEF RecordInv
    <2>7. OneRecordedSession'
      BY <2>1, <2>5 DEF OneRecordedSession
    <2>8. WorkingSessionRecorded'
      <3>1. ASSUME NEW v \in Watchdog, ~ raced', pc'[v] = "work", Mine(v)' \in codex'
            PROVE  file'.child = Mine(v)'
        <4>1. Engaged(v)'
          BY <3>1 DEF Engaged, Owning
        <4>2. v = w
          BY <2>1, <3>1, <4>1 DEF ExclusiveUnlessRaced
        <4> QED
          BY <2>1, <2>3, <2>4, <3>1, <4>2 DEF Mine
      <3> QED
        BY <3>1 DEF WorkingSessionRecorded
    <2> QED
      BY <2>6, <2>7, <2>8 DEF SessionsOnRecord
  <1>4. ASSUME NEW w \in Watchdog, ReleaseBegin(w) \/ ReleaseEnd(w) PROVE Both'
    <2>1. /\ UNCHANGED <<codex, recorded, raced, handle>> /\ Engaged(w)
          /\ \A v \in Watchdog : v # w => pc'[v] = pc[v]
          /\ pc[w] \in {"release", "releaseWrite"} /\ pc'[w] # "work"
          /\ \A v \in Watchdog : Engaged(v)' => Engaged(v)
      BY <1>0, <1>4 DEF ReleaseBegin, ReleaseEnd, Goto, history, Engaged, Leaving, Owning,
                        Refreshing
    <2>2. ~ raced => codex \cap recorded = {}
      BY <2>1 DEF RecordInv, SessionInv
    <2>3. ~ raced => \A v \in Watchdog : pc'[v] # "work"
      BY <2>1 DEF ExclusiveInv, ExclusiveUnlessRaced, Engaged, Owning
    <2> QED
      BY <2>1, <2>2, <2>3
      DEF RecordInv, SessionsOnRecord, OneRecordedSession, WorkingSessionRecorded
  <1>5. ASSUME NEW w \in Watchdog, LaunchSession(w) PROVE Keeps
    <2>1. <<w, started[w] + 1>> \notin recorded
      BY <1>0, OwnerLeaseAssumption DEF SessionInv, TypeOK
    <2>2. /\ UNCHANGED <<raced, file, recorded, handle>>
          /\ codex' = codex \cup {<<w, started[w] + 1>>}
          /\ pc' = [pc EXCEPT ![w] = "attach"] /\ pc[w] = "launch"
      BY <1>5 DEF LaunchSession, Goto, history
    <2> QED
      BY <1>0, <2>1, <2>2 DEF Engaged, Owning, Mine
  <1>6. ASSUME NEW w \in Watchdog,
               ClaimRead(w) \/ Refused(w) \/ AttachSession(w) \/ RefreshRead(w)
               \/ LoseOwnership(w)
        PROVE  Keeps
    BY <1>0, <1>6 DEF ClaimRead, Refused, AttachSession, RefreshRead, LoseOwnership, Goto,
                      history, Engaged, Owning, Refreshing, Leaving, Mine
  <1>7. ASSUME NEW w \in Watchdog,
               RestartExited(w) \/ RestartStalled(w) \/ NextPoll(w) \/ Finish(w)
               \/ Exception(w) \/ Teardown(w)
        PROVE  Keeps
    BY <1>0, <1>7 DEF RestartExited, RestartStalled, NextPoll, Finish, Exception, Teardown,
                      Goto, history, Engaged, Owning, Refreshing, Leaving, Mine
  <1>8. ASSUME NEW w \in Watchdog, Kill(w) PROVE Keeps
    BY <1>0, <1>8 DEF Kill, Goto, history, Engaged, Owning, Refreshing, Leaving, Mine
  <1>9. ASSUME NEW s \in codex, CodexExit(s) PROVE Keeps
    BY <1>9 DEF CodexExit, history, Engaged, Mine
  <1>10. CASE Tick
    <2>1. /\ file'.kind = file.kind /\ file'.active = file.active /\ file'.child = file.child
      BY <1>10, OlderKeeps DEF Tick, TypeOK
    <2> QED
      BY <1>1, <1>10, <2>1 DEF Tick, history, Engaged, Mine
  <1>11. CASE UNCHANGED vars
    BY <1>1, <1>11 DEF vars, Engaged, Mine
  <1> QED
    BY <1>1, <1>2, <1>3, <1>4, <1>5, <1>6, <1>7, <1>8, <1>9, <1>10, <1>11
    DEF Next, Step

\* Unless a claim raced, a watchdog that is killed while it works leaves a lease
\* that names its session, and at most one recorded session runs, for any number
\* of watchdogs, kills, exceptions and restarts.
THEOREM SessionsRecorded == Spec => []SessionsOnRecord
  <1>1. Init => RecordInv /\ SessionsOnRecord
    BY DEF Init, RecordInv, SessionsOnRecord, OneRecordedSession, WorkingSessionRecorded
  <1> QED
    BY <1>1, RecordStep, TypeCorrect, ClaimInvariant, SessionInvariant, ExclusiveInvariant,
       Exclusion, PTL DEF Spec

=============================================================================
