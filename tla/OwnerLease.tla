------------------------------ MODULE OwnerLease ------------------------------
(***************************************************************************)
(* The campaign owner lease, control/owner-lease.json: how the watchdog    *)
(* processes of one campaign claim it, refresh it on every poll and        *)
(* release it, and what becomes of the codex session each of them wraps.   *)
(*                                                                         *)
(* The lease is a JSON file.  claim_owner_lease reads it, judges it and    *)
(* overwrites it, with no lock around the three; write_text truncates the  *)
(* file before it fills it, and a reader that meets the empty file takes   *)
(* it for no lease at all.  A read, a truncation and a fill are therefore  *)
(* steps of their own here.  The pid probes and the heartbeat age are      *)
(* judged in the step that truncates: a pid found dead stays dead and a    *)
(* heartbeat found stale stays stale, so judging a lease dead earlier      *)
(* allows nothing more.                                                    *)
(*                                                                         *)
(* A watchdog process may be killed at any point.  Its codex session is a  *)
(* process group of its own (setsid) and survives it.  Pids are not        *)
(* reused.  sessionId matches exactly when ownerPid does: it is created by *)
(* the session the process itself started.                                 *)
(***************************************************************************)
EXTENDS Naturals, FiniteSets

CONSTANTS
    Watchdog,      \* the watchdog processes ever started on the campaign root
    NoWatchdog,    \* the owner named by a lease that cannot be read
    MaxSessions,   \* bound: codex sessions one watchdog starts
    LeaseSeconds   \* leaseSeconds, in clock ticks

ASSUME OwnerLeaseAssumption ==
    /\ NoWatchdog \notin Watchdog
    /\ MaxSessions \in Nat \ {0}
    /\ LeaseSeconds \in Nat

VARIABLES
    file,      \* the content of owner-lease.json
    pc,        \* where each watchdog process is in run_watchdog
    call,      \* the claim or refresh in progress: what it read, how long ago
    started,   \* how many codex sessions each watchdog has spawned
    handle,    \* the session launch_result stands for; 0 while it is None
    codex,     \* the codex sessions that are running
    reason,    \* why a watchdog stopped: its stallReason
    holder,    \* history: the last watchdog to fill the file with its claim
    recorded,  \* history: the sessions a lease has named as its child
    raced      \* history: a claim has overwritten a lease it had not read

vars == <<file, pc, call, started, handle, codex, reason,
          holder, recorded, raced>>
history == <<holder, recorded, raced>>

-----------------------------------------------------------------------------
Session   == Watchdog \X (1 .. MaxSessions)
NoSession == <<NoWatchdog, 0>>
AgeCap    == LeaseSeconds + 1      \* any older heartbeat is as stale as this

Lease == [kind   : {"missing", "torn", "whole"},
          active : BOOLEAN,
          owner  : Watchdog \cup {NoWatchdog},
          child  : Session \cup {NoSession},
          age    : 0 .. AgeCap]

\* What _read_json answers None for, so that the caller goes on with {}: no
\* file, or one that a writer has truncated or that is not JSON.
Unreadable(kind) == [kind |-> kind, active |-> FALSE, owner |-> NoWatchdog,
                     child |-> NoSession, age |-> AgeCap]
Missing == Unreadable("missing")
Torn    == Unreadable("torn")

Claimed(w, child, age) == [kind |-> "whole", active |-> TRUE, owner |-> w,
                           child |-> child, age |-> age]
\* Mutant: the release forgets to clear active.
StillActive(w) == [kind |-> "whole", active |-> TRUE, owner |-> w,
                   child |-> NoSession, age |-> AgeCap]
Released(w) == [kind |-> "whole", active |-> FALSE, owner |-> w,
                child |-> NoSession, age |-> AgeCap]

NoCall == [read |-> Missing, since |-> AgeCap, child |-> NoSession]

Claiming   == {"claim", "claimWrite"}
Refreshing == {"refresh", "refreshWrite"}
Owning     == {"launch", "attach", "poll", "work"} \cup Refreshing
Leaving    == {"teardown", "release", "releaseWrite"}
Over       == {"stopped", "dead"}
Phase      == {"new"} \cup Claiming \cup Owning \cup Leaving \cup Over

PidLive(w) == w \in Watchdog /\ pc[w] \notin {"new"} \cup Over

\* The session a watchdog holds a process handle on.
Mine(w) == <<w, handle[w]>>

\* Mutants: the owner pid is not probed; a heartbeat of any age will do.
LiveByChildOrHeartbeat(lease) ==
    lease.active /\ (lease.child \in codex \/ lease.age <= LeaseSeconds)
LiveWhileActive(lease) == lease.active

owner_lease_is_live(lease) ==
    /\ lease.active
    /\ \/ PidLive(lease.owner)
       \/ lease.child \in codex
       \/ lease.age <= LeaseSeconds

\* Mutant: claim_owner_lease does not recognise its own lease.
MayClaimUnheld(w) == ~ owner_lease_is_live(call[w].read)

\* claim_owner_lease overwrites the lease it read unless that lease is live
\* and somebody else's.
MayClaim(w) ==
    ~ owner_lease_is_live(call[w].read) \/ call[w].read.owner = w

Older(n)      == IF n < AgeCap THEN n + 1 ELSE n
OlderLease(l) == [l EXCEPT !.age = Older(@)]

-----------------------------------------------------------------------------
Init ==
    /\ file = Missing
    /\ pc = [w \in Watchdog |-> "new"]
    /\ call = [w \in Watchdog |-> NoCall]
    /\ started = [w \in Watchdog |-> 0]
    /\ handle = [w \in Watchdog |-> 0]
    /\ codex = {}
    /\ reason = [w \in Watchdog |-> "none"]
    /\ holder = NoWatchdog
    /\ recorded = {}
    /\ raced = FALSE

Goto(w, phase) == pc' = [pc EXCEPT ![w] = phase]

-----------------------------------------------------------------------------
(* The claim that opens run_watchdog.                                      *)

\* A watchdog starts and claim_owner_lease reads the file.
ClaimRead(w) ==
    /\ pc[w] = "new"
    /\ Goto(w, "claim")
    /\ call' = [call EXCEPT ![w] =
                  [read |-> file, since |-> 0, child |-> NoSession]]
    /\ UNCHANGED <<file, started, handle, codex, reason, history>>

\* The lease it read is live and another's: owner_conflict, and it returns.
Refused(w) ==
    /\ pc[w] = "claim"
    /\ ~ MayClaim(w)
    /\ Goto(w, "stopped")
    /\ reason' = [reason EXCEPT ![w] = "conflict"]
    /\ call' = [call EXCEPT ![w] = NoCall]
    /\ UNCHANGED <<file, started, handle, codex, history>>

\* Opening the file for writing empties it.
BeginWrite(w) ==
    /\ \/ pc[w] = "claim" /\ Goto(w, "claimWrite")
       \/ pc[w] = "refresh" /\ Goto(w, "refreshWrite")
    /\ MayClaim(w)
    /\ file' = Torn
    /\ raced' = (raced \/ call[w].read # file \/ file.kind = "torn")
    /\ UNCHANGED <<call, started, handle, codex, reason, holder, recorded>>

\* A writer whose file another writer has filled since it was truncated
\* leaves the other's tail behind its own text when its text is shorter.
Filled(lease) == file' = lease \/ (file.kind # "torn" /\ file' = Torn)

\* The claim is written.  lastHeartbeatAt was taken before the file was read.
EndWrite(w) ==
    /\ \/ pc[w] = "claimWrite" /\ Goto(w, "launch")
       \/ pc[w] = "refreshWrite" /\ Goto(w, "work")
    /\ Filled(Claimed(w, call[w].child, call[w].since))
    /\ holder' = w
    /\ recorded' = recorded \cup ({call[w].child} \ {NoSession})
    /\ call' = [call EXCEPT ![w] = NoCall]
    /\ UNCHANGED <<started, handle, codex, reason, raced>>

-----------------------------------------------------------------------------
(* The watchdog's loop.                                                    *)

\* launch_codex_session spawns the session and then waits up to 30 seconds
\* for its session id before it returns the handle.
LaunchSession(w) ==
    /\ pc[w] = "launch"
    /\ started[w] < MaxSessions
    /\ started' = [started EXCEPT ![w] = @ + 1]
    /\ codex' = codex \cup {<<w, started[w] + 1>>}
    /\ Goto(w, "attach")
    /\ UNCHANGED <<file, call, handle, reason, history>>

AttachSession(w) ==
    /\ pc[w] = "attach"
    /\ handle' = [handle EXCEPT ![w] = started[w]]
    /\ Goto(w, "poll")
    /\ UNCHANGED <<file, call, started, codex, reason, history>>

\* Mutant: the refresh does not pass the pid of the child.
RefreshReadNoChild(w) ==
    /\ pc[w] = "poll"
    /\ Goto(w, "refresh")
    /\ call' = [call EXCEPT ![w] =
                  [read |-> file, since |-> 0, child |-> NoSession]]
    /\ UNCHANGED <<file, started, handle, codex, reason, history>>

\* refresh_owner_lease is claim_owner_lease again, with the pid of the child
\* as it is polled when the arguments are built.
RefreshRead(w) ==
    /\ pc[w] = "poll"
    /\ Goto(w, "refresh")
    /\ call' = [call EXCEPT ![w] =
                  [read  |-> file,
                   since |-> 0,
                   child |-> IF Mine(w) \in codex THEN Mine(w) ELSE NoSession]]
    /\ UNCHANGED <<file, started, handle, codex, reason, history>>

\* "owner lease refresh lost ownership": the RuntimeError ends the loop.
LoseOwnership(w) ==
    /\ pc[w] = "refresh"
    /\ ~ MayClaim(w)
    /\ Goto(w, "teardown")
    /\ reason' = [reason EXCEPT ![w] = "lost"]
    /\ call' = [call EXCEPT ![w] = NoCall]
    /\ UNCHANGED <<file, started, handle, codex, history>>

\* The session exited; the restart budget allows another one.
RestartExited(w) ==
    /\ pc[w] = "work"
    /\ Mine(w) \notin codex
    /\ started[w] < MaxSessions
    /\ Goto(w, "launch")
    /\ UNCHANGED <<file, call, started, handle, codex, reason, history>>

\* The campaign stalls and the session is silent: it is killed and replaced.
RestartStalled(w) ==
    /\ pc[w] = "work"
    /\ Mine(w) \in codex
    /\ started[w] < MaxSessions
    /\ codex' = codex \ {Mine(w)}
    /\ Goto(w, "launch")
    /\ UNCHANGED <<file, call, started, handle, reason, history>>

\* An iteration ends with the session still running: sleep and poll again.
NextPoll(w) ==
    /\ pc[w] = "work"
    /\ Mine(w) \in codex
    /\ Goto(w, "poll")
    /\ UNCHANGED <<file, call, started, handle, codex, reason, history>>

\* The campaign is terminal, or the restart budget is exhausted.
Finish(w) ==
    /\ pc[w] = "work"
    /\ Goto(w, "teardown")
    /\ reason' = [reason EXCEPT ![w] = "ended"]
    /\ UNCHANGED <<file, call, started, handle, codex, history>>

\* Anything raised inside the try block, an operator's Ctrl-C included.
Exception(w) ==
    /\ pc[w] \in Owning
    /\ Goto(w, "teardown")
    /\ reason' = [reason EXCEPT ![w] = "exception"]
    /\ call' = [call EXCEPT ![w] = NoCall]
    /\ UNCHANGED <<file, started, handle, codex, history>>

-----------------------------------------------------------------------------
(* The end of run_watchdog.                                                *)

\* finally: the session of launch_result is terminated, whichever that is.
Teardown(w) ==
    /\ pc[w] = "teardown"
    /\ codex' = codex \ {Mine(w)}
    /\ Goto(w, "release")
    /\ UNCHANGED <<file, call, started, handle, reason, history>>

\* release_owner_lease writes whatever the file says and whoever it names.
ReleaseBegin(w) ==
    /\ pc[w] = "release"
    /\ file' = Torn
    /\ Goto(w, "releaseWrite")
    /\ UNCHANGED <<call, started, handle, codex, reason, history>>

ReleaseEnd(w) ==
    /\ pc[w] = "releaseWrite"
    /\ Filled(Released(w))
    /\ Goto(w, "stopped")
    /\ UNCHANGED <<call, started, handle, codex, reason, history>>

-----------------------------------------------------------------------------
(* The environment.                                                        *)

\* SIGKILL, SIGTERM, out of memory, or an exception outside the try block.
Kill(w) ==
    /\ PidLive(w)
    /\ Goto(w, "dead")
    /\ call' = [call EXCEPT ![w] = NoCall]
    /\ UNCHANGED <<file, started, handle, codex, reason, history>>

CodexExit(s) ==
    /\ s \in codex
    /\ codex' = codex \ {s}
    /\ UNCHANGED <<file, pc, call, started, handle, reason, history>>

Tick ==
    /\ file' = OlderLease(file)
    /\ call' = [w \in Watchdog |->
                  [call[w] EXCEPT !.read = OlderLease(@), !.since = Older(@)]]
    /\ UNCHANGED <<pc, started, handle, codex, reason, history>>

-----------------------------------------------------------------------------
Step(w) ==
    \/ ClaimRead(w)     \/ Refused(w)        \/ BeginWrite(w)   \/ EndWrite(w)
    \/ LaunchSession(w) \/ AttachSession(w)  \/ RefreshRead(w)
    \/ LoseOwnership(w) \/ RestartExited(w)  \/ RestartStalled(w)
    \/ NextPoll(w)      \/ Finish(w)         \/ Exception(w)
    \/ Teardown(w)      \/ ReleaseBegin(w)   \/ ReleaseEnd(w)   \/ Kill(w)

Next ==
    \/ \E w \in Watchdog : Step(w)
    \/ \E s \in codex : CodexExit(s)
    \/ Tick

Spec == Init /\ [][Next]_vars

-----------------------------------------------------------------------------
(* What the lease promises.                                                *)

\* The variables have their types.
TypeOK ==
    /\ file \in Lease
    /\ pc \in [Watchdog -> Phase]
    /\ call \in [Watchdog -> [read  : Lease,
                              since : 0 .. AgeCap,
                              child : Session \cup {NoSession}]]
    /\ started \in [Watchdog -> 0 .. MaxSessions]
    /\ handle \in [Watchdog -> 0 .. MaxSessions]
    /\ codex \subseteq Session
    /\ reason \in [Watchdog -> {"none", "conflict", "lost", "ended", "exception"}]
    /\ holder \in Watchdog \cup {NoWatchdog}
    /\ recorded \subseteq Session
    /\ raced \in BOOLEAN

\* A watchdog that believes the campaign is its own, from the moment it
\* decides to overwrite the lease until its release is written.
Engaged(w) == pc[w] \in {"claimWrite"} \cup Owning \cup Leaving

\* As long as every claim and every refresh overwrites exactly the lease it
\* read (a compare-and-swap, which the code does not have), at most one
\* watchdog owns the campaign, whatever is killed, raised or restarted.
ExclusiveUnlessRaced ==
    ~ raced => \A v, w \in Watchdog : Engaged(v) /\ Engaged(w) => v = w

\* Under the same proviso at most one codex session whose pid a lease has
\* recorded runs: a killed watchdog's session holds the lease for itself.
OneRecordedSession ==
    ~ raced => \A s, t \in codex \cap recorded : s = t

\* Races included: a watchdog gives up for "lost ownership" only to another
\* that claimed after it, so a conflict never costs the campaign the watchdog
\* that claimed last.
LastClaimNeverOusted ==
    \A w \in Watchdog : reason[w] = "lost" => w # holder

\* Races included: an active lease names a watchdog that is running the
\* campaign, or is on its way to release it, or was killed; never one that
\* was refused, ousted or done.
ActiveLeaseNamesOwner ==
    file.active =>
        /\ pc[file.owner] \in Owning \cup Leaving \cup {"dead"}
        /\ reason[file.owner] \in {"none", "ended", "exception"}

\* Between the refresh of an iteration and the next restart the lease names
\* the session that runs, so that killing the watchdog there leaves it held.
WorkingSessionRecorded ==
    \A w \in Watchdog :
        ~ raced /\ pc[w] = "work" /\ Mine(w) \in codex => file.child = Mine(w)

\* Once no watchdog and no codex session runs, the lease stops being live: a
\* crash never locks the campaign root for good.
Abandoned == codex = {} /\ \A w \in Watchdog : ~ PidLive(w)
AbandonedLeaseExpires == Abandoned ~> ~ owner_lease_is_live(file)

\* Who holds the lease and whom it names agree.
LeaseTellsOwner == LastClaimNeverOusted /\ ActiveLeaseNamesOwner

\* The sessions that run are one at most, and on record while it works.
SessionsOnRecord == OneRecordedSession /\ WorkingSessionRecorded

-----------------------------------------------------------------------------
(* The lease implements the abstract promise of CampaignOwnership.         *)

StandingOf(w) ==
    IF pc[w] \in {"new"} \cup Claiming THEN "waiting"
    ELSE IF pc[w] \in Owning           THEN "owner"
    ELSE IF reason[w] = "conflict"     THEN "refused"
    ELSE IF reason[w] = "lost"         THEN "ousted"
    ELSE "left"

Ownership == INSTANCE CampaignOwnership
                 WITH standing <- [w \in Watchdog |-> StandingOf(w)]

\* Whatever races, crashes and torn reads do: nobody is refused on a campaign
\* never claimed, and nobody is ousted but by a later claim.
ImplementsOwnership == Ownership!Spec

\* Time passes whatever the processes do.
FairSpec == Spec /\ WF_vars(Tick)

=============================================================================
