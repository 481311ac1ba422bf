--------------------------- MODULE CampaignOwnership ---------------------------
(***************************************************************************)
(* What the owner lease promises a campaign, without files, pids or        *)
(* clocks: who runs it, and who was the last to lay claim to it.  Several  *)
(* watchdogs may run the campaign at once, for the lease does not exclude  *)
(* it; but a newcomer is turned away only once somebody has claimed the    *)
(* campaign, and only a watchdog that is not the last claimant is ousted.  *)
(***************************************************************************)
CONSTANTS Watchdog, NoWatchdog

VARIABLES
    standing,   \* how each watchdog stands to the campaign
    holder      \* the last watchdog to lay claim to it

Standing == {"waiting", "refused", "owner", "ousted", "left"}

Init ==
    /\ standing = [w \in Watchdog |-> "waiting"]
    /\ holder = NoWatchdog

Become(w, s) == standing' = [standing EXCEPT ![w] = s]

Acquire(w) ==
    /\ standing[w] = "waiting"
    /\ Become(w, "owner")
    /\ holder' = w

Renew(w) ==
    /\ standing[w] = "owner"
    /\ holder' = w
    /\ UNCHANGED standing

Refuse(w) ==
    /\ standing[w] = "waiting"
    /\ holder # NoWatchdog
    /\ Become(w, "refused")
    /\ UNCHANGED holder

Oust(w) ==
    /\ standing[w] = "owner"
    /\ holder # w
    /\ Become(w, "ousted")
    /\ UNCHANGED holder

\* It finishes, fails or is killed: nobody makes it.
Leave(w) ==
    /\ standing[w] \in {"waiting", "owner"}
    /\ Become(w, "left")
    /\ UNCHANGED holder

Next == \E w \in Watchdog :
           Acquire(w) \/ Renew(w) \/ Refuse(w) \/ Oust(w) \/ Leave(w)

Spec == Init /\ [][Next]_<<standing, holder>>

=============================================================================
