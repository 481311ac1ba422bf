--------------------------- MODULE HistoricalRoutes ----------------------------
(***************************************************************************)
(* Routes from other campaigns: a cycle that is started with               *)
(* --preload-historical-routes looks for what the sibling campaigns have   *)
(* published of its file, a proof or a blocker, and seeds its workspace    *)
(* with the newest: a note in .archon/informal/historical_routes and the   *)
(* summary .archon/HISTORICAL_ROUTES.md.  Any other cycle clears them.     *)
(* They may then spare the first plan (ArchonLoop), and stand in for a     *)
(* blocker note that an idle prover did not write.                         *)
(*                                                                         *)
(* All of this comes before the cycle looks at the lease, which is why     *)
(* this module goes on top of RunLease: a cycle that will find the run     *)
(* busy has by then replaced the routes of the one that is at work.        *)
(*                                                                         *)
(* The run has a single file (blockers are synthesized only then), and     *)
(* what agents themselves write of known routes is left out.  What has     *)
(* been published is never removed.  A cycle that is killed before it      *)
(* looks at the lease is one that takes no further step.                   *)
(***************************************************************************)
EXTENDS RunLease, Naturals

CONSTANTS
    Preload,    \* the cycles started with the flag
    Artifact    \* what other campaigns may publish: of a kind, modified at

ASSUME HistoricalRoutesAssumption ==
    /\ Preload \subseteq Cycle
    /\ Artifact \subseteq [kind : {"proof", "blocker"}, at : Nat]

VARIABLES
    archive,   \* reports/final of the sibling campaigns
    summary,   \* the kind of route in HISTORICAL_ROUTES.md
    notes,     \* the kinds there is a note of
    stage,     \* how far a cycle has come with that
    seeded,    \* the kind it has seeded, as it reports
    planless,  \* the cycles whose loop is to skip its first plan
    blocked,   \* the blocker note of the file has been synthesized
    disturbed  \* history: cycles whose routes another wrote to

routes  == <<summary, notes>>
process == <<stage, seeded, planless, disturbed>>
all     == <<vars, archive, routes, process, blocked>>

Kinds  == {"none", "proof", "blocker"}
Stages == {"start", "cleared", "noted", "ready"}

HInit ==
    /\ Init
    /\ archive = {} /\ summary = "none" /\ notes = {}
    /\ stage = [c \in Cycle |-> "start"] /\ seeded = [c \in Cycle |-> "none"]
    /\ planless = {} /\ blocked = FALSE /\ disturbed = {}

-----------------------------------------------------------------------------
(* What a cycle does first.                                                *)

\* A recovery pass has been told already that the run is idle.
Starting(c) == pc[c] = IF c \in Recovery THEN "checked" ELSE "new"

Begun(c) == stage[c] # "start" /\ pc[c] \notin Over

Seeding(c, from, to) ==
    /\ Starting(c) /\ stage[c] = from
    /\ stage' = [stage EXCEPT ![c] = to]
    /\ disturbed' = disturbed \cup {d \in Cycle \ {c} : Begun(d)}
    /\ UNCHANGED <<vars, archive, planless, blocked>>

Seeds(c) == c \in Preload \ Recovery

\* Mutant: the notes of an earlier seeding stay.
ClearSummary(c) ==
    /\ Seeding(c, "start", IF Seeds(c) /\ archive # {} THEN "cleared" ELSE "ready")
    /\ summary' = "none"
    /\ UNCHANGED <<notes, seeded>>

\* _clear_historical_routes
Clear(c) ==
    /\ Seeding(c, "start", IF Seeds(c) /\ archive # {} THEN "cleared" ELSE "ready")
    /\ summary' = "none" /\ notes' = {}
    /\ UNCHANGED seeded

\* The last of _historical_route_candidates.
Newest ==
    CHOOSE a \in archive : \A b \in archive :
        b.at < a.at \/ (b.at = a.at /\ (b.kind = a.kind \/ a.kind = "proof"))

SeedNote(c) ==
    /\ Seeding(c, "cleared", "noted")
    /\ notes' = notes \cup {Newest.kind}
    /\ seeded' = [seeded EXCEPT ![c] = Newest.kind]
    /\ UNCHANGED summary

\* _write_historical_routes_summary, with the record.
Summarize(c) ==
    /\ Seeding(c, "noted", "ready")
    /\ summary' = seeded[c]
    /\ UNCHANGED <<notes, seeded>>

-----------------------------------------------------------------------------
(* What becomes of the routes.                                             *)

\* What a process had in mind is gone with it.
Remember(cycles) ==
    /\ planless' = {c \in cycles : pc'[c] \notin Over}
    /\ stage' = [c \in Cycle |-> IF pc'[c] \in Over THEN "start" ELSE stage[c]]
    /\ seeded' = [c \in Cycle |-> IF pc'[c] \in Over THEN "none" ELSE seeded[c]]
    /\ disturbed' = {c \in disturbed : pc'[c] \notin Over}
    /\ UNCHANGED <<archive, routes, blocked>>

Aside == Remember(planless)

\* _prevalidated_blocker_evidence: by the summary.
BlockerEvidence == summary = "blocker"

\* _exact_route_sources, or else the blocker, unless there is a task result.  A
\* blocker that shows some Lean passes for an exact route.
RouteKnown == (notes # {} \/ summary # "none") /\ ~ blocked

\* _synthesize_blocker_note_after_idle, if nothing new has come of the cycle.
Synthesize(c) ==
    /\ pc[c] = "analysing" /\ c \notin Recovery
    /\ ~ blocked /\ BlockerEvidence
    /\ blocked' = TRUE
    /\ UNCHANGED <<vars, archive, routes, process>>

\* A sibling campaign is finalized; what is older than all there is changes
\* nothing.
Publish(a) ==
    /\ archive # {} => a.at > Newest.at
    /\ archive' = archive \cup {a}
    /\ UNCHANGED <<vars, routes, process, blocked>>

-----------------------------------------------------------------------------
\* While it looks at the lease, it finds that the first plan can be skipped.
CheckLease(c) ==
    /\ stage[c] = "ready" /\ Check(c)
    /\ \/ Aside
       \/ RouteKnown /\ Remember(planless \cup {c})

Begin(c) == stage[c] = "ready" /\ BeginWrite(c) /\ Aside
End(c)   == EndWrite(c) /\ Aside

Seed(c)      == Clear(c) \/ SeedNote(c) \/ Summarize(c)
LeaseStep(c) == \/ CheckLease(c) \/ Begin(c) \/ End(c)
                \/ (Recover(c) \/ SpawnLoop(c) \/ LoopEnds(c) \/ Kill(c)) /\ Aside

HNext ==
    \/ \E c \in Cycle : Seed(c) \/ LeaseStep(c) \/ Synthesize(c)
    \/ \E a \in Artifact : Publish(a)
    \/ Tick /\ Aside

HSpec == HInit /\ [][HNext]_all

\* As FairSpec has it.
HFairSpec == HSpec /\ \A c \in Cycle : WF_all(Begin(c)) /\ WF_all(End(c))

-----------------------------------------------------------------------------
\* The variables have their types, those of the lease among them.
HTypeOK ==
    /\ TypeOK
    /\ archive \subseteq Artifact /\ blocked \in BOOLEAN
    /\ summary \in Kinds /\ notes \subseteq Kinds \ {"none"}
    /\ stage \in [Cycle -> Stages] /\ seeded \in [Cycle -> Kinds]
    /\ planless \cup disturbed \subseteq Cycle

\* A cycle works with the routes it reports to have seeded and no others, and
\* skips its first plan for none but these, whatever earlier cycles or killed
\* ones have left, or other campaigns have published since, unless another cycle
\* was started meanwhile.  So a cycle without the flag, of which a benchmark is
\* made, takes no proof and no blocker over from another campaign.
RoutesAsReported ==
    \A c \in Cycle \ disturbed :
        /\ AtWork(c) => summary = seeded[c] /\ notes = {seeded[c]} \ {"none"}
        /\ c \in planless => seeded[c] # "none"
        /\ seeded[c] # "none" => c \in Preload \ Recovery

RoutesInv == HTypeOK /\ RoutesAsReported

=============================================================================
