-------------------------- MODULE MCCampaignReports ---------------------------
(* CampaignReports with interchangeable processes.                         *)
EXTENDS CampaignReports, TLC

Symmetry == Permutations(Reporter)

\* A running run whose file has been changed, or which has no more than a note that
\* no validation speaks of; every way to close a file; and a run whose rejected file
\* is closed, with such a note or without.
MCObserved ==
    {o \in Seen :
        /\ o.status \in {"running", "accepted", "blocked", "contaminated"}
        /\ o.remaining = {} <=> o.status \in TerminalStatuses \/ o.note
        /\ o.status \notin Complete => Finalized(o) = {}
        /\ o.unverified = o.remaining
        /\ o.note => o.status \in {"running", "contaminated"}}
=============================================================================
