-------------------------- MODULE StatementFidelity ---------------------------
(***************************************************************************)
(* Whether what a prover has made of a file still says what the source     *)
(* says.  Where the source has theorems, supervisor.py extracts the        *)
(* headers of both versions line by line and compares those of the same    *)
(* name.  Where it is only a comment, formalization.py derives a contract  *)
(* from the file and the documents next to it, keeps it in                 *)
(* .archon/formalization, and looks in the workspace file for what the     *)
(* contract requires.                                                      *)
(*                                                                         *)
(* One file.  Of a declaration there remain its name, its hypotheses and   *)
(* its conclusion, and where its first ":=" is to be found.  Words the     *)
(* contract code looks for are members of Item.  A theorem by pattern      *)
(* matching, which has no ":=" of its own, is left out.                    *)
(*                                                                         *)
(* The specification has names of its own, FidelitySpec and so on, for the *)
(* proofs about it stand in one module with those of Acceptance.           *)
(***************************************************************************)
EXTENDS Integers, FiniteSets, Functions, Sequences, SequencesExt

CONSTANTS
    Name,       \* the theorems of the source, in the order of the file
    Helper,     \* the name of a theorem that a prover adds
    Hypotheses, \* the lists of hypotheses that a theorem may have
    Stated,     \* those that the theorems of the source have
    MaxEdits    \* bound: edits and accidents

ASSUME StatementFidelityAssumption ==
    /\ Name \in Seq(STRING) /\ IsInjective(Name)
    /\ Helper \notin ToSet(Name) /\ MaxEdits \in Nat
    /\ Hypotheses \subseteq Seq(STRING) /\ <<>> \in Hypotheses /\ Stated \subseteq Hypotheses

VARIABLES
    source,     \* source/<file>, and the documents of the project
    file,       \* workspace/<file>
    contract,   \* .archon/formalization/<file>.json
    edits,      \* edits and accidents so far
    rewritten,  \* history: an agent has put another contract there
    lost        \* history: it was torn when the file was no longer its source

fidelityVars == <<source, file, contract, edits, rewritten, lost>>

-----------------------------------------------------------------------------
(* Theorem headers: archonlib/supervisor.py.                               *)

Decl == [name   : ToSet(Name) \cup {Helper},
         hyps   : Hypotheses, concl : {"P", "Q"},
         inline : BOOLEAN,    \* its ":=" is on the line of its name
         assigns : BOOLEAN]   \* its proof has a line with a ":="

\* A declaration has three lines, the first of which names it: those with a ":="
HeaderLines(f, k) ==   \* a mutant of Lines: the proof is not looked at
    <<f[k].inline, ~f[k].inline, FALSE>>
Lines(f, k) == <<f[k].inline, ~f[k].inline, f[k].assigns>>
Begin(k) == 3 * (k - 1) + 1
Assigns(f, i) ==
    \E k \in 1..Len(f), r \in 1..3 : i = 3 * (k - 1) + r /\ Lines(f, k)[r]

\* _extract_headers: a header goes on until the next line that has a ":=", and
\* the first line of the header is not looked at.  The loop arrives at the first
\* declaration and, after a header, at the first of those that begin below it
Below(f, k) == {l \in 1..Len(f) : \E i \in Begin(k) + 1 .. Begin(l) - 1 : Assigns(f, i)}
Extracted(f) ==
    {k \in 1..Len(f) :
        \A S \in SUBSET (1..Len(f)) :
            (1 \in S /\ \A l \in S : Below(f, l) # {} => Min(Below(f, l)) \in S) => k \in S}

\* _is_subsequence: one pass over the target; current[j] after j of its items
IsSubsequence(s, t) ==
    /\ Len(s) <= Len(t)
    /\ \E current \in [0..Len(t) -> 0..Len(s)] :
          /\ current[0] = 0
          /\ \A j \in 1..Len(t) :
                current[j] = IF current[j - 1] < Len(s) /\ s[current[j - 1] + 1] = t[j]
                             THEN current[j - 1] + 1 ELSE current[j - 1]
          /\ current[Len(t)] = Len(s)

\* classify_header_mutation of two headers of one name
Classify(d, e) ==
    IF <<d.hyps, d.concl>> = <<e.hyps, e.concl>> THEN "none"
    ELSE IF d.concl # e.concl THEN "changed_conclusion"
    ELSE IF Len(e.hyps) > Len(d.hyps) /\ IsSubsequence(d.hyps, e.hyps) THEN "added_hypothesis"
    ELSE "header_drift"

\* collect_header_drifts; a header that is missing in the workspace is passed over
HeaderDrifts(f, g) ==
    {d \in {[name |-> f[p[1]].name, class |-> Classify(f[p[1]], g[p[2]])] :
              p \in {q \in Extracted(f) \X Extracted(g) : f[q[1]].name = g[q[2]].name}} :
     d.class # "none"}

-----------------------------------------------------------------------------
(* Comment-only sources: archonlib/formalization.py.                       *)

Item == {"rd", "monic", "exact", "finite"}   \* of six; qd and d_zero are like finite

NoContract == [state |-> "absent", kind |-> "comment_only", required |-> {}]
Torn       == [NoContract EXCEPT !.state = "torn"]

\* _workspace_source_root: without a snapshot the workspace is its own source
SourceKind == IF source.snapshot
              THEN source.kind
              ELSE IF file.decls = <<>> THEN "comment_only" ELSE "theorem_header"

\* _derive_contract_from_source: the items of the file and of its bundle
Derived ==
    [state |-> "whole", kind |-> SourceKind,
     required |-> IF SourceKind = "comment_only" THEN source.own \cup source.bundle ELSE {}]

\* materialize_formalization_contract: a readable contract is not derived again
Materialized ==
    IF contract.state = "whole" THEN contract
    ELSE IF Derived.kind = "comment_only" THEN Derived ELSE contract

\* _load_or_derive_contract
LoadOrNone(c) == IF c.state = "whole" THEN c ELSE NoContract   \* mutant
LoadOrDerive(c) == IF c.state = "whole" THEN c ELSE Derived

Detected(w, required) ==
    {f \in {"drop_monic", "replace_exact", "symmetrize"} :
        CASE f = "drop_monic"    -> /\ "monic" \in required \ w.covers
                                    /\ w.symmetric \/ w.bounded
          [] f = "replace_exact" -> "exact" \in required \ w.covers /\ w.bounded
          [] f = "symmetrize"    -> "rd" \in required \ w.covers /\ w.symmetric}

Fidelity(c, w) ==
    IF c.kind # "comment_only"                THEN "not_applicable"
    ELSE IF Detected(w, c.required) # {}      THEN "violated"
    ELSE IF ~(c.required \subseteq w.covers)  THEN "partial"
    ELSE "preserved"

\* assess_formalization
Assess(c) == Fidelity(LoadOrDerive(c), file)

-----------------------------------------------------------------------------
Theorems ==
    {f \in [1..Len(Name) -> Decl] :
        \A k \in 1..Len(Name) : f[k].name = Name[k] /\ f[k].concl = "P" /\ f[k].hyps \in Stated}

\* init.sh materialises the contract before any prover has been at file
FidelityInit ==
    /\ \/ \E f \in Theorems :
            /\ source = [kind |-> "theorem_header", snapshot |-> TRUE, decls |-> f,
                         own |-> {}, bundle |-> {}]
            /\ file = [decls |-> f, covers |-> {}, symmetric |-> FALSE, bounded |-> FALSE]
            /\ contract = NoContract
       \/ \E snapshot \in BOOLEAN, own, bundle \in SUBSET Item :
            /\ source = [kind |-> "comment_only", snapshot |-> snapshot, decls |-> <<>>,
                         own |-> own, bundle |-> bundle]
            /\ file = [decls |-> <<>>, covers |-> {}, symmetric |-> FALSE, bounded |-> FALSE]
            /\ contract = [state |-> "whole", kind |-> "comment_only",
                           required |-> own \cup bundle]
    /\ edits = 0 /\ rewritten = FALSE /\ lost = FALSE

EditFile(w) ==
    /\ edits < MaxEdits
    /\ file' = w
    /\ edits' = edits + 1
    /\ lost' = (lost \/ contract.state = "torn")
    /\ UNCHANGED <<source, contract, rewritten>>
EditDecls(f) == source.kind = "theorem_header" /\ EditFile([file EXCEPT !.decls = f])

\* A prover has a free hand
Reprove(k) ==
    \E inline, assigns \in BOOLEAN :
        EditDecls([file.decls EXCEPT ![k].inline = inline, ![k].assigns = assigns])
Restate(k) ==
    \E hyps \in Hypotheses, concl \in {"P", "Q"} :
        EditDecls([file.decls EXCEPT ![k].hyps = hyps, ![k].concl = concl])
Discard(k) == EditDecls(RemoveAt(file.decls, k))
AddHelper(k) ==
    /\ \A l \in 1..Len(file.decls) : file.decls[l].name # Helper
    /\ \E inline, assigns \in BOOLEAN :
          EditDecls(InsertAt(file.decls, k, [name |-> Helper, hyps |-> <<>>, concl |-> "Q",
                                             inline |-> inline, assigns |-> assigns]))
Formalize ==
    /\ source.kind = "comment_only"
    /\ \E covers \in SUBSET Item, symmetric, bounded \in BOOLEAN :
          EditFile([decls     |-> <<[name |-> Helper, hyps |-> <<>>, concl |-> "Q",
                                 inline |-> FALSE, assigns |-> FALSE]>>,
                covers    |-> covers, symmetric |-> symmetric, bounded |-> bounded])

\* An agent, or an operator, may put a contract of its own there
RewriteContract ==
    /\ source.kind = "comment_only" /\ edits < MaxEdits
    /\ \E items \in SUBSET (source.own \cup source.bundle),
          kind \in {"comment_only", "theorem_header"} :
          contract' = [state |-> "whole", kind |-> kind, required |-> items]
    /\ edits' = edits + 1 /\ rewritten' = TRUE
    /\ UNCHANGED <<source, file, lost>>

\* a process that writes the contract is killed
TearContract ==
    /\ source.kind = "comment_only" /\ edits < MaxEdits
    /\ contract' = Torn
    /\ edits' = edits + 1
    /\ rewritten' = FALSE
    /\ lost' = (file.decls # <<>> \/ lost)
    /\ UNCHANGED <<source, file>>

\* write_validation_artifacts: one target
Validate ==
    /\ contract' = Materialized
    /\ UNCHANGED <<source, file, edits, rewritten, lost>>

FidelityNext ==
    \/ \E k \in 1..Len(file.decls) : Reprove(k) \/ Restate(k) \/ Discard(k)
    \/ \E k \in 1..Len(file.decls) + 1 : AddHelper(k)
    \/ Formalize \/ RewriteContract \/ TearContract \/ Validate

FidelitySpec == FidelityInit /\ [][FidelityNext]_fidelityVars

-----------------------------------------------------------------------------
FidelityTypeOK ==
    /\ source.snapshot \in BOOLEAN
    /\ file.decls \in Seq(Decl) /\ file.covers \subseteq Item
    /\ contract.state \in {"absent", "torn", "whole"} /\ contract.required \subseteq Item
    /\ contract.state = "absent" <=> source.kind = "theorem_header"
    /\ edits \in 0..MaxEdits

\* A declaration is open that has its ":=" on its first line and none in its
\* proof: its header takes in the line of the next one.  Of open declarations in
\* a row, every second header goes on into the next declaration, so that one is
\* covered when an odd number of them stands in a row before it
Open(f, k) == f[k].inline /\ ~f[k].assigns
Covered(f) ==
    {k \in 1..Len(f) :
        \E m \in 1 .. k - 1 : /\ \A l \in m .. k - 1 : Open(f, l)
                              /\ m = 1 \/ ~Open(f, m - 1)
                              /\ (k - m) % 2 = 1}

\* The drifts are those of the theorems whose hypotheses or conclusion differ,
\* apart from the covered ones, however the proofs and the layout have changed
DriftsExact ==
    {d.name : d \in HeaderDrifts(source.decls, file.decls)} =
        {source.decls[j].name : j \in
           {k \in (1..Len(source.decls)) \ Covered(source.decls) :
              \E l \in (1..Len(file.decls)) \ Covered(file.decls) :
                 /\ file.decls[l].name = source.decls[k].name
                 /\ <<file.decls[l].hyps, file.decls[l].concl>>
                       # <<source.decls[k].hyps, source.decls[k].concl>>}}

\* s is what remains of t when items are left out
Remains(s, t) ==
    \E at \in [1..Len(s) -> 1..Len(t)] :
        \A i, j \in 1..Len(s) : s[i] = t[at[i]] /\ (i < j => at[i] < at[j])

\* A drift is called an added hypothesis exactly when leaving out hypotheses
\* gives the statement of the source back
AddedMeansAdded ==
    \A k \in 1..Len(source.decls), l \in 1..Len(file.decls) :
        LET d == source.decls[k]
            e == file.decls[l]
        IN  Classify(d, e) = "added_hypothesis" <=>
               d.concl = e.concl /\ d.hyps # e.hyps /\ Remains(d.hyps, e.hyps)

\* The status collector, which derives a contract it cannot read, and a
\* validation, which first writes it, judge a file alike
JudgedAlike == Assess(contract) = Assess(Materialized)

\* What is judged is the object of the source: while no agent has rewritten the
\* contract, and none was lost where the workspace is its own source, the file
\* preserves it exactly when it covers all that was asked for at the beginning
JudgedBySource ==
    (source.kind = "comment_only" /\ ~rewritten /\ (source.snapshot \/ ~lost)) =>
        (Assess(contract) = "preserved" <=> source.own \cup source.bundle \subseteq file.covers)

\* What is reported of the headers of a file
HeadersInv == FidelityTypeOK /\ DriftsExact /\ AddedMeansAdded

\* What a comment-only file is judged by
ContractInv == JudgedAlike /\ JudgedBySource
=============================================================================
