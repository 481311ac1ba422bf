----------------------------- MODULE HelperCalls ------------------------------
(***************************************************************************)
(* archon-helper-prover-agent.py: the plan agent and the provers ask a     *)
(* provider for help, a budgeted number of times at most for one file, and *)
(* not again while a cooldown lasts or the same provider has just failed.  *)
(* What has been asked is kept in helper-index.json, which all the callers *)
(* of a workspace read, truncate and write back without a lock.            *)
(*                                                                         *)
(* The model has one phase and one reason: entries of others pass through  *)
(* the index, and decide nothing.  So do those of reused notes and of      *)
(* calls that were skipped, which are written all the same.  "at" is the   *)
(* --iteration of a plan or the --attempt of a prover, 0 for none.  Prompt *)
(* packs, which go with phase and reason, are left out.                    *)
(*                                                                         *)
(* The specification has names of its own, CallsSpec and so on, for the    *)
(* proofs about it stand in one module with those of ArchonLoop.           *)
(***************************************************************************)
EXTENDS Integers, FiniteSets, Functions, Sequences

CONSTANTS
    Caller,       \* processes, which make one call after the other
    File, NoFile, \* --rel-path, which need not be given
    Config,       \* provider, model and endpoint, by their signature
    Policies,     \* budget and cooldown, as configured for the phase, the configs
                  \* whose API key is set, and those of the responses API
    MaxRetries,
    Ats,          \* what may be given as "at"
    Requests,     \* what is called for
    MaxCalls      \* bound: on the calls made

ASSUME HelperCallsAssumption ==
    /\ NoFile \notin File
    /\ Ats \subseteq Nat \ {0}
    /\ Policies \subseteq [budget : Nat, cooldown : Nat,
                          keys : SUBSET Config, responses : SUBSET Config]
    /\ {MaxRetries, MaxCalls} \subseteq Nat

VARIABLES
    policy,    \* of Policies, the one in force
    index,     \* the attempts in helper-index.json
    torn,      \* it cannot be parsed
    noteFiles, \* the files there is a note for in notes_dir
    made,      \* how many calls have been begun
    proc,      \* the callers
    asked,     \* history: the "at" of each attempt of a config as the first of a chain
    last,      \* history: how the last attempt of a config for a file ended
    disturbed  \* history: calls got in each other's way, or were killed

shared  == <<policy, index, torn, noteFiles>>
history == <<asked, last, disturbed>>
callsVars == <<shared, made, proc, history>>

Targets == File \cup {NoFile}
Chains  == {s \in UNION {[1 .. n -> Config] : n \in 1 .. Cardinality(Config)} :
                IsInjective(s)}
Calls   == [file : Targets, force : BOOLEAN, auto : BOOLEAN, chain : Chains,
            at : {0} \cup Ats]

ASSUME RequestsAssumption == Requests \subseteq Calls

Entries == [event : {"provider_call", "provider_call_failed"}, file : Targets,
            sig : Config, at : {0} \cup Ats, noted : BOOLEAN]

\* A caller: where it is in its call, the attempt of the chain it is at, the
\* retries of that attempt, and an append to the index: what it was read as,
\* what is appended, and what follows.
Idle == [pc |-> "idle",
         call |-> [file |-> NoFile, force |-> FALSE, auto |-> FALSE, chain |-> <<>>, at |-> 0],
         nth |-> 1, tries |-> 0, view |-> <<>>, event |-> "none", then |-> "idle"]

Callers ==
    [pc : {"idle", "lookup", "failure", "policy", "call", "fallback", "note", "read", "write",
           "fill", "killed"},
     call : Calls \cup {Idle.call}, nth : Nat, tries : 0 .. MaxRetries, view : Seq(Entries),
     event : {"none", "note_reuse", "skipped_by_cooldown", "skipped_by_budget",
              "provider_call", "provider_call_failed"},
     then : {"idle", "fallback"}]

Calling == {c \in Caller : proc[c].pc \notin {"idle", "killed"}}

CallsInit ==
    /\ policy \in Policies
    /\ index = <<>> /\ torn = FALSE /\ noteFiles = {} /\ made = 0
    /\ proc = [c \in Caller |-> Idle]
    /\ asked = [f \in Targets |-> [k \in Config |-> <<>>]]
    /\ last = [f \in Targets |-> [k \in Config |-> "none"]]
    /\ disturbed = FALSE

At(c, where) == proc[c].pc = where

Becomes(c, p) == proc' = [proc EXCEPT ![c] = p]
Goto(c, where) == Becomes(c, [proc[c] EXCEPT !.pc = where])

\* To append to the index, and to go on from there.
Record(c, what, next) ==
    Becomes(c, [proc[c] EXCEPT !.pc = "read", !.event = what, !.then = next])

-----------------------------------------------------------------------------
(* What a call makes of the index.                                         *)

Target(c)  == proc[c].call.file
Primary(c) == proc[c].call.chain[1]
Sig(c)     == proc[c].call.chain[proc[c].nth]

\* load_helper_index: what cannot be parsed is empty.
Loaded == IF torn THEN <<>> ELSE index

\* _matching_provider_attempt_entries: a call without a file matches them all.
Attempts(c) ==
    {i \in DOMAIN Loaded : /\ Target(c) \in {NoFile, Loaded[i].file}
                          /\ Loaded[i].sig = Primary(c)}

FailedLast(c) ==
    /\ ~ proc[c].call.force
    /\ \E i \in Attempts(c) : /\ \A j \in Attempts(c) : j <= i
                             /\ Loaded[i].event = "provider_call_failed"

PriorAts(c) == {Loaded[i].at : i \in Attempts(c)} \ {0}

\* The last of the earlier ones is too close if any is.
CooldownActive(c) ==
    /\ proc[c].call.at > 0 /\ policy.cooldown > 0
    /\ \E at \in PriorAts(c) : proc[c].call.at - at <= policy.cooldown

\* Mutant: a forced call is free.
BudgetSpentUnforced(c) ==
    ~ proc[c].call.force /\ Cardinality(Attempts(c)) >= policy.budget

BudgetSpent(c) == Cardinality(Attempts(c)) >= policy.budget

-----------------------------------------------------------------------------
(* main.                                                                   *)

SameEntries(f, g) == f = g \/ NoFile \in {f, g}

Begin(c) ==
    /\ At(c, "idle") /\ made < MaxCalls
    /\ made' = made + 1
    /\ \E r \in Requests :
          /\ Becomes(c, [Idle EXCEPT !.pc = "lookup", !.call = r])
          /\ disturbed' = (disturbed \/ \E d \in Calling : SameEntries(r.file, Target(d)))
    /\ UNCHANGED <<shared, asked, last>>

Reusable(c) == proc[c].call.auto /\ ~ proc[c].call.force /\ Target(c) \in noteFiles

\* _find_reusable_auto_note.
Lookup(c) ==
    /\ At(c, "lookup")
    /\ IF Reusable(c) THEN Record(c, "note_reuse", "idle") ELSE Goto(c, "failure")
    /\ UNCHANGED <<shared, made, history>>

\* _maybe_skip_repeated_transport_failure.
CheckFailure(c) ==
    /\ At(c, "failure")
    /\ IF FailedLast(c) THEN Record(c, "skipped_by_cooldown", "idle") ELSE Goto(c, "policy")
    /\ disturbed' = (disturbed \/ torn)
    /\ UNCHANGED <<shared, made, asked, last>>

\* _enforce_fresh_call_policy, which a forced call has to pass, too.
CheckPolicy(c) ==
    /\ At(c, "policy")
    /\ IF CooldownActive(c) THEN Record(c, "skipped_by_cooldown", "idle")
       ELSE IF BudgetSpent(c) THEN Record(c, "skipped_by_budget", "idle")
       ELSE Goto(c, "call")
    /\ disturbed' = (disturbed \/ torn)
    /\ UNCHANGED <<shared, made, asked, last>>

\* _require_key: without a key there is no request.
HasKey(c) == Sig(c) \in policy.keys

\* The chat APIs find no text in an answer of another shape; the responses API
\* takes it as it is.
Strict(c) == Sig(c) \notin policy.responses

RetriesLeft(c) == proc[c].tries < MaxRetries

\* _post sleeps, and sends the request again.
Retry(c) ==
    /\ At(c, "call") /\ HasKey(c) /\ RetriesLeft(c)
    /\ Becomes(c, [proc[c] EXCEPT !.tries = @ + 1])
    /\ UNCHANGED <<shared, made, history>>

\* Attempts count once the provider has answered or failed.
Count(c, how) ==
    /\ asked' = IF proc[c].nth = 1
                THEN [asked EXCEPT ![Target(c)][Sig(c)] = Append(@, proc[c].call.at)]
                ELSE asked
    /\ last' = [last EXCEPT ![Target(c)][Sig(c)] = how]

Answer(c) ==
    /\ At(c, "call") /\ HasKey(c)
    /\ IF proc[c].call.auto THEN Goto(c, "note") ELSE Record(c, "provider_call", "idle")
    /\ Count(c, "answered")
    /\ UNCHANGED <<shared, made, disturbed>>

ChainEnds(c) == proc[c].nth = Len(proc[c].call.chain)

\* It gives up, its retries are spent, or it has no key: a fallback follows, if there is one.
Fail(c) ==
    /\ At(c, "call")
    /\ Record(c, "provider_call_failed", IF ChainEnds(c) THEN "idle" ELSE "fallback")
    /\ Count(c, "failed")
    /\ UNCHANGED <<shared, made, disturbed>>

\* _attempt_chain.
Fallback(c) ==
    /\ At(c, "fallback")
    /\ Becomes(c, [proc[c] EXCEPT !.pc = "call", !.nth = @ + 1, !.tries = 0])
    /\ UNCHANGED <<shared, made, history>>

\* An answer without a text is no SystemExit: it ends the call, unrecorded.
Break(c) ==
    /\ At(c, "call") /\ HasKey(c) /\ Strict(c)
    /\ Becomes(c, Idle)
    /\ UNCHANGED <<shared, made, history>>

WriteNote(c) ==
    /\ At(c, "note")
    /\ noteFiles' = noteFiles \cup ({Target(c)} \ {NoFile})
    /\ Record(c, "provider_call", "idle")
    /\ UNCHANGED <<policy, index, torn, made, history>>

-----------------------------------------------------------------------------
(* append_helper_index_event.                                              *)

Appending == {c \in Caller : proc[c].pc \in {"write", "fill"}}

Read(c) ==
    /\ At(c, "read")
    /\ Becomes(c, [proc[c] EXCEPT !.pc = "write", !.view = Loaded])
    /\ disturbed' = (disturbed \/ torn \/ Appending # {})
    /\ UNCHANGED <<shared, made, asked, last>>

Truncate(c) ==
    /\ At(c, "write")
    /\ Goto(c, "fill")
    /\ torn' = TRUE
    /\ UNCHANGED <<policy, index, noteFiles, made, history>>

\* Mutant: every attempt is put down to the first config of the chain.
EntryOfPrimary(c) ==
    [event |-> proc[c].event, file |-> Target(c), sig |-> Primary(c),
     at |-> proc[c].call.at, noted |-> proc[c].call.auto]

Entry(c) ==
    [event |-> proc[c].event, file |-> Target(c), sig |-> Sig(c),
     at |-> proc[c].call.at, noted |-> proc[c].call.auto]

\* What another caller has filled in since may show below.
Fill(c) ==
    /\ At(c, "fill")
    /\ index' = IF proc[c].event \in {"provider_call", "provider_call_failed"}
                THEN Append(proc[c].view, Entry(c)) ELSE proc[c].view
    /\ torn' \in IF torn THEN {FALSE} ELSE BOOLEAN
    /\ Becomes(c, IF proc[c].then = "idle" THEN Idle
                  ELSE [proc[c] EXCEPT !.pc = proc[c].then, !.view = <<>>])
    /\ UNCHANGED <<policy, noteFiles, made, history>>

Kill(c) ==
    /\ c \in Calling
    /\ Becomes(c, [Idle EXCEPT !.pc = "killed"])
    /\ disturbed' = TRUE
    /\ UNCHANGED <<shared, made, asked, last>>

-----------------------------------------------------------------------------
Step(c) ==
    \/ Lookup(c) \/ CheckFailure(c) \/ CheckPolicy(c)
    \/ Retry(c) \/ Answer(c) \/ Fail(c) \/ Fallback(c) \/ Break(c)
    \/ WriteNote(c) \/ Read(c) \/ Truncate(c) \/ Fill(c)

CallsNext == \E c \in Caller : Begin(c) \/ Step(c) \/ Kill(c)

CallsSpec == CallsInit /\ [][CallsNext]_callsVars

-----------------------------------------------------------------------------
\* Every variable has the values the code gives it.
CallsTypeOK ==
    /\ {torn, disturbed} \subseteq BOOLEAN /\ noteFiles \subseteq File
    /\ policy \in Policies /\ made \in 0 .. MaxCalls
    /\ index \in Seq(Entries)
    /\ proc \in [Caller -> Callers]
    /\ \A c \in Calling :
          proc[c].call \in Calls /\ proc[c].nth \in DOMAIN proc[c].call.chain

\* However often it is forced, and whatever its fallbacks do, a config is asked
\* first for a file no more often than the budget allows, and at intervals
\* longer than the cooldown, if there is one, as long as calls do not collide.
PolicyKept ==
    ~ disturbed => \A f \in Targets, k \in Config :
        LET ats == asked[f][k]
        IN  /\ Len(ats) <= policy.budget
            /\ \A i, j \in DOMAIN ats :
                  i < j /\ 0 \notin {ats[i], ats[j], policy.cooldown} =>
                      ats[j] > ats[i] + policy.cooldown

\* Then a call that is not forced does not ask a config that has just failed
\* for its file, though another config may have answered since.
FailureNotRepeated ==
    [][\A c \in Caller :
          /\ At(c, "policy") /\ proc'[c].pc = "call"
          /\ ~ proc[c].call.force /\ Target(c) # NoFile
          => disturbed \/ last[Target(c)][Primary(c)] # "failed"]_proc

\* Whatever collides or is killed: an answer on record that was to be kept in
\* a note for its file has one.
AnswersNoted ==
    \A e \in Range(index) :
        e.event = "provider_call" /\ e.noted /\ e.file # NoFile => e.file \in noteFiles

\* What the index is there for: budgets, cooldowns, and notes to use again.
CallsInv == CallsTypeOK /\ PolicyKept /\ AnswersNoted

=============================================================================
