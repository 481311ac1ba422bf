---------------------------- MODULE MCHelperCalls -----------------------------
EXTENDS HelperCalls, TLC

\* Budgets that two calls exceed, and a cooldown that they may be too close for;
\* keys or none; the chat APIs or the responses API.
MCPolicies ==
    {[budget |-> 1, cooldown |-> 0, keys |-> Config, responses |-> {}],
     [budget |-> 1, cooldown |-> 0, keys |-> {}, responses |-> {}],
     [budget |-> 2, cooldown |-> 1, keys |-> Config, responses |-> Config]}

\* Only calls for a file say when they are made.
MCRequests == {r \in Calls : r.file = NoFile => r.at = 0}

\* Callers and configs are interchangeable.
Symmetry == Permutations(Caller) \cup Permutations(Config)

=============================================================================
