------------------------- MODULE MCStatementFidelity --------------------------
(* StatementFidelity with a source of two theorems; hypotheses are added,  *)
(* put in front, in between or behind, permuted and left out.              *)
EXTENDS StatementFidelity

Names == <<"a", "b">>
Few   == {<<"h">>, <<"h", "g">>}
Some  == Few \cup {<<>>, <<"g", "h">>, <<"h", "k", "g">>, <<"g", "h", "k">>}
=============================================================================
