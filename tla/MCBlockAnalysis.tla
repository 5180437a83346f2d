-------------------------- MODULE MCBlockAnalysis ---------------------------
(* One function: an argument, two stack blocks, a __block variable and a   *)
(* global block.  The first block captures the argument, the __block       *)
(* variable (twice) and a member; the second one the first.                *)
EXTENDS BlockAnalysis

self  == <<"self", 0, 0>>
conn  == <<"conn", 0, 0>>

Cap(b, i, k, v) == [block |-> b, field |-> <<b, i>>, kind |-> k, var |-> v, name |-> NoName,
                    cast |-> FALSE, fits |-> TRUE]

MCFields == {<<2, 1>>, <<2, 2>>, <<2, 3>>, <<3, 1>>}
MCEditedFields == {<<2, 1>>}
MCCaptures ==
    <<Cap(2, 1, "var", 1), Cap(2, 1, "ref", 4), Cap(2, 2, "ref", 4),
      [Cap(2, 3, "member", 1) EXCEPT !.name = conn, !.fits = FALSE],
      [Cap(3, 1, "var", 1) EXCEPT !.cast = TRUE], Cap(3, 1, "ref", 2)>>
MCTypeName == [v \in 1..5 |-> IF v = 1 THEN conn ELSE NoName]
MCOptionChoices == {Steps, Steps \ {"rename_fields"}, {"rename_fields"}}
MCUserNames == {self, conn}
=============================================================================
