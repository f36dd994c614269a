-------------------------------- MODULE MCD2 --------------------------------
(***************************************************************************)
(* Two roots, each illegal or with one of two line counts, each followed   *)
(* by two leaves over illegal and two scores: dead ends, survivors, equal  *)
(* S2 through different line bonuses, a better S1 on a dead end.  A root   *)
(* is its kind and the kinds of its leaves; a request is its two roots,    *)
(* and <<>> the invalid one.                                               *)
(***************************************************************************)
EXTENDS TetrisD2

Kind == {"illegal", "low", "high"}
LeafKinds == {<<"illegal", "illegal">>, <<"illegal", "low">>, <<"low", "high">>, <<"high", "low">>}
(* low roots clear one line, high ones none: S2 and S1 rank them apart.     *)
Roots == {<<"illegal", "illegal", "illegal">>}
            \cup {<<k>> \o l : k \in {"low", "high"}, l \in LeafKinds}

MCInvalid == {<<>>}
SecondRoots == {<<"illegal", "illegal", "illegal">>, <<"low", "illegal", "illegal">>,
                <<"high", "illegal", "low">>, <<"low", "low", "high">>,
                <<"high", "low", "high">>}
MCRequest == MCInvalid \cup (Roots \X SecondRoots)
MCCount == [r \in MCRequest |-> Len(r)]
MCNextCount == [r \in MCRequest |-> IF r = <<>> THEN 0 ELSE 2]

Of(kind, id, low, high) ==
    [ id    |-> id,
      legal |-> kind # "illegal",
      score |-> IF kind = "low" THEN low ELSE IF kind = "high" THEN high ELSE 0,
      y     |-> IF kind = "illegal" THEN 0 ELSE id + 1 ]

MCOutcome == [r \in MCRequest |-> [j \in 0 .. MCCount[r]-1 |-> Of(r[j+1][1], 10 * j, -6, -2)]]
MCLines == [r \in MCRequest |-> [j \in 0 .. MCCount[r]-1 |-> IF r[j+1][1] = "low" THEN 1 ELSE 0]]
MCLeaf == [r \in MCRequest |-> [j \in 0 .. MCCount[r]-1 |->
              [i \in 0 .. MCNextCount[r]-1 |-> Of(r[j+1][i+2], 3 * i, -9, -5)]]]
=============================================================================
