------------------------------ MODULE MCDircon ------------------------------
(* Two evaluators: a foot with three rows, of which the last and the first *)
(* are active, and a rod with one.                                         *)
EXTENDS Dircon

CONSTANTS foot, rod

FullRows == foot :> 3 @@ rod :> 1
ActiveRows == foot :> <<2, 0>> @@ rod :> <<0>>
Sets == {<<>>, <<foot>>, <<rod, foot>>}
NoEvaluators == {<<>>}
=============================================================================
