-------------------------- MODULE MCOperationRunner --------------------------
(* Small instances of OperationRunner: the constants' values. *)
EXTENDS OperationRunner, TLC

CONSTANTS r1, r2, r3, op, app

OneName == {op}
TwoNames == {op, app}
OnlyApp == {app}
TwoRuns == {r1, r2}
ThreeRuns == {r1, r2, r3}

AllSame == [r \in Runs |-> op]
OneEach == r1 :> op @@ r2 :> app

Interchangeable == Permutations(Runs)
=============================================================================
