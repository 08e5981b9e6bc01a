-------------------------- MODULE MCContainerUpgrade --------------------------
(* Small instances of ContainerUpgrade: the constants' values. *)
EXTENDS ContainerUpgrade, TLC

CONSTANTS u1, u2

OneUpgrader == {u1}
TwoUpgraders == {u1, u2}

Interchangeable == Permutations(Upgraders)
=============================================================================
