-------------------------- MODULE MCServiceLifecycle --------------------------
(* A small instance of ServiceLifecycle: the constants' values. *)
EXTENDS ServiceLifecycle

CONSTANTS u1, u2, v1, v2

TwoUpdates == {u1, u2}
TwoVersions == [r \in TwoUpdates |-> IF r = u1 THEN v1 ELSE v2]
=============================================================================
