----------------------------- MODULE MCConfigSync -----------------------------
(* Small instances of ConfigSync: the constants' values. *)
EXTENDS ConfigSync, TLC

CONSTANTS a, w1, w2

OneRefresher == {w1}
TwoRefreshers == {w1, w2}
OnlyWatcher == {"watcher"}
Both == {"watcher", "post"}

Interchangeable == Permutations(Refreshers)
=============================================================================
