------------------------------ MODULE MergedLog ------------------------------
(***************************************************************************)
(* What a reader of a run's output may rely on: the log is a merge of what *)
(* the command wrote to its pipes, each pipe's lines in their order, and   *)
(* a log that is kept as whole misses none of them.  Of one that is cut    *)
(* short it may rely on no more than the order.                            *)
(***************************************************************************)
EXTENDS Naturals, Sequences

CONSTANTS
  Sources,   \* the pipes
  Lines      \* what a line may be

VARIABLES
  written,   \* what the command has written to each pipe
  merged,    \* how many lines of each are in the log
  log,       \* the lines in the order of their arrival
  outcome    \* open, or kept: whole, or cut short

Line == [from : Sources, at : Nat \ {0}, line : Lines]

Init ==
  /\ written = [s \in Sources |-> <<>>]
  /\ merged = [s \in Sources |-> 0]
  /\ log = <<>>
  /\ outcome = "open"

Write(s, line) ==
  /\ outcome = "open"
  /\ written' = [written EXCEPT ![s] = Append(@, line)]
  /\ UNCHANGED <<merged, log, outcome>>

Merge(s) ==
  /\ outcome = "open"
  /\ merged[s] < Len(written[s])
  /\ merged' = [merged EXCEPT ![s] = @ + 1]
  /\ log' = Append(log, [from |-> s, at |-> merged'[s],
                         line |-> written[s][merged'[s]]])
  /\ UNCHANGED <<written, outcome>>

KeepWhole ==
  /\ outcome = "open"
  /\ \A s \in Sources : merged[s] = Len(written[s])
  /\ outcome' = "whole"
  /\ UNCHANGED <<written, merged, log>>

CutShort ==
  /\ outcome = "open"
  /\ outcome' = "cut"
  /\ UNCHANGED <<written, merged, log>>

Next ==
  \/ \E s \in Sources : Merge(s) \/ \E line \in Lines : Write(s, line)
  \/ KeepWhole
  \/ CutShort

Spec == Init /\ [][Next]_<<written, merged, log, outcome>>

=============================================================================
