---------------------------- MODULE ExclusiveRuns ----------------------------
(***************************************************************************)
(* What the runner promises to those who POST and DELETE runs: a request   *)
(* is refused or becomes the one run of its name; a run holds the name     *)
(* until it ends; a stop reaches the run that holds the name, and no run   *)
(* that comes after it; a restart of the service ends all that is going on.*)
(***************************************************************************)
CONSTANTS Names, Runs, NameOf

VARIABLES
  phase,     \* of each request: new, holding (its name) or over
  stopping   \* the runs that were told to stop

Init ==
  /\ phase = [r \in Runs |-> "new"]
  /\ stopping = {}

Holders(n) == {r \in Runs : NameOf[r] = n /\ phase[r] = "holding"}

Begin(r) ==
  /\ phase[r] = "new"
  /\ Holders(NameOf[r]) = {}
  /\ phase' = [phase EXCEPT ![r] = "holding"]
  /\ UNCHANGED stopping

Refuse(r) ==
  /\ phase[r] = "new"
  /\ phase' = [phase EXCEPT ![r] = "over"]
  /\ UNCHANGED stopping

Stop(r) ==
  /\ phase[r] = "holding"
  /\ stopping' = stopping \cup {r}
  /\ UNCHANGED phase

End(r) ==
  /\ phase[r] = "holding"
  /\ phase' = [phase EXCEPT ![r] = "over"]
  /\ stopping' = stopping \ {r}

(* Requests that had arrived are over too; those still to come are not. *)
Restart ==
  /\ \E arrived \in SUBSET {r \in Runs : phase[r] = "new"} :
       phase' = [r \in Runs |-> IF phase[r] = "holding" \/ r \in arrived
                                THEN "over" ELSE phase[r]]
  /\ stopping' = {}

Next ==
  \/ \E r \in Runs : Begin(r) \/ Refuse(r) \/ Stop(r) \/ End(r)
  \/ Restart

Safe == Init /\ [][Next]_<<phase, stopping>>

Spec == Safe /\ \A r \in Runs : WF_<<phase, stopping>>(End(r))

=============================================================================
