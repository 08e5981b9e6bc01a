------------------------- MODULE RunnerOutcomeProofs -------------------------
(***************************************************************************)
(* What comes of a run, for every value of the constants: the runner       *)
(* implements the safety part of ExclusiveRuns, and what the history table *)
(* says of runs is true.                                                   *)
(***************************************************************************)
EXTENDS OperationRunnerProofs


(***************************************************************************)
(* A goroutine's local state, l, at the stage p.                           *)
(***************************************************************************)
Reaped == {"update", "prune", "cleanup"}

Consistent(l, p, detached) ==
  /\ p \notin Registered => l.ctx = "open"
  /\ l.noticed => l.ctx # "open"
  /\ l.status = Killed => l.noticed
  /\ p \in Reaped \/ l.proc = "exited" => l.status \in CommandExits \cup {Killed}
  /\ p \in Reaped => l.exit = IF l.status # 0 THEN l.status
                              ELSE IF l.noticed THEN 1 ELSE 0
  /\ detached => l.ctx # "disconnect"

LocalInv ==
  ExclusionInv /\ \A r \in Runs : Consistent(local[r], pc[r], Detached(r))

LEMMA NewConsistent ==
  ASSUME NEW p, p \notin Registered, NEW detached
  PROVE  Consistent(NewLocal, p, detached)
BY DEF Consistent, NewLocal, Killed, Reaped, Registered

(* What happens to the goroutine and the local state of r, by any step     *)
(* that names r.                                                           *)
LEMMA StepFrame ==
  ASSUME TypeOK, NEW r \in Runs, GoroutineStep(r) \/ CommandStep(r)
  PROVE  \A s \in Runs : s # r => pc'[s] = pc[s] /\ local'[s] = local[s]
<1>1. CASE \/ HandleRun(r) \/ LookUp(r) \/ Admit(r)
  BY <1>1 DEF HandleRun, LookUp, Check, Admit, Goto, Forget, TypeOK
<1>2. CASE InsertRow(r) \/ Register(r) \/ Start(r) \/ StartFails(r)
  BY <1>2 DEF InsertRow, Register, Start, StartFails, Goto, TypeOK
<1>3. CASE Drained(r) \/ DrainedEarly(r) \/ Reap(r)
  BY <1>3 DEF Drained, DrainedEarly, Reap, Goto, TypeOK
<1>4. CASE UpdateRow(r) \/ PruneRows(r) \/ Cleanup(r)
  BY <1>4 DEF UpdateRow, PruneRows, Cleanup, Goto, Forget, TypeOK
<1>5. CASE CommandStep(r)
  BY <1>5 DEF CommandStep, CommandExit, HolderExit, Notice, Timeout, ClientGone, TypeOK
<1>. QED
  BY <1>1, <1>2, <1>3, <1>4, <1>5 DEF GoroutineStep

LEMMA ConsistentStep ==
  ASSUME LocalInv, NEW r \in Runs, GoroutineStep(r) \/ CommandStep(r)
  PROVE  Consistent(local'[r], pc'[r], Detached(r))
<1>. DEFINE l == local[r]
<1>0. /\ TypeOK /\ l \in Local
      /\ local \in [Runs -> Local] /\ pc \in [Runs -> Asking \cup Admitted \cup Over]
      /\ Consistent(l, pc[r], Detached(r))
  BY DEF LocalInv, ExclusionInv, TypeOK
<1>p. l.proc # "none" => pc[r] \in Spawned
  BY DEF LocalInv, ExclusionInv, ProcessIsHolders
<1>1. CASE HandleRun(r) \/ LookUp(r) \/ Admit(r)
  <2>1. pc[r] \notin Registered /\ pc'[r] \notin Registered
    BY <1>0, <1>1 DEF HandleRun, LookUp, Check, Admit, Goto, Registered
  <2>2. local'[r] = NewLocal \/ local'[r] = l
    BY <1>0, <1>1 DEF HandleRun, LookUp, Check, Admit, Forget
  <2>3. Consistent(l, pc'[r], Detached(r))
    BY <1>0, <1>p, <2>1 DEF Consistent, Reaped, Registered, Spawned
  <2>. QED
    BY <2>1, <2>2, <2>3, NewConsistent
<1>2. CASE InsertRow(r)
  <2>1. pc[r] = "insert" /\ pc'[r] = "register" /\ local' = local
    BY <1>0, <1>2 DEF InsertRow, Goto
  <2>. QED
    BY <1>0, <2>1 DEF Consistent, Registered, Reaped
<1>3. CASE Register(r)
  <2>1. /\ pc[r] = "register" /\ pc'[r] = "start"
        /\ local'[r] = [l EXCEPT !.ctx = IF l.gone /\ ~Detached(r) THEN "disconnect"
                                         ELSE "open"]
    BY <1>0, <1>3 DEF Register, Goto
  <2>2. ~l.noticed
    BY <1>0, <2>1 DEF Consistent, Registered
  <2>. QED
    BY <1>0, <2>1, <2>2 DEF Consistent, Registered, Reaped, Local
<1>4. CASE Start(r)
  <2>1. pc'[r] = "drain" /\ local'[r] = [l EXCEPT !.proc = "running"] /\ pc[r] = "start"
    BY <1>0, <1>4 DEF Start, Goto
  <2>. QED
    BY <1>0, <2>1 DEF Consistent, Registered, Reaped, Local
<1>5. CASE StartFails(r) \/ Drained(r) \/ DrainedEarly(r)
  <2>1. /\ pc[r] \in Registered \ Reaped /\ pc'[r] \in Registered \ Reaped
        /\ local' = local
    BY <1>0, <1>5 DEF StartFails, Drained, DrainedEarly, Goto, Registered, Reaped
  <2>. QED
    BY <1>0, <2>1 DEF Consistent
<1>6. CASE Reap(r)
  <2>1. /\ l.proc = "exited" /\ pc[r] = "wait" /\ pc'[r] \in Reaped
        /\ local'[r] = [l EXCEPT !.proc = "none", !.held = FALSE, !.exit = RecordedExit(r)]
    BY <1>0, <1>6 DEF Reap, Goto, Reaped
  <2>2. Reaped \subseteq Registered
    BY DEF Reaped, Registered
  <2>3. RecordedExit(r) = IF l.status # 0 THEN l.status ELSE IF l.noticed THEN 1 ELSE 0
    BY DEF RecordedExit
  <2>. DEFINE m == local'[r]
  <2>4. /\ m.ctx = l.ctx /\ m.noticed = l.noticed /\ m.status = l.status
        /\ m.exit = RecordedExit(r)
    BY <1>0, <2>1 DEF Local
  <2>. HIDE DEF m
  <2>. QED
    BY <1>0, <2>1, <2>2, <2>3, <2>4 DEF Consistent, m
<1>7. CASE UpdateRow(r) \/ PruneRows(r)
  <2>1. pc[r] \in Reaped /\ pc'[r] \in Reaped /\ local' = local
    BY <1>0, <1>7 DEF UpdateRow, PruneRows, Goto, Reaped
  <2>2. Reaped \subseteq Registered
    BY DEF Reaped, Registered
  <2>. QED
    BY <1>0, <2>1, <2>2 DEF Consistent
<1>8. CASE Cleanup(r)
  <2>1. pc'[r] \notin Registered /\ local'[r] = NewLocal
    BY <1>0, <1>8 DEF Cleanup, Goto, Forget, Registered
  <2>. QED
    BY <2>1, NewConsistent
<1>9. CASE CommandStep(r)
  <2>1. pc' = pc
    BY <1>9 DEF CommandStep, CommandExit, HolderExit, Notice, Timeout, ClientGone
  <2>s. Reaped \cap Spawned = {}
    BY DEF Reaped, Spawned
  <2>2. CASE CommandExit(r)
    <3>1. PICK code \in CommandExits, open \in BOOLEAN :
            local' = [local EXCEPT ![r] = Exited(l, code, open)]
      BY <2>2 DEF CommandExit
    <3>2. pc[r] \in Spawned /\ code # Killed
      BY <1>p, <2>2, RunnerAssumption DEF CommandExit, RunnerAssumption, Killed
    <3>3. local'[r] = [l EXCEPT !.proc = "exited", !.status = code, !.held = open]
      BY <1>0, <3>1 DEF Exited
    <3>. QED
      BY <1>0, <2>1, <2>s, <3>2, <3>3 DEF Consistent, Local
  <2>3. CASE HolderExit(r)
    <3>1. local'[r] = [l EXCEPT !.held = FALSE]
      BY <1>0, <2>3 DEF HolderExit
    <3>. QED
      BY <1>0, <2>1, <3>1 DEF Consistent, Local
  <2>4. CASE Notice(r)
    <3>1. pc[r] \in Spawned /\ l.ctx # "open"
      BY <2>4 DEF Notice
    <3>2. CASE local' = [local EXCEPT ![r].noticed = TRUE]
      <4>1. local'[r] = [l EXCEPT !.noticed = TRUE]
        BY <1>0, <3>2
      <4>. QED
        BY <1>0, <2>1, <2>s, <3>1, <4>1 DEF Consistent, Local
    <3>3. ASSUME NEW open \in BOOLEAN,
                 local' = [local EXCEPT ![r] =
                             [Exited(l, Killed, open) EXCEPT !.noticed = TRUE]]
          PROVE  Consistent(local'[r], pc'[r], Detached(r))
      <4>1. local'[r] = [l EXCEPT !.proc = "exited", !.status = Killed, !.held = open,
                                  !.noticed = TRUE]
        BY <1>0, <3>3 DEF Exited, Local
      <4>. QED
        BY <1>0, <2>1, <2>s, <3>1, <4>1 DEF Consistent, Local
    <3>. QED
      BY <2>4, <3>2, <3>3 DEF Notice
  <2>5. CASE Timeout(r)
    <3>1. pc[r] \in Registered /\ local'[r] = [l EXCEPT !.ctx = "timeout"]
      BY <1>0, <2>5 DEF Timeout, Ended, Local
    <3>. QED
      BY <1>0, <2>1, <3>1 DEF Consistent, Local
  <2>6. CASE ClientGone(r)
    <3>1. CASE pc[r] \in Registered /\ ~Detached(r) /\ l.ctx = "open"
      <4>1. local'[r] = [l EXCEPT !.gone = TRUE, !.ctx = "disconnect"]
        BY <1>0, <2>6, <3>1 DEF ClientGone, Ended, Local
      <4>. QED
        BY <1>0, <2>1, <3>1, <4>1 DEF Consistent, Local
    <3>2. CASE ~(pc[r] \in Registered /\ ~Detached(r) /\ l.ctx = "open")
      <4>1. local'[r] = [l EXCEPT !.gone = TRUE]
        BY <1>0, <2>6, <3>2 DEF ClientGone, Ended, Local
      <4>. QED
        BY <1>0, <2>1, <4>1 DEF Consistent, Local
    <3>. QED
      BY <3>1, <3>2
  <2>. QED
    BY <1>9, <2>2, <2>3, <2>4, <2>5, <2>6 DEF CommandStep
<1>. QED
  BY <1>1, <1>2, <1>3, <1>4, <1>5, <1>6, <1>7, <1>8, <1>9 DEF GoroutineStep

LEMMA LocalStep ==
  ASSUME LocalInv, [Next]_vars
  PROVE  LocalInv'
<1>0. ExclusionInv /\ ExclusionInv' /\ TypeOK /\ TypeOK'
  BY ExclusionStep DEF LocalInv, ExclusionInv
<1>1. ASSUME NEW r \in Runs, GoroutineStep(r) \/ CommandStep(r)
      PROVE  LocalInv'
  BY <1>0, <1>1, StepFrame, ConsistentStep DEF LocalInv, Detached
<1>2. CASE OtherStep
  <2>1. CASE Crash
    <3>1. \A r \in Runs : pc'[r] \notin Registered /\ local'[r] = NewLocal
      BY <1>0, <2>1 DEF Crash, TypeOK, Asking, Admitted, Over, Registered
    <3>. QED
      BY <1>0, <3>1, NewConsistent DEF LocalInv, Detached
  <2>2. ASSUME NEW n \in Names, CancelHits(n)
        PROVE  LocalInv'
    <3>. DEFINE c == cancels[n]
    <3>1. c \in Runs /\ pc[c] \in Registered
      BY <1>0, <2>2 DEF CancelHits, ExclusionInv, CancelIsHolders, TypeOK
    <3>2. /\ pc' = pc
          /\ \A s \in Runs : s # c => local'[s] = local[s]
          /\ local'[c] = Ended(local[c], "cancel")
      BY <1>0, <2>2, <3>1 DEF CancelHits, TypeOK
    <3>3. Consistent(local'[c], pc[c], Detached(c))
      <4>1. local[c] \in Local /\ Consistent(local[c], pc[c], Detached(c))
        BY <1>0, <3>1 DEF LocalInv, TypeOK
      <4>2. local'[c] = local[c] \/ local'[c] = [local[c] EXCEPT !.ctx = "cancel"]
        BY <3>2, <4>1 DEF Ended, Local
      <4>. QED
        BY <3>1, <4>1, <4>2 DEF Consistent, Local
    <3>. QED
      BY <1>0, <3>2, <3>3 DEF LocalInv, Detached
  <2>3. CASE \/ \E n \in Names : HandleCancel(n) \/ CancelMisses(n)
             \/ Reload \/ ReloadApps \/ SetClock
    <3>1. pc' = pc /\ local' = local
      BY <2>3 DEF HandleCancel, CancelMisses, Reload, ReloadApps, ReplaceConfig, SetClock
    <3>. QED
      BY <1>0, <3>1 DEF LocalInv, Detached
  <2>. QED
    BY <1>2, <2>1, <2>2, <2>3 DEF OtherStep
<1>3. CASE UNCHANGED vars
  BY <1>0, <1>3 DEF LocalInv, Detached, vars
<1>. QED
  BY <1>1, <1>2, <1>3, StepCases

LEMMA LocalInit ==
  ASSUME Init
  PROVE  LocalInv
<1>1. \A r \in Runs : pc[r] \notin Registered /\ local[r] = NewLocal
  BY DEF Init, Registered
<1>. QED
  BY <1>1, ExclusionInit, NewConsistent DEF LocalInv

(* What a request knows of itself agrees with its stage. *)
LEMMA LocalHolds == Spec => []LocalInv
BY LocalInit, LocalStep, PTL DEF Spec

-----------------------------------------------------------------------------
(***************************************************************************)
(* Refinement.  Admit is Begin, Cleanup is End, what first ends the        *)
(* context of a run in flight is Stop, a refusal is Refuse, Crash is       *)
(* Restart, and every other step stutters.                                 *)
(***************************************************************************)
PhaseOf(p) == CASE p \in Asking   -> "new"
                [] p \in Admitted -> "holding"
                [] OTHER          -> "over"

LEMMA PhaseFacts ==
  /\ phase = [r \in Runs |-> PhaseOf(pc[r])]
  /\ \A r \in Runs : phase[r] = "new" <=> pc[r] \in Asking
  /\ \A r \in Runs : phase[r] = "holding" <=> pc[r] \in Admitted
BY DEF phase, PhaseOf, Asking, Admitted, Registered

LEMMA RefinesInit ==
  ASSUME Init
  PROVE  Exclusive!Init
<1>1. \A r \in Runs : pc[r] = "idle"
  BY DEF Init
<1>2. phase = [r \in Runs |-> "new"]
  <2>1. PhaseOf("idle") = "new"
    BY DEF PhaseOf, Asking, Admitted, Registered
  <2>. QED
    BY <1>1, <2>1, PhaseFacts
<1>3. stopping = {}
  BY <1>1 DEF stopping, Admitted, Registered
<1>. QED
  BY <1>2, <1>3 DEF Exclusive!Init

LEMMA PhaseMove ==
  ASSUME TypeOK, NEW r \in Runs, NEW to, pc' = [pc EXCEPT ![r] = to]
  PROVE  phase' = [phase EXCEPT ![r] = PhaseOf(to)]
<1>1. \A s \in Runs : PhaseOf(pc'[s]) = IF s = r THEN PhaseOf(to) ELSE PhaseOf(pc[s])
  BY DEF TypeOK
<1>2. phase' = [s \in Runs |-> PhaseOf(pc'[s])]
  BY DEF phase, PhaseOf
<1>. HIDE DEF PhaseOf
<1>. QED
  BY <1>1, <1>2, PhaseFacts

(* Steps that change neither the phase of r nor whether it is stopping. *)
LEMMA Stutter ==
  ASSUME TypeOK, NEW r \in Runs,
         \A s \in Runs : s # r => pc'[s] = pc[s] /\ local'[s] = local[s],
         pc'[r] \in Asking <=> pc[r] \in Asking,
         pc'[r] \in Admitted <=> pc[r] \in Admitted,
         pc[r] \in Admitted => local'[r].ctx = local[r].ctx
  PROVE  UNCHANGED <<phase, stopping>>
<1>1. \A s \in Runs : PhaseOf(pc'[s]) = PhaseOf(pc[s])
  BY DEF PhaseOf
<1>2. phase' = phase
  BY <1>1 DEF phase, PhaseOf
<1>3. stopping' = stopping
  BY DEF stopping
<1>. QED
  BY <1>2, <1>3

(* Steps that may end the context of r, and do no more. *)
LEMMA StopOrStutter ==
  ASSUME TypeOK, NEW r \in Runs, pc[r] \in Admitted, pc'[r] \in Admitted,
         \A s \in Runs : s # r => pc'[s] = pc[s] /\ local'[s] = local[s],
         local[r].ctx # "open" => local'[r].ctx # "open"
  PROVE  [Exclusive!Next]_<<phase, stopping>>
<1>1. \A s \in Runs : PhaseOf(pc'[s]) = PhaseOf(pc[s])
  BY DEF PhaseOf, Asking, Admitted, Registered
<1>2. phase' = phase
  BY <1>1 DEF phase, PhaseOf
<1>3. stopping' = stopping \/ stopping' = stopping \cup {r}
  BY DEF stopping
<1>4. phase[r] = "holding"
  BY PhaseFacts
<1>. QED
  BY <1>2, <1>3, <1>4 DEF Exclusive!Next, Exclusive!Stop

LEMMA RefinesStep ==
  ASSUME LocalInv, [Next]_vars
  PROVE  [Exclusive!Next]_<<phase, stopping>>
<1>0. /\ ExclusionInv /\ TypeOK /\ pc \in [Runs -> Asking \cup Admitted \cup Over]
      /\ local \in [Runs -> Local]
  BY DEF LocalInv, ExclusionInv, TypeOK
<1>a. Asking \cap Admitted = {} /\ Asking \cap Over = {} /\ Admitted \cap Over = {}
  BY DEF Asking, Admitted, Registered, Over
<1>b. \A r \in Runs : pc[r] \notin Admitted => r \notin stopping
  BY DEF stopping
<1>c. \A r \in Runs : pc[r] \notin Registered => r \notin stopping
  BY DEF stopping, LocalInv, Consistent
<1>1. ASSUME NEW r \in Runs, GoroutineStep(r)
      PROVE  [Exclusive!Next]_<<phase, stopping>>
  <2>f. \A s \in Runs : s # r => pc'[s] = pc[s] /\ local'[s] = local[s]
    BY <1>0, <1>1, StepFrame
  <2>1. CASE pc[r] \in Asking /\ pc' = [pc EXCEPT ![r] = "refused"]
    <3>1. phase' = [phase EXCEPT ![r] = "over"]
      <4>1. PhaseOf("refused") = "over"
        BY DEF PhaseOf, Asking, Admitted, Registered
      <4>. QED
        BY <1>0, <2>1, <4>1, PhaseMove
    <3>2. pc'[r] \notin Admitted
      BY <1>0, <2>1 DEF Admitted, Registered
    <3>3. stopping' = stopping
      BY <1>a, <2>1, <2>f, <3>2 DEF stopping
    <3>4. phase[r] = "new"
      BY <2>1, PhaseFacts
    <3>. QED
      BY <3>1, <3>3, <3>4 DEF Exclusive!Next, Exclusive!Refuse
  <2>2. CASE (HandleRun(r) \/ LookUp(r)) /\ pc' # [pc EXCEPT ![r] = "refused"]
    <3>1. pc[r] \in Asking /\ pc'[r] \in Asking
      BY <1>0, <2>2 DEF HandleRun, LookUp, Check, Goto, Asking
    <3>. QED
      BY <1>0, <1>a, <2>f, <3>1, Stutter
  <2>3. CASE Admit(r) /\ NameOf[r] \notin active
    <3>1. pc[r] = "admit" /\ pc' = [pc EXCEPT ![r] = "insert"] /\ local' = local
      BY <2>3 DEF Admit, Goto
    <3>2. phase' = [phase EXCEPT ![r] = "holding"]
      <4>1. PhaseOf("insert") = "holding"
        BY DEF PhaseOf, Asking, Admitted, Registered
      <4>. QED
        BY <1>0, <3>1, <4>1, PhaseMove
    <3>3. r \notin stopping /\ r \notin stopping'
      BY <1>c, <3>1 DEF stopping, Registered, LocalInv, Consistent
    <3>4. stopping' = stopping
      BY <2>f, <3>3 DEF stopping
    <3>5. phase[r] = "new"
      BY <3>1, PhaseFacts DEF Asking
    <3>6. Exclusive!Holders(NameOf[r]) = {}
      BY <1>0, <2>3, PhaseFacts, RunnerAssumption DEF RunnerAssumption, ExclusionInv,
         ActiveIsHeld, Exclusive!Holders
    <3>. QED
      BY <3>2, <3>4, <3>5, <3>6 DEF Exclusive!Next, Exclusive!Begin
  <2>4. CASE InsertRow(r)
    <3>1. pc[r] = "insert" /\ pc'[r] = "register" /\ local' = local
      BY <1>0, <2>4 DEF InsertRow, Goto
    <3>. QED
      BY <1>0, <2>f, <3>1, Stutter DEF Admitted, Asking
  <2>5. CASE Register(r)
    <3>1. pc[r] = "register" /\ pc'[r] = "start"
      BY <1>0, <2>5 DEF Register, Goto
    <3>2. local[r].ctx = "open"
      BY <3>1 DEF LocalInv, Consistent, Registered
    <3>. QED
      BY <1>0, <2>f, <3>1, <3>2, StopOrStutter DEF Admitted, Registered
  <2>6. CASE \/ Start(r) \/ StartFails(r) \/ Drained(r) \/ DrainedEarly(r)
             \/ UpdateRow(r) \/ PruneRows(r) \/ Reap(r)
    <3>1. pc[r] \in Registered /\ pc'[r] \in Registered
      BY <1>0, <2>6 DEF Start, StartFails, Drained, DrainedEarly, UpdateRow, PruneRows,
         Reap, Goto, Registered
    <3>2. local'[r].ctx = local[r].ctx
      BY <1>0, <2>6 DEF Start, StartFails, Drained, DrainedEarly, UpdateRow, PruneRows,
         Reap, Local
    <3>. QED
      BY <1>0, <1>a, <2>f, <3>1, <3>2, Stutter DEF Admitted
  <2>7. CASE Cleanup(r)
    <3>1. PICK to \in {"returned", "failed"} :
            pc[r] \in Admitted /\ pc' = [pc EXCEPT ![r] = to]
      BY <2>7 DEF Cleanup, Goto, Admitted, Registered
    <3>2. phase' = [phase EXCEPT ![r] = "over"]
      <4>1. PhaseOf(to) = "over"
        BY DEF PhaseOf, Asking, Admitted, Registered
      <4>. QED
        BY <1>0, <3>1, <4>1, PhaseMove
    <3>3. pc'[r] \notin Admitted
      BY <1>0, <3>1 DEF Admitted, Registered
    <3>4. stopping' = stopping \ {r}
      BY <2>f, <3>3 DEF stopping
    <3>5. phase[r] = "holding"
      BY <3>1, PhaseFacts
    <3>. QED
      BY <3>2, <3>4, <3>5 DEF Exclusive!Next, Exclusive!End
  <2>8. CASE HandleRun(r) \/ LookUp(r)
    <3>1. pc[r] \in Asking
      BY <2>8 DEF HandleRun, LookUp, Check, Goto, Asking
    <3>. QED
      BY <2>1, <2>2, <2>8, <3>1
  <2>9. CASE Admit(r)
    <3>1. NameOf[r] \in active => pc[r] \in Asking /\ pc' = [pc EXCEPT ![r] = "refused"]
      BY <2>9 DEF Admit, Goto, Asking
    <3>. QED
      BY <2>1, <2>3, <2>9, <3>1
  <2>. QED
    BY <1>1, <2>4, <2>5, <2>6, <2>7, <2>8, <2>9 DEF GoroutineStep
<1>2. ASSUME NEW r \in Runs, CommandStep(r)
      PROVE  [Exclusive!Next]_<<phase, stopping>>
  <2>f. /\ \A s \in Runs : s # r => pc'[s] = pc[s] /\ local'[s] = local[s]
        /\ pc' = pc
    BY <1>0, <1>2, StepFrame DEF CommandStep, CommandExit, HolderExit, Notice, Timeout,
       ClientGone
  <2>1. CASE local'[r].ctx = local[r].ctx
    BY <1>0, <2>f, <2>1, Stutter
  <2>2. CASE local'[r].ctx # local[r].ctx
    <3>1. Timeout(r) \/ ClientGone(r)
      <4>1. CommandExit(r) \/ HolderExit(r) \/ Notice(r) => local'[r].ctx = local[r].ctx
        BY <1>0 DEF CommandExit, HolderExit, Notice, Exited, Local
      <4>. QED
        BY <1>2, <2>2, <4>1 DEF CommandStep
    <3>2. pc[r] \in Registered /\ local[r].ctx = "open"
      <4>1. CASE Timeout(r)
        BY <4>1 DEF Timeout
      <4>2. CASE ClientGone(r)
        <5>1. CASE ~(pc[r] \in Registered /\ ~Detached(r))
          <6>1. local'[r] = [local[r] EXCEPT !.gone = TRUE]
            BY <1>0, <4>2, <5>1 DEF ClientGone
          <6>. QED
            BY <1>0, <2>2, <6>1 DEF Local
        <5>2. CASE pc[r] \in Registered /\ ~Detached(r)
          <6>1. local'[r] = Ended([local[r] EXCEPT !.gone = TRUE], "disconnect")
            BY <1>0, <4>2, <5>2 DEF ClientGone
          <6>2. local[r].ctx # "open" => local'[r].ctx = local[r].ctx
            BY <1>0, <6>1 DEF Ended, Local
          <6>. QED
            BY <2>2, <5>2, <6>2
        <5>. QED
          BY <5>1, <5>2
      <4>. QED
        BY <3>1, <4>1, <4>2
    <3>. QED
      BY <1>0, <2>f, <3>2, StopOrStutter DEF Admitted
  <2>. QED
    BY <2>1, <2>2
<1>3. CASE OtherStep
  <2>1. CASE Crash
    <3>. DEFINE arrived == {r \in Runs : pc[r] \in {"lookup", "admit"}}
    <3>1. arrived \in SUBSET {r \in Runs : phase[r] = "new"}
      BY PhaseFacts DEF Asking
    <3>2. \A r \in Runs : PhaseOf(pc'[r]) = IF pc[r] \in Admitted \/ r \in arrived
                                           THEN "over" ELSE PhaseOf(pc[r])
      BY <1>0, <2>1 DEF Crash, PhaseOf, Asking, Admitted, Registered, Over
    <3>3. phase' = [r \in Runs |-> IF phase[r] = "holding" \/ r \in arrived
                                   THEN "over" ELSE phase[r]]
      BY <3>2, PhaseFacts DEF phase, PhaseOf
    <3>4. stopping' = {}
      BY <2>1 DEF Crash, stopping, NewLocal
    <3>. HIDE DEF arrived
    <3>5. Exclusive!Restart
      BY <3>1, <3>3, <3>4, Zenon DEF Exclusive!Restart
    <3>. QED
      BY <3>5 DEF Exclusive!Next
  <2>2. ASSUME NEW n \in Names, CancelHits(n)
        PROVE  [Exclusive!Next]_<<phase, stopping>>
    <3>. DEFINE c == cancels[n]
    <3>1. c \in Runs /\ pc[c] \in Registered
      BY <1>0, <2>2 DEF CancelHits, ExclusionInv, CancelIsHolders, TypeOK
    <3>2. /\ pc' = pc
          /\ \A s \in Runs : s # c => local'[s] = local[s]
          /\ local'[c] = Ended(local[c], "cancel")
      BY <1>0, <2>2, <3>1 DEF CancelHits
    <3>3. local[c].ctx # "open" => local'[c].ctx # "open"
      BY <1>0, <3>1, <3>2 DEF Ended, Local
    <3>. QED
      BY <1>0, <3>1, <3>2, <3>3, StopOrStutter DEF Admitted
  <2>3. CASE \/ \E n \in Names : HandleCancel(n) \/ CancelMisses(n)
             \/ Reload \/ ReloadApps \/ SetClock
    <3>1. pc' = pc /\ local' = local
      BY <2>3 DEF HandleCancel, CancelMisses, Reload, ReloadApps, ReplaceConfig, SetClock
    <3>. QED
      BY <3>1 DEF phase, stopping
  <2>. QED
    BY <1>3, <2>1, <2>2, <2>3 DEF OtherStep
<1>4. CASE UNCHANGED vars
  BY <1>4 DEF vars, phase, stopping
<1>. QED
  BY <1>1, <1>2, <1>3, <1>4, StepCases

(* The runner implements the safety part of its abstract specification:    *)
(* its requests begin, are stopped and end as ExclusiveRuns allows.        *)
THEOREM RefinesExclusiveRuns == Spec => ImplementsExclusiveSafety
<1>1. Init => Exclusive!Init
  BY RefinesInit
<1>2. LocalInv /\ [Next]_vars => [Exclusive!Next]_<<phase, stopping>>
  BY RefinesStep
<1>. QED
  BY <1>1, <1>2, LocalHolds, PTL DEF Spec, ImplementsExclusiveSafety, Exclusive!Safe

-----------------------------------------------------------------------------
(***************************************************************************)
(* A run's row waits for its outcome, the outcome is that of its command,  *)
(* and finished rows are not written again.                                *)
(***************************************************************************)
Fresh == {"idle", "lookup", "admit", "insert"}
Waiting == Admitted \ {"insert", "prune", "cleanup"}
Written == {"prune", "cleanup"}

IdsBelowNext ==
  /\ \A x \in table : 0 < x.id /\ x.id < nextId
  /\ \A r \in Runs : row[r] < nextId

IdsUnique ==
  /\ \A x, y \in table : x.id = y.id => x = y
  /\ \A r, s \in Runs : row[r] > 0 /\ row[r] = row[s] => r = s
  /\ \A r \in Runs : pc[r] \in Fresh => row[r] = 0

OutcomeIsExit ==
  \A r \in Runs : pc[r] \in Written =>
    \A x \in table : x.id = row[r] /\ x.finished => x.exit = local[r].exit

RecordInv == LocalInv /\ IdsBelowNext /\ IdsUnique /\ OwnRowWaits /\ OutcomeIsExit

LEMMA RecordInit ==
  ASSUME Init
  PROVE  RecordInv
BY LocalInit DEF Init, RecordInv, IdsBelowNext, IdsUnique, OwnRowWaits, OutcomeIsExit,
   Admitted, Registered

LEMMA RowTyped ==
  ASSUME NEW x \in Row
  PROVE  x.id \in Nat
BY DEF Row

(* Steps that leave the database and the row numbers alone. *)
LEMMA RecordKept ==
  ASSUME RecordInv, LocalInv',
         UNCHANGED <<table, nextId, row>>,
         \A r \in Runs :
           /\ pc'[r] \in Fresh => pc[r] \in Fresh
           /\ pc'[r] \in Waiting => pc[r] \in Waiting \/ row[r] = 0
           /\ pc'[r] \in Written =>
                (pc[r] \in Written /\ local'[r].exit = local[r].exit) \/ row[r] = 0
  PROVE  RecordInv'
<1>1. TypeOK
  BY DEF RecordInv, LocalInv, ExclusionInv
<1>2. IdsBelowNext' /\ IdsUnique'
  BY DEF RecordInv, IdsBelowNext, IdsUnique
<1>3. OwnRowWaits'
  BY <1>1 DEF RecordInv, OwnRowWaits, Waiting, TypeOK
<1>4. OutcomeIsExit'
  <2>1. \A r \in Runs : row[r] = 0 => \A x \in table : x.id # row[r]
    BY <1>1, RowTyped DEF RecordInv, IdsBelowNext, TypeOK
  <2>. QED
    BY <2>1 DEF RecordInv, OutcomeIsExit
<1>. QED
  BY <1>2, <1>3, <1>4 DEF RecordInv

LEMMA RecordStep ==
  ASSUME RecordInv, [Next]_vars
  PROVE  RecordInv'
<1>0. /\ LocalInv /\ LocalInv' /\ ExclusionInv /\ TypeOK
      /\ pc \in [Runs -> Asking \cup Admitted \cup Over] /\ local \in [Runs -> Local]
      /\ row \in [Runs -> Nat] /\ table \subseteq Row /\ nextId \in Nat \ {0}
  BY LocalStep DEF RecordInv, LocalInv, ExclusionInv, TypeOK
<1>w. Waiting = {"register", "start", "drain", "wait", "update", "abort"}
  BY DEF Waiting, Admitted, Registered
<1>i. \A x \in table : x.id \in Nat
  BY <1>0, RowTyped
<1>1. ASSUME NEW r \in Runs, GoroutineStep(r)
      PROVE  RecordInv'
  <2>f. \A s \in Runs : s # r => pc'[s] = pc[s] /\ local'[s] = local[s]
    BY <1>0, <1>1, StepFrame
  <2>1. CASE HandleRun(r) \/ LookUp(r) \/ Admit(r)
    <3>1. /\ UNCHANGED <<table, nextId, row>>
          /\ pc[r] \in Fresh /\ pc'[r] \in Fresh \cup Over
      BY <1>0, <2>1 DEF HandleRun, LookUp, Check, Admit, Goto, Fresh, Over, dbVars
    <3>. QED
      BY <1>0, <1>w, <2>f, <3>1, RecordKept DEF Fresh, Over, Written
  <2>2. CASE /\ Register(r) \/ Start(r) \/ StartFails(r) \/ Drained(r) \/ DrainedEarly(r)
    <3>1. /\ UNCHANGED <<table, nextId, row>>
          /\ pc[r] \in Waiting /\ pc'[r] \in Waiting
      BY <1>0, <1>w, <2>2 DEF Register, Start, StartFails, Drained, DrainedEarly, Goto, dbVars
    <3>. QED
      BY <1>0, <1>w, <2>f, <3>1, RecordKept DEF Fresh, Written
  <2>3. CASE Reap(r)
    <3>1. /\ UNCHANGED <<table, nextId, row>>
          /\ pc[r] = "wait"
          /\ pc'[r] = "update" \/ (pc'[r] = "cleanup" /\ row[r] = 0)
      BY <1>0, <2>3 DEF Reap, Goto, dbVars
    <3>. QED
      BY <1>0, <1>w, <2>f, <3>1, RecordKept DEF Fresh, Written
  <2>4. CASE Cleanup(r)
    <3>1. UNCHANGED <<table, nextId, row>> /\ pc'[r] \in {"returned", "failed"}
      BY <1>0, <2>4 DEF Cleanup, Goto, dbVars
    <3>. QED
      BY <1>0, <1>w, <2>f, <3>1, RecordKept DEF Fresh, Written
  <2>5. CASE InsertRow(r) /\ UNCHANGED <<table, nextId, row>>
    <3>1. pc[r] = "insert" /\ pc'[r] = "register" /\ row[r] = 0
      BY <1>0, <2>5 DEF InsertRow, Goto, RecordInv, IdsUnique, Fresh
    <3>. QED
      BY <1>0, <1>w, <2>f, <2>5, <3>1, RecordKept DEF Fresh, Written
  <2>6. CASE InsertRow(r) /\ table' = Inserted(table, nextId, NameOf[r], clock)
             /\ row' = [row EXCEPT ![r] = nextId] /\ nextId' = nextId + 1
    <3>. DEFINE new == [id |-> nextId, name |-> NameOf[r], started |-> clock,
                        finished |-> FALSE, exit |-> 0]
    <3>1. /\ table' = table \cup {new}
          /\ new.id = nextId /\ ~new.finished /\ new.name = NameOf[r]
      BY <2>6 DEF Inserted
    <3>2. /\ pc[r] = "insert" /\ pc'[r] = "register"
          /\ row'[r] = nextId /\ \A s \in Runs : s # r => row'[s] = row[s]
      BY <1>0, <2>6 DEF InsertRow, Goto
    <3>. HIDE DEF new
    <3>b. IdsBelowNext
      BY DEF RecordInv
    <3>3. IdsBelowNext'
      BY <1>0, <1>i, <2>6, <3>1, <3>2, <3>b DEF IdsBelowNext
    <3>4. IdsUnique'
      <4>1. \A x \in table : x.id # new.id
        BY <1>0, <1>i, <3>1, <3>b DEF IdsBelowNext
      <4>2. \A s \in Runs : row[s] # nextId
        BY <1>0, <3>b DEF IdsBelowNext
      <4>3. \A x, y \in table' : x.id = y.id => x = y
        BY <3>1, <4>1 DEF RecordInv, IdsUnique
      <4>4. \A s, t \in Runs : row'[s] > 0 /\ row'[s] = row'[t] => s = t
        BY <3>2, <4>2 DEF RecordInv, IdsUnique
      <4>5. \A s \in Runs : pc'[s] \in Fresh => row'[s] = 0
        BY <2>f, <3>2 DEF RecordInv, IdsUnique, Fresh
      <4>. QED
        BY <4>3, <4>4, <4>5 DEF IdsUnique
    <3>5. OwnRowWaits'
      BY <2>f, <3>1, <3>2 DEF RecordInv, OwnRowWaits
    <3>6. OutcomeIsExit'
      BY <2>f, <3>1, <3>2 DEF RecordInv, OutcomeIsExit, Written
    <3>. QED
      BY <1>0, <3>3, <3>4, <3>5, <3>6 DEF RecordInv
  <2>7. CASE UpdateRow(r)
    <3>1. /\ pc[r] = "update" /\ pc'[r] = "prune" /\ UNCHANGED <<row, nextId, local>>
          /\ table' = table \/ table' = Updated(table, row[r], local[r].exit)
      BY <1>0, <2>7 DEF UpdateRow, DbFault, Goto
    <3>2. \A x \in table : x.id = row[r] => ~x.finished
      <4>1. CASE row[r] > 0
        <5>1. PICK y \in table : y.id = row[r] /\ ~y.finished
          BY <3>1, <4>1 DEF RecordInv, OwnRowWaits, Admitted, Registered
        <5>. QED
          BY <5>1 DEF RecordInv, IdsUnique
      <4>2. CASE ~(row[r] > 0)
        BY <1>0, <1>i, <4>2 DEF RecordInv, IdsBelowNext
      <4>. QED
        BY <4>1, <4>2
    <3>3. \A x \in table' : \E y \in table :
            /\ y.id = x.id /\ y.name = x.name
            /\ x.id # row[r] => x = y
            /\ x = y \/ (x = Finish(y, local[r].exit) /\ x.exit = local[r].exit)
      <4>1. \A y \in table : /\ Finish(y, local[r].exit).id = y.id
                             /\ Finish(y, local[r].exit).name = y.name
                             /\ Finish(y, local[r].exit).exit = local[r].exit
        BY <1>0 DEF Finish, Row
      <4>2. CASE table' = table
        BY <4>2
      <4>3. CASE table' = Updated(table, row[r], local[r].exit)
        <5>1. ASSUME NEW x \in table'
              PROVE  \/ x \in table /\ x.id # row[r]
                     \/ \E y \in table : y.id = row[r] /\ x = Finish(y, local[r].exit)
          BY <4>3, <5>1 DEF Updated
        <5>. QED
          BY <4>1, <5>1
      <4>. QED
        BY <3>1, <4>2, <4>3
    <3>4. \A x \in table : x.id # row[r] => x \in table'
      BY <3>1 DEF Updated
    <3>5. IdsBelowNext'
      BY <3>1, <3>3 DEF RecordInv, IdsBelowNext
    <3>6. IdsUnique'
      <4>1. \A x, y \in table' : x.id = y.id => x = y
        <5>1. CASE table' = table
          BY <5>1 DEF RecordInv, IdsUnique
        <5>2. CASE table' = Updated(table, row[r], local[r].exit)
          <6>1. \A y \in table : Finish(y, local[r].exit).id = y.id
            BY <1>0 DEF Finish, Row
          <6>2. \A x, y \in table : x.id = y.id => x = y
            BY DEF RecordInv, IdsUnique
          <6>3. \A x \in table' :
                  \/ x \in table /\ x.id # row[r]
                  \/ \E y \in table : y.id = row[r] /\ x = Finish(y, local[r].exit)
            BY <5>2 DEF Updated
          <6>. QED
            BY <6>1, <6>2, <6>3
        <5>. QED
          BY <3>1, <5>1, <5>2
      <4>2. \A s \in Runs : pc'[s] \in Fresh => pc[s] \in Fresh
        BY <2>f, <3>1 DEF Fresh
      <4>. QED
        BY <3>1, <4>1, <4>2 DEF RecordInv, IdsUnique
    <3>7. OwnRowWaits'
      <4>1. ASSUME NEW s \in Runs,
                   pc'[s] \in Admitted \ {"insert", "prune", "cleanup"}, row'[s] > 0
            PROVE  \E x \in table' : x.id = row'[s] /\ x.name = NameOf[s] /\ ~x.finished
        <5>1. s # r
          BY <3>1, <4>1
        <5>2. PICK x \in table : x.id = row[s] /\ x.name = NameOf[s] /\ ~x.finished
          BY <2>f, <3>1, <4>1, <5>1 DEF RecordInv, OwnRowWaits
        <5>3. row[s] # row[r]
          BY <3>1, <4>1, <5>1 DEF RecordInv, IdsUnique
        <5>. QED
          BY <3>1, <3>4, <5>2, <5>3
      <4>. QED
        BY <4>1 DEF OwnRowWaits
    <3>8. OutcomeIsExit'
      <4>1. ASSUME NEW s \in Runs, pc'[s] \in Written,
                   NEW x \in table', x.id = row'[s], x.finished
            PROVE  x.exit = local'[s].exit
        <5>1. PICK y \in table :
                /\ y.id = x.id /\ y.name = x.name
                /\ x.id # row[r] => x = y
                /\ x = y \/ (x = Finish(y, local[r].exit) /\ x.exit = local[r].exit)
          BY <3>3
        <5>2. CASE s = r
          BY <3>1, <3>2, <4>1, <5>1, <5>2
        <5>3. CASE s # r
          <6>1. pc[s] \in Written
            BY <2>f, <4>1, <5>3
          <6>2. row[s] # row[r]
            BY <1>0, <1>i, <3>1, <4>1, <5>1, <5>3 DEF RecordInv, IdsUnique, IdsBelowNext
          <6>. QED
            BY <3>1, <4>1, <5>1, <6>1, <6>2 DEF RecordInv, OutcomeIsExit
        <5>. QED
          BY <5>2, <5>3
      <4>. QED
        BY <4>1 DEF OutcomeIsExit
    <3>. QED
      BY <1>0, <3>5, <3>6, <3>7, <3>8 DEF RecordInv
  <2>8. CASE PruneRows(r)
    <3>1. /\ pc[r] = "prune" /\ pc'[r] = "cleanup" /\ UNCHANGED <<row, nextId, local>>
          /\ table' = table \/ table' \in Pruned(table, NameOf[r])
      BY <1>0, <2>8 DEF PruneRows, DbFault, Goto
    <3>2. table' \subseteq table
      BY <3>1, PrunedSubset
    <3>3. \A x \in table : x.name # NameOf[r] => x \in table'
      BY <3>1 DEF Pruned
    <3>4. IdsBelowNext' /\ IdsUnique'
      <4>1. \A s \in Runs : pc'[s] \in Fresh => pc[s] \in Fresh
        BY <2>f, <3>1 DEF Fresh
      <4>. QED
        BY <3>1, <3>2, <4>1 DEF RecordInv, IdsBelowNext, IdsUnique
    <3>5. OwnRowWaits'
      <4>1. ASSUME NEW s \in Runs,
                   pc'[s] \in Admitted \ {"insert", "prune", "cleanup"}, row'[s] > 0
            PROVE  \E x \in table' : x.id = row'[s] /\ x.name = NameOf[s] /\ ~x.finished
        <5>1. s # r /\ pc[s] = pc'[s]
          BY <2>f, <3>1, <4>1
        <5>2. PICK x \in table : x.id = row[s] /\ x.name = NameOf[s] /\ ~x.finished
          BY <3>1, <4>1, <5>1 DEF RecordInv, OwnRowWaits
        <5>3. NameOf[s] # NameOf[r]
          BY <1>0, <3>1, <4>1, <5>1 DEF ExclusionInv, OneHolder, Admitted, Registered
        <5>. QED
          BY <3>1, <3>3, <5>2, <5>3
      <4>. QED
        BY <4>1 DEF OwnRowWaits
    <3>6. OutcomeIsExit'
      <4>1. \A s \in Runs : pc'[s] \in Written => pc[s] \in Written
        BY <2>f, <3>1 DEF Written
      <4>. QED
        BY <3>1, <3>2, <4>1 DEF RecordInv, OutcomeIsExit
    <3>. QED
      BY <1>0, <3>4, <3>5, <3>6 DEF RecordInv
  <2>9. CASE InsertRow(r)
    BY <2>5, <2>6, <2>9 DEF InsertRow, DbFault
  <2>. QED
    BY <1>1, <2>1, <2>2, <2>3, <2>4, <2>7, <2>8, <2>9 DEF GoroutineStep
<1>2. ASSUME NEW r \in Runs, CommandStep(r)
      PROVE  RecordInv'
  <2>1. UNCHANGED <<table, nextId, row, pc>>
    BY <1>2 DEF CommandStep, CommandExit, HolderExit, Notice, Timeout, ClientGone, dbVars
  <2>2. local'[r].exit = local[r].exit
    <3>1. CASE CommandExit(r) \/ HolderExit(r)
      BY <1>0, <3>1 DEF CommandExit, HolderExit, Exited, Local
    <3>2. CASE Notice(r)
      BY <1>0, <3>2 DEF Notice, Exited, Local
    <3>3. CASE Timeout(r)
      BY <1>0, <3>3 DEF Timeout, Ended, Local
    <3>4. CASE ClientGone(r)
      BY <1>0, <3>4 DEF ClientGone, Ended, Local
    <3>. QED
      BY <1>2, <3>1, <3>2, <3>3, <3>4 DEF CommandStep
  <2>3. \A s \in Runs : local'[s].exit = local[s].exit
    BY <1>0, <1>2, <2>2, StepFrame
  <2>. QED
    BY <1>0, <2>1, <2>3, RecordKept
<1>3. CASE OtherStep
  <2>1. CASE Crash
    <3>1. UNCHANGED <<table, nextId, row>>
      BY <2>1 DEF Crash, dbVars
    <3>2. \A r \in Runs : pc'[r] \in {"idle"} \cup Over /\ (pc'[r] = "idle" => pc[r] = "idle")
      BY <1>0, <2>1 DEF Crash, Over
    <3>. QED
      BY <1>0, <1>w, <3>1, <3>2, RecordKept DEF Fresh, Written, Over
  <2>2. ASSUME NEW n \in Names, CancelHits(n)
        PROVE  RecordInv'
    <3>. DEFINE c == cancels[n]
    <3>1. c \in Runs
      BY <1>0, <2>2 DEF CancelHits, TypeOK
    <3>2. /\ UNCHANGED <<pc, table, nextId, row>>
          /\ \A s \in Runs : s # c => local'[s] = local[s]
          /\ local'[c] = Ended(local[c], "cancel")
      BY <1>0, <2>2, <3>1 DEF CancelHits, dbVars
    <3>3. \A s \in Runs : local'[s].exit = local[s].exit
      BY <1>0, <3>1, <3>2 DEF Ended, Local
    <3>. QED
      BY <1>0, <3>2, <3>3, RecordKept
  <2>3. CASE \/ \E n \in Names : HandleCancel(n) \/ CancelMisses(n)
             \/ Reload \/ ReloadApps \/ SetClock
    <3>1. UNCHANGED <<pc, local, table, nextId, row>>
      BY <2>3 DEF HandleCancel, CancelMisses, Reload, ReloadApps, ReplaceConfig, SetClock,
         dbVars
    <3>. QED
      BY <1>0, <3>1, RecordKept
  <2>. QED
    BY <1>3, <2>1, <2>2, <2>3 DEF OtherStep
<1>4. CASE UNCHANGED vars
  BY <1>0, <1>4, RecordKept DEF vars, dbVars
<1>. QED
  BY <1>1, <1>2, <1>3, <1>4, StepCases

(* The table holds one row of a run in flight, and an outcome that fits it. *)
LEMMA RecordHolds == Spec => []RecordInv
BY RecordInit, RecordStep, PTL DEF Spec

(* No other run, prune or restart takes away the row that a run has still  *)
(* to finish.                                                              *)
THEOREM RowsWait == Spec => []OwnRowWaits
<1>1. RecordInv => OwnRowWaits
  BY DEF RecordInv
<1>. QED
  BY <1>1, RecordHolds, PTL

(* Success is recorded of no command that failed or was interrupted.       *)
THEOREM SuccessIsTrue == Spec => []NoFalseSuccess
<1>1. ASSUME RecordInv
      PROVE  NoFalseSuccess
  <2>1. SUFFICES ASSUME NEW r \in Runs, JustWritten(r), NEW x \in OutcomeOf(r)
                 PROVE  /\ x.exit = 0 <=> local[r].status = 0 /\ ~local[r].noticed
                        /\ local[r].status # 0 => x.exit = local[r].status
    BY DEF NoFalseSuccess
  <2>2. x.exit = local[r].exit
    BY <1>1, <2>1 DEF RecordInv, OutcomeIsExit, JustWritten, OutcomeOf, Written
  <2>3. local[r].exit = IF local[r].status # 0 THEN local[r].status
                        ELSE IF local[r].noticed THEN 1 ELSE 0
    BY <1>1, <2>1 DEF RecordInv, LocalInv, Consistent, JustWritten, Reaped
  <2>. QED
    BY <2>2, <2>3
<1>. QED
  BY <1>1, RecordHolds, PTL

(* A client that leaves does not change what is recorded of a persistent   *)
(* operation: the exit code is the one its command chose.                  *)
THEOREM PersistentExit == Spec => []PersistentKeepsExit
<1>1. ASSUME RecordInv
      PROVE  PersistentKeepsExit
  <2>1. SUFFICES ASSUME NEW r \in Runs, JustWritten(r), NameOf[r] \in Persistent,
                        local[r].ctx \in {"open", "disconnect"}, NEW x \in OutcomeOf(r)
                 PROVE  x.exit = local[r].status /\ x.exit \in CommandExits
    BY DEF PersistentKeepsExit
  <2>2. x.exit = local[r].exit
    BY <1>1, <2>1 DEF RecordInv, OutcomeIsExit, JustWritten, OutcomeOf, Written
  <2>3. Consistent(local[r], pc[r], TRUE) /\ pc[r] \in Reaped
    BY <1>1, <2>1 DEF RecordInv, LocalInv, Detached, JustWritten, Reaped
  <2>4. ~local[r].noticed
    BY <2>1, <2>3 DEF Consistent
  <2>5. local[r].exit = local[r].status /\ local[r].status \in CommandExits
    BY <2>3, <2>4 DEF Consistent
  <2>. QED
    BY <2>2, <2>5
<1>. QED
  BY <1>1, RecordHolds, PTL

(* A finished row is deleted or stays as it is.                            *)
THEOREM HistoryStays == Spec => FinishedRowsStay
<1>1. ASSUME RecordInv, [Next]_vars
      PROVE  [\A x \in table : x.finished =>
                x \in table' \/ \A y \in table' : y.id # x.id]_vars
  <2>. DEFINE Stays == \A x \in table : x.finished =>
                         x \in table' \/ \A y \in table' : y.id # x.id
  <2>0. /\ table \subseteq Row /\ row \in [Runs -> Nat]
        /\ \A x \in table : x.id \in Nat /\ x.id > 0
        /\ \A x, y \in table : x.id = y.id => x = y
    BY <1>1, RowTyped DEF RecordInv, LocalInv, ExclusionInv, TypeOK, IdsBelowNext, IdsUnique
  <2>1. CASE table' = table
    BY <2>1
  <2>2. ASSUME NEW r \in Runs, GoroutineStep(r)
        PROVE  Stays
    <3>1. CASE InsertRow(r)
      BY <3>1 DEF InsertRow, DbFault, Inserted
    <3>2. CASE UpdateRow(r)
      <4>1. pc[r] = "update"
        BY <3>2 DEF UpdateRow, Goto
      <4>2. \A x \in table : x.finished => x.id # row[r]
        <5>1. CASE row[r] > 0
          <6>1. PICK y \in table : y.id = row[r] /\ ~y.finished
            BY <1>1, <4>1, <5>1 DEF RecordInv, OwnRowWaits, Admitted, Registered
          <6>. QED
            BY <2>0, <6>1
        <5>2. CASE ~(row[r] > 0)
          BY <2>0, <5>2
        <5>. QED
          BY <5>1, <5>2
      <4>3. \A x \in table : x.id # row[r] => x \in table'
        BY <3>2 DEF UpdateRow, DbFault, Updated
      <4>. QED
        BY <4>2, <4>3
    <3>3. CASE PruneRows(r)
      <4>1. table' \subseteq table
        BY <3>3, PrunedSubset DEF PruneRows, DbFault
      <4>. QED
        BY <2>0, <4>1
    <3>4. CASE ~(InsertRow(r) \/ UpdateRow(r) \/ PruneRows(r))
      <4>1. table' = table
        BY <2>2, <3>4 DEF GoroutineStep, HandleRun, LookUp, Check, Admit, Register, Start,
           StartFails, Drained, DrainedEarly, Reap, Cleanup, dbVars
      <4>. QED
        BY <4>1
    <3>. QED
      BY <3>1, <3>2, <3>3, <3>4
  <2>3. CASE \E r \in Runs : CommandStep(r)
    BY <2>3 DEF CommandStep, CommandExit, HolderExit, Notice, Timeout, ClientGone, dbVars
  <2>4. CASE OtherStep
    BY <2>4 DEF OtherStep, HandleCancel, CancelHits, CancelMisses, Reload, ReloadApps,
       ReplaceConfig, Crash, SetClock, dbVars
  <2>5. CASE UNCHANGED vars
    BY <2>5
  <2>. QED
    BY <1>1, <2>2, <2>3, <2>4, <2>5, StepCases
<1>. QED
  BY <1>1, RecordHolds, PTL DEF Spec, FinishedRowsStay

-----------------------------------------------------------------------------
(***************************************************************************)
(* The size of the table, and the rows of the runs that returned.          *)
(***************************************************************************)
Settled == {"prune", "cleanup", "returned"}

(* Every other step leaves the table, and lets a run with a row become     *)
(* settled only from where it was.                                         *)
LEMMA DatabaseStep ==
  ASSUME TypeOK, [Next]_vars
  PROVE  \/ \E r \in Runs : InsertRow(r) \/ UpdateRow(r) \/ PruneRows(r)
         \/ /\ UNCHANGED <<table, row, faults>>
            /\ \A s \in Runs : row[s] > 0 /\ pc'[s] # pc[s] =>
                 pc[s] = "cleanup" \/ pc'[s] \notin Settled
<1>0. /\ pc \in [Runs -> Asking \cup Admitted \cup Over] /\ row \in [Runs -> Nat]
  BY DEF TypeOK
<1>1. ASSUME NEW r \in Runs, GoroutineStep(r), ~(InsertRow(r) \/ UpdateRow(r) \/ PruneRows(r))
      PROVE  /\ UNCHANGED <<table, row, faults>>
             /\ \A s \in Runs : row[s] > 0 /\ pc'[s] # pc[s] =>
                  pc[s] = "cleanup" \/ pc'[s] \notin Settled
  <2>1. UNCHANGED <<table, row, faults>>
    BY <1>1 DEF GoroutineStep, HandleRun, LookUp, Check, Admit, Register, Start, StartFails,
       Drained, DrainedEarly, Reap, Cleanup, dbVars
  <2>2. \A s \in Runs : s # r => pc'[s] = pc[s]
    BY <1>1, StepFrame
  <2>3. row[r] > 0 => pc[r] = "cleanup" \/ pc'[r] \notin Settled
    <3>1. CASE Reap(r)
      BY <1>0, <3>1 DEF Reap, Goto, Settled
    <3>2. CASE HandleRun(r) \/ LookUp(r) \/ Admit(r) \/ Register(r) \/ Start(r)
      BY <1>0, <3>2 DEF HandleRun, LookUp, Check, Admit, Register, Start, Goto, Settled
    <3>3. CASE StartFails(r) \/ Drained(r) \/ DrainedEarly(r) \/ Cleanup(r)
      BY <1>0, <3>3 DEF StartFails, Drained, DrainedEarly, Cleanup, Goto, Settled
    <3>. QED
      BY <1>1, <3>1, <3>2, <3>3 DEF GoroutineStep
  <2>. QED
    BY <2>1, <2>2, <2>3
<1>2. CASE \E r \in Runs : CommandStep(r)
  BY <1>2 DEF CommandStep, CommandExit, HolderExit, Notice, Timeout, ClientGone, dbVars
<1>3. CASE OtherStep
  <2>1. UNCHANGED <<table, row, faults>>
    BY <1>3 DEF OtherStep, HandleCancel, CancelHits, CancelMisses, Reload, ReloadApps,
       ReplaceConfig, Crash, SetClock, dbVars
  <2>2. \A s \in Runs : pc'[s] # pc[s] => pc'[s] = "lost"
    BY <1>3 DEF OtherStep, HandleCancel, CancelHits, CancelMisses, Reload, ReloadApps,
       ReplaceConfig, Crash, SetClock
  <2>. QED
    BY <2>1, <2>2 DEF Settled
<1>4. CASE UNCHANGED vars
  BY <1>4 DEF vars, dbVars
<1>. QED
  BY <1>1, <1>2, <1>3, <1>4, StepCases

RowsFinished ==
  faults = 0 =>
    \A r \in Runs : pc[r] \in Settled => \A x \in table : x.id = row[r] => x.finished

LEMMA RowsFinishedStep ==
  ASSUME RecordInv, RowsFinished, [Next]_vars
  PROVE  RowsFinished'
<1>0. /\ TypeOK /\ pc \in [Runs -> Asking \cup Admitted \cup Over]
      /\ row \in [Runs -> Nat] /\ faults \in Nat
  BY RunnerAssumption DEF RunnerAssumption, RecordInv, LocalInv, ExclusionInv, TypeOK
<1>1. \A x \in table : x.id > 0
  BY DEF RecordInv, IdsBelowNext
<1>2. ASSUME NEW r \in Runs, InsertRow(r)
      PROVE  RowsFinished'
  <2>1. /\ pc[r] = "insert" /\ pc'[r] = "register"
        /\ \A s \in Runs : s # r => pc'[s] = pc[s] /\ row'[s] = row[s]
        /\ faults' = 0 => faults = 0
        /\ \A x \in table' : x \in table \/ x.id = nextId
    BY <1>0, <1>2 DEF InsertRow, Goto, DbFault, Inserted
  <2>2. \A s \in Runs : row[s] # nextId
    BY <1>0 DEF RecordInv, IdsBelowNext
  <2>. QED
    BY <2>1, <2>2 DEF RowsFinished, Settled
<1>3. ASSUME NEW r \in Runs, UpdateRow(r)
      PROVE  RowsFinished'
  <2>1. /\ pc[r] = "update" /\ UNCHANGED row
        /\ \A s \in Runs : s # r => pc'[s] = pc[s]
    BY <1>0, <1>3 DEF UpdateRow, Goto
  <2>2. CASE faults' # 0
    BY <2>2 DEF RowsFinished
  <2>3. CASE faults' = 0
    <3>1. faults = 0 /\ table' = Updated(table, row[r], local[r].exit)
      BY <1>0, <1>3, <2>3 DEF UpdateRow, DbFault
    <3>2. \A x \in table : /\ Finish(x, local[r].exit).id = x.id
                           /\ Finish(x, local[r].exit).finished
      BY <1>0 DEF TypeOK, Finish, Row
    <3>3. \A x \in table' : (x \in table /\ x.id # row[r]) \/ x.finished
      BY <3>1, <3>2 DEF Updated
    <3>. QED
      BY <2>1, <3>1, <3>3 DEF RowsFinished
  <2>. QED
    BY <2>2, <2>3
<1>4. ASSUME NEW r \in Runs, PruneRows(r)
      PROVE  RowsFinished'
  <2>1. /\ pc[r] = "prune" /\ UNCHANGED row
        /\ \A s \in Runs : s # r => pc'[s] = pc[s]
        /\ faults' = 0 => faults = 0
    BY <1>0, <1>4 DEF PruneRows, Goto, DbFault
  <2>2. table' \subseteq table
    BY <1>4, PrunedSubset DEF PruneRows, DbFault
  <2>. QED
    BY <2>1, <2>2 DEF RowsFinished, Settled
<1>5. CASE /\ UNCHANGED <<table, row, faults>>
           /\ \A s \in Runs : row[s] > 0 /\ pc'[s] # pc[s] =>
                pc[s] = "cleanup" \/ pc'[s] \notin Settled
  <2>1. \A s \in Runs : ~(row[s] > 0) => \A x \in table : x.id # row[s]
    BY <1>1
  <2>. QED
    BY <1>5, <2>1 DEF RowsFinished, Settled
<1>. QED
  BY <1>0, <1>2, <1>3, <1>4, <1>5, DatabaseStep

(* While no SQL statement fails, a request that ran to its end leaves no   *)
(* unfinished row: Run and RunApp update the row on every way to their     *)
(* result.                                                                 *)
THEOREM ReturnedFinished == Spec => []ReturnedRunsAreFinished
<1>1. Init => RowsFinished
  BY DEF Init, RowsFinished, Settled
<1>2. RowsFinished => ReturnedRunsAreFinished
  BY DEF RowsFinished, ReturnedRunsAreFinished, Settled
<1>. QED
  BY <1>1, <1>2, RowsFinishedStep, RecordHolds, PTL DEF Spec

(* The requests for n that may still have a row that no Prune has seen.    *)
Unpruned(n) ==
  {r \in Runs : NameOf[r] = n /\ row[r] > 0 /\ pc[r] \notin {"cleanup", "returned"}}

WithRow == {r \in Runs : row[r] > 0}

TableBounded ==
  /\ IsFiniteSet(table) /\ IsFiniteSet(WithRow)
  /\ \A n \in Names :
       Cardinality(RowsOf(table, n)) <= MaxHistory + faults + Cardinality(Unpruned(n))

LEMMA FiniteParts ==
  ASSUME IsFiniteSet(table), IsFiniteSet(WithRow), NEW n
  PROVE  /\ IsFiniteSet(RowsOf(table, n)) /\ Cardinality(RowsOf(table, n)) \in Nat
         /\ IsFiniteSet(Unpruned(n)) /\ Cardinality(Unpruned(n)) \in Nat
<1>1. RowsOf(table, n) \in SUBSET table /\ Unpruned(n) \in SUBSET WithRow
  BY DEF RowsOf, Unpruned, WithRow
<1>2. IsFiniteSet(RowsOf(table, n)) /\ IsFiniteSet(Unpruned(n))
  BY <1>1, FS_Subset
<1>. QED
  BY <1>2, FS_CardinalityType

(* An UPDATE turns each row of a name into one row of the name.            *)
LEMMA UpdatedSize ==
  ASSUME NEW t \in SUBSET Row, IsFiniteSet(t), NEW id \in Nat, NEW code \in Int
  PROVE  /\ IsFiniteSet(Updated(t, id, code))
         /\ \A n : Cardinality(RowsOf(Updated(t, id, code), n)) <= Cardinality(RowsOf(t, n))
<1>. DEFINE After(x) == IF x.id = id THEN Finish(x, code) ELSE x
            Rewrite(s) == [x \in s |-> After(x)]
            Image(s) == {After(x) : x \in s}
<1>1. \A x \in t : After(x).name = x.name
  BY DEF Finish, Row
<1>2. Updated(t, id, code) = Image(t)
  <2>1. \A x \in t : x.id = id => After(x) = Finish(x, code)
    OBVIOUS
  <2>2. \A x \in t : x.id # id => After(x) = x
    OBVIOUS
  <2>. HIDE DEF After
  <2>. QED
    BY <2>1, <2>2 DEF Updated
<1>. HIDE DEF After
<1>3. ASSUME NEW s, IsFiniteSet(s)
      PROVE  IsFiniteSet(Image(s)) /\ Cardinality(Image(s)) <= Cardinality(s)
  <2>1. Rewrite(s) \in Surjection(s, Image(s))
    BY DEF Surjection
  <2>. QED
    BY <1>3, <2>1, FS_Surjection
<1>4. ASSUME NEW n
      PROVE  Cardinality(RowsOf(Updated(t, id, code), n)) <= Cardinality(RowsOf(t, n))
  <2>1. RowsOf(Updated(t, id, code), n) = Image(RowsOf(t, n))
    BY <1>1, <1>2 DEF RowsOf
  <2>2. RowsOf(t, n) \in SUBSET t
    BY DEF RowsOf
  <2>3. IsFiniteSet(RowsOf(t, n))
    BY <2>2, FS_Subset
  <2>. QED
    BY <1>3, <2>1, <2>3
<1>. QED
  BY <1>2, <1>3, <1>4

LEMMA TableBoundedStep ==
  ASSUME RecordInv, TableBounded, [Next]_vars
  PROVE  TableBounded'
<1>0. /\ TypeOK /\ pc \in [Runs -> Asking \cup Admitted \cup Over]
      /\ row \in [Runs -> Nat] /\ faults \in Nat /\ MaxHistory \in Nat
      /\ nextId \in Nat \ {0} /\ NameOf \in [Runs -> Names]
      /\ IsFiniteSet(table) /\ IsFiniteSet(WithRow)
  BY RunnerAssumption, HistoryAssumption
     DEF RunnerAssumption, HistoryAssumption, RecordInv, LocalInv, ExclusionInv, TypeOK,
         TableBounded
<1>1. ASSUME NEW r \in Runs, InsertRow(r)
      PROVE  TableBounded'
  <2>0. /\ pc[r] = "insert" /\ pc'[r] = "register"
        /\ \A s \in Runs : s # r => pc'[s] = pc[s]
    BY <1>0, <1>1 DEF InsertRow, Goto
  <2>1. CASE UNCHANGED <<table, row>> /\ faults' = faults + 1
    <3>1. WithRow' = WithRow /\ \A n : Unpruned(n)' = Unpruned(n)
      BY <2>0, <2>1 DEF WithRow, Unpruned
    <3>2. ASSUME NEW n \in Names
          PROVE  Cardinality(RowsOf(table', n)) <= MaxHistory + faults' + Cardinality(Unpruned(n)')
      BY <1>0, <2>1, <3>1, <3>2, FiniteParts DEF TableBounded
    <3>. QED
      BY <1>0, <2>1, <3>1, <3>2 DEF TableBounded
  <2>2. CASE /\ table' = Inserted(table, nextId, NameOf[r], clock)
             /\ row' = [row EXCEPT ![r] = nextId] /\ faults' = faults
    <3>. DEFINE new == [id |-> nextId, name |-> NameOf[r], started |-> clock,
                        finished |-> FALSE, exit |-> 0]
    <3>1. table' = table \cup {new} /\ new.name = NameOf[r]
      BY <2>2 DEF Inserted
    <3>2. row[r] = 0 /\ row'[r] > 0 /\ \A s \in Runs : s # r => row'[s] = row[s]
      BY <1>0, <2>0, <2>2 DEF RecordInv, IdsUnique, Fresh
    <3>. HIDE DEF new
    <3>3. WithRow' = WithRow \cup {r}
      BY <3>2 DEF WithRow
    <3>4. IsFiniteSet(table') /\ IsFiniteSet(WithRow')
      BY <1>0, <3>1, <3>3, FS_AddElement
    <3>5. ASSUME NEW n \in Names
          PROVE  Cardinality(RowsOf(table', n)) <= MaxHistory + faults' + Cardinality(Unpruned(n)')
      <4>1. CASE n # NameOf[r]
        <5>1. RowsOf(table', n) = RowsOf(table, n)
          BY <3>1, <4>1 DEF RowsOf
        <5>2. Unpruned(n)' = Unpruned(n)
          BY <2>0, <3>2, <4>1 DEF Unpruned
        <5>. QED
          BY <2>2, <5>1, <5>2 DEF TableBounded
      <4>2. CASE n = NameOf[r]
        <5>1. RowsOf(table', n) = RowsOf(table, n) \cup {new}
          BY <3>1, <4>2 DEF RowsOf
        <5>2. Unpruned(n)' = Unpruned(n) \cup {r} /\ r \notin Unpruned(n)
          BY <2>0, <3>2, <4>2 DEF Unpruned
        <5>3. /\ IsFiniteSet(RowsOf(table, n)) /\ Cardinality(RowsOf(table, n)) \in Nat
              /\ IsFiniteSet(Unpruned(n)) /\ Cardinality(Unpruned(n)) \in Nat
          BY <1>0, FiniteParts
        <5>4. Cardinality(RowsOf(table', n)) <= Cardinality(RowsOf(table, n)) + 1
          <6>1. Cardinality(RowsOf(table', n)) =
                  IF new \in RowsOf(table, n) THEN Cardinality(RowsOf(table, n))
                  ELSE Cardinality(RowsOf(table, n)) + 1
            BY <5>1, <5>3, FS_AddElement, Zenon
          <6>. QED
            BY <5>3, <6>1
        <5>5. Cardinality(Unpruned(n)') = Cardinality(Unpruned(n)) + 1
          BY <5>2, <5>3, FS_AddElement
        <5>6. Cardinality(RowsOf(table', n)) \in Nat
          <6>1. IsFiniteSet(RowsOf(table', n))
            BY <5>1, <5>3, FS_AddElement
          <6>. QED
            BY <6>1, FS_CardinalityType
        <5>7. Cardinality(RowsOf(table, n)) <= MaxHistory + faults + Cardinality(Unpruned(n))
          BY DEF TableBounded
        <5>. QED
          BY <1>0, <2>2, <5>3, <5>4, <5>5, <5>6, <5>7
      <4>. QED
        BY <4>1, <4>2
    <3>. QED
      BY <1>0, <3>4, <3>5 DEF TableBounded
  <2>. QED
    BY <1>1, <2>1, <2>2 DEF InsertRow, DbFault
<1>2. ASSUME NEW r \in Runs, UpdateRow(r)
      PROVE  TableBounded'
  <2>1. /\ pc[r] = "update" /\ pc'[r] = "prune" /\ UNCHANGED row
        /\ \A s \in Runs : s # r => pc'[s] = pc[s]
    BY <1>0, <1>2 DEF UpdateRow, Goto
  <2>2. WithRow' = WithRow /\ \A n : Unpruned(n)' = Unpruned(n)
    BY <2>1 DEF WithRow, Unpruned
  <2>3. faults' \in Nat /\ faults <= faults'
    BY <1>0, <1>2 DEF UpdateRow, DbFault
  <2>4. /\ IsFiniteSet(table')
        /\ \A n : Cardinality(RowsOf(table', n)) <= Cardinality(RowsOf(table, n))
    <3>1. CASE table' = table
      BY <1>0, <3>1, FiniteParts
    <3>2. CASE table' = Updated(table, row[r], local[r].exit)
      <4>1. table \in SUBSET Row /\ row[r] \in Nat /\ local[r].exit \in Int
        BY <1>0, LocalTyped DEF TypeOK
      <4>. QED
        BY <1>0, <3>2, <4>1, UpdatedSize
    <3>. QED
      BY <1>2, <3>1, <3>2 DEF UpdateRow, DbFault
  <2>5. ASSUME NEW n \in Names
        PROVE  Cardinality(RowsOf(table', n)) <= MaxHistory + faults' + Cardinality(Unpruned(n)')
    <3>1. Cardinality(RowsOf(table', n)) \in Nat
      <4>1. RowsOf(table', n) \in SUBSET table'
        BY DEF RowsOf
      <4>2. IsFiniteSet(RowsOf(table', n))
        BY <2>4, <4>1, FS_Subset
      <4>. QED
        BY <4>2, FS_CardinalityType
    <3>2. /\ Cardinality(RowsOf(table, n)) \in Nat /\ Cardinality(Unpruned(n)) \in Nat
          /\ Cardinality(RowsOf(table, n)) <= MaxHistory + faults + Cardinality(Unpruned(n))
      BY <1>0, FiniteParts DEF TableBounded
    <3>. QED
      BY <1>0, <2>2, <2>3, <2>4, <3>1, <3>2
  <2>. QED
    BY <1>0, <2>2, <2>4, <2>5 DEF TableBounded
<1>3. ASSUME NEW r \in Runs, PruneRows(r)
      PROVE  TableBounded'
  <2>1. /\ pc[r] = "prune" /\ pc'[r] = "cleanup" /\ UNCHANGED row
        /\ \A s \in Runs : s # r => pc'[s] = pc[s]
    BY <1>0, <1>3 DEF PruneRows, Goto
  <2>2. WithRow' = WithRow /\ \A n : Unpruned(n)' = Unpruned(n) \ {r}
    BY <2>1 DEF WithRow, Unpruned
  <2>3. \A n : n # NameOf[r] => Unpruned(n)' = Unpruned(n)
    BY <2>1 DEF Unpruned
  <2>4. table' \in SUBSET table
    BY <1>3, PrunedSubset DEF PruneRows, DbFault
  <2>5. IsFiniteSet(table')
    BY <1>0, <2>4, FS_Subset
  <2>6. ASSUME NEW n \in Names
        PROVE  Cardinality(RowsOf(table', n)) <= MaxHistory + faults' + Cardinality(Unpruned(n)')
    <3>1. /\ IsFiniteSet(RowsOf(table, n)) /\ Cardinality(RowsOf(table, n)) \in Nat
          /\ IsFiniteSet(Unpruned(n)) /\ Cardinality(Unpruned(n)) \in Nat
          /\ Cardinality(RowsOf(table, n)) <= MaxHistory + faults + Cardinality(Unpruned(n))
      BY <1>0, FiniteParts DEF TableBounded
    <3>2. RowsOf(table', n) \in SUBSET RowsOf(table, n)
      BY <2>4 DEF RowsOf
    <3>3. /\ Cardinality(RowsOf(table', n)) <= Cardinality(RowsOf(table, n))
          /\ Cardinality(RowsOf(table', n)) \in Nat
      BY <3>1, <3>2, FS_Subset, FS_CardinalityType
    <3>4. Cardinality(Unpruned(n) \ {r}) \in Nat
          /\ Cardinality(Unpruned(n)) <= Cardinality(Unpruned(n) \ {r}) + 1
      <4>1. /\ IsFiniteSet(Unpruned(n) \ {r})
            /\ Cardinality(Unpruned(n) \ {r}) =
                 IF r \in Unpruned(n) THEN Cardinality(Unpruned(n)) - 1
                 ELSE Cardinality(Unpruned(n))
        BY <3>1, FS_RemoveElement, Zenon
      <4>2. Cardinality(Unpruned(n) \ {r}) \in Nat
        BY <4>1, FS_CardinalityType
      <4>. QED
        BY <3>1, <4>1, <4>2
    <3>5. CASE UNCHANGED table /\ faults' = faults + 1
      BY <1>0, <2>2, <3>1, <3>3, <3>4, <3>5
    <3>6. CASE table' \in Pruned(table, NameOf[r]) /\ faults' = faults
      <4>1. CASE n # NameOf[r]
        BY <1>0, <2>3, <3>1, <3>3, <3>6, <4>1
      <4>2. CASE n = NameOf[r]
        <5>1. PICK kept \in Newest(RowsOf(table, n), MaxHistory) :
                table' = {x \in table : x.name = n => x \in kept}
          BY <3>6, <4>2 DEF Pruned
        <5>2. kept \in SUBSET RowsOf(table, n)
          BY <5>1 DEF Newest
        <5>3. RowsOf(table', n) = kept
          BY <5>1, <5>2 DEF RowsOf
        <5>4. Cardinality(kept) <= MaxHistory
          <6>1. \/ Cardinality(kept) = MaxHistory
                \/ kept = RowsOf(table, n) /\ Cardinality(RowsOf(table, n)) < MaxHistory
            BY <5>1 DEF Newest
          <6>. QED
            BY <1>0, <3>1, <6>1
        <5>. QED
          BY <1>0, <2>2, <3>3, <3>4, <3>6, <5>3, <5>4
      <4>. QED
        BY <4>1, <4>2
    <3>. QED
      BY <1>3, <3>5, <3>6 DEF PruneRows, DbFault
  <2>. QED
    BY <1>0, <2>2, <2>5, <2>6 DEF TableBounded
<1>4. CASE /\ UNCHANGED <<table, row, faults>>
           /\ \A s \in Runs : row[s] > 0 /\ pc'[s] # pc[s] =>
                pc[s] = "cleanup" \/ pc'[s] \notin Settled
  <2>1. WithRow' = WithRow /\ \A n : Unpruned(n) \in SUBSET Unpruned(n)'
    BY <1>4 DEF WithRow, Unpruned, Settled
  <2>2. ASSUME NEW n \in Names
        PROVE  Cardinality(RowsOf(table', n)) <= MaxHistory + faults' + Cardinality(Unpruned(n)')
    <3>1. /\ Cardinality(RowsOf(table, n)) \in Nat
          /\ IsFiniteSet(Unpruned(n)) /\ Cardinality(Unpruned(n)) \in Nat
          /\ Cardinality(RowsOf(table, n)) <= MaxHistory + faults + Cardinality(Unpruned(n))
      BY <1>0, FiniteParts DEF TableBounded
    <3>2. Unpruned(n)' \in SUBSET WithRow
      BY <2>1 DEF WithRow, Unpruned
    <3>3. IsFiniteSet(Unpruned(n)')
      BY <1>0, <3>2, FS_Subset
    <3>4. /\ Cardinality(Unpruned(n)) <= Cardinality(Unpruned(n)')
          /\ Cardinality(Unpruned(n)') \in Nat
      BY <2>1, <3>3, FS_Subset, FS_CardinalityType
    <3>. QED
      BY <1>0, <1>4, <3>1, <3>4
  <2>. QED
    BY <1>0, <1>4, <2>1, <2>2 DEF TableBounded
<1>. QED
  BY <1>0, <1>1, <1>2, <1>3, <1>4, DatabaseStep

(* Beyond maxHistoryPerOperation rows of a name, the table holds only the  *)
(* rows of requests that have not pruned, and one for each SQL statement   *)
(* that failed, through restarts too.                                      *)
THEOREM TableStaysBounded == Spec => []RowsBounded
<1>1. ASSUME Init
      PROVE  TableBounded
  <2>1. table = {} /\ WithRow = {} /\ faults = 0
    BY <1>1, RunnerAssumption DEF RunnerAssumption, Init, WithRow
  <2>2. \A n : RowsOf(table, n) = {} /\ Unpruned(n) = {}
    BY <1>1, <2>1 DEF RowsOf, Unpruned, WithRow
  <2>. QED
    BY <2>1, <2>2, FS_EmptySet, HistoryAssumption DEF HistoryAssumption, TableBounded
<1>2. ASSUME RecordInv, TableBounded
      PROVE  RowsBounded
  <2>. DEFINE Open(n) == {r \in Runs : NameOf[r] = n /\ row[r] > 0 /\ pc[r] # "returned"}
  <2>1. ASSUME NEW n \in Names
        PROVE  Cardinality(RowsOf(table, n)) <= MaxHistory + faults + Cardinality(Open(n))
    <3>0. faults \in Nat /\ MaxHistory \in Nat /\ IsFiniteSet(table) /\ IsFiniteSet(WithRow)
      BY <1>2, RunnerAssumption, HistoryAssumption
         DEF RunnerAssumption, HistoryAssumption, RecordInv, LocalInv, ExclusionInv, TypeOK,
             TableBounded
    <3>1. /\ Cardinality(RowsOf(table, n)) \in Nat /\ Cardinality(Unpruned(n)) \in Nat
          /\ Cardinality(RowsOf(table, n)) <= MaxHistory + faults + Cardinality(Unpruned(n))
      BY <1>2, <3>0, FiniteParts DEF TableBounded
    <3>2. Open(n) \in SUBSET WithRow /\ Unpruned(n) \in SUBSET Open(n)
      BY DEF WithRow, Unpruned
    <3>. HIDE DEF Open
    <3>3. IsFiniteSet(Open(n))
      BY <3>0, <3>2, FS_Subset
    <3>4. Cardinality(Unpruned(n)) <= Cardinality(Open(n)) /\ Cardinality(Open(n)) \in Nat
      BY <3>2, <3>3, FS_Subset, FS_CardinalityType
    <3>. QED
      BY <3>0, <3>1, <3>4
  <2>. QED
    BY <2>1 DEF RowsBounded
<1>. QED
  BY <1>1, <1>2, TableBoundedStep, RecordHolds, PTL DEF Spec

=============================================================================
