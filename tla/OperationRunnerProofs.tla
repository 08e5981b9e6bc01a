------------------------ MODULE OperationRunnerProofs ------------------------
(***************************************************************************)
(* What holds of OperationRunner for every set of names, of requests and   *)
(* of exit statuses, and every value of the bounds.                        *)
(***************************************************************************)
EXTENDS OperationRunner, FiniteSetTheorems, TLAPS

(* Every step is one of these. *)
GoroutineStep(r) ==
  \/ HandleRun(r) \/ LookUp(r) \/ Admit(r) \/ InsertRow(r) \/ Register(r)
  \/ Start(r) \/ StartFails(r) \/ Drained(r) \/ DrainedEarly(r) \/ Reap(r)
  \/ UpdateRow(r) \/ PruneRows(r) \/ Cleanup(r)

CommandStep(r) ==
  CommandExit(r) \/ HolderExit(r) \/ Notice(r) \/ Timeout(r) \/ ClientGone(r)

OtherStep ==
  \/ \E n \in Names : HandleCancel(n) \/ CancelHits(n) \/ CancelMisses(n)
  \/ Reload \/ ReloadApps \/ Crash \/ SetClock

LEMMA StepCases ==
  ASSUME [Next]_vars
  PROVE  \/ \E r \in Runs : GoroutineStep(r) \/ CommandStep(r)
         \/ OtherStep
         \/ UNCHANGED vars
BY DEF Next, Run, RunApp, Body, Command, Cancel, CancelApp, Delete,
       GoroutineStep, CommandStep, OtherStep

-----------------------------------------------------------------------------
(***************************************************************************)
(* The statements keep a table of rows.                                    *)
(***************************************************************************)
LEMMA InsertedTyped ==
  ASSUME NEW t \in SUBSET Row, NEW id \in Nat, NEW name \in Names, NEW now \in Nat
  PROVE  Inserted(t, id, name, now) \in SUBSET Row
<1>1. [id |-> id, name |-> name, started |-> now, finished |-> FALSE, exit |-> 0]
        \in Row
  BY DEF Row
<1>. QED
  BY <1>1, Zenon DEF Inserted

LEMMA UpdatedTyped ==
  ASSUME NEW t \in SUBSET Row, NEW id \in Nat, NEW code \in Int
  PROVE  Updated(t, id, code) \in SUBSET Row
<1>1. \A x \in Row : Finish(x, code) \in Row
  BY DEF Finish, Row
<1>. QED
  BY <1>1, Zenon DEF Updated

LEMMA PrunedSubset ==
  ASSUME NEW t, NEW name, NEW left \in Pruned(t, name)
  PROVE  left \subseteq t
BY DEF Pruned

-----------------------------------------------------------------------------
LEMMA CodesAreInts == CommandExits \cup {0, 1, Killed} \subseteq Int
<1>1. CommandExits \subseteq Int
  BY RunnerAssumption DEF RunnerAssumption
<1>2. {0, 1, Killed} \subseteq Int
  BY DEF Killed
<1>. QED
  BY <1>1, <1>2, Zenon

(* The changes that the actions make to a goroutine's local state. *)
LEMMA LocalTyped ==
  ASSUME NEW l \in Local
  PROVE  /\ l.exit \in Int
         /\ NewLocal \in Local
         /\ [l EXCEPT !.held = FALSE] \in Local
         /\ [l EXCEPT !.noticed = TRUE] \in Local
         /\ [l EXCEPT !.gone = TRUE] \in Local
         /\ \A why \in {"timeout", "cancel", "disconnect"} : Ended(l, why) \in Local
         /\ \A code \in CommandExits \cup {0, Killed}, open \in BOOLEAN :
              Exited(l, code, open) \in Local
<1>1. l.exit \in Int
  <2>1. l.exit \in CommandExits \cup {0, 1, Killed}
    BY DEF Local
  <2>. QED
    BY <2>1, CodesAreInts, Zenon
<1>2. NewLocal \in Local
  BY DEF NewLocal, Local
<1>3. /\ [l EXCEPT !.held = FALSE] \in Local
      /\ [l EXCEPT !.noticed = TRUE] \in Local
      /\ [l EXCEPT !.gone = TRUE] \in Local
  BY DEF Local
<1>4. ASSUME NEW why \in {"timeout", "cancel", "disconnect"}
      PROVE  Ended(l, why) \in Local
  <2>1. [l EXCEPT !.ctx = why] \in Local
    BY DEF Local
  <2>2. Ended(l, why) = IF l.ctx = "open" THEN [l EXCEPT !.ctx = why] ELSE l
    BY DEF Ended, Local
  <2>. QED
    BY <2>1, <2>2
<1>5. ASSUME NEW code \in CommandExits \cup {0, Killed}, NEW open \in BOOLEAN
      PROVE  Exited(l, code, open) \in Local
  BY DEF Exited, Local
<1>. QED
  BY <1>1, <1>2, <1>3, <1>4, <1>5

LEMMA TypeStep ==
  ASSUME TypeOK, [Next]_vars
  PROVE  TypeOK'
<1>. USE RunnerAssumption DEF RunnerAssumption
<1>1. ASSUME NEW r \in Runs, GoroutineStep(r)
      PROVE  TypeOK'
  <2>. USE <1>1
  <2>n. NewLocal \in Local
    BY LocalTyped DEF TypeOK
  <2>1. CASE HandleRun(r) \/ LookUp(r)
    BY <2>1, <2>n DEF HandleRun, LookUp, Check, Goto, Forget, TypeOK, runnerVars,
       dbVars, Asking, Over
  <2>2. CASE Admit(r)
    BY <2>2, <2>n DEF Admit, Goto, Forget, TypeOK, dbVars, Admitted, Over
  <2>3. CASE InsertRow(r)
    <3>1. Inserted(table, nextId, NameOf[r], clock) \in SUBSET Row
      BY InsertedTyped DEF TypeOK
    <3>. QED
      BY <2>3, <3>1 DEF InsertRow, DbFault, Goto, TypeOK, runnerVars, Admitted
  <2>4. CASE Register(r)
    BY <2>4 DEF Register, Goto, TypeOK, dbVars, Admitted, Registered, Local
  <2>5. CASE Start(r)
    BY <2>5 DEF Start, Goto, TypeOK, runnerVars, dbVars, Admitted, Registered, Local
  <2>6. CASE StartFails(r) \/ Drained(r) \/ DrainedEarly(r)
    BY <2>6 DEF StartFails, Drained, DrainedEarly, Goto, TypeOK, runnerVars, dbVars,
       Admitted, Registered
  <2>7. CASE Reap(r)
    <3>1. RecordedExit(r) \in CommandExits \cup {0, 1, Killed}
      BY DEF RecordedExit, TypeOK, Local
    <3>2. [local[r] EXCEPT !.proc = "none", !.held = FALSE, !.exit = RecordedExit(r)]
            \in Local
      <4>1. local[r] \in Local
        BY DEF TypeOK
      <4>. HIDE DEF RunnerAssumption
      <4>. QED
        BY <3>1, <4>1 DEF Local
    <3>3. local' \in [Runs -> Local]
      BY <2>7, <3>2 DEF Reap, TypeOK
    <3>. QED
      BY <2>7, <3>3 DEF Reap, Goto, TypeOK, runnerVars, dbVars, Admitted,
         Registered
  <2>8. CASE UpdateRow(r)
    <3>1. Updated(table, row[r], local[r].exit) \in SUBSET Row
      BY UpdatedTyped, LocalTyped DEF TypeOK
    <3>. QED
      BY <2>8, <3>1 DEF UpdateRow, DbFault, Goto, TypeOK, runnerVars, Admitted,
         Registered
  <2>9. CASE PruneRows(r)
    <3>1. table' \subseteq table
      BY <2>9, PrunedSubset DEF PruneRows, DbFault
    <3>. QED
      BY <2>9, <3>1 DEF PruneRows, DbFault, Goto, TypeOK, runnerVars, Admitted,
         Registered
  <2>10. CASE Cleanup(r)
    BY <2>10, <2>n DEF Cleanup, Goto, Forget, TypeOK, dbVars, Over
  <2>. QED
    BY <2>1, <2>2, <2>3, <2>4, <2>5, <2>6, <2>7, <2>8, <2>9, <2>10 DEF GoroutineStep
<1>2. ASSUME NEW r \in Runs, CommandStep(r)
      PROVE  TypeOK'
  <2>1. local' \in [Runs -> Local]
    <3>0. local[r] \in Local /\ local \in [Runs -> Local]
      BY DEF TypeOK
    <3>1. CASE CommandExit(r)
      <4>1. PICK code \in CommandExits, open \in BOOLEAN :
              local' = [local EXCEPT ![r] = Exited(local[r], code, open)]
        BY <3>1 DEF CommandExit
      <4>2. Exited(local[r], code, open) \in Local
        BY <3>0, LocalTyped
      <4>. QED
        BY <3>0, <4>1, <4>2
    <3>2. CASE HolderExit(r)
      <4>1. [local[r] EXCEPT !.held = FALSE] \in Local
        BY <3>0, LocalTyped
      <4>. QED
        BY <3>0, <3>2, <4>1 DEF HolderExit
    <3>3. CASE Notice(r)
      <4>1. CASE local' = [local EXCEPT ![r].noticed = TRUE]
        <5>1. [local[r] EXCEPT !.noticed = TRUE] \in Local
          BY <3>0, LocalTyped
        <5>. QED
          BY <3>0, <4>1, <5>1
      <4>2. ASSUME NEW open \in BOOLEAN,
                   local' = [local EXCEPT ![r] =
                      [Exited(local[r], Killed, open) EXCEPT !.noticed = TRUE]]
            PROVE  local' \in [Runs -> Local]
        <5>1. Exited(local[r], Killed, open) \in Local
          BY <3>0, LocalTyped
        <5>2. [Exited(local[r], Killed, open) EXCEPT !.noticed = TRUE] \in Local
          BY <5>1, LocalTyped
        <5>. QED
          BY <3>0, <4>2, <5>2
      <4>. QED
        BY <3>3, <4>1, <4>2 DEF Notice
    <3>4. CASE Timeout(r)
      <4>1. Ended(local[r], "timeout") \in Local
        BY <3>0, LocalTyped
      <4>. QED
        BY <3>0, <3>4, <4>1 DEF Timeout
    <3>5. CASE ClientGone(r)
      <4>. DEFINE left == [local[r] EXCEPT !.gone = TRUE]
      <4>1. left \in Local
        BY <3>0, LocalTyped
      <4>2. Ended(left, "disconnect") \in Local
        BY <4>1, LocalTyped
      <4>3. \/ local' = [local EXCEPT ![r] = left]
            \/ local' = [local EXCEPT ![r] = Ended(left, "disconnect")]
        BY <3>5 DEF ClientGone
      <4>. QED
        BY <3>0, <4>1, <4>2, <4>3
    <3>. QED
      BY <1>2, <3>1, <3>2, <3>3, <3>4, <3>5 DEF CommandStep
  <2>2. UNCHANGED <<runnerVars, pc, row, dbVars>>
    BY <1>2 DEF CommandStep, CommandExit, HolderExit, Notice, Timeout, ClientGone
  <2>. QED
    BY <2>1, <2>2 DEF TypeOK, runnerVars, dbVars
<1>3. ASSUME OtherStep
      PROVE  TypeOK'
  <2>1. CASE \E n \in Names : HandleCancel(n) \/ CancelMisses(n)
    BY <2>1 DEF HandleCancel, CancelMisses, TypeOK, dbVars
  <2>2. ASSUME NEW n \in Names, CancelHits(n)
        PROVE  TypeOK'
    BY <2>2 DEF CancelHits, Ended, TypeOK, Local, dbVars
  <2>3. CASE Reload \/ ReloadApps
    BY <2>3 DEF Reload, ReloadApps, ReplaceConfig, TypeOK, dbVars
  <2>4. CASE Crash
    BY <2>4 DEF Crash, TypeOK, Over, NewLocal, Local, dbVars
  <2>5. CASE SetClock
    BY <2>5 DEF SetClock, TypeOK, runnerVars
  <2>. QED
    BY <1>3, <2>1, <2>2, <2>3, <2>4, <2>5 DEF OtherStep
<1>4. CASE UNCHANGED vars
  BY <1>4 DEF TypeOK, vars, runnerVars, dbVars
<1>. QED
  BY <1>1, <1>2, <1>3, <1>4, StepCases

LEMMA TypeInit ==
  ASSUME Init
  PROVE  TypeOK
BY RunnerAssumption DEF RunnerAssumption, Init, TypeOK, Asking, NewLocal, Local

(* Every variable keeps its type in every behaviour of the runner. *)
THEOREM TypeCorrect == Spec => []TypeOK
BY TypeInit, TypeStep, PTL DEF Spec

-----------------------------------------------------------------------------
(***************************************************************************)
(* Exclusion.  OneRunPerName speaks of processes; what keeps it is that    *)
(* the active set names exactly the requests between Admit and Cleanup,    *)
(* that there is one of them for a name, and that only these have a        *)
(* process or a cancel function.                                           *)
(***************************************************************************)
OneHolder ==
  \A r, s \in Runs :
    (pc[r] \in Admitted /\ pc[s] \in Admitted /\ NameOf[r] = NameOf[s]) => r = s

ActiveIsHeld ==
  \A n \in Names : n \in active <=> \E r \in Runs : NameOf[r] = n /\ pc[r] \in Admitted

CancelIsHolders ==
  /\ \A n \in Names : cancels[n] # NoRun =>
       NameOf[cancels[n]] = n /\ pc[cancels[n]] \in Registered
  /\ \A r \in Runs : pc[r] \in Registered => cancels[NameOf[r]] = r

ProcessIsHolders == \A r \in Runs : local[r].proc # "none" => pc[r] \in Spawned

ExclusionInv ==
  TypeOK /\ OneHolder /\ ActiveIsHeld /\ CancelIsHolders /\ ProcessIsHolders

LEMMA ExclusionInit ==
  ASSUME Init
  PROVE  ExclusionInv
<1>1. TypeOK
  BY TypeInit
<1>2. OneHolder /\ ActiveIsHeld /\ CancelIsHolders
  BY RunnerAssumption DEF RunnerAssumption, Init, OneHolder, ActiveIsHeld,
     CancelIsHolders, Admitted, Registered
<1>3. ProcessIsHolders
  BY DEF Init, ProcessIsHolders, NewLocal
<1>. QED
  BY <1>1, <1>2, <1>3 DEF ExclusionInv

(* A step that moves one goroutine without touching the two tables. *)
LEMMA QuietMove ==
  ASSUME ExclusionInv, TypeOK', NEW r \in Runs, NEW to,
         pc' = [pc EXCEPT ![r] = to],
         pc[r] \in Admitted <=> to \in Admitted,
         pc[r] \in Registered <=> to \in Registered,
         UNCHANGED <<active, cancels>>
  PROVE  OneHolder' /\ ActiveIsHeld' /\ CancelIsHolders'
<1>. USE RunnerAssumption DEF RunnerAssumption
<1>1. /\ \A s \in Runs : pc'[s] \in Admitted <=> pc[s] \in Admitted
      /\ \A s \in Runs : pc'[s] \in Registered <=> pc[s] \in Registered
  BY DEF ExclusionInv, TypeOK
<1>2. OneHolder'
  BY <1>1 DEF ExclusionInv, OneHolder
<1>3. ActiveIsHeld'
  BY <1>1 DEF ExclusionInv, ActiveIsHeld
<1>4. CancelIsHolders'
  <2>1. \A n \in Names : cancels[n] # NoRun => cancels[n] \in Runs
    BY DEF ExclusionInv, TypeOK
  <2>. QED
    BY <1>1, <2>1 DEF ExclusionInv, CancelIsHolders
<1>. QED
  BY <1>2, <1>3, <1>4

LEMMA ExclusionStep ==
  ASSUME ExclusionInv, [Next]_vars
  PROVE  ExclusionInv'
<1>. USE RunnerAssumption DEF RunnerAssumption
<1>0. TypeOK /\ TypeOK'
  BY TypeStep DEF ExclusionInv
<1>1. ASSUME NEW r \in Runs, GoroutineStep(r)
      PROVE  ExclusionInv'
  <2>. USE <1>0, <1>1
  <2>1. CASE HandleRun(r) \/ LookUp(r)
    <3>1. PICK to \in {"lookup", "admit", "refused"} :
            pc[r] \in Asking /\ pc' = [pc EXCEPT ![r] = to]
      BY <2>1 DEF HandleRun, LookUp, Check, Goto, Asking
    <3>2. UNCHANGED <<active, cancels>>
      BY <2>1 DEF HandleRun, LookUp, Check, runnerVars
    <3>3. OneHolder' /\ ActiveIsHeld' /\ CancelIsHolders'
      BY <3>1, <3>2, QuietMove DEF Asking, Admitted, Registered
    <3>4. ProcessIsHolders'
      <4>1. \A s \in Runs : s # r => local'[s] = local[s] /\ pc'[s] = pc[s]
        BY <2>1, <3>1 DEF HandleRun, LookUp, Check, Forget, TypeOK
      <4>2. local'[r].proc = "none"
        BY <2>1, <3>1 DEF HandleRun, LookUp, Check, Forget, NewLocal, TypeOK,
           ExclusionInv, ProcessIsHolders, Asking, Spawned
      <4>. QED
        BY <4>1, <4>2 DEF ExclusionInv, ProcessIsHolders
    <3>. QED
      BY <3>3, <3>4 DEF ExclusionInv
  <2>2. CASE Admit(r)
    <3>1. CASE NameOf[r] \in active
      <4>1. /\ pc[r] = "admit"
            /\ pc' = [pc EXCEPT ![r] = "refused"]
            /\ UNCHANGED <<active, cancels>>
            /\ local' = [local EXCEPT ![r] = NewLocal]
        BY <2>2, <3>1 DEF Admit, Goto, Forget
      <4>2. OneHolder' /\ ActiveIsHeld' /\ CancelIsHolders'
        BY <4>1, QuietMove DEF Admitted, Registered
      <4>3. ProcessIsHolders'
        BY <4>1 DEF ExclusionInv, ProcessIsHolders, TypeOK, NewLocal
      <4>. QED
        BY <4>2, <4>3 DEF ExclusionInv
    <3>2. CASE NameOf[r] \notin active
      <4>1. /\ pc[r] = "admit"
            /\ pc' = [pc EXCEPT ![r] = "insert"]
            /\ active' = active \cup {NameOf[r]}
            /\ UNCHANGED <<local, cancels>>
        BY <2>2, <3>2 DEF Admit, Goto
      <4>2. OneHolder'
        BY <3>2, <4>1 DEF ExclusionInv, OneHolder, ActiveIsHeld, TypeOK
      <4>3. ActiveIsHeld'
        BY <4>1 DEF ExclusionInv, ActiveIsHeld, TypeOK, Admitted, Registered
      <4>4. CancelIsHolders'
        <5>1. \A n \in Names : cancels[n] # NoRun => cancels[n] \in Runs
          BY DEF TypeOK
        <5>. QED
          BY <4>1, <5>1 DEF ExclusionInv, CancelIsHolders, TypeOK, Registered
      <4>5. ProcessIsHolders'
        BY <4>1 DEF ExclusionInv, ProcessIsHolders, TypeOK, Spawned
      <4>. QED
        BY <4>2, <4>3, <4>4, <4>5 DEF ExclusionInv
    <3>. QED
      BY <3>1, <3>2
  <2>3. CASE InsertRow(r)
    <3>1. /\ pc[r] = "insert"
          /\ pc' = [pc EXCEPT ![r] = "register"]
          /\ UNCHANGED <<active, cancels, local>>
      BY <2>3 DEF InsertRow, Goto, runnerVars
    <3>2. OneHolder' /\ ActiveIsHeld' /\ CancelIsHolders'
      BY <3>1, QuietMove DEF Admitted, Registered
    <3>3. ProcessIsHolders'
      BY <3>1 DEF ExclusionInv, ProcessIsHolders, TypeOK, Spawned
    <3>. QED
      BY <3>2, <3>3 DEF ExclusionInv
  <2>4. CASE Register(r)
    <3>1. /\ pc[r] = "register"
          /\ pc' = [pc EXCEPT ![r] = "start"]
          /\ cancels' = [cancels EXCEPT ![NameOf[r]] = r]
          /\ UNCHANGED active
      BY <2>4 DEF Register, Goto
    <3>2. \A s \in Runs : local'[s].proc = local[s].proc
      BY <2>4 DEF Register, TypeOK, Local
    <3>3. \A s \in Runs : pc'[s] \in Admitted <=> pc[s] \in Admitted
      BY <3>1 DEF TypeOK, Admitted, Registered
    <3>4. OneHolder' /\ ActiveIsHeld'
      BY <3>1, <3>3 DEF ExclusionInv, OneHolder, ActiveIsHeld
    <3>5. CancelIsHolders'
      <4>1. \A n \in Names : cancels[n] # NoRun => cancels[n] \in Runs
        BY DEF TypeOK
      <4>2. \A s \in Runs : pc[s] \in Registered => NameOf[s] # NameOf[r]
        BY <3>1 DEF ExclusionInv, OneHolder, Admitted, Registered
      <4>. QED
        BY <3>1, <4>1, <4>2 DEF ExclusionInv, CancelIsHolders, TypeOK, Registered
    <3>6. ProcessIsHolders'
      BY <3>1, <3>2 DEF ExclusionInv, ProcessIsHolders, TypeOK, Spawned
    <3>. QED
      BY <3>4, <3>5, <3>6 DEF ExclusionInv
  <2>5. CASE \/ Start(r) \/ StartFails(r) \/ Drained(r) \/ DrainedEarly(r) \/ Reap(r)
             \/ UpdateRow(r) \/ PruneRows(r)
    <3>1. PICK to \in Registered : pc[r] \in Registered /\ pc' = [pc EXCEPT ![r] = to]
      BY <2>5 DEF Start, StartFails, Drained, DrainedEarly, Reap, UpdateRow, PruneRows,
         Goto, Registered
    <3>2. UNCHANGED <<active, cancels>>
      BY <2>5 DEF Start, StartFails, Drained, DrainedEarly, Reap, UpdateRow, PruneRows,
         runnerVars
    <3>3. OneHolder' /\ ActiveIsHeld' /\ CancelIsHolders'
      BY <3>1, <3>2, QuietMove DEF Admitted
    <3>4. ProcessIsHolders'
      <4>1. \A s \in Runs : s # r => local'[s] = local[s] /\ pc'[s] = pc[s]
        BY <2>5, <3>1 DEF Start, StartFails, Drained, DrainedEarly, Reap, UpdateRow,
           PruneRows, TypeOK
      <4>2. local'[r].proc # "none" => pc'[r] \in Spawned
        <5>1. CASE Start(r) \/ Drained(r) \/ DrainedEarly(r)
          BY <5>1 DEF Start, Drained, DrainedEarly, Goto, TypeOK, Spawned
        <5>2. CASE StartFails(r) \/ UpdateRow(r) \/ PruneRows(r)
          BY <5>2 DEF StartFails, UpdateRow, PruneRows, Goto, ExclusionInv,
             ProcessIsHolders, Spawned
        <5>3. CASE Reap(r)
          BY <5>3 DEF Reap, TypeOK, Local
        <5>. QED
          BY <2>5, <5>1, <5>2, <5>3
      <4>. QED
        BY <4>1, <4>2 DEF ExclusionInv, ProcessIsHolders
    <3>. QED
      BY <3>3, <3>4 DEF ExclusionInv
  <2>6. CASE Cleanup(r)
    <3>1. /\ pc[r] \in {"cleanup", "abort"}
          /\ \E to \in {"returned", "failed"} : pc' = [pc EXCEPT ![r] = to]
          /\ active' = active \ {NameOf[r]}
          /\ cancels' = [cancels EXCEPT ![NameOf[r]] = NoRun]
          /\ local' = [local EXCEPT ![r] = NewLocal]
      BY <2>6 DEF Cleanup, Goto, Forget
    <3>2. PICK to \in {"returned", "failed"} : pc' = [pc EXCEPT ![r] = to]
      BY <3>1
    <3>3. pc[r] \in Admitted /\ pc[r] \in Registered /\ pc'[r] \notin Admitted
      BY <3>1, <3>2 DEF TypeOK, Admitted, Registered
    <3>4. \A s \in Runs : s # r => pc'[s] = pc[s] /\ local'[s] = local[s]
      BY <3>1, <3>2 DEF TypeOK
    <3>5. OneHolder' /\ ActiveIsHeld'
      BY <3>1, <3>3, <3>4 DEF ExclusionInv, OneHolder, ActiveIsHeld
    <3>6. CancelIsHolders'
      <4>1. \A n \in Names : cancels[n] # NoRun => cancels[n] \in Runs
        BY DEF TypeOK
      <4>2. \A s \in Runs : s # r /\ pc[s] \in Registered => NameOf[s] # NameOf[r]
        BY <3>3 DEF ExclusionInv, OneHolder, Admitted
      <4>3. pc'[r] \notin Registered
        BY <3>3 DEF Admitted
      <4>. QED
        BY <3>1, <3>4, <4>1, <4>2, <4>3 DEF ExclusionInv, CancelIsHolders, TypeOK
    <3>7. ProcessIsHolders'
      BY <3>1, <3>4 DEF ExclusionInv, ProcessIsHolders, NewLocal, TypeOK
    <3>. QED
      BY <3>5, <3>6, <3>7 DEF ExclusionInv
  <2>. QED
    BY <2>1, <2>2, <2>3, <2>4, <2>5, <2>6 DEF GoroutineStep
<1>2. ASSUME NEW r \in Runs, CommandStep(r)
      PROVE  ExclusionInv'
  <2>1. UNCHANGED <<active, cancels, pc>>
    BY <1>2 DEF CommandStep, CommandExit, HolderExit, Notice, Timeout, ClientGone,
       runnerVars
  <2>2. OneHolder' /\ ActiveIsHeld' /\ CancelIsHolders'
    BY <2>1 DEF ExclusionInv, OneHolder, ActiveIsHeld, CancelIsHolders
  <2>3. \A s \in Runs : local'[s].proc # "none" => local[s].proc # "none"
    <3>1. local[r] \in Local /\ local \in [Runs -> Local]
      BY <1>0 DEF TypeOK
    <3>2. CASE CommandExit(r) \/ Notice(r)
      BY <3>1, <3>2 DEF CommandExit, Notice
    <3>3. CASE HolderExit(r) \/ Timeout(r)
      BY <3>1, <3>3 DEF HolderExit, Timeout, Ended, Local
    <3>4. CASE ClientGone(r)
      BY <3>1, <3>4 DEF ClientGone, Ended, Local
    <3>. QED
      BY <1>2, <3>2, <3>3, <3>4 DEF CommandStep
  <2>4. ProcessIsHolders'
    BY <2>1, <2>3 DEF ExclusionInv, ProcessIsHolders
  <2>. QED
    BY <1>0, <2>2, <2>4 DEF ExclusionInv
<1>3. CASE OtherStep
  <2>1. CASE Crash
    <3>1. \A r \in Runs : pc'[r] \notin Admitted /\ pc'[r] \notin Registered
      BY <1>0, <2>1 DEF Crash, TypeOK, Admitted, Registered, Over
    <3>2. \A r \in Runs : local'[r].proc = "none"
      BY <2>1 DEF Crash, NewLocal
    <3>3. active' = {} /\ \A n \in Names : cancels'[n] = NoRun
      BY <2>1 DEF Crash
    <3>. QED
      BY <1>0, <3>1, <3>2, <3>3 DEF ExclusionInv, OneHolder, ActiveIsHeld,
         CancelIsHolders, ProcessIsHolders
  <2>2. ASSUME NEW n \in Names, CancelHits(n)
        PROVE  ExclusionInv'
    <3>1. UNCHANGED <<active, cancels, pc>>
      BY <2>2 DEF CancelHits
    <3>2. \A s \in Runs : local'[s].proc = local[s].proc
      BY <1>0, <2>2 DEF CancelHits, Ended, TypeOK, Local
    <3>. QED
      BY <1>0, <3>1, <3>2 DEF ExclusionInv, OneHolder, ActiveIsHeld, CancelIsHolders,
         ProcessIsHolders
  <2>3. CASE \/ \E n \in Names : HandleCancel(n) \/ CancelMisses(n)
             \/ Reload \/ ReloadApps \/ SetClock
    <3>1. UNCHANGED <<active, cancels, pc, local>>
      BY <2>3 DEF HandleCancel, CancelMisses, Reload, ReloadApps, ReplaceConfig,
         SetClock, runnerVars
    <3>. QED
      BY <1>0, <3>1 DEF ExclusionInv, OneHolder, ActiveIsHeld, CancelIsHolders,
         ProcessIsHolders
  <2>. QED
    BY <1>3, <2>1, <2>2, <2>3 DEF OtherStep
<1>4. CASE UNCHANGED vars
  BY <1>0, <1>4 DEF vars, runnerVars, ExclusionInv, OneHolder, ActiveIsHeld,
     CancelIsHolders, ProcessIsHolders
<1>. QED
  BY <1>1, <1>2, <1>3, <1>4, StepCases

(* Requests, names and processes agree in every reachable state: at most   *)
(* one admitted request per name, and active and cancels are about it.     *)
THEOREM ExclusionHolds == Spec => []ExclusionInv
BY ExclusionInit, ExclusionStep, PTL DEF Spec

(* However requests, DELETEs, timeouts, failed starts, reloads and         *)
(* restarts interleave, no two commands of one name run at once.           *)
THEOREM OneRun == Spec => []OneRunPerName
<1>1. ASSUME ExclusionInv
      PROVE  OneRunPerName
  BY <1>1 DEF ExclusionInv, OneHolder, ProcessIsHolders, OneRunPerName, Spawned,
     Admitted, Registered
<1>. QED
  BY <1>1, ExclusionHolds, PTL

(* A DELETE finds the cancel function of the run that is in flight under   *)
(* the name, and of no other.                                              *)
THEOREM CancelReaches == Spec => []CancelReachesItsRun
<1>1. ASSUME ExclusionInv
      PROVE  CancelReachesItsRun
  BY <1>1, RunnerAssumption DEF RunnerAssumption, ExclusionInv, TypeOK, OneHolder,
     CancelIsHolders, CancelReachesItsRun, InFlight, Admitted
<1>. QED
  BY <1>1, ExclusionHolds, PTL

(* A name is marked active exactly while one request holds it.             *)
THEOREM ActiveMatches == Spec => []ActiveMatchesRuns
<1>1. ASSUME ExclusionInv
      PROVE  ActiveMatchesRuns
  <2>1. SUFFICES ASSUME NEW n \in Names
                 PROVE  Cardinality(InFlight(n)) = (IF n \in active THEN 1 ELSE 0)
    BY DEF ActiveMatchesRuns
  <2>2. CASE n \in active
    <3>1. PICK r \in Runs : NameOf[r] = n /\ pc[r] \in Admitted
      BY <1>1, <2>2 DEF ExclusionInv, ActiveIsHeld
    <3>2. InFlight(n) = {r}
      BY <1>1, <3>1 DEF ExclusionInv, OneHolder, InFlight
    <3>. QED
      BY <2>2, <3>2, FS_Singleton
  <2>3. CASE n \notin active
    <3>1. InFlight(n) = {}
      BY <1>1, <2>3 DEF ExclusionInv, ActiveIsHeld, InFlight
    <3>. QED
      BY <2>3, <3>1, FS_EmptySet
  <2>. QED
    BY <2>2, <2>3
<1>. QED
  BY <1>1, ExclusionHolds, PTL

=============================================================================
