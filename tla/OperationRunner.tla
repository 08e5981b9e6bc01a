--------------------------- MODULE OperationRunner ---------------------------
(***************************************************************************)
(* One execution of an operation, from the POST that asks for it to the    *)
(* history row it leaves: the handlers Run, RunApp, Cancel and CancelApp   *)
(* (internal/api/handlers/operations.go), Runner.Run, RunApp, Cancel,      *)
(* CancelApp, Reload and ReloadApps (internal/operations/runner.go) and    *)
(* the statements of history.go (HistoryTable).                            *)
(*                                                                         *)
(* A name is what the runner's maps and the history table are keyed by: a  *)
(* legacy operation's name, or "app:operation" for an operation of an app. *)
(* The two kinds have tables of their own in the runner (active, cancels / *)
(* appsActive, appsCancels), with the same rules: one table indexed by all *)
(* the names stands for both pairs.                                        *)
(***************************************************************************)
EXTENDS HistoryTable

CONSTANTS
  OpNames,       \* the names of legacy operations; the others are of apps
  Persistent,    \* the names whose operation is configured persistent
  Runs,          \* the POST requests that ask for a run
  NameOf,        \* the name that each of them asks for
  NoRun,         \* no entry in the table of cancel functions
  CommandExits,  \* the exit statuses a command may choose
  MaxClock,      \* bound: the wall clock shows 0..MaxClock seconds
  MaxDbFaults    \* bound: how many SQL statements fail

ASSUME RunnerAssumption ==
  /\ OpNames \subseteq Names
  /\ Persistent \subseteq Names
  /\ NameOf \in [Runs -> Names]
  /\ NoRun \notin Runs
  /\ CommandExits \subseteq Int \ {-1}
  /\ MaxClock \in Nat
  /\ MaxDbFaults \in Nat

Killed == -1   \* what ExitCode() says of a process that a signal ended

VARIABLES
  configured,  \* the names in r.ops and r.apps
  active,      \* r.active and r.appsActive
  cancels,     \* r.cancels and r.appsCancels: whose context a DELETE cancels
  asked,       \* the DELETEs that passed their handler's check of the name
  pc,          \* where each request's goroutine stands
  local,       \* its request, context, process and local variables
  row,         \* runID, the row its InsertRun returned: 0 when that failed
  table,       \* the rows of operation_history
  nextId,      \* the AUTOINCREMENT counter
  clock,       \* the wall clock, in seconds
  faults       \* the SQL statements that failed so far

runnerVars == <<configured, active, cancels, asked>>
dbVars == <<table, nextId, clock, faults>>
vars == <<runnerVars, pc, local, row, dbVars>>

(***************************************************************************)
(* The stages of a request's goroutine.                                    *)
(***************************************************************************)
Asking == {"idle", "lookup", "admit"}
Registered == {"start", "drain", "wait", "update", "prune", "cleanup", "abort"}
Admitted == {"insert", "register"} \cup Registered
Over == {"refused", "failed", "returned", "lost"}
Spawned == {"drain", "wait"}     \* between cmd.Start and cmd.Wait's return

Local == [gone    : BOOLEAN,     \* the request's own context has ended
          ctx     : {"open", "timeout", "cancel", "disconnect"},
                                 \* what ended the command's context, if anything
          proc    : {"none", "running", "exited"},  \* bash -l -c op.Command
          status  : CommandExits \cup {0, Killed},  \* what it exited with
          held    : BOOLEAN,     \* what it left behind keeps its pipes open
          noticed : BOOLEAN,     \* os/exec saw the context end before the reaping
          exit    : CommandExits \cup {0, 1, Killed}]  \* exitCode

NewLocal == [gone |-> FALSE, ctx |-> "open", proc |-> "none", status |-> 0,
             held |-> FALSE, noticed |-> FALSE, exit |-> 0]

TypeOK ==
  /\ configured \subseteq Names
  /\ active \subseteq Names
  /\ cancels \in [Names -> Runs \cup {NoRun}]
  /\ asked \subseteq Names
  /\ pc \in [Runs -> Asking \cup Admitted \cup Over]
  /\ local \in [Runs -> Local]
  /\ row \in [Runs -> Nat]
  /\ table \subseteq Row
  /\ nextId \in Nat \ {0}
  /\ clock \in 0..MaxClock
  /\ faults \in 0..MaxDbFaults

Init ==
  /\ configured \in SUBSET Names
  /\ active = {}
  /\ cancels = [n \in Names |-> NoRun]
  /\ asked = {}
  /\ pc = [r \in Runs |-> "idle"]
  /\ local = [r \in Runs |-> NewLocal]
  /\ row = [r \in Runs |-> 0]
  /\ table = {}
  /\ nextId = 1
  /\ clock \in 0..MaxClock
  /\ faults = 0

Goto(r, from, to) == pc[r] = from /\ pc' = [pc EXCEPT ![r] = to]

(* The goroutine ends, and its local state with it. *)
Forget(r) == local' = [local EXCEPT ![r] = NewLocal]

(* A SQL statement that fails leaves the table alone. *)
DbFault == faults < MaxDbFaults /\ faults' = faults + 1 /\ UNCHANGED table

-----------------------------------------------------------------------------
(***************************************************************************)
(* The request's goroutine, up to the point where it holds its name.       *)
(***************************************************************************)
(* A check of the name against the loaded config: a 404 when it fails. *)
Check(r, from, to) ==
  /\ \/ /\ NameOf[r] \in configured
        /\ Goto(r, from, to)
        /\ UNCHANGED local
     \/ /\ NameOf[r] \notin configured
        /\ Goto(r, from, "refused")
        /\ Forget(r)
  /\ UNCHANGED <<runnerVars, row, dbVars>>

HandleRun(r) == Check(r, "idle", "lookup")
LookUp(r) == Check(r, "lookup", "admit")

(* Mutated: the deferred cleanup runs for a refused request too. *)
AdmitDeferringEarly(r) ==
  /\ Goto(r, "admit", IF NameOf[r] \in active THEN "refused" ELSE "insert")
  /\ active' = IF NameOf[r] \in active THEN active \ {NameOf[r]}
               ELSE active \cup {NameOf[r]}
  /\ UNCHANGED <<configured, cancels, asked, local, row, dbVars>>

Admit(r) ==
  /\ \/ /\ NameOf[r] \notin active
        /\ Goto(r, "admit", "insert")
        /\ active' = active \cup {NameOf[r]}
        /\ UNCHANGED local
     \/ /\ NameOf[r] \in active
        /\ Goto(r, "admit", "refused")
        /\ Forget(r)
        /\ UNCHANGED active
  /\ UNCHANGED <<configured, cancels, asked, row, dbVars>>

InsertRow(r) ==
  /\ Goto(r, "insert", "register")
  /\ \/ /\ table' = Inserted(table, nextId, NameOf[r], clock)
        /\ row' = [row EXCEPT ![r] = nextId]
        /\ nextId' = nextId + 1
        /\ UNCHANGED faults
     \/ DbFault /\ UNCHANGED <<row, nextId>>
  /\ UNCHANGED <<runnerVars, local, clock>>

(* Mutated: every run is attached to its request. *)
AttachedAlways(r) == FALSE

(* The context of a persistent operation has no parent but Background(). *)
Detached(r) == NameOf[r] \in Persistent

Register(r) ==
  /\ Goto(r, "register", "start")
  /\ cancels' = [cancels EXCEPT ![NameOf[r]] = r]
  /\ local' = [local EXCEPT ![r].ctx =
                 IF local[r].gone /\ ~Detached(r) THEN "disconnect" ELSE "open"]
  /\ UNCHANGED <<configured, active, asked, row, dbVars>>

-----------------------------------------------------------------------------
(***************************************************************************)
(* The command.  cmd.Start refuses a context that is done; it may fail for *)
(* reasons of its own too (no bash, no such working directory).            *)
(***************************************************************************)
Start(r) ==
  /\ local[r].ctx = "open"
  /\ Goto(r, "start", "drain")
  /\ local' = [local EXCEPT ![r].proc = "running"]
  /\ UNCHANGED <<runnerVars, row, dbVars>>

StartFails(r) ==
  /\ Goto(r, "start", "abort")
  /\ UNCHANGED <<runnerVars, local, row, dbVars>>

(* The process ends; what it started in the background may outlive it and  *)
(* keep the write ends of its pipes.                                       *)
Exited(now, code, open) ==
  [now EXCEPT !.proc = "exited", !.status = code, !.held = open]

CommandExit(r) ==
  /\ local[r].proc = "running"
  /\ \E code \in CommandExits, open \in BOOLEAN :
       local' = [local EXCEPT ![r] = Exited(@, code, open)]
  /\ UNCHANGED <<runnerVars, pc, row, dbVars>>

HolderExit(r) ==
  /\ local[r].held
  /\ local' = [local EXCEPT ![r].held = FALSE]
  /\ UNCHANGED <<runnerVars, pc, row, dbVars>>

(* os/exec's watchCtx: the end of the context kills bash, bash alone, and  *)
(* is remembered; a process that has exited but was not reaped can be      *)
(* signalled too.                                                          *)
Notice(r) ==
  /\ pc[r] \in Spawned
  /\ local[r].ctx # "open"
  /\ ~local[r].noticed
  /\ \/ /\ local[r].proc = "running"
        /\ \E open \in BOOLEAN :
             local' = [local EXCEPT ![r] =
                         [Exited(@, Killed, open) EXCEPT !.noticed = TRUE]]
     \/ /\ local[r].proc = "exited"
        /\ local' = [local EXCEPT ![r].noticed = TRUE]
  /\ UNCHANGED <<runnerVars, pc, row, dbVars>>

(* wg.Wait returns once both pipes are at their end ...                    *)
Drained(r) ==
  /\ local[r].proc = "exited"
  /\ ~local[r].held
  /\ Goto(r, "drain", "wait")
  /\ UNCHANGED <<runnerVars, local, row, dbVars>>

(* ... or once both scanners gave up on them, at a line over 64 KiB, or    *)
(* because the command closed its outputs and went on.                     *)
DrainedEarly(r) ==
  /\ Goto(r, "drain", "wait")
  /\ UNCHANGED <<runnerVars, local, row, dbVars>>

(* Mutated: the raw wait status; the error of cmd.Wait taken for nothing. *)
RawStatus(r) == 256 * local[r].status
StatusAlone(r) == local[r].status

(* cmd.Wait: a status other than 0 is an ExitError with that code; with    *)
(* status 0 Wait returns the context's error if watchCtx saw it end, and   *)
(* the code records 1.                                                     *)
RecordedExit(r) ==
  IF local[r].status # 0 THEN local[r].status
  ELSE IF local[r].noticed THEN 1 ELSE 0

Reap(r) ==
  /\ local[r].proc = "exited"
  /\ Goto(r, "wait", IF row[r] > 0 THEN "update" ELSE "cleanup")
  /\ local' = [local EXCEPT ![r].proc = "none", ![r].held = FALSE,
                            ![r].exit = RecordedExit(r)]
  /\ UNCHANGED <<runnerVars, row, dbVars>>

-----------------------------------------------------------------------------
(* Mutated: the row written to is that of the latest INSERT. *)
UpdateLatestRow(r) ==
  /\ Goto(r, "update", "prune")
  /\ \/ table' = Updated(table, nextId - 1, local[r].exit) /\ UNCHANGED faults
     \/ DbFault
  /\ UNCHANGED <<runnerVars, local, row, nextId, clock>>

(* Mutated: the rows written to are those of the name. *)
UpdateRowsOfName(r) ==
  /\ Goto(r, "update", "prune")
  /\ table' = {IF x.name = NameOf[r] THEN Finish(x, local[r].exit) ELSE x : x \in table}
  /\ UNCHANGED <<runnerVars, local, row, nextId, clock, faults>>

(***************************************************************************)
(* The outcome.  Run ignores the errors of both statements.                *)
(***************************************************************************)
UpdateRow(r) ==
  /\ Goto(r, "update", "prune")
  /\ \/ table' = Updated(table, row[r], local[r].exit) /\ UNCHANGED faults
     \/ DbFault
  /\ UNCHANGED <<runnerVars, local, row, nextId, clock>>

PruneRows(r) ==
  /\ Goto(r, "prune", "cleanup")
  /\ \/ table' \in Pruned(table, NameOf[r]) /\ UNCHANGED faults
     \/ DbFault
  /\ UNCHANGED <<runnerVars, local, row, nextId, clock>>

(* Mutated: an error return before the defer statement. *)
CleanupAfterResult(r) ==
  /\ \/ /\ Goto(r, "cleanup", "returned")
        /\ active' = active \ {NameOf[r]}
        /\ cancels' = [cancels EXCEPT ![NameOf[r]] = NoRun]
     \/ Goto(r, "abort", "failed") /\ UNCHANGED <<active, cancels>>
  /\ Forget(r)
  /\ UNCHANGED <<configured, asked, row, dbVars>>

(* Mutated: the cancel function stays in its table. *)
CleanupKeepingCancel(r) ==
  /\ Goto(r, "cleanup", "returned") \/ Goto(r, "abort", "failed")
  /\ active' = active \ {NameOf[r]}
  /\ Forget(r)
  /\ UNCHANGED <<configured, cancels, asked, row, dbVars>>

(* The deferred function, on the way out with a result or with the error   *)
(* of a command that did not start.                                        *)
Cleanup(r) ==
  /\ Goto(r, "cleanup", "returned") \/ Goto(r, "abort", "failed")
  /\ active' = active \ {NameOf[r]}
  /\ cancels' = [cancels EXCEPT ![NameOf[r]] = NoRun]
  /\ Forget(r)
  /\ UNCHANGED <<configured, asked, row, dbVars>>

-----------------------------------------------------------------------------
(***************************************************************************)
(* What reaches a run from outside.                                        *)
(***************************************************************************)
(* A context that has ended keeps the reason it ended for. *)
Ended(now, why) == [now EXCEPT !.ctx = IF @ = "open" THEN why ELSE @]

(* Mutated: a timeout of 0 means no deadline, not the default one. *)
NoDeadline(r) == FALSE

Timeout(r) ==
  /\ pc[r] \in Registered
  /\ local[r].ctx = "open"
  /\ local' = [local EXCEPT ![r] = Ended(@, "timeout")]
  /\ UNCHANGED <<runnerVars, pc, row, dbVars>>

(* net/http cancels the request's context when it loses the connection.    *)
ClientGone(r) ==
  /\ pc[r] \notin Over
  /\ ~local[r].gone
  /\ LET left == [local[r] EXCEPT !.gone = TRUE]
     IN  local' = [local EXCEPT ![r] =
                     IF pc[r] \in Registered /\ ~Detached(r)
                     THEN Ended(left, "disconnect") ELSE left]
  /\ UNCHANGED <<runnerVars, pc, row, dbVars>>

(* DELETE: the handler checks the name in a snapshot of the config first.  *)
HandleCancel(n) ==
  /\ n \in configured \ asked
  /\ asked' = asked \cup {n}
  /\ UNCHANGED <<configured, active, cancels, pc, local, row, dbVars>>

CancelHits(n) ==
  /\ n \in asked
  /\ cancels[n] # NoRun
  /\ local' = [local EXCEPT ![cancels[n]] = Ended(@, "cancel")]
  /\ asked' = asked \ {n}
  /\ UNCHANGED <<configured, active, cancels, pc, row, dbVars>>

(* "operation is not running" *)
CancelMisses(n) ==
  /\ n \in asked
  /\ cancels[n] = NoRun
  /\ asked' = asked \ {n}
  /\ UNCHANGED <<configured, active, cancels, pc, local, row, dbVars>>

ReplaceConfig(owned) ==
  /\ \E loaded \in SUBSET owned : configured' = (configured \ owned) \cup loaded
  /\ UNCHANGED <<active, cancels, asked, pc, local, row, dbVars>>

Reload == ReplaceConfig(OpNames)
ReloadApps == ReplaceConfig(Names \ OpNames)

(***************************************************************************)
(* The service stops and starts again: the goroutines and the maps are     *)
(* gone, the service manager has killed every process of the service, the  *)
(* rows are still there.                                                   *)
(***************************************************************************)
Crash ==
  /\ active' = {}
  /\ cancels' = [n \in Names |-> NoRun]
  /\ asked' = {}
  /\ pc' = [r \in Runs |-> IF pc[r] \in {"idle"} \cup Over THEN pc[r] ELSE "lost"]
  /\ local' = [r \in Runs |-> NewLocal]
  /\ UNCHANGED <<configured, row, dbVars>>

(* Somebody, or NTP, sets the clock, or a second passes. *)
SetClock ==
  /\ clock' \in 0..MaxClock
  /\ UNCHANGED <<runnerVars, pc, local, row, table, nextId, faults>>

-----------------------------------------------------------------------------
(* What a request's goroutine does by itself once it is in the runner. *)
Body(r) ==
  \/ LookUp(r) \/ Admit(r) \/ InsertRow(r) \/ Register(r) \/ Start(r)
  \/ StartFails(r) \/ Drained(r) \/ Reap(r) \/ UpdateRow(r) \/ PruneRows(r)
  \/ Cleanup(r)

Run(r) == NameOf[r] \in OpNames /\ (HandleRun(r) \/ Body(r) \/ DrainedEarly(r))
RunApp(r) == NameOf[r] \notin OpNames /\ (HandleRun(r) \/ Body(r) \/ DrainedEarly(r))

Command(r) == CommandExit(r) \/ HolderExit(r)

Delete(n) == HandleCancel(n) \/ CancelHits(n) \/ CancelMisses(n)
Cancel(n) == n \in OpNames /\ Delete(n)
CancelApp(n) == n \notin OpNames /\ Delete(n)

Next ==
  \/ \E r \in Runs : \/ Run(r) \/ RunApp(r) \/ Command(r)
                     \/ Notice(r) \/ Timeout(r) \/ ClientGone(r)
  \/ \E n \in Names : Cancel(n) \/ CancelApp(n)
  \/ Reload \/ ReloadApps \/ Crash \/ SetClock

Spec == Init /\ [][Next]_vars

(***************************************************************************)
(* The Go scheduler runs a goroutine that can go on, timers fire, watchCtx *)
(* is such a goroutine; a command may run for ever.                        *)
(***************************************************************************)
FairSpec ==
  Spec /\ \A r \in Runs : /\ WF_vars(Body(r))
                          /\ WF_vars(Timeout(r))
                          /\ WF_vars(Notice(r))

(* Commands that leave nothing behind for ever with their output open. *)
TidySpec == FairSpec /\ \A r \in Runs : WF_vars(HolderExit(r))

-----------------------------------------------------------------------------
(***************************************************************************)
(* Safety.                                                                 *)
(***************************************************************************)
InFlight(n) == {r \in Runs : NameOf[r] = n /\ pc[r] \in Admitted}

(* Two requests for one name never have their commands running at once,    *)
(* however the admission, the deferred cleanup, failed starts and restarts *)
(* of the service interleave.                                              *)
OneRunPerName ==
  \A r, s \in Runs :
    (/\ NameOf[r] = NameOf[s]
     /\ local[r].proc = "running"
     /\ local[s].proc = "running") => r = s

(* A name is marked active exactly while one request holds it: no way out  *)
(* of Run leaves it locked for good, none unlocks another's.               *)
ActiveMatchesRuns ==
  \A n \in Names : Cardinality(InFlight(n)) = (IF n \in active THEN 1 ELSE 0)

(* The cancel function that a DELETE finds under a name is that of the run *)
(* now in flight under it, never of an earlier one; and from Register on   *)
(* a DELETE does find it.                                                  *)
CancelReachesItsRun ==
  \A n \in Names :
    {r \in InFlight(n) : pc[r] \in Registered}
      = IF cancels[n] = NoRun THEN {} ELSE {cancels[n]}

(* While a run may still write its outcome its row is in the table, under  *)
(* its name and unfinished: no other run, prune or restart takes it away.  *)
OwnRowWaits ==
  \A r \in Runs :
    pc[r] \in Admitted \ {"insert", "prune", "cleanup"} /\ row[r] > 0 =>
      \E x \in table : x.id = row[r] /\ x.name = NameOf[r] /\ ~x.finished

OutcomeOf(r) == {x \in table : x.id = row[r] /\ x.finished}
JustWritten(r) == pc[r] \in {"prune", "cleanup"}

(* Success is recorded only of a command that chose status 0 and was not   *)
(* interrupted; a failure keeps the command's own status.                  *)
NoFalseSuccess ==
  \A r \in Runs : JustWritten(r) =>
    \A x \in OutcomeOf(r) :
      /\ x.exit = 0 <=> local[r].status = 0 /\ ~local[r].noticed
      /\ local[r].status # 0 => x.exit = local[r].status

(* The recorded exit code of a persistent operation that neither timed out *)
(* nor was cancelled is the one the command chose, also when the client    *)
(* left in the middle ("its real exit code is saved to history").          *)
PersistentKeepsExit ==
  \A r \in Runs :
    (/\ JustWritten(r)
     /\ NameOf[r] \in Persistent
     /\ local[r].ctx \in {"open", "disconnect"}) =>
      \A x \in OutcomeOf(r) : x.exit = local[r].status /\ x.exit \in CommandExits

(* A request that ran to its end left no row unfinished, as long as no SQL *)
(* statement failed.                                                       *)
ReturnedRunsAreFinished ==
  faults = 0 =>
    \A r \in Runs : pc[r] = "returned" =>
      \A x \in table : x.id = row[r] => x.finished

(* What Prune leaves bounds the table: beyond MaxHistory rows of a name    *)
(* there are only those of requests that did not get as far as Prune.      *)
RowsBounded ==
  \A n \in Names :
    Cardinality(RowsOf(table, n)) <=
      MaxHistory + faults
        + Cardinality({r \in Runs : NameOf[r] = n /\ row[r] > 0 /\ pc[r] # "returned"})

(* A finished row is history: later steps delete it or leave it alone.     *)
FinishedRowsStay ==
  [][\A x \in table : x.finished =>
       x \in table' \/ \A y \in table' : y.id # x.id]_vars

-----------------------------------------------------------------------------
(***************************************************************************)
(* Liveness and refinement.                                                *)
(***************************************************************************)
phase == [r \in Runs |-> CASE pc[r] \in Asking   -> "new"
                           [] pc[r] \in Admitted -> "holding"
                           [] OTHER              -> "over"]
stopping == {r \in Runs : pc[r] \in Admitted /\ local[r].ctx # "open"}

Exclusive == INSTANCE ExclusiveRuns

(* The runner implements ExclusiveRuns. *)
ImplementsExclusiveRuns == Exclusive!Spec
ImplementsExclusiveSafety == Exclusive!Safe

-----------------------------------------------------------------------------
(***************************************************************************)
(* What the repository says of the runner and the code does not do.        *)
(***************************************************************************)
(* GET /operations/history and its likes answer (README.md:126 "Recent run *)
(* history across all operations").                                        *)
HistoryAnswers ==
  /\ \A a \in ListAllHistory(table, MaxHistory) : a.ok
  /\ \A a \in ListAllAppHistory(table, Names \ OpNames, MaxHistory) : a.ok
  /\ \A n \in Names : \A a \in ListHistory(table, n, MaxHistory) : a.ok

=============================================================================
