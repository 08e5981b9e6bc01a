--------------------------- MODULE ContainerUpgrade ---------------------------
(***************************************************************************)
(* POST /containers/{id}/upgrade for a standalone container: what          *)
(* upgradeStandalone (internal/docker/upgrade.go) does to the containers   *)
(* of the Docker daemon, call by call, with its way back.  Several such    *)
(* requests may be under way: nothing keeps them apart.  They, and the     *)
(* daemon they call, are the only ones to touch the containers; none of    *)
(* these was run with --rm, which would remove it at the stop.             *)
(*                                                                         *)
(* A request creates at most one container: the request stands for it too. *)
(***************************************************************************)
EXTENDS Naturals, Sequences

CONSTANTS
  Upgraders,   \* the requests
  Initial,     \* the container that is there before them
  Absent,      \* no name: there is no such container (any more)
  Seconds,     \* the readings of the clock that a backup name may contain
  MaxFaults    \* bound: how many calls the daemon refuses for its own reasons

ASSUME UpgradeAssumption ==
  /\ Initial \notin Upgraders
  /\ Seconds # {} /\ Absent \notin Seq(Seconds)
  /\ MaxFaults \in Nat

Containers == Upgraders \cup {Initial}

(* A name is what the upgrades have appended to the first one: <<1, 2>> is *)
(* the name with "_old_1_old_2".                                           *)
Original == <<>>

VARIABLES
  name,        \* the name of each container
  runs,        \* the containers that run
  stage,       \* where each request stands
  old,         \* info.ID, the container that it replaces
  original,    \* originalName, the one it had when the upgrade began
  backup,      \* backupName
  connected,   \* the requests whose context has not been cancelled
  faults

docker == <<name, runs>>
locals == <<old, original, backup>>
vars == <<docker, stage, locals, connected, faults>>

Ends == {"failed", "rolledback", "done", "lost"}

TypeOK ==
  /\ name \in [Containers -> Seq(Seconds) \cup {Absent}]
  /\ \A c, d \in Containers : name[c] = name[d] => c = d \/ name[c] = Absent
  /\ runs \subseteq {c \in Containers : name[c] # Absent}
  /\ stage \in [Upgraders -> {"idle", "inspect", "pull", "stop", "rename", "create", "start",
                              "remove", "drop", "unname", "restart", "giveup"} \cup Ends]
  /\ old \in [Upgraders -> Containers]
  /\ original \in [Upgraders -> Seq(Seconds)]
  /\ backup \in [Upgraders -> Seq(Seconds)]
  /\ connected \subseteq Upgraders
  /\ faults \in 0..MaxFaults

Init ==
  /\ name = [c \in Containers |-> IF c = Initial THEN Original ELSE Absent]
  /\ runs = {Initial}
  /\ stage = [u \in Upgraders |-> "idle"]
  /\ old = [u \in Upgraders |-> Initial]
  /\ original = [u \in Upgraders |-> Original]
  /\ backup = [u \in Upgraders |-> Original]
  /\ connected = Upgraders
  /\ faults = 0

Goto(u, to) == stage' = [stage EXCEPT ![u] = to]
Exists(c) == name[c] # Absent
Free(n) == \A c \in Containers : name[c] # n

-----------------------------------------------------------------------------
(***************************************************************************)
(* A call of the Docker API that would bring the containers to these names *)
(* and running containers.  It fails without an effect if it is impossible,*)
(* if the request's context is cancelled, or for the daemon's own reasons; *)
(* and with its effect if the context is cancelled meanwhile.              *)
(***************************************************************************)
Succeeds(u, possible, named, running) ==
  /\ u \in connected /\ possible
  /\ name' = named /\ runs' = running
  /\ UNCHANGED <<connected, faults>>

Fails(u, possible, named, running) ==
  \/ (u \notin connected \/ ~possible) /\ UNCHANGED <<docker, connected, faults>>
  \/ /\ faults < MaxFaults /\ faults' = faults + 1
     /\ UNCHANGED <<docker, connected>>
  \/ /\ u \in connected /\ possible
     /\ name' = named /\ runs' = running
     /\ connected' = connected \ {u}
     /\ UNCHANGED faults

(* The error is ignored. *)
Tries(u, possible, named, running) ==
  Succeeds(u, possible, named, running) \/ Fails(u, possible, named, running)

Renamed(c, n) == [name EXCEPT ![c] = n]

(* The container started publishes the same ports as any other that runs.  *)
PortsTaken(c) ==
  runs \ {c} # {} /\ UNCHANGED <<docker, connected, faults>>

-----------------------------------------------------------------------------
(* InspectContainer finds it by its name, or by the id that the client has.*)
Inspect(u) ==
  /\ stage[u] = "idle"
  /\ \/ \E c \in Containers : /\ Exists(c) /\ u \in connected
                              /\ old' = [old EXCEPT ![u] = c]
                              /\ Goto(u, "inspect")
     \/ Goto(u, "failed") /\ UNCHANGED old
  /\ UNCHANGED <<docker, original, backup, connected, faults>>

(* Mutated: the error is not looked at, and no name taken for the name.    *)
InspectUnchecked(u) ==
  /\ stage[u] = "inspect"
  /\ original' = [original EXCEPT ![u] = name[old[u]]]
  /\ Goto(u, "pull")
  /\ UNCHANGED <<docker, old, backup, connected, faults>>

(* ContainerInspect: the name, before the pull that may take its time.     *)
InspectFully(u) ==
  /\ stage[u] = "inspect"
  /\ \/ /\ Exists(old[u]) /\ u \in connected
        /\ original' = [original EXCEPT ![u] = name[old[u]]]
        /\ Goto(u, "pull")
     \/ Goto(u, "failed") /\ UNCHANGED original
  /\ UNCHANGED <<docker, old, backup, connected, faults>>

(* pullImage and ImageInspectWithRaw. *)
Pull(u) ==
  /\ stage[u] = "pull"
  /\ (u \in connected /\ Goto(u, "stop")) \/ Goto(u, "failed")
  /\ UNCHANGED <<docker, locals, connected, faults>>

Stop(u) ==
  LET possible == Exists(old[u])  rest == runs \ {old[u]} IN
  /\ stage[u] = "stop"
  /\ \/ Succeeds(u, possible, name, rest) /\ Goto(u, "rename")
     \/ Fails(u, possible, name, rest) /\ Goto(u, "failed")
  /\ UNCHANGED locals

(* If this fails, the container is started again.                          *)
Rename(u) ==
  /\ stage[u] = "rename"
  /\ \E t \in Seconds :
       LET to == Append(original[u], t)
           possible == Exists(old[u]) /\ Free(to) IN
       /\ backup' = [backup EXCEPT ![u] = to]
       /\ \/ Succeeds(u, possible, Renamed(old[u], to), runs) /\ Goto(u, "create")
          \/ Fails(u, possible, Renamed(old[u], to), runs) /\ Goto(u, "giveup")
  /\ UNCHANGED <<old, original>>

GiveUp(u) ==
  /\ stage[u] = "giveup"
  /\ Tries(u, Exists(old[u]), name, runs \cup {old[u]}) \/ PortsTaken(old[u])
  /\ Goto(u, "failed")
  /\ UNCHANGED locals

(* Mutated: the old container is removed before the new one has started.   *)
CreateRemovingOld(u) ==
  LET swapped == [name EXCEPT ![u] = original[u], ![old[u]] = Absent]  IN
  /\ stage[u] = "create"
  /\ \/ Succeeds(u, Free(original[u]), swapped, runs \ {old[u]}) /\ Goto(u, "start")
     \/ Fails(u, Free(original[u]), Renamed(u, original[u]), runs) /\ Goto(u, "unname")
  /\ UNCHANGED locals

(* Mutated: the way back does not give the container its name.             *)
CreateKeepingName(u) ==
  /\ stage[u] = "create"
  /\ \/ Succeeds(u, Free(original[u]), Renamed(u, original[u]), runs) /\ Goto(u, "start")
     \/ Fails(u, Free(original[u]), Renamed(u, original[u]), runs) /\ Goto(u, "restart")
  /\ UNCHANGED locals

Create(u) ==
  /\ stage[u] = "create"
  /\ \/ Succeeds(u, Free(original[u]), Renamed(u, original[u]), runs) /\ Goto(u, "start")
     \/ Fails(u, Free(original[u]), Renamed(u, original[u]), runs) /\ Goto(u, "unname")
  /\ UNCHANGED locals

(* Mutated: the error is ignored. *)
StartUnchecked(u) ==
  /\ stage[u] = "start"
  /\ Tries(u, Exists(u), name, runs \cup {u}) \/ PortsTaken(u)
  /\ Goto(u, "remove")
  /\ UNCHANGED locals

Start(u) ==
  /\ stage[u] = "start"
  /\ \/ Succeeds(u, Exists(u), name, runs \cup {u}) /\ Goto(u, "remove")
     \/ Fails(u, Exists(u), name, runs \cup {u}) /\ Goto(u, "drop")
     \/ PortsTaken(u) /\ Goto(u, "drop")
  /\ UNCHANGED locals

(* Mutated: originalName for backupName; the container still runs.         *)
RemoveOriginal(u) ==
  /\ stage[u] = "remove"
  /\ \E c \in Containers : /\ name[c] = original[u]
                           /\ Tries(u, TRUE, Renamed(c, Absent), runs \ {c})
  /\ Goto(u, "done")
  /\ UNCHANGED locals

(* Whatever has the backup's name, running or not. *)
RemoveOld(u) ==
  /\ stage[u] = "remove"
  /\ \/ \E c \in Containers : /\ name[c] = backup[u]
                              /\ Tries(u, TRUE, Renamed(c, Absent), runs \ {c})
     \/ Free(backup[u]) /\ UNCHANGED <<docker, connected, faults>>
  /\ Goto(u, "done")
  /\ UNCHANGED locals

-----------------------------------------------------------------------------
(***************************************************************************)
(* The way back, in the same context.                                      *)
(***************************************************************************)
DropNew(u) ==
  /\ stage[u] = "drop"
  /\ Tries(u, Exists(u), Renamed(u, Absent), runs \ {u})
  /\ Goto(u, "unname")
  /\ UNCHANGED locals

RenameBack(u) ==
  /\ stage[u] = "unname"
  /\ \/ \E c \in Containers : /\ name[c] = backup[u]
                              /\ Tries(u, Free(original[u]), Renamed(c, original[u]), runs)
     \/ Free(backup[u]) /\ UNCHANGED <<docker, connected, faults>>
  /\ Goto(u, "restart")
  /\ UNCHANGED locals

Restart(u) ==
  /\ stage[u] = "restart"
  /\ Tries(u, Exists(old[u]), name, runs \cup {old[u]}) \/ PortsTaken(old[u])
  /\ Goto(u, "rolledback")
  /\ UNCHANGED locals

-----------------------------------------------------------------------------
(* The client disconnects; net/http cancels the request's context.         *)
Disconnect(u) ==
  /\ u \in connected
  /\ stage[u] \notin {"idle"} \cup Ends
  /\ connected' = connected \ {u}
  /\ UNCHANGED <<docker, stage, locals, faults>>

(* The service stops and starts again; the containers do not. *)
Crash ==
  /\ \E u \in Upgraders : stage[u] \notin {"idle"} \cup Ends
  /\ stage' = [u \in Upgraders |-> IF stage[u] \in {"idle"} \cup Ends THEN stage[u] ELSE "lost"]
  /\ UNCHANGED <<docker, locals, connected, faults>>

upgradeStandalone(u) ==
  \/ InspectFully(u) \/ Pull(u) \/ Stop(u) \/ Rename(u) \/ GiveUp(u) \/ Create(u) 
  \/ Start(u) \/ RemoveOld(u) \/ DropNew(u) \/ RenameBack(u) \/ Restart(u)

Next ==
  \/ \E u \in Upgraders : Inspect(u) \/ upgradeStandalone(u) \/ Disconnect(u)
  \/ Crash

Spec == Init /\ [][Next]_vars

-----------------------------------------------------------------------------
(***************************************************************************)
(* Properties.                                                             *)
(***************************************************************************)
Alone(u) == \A v \in Upgraders \ {u} : stage[v] = "idle"

(* The container, with what it holds, is removed only when a new one is    *)
(* there: whoever else upgrades, wherever calls fail or the service stops. *)
OneRemains == \E c \in Containers : Exists(c)

(* However two upgrades interleave: if the daemon obeys and the clients    *)
(* stay, a container runs in the end.  (Not so with three: one may start   *)
(* again, by its way back, the container that another is about to remove.) *)
ServiceEndsUp ==
  (/\ \A u \in Upgraders : stage[u] \in Ends \ {"lost"}
   /\ connected = Upgraders
   /\ faults = 0) => runs # {}

(* One failure after the stop is made up for: the container has its name   *)
(* again and runs.                                                         *)
RollbackWorks ==
  \A u \in Upgraders :
    (/\ Alone(u) /\ stage[u] = "rolledback"
     /\ u \in connected /\ faults <= 1) =>
      name[old[u]] = Original /\ old[u] \in runs

(* An upgrade that reports success has left the new container running      *)
(* under the name and the old one at rest.                                 *)
SuccessIsTrue ==
  \A u \in Upgraders : Alone(u) /\ stage[u] = "done" =>
    name[u] = Original /\ u \in runs /\ old[u] \notin runs

(* An upgrade that reports "(rolled back)" (upgrade.go:145 "create: %w     *)
(* (rolled back)") has left the container running under its name.  The     *)
(* code does not keep to this; no run has it.                              *)
RolledBackIsTrue ==
  \A u \in Upgraders : Alone(u) /\ stage[u] = "rolledback" =>
    name[old[u]] = Original /\ old[u] \in runs

=============================================================================
