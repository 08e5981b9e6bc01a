------------------------ MODULE ContainerUpgradeProofs ------------------------
(***************************************************************************)
(* What holds of the upgrades of standalone containers, for every number   *)
(* of requests, every clock and every number of faults: types, that a      *)
(* container is left, and what a request that meets no other does.  Then,  *)
(* of two requests that nothing disturbs, that a container runs after      *)
(* both.                                                                   *)
(***************************************************************************)
EXTENDS ContainerUpgrade, FiniteSetTheorems, TLAPS

(* Every step is one of these. *)
RequestStep(u) == Inspect(u) \/ upgradeStandalone(u) \/ Disconnect(u)

LEMMA StepCases ==
  ASSUME [Next]_vars
  PROVE  (\E u \in Upgraders : RequestStep(u)) \/ Crash \/ UNCHANGED vars
BY DEF Next, RequestStep

-----------------------------------------------------------------------------
(***************************************************************************)
(* Types.  The daemon gives no two containers one name and runs none that  *)
(* it does not have.                                                       *)
(***************************************************************************)
Stages == {"idle", "inspect", "pull", "stop", "rename", "create", "start", "remove", "drop",
           "unname", "restart", "giveup"} \cup Ends

DockerTyped(named, running) ==
  /\ named \in [Containers -> Seq(Seconds) \cup {Absent}]
  /\ \A c, d \in Containers : named[c] = named[d] => c = d \/ named[c] = Absent
  /\ running \subseteq {c \in Containers : named[c] # Absent}

LocalsTyped ==
  /\ stage \in [Upgraders -> Stages]
  /\ old \in [Upgraders -> Containers]
  /\ original \in [Upgraders -> Seq(Seconds)]
  /\ backup \in [Upgraders -> Seq(Seconds)]

LEMMA TypeParts ==
  TypeOK <=> /\ DockerTyped(name, runs) /\ LocalsTyped
             /\ connected \subseteq Upgraders /\ faults \in 0..MaxFaults
BY DEF TypeOK, DockerTyped, LocalsTyped, Stages

(* A call whose effect is possible leaves the daemon in order, however it  *)
(* ends.                                                                   *)
LEMMA CallTyped ==
  ASSUME TypeOK, NEW u \in Upgraders, NEW possible, NEW named, NEW running,
         Tries(u, possible, named, running),
         possible => DockerTyped(named, running)
  PROVE  /\ DockerTyped(name, runs)'
         /\ (connected \subseteq Upgraders)' /\ (faults \in 0..MaxFaults)'
<1>0. DockerTyped(name, runs) /\ connected \subseteq Upgraders /\ faults \in 0..MaxFaults
  BY TypeParts
<1>1. /\ connected' \subseteq connected
      /\ faults' = faults \/ (faults < MaxFaults /\ faults' = faults + 1)
      /\ \/ possible /\ name' = named /\ runs' = running
         \/ name' = name /\ runs' = runs
  BY DEF Tries, Succeeds, Fails, docker
<1>2. faults' \in 0..MaxFaults
  BY <1>0, <1>1, UpgradeAssumption DEF UpgradeAssumption
<1>. QED
  BY <1>0, <1>1, <1>2

(* What the calls make of the containers. *)
LEMMA EffectsTyped ==
  ASSUME DockerTyped(name, runs), NEW c \in Containers
  PROVE  /\ DockerTyped(name, runs \ {c})
         /\ DockerTyped(Renamed(c, Absent), runs \ {c})
         /\ Exists(c) => DockerTyped(name, runs \cup {c})
         /\ \A n \in Seq(Seconds) : Free(n) => DockerTyped(Renamed(c, n), runs)
<1>0. Absent \notin Seq(Seconds)
  BY UpgradeAssumption DEF UpgradeAssumption
<1>1. DockerTyped(name, runs \ {c}) /\ (Exists(c) => DockerTyped(name, runs \cup {c}))
  BY DEF DockerTyped, Exists
<1>2. DockerTyped(Renamed(c, Absent), runs \ {c})
  BY DEF DockerTyped, Renamed
<1>3. ASSUME NEW n \in Seq(Seconds), Free(n)
      PROVE  DockerTyped(Renamed(c, n), runs)
  BY <1>0, <1>3 DEF DockerTyped, Renamed, Free
<1>. QED
  BY <1>1, <1>2, <1>3

LEMMA OriginalIsName == Original \in Seq(Seconds) /\ Original # Absent
<1>1. Original \in Seq(Seconds)
  BY DEF Original
<1>2. Absent \notin Seq(Seconds)
  BY UpgradeAssumption DEF UpgradeAssumption
<1>. QED
  BY <1>1, <1>2, Zenon

LEMMA TypeInit ==
  ASSUME Init
  PROVE  TypeOK
<1>1. Original \in Seq(Seconds) /\ Original # Absent
  BY OriginalIsName
<1>2. DockerTyped(name, runs)
  BY <1>1 DEF Init, DockerTyped, Containers
<1>3. LocalsTyped
  BY <1>1 DEF Init, LocalsTyped, Stages, Containers
<1>4. connected \subseteq Upgraders /\ faults \in 0..MaxFaults
  BY UpgradeAssumption DEF UpgradeAssumption, Init
<1>. QED
  BY <1>2, <1>3, <1>4, TypeParts, Zenon

LEMMA TypeStep ==
  ASSUME TypeOK, [Next]_vars
  PROVE  TypeOK'
<1>0. /\ DockerTyped(name, runs) /\ LocalsTyped
      /\ connected \subseteq Upgraders /\ faults \in 0..MaxFaults
  BY TypeParts
<1>. DEFINE DaemonTyped == /\ DockerTyped(name, runs)
                           /\ connected \subseteq Upgraders /\ faults \in 0..MaxFaults
<1>1. ASSUME NEW u \in Upgraders, RequestStep(u)
      PROVE  TypeOK'
  <2>c. u \in Containers /\ old[u] \in Containers
    BY <1>0 DEF LocalsTyped, Containers
  <2>1. LocalsTyped'
    <3>1. stage' \in [Upgraders -> Stages]
      BY <1>0, <1>1 DEF RequestStep, Inspect, upgradeStandalone, InspectFully, Pull, Stop,
         Rename, GiveUp, Create, Start, RemoveOld, DropNew, RenameBack, Restart, Disconnect,
         Goto, LocalsTyped, Stages, Ends
    <3>2. CASE Inspect(u)
      BY <1>0, <3>1, <3>2 DEF Inspect, LocalsTyped
    <3>3. CASE InspectFully(u)
      <4>1. Exists(old[u]) => name[old[u]] \in Seq(Seconds)
        BY <1>0, <2>c DEF DockerTyped, Exists
      <4>. QED
        BY <1>0, <3>1, <3>3, <4>1 DEF InspectFully, LocalsTyped
    <3>4. CASE Rename(u)
      <4>1. PICK t \in Seconds : backup' = [backup EXCEPT ![u] = Append(original[u], t)]
        BY <3>4 DEF Rename
      <4>2. Append(original[u], t) \in Seq(Seconds)
        BY <1>0 DEF LocalsTyped
      <4>3. UNCHANGED <<old, original>>
        BY <3>4 DEF Rename
      <4>. QED
        BY <1>0, <3>1, <4>1, <4>2, <4>3 DEF LocalsTyped
    <3>5. CASE UNCHANGED locals
      BY <1>0, <3>1, <3>5 DEF LocalsTyped, locals
    <3>. QED
      BY <1>1, <3>2, <3>3, <3>4, <3>5 DEF RequestStep, upgradeStandalone, Pull, Stop, GiveUp,
         Create, Start, RemoveOld, DropNew, RenameBack, Restart, Disconnect
  <2>2. DaemonTyped'
    <3>1. CASE Inspect(u) \/ InspectFully(u) \/ Pull(u) \/ Disconnect(u)
      BY <1>0, <3>1 DEF Inspect, InspectFully, Pull, Disconnect, docker
    <3>2. CASE Stop(u)
      <4>1. Tries(u, Exists(old[u]), name, runs \ {old[u]})
        BY <3>2 DEF Stop, Tries
      <4>. QED
        BY <1>0, <2>c, <4>1, CallTyped, EffectsTyped
    <3>3. CASE Rename(u)
      <4>1. PICK t \in Seconds :
              LET to == Append(original[u], t)
              IN  Tries(u, Exists(old[u]) /\ Free(to), Renamed(old[u], to), runs)
        BY <3>3 DEF Rename, Tries
      <4>2. Append(original[u], t) \in Seq(Seconds)
        BY <1>0 DEF LocalsTyped
      <4>. QED
        BY <1>0, <2>c, <4>1, <4>2, CallTyped, EffectsTyped
    <3>4. CASE GiveUp(u) \/ Restart(u)
      <4>1. \/ Tries(u, Exists(old[u]), name, runs \cup {old[u]})
            \/ UNCHANGED <<docker, connected, faults>>
        BY <3>4 DEF GiveUp, Restart, PortsTaken
      <4>2. CASE UNCHANGED <<docker, connected, faults>>
        BY <1>0, <4>2 DEF docker
      <4>. QED
        BY <1>0, <2>c, <4>1, <4>2, CallTyped, EffectsTyped
    <3>5. CASE Create(u)
      <4>1. Tries(u, Free(original[u]), Renamed(u, original[u]), runs)
        BY <3>5 DEF Create, Tries
      <4>2. original[u] \in Seq(Seconds)
        BY <1>0 DEF LocalsTyped
      <4>. QED
        BY <1>0, <2>c, <4>1, <4>2, CallTyped, EffectsTyped
    <3>6. CASE Start(u)
      <4>1. \/ Tries(u, Exists(u), name, runs \cup {u})
            \/ UNCHANGED <<docker, connected, faults>>
        BY <3>6 DEF Start, Tries, PortsTaken
      <4>2. CASE UNCHANGED <<docker, connected, faults>>
        BY <1>0, <4>2 DEF docker
      <4>. QED
        BY <1>0, <2>c, <4>1, <4>2, CallTyped, EffectsTyped
    <3>7. CASE RemoveOld(u)
      <4>1. ASSUME NEW c \in Containers, Tries(u, TRUE, Renamed(c, Absent), runs \ {c})
            PROVE  DaemonTyped'
        BY <1>0, <4>1, CallTyped, EffectsTyped
      <4>2. CASE UNCHANGED <<docker, connected, faults>>
        BY <1>0, <4>2 DEF docker
      <4>. QED
        BY <3>7, <4>1, <4>2 DEF RemoveOld
    <3>8. CASE DropNew(u)
      <4>1. Tries(u, Exists(u), Renamed(u, Absent), runs \ {u})
        BY <3>8 DEF DropNew
      <4>. QED
        BY <1>0, <2>c, <4>1, CallTyped, EffectsTyped
    <3>9. CASE RenameBack(u)
      <4>1. original[u] \in Seq(Seconds)
        BY <1>0 DEF LocalsTyped
      <4>2. ASSUME NEW c \in Containers,
                   Tries(u, Free(original[u]), Renamed(c, original[u]), runs)
            PROVE  DaemonTyped'
        BY <1>0, <4>1, <4>2, CallTyped, EffectsTyped
      <4>3. CASE UNCHANGED <<docker, connected, faults>>
        BY <1>0, <4>3 DEF docker
      <4>. QED
        BY <3>9, <4>2, <4>3 DEF RenameBack
    <3>. QED
      BY <1>1, <3>1, <3>2, <3>3, <3>4, <3>5, <3>6, <3>7, <3>8, <3>9
         DEF RequestStep, upgradeStandalone
  <2>. QED
    BY <2>1, <2>2 DEF DockerTyped, LocalsTyped, Stages, TypeOK
<1>2. CASE Crash
  <2>1. stage' \in [Upgraders -> Stages]
    BY <1>0, <1>2 DEF Crash, LocalsTyped, Stages, Ends
  <2>. QED
    BY <1>2, <2>1 DEF Crash, TypeOK, docker, locals, Stages
<1>3. CASE UNCHANGED vars
  BY <1>3 DEF TypeOK, vars, docker, locals
<1>. QED
  BY <1>1, <1>2, <1>3, StepCases

(* Every variable keeps its type; no two containers have one name, and     *)
(* only containers that there are run.                                     *)
THEOREM TypesCorrect == Spec => []TypeOK
BY TypeInit, TypeStep, PTL DEF Spec

-----------------------------------------------------------------------------
(***************************************************************************)
(* A container remains: a request removes at most one container, and only  *)
(* after it has created one; there is one before them all.                 *)
(***************************************************************************)
Existing == {c \in Containers : Exists(c)}

(* The requests whose container is there and that may still remove one.    *)
Holding == {u \in Upgraders : stage[u] \in {"start", "remove", "drop"}}

Ahead == {"idle", "inspect", "pull", "stop", "rename", "create"}
NotCreated == \A u \in Upgraders : stage[u] \in Ahead => ~Exists(u)

Counted ==
  /\ IsFiniteSet(Existing) /\ IsFiniteSet(Holding)
  /\ Cardinality(Existing) >= 1 + Cardinality(Holding)

RemainInv == TypeOK /\ NotCreated /\ Counted

(* The ways in which the two sets change. *)
LEMMA Balance ==
  ASSUME NEW E, NEW H, NEW E2, NEW H2, IsFiniteSet(E), IsFiniteSet(H),
         Cardinality(E) >= 1 + Cardinality(H),
         \/ E2 = E /\ H2 \in SUBSET H
         \/ \E u : u \notin E /\ E2 = E \cup {u} /\ H2 \in SUBSET (H \cup {u})
         \/ \E c, u : E2 = E \ {c} /\ u \in H /\ H2 = H \ {u}
  PROVE  IsFiniteSet(E2) /\ IsFiniteSet(H2) /\ Cardinality(E2) >= 1 + Cardinality(H2)
<1>0. Cardinality(E) \in Nat /\ Cardinality(H) \in Nat
  BY FS_CardinalityType
<1>1. CASE E2 = E /\ H2 \in SUBSET H
  <2>1. IsFiniteSet(H2) /\ Cardinality(H2) <= Cardinality(H)
    BY <1>1, FS_Subset
  <2>. QED
    BY <1>0, <1>1, <2>1, FS_CardinalityType
<1>2. ASSUME NEW u, u \notin E, E2 = E \cup {u}, H2 \in SUBSET (H \cup {u})
      PROVE  IsFiniteSet(E2) /\ IsFiniteSet(H2) /\ Cardinality(E2) >= 1 + Cardinality(H2)
  <2>1. IsFiniteSet(E2) /\ Cardinality(E2) = Cardinality(E) + 1
    BY <1>2, FS_AddElement
  <2>2. /\ IsFiniteSet(H \cup {u})
        /\ Cardinality(H \cup {u}) = IF u \in H THEN Cardinality(H) ELSE Cardinality(H) + 1
    BY FS_AddElement, Zenon
  <2>3. IsFiniteSet(H2) /\ Cardinality(H2) <= Cardinality(H \cup {u})
    BY <1>2, <2>2, FS_Subset
  <2>4. Cardinality(H2) \in Nat
    BY <2>3, FS_CardinalityType
  <2>. QED
    BY <1>0, <2>1, <2>2, <2>3, <2>4
<1>3. ASSUME NEW c, NEW u, E2 = E \ {c}, u \in H, H2 = H \ {u}
      PROVE  IsFiniteSet(E2) /\ IsFiniteSet(H2) /\ Cardinality(E2) >= 1 + Cardinality(H2)
  <2>1. /\ IsFiniteSet(E2)
        /\ Cardinality(E2) = IF c \in E THEN Cardinality(E) - 1 ELSE Cardinality(E)
    BY <1>3, FS_RemoveElement, Zenon
  <2>2. IsFiniteSet(H2) /\ Cardinality(H2) = Cardinality(H) - 1
    BY <1>3, FS_RemoveElement
  <2>. QED
    BY <1>0, <2>1, <2>2
<1>. QED
  BY <1>1, <1>2, <1>3

(* What a change of names makes of the set of containers. *)
LEMMA ExistingAfter ==
  ASSUME name \in [Containers -> Seq(Seconds) \cup {Absent}], NEW c \in Containers
  PROVE  /\ name' = name => Existing' = Existing
         /\ name' = Renamed(c, Absent) => Existing' = Existing \ {c}
         /\ \A n \in Seq(Seconds) : name' = Renamed(c, n) => Existing' = Existing \cup {c}
<1>0. Absent \notin Seq(Seconds)
  BY UpgradeAssumption DEF UpgradeAssumption
<1>1. name' = name => Existing' = Existing
  BY DEF Existing, Exists
<1>2. ASSUME NEW n \in Seq(Seconds) \cup {Absent}, name' = Renamed(c, n)
      PROVE  /\ n = Absent => Existing' = Existing \ {c}
             /\ n # Absent => Existing' = Existing \cup {c}
  <2>1. name'[c] = n /\ \A d \in Containers : d # c => name'[d] = name[d]
    BY <1>2 DEF Renamed
  <2>. QED
    BY <2>1 DEF Existing, Exists
<1>. QED
  BY <1>0, <1>1, <1>2

(* A step either leaves the containers as they are, or creates the         *)
(* request's own, or removes one for a request that held.                  *)
LEMMA ContainersStep ==
  ASSUME RemainInv, NEW u \in Upgraders, RequestStep(u)
  PROVE  /\ \A v \in Upgraders : v # u => stage'[v] = stage[v]
         /\ stage'[u] \in Ahead => stage[u] \in Ahead
         /\ \/ Existing' = Existing /\ Holding' \in SUBSET Holding
            \/ /\ u \notin Existing /\ Existing' = Existing \cup {u}
               /\ Holding' \in SUBSET (Holding \cup {u}) /\ stage'[u] \notin Ahead
            \/ /\ \E c : Existing' = Existing \ {c}
               /\ u \in Holding /\ Holding' = Holding \ {u}
<1>0. /\ name \in [Containers -> Seq(Seconds) \cup {Absent}] /\ u \in Containers
      /\ old[u] \in Containers /\ original[u] \in Seq(Seconds) /\ backup[u] \in Seq(Seconds)
      /\ stage \in [Upgraders -> Stages] /\ Absent \notin Seq(Seconds)
  BY UpgradeAssumption
     DEF UpgradeAssumption, RemainInv, TypeOK, LocalsTyped, DockerTyped, Containers, Stages
<1>1. \A v \in Upgraders : v # u => stage'[v] = stage[v]
  BY <1>0 DEF RequestStep, Inspect, upgradeStandalone, InspectFully, Pull, Stop, Rename, GiveUp,
     Create, Start, RemoveOld, DropNew, RenameBack, Restart, Disconnect, Goto
<1>2. CASE Inspect(u) \/ InspectFully(u) \/ Pull(u) \/ Stop(u) \/ Disconnect(u)
  <2>1. name' = name
    BY <1>2 DEF Inspect, InspectFully, Pull, Stop, Disconnect, Succeeds, Fails, docker
  <2>2. \/ stage[u] \in Ahead /\ stage'[u] \in {"inspect", "pull", "stop", "rename", "failed"}
        \/ stage'[u] = stage[u]
    BY <1>0, <1>2 DEF Inspect, InspectFully, Pull, Stop, Disconnect, Goto, Ahead
  <2>3. Holding' \in SUBSET Holding
    BY <1>1, <2>2 DEF Holding
  <2>. QED
    BY <1>0, <1>1, <2>1, <2>2, <2>3, ExistingAfter
<1>3. CASE GiveUp(u) \/ Restart(u)
  <2>1. name' = name
    BY <1>3 DEF GiveUp, Restart, Tries, Succeeds, Fails, PortsTaken, docker
  <2>2. stage[u] \notin Ahead /\ stage'[u] \in {"failed", "rolledback"}
    BY <1>0, <1>3 DEF GiveUp, Restart, Goto, Ahead
  <2>3. Holding' \in SUBSET Holding
    BY <1>1, <2>2 DEF Holding
  <2>. QED
    BY <1>0, <1>1, <2>1, <2>2, <2>3, ExistingAfter DEF Ahead
<1>4. CASE Rename(u)
  <2>1. PICK t \in Seconds :
          \/ name' = name
          \/ Exists(old[u]) /\ name' = Renamed(old[u], Append(original[u], t))
    BY <1>4 DEF Rename, Succeeds, Fails, docker
  <2>2. Append(original[u], t) \in Seq(Seconds)
    BY <1>0
  <2>3. Existing' = Existing
    BY <1>0, <2>1, <2>2, ExistingAfter DEF Existing
  <2>4. stage[u] = "rename" /\ stage'[u] \in {"create", "giveup"}
    BY <1>0, <1>4 DEF Rename, Goto
  <2>5. Holding' \in SUBSET Holding
    BY <1>1, <2>4 DEF Holding
  <2>. QED
    BY <1>1, <2>3, <2>4, <2>5 DEF Ahead
<1>5. CASE Create(u)
  <2>1. stage[u] = "create" /\ stage'[u] \in {"start", "unname"}
    BY <1>0, <1>5 DEF Create, Goto
  <2>2. u \notin Existing
    BY <2>1 DEF RemainInv, NotCreated, Existing, Ahead
  <2>3. \/ name' = name /\ stage'[u] = "unname"
        \/ name' = Renamed(u, original[u])
    BY <1>0, <1>5 DEF Create, Succeeds, Fails, Goto, docker
  <2>4. CASE name' = Renamed(u, original[u])
    <3>1. Existing' = Existing \cup {u}
      BY <1>0, <2>4, ExistingAfter
    <3>2. Holding' \in SUBSET (Holding \cup {u})
      BY <1>1 DEF Holding
    <3>. QED
      BY <1>1, <2>1, <2>2, <3>1, <3>2 DEF Ahead
  <2>5. CASE name' = name /\ stage'[u] = "unname"
    <3>1. Holding' \in SUBSET Holding
      BY <1>1, <2>5 DEF Holding
    <3>. QED
      <4>1. Existing' = Existing
        BY <1>0, <2>5, ExistingAfter
      <4>. QED
        BY <1>1, <2>1, <2>5, <3>1, <4>1 DEF Ahead
  <2>. QED
    BY <2>3, <2>4, <2>5
<1>6. CASE Start(u)
  <2>1. name' = name
    BY <1>6 DEF Start, Succeeds, Fails, PortsTaken, docker
  <2>2. stage[u] = "start" /\ stage'[u] \in {"remove", "drop"}
    BY <1>0, <1>6 DEF Start, Goto
  <2>3. Holding' = Holding
    BY <1>1, <2>2 DEF Holding
  <2>. QED
    BY <1>0, <1>1, <2>1, <2>2, <2>3, ExistingAfter DEF Ahead
<1>7. CASE RemoveOld(u) \/ DropNew(u)
  <2>1. \/ name' = name
        \/ \E c \in Containers : name' = Renamed(c, Absent)
    BY <1>0, <1>7 DEF RemoveOld, DropNew, Tries, Succeeds, Fails, docker
  <2>2. stage[u] \in {"remove", "drop"} /\ stage'[u] \in {"done", "unname"}
    BY <1>0, <1>7 DEF RemoveOld, DropNew, Goto
  <2>3. u \in Holding /\ Holding' = Holding \ {u}
    BY <1>1, <2>2 DEF Holding
  <2>4. Existing' = Existing \/ \E c : Existing' = Existing \ {c}
    BY <1>0, <2>1, ExistingAfter
  <2>. QED
    BY <1>1, <2>2, <2>3, <2>4 DEF Ahead
<1>8. CASE RenameBack(u)
  <2>1. \/ name' = name
        \/ \E c \in Containers : name[c] = backup[u] /\ name' = Renamed(c, original[u])
    BY <1>8 DEF RenameBack, Tries, Succeeds, Fails, docker
  <2>2. Existing' = Existing
    BY <1>0, <2>1, ExistingAfter DEF Existing, Exists
  <2>3. stage[u] = "unname" /\ stage'[u] = "restart"
    BY <1>0, <1>8 DEF RenameBack, Goto
  <2>4. Holding' \in SUBSET Holding
    BY <1>1, <2>3 DEF Holding
  <2>. QED
    BY <1>1, <2>2, <2>3, <2>4 DEF Ahead
<1>. QED
  BY <1>2, <1>3, <1>4, <1>5, <1>6, <1>7, <1>8 DEF RequestStep, upgradeStandalone

LEMMA RemainStep ==
  ASSUME RemainInv, [Next]_vars
  PROVE  RemainInv'
<1>0. TypeOK' /\ stage \in [Upgraders -> Stages] /\ Upgraders \subseteq Containers
  BY TypeStep DEF RemainInv, TypeOK, Stages, Containers
<1>1. ASSUME NEW u \in Upgraders, RequestStep(u)
      PROVE  RemainInv'
  <2>1. /\ \A v \in Upgraders : v # u => stage'[v] = stage[v]
        /\ stage'[u] \in Ahead => stage[u] \in Ahead
        /\ \/ Existing' = Existing /\ Holding' \in SUBSET Holding
           \/ /\ u \notin Existing /\ Existing' = Existing \cup {u}
              /\ Holding' \in SUBSET (Holding \cup {u}) /\ stage'[u] \notin Ahead
           \/ /\ \E c : Existing' = Existing \ {c}
              /\ u \in Holding /\ Holding' = Holding \ {u}
    BY <1>1, ContainersStep
  <2>2. NotCreated'
    <3>1. \A v \in Upgraders : v \in Existing' => v \in Existing \/ (v = u /\ stage'[u] \notin Ahead)
      BY <2>1
    <3>2. \A v \in Upgraders : v \in Existing => stage[v] \notin Ahead
      BY DEF RemainInv, NotCreated, Existing
    <3>3. \A v \in Upgraders : Exists(v)' => v \in Existing'
      BY <1>0 DEF Existing
    <3>. QED
      BY <2>1, <3>1, <3>2, <3>3 DEF NotCreated
  <2>3. Counted'
    BY <2>1, Balance DEF RemainInv, Counted
  <2>. QED
    BY <1>0, <2>2, <2>3 DEF RemainInv
<1>2. CASE Crash \/ UNCHANGED vars
  <2>1. name' = name /\ \A v \in Upgraders : stage'[v] \in {stage[v], "lost"}
    BY <1>0, <1>2 DEF Crash, vars, docker
  <2>2. Existing' = Existing /\ Holding' \in SUBSET Holding
    BY <2>1 DEF Existing, Exists, Holding
  <2>3. NotCreated'
    BY <2>1 DEF RemainInv, NotCreated, Ahead, Exists
  <2>4. Counted'
    BY <2>2, Balance DEF RemainInv, Counted
  <2>. QED
    BY <1>0, <2>3, <2>4 DEF RemainInv
<1>. QED
  BY <1>1, <1>2, StepCases

(* However many requests upgrade containers at once, wherever calls fail,  *)
(* clients leave or the service stops: a container is left.                *)
THEOREM OneIsLeft == Spec => []OneRemains
<1>1. ASSUME Init
      PROVE  RemainInv
  <2>1. TypeOK
    BY <1>1, TypeInit
  <2>2. Original # Absent
    BY OriginalIsName
  <2>3. Existing = {Initial} /\ Holding = {}
    BY <1>1, <2>2 DEF Init, Existing, Holding, Exists, Containers
  <2>4. Counted
    BY <2>3, FS_EmptySet, FS_Singleton DEF Counted
  <2>5. NotCreated
    BY <1>1, UpgradeAssumption DEF UpgradeAssumption, Init, NotCreated, Exists, Containers
  <2>. QED
    BY <2>1, <2>4, <2>5 DEF RemainInv
<1>2. ASSUME RemainInv
      PROVE  OneRemains
  <2>1. Cardinality(Existing) # 0
    BY <1>2, FS_CardinalityType DEF RemainInv, Counted
  <2>2. Existing # {}
    BY <2>1, FS_EmptySet
  <2>. QED
    BY <2>2 DEF Existing, OneRemains
<1>. QED
  BY <1>1, <1>2, RemainStep, PTL DEF Spec

-----------------------------------------------------------------------------
(***************************************************************************)
(* A request that nobody else has joined: where its stage stands, what the *)
(* containers are called and which of them run.                            *)
(***************************************************************************)
Parts(u, initials, new, running) ==
  name[Initial] = initials /\ name[u] = new /\ runs = running

Others(u) == \A v \in Upgraders \ {u} : ~Exists(v)

Known(u) ==
  /\ stage[u] \notin {"idle", "failed"} => old[u] = Initial
  /\ stage[u] \notin {"idle", "inspect", "failed", "lost"} => original[u] = Original
  /\ stage[u] \in {"create", "start", "remove", "drop", "unname"} => backup[u] # Original

Progress(u) ==
  /\ stage[u] \in {"idle", "inspect", "pull", "stop"} => Parts(u, Original, Absent, {Initial})
  /\ stage[u] = "rename" => Parts(u, Original, Absent, {})
  /\ stage[u] = "create" => Parts(u, backup[u], Absent, {})
  /\ stage[u] = "start" => Parts(u, backup[u], Original, {})
  /\ stage[u] = "remove" => Parts(u, backup[u], Original, {u})
  /\ stage[u] = "done" => name[u] = Original /\ runs = {u}

(* The client is still there: the one fault so far began the way back.     *)
WayBack(u) ==
  /\ stage[u] \in {"drop", "unname", "restart", "rolledback"} => faults > 0
  /\ faults <= 1 =>
      /\ stage[u] = "drop" => Parts(u, backup[u], Original, {})
      /\ stage[u] = "unname" => Parts(u, backup[u], Absent, {})
      /\ stage[u] = "restart" => Parts(u, Original, Absent, {})
      /\ stage[u] = "rolledback" => Parts(u, Original, Absent, {Initial})

Solo(u) == Others(u) /\ Known(u) /\ Progress(u) /\ (u \in connected => WayBack(u))

AloneInv == TypeOK /\ \A u \in Upgraders : Alone(u) => Solo(u)

(* What the calls of a request leave alone. *)
LEMMA OwnStep ==
  ASSUME TypeOK, NEW u \in Upgraders, upgradeStandalone(u) \/ Inspect(u) \/ Disconnect(u)
  PROVE  /\ \A v \in Upgraders \ {u} : stage'[v] = stage[v]
         /\ stage[u] # "idle" => stage'[u] # "idle"
<1>1. stage \in [Upgraders -> Stages]
  BY DEF TypeOK, Stages
<1>. QED
  BY <1>1 DEF Inspect, upgradeStandalone, InspectFully, Pull, Stop, Rename, GiveUp,
     Create, Start, RemoveOld, DropNew, RenameBack, Restart, Disconnect, Goto

LEMMA SoloStep ==
  ASSUME TypeOK, NEW u \in Upgraders, Solo(u), RequestStep(u)
  PROVE  Solo(u)'
<1>0. /\ name \in [Containers -> Seq(Seconds) \cup {Absent}]
      /\ stage \in [Upgraders -> Stages] /\ faults \in Nat
      /\ old \in [Upgraders -> Containers] /\ original \in [Upgraders -> Seq(Seconds)]
      /\ backup \in [Upgraders -> Seq(Seconds)]
      /\ \A c, d \in Containers : name[c] = name[d] => c = d \/ name[c] = Absent
      /\ u \in Containers /\ Initial \in Containers /\ Initial \notin Upgraders
      /\ Absent \notin Seq(Seconds) /\ Original \in Seq(Seconds)
      /\ Upgraders \subseteq Containers
  BY UpgradeAssumption, OriginalIsName DEF UpgradeAssumption, TypeOK, Containers, Stages
<1>o. Others(u) /\ Known(u) /\ Progress(u) /\ (u \in connected => WayBack(u))
  BY DEF Solo
<1>1. CASE Inspect(u)
  <2>1. /\ stage[u] = "idle" /\ UNCHANGED <<docker, original, backup, connected, faults>>
        /\ \/ stage'[u] = "failed"
           \/ stage'[u] = "inspect" /\ \E c \in Containers : Exists(c) /\ old'[u] = c
    BY <1>0, <1>1 DEF Inspect, Goto
  <2>2. Parts(u, Original, Absent, {Initial})
    BY <1>o, <2>1 DEF Progress
  <2>3. \A c \in Containers : Exists(c) => c = Initial
    BY <1>o, <2>2 DEF Others, Parts, Exists, Containers
  <2>. QED
    BY <1>o, <2>1, <2>2, <2>3 DEF Solo, Others, Known, Progress, WayBack, Parts, Exists, docker
<1>2. CASE InspectFully(u)
  <2>1. /\ stage[u] = "inspect" /\ UNCHANGED <<docker, old, backup, connected, faults>>
        /\ \/ stage'[u] = "failed"
           \/ stage'[u] = "pull" /\ original'[u] = name[old[u]]
    BY <1>0, <1>2 DEF InspectFully, Goto
  <2>2. old[u] = Initial /\ Parts(u, Original, Absent, {Initial})
    BY <1>o, <2>1 DEF Known, Progress
  <2>. QED
    BY <1>o, <2>1, <2>2 DEF Solo, Others, Known, Progress, WayBack, Parts, Exists, docker
<1>3. CASE Pull(u)
  <2>1. /\ stage[u] = "pull" /\ UNCHANGED <<docker, locals, connected, faults>>
        /\ stage'[u] \in {"stop", "failed"}
    BY <1>0, <1>3 DEF Pull, Goto
  <2>. QED
    BY <1>o, <2>1 DEF Solo, Others, Known, Progress, WayBack, Parts, Exists, docker, locals
<1>4. CASE Stop(u)
  <2>1. /\ stage[u] = "stop" /\ UNCHANGED locals /\ name' = name
        /\ \/ stage'[u] = "failed"
           \/ stage'[u] = "rename" /\ runs' = runs \ {old[u]}
    BY <1>0, <1>4 DEF Stop, Goto, Succeeds, Fails, docker
  <2>2. old[u] = Initial /\ Parts(u, Original, Absent, {Initial}) /\ original[u] = Original
    BY <1>o, <2>1 DEF Known, Progress
  <2>3. stage'[u] = "rename" => runs' = {}
    BY <2>1, <2>2 DEF Parts
  <2>. QED
    BY <1>o, <2>1, <2>2, <2>3 DEF Solo, Others, Known, Progress, WayBack, Parts, Exists, locals
<1>5. CASE Rename(u)
  <2>1. PICK t \in Seconds :
          LET to == Append(original[u], t) IN
          /\ stage[u] = "rename" /\ UNCHANGED <<old, original>> /\ runs' = runs
          /\ backup'[u] = to
          /\ \/ stage'[u] = "create" /\ name' = Renamed(old[u], to)
             \/ stage'[u] = "giveup" /\ name' \in {name, Renamed(old[u], to)}
    BY <1>0, <1>5 DEF Rename, Goto, Succeeds, Fails, docker
  <2>2. /\ old[u] = Initial /\ Parts(u, Original, Absent, {}) /\ original[u] = Original
    BY <1>o, <2>1 DEF Known, Progress
  <2>3. backup'[u] # Original
    BY <2>1, <2>2 DEF Original
  <2>4. \A c \in Containers : c # Initial => name'[c] = name[c]
    BY <1>0, <2>1, <2>2 DEF Renamed
  <2>5. Others(u)'
    BY <1>0, <1>o, <2>4 DEF Others, Exists, Containers
  <2>6. stage'[u] = "create" => Parts(u, backup[u], Absent, {})'
    BY <1>0, <2>1, <2>2, <2>4 DEF Parts, Renamed
  <2>. QED
    BY <2>1, <2>2, <2>3, <2>5, <2>6 DEF Solo, Known, Progress, WayBack
<1>6. CASE GiveUp(u)
  <2>1. stage'[u] = "failed" /\ name' = name
    BY <1>0, <1>6 DEF GiveUp, Goto, Tries, Succeeds, Fails, PortsTaken, docker
  <2>. QED
    BY <1>o, <2>1 DEF Solo, Others, Known, Progress, WayBack, Exists
<1>7. CASE Create(u)
  <2>1. /\ stage[u] = "create" /\ UNCHANGED locals /\ runs' = runs
        /\ \/ /\ stage'[u] = "start" /\ name' = Renamed(u, original[u])
           \/ /\ stage'[u] = "unname" /\ name' \in {name, Renamed(u, original[u])}
              /\ \/ u \notin connected'
                 \/ name' = name /\ faults' = faults + 1
                 \/ name' = name /\ ~Free(original[u])
    BY <1>0, <1>7 DEF Create, Goto, Succeeds, Fails, docker
  <2>2. /\ old[u] = Initial /\ original[u] = Original /\ backup[u] # Original
        /\ Parts(u, backup[u], Absent, {})
    BY <1>o, <2>1 DEF Known, Progress
  <2>3. Free(original[u])
    BY <1>0, <1>o, <2>2 DEF Free, Others, Parts, Exists, Containers
  <2>4. \A c \in Containers : c # u => name'[c] = name[c]
    BY <1>0, <2>1 DEF Renamed
  <2>5. Others(u)'
    BY <1>0, <1>o, <2>4 DEF Others, Exists
  <2>6. stage'[u] = "start" => Parts(u, backup[u], Original, {})'
    BY <1>0, <2>1, <2>2, <2>4 DEF Parts, Renamed, locals
  <2>7. stage'[u] = "unname" /\ u \in connected' =>
          faults' > 0 /\ Parts(u, backup[u], Absent, {})'
    BY <1>0, <2>1, <2>2, <2>3 DEF Parts, locals
  <2>. QED
    BY <2>1, <2>2, <2>5, <2>6, <2>7 DEF Solo, Known, Progress, WayBack, locals
<1>8. CASE Start(u)
  <2>1. /\ stage[u] = "start" /\ UNCHANGED locals /\ name' = name
        /\ \/ /\ stage'[u] = "remove" /\ runs' = runs \cup {u}
           \/ /\ stage'[u] = "drop"
              /\ \/ u \notin connected'
                 \/ runs' = runs /\ faults' = faults + 1
                 \/ ~Exists(u)
                 \/ runs \ {u} # {}
    BY <1>0, <1>8 DEF Start, Goto, Succeeds, Fails, PortsTaken, docker
  <2>2. /\ old[u] = Initial /\ original[u] = Original /\ backup[u] # Original
        /\ Parts(u, backup[u], Original, {})
    BY <1>o, <2>1 DEF Known, Progress
  <2>3. Exists(u) /\ runs \ {u} = {}
    BY <1>0, <2>2 DEF Parts, Exists
  <2>4. stage'[u] = "drop" /\ u \in connected' =>
          faults' > 0 /\ Parts(u, backup[u], Original, {})'
    BY <1>0, <2>1, <2>2, <2>3 DEF Parts, locals
  <2>5. stage'[u] = "remove" => Parts(u, backup[u], Original, {u})'
    BY <2>1, <2>2 DEF Parts, locals
  <2>6. Others(u)'
    BY <1>o, <2>1 DEF Others, Exists
  <2>. QED
    BY <2>1, <2>2, <2>4, <2>5, <2>6 DEF Solo, Known, Progress, WayBack, locals
<1>9. CASE RemoveOld(u)
  <2>1. /\ stage[u] = "remove" /\ stage'[u] = "done" /\ UNCHANGED locals
        /\ \/ name' = name /\ runs' = runs
           \/ \E c \in Containers : /\ name[c] = backup[u]
                                    /\ name' = Renamed(c, Absent) /\ runs' = runs \ {c}
    BY <1>0, <1>9 DEF RemoveOld, Goto, Tries, Succeeds, Fails, docker
  <2>2. /\ old[u] = Initial /\ original[u] = Original /\ backup[u] # Original
        /\ Parts(u, backup[u], Original, {u})
    BY <1>o, <2>1 DEF Known, Progress
  <2>3. \A c \in Containers : name[c] = backup[u] => c = Initial
    BY <1>0, <2>2 DEF Parts
  <2>4. runs' = {u} /\ \A c \in Containers : c # Initial => name'[c] = name[c]
    BY <1>0, <2>1, <2>2, <2>3 DEF Parts, Renamed
  <2>5. Others(u)'
    BY <1>0, <1>o, <2>4 DEF Others, Exists, Containers
  <2>. QED
    BY <1>0, <2>1, <2>2, <2>4, <2>5 DEF Solo, Known, Progress, WayBack, Parts, locals
<1>10. CASE DropNew(u)
  <2>1. /\ stage[u] = "drop" /\ stage'[u] = "unname" /\ UNCHANGED locals
        /\ name' \in {name, Renamed(u, Absent)}
        /\ u \in connected' => u \in connected
        /\ u \in connected' /\ faults' <= 1 =>
             \/ faults' = faults /\ name' = Renamed(u, Absent) /\ runs' = runs \ {u}
             \/ faults' = faults + 1
             \/ ~Exists(u) /\ faults' = faults
        /\ faults' \in {faults, faults + 1}
    BY <1>0, <1>10 DEF DropNew, Goto, Tries, Succeeds, Fails, docker
  <2>2. old[u] = Initial /\ original[u] = Original /\ backup[u] # Original
    BY <1>o, <2>1 DEF Known
  <2>3. Others(u)'
    BY <1>0, <1>o, <2>1 DEF Others, Exists, Renamed
  <2>4. ASSUME u \in connected'
        PROVE  faults' > 0 /\ (faults' <= 1 => Parts(u, backup[u], Absent, {})')
    <3>1. WayBack(u) /\ faults > 0
      BY <1>o, <2>1, <2>4 DEF WayBack
    <3>2. ASSUME faults' <= 1
          PROVE  Parts(u, backup[u], Absent, {})'
      <4>1. faults <= 1 /\ faults' = faults
        BY <1>0, <2>1, <3>1, <3>2
      <4>2. Parts(u, backup[u], Original, {})
        BY <2>1, <3>1, <4>1 DEF WayBack
      <4>3. name' = Renamed(u, Absent) /\ runs' = runs \ {u}
        BY <1>0, <2>1, <2>4, <3>2, <4>1, <4>2 DEF Parts, Exists
      <4>. QED
        BY <1>0, <2>1, <4>2, <4>3 DEF Parts, Renamed, locals
    <3>. QED
      BY <1>0, <2>1, <3>1, <3>2
  <2>. QED
    BY <2>1, <2>2, <2>3, <2>4 DEF Solo, Known, Progress, WayBack, locals
<1>11. CASE RenameBack(u)
  <2>1. /\ stage[u] = "unname" /\ stage'[u] = "restart" /\ UNCHANGED locals
        /\ u \in connected' => u \in connected
        /\ faults' \in {faults, faults + 1}
        /\ \/ name' = name
           \/ \E c \in Containers : name[c] = backup[u] /\ name' = Renamed(c, original[u])
        /\ u \in connected' /\ faults' = faults =>
             \/ Free(backup[u])
             \/ \E c \in Containers :
                  /\ name[c] = backup[u]
                  /\ \/ name' = Renamed(c, original[u]) /\ runs' = runs
                     \/ ~Free(original[u])
    BY <1>0, <1>11 DEF RenameBack, Goto, Tries, Succeeds, Fails, docker
  <2>2. old[u] = Initial /\ original[u] = Original /\ backup[u] # Original
    BY <1>o, <2>1 DEF Known
  <2>3. Others(u)'
    BY <1>0, <1>o, <2>1 DEF Others, Exists, Renamed
  <2>4. ASSUME u \in connected'
        PROVE  faults' > 0 /\ (faults' <= 1 => Parts(u, Original, Absent, {})')
    <3>1. WayBack(u) /\ faults > 0
      BY <1>o, <2>1, <2>4 DEF WayBack
    <3>2. ASSUME faults' <= 1
          PROVE  Parts(u, Original, Absent, {})'
      <4>1. faults <= 1 /\ faults' = faults
        BY <1>0, <2>1, <3>1, <3>2
      <4>2. Parts(u, backup[u], Absent, {})
        BY <2>1, <3>1, <4>1 DEF WayBack
      <4>3. ~Free(backup[u]) /\ Free(Original)
        BY <1>0, <1>o, <2>2, <4>2 DEF Parts, Free, Others, Exists, Containers
      <4>4. \A c \in Containers : name[c] = backup[u] => c = Initial
        BY <1>0, <4>2 DEF Parts
      <4>5. name' = Renamed(Initial, Original) /\ runs' = runs
        BY <2>1, <2>2, <2>4, <4>1, <4>3, <4>4
      <4>. QED
        BY <1>0, <4>2, <4>5 DEF Parts, Renamed
    <3>. QED
      BY <1>0, <2>1, <3>1, <3>2
  <2>. QED
    BY <2>1, <2>2, <2>3, <2>4 DEF Solo, Known, Progress, WayBack, locals
<1>12. CASE Restart(u)
  <2>1. /\ stage[u] = "restart" /\ stage'[u] = "rolledback" /\ UNCHANGED locals
        /\ name' = name /\ faults' \in {faults, faults + 1}
        /\ u \in connected' => u \in connected
        /\ u \in connected' /\ faults' = faults =>
             \/ runs' = runs \cup {old[u]}
             \/ ~Exists(old[u])
             \/ runs \ {old[u]} # {}
    BY <1>0, <1>12 DEF Restart, Goto, Tries, Succeeds, Fails, PortsTaken, docker
  <2>2. old[u] = Initial /\ original[u] = Original
    BY <1>o, <2>1 DEF Known
  <2>3. Others(u)'
    BY <1>o, <2>1 DEF Others, Exists
  <2>4. ASSUME u \in connected'
        PROVE  faults' > 0 /\ (faults' <= 1 => Parts(u, Original, Absent, {Initial})')
    <3>1. WayBack(u) /\ faults > 0
      BY <1>o, <2>1, <2>4 DEF WayBack
    <3>2. ASSUME faults' <= 1
          PROVE  Parts(u, Original, Absent, {Initial})'
      <4>1. faults <= 1 /\ faults' = faults
        BY <1>0, <2>1, <3>1, <3>2
      <4>2. Parts(u, Original, Absent, {})
        BY <2>1, <3>1, <4>1 DEF WayBack
      <4>3. Exists(Initial) /\ runs = {}
        BY <1>0, <4>2 DEF Parts, Exists
      <4>4. runs' = {Initial}
        BY <2>1, <2>2, <2>4, <4>1, <4>3
      <4>. QED
        BY <2>1, <4>2, <4>4 DEF Parts
    <3>. QED
      BY <1>0, <2>1, <3>1, <3>2
  <2>. QED
    BY <2>1, <2>2, <2>3, <2>4 DEF Solo, Known, Progress, WayBack, locals
<1>13. CASE Disconnect(u)
  <2>1. UNCHANGED <<docker, stage, locals, faults>> /\ u \notin connected'
    BY <1>13 DEF Disconnect
  <2>. QED
    BY <1>o, <2>1 DEF Solo, Others, Known, Progress, Parts, Exists, docker, locals
<1>. QED
  BY <1>1, <1>2, <1>3, <1>4, <1>5, <1>6, <1>7, <1>8, <1>9, <1>10, <1>11, <1>12, <1>13
     DEF RequestStep, upgradeStandalone

LEMMA AloneStep ==
  ASSUME AloneInv, [Next]_vars
  PROVE  AloneInv'
<1>0. TypeOK /\ TypeOK' /\ stage \in [Upgraders -> Stages]
  BY TypeStep DEF AloneInv, TypeOK, Stages
<1>1. ASSUME NEW u \in Upgraders, RequestStep(u), NEW w \in Upgraders, Alone(w)'
      PROVE  Solo(w)'
  <2>1. /\ \A v \in Upgraders \ {u} : stage'[v] = stage[v]
        /\ stage[u] # "idle" => stage'[u] # "idle"
    BY <1>0, <1>1, OwnStep DEF RequestStep
  <2>2. Alone(w)
    BY <1>1, <2>1 DEF Alone
  <2>3. CASE u = w
    BY <1>0, <1>1, <2>2, <2>3, SoloStep DEF AloneInv
  <2>4. CASE u # w
    <3>1. stage[u] = "idle" /\ stage'[u] = "idle"
      BY <1>1, <2>1, <2>4 DEF Alone
    <3>. QED
      BY <1>0, <1>1, <3>1 DEF RequestStep, Inspect, upgradeStandalone, InspectFully, Pull, Stop,
         Rename, GiveUp, Create, Start, RemoveOld, DropNew, RenameBack, Restart, Disconnect,
         Goto, Ends
  <2>. QED
    BY <2>3, <2>4
<1>2. ASSUME Crash, NEW w \in Upgraders, Alone(w)'
      PROVE  Solo(w)'
  <2>1. /\ UNCHANGED <<docker, locals, connected, faults>>
        /\ \A v \in Upgraders : \/ stage'[v] = stage[v]
                                \/ stage[v] \notin {"idle", "failed"} /\ stage'[v] = "lost"
    BY <1>0, <1>2 DEF Crash, Ends
  <2>2. Solo(w)
    BY <1>2, <2>1 DEF AloneInv, Alone
  <2>3. CASE stage'[w] = stage[w]
    <3>1. UNCHANGED <<name, runs, old, original, backup, connected, faults>>
      BY <2>1 DEF docker, locals
    <3>2. Others(w)' /\ Known(w)' /\ Progress(w)'
      BY <2>2, <2>3, <3>1 DEF Solo, Others, Known, Progress, Parts, Exists
    <3>3. w \in connected' => WayBack(w)'
      BY <2>2, <2>3, <3>1 DEF Solo, WayBack, Parts
    <3>. QED
      BY <3>2, <3>3 DEF Solo
  <2>4. CASE stage[w] \notin {"idle", "failed"} /\ stage'[w] = "lost"
    <3>1. UNCHANGED <<name, runs, old, original, backup, connected, faults>>
      BY <2>1 DEF docker, locals
    <3>2. Others(w)' /\ Known(w)' /\ Progress(w)'
      BY <2>2, <2>4, <3>1 DEF Solo, Others, Known, Progress, Exists
    <3>3. WayBack(w)'
      BY <2>4 DEF WayBack
    <3>. QED
      BY <3>2, <3>3 DEF Solo
  <2>. QED
    BY <2>1, <2>3, <2>4
<1>3. CASE UNCHANGED vars
  BY <1>0, <1>3 DEF AloneInv, Alone, Solo, Others, Known, Progress, WayBack, Parts, Exists,
     vars, docker, locals
<1>. QED
  BY <1>0, <1>1, <1>2, <1>3, StepCases DEF AloneInv

LEMMA AloneInit ==
  ASSUME Init
  PROVE  AloneInv
<1>1. TypeOK
  BY TypeInit
<1>2. ASSUME NEW u \in Upgraders
      PROVE  Solo(u)
  <2>1. /\ stage[u] = "idle" /\ Parts(u, Original, Absent, {Initial})
        /\ \A v \in Upgraders : name[v] = Absent
    BY <1>2, UpgradeAssumption DEF UpgradeAssumption, Init, Parts, Containers
  <2>. QED
    BY <2>1 DEF Solo, Others, Known, Progress, WayBack, Exists
<1>. QED
  BY <1>1, <1>2 DEF AloneInv

(* A request that meets no other finds what it left, stage by stage. *)
LEMMA AloneHolds == Spec => []AloneInv
BY AloneInit, AloneStep, PTL DEF Spec

(* An upgrade that reports success has left the new container running      *)
(* under the name and the old one at rest, whether or not the removal of   *)
(* the old one worked.                                                     *)
THEOREM UpgradeIsTrue == Spec => []SuccessIsTrue
<1>1. ASSUME AloneInv, NEW u \in Upgraders, Alone(u), stage[u] = "done"
      PROVE  name[u] = Original /\ u \in runs /\ old[u] \notin runs
  <2>1. name[u] = Original /\ runs = {u} /\ old[u] = Initial
    BY <1>1 DEF AloneInv, Solo, Known, Progress
  <2>. QED
    BY <2>1, UpgradeAssumption DEF UpgradeAssumption
<1>2. AloneInv => SuccessIsTrue
  BY <1>1 DEF SuccessIsTrue
<1>. QED
  BY <1>2, AloneHolds, PTL

(* After one failure past the stop, with the client still there, the       *)
(* container has its name again and runs: the way back undoes every step.  *)
THEOREM OneFailureIsUndone == Spec => []RollbackWorks
<1>1. ASSUME AloneInv, NEW u \in Upgraders, Alone(u), stage[u] = "rolledback",
             u \in connected, faults <= 1
      PROVE  name[old[u]] = Original /\ old[u] \in runs
  <2>1. old[u] = Initial /\ Parts(u, Original, Absent, {Initial})
    BY <1>1 DEF AloneInv, Solo, Known, WayBack
  <2>. QED
    BY <2>1 DEF Parts
<1>2. AloneInv => RollbackWorks
  BY <1>1 DEF RollbackWorks
<1>. QED
  BY <1>2, AloneHolds, PTL

-----------------------------------------------------------------------------
(***************************************************************************)
(* Two requests, an obedient daemon and clients that stay.  The calls then *)
(* do what they can do, and a request's step has one of these outcomes.    *)
(***************************************************************************)
Obeyed ==
  /\ connected = Upgraders /\ faults = 0
  /\ \A u \in Upgraders : stage[u] # "lost"

Moves(u, from, to) == stage[u] \in from /\ stage' = [stage EXCEPT ![u] = to]

Finds(u) ==
  /\ Moves(u, {"idle"}, "inspect") /\ UNCHANGED <<docker, original, backup>>
  /\ \E c \in Containers : Exists(c) /\ old' = [old EXCEPT ![u] = c]

Reads(u) ==
  /\ Moves(u, {"inspect"}, "pull") /\ UNCHANGED <<docker, old, backup>>
  /\ Exists(old[u]) /\ original' = [original EXCEPT ![u] = name[old[u]]]

Quits(u) ==
  /\ Moves(u, {"idle", "inspect", "pull", "stop"}, "failed") /\ UNCHANGED <<docker, locals>>

Pulls(u) == Moves(u, {"pull"}, "stop") /\ UNCHANGED <<docker, locals>>

Stops(u) ==
  /\ Moves(u, {"stop"}, "rename") /\ UNCHANGED <<name, locals>>
  /\ Exists(old[u]) /\ runs' = runs \ {old[u]}

Renames(u) ==
  /\ Moves(u, {"rename"}, "create") /\ UNCHANGED <<runs, old, original>>
  /\ \E t \in Seconds :
       /\ Exists(old[u]) /\ Free(Append(original[u], t))
       /\ backup' = [backup EXCEPT ![u] = Append(original[u], t)]
       /\ name' = Renamed(old[u], Append(original[u], t))

Yields(u) ==
  /\ Moves(u, {"rename"}, "giveup") /\ UNCHANGED <<docker, old, original>>
  /\ \E b \in Seq(Seconds) : backup' = [backup EXCEPT ![u] = b]

Revives(u) ==
  /\ Moves(u, {"giveup"}, "failed") \/ Moves(u, {"restart"}, "rolledback")
  /\ UNCHANGED <<name, locals>>
  /\ \/ Exists(old[u]) /\ runs' = runs \cup {old[u]}
     \/ (~Exists(old[u]) \/ runs \ {old[u]} # {}) /\ UNCHANGED runs

Creates(u) ==
  /\ Moves(u, {"create"}, "start") /\ UNCHANGED <<runs, locals>>
  /\ Free(original[u]) /\ name' = Renamed(u, original[u])

CannotCreate(u) == Moves(u, {"create"}, "unname") /\ UNCHANGED <<docker, locals>>

Starts(u) ==
  /\ Moves(u, {"start"}, "remove") /\ UNCHANGED <<name, locals>>
  /\ Exists(u) /\ runs' = runs \cup {u}

CannotStart(u) ==
  /\ Moves(u, {"start"}, "drop") /\ UNCHANGED <<docker, locals>>
  /\ ~Exists(u) \/ runs \ {u} # {}

Removes(u) ==
  /\ Moves(u, {"remove"}, "done") /\ UNCHANGED locals
  /\ \/ UNCHANGED docker
     \/ \E c \in Containers : /\ name[c] = backup[u]
                              /\ name' = Renamed(c, Absent) /\ runs' = runs \ {c}

Drops(u) ==
  /\ Moves(u, {"drop"}, "unname") /\ UNCHANGED locals
  /\ \/ name' = Renamed(u, Absent) /\ runs' = runs \ {u}
     \/ ~Exists(u) /\ UNCHANGED docker

Unnames(u) ==
  /\ Moves(u, {"unname"}, "restart") /\ UNCHANGED <<runs, locals>>
  /\ \/ UNCHANGED name
     \/ \E c \in Containers : name[c] = backup[u] /\ name' = Renamed(c, original[u])

Outcome(u) ==
  \/ Finds(u) \/ Reads(u) \/ Quits(u) \/ Pulls(u) \/ Stops(u) \/ Renames(u) \/ Yields(u)
  \/ Revives(u) \/ Creates(u) \/ CannotCreate(u) \/ Starts(u) \/ CannotStart(u)
  \/ Removes(u) \/ Drops(u) \/ Unnames(u)

LEMMA ObeyedStep ==
  ASSUME TypeOK, NEW u \in Upgraders, RequestStep(u), Obeyed'
  PROVE  Obeyed /\ Outcome(u)
<1>0. /\ stage \in [Upgraders -> Stages] /\ original \in [Upgraders -> Seq(Seconds)]
      /\ connected \subseteq Upgraders /\ faults \in Nat /\ connected' = Upgraders /\ faults' = 0
  BY DEF TypeOK, Stages, Obeyed
<1>. DEFINE Worse == connected' \subseteq connected /\ (faults' = faults \/ faults' = faults + 1)
<1>t. ASSUME NEW possible, NEW named, NEW running, Tries(u, possible, named, running)
      PROVE  Worse
  BY <1>t DEF Tries, Succeeds, Fails
<1>c. Worse
  <2>1. CASE Inspect(u) \/ InspectFully(u) \/ Pull(u) \/ Disconnect(u)
    BY <2>1 DEF Inspect, InspectFully, Pull, Disconnect
  <2>2. CASE Stop(u) \/ Create(u) \/ DropNew(u)
    BY <1>t, <2>2 DEF Stop, Create, DropNew, Tries
  <2>3. CASE Rename(u)
    <3>1. PICK t \in Seconds :
            LET to == Append(original[u], t)
            IN  Tries(u, Exists(old[u]) /\ Free(to), Renamed(old[u], to), runs)
      BY <2>3 DEF Rename, Tries
    <3>. QED
      BY <1>t, <3>1
  <2>4. CASE GiveUp(u) \/ Start(u) \/ Restart(u)
    BY <1>t, <2>4 DEF GiveUp, Start, Restart, Tries, PortsTaken
  <2>5. CASE RemoveOld(u) \/ RenameBack(u)
    BY <1>t, <2>5 DEF RemoveOld, RenameBack
  <2>. QED
    BY <2>1, <2>2, <2>3, <2>4, <2>5 DEF RequestStep, upgradeStandalone
<1>l. stage[u] # "lost" /\ \A v \in Upgraders \ {u} : stage'[v] = stage[v]
  <2>1. stage[u] # "lost"
    BY DEF RequestStep, Inspect, upgradeStandalone, InspectFully, Pull, Stop, Rename,
       GiveUp, Create, Start, RemoveOld, DropNew, RenameBack, Restart, Disconnect, Ends
  <2>2. upgradeStandalone(u) \/ Inspect(u) \/ Disconnect(u)
    BY DEF RequestStep
  <2>. QED
    BY <2>1, <2>2, OwnStep
<1>2. connected = Upgraders /\ faults = 0 /\ Obeyed
  <2>0. connected = Upgraders
    BY <1>0, <1>c
  <2>1. faults = 0
    BY <1>0, <1>c
  <2>2. \A v \in Upgraders : stage'[v] # "lost"
    BY DEF Obeyed
  <2>. QED
    BY <1>l, <2>0, <2>1, <2>2, Zenon DEF Obeyed
<1>3. ASSUME NEW possible, NEW named, NEW running, Fails(u, possible, named, running)
      PROVE  ~possible /\ UNCHANGED docker
  BY <1>0, <1>2, <1>3 DEF Fails
<1>4. ASSUME NEW possible, NEW named, NEW running, Succeeds(u, possible, named, running)
      PROVE  possible /\ name' = named /\ runs' = running
  BY <1>4 DEF Succeeds
<1>5. ASSUME NEW possible, NEW named, NEW running, Tries(u, possible, named, running)
      PROVE  \/ possible /\ name' = named /\ runs' = running
             \/ ~possible /\ UNCHANGED docker
  BY <1>3, <1>4, <1>5 DEF Tries
<1>6. ~Disconnect(u)
  BY <1>0 DEF Disconnect
<1>7. Inspect(u) => Finds(u) \/ Quits(u)
  BY DEF Inspect, Finds, Quits, Moves, Goto, locals
<1>8. InspectFully(u) => Reads(u) \/ Quits(u)
  BY DEF InspectFully, Reads, Quits, Moves, Goto, locals
<1>9. Pull(u) => Pulls(u) \/ Quits(u)
  BY DEF Pull, Pulls, Quits, Moves, Goto
<1>10. Stop(u) => Stops(u) \/ Quits(u)
  BY <1>3, <1>4 DEF Stop, Stops, Quits, Moves, Goto
<1>11. ASSUME Rename(u)
       PROVE  Renames(u) \/ Yields(u)
  <2>1. PICK t \in Seconds :
          LET to == Append(original[u], t)
              possible == Exists(old[u]) /\ Free(to) IN
          /\ backup' = [backup EXCEPT ![u] = to]
          /\ \/ Succeeds(u, possible, Renamed(old[u], to), runs) /\ Goto(u, "create")
             \/ Fails(u, possible, Renamed(old[u], to), runs) /\ Goto(u, "giveup")
    BY <1>11 DEF Rename
  <2>2. Append(original[u], t) \in Seq(Seconds)
    BY <1>0
  <2>3. stage[u] = "rename" /\ UNCHANGED <<old, original>>
    BY <1>11 DEF Rename
  <2>4. CASE Succeeds(u, Exists(old[u]) /\ Free(Append(original[u], t)),
                      Renamed(old[u], Append(original[u], t)), runs) /\ Goto(u, "create")
    BY <2>1, <2>3, <2>4 DEF Succeeds, Renames, Moves, Goto
  <2>5. CASE Fails(u, Exists(old[u]) /\ Free(Append(original[u], t)),
                   Renamed(old[u], Append(original[u], t)), runs) /\ Goto(u, "giveup")
    BY <1>3, <2>1, <2>2, <2>3, <2>5 DEF Yields, Moves, Goto
  <2>. QED
    BY <2>1, <2>4, <2>5
<1>12. GiveUp(u) \/ Restart(u) => Revives(u)
  BY <1>5 DEF GiveUp, Restart, PortsTaken, Revives, Moves, Goto, docker
<1>13. Create(u) => Creates(u) \/ CannotCreate(u)
  BY <1>3, <1>4 DEF Create, Creates, CannotCreate, Moves, Goto
<1>14. Start(u) => Starts(u) \/ CannotStart(u)
  BY <1>3, <1>4 DEF Start, Starts, CannotStart, PortsTaken, Moves, Goto
<1>15. RemoveOld(u) => Removes(u)
  BY <1>5 DEF RemoveOld, Removes, Moves, Goto
<1>16. DropNew(u) => Drops(u)
  BY <1>5 DEF DropNew, Drops, Moves, Goto
<1>17. RenameBack(u) => Unnames(u)
  BY <1>5 DEF RenameBack, Unnames, Moves, Goto, docker
<1>. QED
  BY <1>2, <1>6, <1>7, <1>8, <1>9, <1>10, <1>11, <1>12, <1>13, <1>14, <1>15, <1>16, <1>17
     DEF RequestStep, upgradeStandalone, Outcome

(* The requests that have started their container, and those that have     *)
(* stopped another and not yet come to an end.                             *)
Up == {u \in Upgraders : stage[u] \in {"remove", "done"}}
Busy == {u \in Upgraders : stage[u] \in {"rename", "create", "start", "drop", "unname",
                                         "restart", "giveup"}}

Created == \A u \in Upgraders : Exists(u) => stage[u] \in {"start", "remove", "drop", "done"}

(* The container of w runs, and nobody is about to remove it. *)
Kept(w) ==
  w \in Up \cap runs /\ \A u \in Upgraders : stage[u] = "remove" => backup[u] # name[w]

BackupLonger ==
  \A u \in Upgraders : stage[u] \in {"create", "start", "remove", "drop", "unname"} =>
    Len(backup[u]) = Len(original[u]) + 1

NameNotLonger ==
  \A u \in Upgraders : stage[u] \in {"start", "remove"} /\ Exists(u) =>
    Len(name[u]) <= Len(original[u])

NoneUp ==
  /\ Exists(Initial)
  /\ Initial \in runs \/ Busy # {}
  /\ \A u \in Upgraders : stage[u] = "start" => Exists(u)

(* Both replace the first container.  A backup name is longer than the     *)
(* name the request puts its container under: of two that would remove     *)
(* each other's container, one is wrong.                                   *)
Apart ==
  /\ \A u \in Upgraders : old[u] = Initial
  /\ BackupLonger /\ NameNotLonger
  /\ runs \subseteq {Initial} \cup Up
  /\ Up = {} => NoneUp
  /\ Up # {} => \E w \in Upgraders : Kept(w)

(* v replaces the container of u, which was alone when v found it.         *)
Follows(u, v) ==
  /\ stage[u] \in {"start", "remove", "done"}
  /\ Exists(u) /\ runs \subseteq {u}
  /\ stage[u] = "start" \/ u \in runs \/ v \in Busy
  /\ stage[u] \in {"start", "remove"} => name[Initial] = backup[u]
  /\ stage[v] = "inspect" => name[u] = Original
  /\ stage[v] \in {"create", "start", "drop", "unname"} => name[u] = backup[v]
  /\ stage[v] = "start" => Exists(v)

Chain(u, v) ==
  /\ u # v /\ old[u] = Initial /\ old[v] = u
  /\ stage[u] \in {"start", "remove", "done", "drop", "unname", "restart", "rolledback"}
  /\ stage[v] # "idle"
  /\ original[u] = Original
  /\ stage[u] \in {"start", "remove", "drop", "unname"} => backup[u] # Original
  /\ stage[v] \notin {"inspect", "failed"} => original[v] = Original
  /\ stage[v] \in {"create", "start", "remove", "drop", "unname"} => backup[v] # Original
  /\ Exists(v) => name[v] = Original
  /\ IF v \in Up THEN v \in runs ELSE Follows(u, v)

Together == Created /\ (Apart \/ \E u, v \in Upgraders : Chain(u, v))

EndsInv == AloneInv /\ (Obeyed => Together)

AtMostTwo == \A u, v, w \in Upgraders : u = v \/ v = w \/ u = w

LEMMA Basics ==
  ASSUME TypeOK
  PROVE  /\ name \in [Containers -> Seq(Seconds) \cup {Absent}]
         /\ stage \in [Upgraders -> Stages]
         /\ old \in [Upgraders -> Containers] /\ original \in [Upgraders -> Seq(Seconds)]
         /\ backup \in [Upgraders -> Seq(Seconds)]
         /\ \A c, d \in Containers : name[c] = name[d] => c = d \/ name[c] = Absent
         /\ \A c \in runs : c \in Containers /\ Exists(c)
         /\ Initial \in Containers /\ Initial \notin Upgraders /\ Upgraders \subseteq Containers
         /\ Absent \notin Seq(Seconds) /\ Original \in Seq(Seconds)
BY UpgradeAssumption, OriginalIsName
   DEF UpgradeAssumption, TypeOK, Containers, Stages, Exists

(* What an outcome leaves alone. *)
LEMMA OutcomeFrame ==
  ASSUME TypeOK, NEW u \in Upgraders, Outcome(u), NEW w \in Upgraders, w # u
  PROVE  /\ stage'[w] = stage[w] /\ old'[w] = old[w]
         /\ original'[w] = original[w] /\ backup'[w] = backup[w]
<1>0. /\ stage \in [Upgraders -> Stages] /\ old \in [Upgraders -> Containers]
      /\ original \in [Upgraders -> Seq(Seconds)] /\ backup \in [Upgraders -> Seq(Seconds)]
  BY Basics
<1>1. stage'[w] = stage[w]
  BY <1>0 DEF Outcome, Moves, Finds, Reads, Quits, Pulls, Stops, Renames, Yields, Revives, Creates,
     CannotCreate, Starts, CannotStart, Removes, Drops, Unnames
<1>2. old'[w] = old[w]
  BY <1>0 DEF Outcome, Moves, Finds, Reads, Quits, Pulls, Stops, Renames, Yields, Revives, Creates,
     CannotCreate, Starts, CannotStart, Removes, Drops, Unnames, locals
<1>3. original'[w] = original[w]
  BY <1>0 DEF Outcome, Moves, Finds, Reads, Quits, Pulls, Stops, Renames, Yields, Revives, Creates,
     CannotCreate, Starts, CannotStart, Removes, Drops, Unnames, locals
<1>4. backup'[w] = backup[w]
  BY <1>0 DEF Outcome, Moves, Finds, Reads, Quits, Pulls, Stops, Renames, Yields, Revives, Creates,
     CannotCreate, Starts, CannotStart, Removes, Drops, Unnames, locals
<1>. QED
  BY <1>1, <1>2, <1>3, <1>4

(* Names change in these ways. *)
LEMMA OutcomeNames ==
  ASSUME TypeOK, NEW u \in Upgraders, Outcome(u)
  PROVE  \/ name' = name
         \/ Renames(u)
         \/ Creates(u)
         \/ /\ Removes(u)
            /\ \E c \in Containers : name[c] = backup[u] /\ name' = Renamed(c, Absent)
         \/ Drops(u) /\ name' = Renamed(u, Absent)
         \/ /\ Unnames(u)
            /\ \E c \in Containers : name[c] = backup[u] /\ name' = Renamed(c, original[u])
BY DEF Outcome, Finds, Reads, Quits, Pulls, Stops, Yields, Revives,
   CannotCreate, Starts, CannotStart, Removes, Drops, Unnames, docker

LEMMA CreatedStep ==
  ASSUME TypeOK, Created, NEW u \in Upgraders, Outcome(u)
  PROVE  Created'
<1>0. /\ name \in [Containers -> Seq(Seconds) \cup {Absent}] /\ stage \in [Upgraders -> Stages]
      /\ old \in [Upgraders -> Containers] /\ backup \in [Upgraders -> Seq(Seconds)]
      /\ Upgraders \subseteq Containers /\ Absent \notin Seq(Seconds)
  BY Basics
<1>1. \A c \in Containers : Exists(c)' => Exists(c) \/ (c = u /\ Creates(u))
  <2>1. CASE name' = name
    BY <2>1 DEF Exists
  <2>2. CASE Renames(u)
    BY <1>0, <2>2 DEF Renames, Renamed, Exists
  <2>3. CASE Creates(u)
    BY <1>0, <2>3 DEF Creates, Renamed, Exists
  <2>4. ASSUME NEW c \in Containers, name' = Renamed(c, Absent)
        PROVE  \A d \in Containers : Exists(d)' => Exists(d)
    BY <1>0, <2>4 DEF Renamed, Exists
  <2>5. ASSUME NEW c \in Containers, name[c] = backup[u], name' = Renamed(c, original[u])
        PROVE  \A d \in Containers : Exists(d)' => Exists(d)
    BY <1>0, <2>5 DEF Renamed, Exists
  <2>. QED
    BY <1>0, <2>1, <2>2, <2>3, <2>4, <2>5, OutcomeNames
<1>2. \A w \in Upgraders \ {u} : stage'[w] = stage[w]
  BY OutcomeFrame
<1>3. ASSUME Exists(u)'
      PROVE  stage'[u] \in {"start", "remove", "drop", "done"}
  <2>1. CASE Creates(u)
    BY <1>0, <2>1 DEF Creates, Moves
  <2>2. CASE ~Creates(u)
    <3>1. stage[u] \in {"start", "remove", "drop", "done"} /\ Exists(u)
      BY <1>1, <1>0, <1>3, <2>2 DEF Created
    <3>2. ~Drops(u)
      BY <1>0, <1>3, <3>1 DEF Drops, Renamed, Exists
    <3>3. Starts(u) \/ CannotStart(u) \/ Removes(u)
      BY <2>2, <3>1, <3>2 DEF Outcome, Moves, Finds, Reads, Quits, Pulls, Stops, Renames, Yields,
         Revives, CannotCreate, Drops, Unnames
    <3>. QED
      BY <1>0, <3>3 DEF Starts, CannotStart, Removes, Moves
  <2>. QED
    BY <2>1, <2>2
<1>. QED
  BY <1>0, <1>1, <1>2, <1>3 DEF Created

(* Of two that replace the first container: how long the names are. *)
LEMMA LengthsStep ==
  ASSUME TypeOK, Apart, NEW u \in Upgraders, Outcome(u)
  PROVE  BackupLonger' /\ NameNotLonger'
<1>0. /\ name \in [Containers -> Seq(Seconds) \cup {Absent}] /\ stage \in [Upgraders -> Stages]
      /\ original \in [Upgraders -> Seq(Seconds)] /\ backup \in [Upgraders -> Seq(Seconds)]
      /\ Upgraders \subseteq Containers /\ Absent \notin Seq(Seconds)
      /\ Initial \notin Upgraders
  BY Basics
<1>1. \A w \in Upgraders \ {u} : /\ stage'[w] = stage[w] /\ original'[w] = original[w]
                                /\ backup'[w] = backup[w]
  BY OutcomeFrame
<1>2. BackupLonger /\ NameNotLonger /\ old[u] = Initial
  BY DEF Apart
<1>l. \A w \in Upgraders : Len(original[w]) \in Nat /\ Len(backup[w]) \in Nat
  BY <1>0
<1>n. \A w \in Upgraders : Exists(w) => name[w] \in Seq(Seconds) /\ Len(name[w]) \in Nat
  BY <1>0 DEF Exists
<1>3. stage'[u] \in {"create", "start", "remove", "drop", "unname"} =>
        Len(backup'[u]) = Len(original'[u]) + 1
  <2>1. CASE Renames(u)
    <3>1. PICK t \in Seconds : backup' = [backup EXCEPT ![u] = Append(original[u], t)]
      BY <2>1 DEF Renames
    <3>2. original' = original /\ backup'[u] = Append(original[u], t)
      BY <1>0, <2>1, <3>1 DEF Renames
    <3>3. Len(Append(original[u], t)) = Len(original[u]) + 1
      BY <1>0
    <3>. QED
      BY <3>2, <3>3
  <2>2. CASE Finds(u) \/ Reads(u) \/ Quits(u) \/ Pulls(u) \/ Stops(u) \/ Yields(u) \/ Revives(u)
    <3>1. stage'[u] \notin {"create", "start", "remove", "drop", "unname"}
      BY <1>0, <2>2 DEF Moves, Finds, Reads, Quits, Pulls, Stops, Yields, Revives
    <3>. QED
      BY <3>1
  <2>3. CASE Creates(u) \/ CannotCreate(u) \/ Starts(u) \/ CannotStart(u) \/ Removes(u)
             \/ Drops(u) \/ Unnames(u)
    <3>1. /\ stage[u] \in {"create", "start", "remove", "drop", "unname"}
          /\ original' = original /\ backup' = backup
      BY <2>3 DEF Moves, Creates, CannotCreate, Starts, CannotStart, Removes, Drops, Unnames,
         locals
    <3>. QED
      BY <1>2, <3>1 DEF BackupLonger
  <2>. QED
    BY <2>1, <2>2, <2>3 DEF Outcome
<1>4. BackupLonger'
  BY <1>1, <1>2, <1>3 DEF BackupLonger
<1>5. \/ stage'[u] \notin {"start", "remove"}
      \/ Creates(u) /\ name'[u] = original[u] /\ original' = original
      \/ Starts(u) /\ stage[u] = "start" /\ name' = name /\ original' = original
  <2>1. Creates(u) => name'[u] = original[u] /\ original' = original
    BY <1>0 DEF Creates, Renamed, locals
  <2>2. Starts(u) => stage[u] = "start" /\ name' = name /\ original' = original
    BY DEF Starts, Moves, locals
  <2>3. ~Creates(u) /\ ~Starts(u) => stage'[u] \notin {"start", "remove"}
    BY <1>0 DEF Outcome, Moves, Finds, Reads, Quits, Pulls, Stops, Renames, Yields, Revives,
       CannotCreate, CannotStart, Removes, Drops, Unnames
  <2>. QED
    BY <2>1, <2>2, <2>3
<1>6. ASSUME stage'[u] \in {"start", "remove"}, Exists(u)'
      PROVE  Len(name'[u]) <= Len(original'[u])
  BY <1>2, <1>5, <1>6, <1>l DEF NameNotLonger, Exists
<1>7. ASSUME NEW w \in Upgraders \ {u}, stage'[w] \in {"start", "remove"}, Exists(w)'
      PROVE  Len(name'[w]) <= Len(original'[w])
  <2>0. stage[w] \in {"start", "remove"} /\ original'[w] = original[w]
    BY <1>1, <1>7
  <2>1. CASE name'[w] = name[w]
    BY <1>2, <1>7, <2>0, <2>1 DEF NameNotLonger, Exists
  <2>2. CASE name'[w] # name[w]
    <3>1. Unnames(u) /\ name[w] = backup[u] /\ name'[w] = original[u]
      <4>1. ~Renames(u)
        BY <1>0, <1>2, <2>2 DEF Renames, Renamed
      <4>2. ~Creates(u)
        BY <1>0, <2>2 DEF Creates, Renamed
      <4>3. ASSUME NEW c \in Containers, name' = Renamed(c, Absent)
            PROVE  FALSE
        BY <1>0, <1>7, <2>2, <4>3 DEF Renamed, Exists
      <4>4. ASSUME NEW c \in Containers, name[c] = backup[u], name' = Renamed(c, original[u])
            PROVE  name[w] = backup[u] /\ name'[w] = original[u]
        BY <1>0, <2>2, <4>4 DEF Renamed
      <4>. QED
        BY <1>0, <2>2, <4>1, <4>2, <4>3, <4>4, OutcomeNames
    <3>2. Len(backup[u]) = Len(original[u]) + 1
      BY <1>2, <3>1 DEF BackupLonger, Unnames, Moves
    <3>3. Len(name[w]) <= Len(original[w])
      BY <1>0, <1>2, <2>0, <3>1 DEF NameNotLonger, Exists
    <3>. QED
      BY <1>l, <2>0, <3>1, <3>2, <3>3
  <2>. QED
    BY <2>1, <2>2
<1>8. NameNotLonger'
  BY <1>6, <1>7 DEF NameNotLonger
<1>. QED
  BY <1>4, <1>8

(* While none of them has started its own, the first one is there.         *)
LEMMA NoneUpStep ==
  ASSUME TypeOK, Apart, NEW u \in Upgraders, Outcome(u), Up = {}, Up' = {}
  PROVE  NoneUp'
<1>0. /\ name \in [Containers -> Seq(Seconds) \cup {Absent}] /\ stage \in [Upgraders -> Stages]
      /\ original \in [Upgraders -> Seq(Seconds)] /\ backup \in [Upgraders -> Seq(Seconds)]
      /\ Upgraders \subseteq Containers /\ Absent \notin Seq(Seconds)
      /\ Initial \notin Upgraders /\ Initial \in Containers
      /\ stage'[u] \in Stages
  <2>1. stage'[u] \in Stages
    BY Basics DEF Outcome, Moves, Finds, Reads, Quits, Pulls, Stops, Renames, Yields, Revives,
       Creates, CannotCreate, Starts, CannotStart, Removes, Drops, Unnames, Stages, Ends
  <2>. QED
    BY <2>1, Basics
<1>1. \A w \in Upgraders \ {u} : stage'[w] = stage[w]
  BY OutcomeFrame
<1>2. ~Starts(u) /\ ~Removes(u)
  BY <1>0 DEF Starts, Removes, Moves, Up
<1>3. old[u] = Initial /\ NoneUp /\ runs \subseteq {Initial}
  BY DEF Apart
<1>4. /\ \A c \in Containers \ {u} : Exists(c) => Exists(c)'
      /\ Exists(u) /\ ~Drops(u) => Exists(u)'
  <2>1. CASE Renames(u)
    <3>1. PICK t \in Seconds : name' = Renamed(Initial, Append(original[u], t))
      BY <1>3, <2>1 DEF Renames
    <3>a. Append(original[u], t) \in Seq(Seconds)
      BY <1>0
    <3>2. Append(original[u], t) # Absent
      BY <1>0, <3>a, Zenon
    <3>. QED
      BY <1>0, <3>1, <3>2 DEF Renamed, Exists
  <2>2. CASE Creates(u)
    BY <1>0, <2>2 DEF Creates, Renamed, Exists
  <2>3. CASE Drops(u) /\ name' = Renamed(u, Absent)
    BY <1>0, <2>3 DEF Renamed, Exists
  <2>4. ASSUME NEW c \in Containers, name[c] = backup[u], name' = Renamed(c, original[u])
        PROVE  \A d \in Containers : Exists(d) => Exists(d)'
    BY <1>0, <2>4 DEF Renamed, Exists
  <2>. QED
    BY <1>0, <1>2, <2>1, <2>2, <2>3, <2>4, OutcomeNames DEF Exists
<1>5. Exists(Initial)'
  BY <1>0, <1>3, <1>4 DEF NoneUp
<1>6. ASSUME NEW w \in Upgraders, stage'[w] = "start"
      PROVE  Exists(w)'
  <2>1. CASE w # u
    BY <1>0, <1>1, <1>3, <1>4, <1>6, <2>1 DEF NoneUp
  <2>2. CASE w = u
    <3>1. Creates(u)
      BY <1>0, <1>6, <2>2 DEF Outcome, Moves, Finds, Reads, Quits, Pulls, Stops, Renames, Yields,
         Revives, CannotCreate, Starts, CannotStart, Removes, Drops, Unnames
    <3>. QED
      BY <1>0, <2>2, <3>1 DEF Creates, Renamed, Exists
  <2>. QED
    BY <2>1, <2>2
<1>7. Initial \in runs' \/ Busy' # {}
  <2>1. CASE Revives(u)
    BY <1>3, <2>1 DEF Revives, NoneUp
  <2>2. CASE u \in Busy'
    BY <2>2
  <2>3. CASE ~Revives(u) /\ u \notin Busy'
    <3>1. Finds(u) \/ Reads(u) \/ Quits(u) \/ Pulls(u)
      BY <1>0, <1>2, <2>3 DEF Outcome, Moves, Stops, Renames, Yields, Creates, CannotCreate,
         CannotStart, Drops, Unnames, Busy
    <3>2. runs' = runs /\ u \notin Busy
      BY <3>1 DEF Finds, Reads, Quits, Pulls, Moves, docker, Busy
    <3>3. Busy \subseteq Busy'
      BY <1>1, <3>2 DEF Busy
    <3>. QED
      BY <1>3, <3>2, <3>3 DEF NoneUp
  <2>. QED
    BY <2>1, <2>2, <2>3
<1>. QED
  BY <1>5, <1>6, <1>7 DEF NoneUp

(* The container of one that has started is kept, be it the other's.       *)
LEMMA KeptStep ==
  ASSUME TypeOK, TypeOK', AtMostTwo, Apart, NEW u \in Upgraders, Outcome(u), Up' # {}
  PROVE  \E w \in Upgraders : Kept(w)'
<1>0. /\ name \in [Containers -> Seq(Seconds) \cup {Absent}] /\ stage \in [Upgraders -> Stages]
      /\ original \in [Upgraders -> Seq(Seconds)] /\ backup \in [Upgraders -> Seq(Seconds)]
      /\ Upgraders \subseteq Containers /\ Absent \notin Seq(Seconds)
      /\ Initial \notin Upgraders /\ Initial \in Containers
      /\ \A c \in runs : c \in Containers /\ Exists(c)
  BY Basics
<1>1. \A w \in Upgraders \ {u} : /\ stage'[w] = stage[w] /\ original'[w] = original[w]
                                /\ backup'[w] = backup[w]
  BY OutcomeFrame
<1>2. BackupLonger /\ NameNotLonger /\ old[u] = Initial
  BY DEF Apart
<1>l. \A w \in Upgraders : Len(original[w]) \in Nat /\ Len(backup[w]) \in Nat
  BY <1>0
<1>n. \A w \in Upgraders : Exists(w) => name[w] \in Seq(Seconds) /\ Len(name[w]) \in Nat
  BY <1>0 DEF Exists
(* One's backup name being the other's name, it is not the other way round.*)
<1>3. ASSUME NEW v \in Upgraders, NEW w \in Upgraders, Exists(v), Exists(w),
             stage[v] \in {"start", "remove"}, stage[w] \in {"start", "remove"},
             backup[v] = name[w]
      PROVE  backup[w] # name[v] /\ backup[v] # name[v]
  <2>1. Len(backup[v]) = Len(original[v]) + 1 /\ Len(backup[w]) = Len(original[w]) + 1
    BY <1>2, <1>3 DEF BackupLonger
  <2>2. Len(name[v]) <= Len(original[v]) /\ Len(name[w]) <= Len(original[w])
    BY <1>2, <1>3 DEF NameNotLonger
  <2>3. Len(backup[w]) # Len(name[v]) /\ Len(backup[v]) # Len(name[v])
    BY <1>3, <1>l, <1>n, <2>1, <2>2
  <2>. QED
    BY <2>3
<1>4. ASSUME NEW v \in Upgraders, Exists(v), stage[v] \in {"start", "remove"}
      PROVE  backup[v] # name[v]
  <2>1. Len(backup[v]) = Len(original[v]) + 1 /\ Len(name[v]) <= Len(original[v])
    BY <1>2, <1>4 DEF BackupLonger, NameNotLonger
  <2>2. Len(backup[v]) # Len(name[v])
    BY <1>4, <1>l, <1>n, <2>1
  <2>. QED
    BY <2>2
<1>5. CASE Starts(u) /\ \A w \in Upgraders : Kept(w) => backup[u] = name[w]
  <2>1. /\ stage[u] = "start" /\ stage'[u] = "remove" /\ name' = name /\ backup' = backup
        /\ Exists(u) /\ u \in runs'
    BY <1>0, <1>5 DEF Starts, Moves, locals
  <2>2. u \in Up'
    BY <2>1 DEF Up
  <2>3. backup[u] # name[u]
    BY <1>4, <2>1
  <2>4. ASSUME NEW x \in Upgraders, x # u, stage[x] = "remove"
        PROVE  backup[x] # name[u]
    <3>1. x \in Up
      BY <2>4 DEF Up
    <3>2. PICK w \in Upgraders : Kept(w)
      BY <3>1 DEF Apart
    <3>3. w # u
      BY <2>1, <3>2 DEF Kept, Up
    <3>4. w = x
      BY <2>4, <3>3 DEF AtMostTwo
    <3>5. Exists(x) /\ backup[u] = name[x]
      BY <1>0, <1>5, <3>2, <3>4 DEF Kept
    <3>. QED
      BY <1>3, <2>1, <2>4, <3>5
  <2>. QED
    BY <1>1, <2>1, <2>2, <2>3, <2>4 DEF Kept
<1>6. ASSUME NEW w \in Upgraders, Kept(w), Starts(u), backup[u] # name[w]
      PROVE  Kept(w)'
  <2>1. /\ stage[u] = "start" /\ stage'[u] = "remove" /\ name' = name /\ backup' = backup
        /\ w \in runs'
    BY <1>0, <1>6 DEF Starts, Moves, locals, Kept
  <2>2. w \in Up'
    BY <1>1, <1>6, <2>1 DEF Up, Kept
  <2>. QED
    BY <1>1, <1>6, <2>1, <2>2 DEF Kept
<1>7. ASSUME NEW w \in Upgraders, Kept(w), ~Starts(u)
      PROVE  Kept(w)'
  <2>0. /\ stage[w] \in {"remove", "done"} /\ w \in runs /\ Exists(w) /\ w \in Containers
        /\ w # Initial
        /\ \A x \in Upgraders : stage[x] = "remove" => backup[x] # name[w]
    BY <1>0, <1>7 DEF Kept, Up
  <2>1. stage'[u] # "remove"
    BY <1>0, <1>7 DEF Outcome, Moves, Finds, Reads, Quits, Pulls, Stops, Renames, Yields, Creates,
       Revives, CannotCreate, CannotStart, Removes, Drops, Unnames
  <2>2. w \in Up'
    <3>1. CASE u = w
      <4>1. Removes(u)
        BY <1>7, <2>0, <3>1 DEF Outcome, Moves, Finds, Reads, Quits, Pulls, Stops, Renames, Yields,
           Creates, Revives, CannotCreate, CannotStart, Drops, Unnames
      <4>. QED
        BY <1>0, <3>1, <4>1 DEF Removes, Moves, Up
    <3>2. CASE u # w
      BY <1>1, <2>0, <3>2 DEF Up
    <3>. QED
      BY <3>1, <3>2
  <2>d. Drops(u) => u # w
    BY <2>0 DEF Drops, Moves
  <2>r. ASSUME NEW c \in Containers, Removes(u), name[c] = backup[u]
        PROVE  c # w
    BY <2>0, <2>r DEF Removes, Moves
  <2>3. w \in runs'
    <3>1. CASE Stops(u)
      BY <1>2, <2>0, <3>1 DEF Stops
    <3>2. CASE Removes(u)
      BY <2>0, <2>r, <3>2 DEF Removes, docker
    <3>3. CASE Drops(u)
      BY <2>0, <2>d, <3>3 DEF Drops, docker
    <3>4. CASE Finds(u) \/ Reads(u) \/ Quits(u) \/ Pulls(u) \/ Renames(u) \/ Yields(u)
               \/ Revives(u) \/ Creates(u) \/ CannotCreate(u) \/ CannotStart(u) \/ Unnames(u)
      BY <2>0, <3>4 DEF Finds, Reads, Quits, Pulls, Renames, Yields, Revives, Creates,
         CannotCreate, CannotStart, Unnames, docker
    <3>. QED
      BY <1>7, <3>1, <3>2, <3>3, <3>4 DEF Outcome
  <2>4. \/ name'[w] = name[w]
        \/ Unnames(u) /\ name[w] = backup[u] /\ name'[w] = original[u]
    <3>1. Renames(u) => name'[w] = name[w]
      BY <1>0, <1>2, <2>0 DEF Renames, Renamed
    <3>2. Creates(u) => name'[w] = name[w]
      BY <1>0, <2>0 DEF Creates, Renamed, Moves
    <3>3. ASSUME NEW c \in Containers, Removes(u), name[c] = backup[u],
                 name' = Renamed(c, Absent)
          PROVE  name'[w] = name[w]
      BY <1>0, <2>0, <2>r, <3>3 DEF Renamed
    <3>4. Drops(u) /\ name' = Renamed(u, Absent) => name'[w] = name[w]
      BY <1>0, <2>0, <2>d DEF Renamed
    <3>5. ASSUME NEW c \in Containers, Unnames(u), name[c] = backup[u],
                 name' = Renamed(c, original[u])
          PROVE  \/ name'[w] = name[w]
                 \/ Unnames(u) /\ name[w] = backup[u] /\ name'[w] = original[u]
      BY <1>0, <2>0, <3>5 DEF Renamed
    <3>. QED
      BY <3>1, <3>2, <3>3, <3>4, <3>5, OutcomeNames
  <2>5. ASSUME NEW x \in Upgraders, stage'[x] = "remove"
        PROVE  backup'[x] # name'[w]
    <3>1. x # u /\ stage[x] = "remove" /\ backup'[x] = backup[x] /\ backup[x] # name[w]
      BY <1>1, <2>0, <2>1, <2>5
    <3>2. CASE name'[w] = name[w]
      BY <3>1, <3>2
    <3>3. CASE Unnames(u) /\ name[w] = backup[u] /\ name'[w] = original[u]
      <4>1. stage[u] = "unname" /\ w # u
        BY <2>0, <3>3 DEF Unnames, Moves
      <4>2. x = w
        BY <3>1, <4>1 DEF AtMostTwo
      <4>3. Len(backup[u]) = Len(original[u]) + 1 /\ Len(backup[w]) = Len(original[w]) + 1
        BY <1>2, <3>1, <4>1, <4>2 DEF BackupLonger
      <4>4. Len(name[w]) <= Len(original[w])
        BY <1>2, <2>0, <3>1, <4>2 DEF NameNotLonger
      <4>5. Len(backup[w]) # Len(original[u])
        BY <1>l, <3>3, <4>3, <4>4
      <4>. QED
        BY <3>1, <3>3, <4>2, <4>5
    <3>. QED
      BY <2>4, <3>2, <3>3
  <2>. QED
    BY <2>2, <2>3, <2>5 DEF Kept
<1>8. CASE ~Starts(u)
  <2>1. Up # {}
    <3>1. stage'[u] \in {"remove", "done"} => stage[u] = "remove"
      BY <1>0, <1>8 DEF Outcome, Moves, Finds, Reads, Quits, Pulls, Stops, Renames, Yields,
         Creates, Revives, CannotCreate, CannotStart, Removes, Drops, Unnames
    <3>. QED
      BY <1>1, <3>1 DEF Up
  <2>. QED
    BY <1>7, <1>8, <2>1 DEF Apart
<1>. QED
  BY <1>5, <1>6, <1>8

(* A step of two that replace the first container leaves them so, or one   *)
(* finds the container of the other, which was alone until now.            *)
LEMMA ApartStays ==
  ASSUME TypeOK, TypeOK', AtMostTwo, Apart, NEW u \in Upgraders, Outcome(u), old'[u] = Initial
  PROVE  Apart'
<1>0. /\ stage \in [Upgraders -> Stages] /\ Initial \notin Upgraders
      /\ \A c \in runs : c \in Containers /\ Exists(c)
  BY Basics
<1>1. \A w \in Upgraders \ {u} : stage'[w] = stage[w] /\ old'[w] = old[w]
  BY OutcomeFrame
<1>2. \A w \in Upgraders : old'[w] = Initial
  BY <1>1 DEF Apart
<1>3. BackupLonger' /\ NameNotLonger'
  BY LengthsStep
<1>4. Up \subseteq Up' /\ (Starts(u) => u \in Up')
  <2>1. stage[u] \in {"remove", "done"} => Removes(u)
    BY DEF Outcome, Moves, Finds, Reads, Quits, Pulls, Stops, Renames, Yields, Revives, Creates,
       CannotCreate, Starts, CannotStart, Drops, Unnames
  <2>2. (Removes(u) => stage'[u] = "done") /\ (Starts(u) => stage'[u] = "remove")
    BY <1>0 DEF Removes, Starts, Moves
  <2>. QED
    BY <1>1, <2>1, <2>2 DEF Up
<1>5. runs' \subseteq runs \cup {Initial} \cup Up'
  <2>1. CASE Starts(u)
    BY <1>4, <2>1 DEF Starts
  <2>2. CASE Revives(u)
    BY <2>2 DEF Revives, Apart
  <2>3. CASE ~Starts(u) /\ ~Revives(u)
    BY <2>3 DEF Outcome, Finds, Reads, Quits, Pulls, Stops, Renames, Yields, Creates,
       CannotCreate, CannotStart, Removes, Drops, Unnames, docker
  <2>. QED
    BY <2>1, <2>2, <2>3
<1>6. runs' \subseteq {Initial} \cup Up'
  BY <1>4, <1>5 DEF Apart
<1>7. Up' = {} => NoneUp'
  BY <1>4, NoneUpStep
<1>8. Up' # {} => \E w \in Upgraders : Kept(w)'
  BY KeptStep
<1>. QED
  BY <1>2, <1>3, <1>6, <1>7, <1>8 DEF Apart

LEMMA ApartStep ==
  ASSUME TypeOK, TypeOK', AtMostTwo, Created, AloneInv, Obeyed, Apart,
         NEW u \in Upgraders, Outcome(u)
  PROVE  Apart' \/ \E v, w \in Upgraders : Chain(v, w)'
<1>0. /\ stage \in [Upgraders -> Stages] /\ old \in [Upgraders -> Containers]
      /\ Initial \notin Upgraders
      /\ \A c \in runs : c \in Containers /\ Exists(c)
      /\ Containers = Upgraders \cup {Initial}
  BY Basics DEF Containers
<1>1. CASE old'[u] = Initial
  BY <1>1, ApartStays
<1>2. CASE old'[u] # Initial
  <2>1. Finds(u) /\ old'[u] \in Upgraders /\ Exists(old'[u])
    <3>1. old[u] = Initial
      BY DEF Apart
    <3>2. Finds(u)
      BY <1>2, <3>1 DEF Outcome, Reads, Quits, Pulls, Stops, Renames, Yields, Revives, Creates,
         CannotCreate, Starts, CannotStart, Removes, Drops, Unnames, locals
    <3>. QED
      BY <1>0, <1>2, <3>2 DEF Finds
  <2>2. PICK v \in Upgraders : v = old'[u]
    BY <2>1
  <2>3. /\ stage[u] = "idle" /\ stage'[u] = "inspect"
        /\ name' = name /\ runs' = runs /\ original' = original /\ backup' = backup
    BY <1>0, <2>1 DEF Finds, Moves, docker
  <2>4. ~Exists(u) /\ v # u
    BY <2>1, <2>2, <2>3 DEF Created
  <2>5. Alone(v) /\ Solo(v) /\ WayBack(v) /\ ~(faults > 0)
    <3>1. \A x \in Upgraders \ {v} : x = u
      BY <2>4 DEF AtMostTwo
    <3>2. Alone(v)
      BY <2>3, <3>1 DEF Alone
    <3>3. Solo(v) /\ v \in connected /\ faults = 0
      BY <3>2 DEF AloneInv, Obeyed
    <3>. QED
      BY <3>2, <3>3 DEF Solo
  <2>6. stage[v] \in {"start", "remove", "done"}
    <3>1. stage[v] \in {"start", "remove", "drop", "done"}
      BY <2>1, <2>2 DEF Created
    <3>. QED
      BY <2>5, <3>1 DEF WayBack
  <2>7. /\ original[v] = Original /\ name[v] = Original
        /\ stage[v] \in {"start", "remove"} => backup[v] # Original /\ name[Initial] = backup[v]
        /\ runs = IF stage[v] = "start" THEN {} ELSE {v}
    BY <2>5, <2>6 DEF Solo, Known, Progress, Parts
  <2>8. stage'[v] = stage[v] /\ old'[v] = Initial
    BY <2>4, OutcomeFrame DEF Apart
  <2>9. Follows(v, u)'
    BY <2>1, <2>2, <2>3, <2>6, <2>7, <2>8 DEF Follows, Exists
  <2>10. u \notin Up'
    BY <2>3 DEF Up
  <2>11. Chain(v, u)'
    BY <2>2, <2>3, <2>4, <2>6, <2>7, <2>8, <2>9, <2>10 DEF Chain, Exists
  <2>. QED
    BY <2>11
<1>. QED
  BY <1>1, <1>2

(* Of two that follow each other, a step of the first.                     *)
LEMMA FirstStep ==
  ASSUME TypeOK, NEW u \in Upgraders, NEW v \in Upgraders, Chain(u, v), Outcome(u)
  PROVE  Chain(u, v)'
<1>0. /\ name \in [Containers -> Seq(Seconds) \cup {Absent}] /\ stage \in [Upgraders -> Stages]
      /\ \A c, d \in Containers : name[c] = name[d] => c = d \/ name[c] = Absent
      /\ backup \in [Upgraders -> Seq(Seconds)]
      /\ Upgraders \subseteq Containers /\ Absent \notin Seq(Seconds)
      /\ Initial \notin Upgraders /\ Initial \in Containers
      /\ \A c \in runs : c \in Containers /\ Exists(c)
  BY Basics
<1>c. /\ u # v /\ old[u] = Initial /\ old[v] = u
      /\ stage[u] \in {"start", "remove", "done", "drop", "unname", "restart", "rolledback"}
      /\ stage[v] # "idle" /\ original[u] = Original
      /\ stage[u] \in {"start", "remove", "drop", "unname"} => backup[u] # Original
      /\ Exists(v) => name[v] = Original
      /\ v \in Up => v \in runs
      /\ v \notin Up => Follows(u, v)
  BY DEF Chain
<1>1. /\ stage'[v] = stage[v] /\ old'[v] = old[v] /\ original'[v] = original[v]
      /\ backup'[v] = backup[v]
  BY <1>c, OutcomeFrame
<1>2. v \in Up' <=> v \in Up
  BY <1>1 DEF Up
<1>3. Starts(u) \/ CannotStart(u) \/ Removes(u) \/ Drops(u) \/ Unnames(u) \/ Revives(u)
  BY <1>c DEF Outcome, Moves, Finds, Reads, Quits, Pulls, Stops, Renames, Yields, Creates,
     CannotCreate
<1>4. /\ UNCHANGED locals
      /\ stage'[u] \in {"start", "remove", "done", "drop", "unname", "restart", "rolledback"}
      /\ stage'[u] \in {"start", "remove", "drop", "unname"} =>
           stage[u] \in {"start", "remove", "drop", "unname"}
  BY <1>0, <1>3, <1>c DEF Starts, CannotStart, Removes, Drops, Unnames, Revives, Moves
<1>5. name'[v] = name[v] /\ (v \in Up /\ v \in runs => v \in runs')
  <2>1. CASE Starts(u) \/ CannotStart(u) \/ Revives(u)
    BY <2>1 DEF Starts, CannotStart, Revives, docker
  <2>2. CASE Drops(u)
    BY <1>0, <1>c, <2>2 DEF Drops, Renamed, docker
  <2>3. CASE Removes(u)
    <3>1. stage[u] = "remove"
      BY <2>3 DEF Removes, Moves
    <3>2. \A c \in Containers : name[c] = backup[u] => c # v
      BY <1>0, <1>c, <3>1 DEF Exists
    <3>. QED
      BY <1>0, <2>3, <3>2 DEF Removes, Renamed, docker
  <2>4. CASE Unnames(u)
    <3>1. stage[u] = "unname" /\ runs' = runs
      BY <2>4 DEF Unnames, Moves
    <3>2. \A c \in Containers : name[c] = backup[u] => c # v
      BY <1>0, <1>c, <3>1 DEF Exists
    <3>. QED
      BY <1>0, <2>4, <3>1, <3>2 DEF Unnames, Renamed
  <2>. QED
    BY <1>3, <2>1, <2>2, <2>3, <2>4
<1>6. ASSUME v \notin Up
      PROVE  Follows(u, v)'
  <2>1. Follows(u, v)
    BY <1>c, <1>6
  <2>2. Starts(u) \/ Removes(u)
    BY <1>0, <1>3, <2>1 DEF Follows, CannotStart, Drops, Unnames, Revives, Moves
  <2>3. CASE Starts(u)
    <3>1. /\ stage[u] = "start" /\ stage'[u] = "remove" /\ name' = name /\ u \in runs'
          /\ runs' \subseteq {u}
      BY <1>0, <2>1, <2>3 DEF Follows, Starts, Moves
    <3>. QED
      BY <1>1, <1>4, <2>1, <3>1 DEF Follows, Exists, locals
  <2>4. CASE Removes(u)
    <3>1. stage[u] = "remove" /\ stage'[u] = "done" /\ name[Initial] = backup[u]
      BY <1>0, <2>1, <2>4 DEF Follows, Removes, Moves
    <3>2. \A c \in Containers : name[c] = backup[u] => c = Initial
      BY <1>0, <3>1
    <3>n. \/ name' = name /\ runs' = runs
          \/ name' = Renamed(Initial, Absent) /\ runs' = runs \ {Initial}
      BY <2>4, <3>2 DEF Removes, docker
    <3>i. runs \ {Initial} = runs
      BY <1>0, <2>1 DEF Follows
    <3>3. runs' = runs /\ \A c \in Upgraders : name'[c] = name[c]
      BY <1>0, <3>n, <3>i DEF Renamed
    <3>4. v \in Busy' <=> v \in Busy
      BY <1>1 DEF Busy
    <3>. QED
      BY <1>1, <1>4, <2>1, <3>1, <3>3, <3>4 DEF Follows, Exists, locals
  <2>. QED
    BY <2>2, <2>3, <2>4
<1>7. v \in Up' => v \in runs'
  BY <1>2, <1>5, <1>c
<1>. QED
  BY <1>1, <1>2, <1>4, <1>5, <1>6, <1>7, <1>c DEF Chain, Exists, locals

(* A step of the second. *)
LEMMA SecondStep ==
  ASSUME TypeOK, NEW u \in Upgraders, NEW v \in Upgraders, Chain(u, v), Outcome(v)
  PROVE  Chain(u, v)'
<1>0. /\ name \in [Containers -> Seq(Seconds) \cup {Absent}] /\ stage \in [Upgraders -> Stages]
      /\ original \in [Upgraders -> Seq(Seconds)]
      /\ \A c, d \in Containers : name[c] = name[d] => c = d \/ name[c] = Absent
      /\ backup \in [Upgraders -> Seq(Seconds)]
      /\ Upgraders \subseteq Containers /\ Absent \notin Seq(Seconds)
      /\ Initial \notin Upgraders /\ Initial \in Containers
      /\ \A c \in runs : c \in Containers /\ Exists(c)
      /\ Original \in Seq(Seconds) /\ Original # Absent
  BY Basics, OriginalIsName
<1>c. /\ u # v /\ old[u] = Initial /\ old[v] = u
      /\ stage[u] \in {"start", "remove", "done", "drop", "unname", "restart", "rolledback"}
      /\ stage[v] # "idle"
      /\ original[u] = Original
      /\ stage[u] \in {"start", "remove", "drop", "unname"} => backup[u] # Original
      /\ stage[v] \notin {"inspect", "failed"} => original[v] = Original
      /\ stage[v] \in {"create", "start", "remove", "drop", "unname"} => backup[v] # Original
      /\ Exists(v) => name[v] = Original
      /\ v \in Up => v \in runs
      /\ v \notin Up => Follows(u, v)
  BY DEF Chain
<1>1. /\ stage'[u] = stage[u] /\ old'[u] = old[u] /\ original'[u] = original[u]
      /\ backup'[u] = backup[u]
  BY <1>c, OutcomeFrame
<1>u. v \in Up <=> stage[v] \in {"remove", "done"}
  BY DEF Up
<1>. DEFINE Sure == /\ old'[v] = u /\ stage'[v] # "idle"
                    /\ stage'[v] \notin {"inspect", "failed"} => original'[v] = Original
                    /\ stage'[v] \in {"create", "start", "remove", "drop", "unname"} =>
                         backup'[v] # Original
                    /\ Exists(v)' => name'[v] = Original
<1>s. ASSUME Sure, v \in Up' => v \in runs', v \notin Up' => Follows(u, v)'
      PROVE  Chain(u, v)'
  BY <1>1, <1>c, <1>s DEF Chain
<1>2. CASE Removes(v)
  <2>1. stage[v] = "remove" /\ stage'[v] = "done" /\ UNCHANGED locals
    BY <1>0, <1>2 DEF Removes, Moves
  <2>2. \A c \in Containers : name[c] = backup[v] => c # v
    BY <1>0, <1>c, <2>1 DEF Exists
  <2>3. name'[v] = name[v] /\ (v \in runs => v \in runs')
    BY <1>0, <1>2, <2>2 DEF Removes, Renamed, docker
  <2>4. Sure /\ v \in runs' /\ v \in Up'
    BY <1>c, <1>u, <2>1, <2>3 DEF Exists, locals, Up
  <2>. QED
    BY <1>s, <2>4
<1>3. CASE ~Removes(v)
  <2>0. v \notin Up \/ ~Outcome(v)
    BY <1>3, <1>u DEF Outcome, Moves, Finds, Reads, Quits, Pulls, Stops, Renames, Yields, Revives,
       Creates, CannotCreate, Starts, CannotStart, Drops, Unnames
  <2>f. /\ v \notin Up /\ stage[u] \in {"start", "remove", "done"}
        /\ Exists(u) /\ runs \subseteq {u}
        /\ stage[u] = "start" \/ u \in runs \/ v \in Busy
        /\ stage[u] \in {"start", "remove"} => name[Initial] = backup[u]
        /\ stage[v] = "inspect" => name[u] = Original
        /\ stage[v] \in {"create", "start", "drop", "unname"} => name[u] = backup[v]
        /\ stage[v] = "start" => Exists(v)
    BY <1>c, <2>0 DEF Follows
  <2>1. CASE Reads(v)
    <3>1. /\ stage[v] = "inspect" /\ stage'[v] = "pull" /\ UNCHANGED <<docker, old, backup>>
          /\ original'[v] = name[u]
      BY <1>0, <1>c, <2>1 DEF Reads, Moves
    <3>2. v \notin Up' /\ v \notin Busy
      BY <3>1 DEF Up, Busy
    <3>3. Sure /\ Follows(u, v)'
      BY <1>1, <1>c, <2>f, <3>1, <3>2 DEF Follows, Exists, docker
    <3>. QED
      BY <1>s, <3>2, <3>3
  <2>2. CASE Quits(v) \/ Pulls(v)
    <3>1. /\ stage[v] \in {"inspect", "pull", "stop"} /\ stage'[v] \in {"stop", "failed"}
          /\ stage'[v] = "stop" => stage[v] = "pull"
          /\ UNCHANGED <<docker, locals>>
      BY <1>0, <1>c, <2>2 DEF Quits, Pulls, Moves
    <3>2. v \notin Up' /\ v \notin Busy
      BY <3>1 DEF Up, Busy
    <3>3. Sure /\ Follows(u, v)'
      BY <1>1, <1>c, <2>f, <3>1, <3>2 DEF Follows, Exists, docker, locals
    <3>. QED
      BY <1>s, <3>2, <3>3
  <2>3. CASE Stops(v)
    <3>1. /\ stage[v] = "stop" /\ stage'[v] = "rename" /\ UNCHANGED <<name, locals>>
          /\ runs' = runs \ {u}
      BY <1>0, <1>c, <2>3 DEF Stops, Moves
    <3>2. v \notin Up' /\ v \in Busy'
      BY <3>1 DEF Up, Busy
    <3>3. Sure /\ Follows(u, v)'
      BY <1>1, <1>c, <2>f, <3>1, <3>2 DEF Follows, Exists, locals
    <3>. QED
      BY <1>s, <3>2, <3>3
  <2>4. CASE Renames(v)
    <3>1. PICK t \in Seconds :
            LET to == Append(original[v], t) IN
            /\ Free(to) /\ backup' = [backup EXCEPT ![v] = to] /\ name' = Renamed(u, to)
      BY <1>c, <2>4 DEF Renames
    <3>2. /\ stage[v] = "rename" /\ stage'[v] = "create" /\ UNCHANGED <<runs, old, original>>
          /\ original[v] = Original
      BY <1>0, <1>c, <2>4 DEF Renames, Moves
    <3>3. Append(original[v], t) \in Seq(Seconds)
      BY <1>0
    <3>4. Append(original[v], t) # Original
      BY <3>2 DEF Original
    <3>5. Append(original[v], t) # Absent
      BY <1>0, <3>3, Zenon
    <3>6. /\ name'[u] = Append(original[v], t) /\ backup'[v] = Append(original[v], t)
          /\ \A c \in Containers \ {u} : name'[c] = name[c]
      BY <1>0, <3>1 DEF Renamed
    <3>7. v \notin Up' /\ v \in Busy'
      BY <3>2 DEF Up, Busy
    <3>8. Sure
      BY <1>0, <1>c, <3>2, <3>4, <3>6 DEF Exists
    <3>9. Follows(u, v)'
      BY <1>0, <1>1, <2>f, <3>2, <3>5, <3>6, <3>7 DEF Follows, Exists
    <3>. QED
      BY <1>s, <3>7, <3>8, <3>9
  <2>5. CASE Yields(v)
    <3>1. /\ stage[v] = "rename" /\ stage'[v] = "giveup" /\ UNCHANGED <<docker, old, original>>
      BY <1>0, <2>5 DEF Yields, Moves
    <3>2. v \notin Up' /\ v \in Busy'
      BY <3>1 DEF Up, Busy
    <3>3. Sure /\ Follows(u, v)'
      BY <1>1, <1>c, <2>f, <3>1, <3>2 DEF Follows, Exists, docker
    <3>. QED
      BY <1>s, <3>2, <3>3
  <2>6. CASE Revives(v)
    <3>1. /\ stage[v] \in {"giveup", "restart"} /\ stage'[v] \in {"failed", "rolledback"}
          /\ UNCHANGED <<name, locals>>
          /\ stage'[v] = "rolledback" => stage[v] = "restart"
      BY <1>0, <2>6 DEF Revives, Moves
    <3>2. runs' = {u}
      BY <1>c, <2>6, <2>f DEF Revives
    <3>3. v \notin Up'
      BY <3>1 DEF Up
    <3>4. Sure /\ Follows(u, v)'
      BY <1>1, <1>c, <2>f, <3>1, <3>2 DEF Follows, Exists, locals
    <3>. QED
      BY <1>s, <3>3, <3>4
  <2>7. CASE Creates(v)
    <3>1. /\ stage[v] = "create" /\ stage'[v] = "start" /\ UNCHANGED <<runs, locals>>
          /\ name' = Renamed(v, Original)
      BY <1>0, <1>c, <2>7 DEF Creates, Moves
    <3>2. name'[v] = Original /\ \A c \in Containers \ {v} : name'[c] = name[c]
      BY <1>0, <3>1 DEF Renamed
    <3>3. v \notin Up' /\ v \in Busy'
      BY <3>1 DEF Up, Busy
    <3>4. Sure /\ Follows(u, v)'
      BY <1>0, <1>1, <1>c, <2>f, <3>1, <3>2, <3>3 DEF Follows, Exists, locals
    <3>. QED
      BY <1>s, <3>3, <3>4
  <2>8. CASE CannotCreate(v) \/ CannotStart(v)
    <3>1. /\ stage[v] \in {"create", "start"} /\ stage'[v] \in {"unname", "drop"}
          /\ UNCHANGED <<docker, locals>>
      BY <1>0, <2>8 DEF CannotCreate, CannotStart, Moves
    <3>2. v \notin Up' /\ v \in Busy'
      BY <3>1 DEF Up, Busy
    <3>3. Sure /\ Follows(u, v)'
      BY <1>1, <1>c, <2>f, <3>1, <3>2 DEF Follows, Exists, docker, locals
    <3>. QED
      BY <1>s, <3>2, <3>3
  <2>9. CASE Starts(v)
    <3>1. /\ stage[v] = "start" /\ stage'[v] = "remove" /\ UNCHANGED <<name, locals>>
          /\ v \in runs'
      BY <1>0, <2>9 DEF Starts, Moves
    <3>2. v \in Up' /\ Sure
      BY <1>c, <3>1 DEF Up, Exists, locals
    <3>. QED
      BY <1>s, <3>1, <3>2
  <2>10. CASE Drops(v)
    <3>1. stage[v] = "drop" /\ stage'[v] = "unname" /\ UNCHANGED locals
      BY <1>0, <2>10 DEF Drops, Moves
    <3>2. /\ name'[v] = Absent /\ \A c \in Containers \ {v} : name'[c] = name[c]
          /\ runs' = runs \ {v}
      BY <1>0, <2>10 DEF Drops, Renamed, Exists, docker
    <3>3. v \notin Up' /\ v \in Busy'
      BY <3>1 DEF Up, Busy
    <3>4. Sure /\ Follows(u, v)'
      BY <1>0, <1>1, <1>c, <2>f, <3>1, <3>2, <3>3 DEF Follows, Exists, locals
    <3>. QED
      BY <1>s, <3>3, <3>4
  <2>11. CASE Unnames(v)
    <3>1. stage[v] = "unname" /\ stage'[v] = "restart" /\ UNCHANGED <<runs, locals>>
      BY <1>0, <2>11 DEF Unnames, Moves
    <3>2. \A c \in Containers : name[c] = backup[v] => c = u
      BY <1>0, <2>f, <3>1 DEF Exists
    <3>3. name'[u] # Absent /\ \A c \in Containers \ {u} : name'[c] = name[c]
      BY <1>0, <1>c, <2>11, <2>f, <3>1, <3>2 DEF Unnames, Renamed, Exists
    <3>4. v \notin Up' /\ v \in Busy'
      BY <3>1 DEF Up, Busy
    <3>5. Sure /\ Follows(u, v)'
      BY <1>0, <1>1, <1>c, <2>f, <3>1, <3>3, <3>4 DEF Follows, Exists, locals
    <3>. QED
      BY <1>s, <3>4, <3>5
  <2>12. ~Finds(v)
    BY <1>c DEF Finds, Moves
  <2>. QED
    BY <1>3, <2>1, <2>2, <2>3, <2>4, <2>5, <2>6, <2>7, <2>8, <2>9, <2>10, <2>11, <2>12
       DEF Outcome
<1>. QED
  BY <1>2, <1>3

LEMMA EndsStep ==
  ASSUME AtMostTwo, EndsInv, [Next]_vars
  PROVE  EndsInv'
<1>0. AloneInv' /\ TypeOK /\ TypeOK' /\ stage \in [Upgraders -> Stages]
  BY AloneStep DEF EndsInv, AloneInv, TypeOK, Stages
<1>1. ASSUME NEW u \in Upgraders, RequestStep(u), Obeyed'
      PROVE  Together'
  <2>1. Obeyed /\ Outcome(u)
    BY <1>0, <1>1, ObeyedStep
  <2>2. Together /\ AloneInv
    BY <2>1 DEF EndsInv
  <2>3. Created'
    BY <1>0, <2>1, <2>2, CreatedStep DEF Together
  <2>4. CASE Apart
    BY <1>0, <2>1, <2>2, <2>3, <2>4, ApartStep DEF Together
  <2>5. ASSUME NEW a \in Upgraders, NEW b \in Upgraders, Chain(a, b)
        PROVE  Chain(a, b)'
    <3>1. u = a \/ u = b
      BY <2>5 DEF AtMostTwo, Chain
    <3>. QED
      BY <1>0, <2>1, <2>5, <3>1, FirstStep, SecondStep
  <2>. QED
    BY <2>2, <2>3, <2>4, <2>5 DEF Together
<1>2. CASE Crash
  <2>1. PICK u \in Upgraders : stage[u] \notin {"idle"} \cup Ends
    BY <1>2 DEF Crash
  <2>2. stage'[u] = "lost"
    BY <1>2, <2>1 DEF Crash
  <2>3. ~Obeyed'
    BY <2>2 DEF Obeyed
  <2>. QED
    BY <1>0, <2>3 DEF EndsInv
<1>3. CASE UNCHANGED vars
  <2>1. UNCHANGED <<name, runs, stage, old, original, backup, connected, faults>>
    BY <1>3 DEF vars, docker, locals
  <2>2. (Obeyed' <=> Obeyed) /\ (Created' <=> Created) /\ Up' = Up /\ Busy' = Busy
    BY <2>1 DEF Obeyed, Created, Exists, Up, Busy
  <2>3. Apart => Apart'
    BY <2>1, <2>2 DEF Apart, BackupLonger, NameNotLonger, NoneUp, Kept, Exists
  <2>4. ASSUME NEW a \in Upgraders, NEW b \in Upgraders, Chain(a, b)
        PROVE  Chain(a, b)'
    BY <2>1, <2>2, <2>4 DEF Chain, Follows, Exists
  <2>5. Together => Together'
    BY <2>2, <2>3, <2>4 DEF Together
  <2>. QED
    BY <1>0, <2>2, <2>5 DEF EndsInv
<1>. QED
  BY <1>0, <1>1, <1>2, <1>3, StepCases DEF EndsInv

(* However two upgrades interleave: if the daemon obeys and the clients    *)
(* stay, a container runs in the end.  Neither removes the container that  *)
(* the other has started, unless its own runs by then.                     *)
THEOREM TwoEndUp ==
  ASSUME AtMostTwo
  PROVE  Spec => []ServiceEndsUp
<1>1. ASSUME Init
      PROVE  EndsInv
  <2>1. AloneInv
    BY <1>1, AloneInit
  <2>2. /\ \A u \in Upgraders : stage[u] = "idle" /\ old[u] = Initial /\ ~Exists(u)
        /\ runs = {Initial} /\ name[Initial] = Original
    BY <1>1, UpgradeAssumption DEF UpgradeAssumption, Init, Exists, Containers
  <2>3. Up = {} /\ Exists(Initial)
    BY <2>2, OriginalIsName DEF Up, Exists
  <2>4. Created /\ Apart
    BY <2>2, <2>3 DEF Created, Apart, BackupLonger, NameNotLonger, NoneUp
  <2>. QED
    BY <2>1, <2>4 DEF EndsInv, Together
<1>2. ASSUME EndsInv, \A u \in Upgraders : stage[u] \in Ends \ {"lost"},
             connected = Upgraders, faults = 0
      PROVE  runs # {}
  <2>1. Obeyed /\ Together
    BY <1>2 DEF Obeyed, EndsInv
  <2>2. Busy = {}
    BY <1>2 DEF Busy, Ends
  <2>3. CASE Apart
    BY <2>2, <2>3 DEF Apart, NoneUp, Kept
  <2>4. ASSUME NEW u \in Upgraders, NEW v \in Upgraders, Chain(u, v)
        PROVE  runs # {}
    <3>1. stage[u] # "start"
      BY <1>2 DEF Ends
    <3>. QED
      BY <2>2, <2>4, <3>1 DEF Chain, Follows
  <2>. QED
    BY <2>1, <2>3, <2>4 DEF Together
<1>3. EndsInv => ServiceEndsUp
  BY <1>2 DEF ServiceEndsUp
<1>. QED
  BY <1>1, <1>3, EndsStep, PTL DEF Spec

=============================================================================
