------------------------ MODULE ServiceLifecycleProofs ------------------------
(***************************************************************************)
(* Theorems about ServiceLifecycle, for any number of updates, versions,   *)
(* restarts, crashes and faults.                                           *)
(***************************************************************************)
EXTENDS ServiceLifecycle, TLAPS

USE DEF binary, updating, process, uninstalling, docker, counters

(***************************************************************************)
(* The inductive invariant: an update that has not opened the file has     *)
(* made no inode yet, and until two requests have been at the binary at    *)
(* once an update writes alone, to a file that is not the binary, and      *)
(* renames only what it has verified.                                      *)
(***************************************************************************)
Fresh ==
  \A r \in Updates : stage[r] \in {"idle", "fetch"} => exe # r /\ tmp # r

WritesAlone ==
  \A r, q \in Updates : stage[r] \in Writing /\ stage[q] \in Writing => r = q

BinaryApart ==
  /\ tmp # None => tmp # exe
  /\ \A r \in Updates : stage[r] = "copy" => fd[r] \notin {exe, None}

RenamesVerified ==
  \A r \in Updates : stage[r] = "rename" /\ tmp # None => body[tmp] = VersionOf[r]

ServiceInv ==
  /\ TypeOK
  /\ Fresh
  /\ ~overlap => WritesAlone /\ BinaryApart /\ RenamesVerified
  /\ BinaryIsWhole

(***************************************************************************)
(* Types.                                                                  *)
(***************************************************************************)
LEMMA InodeFacts == None \notin Inodes /\ Partial \notin Versions
BY ServiceAssumption DEF Inodes, Versions

LEMMA RemovalStages ==
  /\ \A i \in 1..Len(Removal) : Removal[i] \in Uninstalling
  /\ Removal[1] = "binary" /\ "asked" \in Uninstalling
  /\ Len(Removal) = 6
BY DEF Removal, Uninstalling

FileTypes ==
  /\ exe \in Inodes \cup {None}
  /\ tmp \in Updates \cup {None}
  /\ body \in [Inodes -> Versions \cup {Partial}]
  /\ stage \in [Updates -> {"idle", "done", "failed", "cut"} \cup InFlight]
  /\ fd \in [Updates -> Updates \cup {None}]
  /\ overlap \in BOOLEAN

ProcessTypes ==
  /\ service \in {"up", "stopping", "down"}
  /\ running \in Versions
  /\ job \in BOOLEAN
  /\ pending \in BOOLEAN
  /\ dockerd \in BOOLEAN
  /\ client \in BOOLEAN
  /\ retrying \in BOOLEAN
  /\ client => ~retrying

RemovalTypes ==
  /\ loaded \in BOOLEAN
  /\ un \in {"none", "finished", "cut"} \cup Uninstalling
  /\ files \subseteq Files

CounterTypes ==
  /\ restarts \in 0..MaxRestarts
  /\ crashes \in 0..MaxCrashes
  /\ faults \in 0..MaxFaults

LEMMA TypeParts == TypeOK <=> FileTypes /\ ProcessTypes /\ RemovalTypes /\ CounterTypes
BY DEF TypeOK, FileTypes, ProcessTypes, RemovalTypes, CounterTypes

LEMMA TypeInit == Init => TypeOK
<1> SUFFICES ASSUME Init PROVE TypeOK
  OBVIOUS
<1>1. FileTypes
  BY DEF Init, FileTypes, Inodes, Versions
<1>2. ProcessTypes
  BY DEF Init, ProcessTypes, Versions
<1>3. RemovalTypes
  BY DEF Init, RemovalTypes
<1>4. CounterTypes
  BY ServiceAssumption DEF Init, CounterTypes
<1>. QED
  BY <1>1, <1>2, <1>3, <1>4, TypeParts

LEMMA FileStep == FileTypes /\ [Next]_vars => FileTypes'
<1> SUFFICES ASSUME FileTypes, [Next]_vars PROVE FileTypes'
  OBVIOUS
<1> USE DEF FileTypes
<1>g. ASSUME NEW r \in Updates, NEW from, NEW to \in {"idle", "done", "failed", "cut"} \cup InFlight,
             Goto(r, from, to)
      PROVE  stage' \in [Updates -> {"idle", "done", "failed", "cut"} \cup InFlight]
  BY <1>g DEF Goto
<1>1. ASSUME NEW r \in Updates, Update(r) \/ Verify(r) \/ Answer(r) PROVE FileTypes'
  <2>1. stage' \in [Updates -> {"idle", "done", "failed", "cut"} \cup InFlight]
    BY <1>g, <1>1 DEF Update, Verify, Answer, InFlight, Writing
  <2>. QED
    BY <1>1, <2>1 DEF Update, Verify, Answer
<1>2. ASSUME NEW r \in Updates, Open(r) PROVE FileTypes'
  <2>1. stage' \in [Updates -> {"idle", "done", "failed", "cut"} \cup InFlight]
    BY <1>g, <1>2 DEF Open, InFlight, Writing
  <2>2. tmp' \in Updates \cup {None} /\ fd' \in [Updates -> Updates \cup {None}]
    BY <1>2 DEF Open
  <2>3. body' \in [Inodes -> Versions \cup {Partial}]
    BY <1>2 DEF Open
  <2>4. overlap' \in BOOLEAN /\ exe' = exe
    BY <1>2 DEF Open
  <2>. QED
    BY <2>1, <2>2, <2>3, <2>4
<1>3. ASSUME NEW r \in Updates, Copied(r) PROVE FileTypes'
  <2>1. stage' \in [Updates -> {"idle", "done", "failed", "cut"} \cup InFlight]
    BY <1>g, <1>3 DEF Copied, InFlight, Writing
  <2>2. body' \in [Inodes -> Versions \cup {Partial}]
    <3>1. PICK content \in {VersionOf[r], Partial} : body' = [body EXCEPT ![fd[r]] = content]
      BY <1>3 DEF Copied
    <3>2. content \in Versions \cup {Partial}
      BY DEF Versions
    <3>. QED
      BY <3>1, <3>2
  <2>. QED
    BY <1>3, <2>1, <2>2 DEF Copied
<1>4. ASSUME NEW r \in Updates, Rename(r) PROVE FileTypes'
  <2>1. stage' \in [Updates -> {"idle", "done", "failed", "cut"} \cup InFlight]
    BY <1>g, <1>4 DEF Rename, InFlight, Writing
  <2>. QED
    BY <1>4, <2>1 DEF Rename, Inodes
<1>5. ASSUME NEW r \in Updates, UpdateFails(r) PROVE FileTypes'
  <2>1. stage' \in [Updates -> {"idle", "done", "failed", "cut"} \cup InFlight]
    BY <1>g, <1>5 DEF UpdateFails
  <2>. QED
    BY <1>5, <2>1 DEF UpdateFails
<1>6. CASE RemoveNext
  <2>1. exe' \in {exe, None}
    BY <1>6 DEF RemoveNext, Removed
  <2>. QED
    BY <1>6, <2>1 DEF RemoveNext
<1>7. CASE UninstallBegins
  BY <1>7 DEF UninstallBegins
<1>8. CASE Exit \/ Crash
  <2>1. stage' \in [Updates -> {"idle", "done", "failed", "cut"} \cup InFlight]
    BY <1>8 DEF Exit, Crash, Gone
  <2>. QED
    BY <1>8, <2>1 DEF Exit, Crash, Gone
<1>9. CASE Restart \/ RestartFires \/ RestartFails \/ Uninstall \/ Signal
  BY <1>9 DEF Restart, RestartFires, RestartFails, Uninstall, Signal
<1>10. CASE Start \/ StartFails \/ DockerdChanges \/ Retry \/ UNCHANGED vars
  BY <1>10 DEF Start, StartFails, DockerdChanges, Retry, vars
<1>. QED
  BY <1>1, <1>2, <1>3, <1>4, <1>5, <1>6, <1>7, <1>8, <1>9, <1>10
     DEF Next, Step, Restarter, Uninstaller, Systemd

LEMMA ProcessStep ==
  ASSUME FileTypes, ProcessTypes, RemovalTypes, [Next]_vars
  PROVE  ProcessTypes'
<1>1. ASSUME NEW r \in Updates, Update(r) \/ Open(r) \/ Copied(r) \/ Verify(r) \/ Rename(r) \/ UpdateFails(r)
      PROVE ProcessTypes'
  <2>1. UNCHANGED <<process, docker>>
    BY <1>1 DEF Update, Open, Copied, Verify, Rename, UpdateFails
  <2>. QED
    BY <2>1 DEF ProcessTypes
<1>2. CASE Uninstall \/ UninstallBegins \/ RemoveNext \/ UNCHANGED vars
  <2>1. UNCHANGED <<process, docker>>
    BY <1>2 DEF Uninstall, UninstallBegins, RemoveNext, vars
  <2>. QED
    BY <2>1 DEF ProcessTypes
<1>3. CASE Restart \/ RestartFails \/ \E r \in Updates : Answer(r)
  <2>1. pending' \in BOOLEAN /\ UNCHANGED <<service, running, job, docker>>
    BY <1>3 DEF Restart, RestartFails, Answer
  <2>. QED
    BY <2>1 DEF ProcessTypes
<1>4. CASE RestartFires \/ Signal
  <2>1. /\ service' = "stopping" /\ job' \in BOOLEAN /\ pending' \in BOOLEAN
        /\ UNCHANGED <<running, docker>>
    BY <1>4 DEF RestartFires, Signal, ProcessTypes
  <2>. QED
    BY <2>1 DEF ProcessTypes
<1>5. CASE Exit \/ Crash
  <2>1. /\ service' = "down" /\ job' \in BOOLEAN /\ pending' = FALSE
        /\ client' = FALSE /\ retrying' = FALSE /\ UNCHANGED <<running, dockerd>>
    BY <1>5 DEF Exit, Crash, Gone, ProcessTypes, RemovalTypes
  <2>. QED
    BY <2>1 DEF ProcessTypes
<1>6. CASE Start
  <2>1. running' \in Versions
    BY <1>6 DEF Start, Startable, FileTypes
  <2>. QED
    BY <1>6, <2>1 DEF Start, ProcessTypes
<1>7. CASE StartFails
  BY <1>7 DEF StartFails, ProcessTypes
<1>8. CASE DockerdChanges
  BY <1>8 DEF DockerdChanges, ProcessTypes
<1>9. CASE Retry
  BY <1>9 DEF Retry, ProcessTypes
<1>. QED
  BY <1>1, <1>2, <1>3, <1>4, <1>5, <1>6, <1>7, <1>8, <1>9 DEF Next, Step, Restarter, Uninstaller, Systemd

LEMMA RemovalStep == RemovalTypes /\ [Next]_vars => RemovalTypes'
<1> SUFFICES ASSUME RemovalTypes, [Next]_vars PROVE RemovalTypes'
  OBVIOUS
<1>1. ASSUME NEW r \in Updates, Update(r) \/ Step(r) PROVE RemovalTypes'
  <2>1. UNCHANGED uninstalling
    BY <1>1 DEF Update, Step, Open, Copied, Verify, Rename, Answer, UpdateFails
  <2>. QED
    BY <2>1 DEF RemovalTypes
<1>2. CASE \/ Restart \/ RestartFires \/ RestartFails \/ Start \/ StartFails
           \/ DockerdChanges \/ Retry \/ UNCHANGED vars
  <2>1. UNCHANGED uninstalling
    BY <1>2 DEF Restart, RestartFires, RestartFails, Start, StartFails, DockerdChanges, Retry, vars
  <2>. QED
    BY <2>1 DEF RemovalTypes
<1>3. CASE Uninstall \/ UninstallBegins \/ Signal
  <2>1. un' \in {"asked", Removal[1], "finished"} /\ UNCHANGED <<loaded, files>>
    BY <1>3 DEF Uninstall, UninstallBegins, Signal
  <2>. QED
    BY <2>1, RemovalStages DEF RemovalTypes
<1>4. CASE RemoveNext
  <2>1. PICK i \in 1..Len(Removal) - 1 :
          /\ un' = Removal[i + 1]
          /\ Removed(Removal[i], TRUE) \/ Removed(Removal[i], FALSE)
    BY <1>4 DEF RemoveNext
  <2>2. un' \in Uninstalling
    <3>1. i + 1 \in 1..Len(Removal)
      BY RemovalStages
    <3>. QED
      BY <2>1, <3>1, RemovalStages
  <2>3. files' \subseteq files
    BY <2>1 DEF Removed
  <2>4. loaded' \in BOOLEAN
    <3>1. loaded' = loaded \/ loaded' = ("unit" \in files)
      BY <2>1 DEF Removed
    <3>2. CASE loaded' = loaded
      BY <3>2 DEF RemovalTypes
    <3>3. CASE loaded' = ("unit" \in files)
      BY <3>3
    <3>. QED
      BY <3>1, <3>2, <3>3
  <2>. QED
    BY <2>2, <2>3, <2>4 DEF RemovalTypes
<1>5. CASE Exit \/ Crash
  <2>1. un' \in {"cut", un} /\ UNCHANGED <<loaded, files>>
    BY <1>5 DEF Exit, Crash, Gone
  <2>. QED
    BY <2>1 DEF RemovalTypes
<1>. QED
  BY <1>1, <1>2, <1>3, <1>4, <1>5 DEF Next, Restarter, Uninstaller, Systemd

LEMMA CounterStep == CounterTypes /\ [Next]_vars => CounterTypes'
<1> SUFFICES ASSUME CounterTypes, [Next]_vars PROVE CounterTypes'
  OBVIOUS
<1> USE ServiceAssumption
<1>1. CASE Fault
  BY <1>1 DEF Fault, CounterTypes, counters
<1>2. CASE UNCHANGED counters
  BY <1>2 DEF CounterTypes
<1>3. CASE Restart
  BY <1>3 DEF Restart, CounterTypes
<1>4. CASE Crash
  BY <1>4 DEF Crash, CounterTypes
<1>5. ASSUME ~Restart, ~Crash PROVE Fault \/ UNCHANGED counters
  <2>1. ASSUME NEW r \in Updates, Update(r) \/ Step(r) PROVE Fault \/ UNCHANGED counters
    BY <2>1 DEF Update, Step, Open, Copied, Verify, Rename, Answer, UpdateFails
  <2>2. CASE Restarter \/ Uninstall \/ Uninstaller
    BY <2>2 DEF Restarter, Uninstaller, RestartFires, RestartFails, Uninstall, UninstallBegins,
                RemoveNext, Signal
  <2>3. CASE Systemd \/ DockerdChanges \/ Retry \/ UNCHANGED vars
    BY <2>3 DEF Systemd, Exit, Start, StartFails, DockerdChanges, Retry, vars
  <2>. QED
    BY <1>5, <2>1, <2>2, <2>3 DEF Next
<1>. QED
  BY <1>1, <1>2, <1>3, <1>4, <1>5

LEMMA TypeStep == TypeOK /\ [Next]_vars => TypeOK'
<1> SUFFICES ASSUME TypeOK, [Next]_vars PROVE TypeOK'
  OBVIOUS
<1>1. FileTypes' /\ ProcessTypes' /\ RemovalTypes' /\ CounterTypes'
  BY TypeParts, FileStep, ProcessStep, RemovalStep, CounterStep
<1>. QED
  BY <1>1 DEF TypeOK, FileTypes, ProcessTypes, RemovalTypes, CounterTypes

LEMMA BinaryStep == ServiceInv /\ [Next]_vars => ServiceInv'
<1> SUFFICES ASSUME ServiceInv, [Next]_vars PROVE ServiceInv'
  OBVIOUS
<1>0. TypeOK' /\ FileTypes
  BY TypeStep, TypeParts DEF ServiceInv
<1>1. ASSUME NEW r \in Updates, Update(r) PROVE ServiceInv'
  <2>1. /\ stage[r] = "idle" /\ stage' = [stage EXCEPT ![r] = "fetch"]
        /\ UNCHANGED <<binary, fd, overlap>>
    BY <1>1 DEF Update, Goto
  <2>. QED
    BY <1>0, <2>1 DEF FileTypes, ServiceInv, Fresh, WritesAlone, BinaryApart, RenamesVerified,
                      BinaryIsWhole, Writing
<1>2. ASSUME NEW r \in Updates, Open(r) PROVE ServiceInv'
  <2>. DEFINE file == IF tmp = None THEN r ELSE tmp
  <2>1. /\ stage[r] = "fetch" /\ stage' = [stage EXCEPT ![r] = "copy"]
        /\ tmp' = file /\ body' = [body EXCEPT ![file] = Partial]
        /\ fd' = [fd EXCEPT ![r] = file] /\ exe' = exe
    BY <1>2 DEF Open, Goto
  <2>2. ~overlap' => ~overlap /\ \A q \in Updates \ {r} : stage[q] \notin Writing
    BY <1>2 DEF Open
  <2>3. Fresh'
    BY <1>0, <2>1 DEF FileTypes, ServiceInv, Fresh
  <2>4. ASSUME ~overlap' PROVE file # exe
    BY <2>1, <2>2, <2>4 DEF ServiceInv, Fresh, BinaryApart
  <2>5. ASSUME ~overlap' PROVE BinaryApart' /\ WritesAlone' /\ RenamesVerified'
    BY <1>0, <2>1, <2>2, <2>4, <2>5, ServiceAssumption DEF FileTypes, WritesAlone, BinaryApart, RenamesVerified, Writing
  <2>6. BinaryIsWhole'
    BY <1>0, <2>1, <2>2, <2>4 DEF FileTypes, ServiceInv, BinaryIsWhole
  <2>. QED
    BY <1>0, <2>3, <2>5, <2>6 DEF ServiceInv
<1>3. ASSUME NEW r \in Updates, Copied(r) PROVE ServiceInv'
  <2>1. PICK content \in {VersionOf[r], Partial} :
          /\ stage[r] = "copy" /\ stage' = [stage EXCEPT ![r] = "verify"]
          /\ body' = [body EXCEPT ![fd[r]] = content]
          /\ fd' = [fd EXCEPT ![r] = None]
          /\ UNCHANGED <<exe, tmp, overlap>>
    BY <1>3 DEF Copied, Goto
  <2>2. Fresh'
    BY <1>0, <2>1 DEF FileTypes, ServiceInv, Fresh
  <2>3. ASSUME ~overlap
        PROVE  fd[r] # exe /\ \A q \in Updates \ {r} : stage[q] \notin Writing
    BY <2>1, <2>3 DEF ServiceInv, BinaryApart, WritesAlone, Writing
  <2>4. ASSUME ~overlap PROVE BinaryApart' /\ WritesAlone' /\ RenamesVerified'
    BY <1>0, <2>1, <2>3, <2>4
       DEF FileTypes, ServiceInv, WritesAlone, BinaryApart, RenamesVerified, Writing
  <2>5. BinaryIsWhole'
    BY <1>0, <2>1, <2>3 DEF FileTypes, ServiceInv, BinaryIsWhole
  <2>. QED
    BY <1>0, <2>1, <2>2, <2>4, <2>5 DEF ServiceInv
<1>4. ASSUME NEW r \in Updates, Verify(r) PROVE ServiceInv'
  <2>1. /\ stage[r] = "verify" /\ stage' = [stage EXCEPT ![r] = "rename"]
        /\ body[tmp] = VersionOf[r]
        /\ UNCHANGED <<binary, fd, overlap>>
    BY <1>4 DEF Verify, Verified, Goto
  <2>. QED
    BY <1>0, <2>1 DEF FileTypes, ServiceInv, Fresh, WritesAlone, BinaryApart, RenamesVerified,
                      BinaryIsWhole, Writing
<1>5. ASSUME NEW r \in Updates, Rename(r) PROVE ServiceInv'
  <2>1. /\ stage[r] = "rename" /\ stage' = [stage EXCEPT ![r] = "answer"]
        /\ tmp # None /\ exe' = tmp /\ tmp' = None
        /\ UNCHANGED <<body, fd, overlap>>
    BY <1>5 DEF Rename, Goto
  <2>2. Fresh'
    BY <1>0, <2>1, ServiceAssumption DEF FileTypes, ServiceInv, Fresh
  <2>3. ASSUME ~overlap
        PROVE  body[tmp] \in Versions /\ \A q \in Updates \ {r} : stage[q] \notin Writing
    BY <2>1, <2>3 DEF ServiceInv, RenamesVerified, WritesAlone, Writing, Versions
  <2>4. ASSUME ~overlap PROVE BinaryApart' /\ WritesAlone' /\ RenamesVerified'
    BY <1>0, <2>1, <2>3, <2>4
       DEF FileTypes, ServiceInv, WritesAlone, BinaryApart, RenamesVerified, Writing
  <2>5. BinaryIsWhole'
    BY <2>1, <2>3 DEF BinaryIsWhole
  <2>. QED
    BY <1>0, <2>1, <2>2, <2>4, <2>5 DEF ServiceInv
<1>6. ASSUME NEW r \in Updates, UpdateFails(r) PROVE ServiceInv'
  <2>1. /\ stage' = [stage EXCEPT ![r] = "failed"]
        /\ tmp' = None /\ fd' = [fd EXCEPT ![r] = None]
        /\ UNCHANGED <<exe, body, overlap>>
    BY <1>6 DEF UpdateFails, Goto
  <2>. QED
    BY <1>0, <2>1, ServiceAssumption
       DEF FileTypes, ServiceInv, Fresh, WritesAlone, BinaryApart, RenamesVerified,
           BinaryIsWhole, Writing
<1>7. ASSUME NEW r \in Updates, Answer(r) PROVE ServiceInv'
  <2>1. /\ stage[r] = "answer" /\ stage' = [stage EXCEPT ![r] = "done"]
        /\ UNCHANGED <<binary, fd, overlap>>
    BY <1>7 DEF Answer, Goto
  <2>. QED
    BY <1>0, <2>1 DEF FileTypes, ServiceInv, Fresh, WritesAlone, BinaryApart, RenamesVerified,
                      BinaryIsWhole, Writing
<1>8. CASE UninstallBegins \/ RemoveNext
  <2>1. UNCHANGED <<tmp, body, stage, fd>>
    BY <1>8 DEF UninstallBegins, RemoveNext
  <2>2. exe' \in {exe, None}
    BY <1>8 DEF UninstallBegins, RemoveNext, Removed
  <2>3. ~overlap' => ~overlap
    <3>1. CASE UninstallBegins
      BY <3>1 DEF UninstallBegins
    <3>2. CASE RemoveNext
      BY <3>2 DEF RemoveNext
    <3>. QED
      BY <1>8, <3>1, <3>2
  <2>. QED
    BY <1>0, <2>1, <2>2, <2>3, ServiceAssumption
       DEF FileTypes, ServiceInv, Fresh, WritesAlone, BinaryApart, RenamesVerified,
           BinaryIsWhole, Writing
<1>9. CASE Exit \/ Crash
  <2>1. \A r \in Updates : /\ stage'[r] \notin InFlight
                           /\ stage'[r] = "idle" => stage[r] = "idle"
    <3>1. stage' = [r \in Updates |-> IF stage[r] \in Writing THEN "cut"
                              ELSE IF stage[r] \in InFlight THEN "failed" ELSE stage[r]]
      BY <1>9 DEF Exit, Crash, Gone
    <3>. QED
      BY <3>1 DEF InFlight, Writing
  <2>2. UNCHANGED <<binary, overlap>>
    BY <1>9 DEF Exit, Crash, Gone
  <2>. QED
    BY <1>0, <2>1, <2>2 DEF ServiceInv, Fresh, WritesAlone, BinaryApart, RenamesVerified,
                            BinaryIsWhole, Writing, InFlight
<1>10. CASE UNCHANGED <<binary, updating>>
  BY <1>0, <1>10 DEF ServiceInv, Fresh, WritesAlone, BinaryApart, RenamesVerified, BinaryIsWhole
<1>11. \/ \E r \in Updates : Update(r) \/ Step(r)
       \/ UninstallBegins \/ RemoveNext \/ Exit \/ Crash
       \/ UNCHANGED <<binary, updating>>
  BY DEF Next, Restarter, Uninstaller, Systemd, Restart, RestartFires, RestartFails, Uninstall,
         Signal, Start, StartFails, DockerdChanges, Retry, vars
<1>. QED
  BY <1>1, <1>2, <1>3, <1>4, <1>5, <1>6, <1>7, <1>8, <1>9, <1>10, <1>11 DEF Step

LEMMA ServiceInit == Init => ServiceInv
BY TypeInit, ServiceAssumption
   DEF Init, ServiceInv, Fresh, WritesAlone, BinaryApart, RenamesVerified, BinaryIsWhole,
       Writing, Inodes, Versions

LEMMA ServiceHolds == Spec => []ServiceInv
BY ServiceInit, BinaryStep, PTL DEF Spec

(* The variables keep to their types: the service runs nothing but a       *)
(* version in full, and never retries Docker while it holds a client.      *)
THEOREM TypesCorrect == Spec => []TypeOK
<1>1. ServiceInv => TypeOK
  BY DEF ServiceInv
<1>. QED
  BY <1>1, ServiceHolds, PTL

(* Whatever fails or crashes, Update replaces the binary by nothing but a  *)
(* version in full, as long as no two requests are at the binary at once.  *)
THEOREM BinaryStaysWhole == Spec => []BinaryIsWhole
<1>1. ServiceInv => BinaryIsWhole
  BY DEF ServiceInv
<1>. QED
  BY <1>1, ServiceHolds, PTL

(***************************************************************************)
(* The uninstall: what its steps have removed stays removed, and an update *)
(* that could bring the binary back has overlapped with it.                *)
(***************************************************************************)
After(n) == {Removal[i] : i \in n + 1..Len(Removal)} \cup {"finished"}

UpdatesOverlap ==
  un \in After(0) => overlap \/ \A r \in Updates : stage[r] \notin Writing

RemovedStays ==
  /\ un \in After(1) => exe = None \/ overlap
  /\ un \in After(2) => "config" \notin files
  /\ un \in After(3) => "data" \notin files
  /\ un \in After(4) => "unit" \notin files
  /\ un \in After(5) => ~loaded
  /\ un = "finished" => service # "up"

(* Who has made the file that an update writes to. *)
TmpHasMaker ==
  overlap \/ tmp = None \/ \E r \in Updates : stage[r] \in Writing \cup {"cut"}

RemovalInv == UpdatesOverlap /\ TmpHasMaker /\ (faults = 0 => RemovedStays)

LEMMA RemovalOrder ==
  /\ After(0) = {"binary", "config", "data", "unit", "reload", "signal", "finished"}
  /\ After(1) = {"config", "data", "unit", "reload", "signal", "finished"}
  /\ After(2) = {"data", "unit", "reload", "signal", "finished"}
  /\ After(3) = {"unit", "reload", "signal", "finished"}
  /\ After(4) = {"reload", "signal", "finished"}
  /\ After(5) = {"signal", "finished"}
BY DEF After, Removal

LEMMA OverlapStep == TypeOK /\ UpdatesOverlap /\ [Next]_vars => UpdatesOverlap'
<1> SUFFICES ASSUME TypeOK, UpdatesOverlap, [Next]_vars PROVE UpdatesOverlap'
  OBVIOUS
<1> USE RemovalOrder DEF UpdatesOverlap
<1>0. FileTypes
  BY TypeParts
<1>1. ASSUME NEW r \in Updates, Open(r) PROVE UpdatesOverlap'
  <2>1. un' = un /\ (un \in After(0) => overlap')
    BY <1>1 DEF Open
  <2>. QED
    BY <2>1
<1>2. ASSUME NEW r \in Updates, Update(r) \/ Copied(r) \/ Verify(r) \/ Rename(r) \/ Answer(r) \/ UpdateFails(r)
      PROVE  UpdatesOverlap'
  <2>1. /\ un' = un /\ overlap' = overlap
        /\ \A q \in Updates : stage'[q] \in Writing => stage[q] \in Writing
    BY <1>0, <1>2 DEF Update, Copied, Verify, Rename, Answer, UpdateFails, Goto, Writing, FileTypes
  <2>. QED
    BY <2>1
<1>3. CASE UninstallBegins
  <2>1. stage' = stage /\ (overlap' <=> overlap \/ \E r \in Updates : stage[r] \in Writing)
    BY <1>3 DEF UninstallBegins
  <2>. QED
    BY <2>1
<1>4. CASE RemoveNext
  <2>1. UNCHANGED <<stage, overlap>>
    BY <1>4 DEF RemoveNext
  <2>2. un \in After(0)
    <3>1. PICK i \in 1..Len(Removal) - 1 : un = Removal[i]
      BY <1>4 DEF RemoveNext
    <3>. QED
      BY <3>1 DEF After, Removal
  <2>. QED
    BY <2>1, <2>2
<1>5. CASE Signal
  BY <1>5 DEF Signal
<1>6. CASE Uninstall
  BY <1>6 DEF Uninstall
<1>7. CASE Exit \/ Crash
  <2>1. un' \in {"cut", un} /\ overlap' = overlap
    BY <1>7 DEF Exit, Crash, Gone
  <2>2. stage' = [r \in Updates |-> IF stage[r] \in Writing THEN "cut"
                            ELSE IF stage[r] \in InFlight THEN "failed" ELSE stage[r]]
    BY <1>7 DEF Exit, Crash, Gone
  <2>. QED
    BY <2>1, <2>2 DEF InFlight, Writing
<1>8. CASE \/ Restart \/ RestartFires \/ RestartFails \/ Start \/ StartFails
           \/ DockerdChanges \/ Retry \/ UNCHANGED vars
  <2>1. UNCHANGED <<un, stage, overlap>>
    BY <1>8 DEF Restart, RestartFires, RestartFails, Start, StartFails, DockerdChanges, Retry, vars
  <2>. QED
    BY <2>1
<1>. QED
  BY <1>1, <1>2, <1>3, <1>4, <1>5, <1>6, <1>7, <1>8
     DEF Next, Step, Restarter, Uninstaller, Systemd

LEMMA MakerStep == TypeOK /\ TmpHasMaker /\ [Next]_vars => TmpHasMaker'
<1> SUFFICES ASSUME TypeOK, TmpHasMaker, [Next]_vars PROVE TmpHasMaker'
  OBVIOUS
<1>0. FileTypes
  BY TypeParts
<1>1. ASSUME NEW r \in Updates, Open(r) \/ Copied(r) \/ Verify(r) PROVE TmpHasMaker'
  <2>1. stage'[r] \in Writing
    BY <1>0, <1>1 DEF Open, Copied, Verify, Goto, Writing, FileTypes
  <2>. QED
    BY <2>1 DEF TmpHasMaker
<1>2. ASSUME NEW r \in Updates, Rename(r) \/ UpdateFails(r) PROVE TmpHasMaker'
  BY <1>2 DEF Rename, UpdateFails, TmpHasMaker
<1>3. ASSUME NEW r \in Updates, Update(r) \/ Answer(r) PROVE TmpHasMaker'
  <2>1. /\ UNCHANGED <<tmp, overlap>>
        /\ \A q \in Updates : stage[q] \in Writing \cup {"cut"} => stage'[q] = stage[q]
    BY <1>0, <1>3 DEF Update, Answer, Goto, Writing, FileTypes
  <2>. QED
    BY <2>1 DEF TmpHasMaker
<1>4. CASE Exit \/ Crash
  <2>1. UNCHANGED <<tmp, overlap>>
    BY <1>4 DEF Exit, Crash, Gone
  <2>2. stage' = [r \in Updates |-> IF stage[r] \in Writing THEN "cut"
                            ELSE IF stage[r] \in InFlight THEN "failed" ELSE stage[r]]
    BY <1>4 DEF Exit, Crash, Gone
  <2>3. \A r \in Updates : stage[r] \in Writing \cup {"cut"} => stage'[r] = "cut"
    BY <2>2 DEF InFlight, Writing
  <2>. QED
    BY <2>1, <2>3 DEF TmpHasMaker
<1>5. CASE \/ Restart \/ Restarter \/ Uninstall \/ Uninstaller \/ Start \/ StartFails
           \/ DockerdChanges \/ Retry \/ UNCHANGED vars
  <2>1. UNCHANGED <<tmp, stage>>
    BY <1>5 DEF Restart, Restarter, RestartFires, RestartFails, Uninstall, Uninstaller,
       UninstallBegins, RemoveNext, Signal, Start, StartFails, DockerdChanges, Retry, vars
  <2>2. overlap' = overlap \/ UninstallBegins
    BY <1>5 DEF Restart, Restarter, RestartFires, RestartFails, Uninstall, Uninstaller,
       RemoveNext, Signal, Start, StartFails, DockerdChanges, Retry, vars
  <2>3. overlap => overlap'
    BY <2>2 DEF UninstallBegins
  <2>. QED
    BY <2>1, <2>3 DEF TmpHasMaker
<1>. QED
  BY <1>1, <1>2, <1>3, <1>4, <1>5 DEF Next, Step, Systemd

LEMMA NoFaultsYet == TypeOK /\ [Next]_vars /\ faults' = 0 => faults = 0
<1> SUFFICES ASSUME TypeOK, [Next]_vars, faults' = 0 PROVE faults = 0
  OBVIOUS
<1>1. faults \in Nat
  BY DEF TypeOK
<1>2. ASSUME Fault PROVE faults = 0
  BY <1>1, <1>2 DEF Fault
<1>3. ASSUME NEW r \in Updates, Update(r) \/ Step(r) PROVE faults = 0
  BY <1>2, <1>3 DEF Update, Step, Open, Copied, Verify, Rename, Answer, UpdateFails
<1>4. CASE Restart \/ Restarter \/ Uninstall \/ Uninstaller
  BY <1>2, <1>4 DEF Restart, Restarter, Uninstaller, RestartFires, RestartFails, Uninstall,
                    UninstallBegins, RemoveNext, Signal
<1>5. CASE Systemd \/ Crash \/ DockerdChanges \/ Retry \/ UNCHANGED vars
  BY <1>5 DEF Systemd, Exit, Start, StartFails, Crash, DockerdChanges, Retry, vars
<1>. QED
  BY <1>3, <1>4, <1>5 DEF Next

LEMMA RemovedStep ==
  ASSUME TypeOK, UpdatesOverlap, RemovedStays, faults' = 0, [Next]_vars
  PROVE  RemovedStays'
<1> USE RemovalOrder DEF RemovedStays
<1>0. FileTypes /\ RemovalTypes /\ faults \in Nat
  BY TypeParts DEF TypeOK
<1>1. ASSUME NEW r \in Updates, Rename(r) PROVE RemovedStays'
  <2>1. /\ stage[r] \in Writing
        /\ UNCHANGED <<un, files, loaded, service, overlap>>
    BY <1>1 DEF Rename, Goto, Writing
  <2>2. un \in After(0) => overlap
    BY <2>1 DEF UpdatesOverlap
  <2>. QED
    BY <2>1, <2>2
<1>2. ASSUME NEW r \in Updates, Update(r) \/ Open(r) \/ Copied(r) \/ Verify(r) \/ Answer(r) \/ UpdateFails(r)
      PROVE  RemovedStays'
  <2>1. UNCHANGED <<exe, un, files, loaded, service>> /\ (overlap => overlap')
    BY <1>2 DEF Update, Open, Copied, Verify, Answer, UpdateFails
  <2>. QED
    BY <2>1
<1>3. CASE UninstallBegins \/ Uninstall
  BY <1>3 DEF UninstallBegins, Uninstall, Removal
<1>4. CASE RemoveNext
  <2>1. PICK i \in 1..Len(Removal) - 1 :
          /\ un = Removal[i]
          /\ un' = Removal[i + 1]
          /\ \/ Removed(Removal[i], TRUE)
             \/ Fault
    BY <1>4 DEF RemoveNext
  <2>2. Removed(Removal[i], TRUE)
    <3>1. ~Fault
      BY <1>0 DEF Fault
    <3>. QED
      BY <2>1, <3>1
  <2>3. UNCHANGED <<service, overlap>>
    BY <1>4 DEF RemoveNext
  <2>4. i \in {1, 2, 3, 4, 5}
    BY DEF Removal
  <2>5. CASE i = 1
    BY <2>1, <2>2, <2>3, <2>5 DEF Removal, Removed
  <2>6. CASE i = 2
    BY <2>1, <2>2, <2>3, <2>6 DEF Removal, Removed
  <2>7. CASE i = 3
    BY <2>1, <2>2, <2>3, <2>7 DEF Removal, Removed
  <2>8. CASE i = 4
    BY <2>1, <2>2, <2>3, <2>8 DEF Removal, Removed
  <2>9. CASE i = 5
    <3>1. un = "reload" /\ un' = "signal"
      BY <2>1, <2>9 DEF Removal
    <3>2. "unit" \notin files
      BY <3>1
    <3>3. exe' = exe /\ files' = files \ {"reload"} /\ loaded' = ("unit" \in files)
      BY <2>2, <2>9 DEF Removal, Removed
    <3>4. ~loaded'
      BY <3>2, <3>3
    <3>. QED
      BY <2>3, <3>1, <3>3, <3>4
  <2>. QED
    BY <2>4, <2>5, <2>6, <2>7, <2>8, <2>9
<1>5. CASE Signal
  BY <1>5 DEF Signal
<1>6. CASE Exit \/ Crash
  <2>1. un' \in {"cut", un} /\ service' = "down" /\ UNCHANGED <<exe, files, loaded, overlap>>
    BY <1>6 DEF Exit, Crash, Gone
  <2>. QED
    BY <2>1
<1>7. CASE Start
  <2>1. loaded /\ UNCHANGED <<exe, un, files, loaded, overlap>>
    BY <1>7 DEF Start, Startable
  <2>. QED
    BY <2>1
<1>8. CASE Restart \/ RestartFires \/ RestartFails \/ StartFails \/ DockerdChanges \/ Retry \/ UNCHANGED vars
  <2>1. UNCHANGED <<exe, un, files, loaded, overlap>> /\ service' \in {service, "stopping"}
    BY <1>8 DEF Restart, RestartFires, RestartFails, StartFails, DockerdChanges, Retry, vars
  <2>. QED
    BY <2>1
<1>. QED
  BY <1>1, <1>2, <1>3, <1>4, <1>5, <1>6, <1>7, <1>8
     DEF Next, Step, Restarter, Uninstaller, Systemd

(* When every call has worked, an uninstall that has come to its end       *)
(* leaves the service down and none of its files, but the unfinished one   *)
(* of an update that the process took along, and what an update made at    *)
(* the same time (ServiceLifecycle's NothingLeft).                         *)
THEOREM UninstallLeavesNothing == Spec => []NothingLeft
<1>1. Init => RemovalInv
  BY RemovalOrder DEF Init, RemovalInv, UpdatesOverlap, TmpHasMaker, RemovedStays
<1>2. TypeOK /\ RemovalInv /\ [Next]_vars => RemovalInv'
  BY OverlapStep, MakerStep, NoFaultsYet, RemovedStep DEF RemovalInv
<1>3. TypeOK /\ RemovalInv => NothingLeft
  <2> SUFFICES ASSUME TypeOK, RemovalInv, un = "finished", faults = 0
               PROVE  /\ service # "up" /\ files = {}
                      /\ exe = None \/ overlap
                      /\ tmp = None \/ overlap \/ \E r \in Updates : stage[r] = "cut"
    BY DEF NothingLeft
  <2>1. service # "up" /\ files = {} /\ (exe = None \/ overlap)
    BY RemovalOrder DEF TypeOK, Files, RemovalInv, RemovedStays
  <2>2. tmp = None \/ overlap \/ \E r \in Updates : stage[r] = "cut"
    BY RemovalOrder DEF RemovalInv, UpdatesOverlap, TmpHasMaker
  <2>. QED
    BY <2>1, <2>2
<1>. QED
  BY <1>1, <1>2, <1>3, TypesCorrect, PTL DEF Spec
=============================================================================
