--------------------------- MODULE ServiceLifecycle ---------------------------
(***************************************************************************)
(* The service as a process: its start, its end and the Docker connection  *)
(* (cmd/runner/main.go, internal/docker/client.go), and the requests that  *)
(* replace its binary, restart it or remove it (Update, Restart and        *)
(* Uninstall of internal/api/handlers/system.go).                          *)
(*                                                                         *)
(* A file of the binary's is an inode, named after the request that made   *)
(* it; its content is the version it holds in full, or Partial.  systemd   *)
(* has the jobs that the code asks it for, and its unit's                  *)
(* Restart=on-failure (system.go 207).                                     *)
(***************************************************************************)
EXTENDS Integers, Sequences

CONSTANTS
  Updates,     \* the POST /update requests
  VersionOf,   \* the version that each of them asks for
  Original,    \* the inode of the binary that was installed first
  Shipped,     \* its version
  Partial,     \* the content of a file that is no version in full
  None,        \* no file
  DockerEnabled, \* docker.enabled of the configuration
  MaxRestarts, \* bound: POST /restart requests
  MaxCrashes,  \* bound: how often the process dies
  MaxFaults    \* bound: how many calls of the handlers fail

ASSUME ServiceAssumption ==
  /\ Original \notin Updates
  /\ None \notin Updates \cup {Original}
  /\ Partial \notin {Shipped} \cup {VersionOf[r] : r \in Updates}
  /\ DockerEnabled \in BOOLEAN
  /\ MaxRestarts \in Nat
  /\ MaxCrashes \in Nat
  /\ MaxFaults \in Nat

Inodes == Updates \cup {Original}
Versions == {Shipped} \cup {VersionOf[r] : r \in Updates}

(* What Uninstall removes beside the binary. *)
Files == {"config", "data", "unit"}

VARIABLES
  exe,       \* the inode at exePath
  tmp,       \* the inode at exePath + ".update"
  body,      \* what each inode holds
  stage,     \* where each update stands; the process may take it along (cut, failed)
  fd,        \* the inode that it has open for writing
  overlap,   \* two updates, or one and an uninstall, have been at the binary
  service,   \* the process: up, stopping (Shutdown) or down
  running,   \* the version it runs
  job,       \* systemd is to start the service
  pending,   \* a goroutine sleeps before "systemctl restart"
  loaded,    \* systemd knows the unit
  un,        \* where the uninstall stands
  files,     \* which of Files are there
  dockerd,   \* the Docker daemon answers
  client,    \* the AtomicClient holds a client
  retrying,  \* dockerRetryLoop runs
  restarts, crashes, faults  \* how many there were; a failed restart

binary == <<exe, tmp, body>>
updating == <<stage, fd, overlap>>
process == <<service, running, job, pending>>
uninstalling == <<loaded, un, files>>
docker == <<dockerd, client, retrying>>
counters == <<restarts, crashes, faults>>
vars == <<binary, updating, process, uninstalling, docker, counters>>

Writing == {"copy", "verify", "rename"}
InFlight == {"fetch", "answer"} \cup Writing
Removal == <<"binary", "config", "data", "unit", "reload", "signal">>
Uninstalling == {"asked"} \cup {Removal[i] : i \in 1..Len(Removal)}

TypeOK ==
  /\ exe \in Inodes \cup {None}
  /\ tmp \in Updates \cup {None}
  /\ body \in [Inodes -> Versions \cup {Partial}]
  /\ stage \in [Updates -> {"idle", "done", "failed", "cut"} \cup InFlight]
  /\ fd \in [Updates -> Updates \cup {None}]
  /\ overlap \in BOOLEAN
  /\ service \in {"up", "stopping", "down"}
  /\ running \in Versions
  /\ job \in BOOLEAN
  /\ pending \in BOOLEAN
  /\ loaded \in BOOLEAN
  /\ un \in {"none", "finished", "cut"} \cup Uninstalling
  /\ files \subseteq Files
  /\ dockerd \in BOOLEAN
  /\ client \in BOOLEAN
  /\ retrying \in BOOLEAN
  /\ client => ~retrying
  /\ restarts \in 0..MaxRestarts
  /\ crashes \in 0..MaxCrashes
  /\ faults \in 0..MaxFaults

Init ==
  /\ exe = Original
  /\ tmp = None
  /\ body = [i \in Inodes |-> IF i = Original THEN Shipped ELSE Partial]
  /\ stage = [r \in Updates |-> "idle"]
  /\ fd = [r \in Updates |-> None]
  /\ overlap = FALSE
  /\ service = "down"
  /\ running = Shipped
  /\ job = TRUE
  /\ pending = FALSE
  /\ loaded = TRUE
  /\ un = "none"
  /\ files = Files
  /\ dockerd \in BOOLEAN
  /\ client = FALSE
  /\ retrying = FALSE
  /\ restarts = 0
  /\ crashes = 0
  /\ faults = 0

Alive == service \in {"up", "stopping"}
Fault == faults < MaxFaults /\ faults' = faults + 1 /\ UNCHANGED <<restarts, crashes>>

Goto(r, from, to) ==
  Alive /\ stage[r] = from /\ stage' = [stage EXCEPT ![r] = to]

-----------------------------------------------------------------------------
(***************************************************************************)
(* POST /update.                                                           *)
(***************************************************************************)
Update(r) ==
  /\ service = "up"
  /\ Goto(r, "idle", "fetch")
  /\ UNCHANGED <<binary, fd, overlap, process, uninstalling, docker, counters>>

(* The path is the same for every update; the file is created, or emptied. *)
Open(r) ==
  LET file == IF tmp = None THEN r ELSE tmp
  IN  /\ Goto(r, "fetch", "copy")
      /\ tmp' = file
      /\ body' = [body EXCEPT ![file] = Partial]
      /\ fd' = [fd EXCEPT ![r] = file]
      /\ overlap' = (overlap \/ un \notin {"none", "cut"}
                       \/ \E q \in Updates \ {r} : stage[q] \in Writing)
      /\ UNCHANGED <<exe, process, uninstalling, docker, counters>>

(* The download may be cut without an error, by the limit of 500 MiB, and  *)
(* what two updates write to one file at once may be neither's.            *)
Copied(r) ==
  /\ Goto(r, "copy", "verify")
  /\ \E content \in {VersionOf[r], Partial} : body' = [body EXCEPT ![fd[r]] = content]
  /\ fd' = [fd EXCEPT ![r] = None]
  /\ UNCHANGED <<exe, tmp, overlap, process, uninstalling, docker, counters>>

(* The checksums are those of the release that was asked for. *)
Verified(r) == tmp # None /\ body[tmp] = VersionOf[r]

(* Mutated: the checksum is not looked at. *)
VerifyNothing(r) ==
  /\ tmp # None
  /\ Goto(r, "verify", "rename")
  /\ UNCHANGED <<binary, fd, overlap, process, uninstalling, docker, counters>>

Verify(r) ==
  /\ Verified(r)
  /\ Goto(r, "verify", "rename")
  /\ UNCHANGED <<binary, fd, overlap, process, uninstalling, docker, counters>>

(* The mode is set, which is no step that anybody sees, then the name.     *)
Rename(r) ==
  /\ tmp # None
  /\ Goto(r, "rename", "answer")
  /\ exe' = tmp
  /\ tmp' = None
  /\ UNCHANGED <<body, fd, overlap, process, uninstalling, docker, counters>>

(* A call fails, because it has to or by itself, after which the file is   *)
(* removed; a download that fails may have left its beginning.             *)
UpdateFails(r) ==
  /\ stage[r] \in {"fetch"} \cup Writing
  /\ Goto(r, stage[r], "failed")
  /\ \/ stage[r] = "verify" /\ ~Verified(r) /\ UNCHANGED counters
     \/ stage[r] = "rename" /\ tmp = None /\ UNCHANGED counters
     \/ Fault
  /\ tmp' = None
  /\ fd' = [fd EXCEPT ![r] = None]
  /\ UNCHANGED <<exe, body, overlap, process, uninstalling, docker>>

Answer(r) ==
  /\ Goto(r, "answer", "done")
  /\ pending' = TRUE
  /\ UNCHANGED <<binary, fd, overlap, service, running, job, uninstalling,
                 docker, counters>>

-----------------------------------------------------------------------------
(***************************************************************************)
(* POST /restart, and the goroutine that it and an update start.           *)
(***************************************************************************)
Restart ==
  /\ service = "up"
  /\ restarts < MaxRestarts
  /\ restarts' = restarts + 1
  /\ pending' = TRUE
  /\ UNCHANGED <<binary, updating, service, running, job, uninstalling, docker,
                 crashes, faults>>

(* systemctl restart: stop, then start. *)
RestartFires ==
  /\ Alive
  /\ pending
  /\ loaded
  /\ pending' = FALSE
  /\ job' = TRUE
  /\ service' = "stopping"
  /\ UNCHANGED <<binary, updating, running, uninstalling, docker, counters>>

RestartFails ==
  /\ Alive
  /\ pending
  /\ \/ ~loaded /\ UNCHANGED counters
     \/ Fault
  /\ pending' = FALSE
  /\ UNCHANGED <<binary, updating, service, running, job, uninstalling, docker>>

-----------------------------------------------------------------------------
(***************************************************************************)
(* POST /uninstall.  A command that fails is logged and left at that.  To  *)
(* disable the unit matters when the host starts, which is not modelled.   *)
(***************************************************************************)
Uninstall ==
  /\ service = "up"
  /\ un = "none"
  /\ un' = "asked"
  /\ UNCHANGED <<binary, updating, process, loaded, files, docker, counters>>

(* Half a second later: the history is closed. *)
UninstallBegins ==
  /\ Alive
  /\ un = "asked"
  /\ un' = Removal[1]
  /\ overlap' = (overlap \/ \E r \in Updates : stage[r] \in Writing)
  /\ UNCHANGED <<binary, stage, fd, process, loaded, files, docker, counters>>

Removed(step, works) ==
  /\ exe' = IF works /\ step = "binary" THEN None ELSE exe
  /\ files' = IF works THEN files \ {step} ELSE files
  /\ loaded' = IF works /\ step = "reload" THEN "unit" \in files ELSE loaded

(* Mutated: systemctl stop comes first, as one is tempted to write. *)
StopFirst ==
  /\ Alive
  /\ un = Removal[1]
  /\ service' = "stopping"
  /\ UNCHANGED <<binary, updating, running, job, pending, uninstalling, docker, counters>>

RemoveNext ==
  /\ Alive
  /\ \E i \in 1..Len(Removal) - 1 :
       /\ un = Removal[i]
       /\ un' = Removal[i + 1]
       /\ \/ Removed(Removal[i], TRUE) /\ UNCHANGED counters
          \/ Removed(Removal[i], FALSE) /\ Fault
  /\ UNCHANGED <<tmp, body, updating, process, docker>>

(* The service sends itself a SIGTERM. *)
Signal ==
  /\ Alive
  /\ un = "signal"
  /\ un' = "finished"
  /\ service' = "stopping"
  /\ UNCHANGED <<binary, updating, running, job, pending, loaded, files, docker, counters>>

-----------------------------------------------------------------------------
(***************************************************************************)
(* The process and systemd.                                                *)
(***************************************************************************)
(* All goroutines end with the process; of an update that is cut off while *)
(* it has its file, the file stays.                                        *)
Gone ==
  /\ service' = "down"
  /\ stage' = [r \in Updates |-> IF stage[r] \in Writing THEN "cut"
                                 ELSE IF stage[r] \in InFlight THEN "failed" ELSE stage[r]]
  /\ fd' = [r \in Updates |-> None]
  /\ pending' = FALSE
  /\ un' = IF un \in Uninstalling THEN "cut" ELSE un
  /\ client' = FALSE
  /\ retrying' = FALSE
  /\ UNCHANGED <<binary, overlap, running, loaded, files, dockerd>>

(* Shutdown is over, or its fifteen seconds are; the exit code is 0. *)
Exit ==
  /\ service = "stopping"
  /\ Gone
  /\ UNCHANGED <<job, counters>>

Crash ==
  /\ Alive
  /\ crashes < MaxCrashes
  /\ crashes' = crashes + 1
  /\ Gone
  /\ job' = loaded
  /\ UNCHANGED <<restarts, faults>>

Startable == loaded /\ exe # None /\ body[exe] # Partial

(* Mutated: the retry loop is started without a look at the ping. *)
StartRetrying ==
  /\ service = "down"
  /\ job
  /\ Startable
  /\ service' = "up"
  /\ running' = body[exe]
  /\ job' = FALSE
  /\ client' = (DockerEnabled /\ dockerd)
  /\ retrying' = DockerEnabled
  /\ UNCHANGED <<binary, updating, pending, uninstalling, dockerd, counters>>

(* main: one ping, and the retry loop when it is not answered; neither     *)
(* where Docker is not enabled.                                            *)
Start ==
  /\ service = "down"
  /\ job
  /\ Startable
  /\ service' = "up"
  /\ running' = body[exe]
  /\ job' = FALSE
  /\ client' = (DockerEnabled /\ dockerd)
  /\ retrying' = (DockerEnabled /\ ~dockerd)
  /\ UNCHANGED <<binary, updating, pending, uninstalling, dockerd, counters>>

(* There is nothing to run: systemd gives up. *)
StartFails ==
  /\ service = "down"
  /\ job
  /\ ~Startable
  /\ job' = FALSE
  /\ UNCHANGED <<binary, updating, service, running, pending, uninstalling, docker, counters>>

DockerdChanges ==
  /\ dockerd' = ~dockerd
  /\ UNCHANGED <<binary, updating, process, uninstalling, client, retrying, counters>>

(* Mutated: the loop ends with the first ping that fails. *)
RetryOnce ==
  /\ Alive
  /\ retrying
  /\ client' = dockerd
  /\ retrying' = FALSE
  /\ UNCHANGED <<binary, updating, process, uninstalling, dockerd, counters>>

(* One round of dockerRetryLoop: a ping that fails changes nothing. *)
Retry ==
  /\ Alive
  /\ retrying
  /\ dockerd
  /\ client' = TRUE
  /\ retrying' = FALSE
  /\ UNCHANGED <<binary, updating, process, uninstalling, dockerd, counters>>

-----------------------------------------------------------------------------
Step(r) ==
  \/ Open(r) \/ Copied(r) \/ Verify(r) \/ Rename(r) \/ Answer(r)
  \/ UpdateFails(r)
Restarter == RestartFires \/ RestartFails
Uninstaller == UninstallBegins \/ RemoveNext \/ Signal
Systemd == Exit \/ Start \/ StartFails

Next ==
  \/ \E r \in Updates : Update(r) \/ Step(r)
  \/ Restart \/ Restarter
  \/ Uninstall \/ Uninstaller
  \/ Systemd \/ Crash
  \/ DockerdChanges \/ Retry

Spec == Init /\ [][Next]_vars

(* Goroutines run, systemd does its jobs, the retry loop's timer fires.    *)
FairSpec ==
  /\ Spec
  /\ \A r \in Updates : WF_vars(Step(r))
  /\ WF_vars(Restarter)
  /\ WF_vars(Uninstaller)
  /\ WF_vars(Systemd)
  /\ WF_vars(Retry)

-----------------------------------------------------------------------------
(***************************************************************************)
(* Properties.                                                             *)
(***************************************************************************)
(* Whatever fails or crashes, the binary in place is a version in full, as *)
(* long as no two updates have been at it at once (system.go:58            *)
(* "atomically replaces the current binary").                              *)
BinaryIsWhole == ~overlap /\ exe # None => body[exe] \in Versions

(* What an uninstall has left when it is through: nothing, but the file of *)
(* an update that the process took along (see AllRemoved), and what an     *)
(* update at the same time has made.                                       *)
NothingLeft ==
  un = "finished" /\ faults = 0 =>
    /\ service # "up" /\ files = {}
    /\ exe = None \/ overlap
    /\ tmp = None \/ overlap \/ \E r \in Updates : stage[r] = "cut"

(* An uninstall that was asked for comes to its end unless a crash or a    *)
(* restart that was asked for comes in between (system.go:165 "so the      *)
(* goroutine is never killed mid-way"); it leaves the service down for     *)
(* good and no more files than NothingLeft says.                           *)
UninstallFinishes ==
  /\ un = "asked" ~> \/ un = "finished" /\ service = "down"
                     \/ un = "cut" /\ (crashes > 0 \/ restarts > 0
                                         \/ \E r \in Updates : stage[r] = "done")
  /\ []NothingLeft

(* Unless it is being removed or a call has failed, the service comes to   *)
(* run the version that was installed last (system.go:59 "so the new       *)
(* version takes effect"), and finds a Docker daemon that stays up, if it  *)
(* is to use one.                                                          *)
ComesBack ==
  /\ <>[](un = "none" /\ ~overlap /\ faults = 0 =>
            service = "up" /\ running = body[exe])
  /\ <>[](service = "up" /\ dockerd) => <>[](client = DockerEnabled)

(* An uninstall whose calls worked, and that no update came across, leaves *)
(* no file (system.go:163 "removes all dockhand files").  The code does    *)
(* not keep to this; no run has it.                                        *)
AllRemoved ==
  un = "finished" /\ faults = 0 /\ ~overlap => exe = None /\ tmp = None /\ files = {}

=============================================================================
