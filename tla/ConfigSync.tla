------------------------------ MODULE ConfigSync ------------------------------
(***************************************************************************)
(* The config file and the runner's copy of it: the operator's edits; the  *)
(* watcher (internal/config/watcher.go, started in cmd/runner/main.go) and *)
(* POST /reload, which load the file into the runner; the goroutines of    *)
(* warmVersionCache and of a successful run, which detect a version, cache *)
(* it, write it to the file (internal/config/writer.go) and to the runner; *)
(* and ClearEnrollmentToken, which enrollment runs beside them.            *)
(*                                                                         *)
(* Names are the operations and apps that have a version_command.  The     *)
(* runner keeps them in two maps, r.ops and r.apps; a map indexed by all   *)
(* the names stands for both.                                              *)
(***************************************************************************)
EXTENDS Integers

CONSTANTS
  Names,         \* operations and apps with a version_command
  AppNames,      \* those that are apps
  Refreshers,    \* the goroutines that detect versions
  Reloaders,     \* who loads the file: "watcher", "post" (POST /reload)
  HasToken,      \* the file has an enrollment_token that is to be cleared
  MaxEdits,      \* bound: how often the operator saves the file
  MaxVersion,    \* bound: the versions are 0..MaxVersion
  MaxFaults      \* bound: how many version commands, writes and loads fail

ASSUME ConfigAssumption ==
  /\ Names # {}
  /\ AppNames \subseteq Names
  /\ Reloaders \subseteq {"watcher", "post"}
  /\ HasToken \in BOOLEAN
  /\ MaxEdits \in Nat
  /\ MaxVersion \in Nat
  /\ MaxFaults \in Nat

Versions == 0..MaxVersion
Absent == -1      \* no entry in a map

VARIABLES
  file,       \* what the config file says: the version of each name, the token
  torn,       \* os.WriteFile has truncated the file and not yet written it
  changed,    \* its mtime is not the watcher's lastMod, nor at boot that of the load
  own,        \* its mtime is lastWriteTime
  edits,      \* how often the operator has saved it
  installed,  \* what each version_command would print
  ops,        \* r.ops and r.apps: the CurrentVersion of each entry
  loaded,     \* the names whose entry there came from a load of the file
  cache,      \* the version cache
  running,    \* of each name, a request of Run: not there, looking up, running
  due,        \* the names whose version is to be detected
  work,       \* of each refresher: its stage, name, version and file buffer
  load,       \* of each reloader: its stage and what it has loaded
  clearing,   \* ClearEnrollmentToken: its stage and buffer
  faults      \* the commands, writes and loads that failed so far

fileVars == <<file, torn, changed, own, edits>>
mapVars == <<ops, loaded, running>>
vars == <<fileVars, installed, mapVars, cache, due, work, load, clearing, faults>>

Content == [ops : [Names -> Versions \cup {Absent}], token : BOOLEAN]
Nothing == [ops |-> [n \in Names |-> Absent], token |-> FALSE]
Present(map) == {n \in Names : map[n] # Absent}

Work == [at : {"idle", "detect", "cache", "lock", "rename", "record", "memory"},
         name : Names, version : Versions, buffer : Content]
Load == [at : {"boot", "idle", "load", "ops", "apps"}, config : Content]
Clearing == [at : {"idle", "truncate", "write", "done"}, buffer : Content]

TypeOK ==
  /\ file \in Content
  /\ torn \in BOOLEAN /\ changed \in BOOLEAN /\ own \in BOOLEAN
  /\ edits \in 0..MaxEdits
  /\ installed \in [Names -> Versions]
  /\ ops \in [Names -> Versions \cup {Absent}]
  /\ loaded \subseteq Present(ops)
  /\ cache \in [Names -> Versions \cup {Absent}]
  /\ running \in [Names -> {"no", "looking", "running"}]
  /\ due \subseteq Names
  /\ work \in [Refreshers -> Work]
  /\ load \in [Reloaders -> Load]
  /\ clearing \in Clearing
  /\ faults \in 0..MaxFaults

Idle == [at |-> "idle", name |-> CHOOSE n \in Names : TRUE, version |-> 0,
         buffer |-> Nothing]
NotLoading == [at |-> "idle", config |-> Nothing]

(* The service has just loaded the file and made the runner from it.  The  *)
(* watcher is still to start: the load is the first thing main does, and   *)
(* Docker is asked and the database opened before.                         *)
Init ==
  /\ file = [ops |-> [n \in Names |-> 0], token |-> HasToken]
  /\ torn = FALSE /\ changed = FALSE /\ own = FALSE
  /\ edits = 0
  /\ installed \in [Names -> Versions]
  /\ ops = file.ops
  /\ loaded = Names
  /\ cache = [n \in Names |-> Absent]
  /\ running = [n \in Names |-> "no"]
  /\ due = Names
  /\ work = [w \in Refreshers |-> Idle]
  /\ load = [l \in Reloaders |->
               IF l = "watcher" THEN [NotLoading EXCEPT !.at = "boot"] ELSE NotLoading]
  /\ clearing = [at |-> "idle", buffer |-> Nothing]
  /\ faults = 0

Fault == faults < MaxFaults /\ faults' = faults + 1

-----------------------------------------------------------------------------
(***************************************************************************)
(* What happens to the file and to the software around the service.        *)
(***************************************************************************)
(* Every save gives the file an mtime of its own. *)
Save(content) == file' = content /\ torn' = FALSE /\ changed' = TRUE /\ own' = FALSE

(* The operator saves the file: names added, removed, or with another      *)
(* current_version.                                                        *)
Edit ==
  /\ edits < MaxEdits
  /\ edits' = edits + 1
  /\ \E map \in [Names -> Versions \cup {Absent}] : Save([file EXCEPT !.ops = map])
  /\ UNCHANGED <<installed, mapVars, cache, due, work, load, clearing, faults>>

(* A request finds an entry that was loaded, or none.  (The entry that a   *)
(* refresher has made by itself holds no commands.)                        *)
Found(n) == IF n \in loaded THEN "running" ELSE "no"

(* RunApp looks its app up under r.mu, Run its operation without it.       *)
LookUp(n) ==
  /\ running[n] = "no"
  /\ running' = [running EXCEPT ![n] = IF n \in AppNames THEN Found(n) ELSE "looking"]
  /\ UNCHANGED <<fileVars, installed, ops, loaded, cache, due, work, load, clearing, faults>>

LookedUp(n) ==
  /\ running[n] = "looking"
  /\ running' = [running EXCEPT ![n] = Found(n)]
  /\ UNCHANGED <<fileVars, installed, ops, loaded, cache, due, work, load, clearing, faults>>

(* A run upgrades what it is for, and ends with 0; or it fails.  After a   *)
(* success the version is detected, of an app only if it is still there.   *)
RunEnds(n) ==
  /\ running[n] = "running"
  /\ running' = [running EXCEPT ![n] = "no"]
  /\ \/ /\ \E v \in installed[n]..MaxVersion : installed' = [installed EXCEPT ![n] = v]
        /\ due' = due \cup ({n} \cap (loaded \cup (Names \ AppNames)))
     \/ UNCHANGED <<installed, due>>
  /\ UNCHANGED <<fileVars, ops, loaded, cache, work, load, clearing, faults>>

-----------------------------------------------------------------------------
(***************************************************************************)
(* A version goroutine.  warmVersionCache decides what is due under r.mu,  *)
(* from a snapshot of the maps: by the time a version is detected the     *)
(* entry may be another, or gone.                                          *)
(***************************************************************************)
(* Mutated: what has a cached version is left alone. *)
WarmMissing(entries) == due' = due \cup {n \in entries : cache[n] = Absent}

Warm(entries) == due' = due \cup entries

(* The ticker of backgroundRefresh. *)
Tick15Min ==
  /\ Warm(loaded)
  /\ UNCHANGED <<fileVars, installed, mapVars, cache, work, load, clearing, faults>>

(* An entry of the version cache gets older than versionCacheTTL. *)
Expire(n) ==
  /\ cache[n] # Absent
  /\ cache' = [cache EXCEPT ![n] = Absent]
  /\ UNCHANGED <<fileVars, installed, mapVars, due, work, load, clearing, faults>>

Take(w, n) ==
  /\ work[w].at = "idle"
  /\ n \in due
  /\ due' = due \ {n}
  /\ work' = [work EXCEPT ![w].at = "detect", ![w].name = n]
  /\ UNCHANGED <<fileVars, installed, mapVars, cache, load, clearing, faults>>

Detect(w) ==
  /\ work[w].at = "detect"
  /\ \/ /\ work' = [work EXCEPT ![w].at = "cache", ![w].version = installed[work[w].name]]
        /\ UNCHANGED faults
     \/ work' = [work EXCEPT ![w] = Idle] /\ Fault
  /\ UNCHANGED <<fileVars, installed, mapVars, cache, due, load, clearing>>

CacheSet(w) ==
  /\ work[w].at = "cache"
  /\ cache' = [cache EXCEPT ![work[w].name] = work[w].version]
  /\ work' = [work EXCEPT ![w].at = "lock"]
  /\ UNCHANGED <<fileVars, installed, mapVars, due, load, clearing, faults>>

WriteMuFree == \A w \in Refreshers : work[w].at \notin {"rename", "record"}

(* There is something to write: the file parses, has the name, and another *)
(* version of it.                                                          *)
Updatable(n, v) == ~torn /\ file.ops[n] \notin {Absent, v}

(* Mutated: the version is written without looking at the one there. *)
ReadCarelessly(w) ==
  /\ work[w].at = "lock"
  /\ WriteMuFree
  /\ LET n == work[w].name  v == work[w].version IN
       work' = IF torn \/ file.ops[n] = Absent THEN [work EXCEPT ![w].at = "memory"]
               ELSE [work EXCEPT ![w].at = "rename",
                                 ![w].buffer = [file EXCEPT !.ops[n] = v]]
  /\ UNCHANGED <<fileVars, installed, mapVars, cache, due, load, clearing, faults>>

(* Mutated: without writeMu. *)
ReadUnlocked(w) ==
  /\ work[w].at = "lock"
  /\ LET n == work[w].name  v == work[w].version IN
       work' = IF ~Updatable(n, v) THEN [work EXCEPT ![w].at = "memory"]
               ELSE [work EXCEPT ![w].at = "rename",
                                 ![w].buffer = [file EXCEPT !.ops[n] = v]]
  /\ UNCHANGED <<fileVars, installed, mapVars, cache, due, load, clearing, faults>>

ReadForUpdate(w) ==
  /\ work[w].at = "lock"
  /\ WriteMuFree
  /\ LET n == work[w].name  v == work[w].version IN
       \/ /\ Updatable(n, v)
          /\ work' = [work EXCEPT ![w].at = "rename",
                                  ![w].buffer = [file EXCEPT !.ops[n] = v]]
       \/ /\ ~Updatable(n, v)
          /\ work' = [work EXCEPT ![w].at = "memory"]
  /\ UNCHANGED <<fileVars, installed, mapVars, cache, due, load, clearing, faults>>

(* The temporary file takes the place of the config file, or one of the    *)
(* two writes fails.                                                       *)
Rename(w) ==
  /\ work[w].at = "rename"
  /\ \/ /\ Save(work[w].buffer)
        /\ work' = [work EXCEPT ![w].at = "record", ![w].buffer = Nothing]
        /\ UNCHANGED faults
     \/ /\ Fault
        /\ work' = [work EXCEPT ![w].at = "memory", ![w].buffer = Nothing]
        /\ UNCHANGED <<file, torn, changed, own>>
  /\ UNCHANGED <<edits, installed, mapVars, cache, due, load, clearing>>

(* recordWriteTime takes the mtime the file has by now; then writeMu is    *)
(* released.                                                               *)
Record(w) ==
  /\ work[w].at = "record"
  /\ own' = TRUE
  /\ work' = [work EXCEPT ![w].at = "memory"]
  /\ UNCHANGED <<file, torn, changed, edits, installed, mapVars, cache, due, load,
                 clearing, faults>>

(* r.ops[name] = updated, under r.mu: this makes the entry if there is none*)
WriteMemory(w) ==
  /\ work[w].at = "memory"
  /\ ops' = [ops EXCEPT ![work[w].name] = work[w].version]
  /\ work' = [work EXCEPT ![w] = Idle]
  /\ UNCHANGED <<fileVars, installed, loaded, cache, running, due, load, clearing, faults>>

-----------------------------------------------------------------------------
(***************************************************************************)
(* Loading.  The watcher's onChange and POST /reload do the same.          *)
(***************************************************************************)
(* The watcher starts: whatever the file says by now, its mtime is lastMod.*)
Watch ==
  /\ "watcher" \in Reloaders
  /\ load["watcher"].at = "boot"
  /\ changed' = FALSE
  /\ load' = [load EXCEPT !["watcher"].at = "idle"]
  /\ UNCHANGED <<file, torn, own, edits, installed, mapVars, cache, due, work, clearing,
                 faults>>

(* A tick of the watcher: a change that is its own is only noted.          *)
Tick2s ==
  /\ "watcher" \in Reloaders
  /\ load["watcher"].at = "idle"
  /\ changed
  /\ changed' = FALSE
  /\ load' = [load EXCEPT !["watcher"].at = IF own THEN "idle" ELSE "load"]
  /\ UNCHANGED <<file, torn, own, edits, installed, mapVars, cache, due, work, clearing,
                 faults>>

PostReload ==
  /\ "post" \in Reloaders
  /\ load["post"].at = "idle"
  /\ load' = [load EXCEPT !["post"].at = "load"]
  /\ UNCHANGED <<fileVars, installed, mapVars, cache, due, work, clearing, faults>>

(* Mutated: an empty file leaves the map of operations nil. *)
LoadFileNil(l) ==
  /\ load[l].at = "load"
  /\ load' = [load EXCEPT ![l] =
       [at |-> "ops", config |-> IF torn THEN [Nothing EXCEPT !.ops = <<>>] ELSE file]]
  /\ UNCHANGED <<fileVars, installed, mapVars, cache, due, work, clearing, faults>>

(* An empty file is a valid config, without operations. *)
LoadFile(l) ==
  /\ load[l].at = "load"
  /\ load' = [load EXCEPT ![l] = [at |-> "ops", config |-> IF torn THEN Nothing ELSE file]]
  /\ UNCHANGED <<fileVars, installed, mapVars, cache, due, work, clearing, faults>>

(* The file cannot be read or is not valid: the reload is given up.  The   *)
(* watcher has noted the change already and does not try again.            *)
LoadFails(l) ==
  /\ load[l].at = "load"
  /\ load' = [load EXCEPT ![l] = NotLoading]
  /\ Fault
  /\ UNCHANGED <<fileVars, installed, mapVars, cache, due, work, clearing>>

(* A map is replaced; a lookup under way goes on in the old one.           *)
Replace(owned, config) ==
  /\ ops' = [n \in Names |-> IF n \in owned THEN config.ops[n] ELSE ops[n]]
  /\ loaded' = (loaded \ owned) \cup (Present(config.ops) \cap owned)
  /\ running' = [n \in Names |-> IF n \in owned /\ running[n] = "looking"
                                 THEN Found(n) ELSE running[n]]
  /\ Warm(loaded')
  /\ UNCHANGED <<file, torn, own, edits, installed, cache, work, clearing, faults>>

Reload(l) ==
  /\ load[l].at = "ops"
  /\ Replace(Names \ AppNames, load[l].config)
  /\ load' = [load EXCEPT ![l].at = "apps"]
  /\ UNCHANGED changed

(* Mutated: lastMod is the mtime at the end of onChange. *)
ReloadAppsNoting(l) ==
  /\ load[l].at = "apps"
  /\ Replace(AppNames, load[l].config)
  /\ load' = [load EXCEPT ![l] = NotLoading]
  /\ changed' = FALSE

ReloadApps(l) ==
  /\ load[l].at = "apps"
  /\ Replace(AppNames, load[l].config)
  /\ load' = [load EXCEPT ![l] = NotLoading]
  /\ UNCHANGED changed

-----------------------------------------------------------------------------
(***************************************************************************)
(* ClearEnrollmentToken reads the file, and writes it back in place with   *)
(* os.WriteFile, which truncates it first.  It does not take writeMu.      *)
(***************************************************************************)
ClearRead ==
  /\ HasToken
  /\ clearing.at = "idle"
  /\ clearing' = [at |-> "truncate", buffer |-> [file EXCEPT !.token = FALSE]]
  /\ UNCHANGED <<fileVars, installed, mapVars, cache, due, work, load, faults>>

ClearTruncate ==
  /\ clearing.at = "truncate"
  /\ torn' = TRUE /\ changed' = TRUE /\ own' = FALSE
  /\ clearing' = [clearing EXCEPT !.at = "write"]
  /\ UNCHANGED <<file, edits, installed, mapVars, cache, due, work, load, faults>>

(* If the truncated file has been replaced in the meantime, what is        *)
(* written goes to the file that is no longer there.                       *)
ClearWrite ==
  /\ clearing.at = "write"
  /\ IF torn THEN Save(clearing.buffer) ELSE UNCHANGED <<file, torn, changed, own>>
  /\ clearing' = [at |-> "done", buffer |-> Nothing]
  /\ UNCHANGED <<edits, installed, mapVars, cache, due, work, load, faults>>

-----------------------------------------------------------------------------
Refresh(w) ==
  \/ \E n \in Names : Take(w, n)
  \/ Detect(w) \/ CacheSet(w) \/ ReadForUpdate(w) \/ Rename(w) \/ Record(w)
  \/ WriteMemory(w)

LoadConfig(l) == LoadFile(l) \/ LoadFails(l) \/ Reload(l) \/ ReloadApps(l)

ClearEnrollmentToken == ClearRead \/ ClearTruncate \/ ClearWrite

Next ==
  \/ Edit \/ Tick15Min \/ Watch \/ Tick2s \/ PostReload
  \/ \E n \in Names : LookUp(n) \/ LookedUp(n) \/ RunEnds(n) \/ Expire(n)
  \/ \E w \in Refreshers : Refresh(w)
  \/ \E l \in Reloaders : LoadConfig(l)
  \/ ClearEnrollmentToken

Spec == Init /\ [][Next]_vars

(* The goroutines run and the tickers tick; every version that is due has  *)
(* a goroutine of its own, so that one of them takes it.  Nothing says     *)
(* that anybody runs an operation, edits the file or asks for a reload.    *)
FairSpec ==
  /\ Spec
  /\ WF_vars(Watch) /\ WF_vars(Tick2s) /\ WF_vars(Tick15Min) /\ WF_vars(ClearEnrollmentToken)
  /\ \A n \in Names : SF_vars(\E w \in Refreshers : Take(w, n))
  /\ \A w \in Refreshers : WF_vars(Refresh(w))
  /\ \A l \in Reloaders : WF_vars(LoadConfig(l))

-----------------------------------------------------------------------------
(***************************************************************************)
(* Properties.                                                             *)
(***************************************************************************)
(* Between reading the file and replacing it a write-back holds what the   *)
(* file says, but for the one version, of a listed name, that it changes.  *)
UpToDate(w) ==
  LET n == work[w].name  v == work[w].version IN
    /\ file.ops[n] \notin {Absent, v}
    /\ work[w].buffer = [file EXCEPT !.ops[n] = v]

Outdated(w) == work[w].at = "rename" /\ ~UpToDate(w)

(* No write-back takes that from another, nor starts without it (writeMu,  *)
(* writer.go:12).  The operator and ClearEnrollmentToken do, of the one    *)
(* that is under way: it undoes the edit, or brings the token back, and    *)
(* none that begins later does.                                            *)
WriteBackIsCurrent ==
  [][\A w \in Refreshers : Outdated(w)' /\ ~Outdated(w) =>
       /\ Edit \/ ClearWrite
       /\ \A x \in Refreshers \ {w} : work[x].at # "rename"]_vars

(* The watcher has seen every change of the file, is not at work, and the  *)
(* runner lacks a name that the file lists, or has one too many.           *)
Behind ==
  /\ load["watcher"].at = "idle" /\ ~changed /\ ~torn
  /\ loaded # Present(file.ops)

(* There are three ways to come to rest like this: the edit came before    *)
(* the watcher started, a write-back hid it, or the load failed.  No other *)
(* edit is missed, be it in the middle of a load or just before it.        *)
FileIsLoaded ==
  [][Behind' /\ ~Behind => Watch \/ (Tick2s /\ own) \/ LoadFails("watcher")]_vars

(* Write-back and reload do not feed each other for ever (watcher.go:37):  *)
(* the watcher comes to rest.                                              *)
WatcherRests == <>[](load["watcher"].at = "idle")

(* What the API reports (CurrentVersion, CurrentAppVersion). *)
CurrentVersion(n) == IF cache[n] = Absent THEN ops[n] ELSE cache[n]

(* A stale detection may overwrite a newer one, in the cache, the runner   *)
(* and the file, but not for good: what is reported and what the file says *)
(* of a loaded name comes to agree with what is installed.                 *)
VersionsSettle ==
  \A n \in Names :
    <>[](n \in loaded =>
           /\ CurrentVersion(n) = installed[n]
           /\ file.ops[n] \in {Absent, installed[n]})

(* No tick passes over an edit: what the watcher takes for the runner's    *)
(* own change is nothing else (watcher.go:12 "onChange is called - unless  *)
(* the change was caused by our own version write-back").                  *)
EveryEditIsLoaded ==
  [][Tick2s /\ load'["watcher"].at = "idle" => torn \/ loaded = Present(file.ops)]_vars

(* The watcher begins with the file that the runner has loaded, so that    *)
(* every later save is a change to it (main.go:77 "Watch config file -     *)
(* reload operations/apps automatically on save").  The code does not keep *)
(* to this; no run has it.                                                 *)
WatchesWhatWasLoaded ==
  [][Watch => torn \/ loaded = Present(file.ops)]_vars

=============================================================================
