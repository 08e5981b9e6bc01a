--------------------------- MODULE ConfigSyncProofs ---------------------------
(***************************************************************************)
(* Proofs about ConfigSync, for any number of operations, version          *)
(* goroutines, edits, versions and faults: types; that a write-back is     *)
(* based on what all others wrote; that a token stays gone; which edits    *)
(* the watcher may miss, and that it misses no other; and that versions    *)
(* which agree go on to do so.                                             *)
(***************************************************************************)
EXTENDS ConfigSync, TLAPS

LEMMA ContentTypes ==
  /\ Nothing \in Content
  /\ Idle \in Work
  /\ NotLoading \in Load /\ [NotLoading EXCEPT !.at = "boot"] \in Load
  /\ \A c \in Content, n \in Names, v \in Versions : [c EXCEPT !.ops[n] = v] \in Content
  /\ \A c \in Content : [c EXCEPT !.token = FALSE] \in Content
  /\ \A c \in Content, map \in [Names -> Versions \cup {Absent}] :
       [c EXCEPT !.ops = map] \in Content
<1>1. Nothing \in Content
  BY DEF Nothing, Content
<1>2. (CHOOSE n \in Names : TRUE) \in Names
  BY ConfigAssumption
<1>3. 0 \in Versions
  BY ConfigAssumption DEF Versions
<1>4. Idle \in Work
  BY <1>1, <1>2, <1>3 DEF Idle, Work
<1>5. NotLoading \in Load /\ [NotLoading EXCEPT !.at = "boot"] \in Load
  BY <1>1 DEF NotLoading, Load
<1>6. \A c \in Content, n \in Names, v \in Versions : [c EXCEPT !.ops[n] = v] \in Content
  BY DEF Content
<1>7. \A c \in Content : [c EXCEPT !.token = FALSE] \in Content
  BY DEF Content
<1>8. \A c \in Content, map \in [Names -> Versions \cup {Absent}] :
        [c EXCEPT !.ops = map] \in Content
  BY DEF Content
<1> QED BY <1>1, <1>4, <1>5, <1>6, <1>7, <1>8

-----------------------------------------------------------------------------
LEMMA InitTypes == Init => TypeOK
<1> SUFFICES ASSUME Init PROVE TypeOK
  OBVIOUS
<1> USE DEF Init
<1>1. 0 \in Versions /\ 0 \in 0..MaxEdits /\ 0 \in 0..MaxFaults
  BY ConfigAssumption DEF Versions
<1>2. file \in Content /\ file.ops = [n \in Names |-> 0]
  BY <1>1, ConfigAssumption DEF Content
<1>3. ops \in [Names -> Versions \cup {Absent}] /\ loaded \subseteq Present(ops)
  BY <1>1, <1>2 DEF Present, Absent
<1>4. work \in [Refreshers -> Work] /\ load \in [Reloaders -> Load]
  BY ContentTypes
<1>5. clearing \in Clearing
  BY ContentTypes DEF Clearing
<1> QED BY <1>1, <1>2, <1>3, <1>4, <1>5 DEF TypeOK

(***************************************************************************)
(* What a step may do to the parts: one lemma for the steps that touch the *)
(* file and its flags, one for those of a refresher.                       *)
(***************************************************************************)
LEMMA StepTypes == TypeOK /\ [Next]_vars => TypeOK'
<1> SUFFICES ASSUME TypeOK, [Next]_vars PROVE TypeOK'
  OBVIOUS
<1> USE DEF TypeOK
<1>a. Fault => faults' \in 0..MaxFaults
  BY ConfigAssumption DEF Fault
<1>b. \A w \in Refreshers : work[w] \in Work
  OBVIOUS
<1>1. CASE Edit
  <2>1. edits' \in 0..MaxEdits
    BY <1>1, ConfigAssumption DEF Edit
  <2>2. PICK map \in [Names -> Versions \cup {Absent}] : Save([file EXCEPT !.ops = map])
    BY <1>1 DEF Edit
  <2>3. [file EXCEPT !.ops = map] \in Content
    BY ContentTypes
  <2>4. file' \in Content /\ torn' \in BOOLEAN /\ changed' \in BOOLEAN /\ own' \in BOOLEAN
    BY <2>2, <2>3 DEF Save
  <2> QED BY <1>1, <2>1, <2>4 DEF Edit, mapVars
<1>2. CASE Tick15Min
  <2>1. due' \subseteq Names
    BY <1>2 DEF Tick15Min, Warm, Present
  <2> QED BY <1>2, <2>1 DEF Tick15Min, fileVars, mapVars
<1>3. CASE Watch \/ Tick2s
  <2>1. load' \in [Reloaders -> Load]
    BY <1>3 DEF Watch, Tick2s, Load
  <2> QED BY <1>3, <2>1 DEF Watch, Tick2s, mapVars
<1>4. CASE PostReload
  <2>1. load' \in [Reloaders -> Load]
    BY <1>4 DEF PostReload, Load
  <2> QED BY <1>4, <2>1 DEF PostReload, fileVars, mapVars
<1>5. ASSUME NEW n \in Names, LookUp(n) PROVE TypeOK'
  <2>1. running' \in [Names -> {"no", "looking", "running"}]
    BY <1>5 DEF LookUp, Found
  <2> QED BY <1>5, <2>1 DEF LookUp, fileVars
<1>6. ASSUME NEW n \in Names, LookedUp(n) PROVE TypeOK'
  <2>1. running' \in [Names -> {"no", "looking", "running"}]
    BY <1>6 DEF LookedUp, Found
  <2> QED BY <1>6, <2>1 DEF LookedUp, fileVars
<1>7. ASSUME NEW n \in Names, RunEnds(n) PROVE TypeOK'
  <2>1. installed' \in [Names -> Versions] /\ due' \subseteq Names
    BY <1>7, ConfigAssumption DEF RunEnds, Versions
  <2> QED BY <1>7, <2>1 DEF RunEnds, fileVars
<1>8. ASSUME NEW n \in Names, Expire(n) PROVE TypeOK'
  BY <1>8 DEF Expire, fileVars, mapVars
<1>9. ASSUME NEW w \in Refreshers, Refresh(w) PROVE TypeOK'
  <2>1. ASSUME NEW n \in Names, Take(w, n) PROVE TypeOK'
    <3>1. work' \in [Refreshers -> Work]
      BY <2>1 DEF Take, Work
    <3> QED BY <2>1, <3>1 DEF Take, fileVars, mapVars
  <2>2. CASE Detect(w)
    <3>1. work' \in [Refreshers -> Work]
      <4>1. installed[work[w].name] \in Versions
        BY <1>b DEF Work
      <4>2. [work[w] EXCEPT !.at = "cache", !.version = installed[work[w].name]] \in Work
        BY <1>b, <4>1 DEF Work
      <4>3. \/ work' = [work EXCEPT ![w] =
                 [@ EXCEPT !.at = "cache", !.version = installed[work[w].name]]]
            \/ work' = [work EXCEPT ![w] = Idle]
        BY <2>2 DEF Detect
      <4> QED BY <4>2, <4>3, ContentTypes
    <3>2. faults' \in 0..MaxFaults
      BY <2>2, <1>a DEF Detect
    <3> QED BY <2>2, <3>1, <3>2 DEF Detect, fileVars, mapVars
  <2>3. CASE CacheSet(w)
    <3>1. work' \in [Refreshers -> Work]
      BY <2>3 DEF CacheSet, Work
    <3>2. cache' \in [Names -> Versions \cup {Absent}]
      BY <2>3, <1>b DEF CacheSet, Work
    <3> QED BY <2>3, <3>1, <3>2 DEF CacheSet, fileVars, mapVars
  <2>4. CASE ReadForUpdate(w)
    <3>1. [file EXCEPT !.ops[work[w].name] = work[w].version] \in Content
      BY <1>b, ContentTypes DEF Work
    <3>2. work' \in [Refreshers -> Work]
      BY <2>4, <3>1 DEF ReadForUpdate, Work
    <3> QED BY <2>4, <3>2 DEF ReadForUpdate, fileVars, mapVars
  <2>5. CASE Rename(w)
    <3>1. work' \in [Refreshers -> Work]
      <4>1. [work[w] EXCEPT !.at = "record", !.buffer = Nothing] \in Work
        BY <1>b, ContentTypes DEF Work
      <4>2. [work[w] EXCEPT !.at = "memory", !.buffer = Nothing] \in Work
        BY <1>b, ContentTypes DEF Work
      <4>3. \/ work' = [work EXCEPT ![w] = [@ EXCEPT !.at = "record", !.buffer = Nothing]]
            \/ work' = [work EXCEPT ![w] = [@ EXCEPT !.at = "memory", !.buffer = Nothing]]
        BY <2>5 DEF Rename
      <4> QED BY <4>1, <4>2, <4>3
    <3>2. faults' \in 0..MaxFaults
      BY <2>5, <1>a DEF Rename
    <3>3. file' \in Content /\ torn' \in BOOLEAN /\ changed' \in BOOLEAN /\ own' \in BOOLEAN
      BY <2>5, <1>b DEF Rename, Save, Work
    <3> QED BY <2>5, <3>1, <3>2, <3>3 DEF Rename, mapVars
  <2>6. CASE Record(w)
    <3>1. work' \in [Refreshers -> Work]
      BY <2>6 DEF Record, Work
    <3> QED BY <2>6, <3>1 DEF Record, mapVars
  <2>7. CASE WriteMemory(w)
    <3>1. work' \in [Refreshers -> Work]
      BY <2>7, ContentTypes DEF WriteMemory
    <3>2. ops' \in [Names -> Versions \cup {Absent}]
      BY <2>7, <1>b DEF WriteMemory, Work
    <3>3. loaded' \subseteq Present(ops')
      <4>1. work[w].version # Absent /\ work[w].name \in Names
        BY <1>b, ConfigAssumption DEF Work, Versions, Absent
      <4> QED BY <2>7, <4>1 DEF WriteMemory, Present
    <3> QED BY <2>7, <3>1, <3>2, <3>3 DEF WriteMemory, fileVars
  <2> QED BY <1>9, <2>1, <2>2, <2>3, <2>4, <2>5, <2>6, <2>7 DEF Refresh
<1>10. ASSUME NEW l \in Reloaders, LoadConfig(l) PROVE TypeOK'
  <2>1. CASE LoadFile(l)
    <3>1. load' \in [Reloaders -> Load]
      BY <2>1, ContentTypes DEF LoadFile, Load
    <3> QED BY <2>1, <3>1 DEF LoadFile, fileVars, mapVars
  <2>a. CASE LoadFails(l)
    <3>1. load' \in [Reloaders -> Load]
      BY <2>a, ContentTypes DEF LoadFails
    <3> QED BY <2>a, <3>1, <1>a DEF LoadFails, fileVars, mapVars
  <2>2. ASSUME NEW owned \in SUBSET Names, load[l].at # "load", Replace(owned, load[l].config),
               load' \in [Reloaders -> Load], changed' \in BOOLEAN
        PROVE  TypeOK'
    <3>1. load[l].config.ops \in [Names -> Versions \cup {Absent}]
      BY DEF Load, Content
    <3>2. ops' \in [Names -> Versions \cup {Absent}]
      BY <2>2, <3>1 DEF Replace
    <3>3. loaded' \subseteq Present(ops')
      BY <2>2, <3>1 DEF Replace, Present
    <3>4. due' \subseteq Names
      BY <2>2, <3>3 DEF Replace, Present, Warm
    <3>5. running' \in [Names -> {"no", "looking", "running"}]
      BY <2>2 DEF Replace, Found
    <3> QED BY <2>2, <3>2, <3>3, <3>4, <3>5 DEF Replace
  <2>3. CASE Reload(l)
    <3>1. load' \in [Reloaders -> Load]
      BY <2>3 DEF Reload, Load
    <3> QED BY <2>2, <2>3, <3>1 DEF Reload
  <2>4. CASE ReloadApps(l)
    <3>1. load' \in [Reloaders -> Load]
      BY <2>4, ContentTypes DEF ReloadApps
    <3> QED BY <2>2, <2>4, <3>1, ConfigAssumption DEF ReloadApps
  <2> QED BY <1>10, <2>1, <2>a, <2>3, <2>4 DEF LoadConfig
<1>11. CASE ClearEnrollmentToken
  <2>1. CASE ClearRead
    BY <2>1, ContentTypes DEF ClearRead, Clearing, fileVars, mapVars
  <2>2. CASE ClearTruncate
    BY <2>2 DEF ClearTruncate, Clearing, mapVars
  <2>3. CASE ClearWrite
    <3>1. clearing' \in Clearing
      BY <2>3, ContentTypes DEF ClearWrite, Clearing
    <3>2. file' \in Content /\ torn' \in BOOLEAN /\ changed' \in BOOLEAN /\ own' \in BOOLEAN
      BY <2>3 DEF ClearWrite, Save, Clearing
    <3> QED BY <2>3, <3>1, <3>2 DEF ClearWrite, mapVars
  <2> QED BY <1>11, <2>1, <2>2, <2>3 DEF ClearEnrollmentToken
<1>12. CASE UNCHANGED vars
  BY <1>12 DEF vars, fileVars, mapVars
<1> QED BY <1>1, <1>2, <1>3, <1>4, <1>5, <1>6, <1>7, <1>8, <1>9, <1>10, <1>11, <1>12 DEF Next

(* Every variable keeps its type (ConfigSync's TypeOK). *)
THEOREM ConfigTypes == Spec => []TypeOK
<1> QED BY InitTypes, StepTypes, PTL DEF Spec

-----------------------------------------------------------------------------
(***************************************************************************)
(* writeMu admits one write-back at a time, from its reading of the file   *)
(* to recordWriteTime.  This is what WriteBackIsCurrent rests on: nobody   *)
(* but a write-back, the operator and ClearEnrollmentToken changes the     *)
(* file.                                                                   *)
(***************************************************************************)
Writing(w) == work[w].at \in {"rename", "record"}

OneWriteBack == \A w, x \in Refreshers : Writing(w) /\ Writing(x) => w = x

(* The steps of a refresher: those that leave the file and the two stages  *)
(* alone, and the three that do not.                                       *)
LEMMA RefreshCases ==
  ASSUME TypeOK, NEW w \in Refreshers, Refresh(w)
  PROVE  /\ UNCHANGED <<edits, load, clearing>>
         /\ \A x \in Refreshers \ {w} : work'[x] = work[x]
         /\ \/ ReadForUpdate(w) /\ file' = file /\ work'[w].at \in {"rename", "memory"}
            \/ Rename(w) /\ Writing(w) /\ work'[w].at \in {"record", "memory"}
            \/ file' = file /\ ~Writing(w)'
<1>0. work \in [Refreshers -> Work]
  BY DEF TypeOK
<1>1. ASSUME NEW n \in Names, Take(w, n)
      PROVE  /\ UNCHANGED <<file, edits, load, clearing>> /\ ~Writing(w)'
             /\ \A x \in Refreshers \ {w} : work'[x] = work[x]
  BY <1>0, <1>1 DEF Take, fileVars, Writing, Work
<1>2. CASE Detect(w) \/ CacheSet(w) \/ Record(w) \/ WriteMemory(w)
  <2>1. UNCHANGED <<file, edits, load, clearing>>
    BY <1>2 DEF Detect, CacheSet, Record, WriteMemory, fileVars
  <2>2. work'[w].at \in {"cache", "idle", "lock", "memory"}
    BY <1>0, <1>2 DEF Detect, CacheSet, Record, WriteMemory, Work, Idle
  <2>3. \A x \in Refreshers \ {w} : work'[x] = work[x]
    BY <1>0, <1>2 DEF Detect, CacheSet, Record, WriteMemory
  <2>. QED
    BY <2>1, <2>2, <2>3 DEF Writing
<1>3. CASE ReadForUpdate(w)
  <2>1. UNCHANGED <<file, edits, load, clearing>>
    BY <1>3 DEF ReadForUpdate, fileVars
  <2>2. \A x \in Refreshers \ {w} : work'[x] = work[x]
    BY <1>0, <1>3 DEF ReadForUpdate
  <2>3. work'[w].at \in {"rename", "memory"}
    BY <1>0, <1>3 DEF ReadForUpdate, Work
  <2>. QED
    BY <1>3, <2>1, <2>2, <2>3
<1>4. CASE Rename(w)
  <2>1. UNCHANGED <<edits, load, clearing>> /\ Writing(w)
    BY <1>4 DEF Rename, Writing
  <2>2. \A x \in Refreshers \ {w} : work'[x] = work[x]
    BY <1>0, <1>4 DEF Rename
  <2>3. work'[w].at \in {"record", "memory"}
    BY <1>0, <1>4 DEF Rename, Work
  <2>. QED
    BY <1>4, <2>1, <2>2, <2>3
<1> QED BY <1>1, <1>2, <1>3, <1>4 DEF Refresh

(* The steps of everybody else: who of them touches the file, and what     *)
(* they leave alone.                                                       *)
LEMMA OtherCases ==
  ASSUME [Next]_vars, ~(\E w \in Refreshers : Refresh(w))
  PROVE  work' = work /\ (file' = file \/ Edit \/ ClearWrite)
BY DEF Next, Edit, Tick15Min, Watch, Tick2s, PostReload, LookUp, LookedUp, RunEnds, Expire,
   LoadConfig, LoadFile, LoadFails, Reload, ReloadApps, Replace, ClearEnrollmentToken, ClearRead, ClearTruncate, ClearWrite,
   vars, fileVars

LEMMA OneWriteBackStep ==
  ASSUME TypeOK, OneWriteBack, [Next]_vars
  PROVE  OneWriteBack'
<1>1. CASE ~(\E w \in Refreshers : Refresh(w))
  BY <1>1, OtherCases DEF OneWriteBack, Writing
<1>2. ASSUME NEW w \in Refreshers, Refresh(w) PROVE OneWriteBack'
  <2>1. \A x \in Refreshers \ {w} : Writing(x)' <=> Writing(x)
    BY <1>2, RefreshCases DEF Writing
  <2>2. CASE ReadForUpdate(w)
    <3>1. \A x \in Refreshers : ~Writing(x)
      BY <2>2 DEF ReadForUpdate, WriteMuFree, Writing
    <3> QED BY <2>1, <3>1 DEF OneWriteBack
  <2>3. Writing(w)' => Writing(w) \/ ReadForUpdate(w)
    BY <1>2, RefreshCases
  <2> QED BY <2>1, <2>2, <2>3 DEF OneWriteBack
<1> QED BY <1>1, <1>2

LEMMA WriteBackStep ==
  ASSUME TypeOK, OneWriteBack, [Next]_vars, NEW w \in Refreshers, Outdated(w)', ~Outdated(w)
  PROVE  /\ Edit \/ ClearWrite
         /\ \A x \in Refreshers \ {w} : work[x].at # "rename"
<1>0. file \in Content /\ work \in [Refreshers -> Work]
  BY DEF TypeOK
<1>1. work'[w].at = "rename"
  BY DEF Outdated
<1>2. CASE work'[w] = work[w]
  <2>1. file' # file
    BY <1>2 DEF Outdated, UpToDate
  <2>2. \A x \in Refreshers \ {w} : ~Writing(x)
    BY <1>1, <1>2 DEF OneWriteBack, Writing
  <2>3. ~(\E x \in Refreshers : Refresh(x))
    <3> SUFFICES ASSUME NEW x \in Refreshers, Refresh(x) PROVE FALSE
      OBVIOUS
    <3>1. Rename(x) /\ Writing(x) /\ work'[x].at \in {"record", "memory"}
      BY <2>1, RefreshCases
    <3> QED BY <1>1, <2>2, <3>1
  <2> QED BY <2>1, <2>2, <2>3, OtherCases DEF Writing
<1>3. CASE work'[w] # work[w]
  <2>1. PICK x \in Refreshers : Refresh(x)
    BY <1>3, OtherCases
  <2>2. x = w
    BY <1>3, <2>1, RefreshCases
  <2>3. ReadForUpdate(w) /\ file' = file
    BY <1>1, <2>1, <2>2, RefreshCases DEF Writing
  <2> DEFINE new == [file EXCEPT !.ops[work[w].name] = work[w].version]
  <2>4. \/ /\ file.ops[work[w].name] \notin {Absent, work[w].version}
           /\ work' = [work EXCEPT ![w] = [@ EXCEPT !.at = "rename", !.buffer = new]]
        \/ work' = [work EXCEPT ![w] = [@ EXCEPT !.at = "memory"]]
    BY <2>3 DEF ReadForUpdate, Updatable
  <2> HIDE DEF new
  <2>5. /\ file.ops[work[w].name] \notin {Absent, work[w].version}
        /\ work'[w] = [work[w] EXCEPT !.at = "rename", !.buffer = new]
    BY <1>0, <1>1, <2>4 DEF Work
  <2>6. /\ work'[w].name = work[w].name /\ work'[w].version = work[w].version
        /\ work'[w].buffer = new
    BY <1>0, <2>5 DEF Work
  <2>7. UpToDate(w)'
    BY <2>3, <2>5, <2>6 DEF UpToDate, new
  <2> QED BY <2>7 DEF Outdated
<1> QED BY <1>2, <1>3

(* No write-back replaces a file other than the one it has read, unless    *)
(* the operator or ClearEnrollmentToken has saved in between, and of those *)
(* under way only one can be overtaken so (ConfigSync's                    *)
(* WriteBackIsCurrent).                                                    *)
THEOREM WriteBacksAreCurrent == Spec => WriteBackIsCurrent
<1>1. Init => OneWriteBack
  BY DEF Init, Idle, OneWriteBack, Writing
<1>2. TypeOK /\ OneWriteBack /\ [Next]_vars =>
        [\A w \in Refreshers : Outdated(w)' /\ ~Outdated(w) =>
           /\ Edit \/ ClearWrite
           /\ \A x \in Refreshers \ {w} : work[x].at # "rename"]_vars
  BY WriteBackStep
<1> QED BY <1>1, <1>2, ConfigTypes, OneWriteBackStep, PTL DEF Spec, WriteBackIsCurrent

-----------------------------------------------------------------------------
(***************************************************************************)
(* The enrollment token, which ClearEnrollmentToken clears without writeMu:*)
(* it is gone for good when neither the file has it nor a write-back that  *)
(* has read the file before.                                               *)
(***************************************************************************)
TokenGone ==
  ~file.token /\ \A w \in Refreshers : work[w].at = "rename" => ~work[w].buffer.token

ClearsIt == clearing.at \in {"truncate", "write"} => ~clearing.buffer.token

LEMMA ClearsItStep ==
  ASSUME TypeOK, ClearsIt, [Next]_vars
  PROVE  ClearsIt'
<1>0. file \in Content /\ clearing \in Clearing
  BY DEF TypeOK
<1>1. CASE ClearRead
  <2>1. clearing'.buffer = [file EXCEPT !.token = FALSE]
    BY <1>1 DEF ClearRead
  <2> QED BY <1>0, <2>1 DEF ClearsIt, Content
<1>2. CASE ClearTruncate \/ ClearWrite
  BY <1>0, <1>2 DEF ClearTruncate, ClearWrite, ClearsIt, Clearing
<1>3. CASE ~ClearRead /\ ~ClearTruncate /\ ~ClearWrite
  <2>1. CASE \E w \in Refreshers : Refresh(w)
    BY <2>1, RefreshCases DEF ClearsIt
  <2>2. CASE ~(\E w \in Refreshers : Refresh(w))
    <3>1. clearing' = clearing
      BY <1>3, <2>2 DEF Next, Edit, Tick15Min, Watch, Tick2s, PostReload, LookUp, LookedUp,
         RunEnds, Expire, LoadConfig, LoadFile, LoadFails, Reload, ReloadApps, Replace, ClearEnrollmentToken, vars
    <3> QED BY <3>1 DEF ClearsIt
  <2> QED BY <2>1, <2>2
<1> QED BY <1>1, <1>2, <1>3

LEMMA TokenGoneStep ==
  ASSUME TypeOK, ClearsIt, TokenGone, [Next]_vars
  PROVE  TokenGone'
<1>0. file \in Content /\ clearing \in Clearing /\ work \in [Refreshers -> Work]
  BY DEF TypeOK
<1>1. CASE ~(\E w \in Refreshers : Refresh(w))
  <2>1. work' = work /\ (file' = file \/ Edit \/ ClearWrite)
    BY <1>1, OtherCases
  <2>2. ~file'.token
    <3>1. CASE Edit
      BY <1>0, <3>1 DEF Edit, Save, TokenGone, Content
    <3>2. CASE ClearWrite
      BY <3>2 DEF ClearWrite, Save, TokenGone, ClearsIt
    <3> QED BY <2>1, <3>1, <3>2 DEF TokenGone
  <2> QED BY <2>1, <2>2 DEF TokenGone
<1>2. ASSUME NEW w \in Refreshers, Refresh(w) PROVE TokenGone'
  <2>1. \A x \in Refreshers \ {w} : work'[x] = work[x]
    BY <1>2, RefreshCases
  <2>2. CASE ReadForUpdate(w)
    <3> DEFINE new == [file EXCEPT !.ops[work[w].name] = work[w].version]
    <3>1. ~new.token
      BY <1>0 DEF TokenGone, Content
    <3>2. \/ work' = [work EXCEPT ![w] = [@ EXCEPT !.at = "rename", !.buffer = new]]
          \/ work' = [work EXCEPT ![w] = [@ EXCEPT !.at = "memory"]]
      BY <2>2 DEF ReadForUpdate
    <3> HIDE DEF new
    <3>3. work'[w].at = "rename" => ~work'[w].buffer.token
      BY <1>0, <3>1, <3>2 DEF Work
    <3>4. file' = file
      BY <2>2 DEF ReadForUpdate, fileVars
    <3> QED BY <2>1, <3>3, <3>4 DEF TokenGone
  <2>3. CASE Rename(w)
    <3>1. work[w].at = "rename" /\ (file' = work[w].buffer \/ file' = file)
      BY <2>3 DEF Rename, Save
    <3>2. work'[w].at # "rename"
      BY <1>0, <2>3 DEF Rename, Work
    <3> QED BY <2>1, <3>1, <3>2 DEF TokenGone
  <2>4. CASE file' = file /\ ~Writing(w)'
    BY <2>1, <2>4 DEF TokenGone, Writing
  <2> QED BY <1>2, <2>2, <2>3, <2>4, RefreshCases
<1> QED BY <1>1, <1>2

(* Although ClearEnrollmentToken and the write-backs do not keep each      *)
(* other out, a token that is gone from the file and from the write-back   *)
(* under way does not come back, by whatever edit of the operations,       *)
(* detection or load (config.go:417; the write-back that has it may bring  *)
(* it back once).                                                          *)
THEOREM TokenStaysGone == Spec => [](TokenGone => []TokenGone)
<1>1. Init => ClearsIt
  BY DEF Init, ClearsIt
<1>2. TypeOK /\ ClearsIt /\ TokenGone /\ [Next]_vars => TokenGone'
  BY TokenGoneStep
<1> QED BY <1>1, <1>2, ConfigTypes, ClearsItStep, PTL DEF Spec

-----------------------------------------------------------------------------
(***************************************************************************)
(* The watcher, when nobody else loads the file.  What it is about to put  *)
(* into the runner is what the file says, unless the file has changed      *)
(* since.                                                                  *)
(***************************************************************************)
Seen == ~changed /\ ~torn

LoadInv ==
  Seen => /\ load["watcher"].at \in {"ops", "apps"} => load["watcher"].config.ops = file.ops
          /\ load["watcher"].at = "apps" =>
               loaded \ AppNames = Present(file.ops) \ AppNames

OnlyWatcherLoads == Reloaders = {"watcher"}

LEMMA InitLoad == OnlyWatcherLoads /\ Init => LoadInv
BY DEF OnlyWatcherLoads, Init, NotLoading, LoadInv

LEMMA StepLoad == OnlyWatcherLoads /\ TypeOK /\ LoadInv /\ [Next]_vars => LoadInv'
<1> SUFFICES ASSUME OnlyWatcherLoads, TypeOK, LoadInv, [Next]_vars PROVE LoadInv'
  OBVIOUS
<1> USE DEF OnlyWatcherLoads, LoadInv, Seen
<1>0. load["watcher"] \in Load
  BY DEF TypeOK
<1>1. CASE Edit
  BY <1>1 DEF Edit, Save
<1>2. CASE Tick15Min
  BY <1>2 DEF Tick15Min, fileVars, mapVars, Present
<1>3. CASE Watch \/ Tick2s
  <2>1. load'["watcher"].at \in {"idle", "load"}
    BY <1>3, <1>0 DEF Watch, Tick2s, TypeOK, Load
  <2> QED BY <2>1
<1>4. CASE PostReload
  BY <1>4 DEF PostReload
<1>5. ASSUME NEW n \in Names, LookUp(n) \/ LookedUp(n) \/ RunEnds(n) \/ Expire(n)
      PROVE  LoadInv'
  BY <1>5 DEF LookUp, LookedUp, RunEnds, Expire, fileVars, mapVars, Present
<1>6. ASSUME NEW w \in Refreshers, Refresh(w) PROVE LoadInv'
  <2>1. CASE Rename(w)
    BY <2>1 DEF Rename, Save, mapVars, Present
  <2>2. CASE Detect(w) \/ CacheSet(w) \/ ReadForUpdate(w) \/ Record(w) \/ WriteMemory(w)
    <3>1. UNCHANGED <<file, torn, changed, loaded, load>>
      BY <2>2 DEF Detect, CacheSet, ReadForUpdate, Record, WriteMemory, fileVars, mapVars
    <3> QED BY <3>1 DEF Present
  <2>3. ASSUME NEW n \in Names, Take(w, n) PROVE LoadInv'
    BY <2>3 DEF Take, fileVars, mapVars, Present
  <2> QED BY <1>6, <2>1, <2>2, <2>3 DEF Refresh
<1>7. ASSUME NEW l \in Reloaders, LoadConfig(l) PROVE LoadInv'
  <2>0. l = "watcher"
    OBVIOUS
  <2>1. CASE LoadFile(l)
    BY <2>0, <2>1, <1>0 DEF LoadFile, fileVars, TypeOK, Load
  <2>a. CASE LoadFails(l)
    BY <2>0, <2>a DEF LoadFails, NotLoading, TypeOK
  <2>2. CASE Reload(l)
    <3>1. load'["watcher"] = [load["watcher"] EXCEPT !.at = "apps"]
      BY <2>0, <2>2 DEF Reload, TypeOK
    <3>2. loaded' \ AppNames = Present(load["watcher"].config.ops) \ AppNames
      BY <2>0, <2>2 DEF Reload, Replace, TypeOK, Present
    <3>3. UNCHANGED <<file, own, torn, changed>>
      BY <2>2 DEF Reload, Replace
    <3>4. Seen => load["watcher"].config.ops = file.ops
      BY <2>0, <2>2 DEF Reload
    <3>5. /\ load'["watcher"].at = "apps"
          /\ load'["watcher"].config.ops = load["watcher"].config.ops
      BY <1>0, <3>1 DEF Load
    <3>6. Seen => loaded' \ AppNames = Present(file.ops) \ AppNames
      BY <3>2, <3>4 DEF Present
    <3> QED BY <3>3, <3>4, <3>5, <3>6 DEF Present
  <2>3. CASE ReloadApps(l)
    <3>1. load'["watcher"].at = "idle"
      BY <2>0, <2>3 DEF ReloadApps, NotLoading, TypeOK
    <3> QED BY <3>1
  <2> QED BY <1>7, <2>1, <2>a, <2>2, <2>3 DEF LoadConfig
<1>8. CASE ClearEnrollmentToken
  <2>1. CASE ClearRead
    BY <2>1 DEF ClearRead, fileVars, mapVars, Present
  <2>2. CASE ClearTruncate
    BY <2>2 DEF ClearTruncate
  <2>3. CASE ClearWrite
    BY <2>3 DEF ClearWrite, Save, mapVars, Present
  <2> QED BY <1>8, <2>1, <2>2, <2>3 DEF ClearEnrollmentToken
<1>9. CASE UNCHANGED vars
  BY <1>9 DEF vars, fileVars, mapVars, Present
<1> QED BY <1>1, <1>2, <1>3, <1>4, <1>5, <1>6, <1>7, <1>8, <1>9 DEF Next

(* The watcher at rest: only a save changes the file, and marks it; only a *)
(* load changes the runner.                                                *)
LEMMA RestCases ==
  ASSUME OnlyWatcherLoads, TypeOK, [Next]_vars, load["watcher"].at = "idle"
  PROVE  \/ changed' \/ torn'
         \/ Tick2s
         \/ UNCHANGED <<file, torn, changed, loaded, load>>
<1> USE DEF OnlyWatcherLoads
<1>1. CASE Edit
  BY <1>1 DEF Edit, Save
<1>2. CASE Tick15Min \/ UNCHANGED vars
  BY <1>2 DEF Tick15Min, vars, fileVars, mapVars
<1>3. CASE Watch \/ PostReload
  BY <1>3 DEF Watch, PostReload
<1>4. ASSUME NEW n \in Names, LookUp(n) \/ LookedUp(n) \/ RunEnds(n) \/ Expire(n)
      PROVE  UNCHANGED <<file, torn, changed, loaded, load>>
  BY <1>4 DEF LookUp, LookedUp, RunEnds, Expire, fileVars, mapVars
<1>5. ASSUME NEW w \in Refreshers, Refresh(w)
      PROVE  changed' \/ UNCHANGED <<file, torn, changed, loaded, load>>
  <2>1. UNCHANGED <<loaded, load>>
    BY <1>5 DEF Refresh, Take, Detect, CacheSet, ReadForUpdate, Rename, Record, WriteMemory, mapVars
  <2>2. changed' \/ UNCHANGED <<file, torn, changed>>
    BY <1>5 DEF Refresh, Take, Detect, CacheSet, ReadForUpdate, Rename, Save, Record, WriteMemory,
       fileVars
  <2> QED BY <2>1, <2>2
<1>6. ASSUME NEW l \in Reloaders, LoadConfig(l) PROVE FALSE
  BY <1>6 DEF LoadConfig, LoadFile, LoadFails, Reload, ReloadApps
<1>7. CASE ClearEnrollmentToken
  BY <1>7 DEF ClearEnrollmentToken, ClearRead, ClearTruncate, ClearWrite, Save, fileVars, mapVars
<1> QED BY <1>1, <1>2, <1>3, <1>4, <1>5, <1>6, <1>7 DEF Next

(* The watcher at work: it comes to rest by the start, the end of a load,  *)
(* or its failure.                                                         *)
LEMMA WorkCases ==
  ASSUME OnlyWatcherLoads, TypeOK, [Next]_vars,
         load["watcher"].at # "idle", load'["watcher"].at = "idle"
  PROVE  Watch \/ LoadFails("watcher") \/ ReloadApps("watcher")
<1> USE DEF OnlyWatcherLoads
<1>0. load["watcher"] \in Load /\ load' # load
  BY DEF TypeOK
<1>1. CASE \E w \in Refreshers : Refresh(w)
  BY <1>0, <1>1, RefreshCases
<1>2. CASE Tick2s \/ PostReload
  BY <1>2 DEF Tick2s, PostReload
<1>3. CASE LoadFile("watcher") \/ Reload("watcher")
  <2>1. load'["watcher"].at \in {"ops", "apps"}
    BY <1>0, <1>3 DEF LoadFile, Reload, TypeOK, Load
  <2> QED BY <2>1
<1>4. CASE ~(\E w \in Refreshers : Refresh(w)) /\ ~Tick2s /\ ~PostReload
           /\ ~(\E l \in Reloaders : LoadConfig(l)) /\ ~Watch
  BY <1>0, <1>4 DEF Next, Edit, Tick15Min, LookUp, LookedUp, RunEnds, Expire,
     ClearEnrollmentToken, ClearRead, ClearTruncate, ClearWrite, vars
<1> QED BY <1>1, <1>2, <1>3, <1>4 DEF LoadConfig

LEMMA BehindStep ==
  ASSUME OnlyWatcherLoads, TypeOK, LoadInv, [Next]_vars, Behind', ~Behind
  PROVE  Watch \/ (Tick2s /\ own) \/ LoadFails("watcher")
<1>0. /\ load["watcher"] \in Load
      /\ load'["watcher"].at = "idle" /\ ~changed' /\ ~torn' /\ loaded' # Present(file'.ops)
  BY DEF OnlyWatcherLoads, TypeOK, Behind, Present
<1>1. CASE load["watcher"].at = "idle"
  <2>1. Tick2s
    <3>1. ~UNCHANGED <<file, torn, changed, loaded, load>>
      BY DEF Behind, Present
    <3> QED BY <1>0, <1>1, <3>1, RestCases
  <2>2. own
    BY <1>0, <2>1 DEF Tick2s, TypeOK, Load
  <2> QED BY <2>1, <2>2
<1>2. CASE load["watcher"].at # "idle"
  <2> SUFFICES ASSUME ReloadApps("watcher") PROVE FALSE
    BY <1>0, <1>2, WorkCases
  <2>1. load["watcher"].at = "apps" /\ UNCHANGED <<file, torn, changed>>
    BY DEF ReloadApps, Replace
  <2>2. /\ load["watcher"].config.ops = file.ops
        /\ loaded \ AppNames = Present(file.ops) \ AppNames
    BY <1>0, <2>1 DEF LoadInv, Seen
  <2>3. /\ loaded' \cap AppNames = Present(load["watcher"].config.ops) \cap AppNames
        /\ loaded' \ AppNames = loaded \ AppNames
    BY DEF ReloadApps, Replace, TypeOK, Present
  <2>4. loaded' = Present(file.ops)
    BY <2>2, <2>3
  <2> QED BY <1>0, <2>1, <2>4
<1> QED BY <1>1, <1>2

(* Where only the watcher loads the file, it comes to rest without what    *)
(* the file lists in three ways: a save before it started, one that a      *)
(* write-back hides, a load that fails.  Every other save is loaded        *)
(* (ConfigSync's FileIsLoaded).                                            *)
THEOREM EditsAreLoaded == ASSUME OnlyWatcherLoads PROVE Spec => FileIsLoaded
<1>1. Init => LoadInv
  BY InitLoad
<1>2. TypeOK /\ LoadInv /\ [Next]_vars => LoadInv'
  BY StepLoad
<1>3. TypeOK /\ LoadInv /\ [Next]_vars =>
        [Behind' /\ ~Behind => Watch \/ (Tick2s /\ own) \/ LoadFails("watcher")]_vars
  BY BehindStep
<1> QED BY <1>1, <1>2, <1>3, ConfigTypes, PTL DEF Spec, FileIsLoaded

-----------------------------------------------------------------------------
(***************************************************************************)
(* Versions that agree: nobody knows, holds or is about to write another   *)
(* version of n than the one installed.                                    *)
(***************************************************************************)
Holds(map, n) == map[n] \in {Absent, installed[n]}

(* Refresher w has detected a version of n and is not yet through with it. *)
Carries(w, n) ==
  work[w].name = n /\ work[w].at \in {"cache", "lock", "rename", "record", "memory"}

Agreed(n) ==
  /\ Holds(cache, n) /\ Holds(ops, n) /\ Holds(file.ops, n)
  /\ \A w \in Refreshers :
       /\ Carries(w, n) => work[w].version = installed[n]
       /\ work[w].at = "rename" => Holds(work[w].buffer.ops, n)
  /\ \A l \in Reloaders : load[l].at \in {"ops", "apps"} => Holds(load[l].config.ops, n)
  /\ clearing.at \in {"truncate", "write"} => Holds(clearing.buffer.ops, n)

(* What VersionsSettle says that it comes to. *)
Settled(n) ==
  n \in loaded => CurrentVersion(n) = installed[n] /\ file.ops[n] \in {Absent, installed[n]}

LEMMA AgreedSettled ==
  ASSUME TypeOK, NEW n \in Names, Agreed(n)
  PROVE  Settled(n)
<1>1. n \in loaded => ops[n] # Absent
  BY DEF TypeOK, Present
<1> QED BY <1>1 DEF Agreed, Holds, Carries, Settled, CurrentVersion

LEMMA AgreedRefresh ==
  ASSUME TypeOK, NEW n \in Names, Agreed(n), NEW w \in Refreshers, Refresh(w),
         installed'[n] = installed[n]
  PROVE  Agreed(n)'
<1>0. /\ file \in Content /\ work \in [Refreshers -> Work]
      /\ cache \in [Names -> Versions \cup {Absent}] /\ ops \in [Names -> Versions \cup {Absent}]
  BY DEF TypeOK
<1>1. UNCHANGED <<load, clearing>> /\ \A x \in Refreshers \ {w} : work'[x] = work[x]
  BY RefreshCases
<1>. DEFINE Mine == /\ Holds(cache, n) /\ Holds(ops, n) /\ Holds(file.ops, n)
                    /\ Carries(w, n) => work[w].version = installed[n]
                    /\ work[w].at = "rename" => Holds(work[w].buffer.ops, n)
<1>2. Mine
  BY DEF Agreed
<1>3. SUFFICES Mine'
  BY <1>1 DEF Agreed, Holds, Carries
<1>4. ASSUME NEW m \in Names, Take(w, m) PROVE Mine'
  <2>1. work'[w].at = "detect" /\ UNCHANGED <<file, cache, ops>>
    BY <1>0, <1>4 DEF Take, Work, fileVars, mapVars
  <2> QED BY <1>2, <2>1 DEF Holds, Carries
<1>5. CASE Detect(w)
  <2>1. /\ UNCHANGED <<file, cache, ops>>
        /\ \/ work'[w].at = "idle"
           \/ /\ work'[w].at = "cache" /\ work'[w].name = work[w].name
              /\ work'[w].version = installed[work[w].name]
    BY <1>0, <1>5 DEF Detect, Work, Idle, fileVars, mapVars
  <2> QED BY <1>2, <2>1 DEF Holds, Carries
<1>6. CASE CacheSet(w)
  <2>1. /\ UNCHANGED <<file, ops>> /\ work[w].at = "cache" /\ work'[w].at = "lock"
        /\ work'[w].name = work[w].name /\ work'[w].version = work[w].version
        /\ cache'[n] = IF work[w].name = n THEN work[w].version ELSE cache[n]
    BY <1>0, <1>6 DEF CacheSet, Work, fileVars, mapVars
  <2> QED BY <1>2, <2>1 DEF Holds, Carries
<1>7. CASE ReadForUpdate(w)
  <2>1. UNCHANGED <<file, cache, ops>> /\ work[w].at = "lock"
    BY <1>7 DEF ReadForUpdate, fileVars, mapVars
  <2> DEFINE new == [file EXCEPT !.ops[work[w].name] = work[w].version]
  <2>2. new.ops[n] = IF work[w].name = n THEN work[w].version ELSE file.ops[n]
    BY <1>0 DEF Content
  <2>3. \/ work' = [work EXCEPT ![w] = [@ EXCEPT !.at = "rename", !.buffer = new]]
        \/ work' = [work EXCEPT ![w] = [@ EXCEPT !.at = "memory"]]
    BY <1>7 DEF ReadForUpdate
  <2> HIDE DEF new
  <2>r. \/ work'[w] = [work[w] EXCEPT !.at = "rename", !.buffer = new]
        \/ work'[w] = [work[w] EXCEPT !.at = "memory"]
    BY <1>0, <2>3
  <2>4. /\ work'[w].name = work[w].name /\ work'[w].version = work[w].version
        /\ work'[w].at = "rename" => work'[w].buffer = new
    BY <1>0, <2>r DEF Work
  <2>5. Carries(w, n)' => work'[w].version = installed[n]
    BY <1>2, <2>1, <2>4 DEF Carries
  <2>6. Holds(new.ops, n)
    BY <1>2, <2>1, <2>2 DEF Holds, Carries
  <2>7. work'[w].at = "rename" => Holds(work[w].buffer.ops, n)'
    BY <2>4, <2>6 DEF Holds
  <2>8. (Holds(cache, n) /\ Holds(ops, n) /\ Holds(file.ops, n))'
    BY <1>2, <2>1 DEF Holds
  <2> QED BY <2>5, <2>7, <2>8
<1>8. CASE Rename(w)
  <2>1. /\ UNCHANGED <<cache, ops>> /\ work[w].at = "rename"
        /\ file' = file \/ file' = work[w].buffer
    BY <1>8 DEF Rename, Save, mapVars
  <2>2. /\ work'[w].name = work[w].name /\ work'[w].version = work[w].version
        /\ work'[w].at # "rename"
    BY <1>0, <1>8 DEF Rename, Work
  <2> QED BY <1>2, <2>1, <2>2 DEF Holds, Carries
<1>9. CASE Record(w)
  <2>1. /\ UNCHANGED <<file, cache, ops>> /\ work[w].at = "record" /\ work'[w].at = "memory"
        /\ work'[w].name = work[w].name /\ work'[w].version = work[w].version
    BY <1>0, <1>9 DEF Record, Work, mapVars
  <2> QED BY <1>2, <2>1 DEF Holds, Carries
<1>10. CASE WriteMemory(w)
  <2>1. /\ UNCHANGED <<file, cache>> /\ work[w].at = "memory" /\ work'[w].at = "idle"
        /\ ops'[n] = IF work[w].name = n THEN work[w].version ELSE ops[n]
    BY <1>0, <1>10 DEF WriteMemory, Work, Idle, fileVars
  <2> QED BY <1>2, <2>1 DEF Holds, Carries
<1> QED BY <1>4, <1>5, <1>6, <1>7, <1>8, <1>9, <1>10 DEF Refresh

LEMMA AgreedLoad ==
  ASSUME TypeOK, NEW n \in Names, Agreed(n), NEW l \in Reloaders, LoadConfig(l)
  PROVE  Agreed(n)'
<1>0. file \in Content /\ load \in [Reloaders -> Load]
  BY DEF TypeOK
<1>1. CASE LoadFile(l)
  <2>1. UNCHANGED <<file, installed, ops, cache, work, clearing>>
    BY <1>1 DEF LoadFile, fileVars, mapVars
  <2>2. Nothing.ops[n] = Absent
    BY DEF Nothing
  <2>3. /\ \A k \in Reloaders \ {l} : load'[k] = load[k]
        /\ load'[l].config \in {Nothing, file}
    BY <1>0, <1>1 DEF LoadFile
  <2> QED BY <2>1, <2>2, <2>3 DEF Agreed, Holds, Carries
<1>a. CASE LoadFails(l)
  <2>1. UNCHANGED <<file, installed, ops, cache, work, clearing>>
    BY <1>a DEF LoadFails, fileVars, mapVars
  <2>2. \A k \in Reloaders : load'[k] = load[k] \/ load'[k].at = "idle"
    BY <1>0, <1>a DEF LoadFails, NotLoading
  <2> QED BY <2>1, <2>2 DEF Agreed, Holds, Carries
<1>2. ASSUME NEW owned, Replace(owned, load[l].config), load[l].at \in {"ops", "apps"},
             load' = [load EXCEPT ![l].at = "apps"] \/ load' = [load EXCEPT ![l] = NotLoading]
      PROVE  Agreed(n)'
  <2>1. UNCHANGED <<file, installed, cache, work, clearing>>
    BY <1>2 DEF Replace
  <2>2. ops'[n] = IF n \in owned THEN load[l].config.ops[n] ELSE ops[n]
    BY <1>2 DEF Replace
  <2>3. Holds(load[l].config.ops, n) /\ Holds(ops, n)
    BY <1>2 DEF Agreed
  <2>4. \A k \in Reloaders : load'[k].at \in {"ops", "apps"} =>
          load'[k].config = load[k].config /\ load[k].at \in {"ops", "apps"}
    BY <1>0, <1>2 DEF Load, NotLoading
  <2>5. Holds(ops, n)'
    BY <2>1, <2>2, <2>3 DEF Holds
  <2>6. \A k \in Reloaders : load'[k].at \in {"ops", "apps"} => Holds(load[k].config.ops, n)
    BY <2>4 DEF Agreed
  <2> QED BY <2>1, <2>4, <2>5, <2>6 DEF Agreed, Holds, Carries
<1>3. CASE Reload(l) \/ ReloadApps(l)
  BY <1>2, <1>3 DEF Reload, ReloadApps
<1> QED BY <1>1, <1>a, <1>3 DEF LoadConfig

LEMMA AgreedStep ==
  ASSUME TypeOK, [Next]_vars, NEW n \in Names, Agreed(n), installed'[n] = installed[n],
         edits' = edits
  PROVE  Agreed(n)'
<1>1. ~Edit
  <2>1. edits \in Nat
    BY ConfigAssumption DEF TypeOK
  <2> QED BY <2>1 DEF Edit
<1>2. CASE Tick15Min \/ Watch \/ Tick2s \/ PostReload
  <2>1. /\ UNCHANGED <<file, installed, ops, cache, work, clearing>>
    BY <1>2 DEF Tick15Min, Watch, Tick2s, PostReload, fileVars, mapVars
  <2>2. \A l \in Reloaders : load'[l] = load[l] \/ load'[l].at \in {"idle", "load"}
    BY <1>2 DEF Tick15Min, Watch, Tick2s, PostReload, TypeOK, Load
  <2> QED BY <2>1, <2>2 DEF Agreed, Holds, Carries
<1>3. ASSUME NEW m \in Names, LookUp(m) \/ LookedUp(m) \/ RunEnds(m) \/ Expire(m)
      PROVE  Agreed(n)'
  <2>1. UNCHANGED <<file, ops, work, load, clearing>>
    BY <1>3 DEF LookUp, LookedUp, RunEnds, Expire, fileVars, mapVars
  <2>2. cache'[n] \in {cache[n], Absent}
    BY <1>3 DEF LookUp, LookedUp, RunEnds, Expire, TypeOK
  <2> QED BY <2>1, <2>2 DEF Agreed, Holds, Carries
<1>4. ASSUME NEW w \in Refreshers, Refresh(w) PROVE Agreed(n)'
  BY <1>4, AgreedRefresh
<1>5. ASSUME NEW l \in Reloaders, LoadConfig(l) PROVE Agreed(n)'
  BY <1>5, AgreedLoad
<1>6. CASE ClearEnrollmentToken
  <2>1. UNCHANGED <<installed, ops, cache, work, load>>
    BY <1>6 DEF ClearEnrollmentToken, ClearRead, ClearTruncate, ClearWrite, mapVars
  <2>2. CASE ClearRead
    <3>1. file' = file /\ clearing'.buffer = [file EXCEPT !.token = FALSE]
      BY <2>2 DEF ClearRead, fileVars
    <3>2. clearing'.buffer.ops = file.ops
      BY <3>1 DEF TypeOK, Content
    <3> QED BY <2>1, <3>1, <3>2 DEF Agreed, Holds, Carries
  <2>3. CASE ClearTruncate
    BY <2>1, <2>3 DEF ClearTruncate, Agreed, Holds, Carries, TypeOK, Clearing
  <2>4. CASE ClearWrite
    <3>1. /\ file' = file \/ file' = clearing.buffer
          /\ clearing.at = "write" /\ clearing'.at = "done"
      BY <2>4 DEF ClearWrite, Save
    <3> QED BY <2>1, <3>1 DEF Agreed, Holds, Carries
  <2> QED BY <1>6, <2>2, <2>3, <2>4 DEF ClearEnrollmentToken
<1>7. CASE UNCHANGED vars
  BY <1>7 DEF vars, fileVars, mapVars, Agreed, Holds, Carries
<1> QED BY <1>1, <1>2, <1>3, <1>4, <1>5, <1>6, <1>7 DEF Next

(* Detections, write-backs, loads and ClearEnrollmentToken never break the *)
(* agreement on a version: once whoever knows or is about to write one has *)
(* the installed one, what is reported stays true until a run updates it   *)
(* or the operator saves the file (the safety part of VersionsSettle).     *)
THEOREM AgreementStays ==
  Spec => /\ [](\A n \in Names : Agreed(n) => Settled(n))
          /\ [][\A n \in Names :
                 Agreed(n) /\ installed'[n] = installed[n] /\ edits' = edits => Agreed(n)']_vars
<1>1. TypeOK => \A n \in Names : Agreed(n) => Settled(n)
  BY AgreedSettled
<1>2. TypeOK /\ [Next]_vars =>
        [\A n \in Names :
           Agreed(n) /\ installed'[n] = installed[n] /\ edits' = edits => Agreed(n)']_vars
  BY AgreedStep
<1> QED BY <1>1, <1>2, ConfigTypes, PTL DEF Spec

=============================================================================
