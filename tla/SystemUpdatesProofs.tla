------------------------- MODULE SystemUpdatesProofs -------------------------
(***************************************************************************)
(* Theorems about SystemUpdates, for any checkers, intervals and limits.   *)
(***************************************************************************)
EXTENDS SystemUpdates, TLAPS

USE DEF tracker, host, started

(***************************************************************************)
(* The inductive invariant: a job that is not at apt has spent no time, no *)
(* apt run is younger than the last attempt (each notes one as it begins), *)
(* and a run that is not forced shares apt only with forced ones that      *)
(* began after it.                                                         *)
(***************************************************************************)
PostsCounted == posts <= runs
FreshUnlessApt == \A c \in Checkers : ~Apt(c) => job[c].spent = 0
AttemptNoted == \A c \in Checkers : Apt(c) => age <= job[c].spent

UpdatesInv ==
  TypeOK /\ PostsCounted /\ FreshUnlessApt /\ AttemptNoted /\ NoDuplicateRuns

(* No check lasts as long as any interval that can be configured.          *)
LEMMA RefreshIsLong ==
  ASSUME NEW r \in Intervals \cup {0}
  PROVE  RefreshDuration(r) \in Nat /\ RefreshDuration(r) > MaxCheck
BY UpdatesAssumption DEF RefreshDuration

LEMMA UpgradableType == TypeOK => Upgradable \in 0..MaxReleases
BY UpdatesAssumption DEF TypeOK, Upgradable

(***************************************************************************)
(* What a step does to the jobs.  Only that of the checker that takes it   *)
(* changes: most steps leave it calm, and an apt run begins with a note of *)
(* the attempt.                                                            *)
(***************************************************************************)
Calm(k) == k.stage \notin {"update", "simulate"} /\ k.spent = 0
Calmed(c) == \E k \in Job : Calm(k) /\ job' = [job EXCEPT ![c] = k]

LEMMA BeginStep ==
  ASSUME TypeOK, FreshUnlessApt, NEW c \in Checkers, NEW forced \in BOOLEAN, Begin(c, forced)
  PROVE  Calmed(c)
<1>. DEFINE k == [job[c] EXCEPT !.stage = IF config.check = "apt" THEN "acquire" ELSE "command",
                                !.forced = forced, !.refresh = config.refresh]
<1>1. job \in [Checkers -> Job] /\ config \in Configs
  BY DEF TypeOK
<1>2. job[c] \in Job /\ job[c].spent = 0 /\ config.refresh \in Intervals \cup {0}
  BY <1>1 DEF Begin, FreshUnlessApt, Apt, Configs
<1>3. k \in Job /\ Calm(k)
  BY <1>2 DEF Job, Stages, Calm
<1>4. job' = [job EXCEPT ![c] = k]
  BY <1>1 DEF Begin
<1>. QED
  BY <1>3, <1>4 DEF Calmed

LEMMA IdleCalm == Idle \in Job /\ Calm(Idle)
BY UpdatesAssumption DEF Idle, Job, Stages, Calm

LEMMA StepCalms ==
  ASSUME TypeOK, FreshUnlessApt, NEW c \in Checkers,
         \/ NotYetDue(c) \/ AptSimulate(c) \/ RunCommand(c) \/ CheckFails(c)
         \/ RecordSuccess(c) \/ Publish(c) \/ Republish(c) \/ SetAgain(c)
  PROVE  Calmed(c) /\ age' = age
<1>0. /\ job \in [Checkers -> Job] /\ job[c] \in Job /\ count \in 0..MaxReleases
      /\ Upgradable \in 0..MaxReleases /\ 0 \in 0..MaxCheck
      /\ ~Apt(c) => job[c].spent = 0
  BY UpgradableType, UpdatesAssumption DEF TypeOK, FreshUnlessApt
<1>1. CASE NotYetDue(c)
  <2>. DEFINE k == [job[c] EXCEPT !.stage = "republish", !.refresh = 0]
  <2>1. k \in Job /\ Calm(k) /\ job' = [job EXCEPT ![c] = k]
    BY <1>0, <1>1 DEF NotYetDue, Acquired, Job, Stages, Calm, Apt
  <2>. QED
    BY <1>1, <2>1 DEF NotYetDue, Calmed
<1>2. CASE AptSimulate(c) \/ RunCommand(c)
  <2>. DEFINE k == [job[c] EXCEPT !.stage = "record", !.result = Upgradable, !.spent = 0]
  <2>1. k \in Job /\ Calm(k) /\ job' = [job EXCEPT ![c] = k]
    BY <1>0, <1>2 DEF AptSimulate, RunCommand, Counted, Job, Stages, Calm
  <2>. QED
    BY <1>2, <2>1 DEF AptSimulate, RunCommand, Counted, Calmed
<1>3. CASE CheckFails(c)
  <2>. DEFINE k == IF Apt(c) THEN [job[c] EXCEPT !.stage = "republish", !.spent = 0] ELSE Idle
  <2>1. k \in Job /\ Calm(k)
    BY <1>0, IdleCalm DEF Job, Stages, Calm
  <2>2. job' = [job EXCEPT ![c] = k]
    BY <1>0, <1>3 DEF CheckFails
  <2>. QED
    BY <1>3, <2>1, <2>2 DEF CheckFails, Calmed
<1>4. CASE RecordSuccess(c)
  <2>. DEFINE k == [job[c] EXCEPT !.stage = "publish"]
  <2>1. k \in Job /\ Calm(k) /\ job' = [job EXCEPT ![c] = k]
    BY <1>0, <1>4 DEF RecordSuccess, Goto, Job, Stages, Calm, Apt
  <2>. QED
    BY <1>4, <2>1 DEF RecordSuccess, Calmed
<1>5. CASE Publish(c) \/ SetAgain(c)
  BY <1>5, IdleCalm DEF Publish, SetAgain, End, Calmed
<1>6. CASE Republish(c)
  <2>. DEFINE k == IF hasCount THEN [job[c] EXCEPT !.stage = "set", !.result = count] ELSE Idle
  <2>1. k \in Job /\ Calm(k)
    BY <1>0, <1>6, IdleCalm DEF Republish, Job, Stages, Calm, Apt
  <2>2. job' = [job EXCEPT ![c] = k]
    BY <1>0, <1>6 DEF Republish, End
  <2>. QED
    BY <1>6, <2>1, <2>2 DEF Republish, Calmed
<1>. QED
  BY <1>1, <1>2, <1>3, <1>4, <1>5, <1>6

(* A check is started, or there is none to start. *)
LEMMA StartCalms ==
  ASSUME TypeOK, FreshUnlessApt, NEW c \in Checkers, Warm(c) \/ AfterRun(c)
  PROVE  (Calmed(c) \/ job' = job) /\ age' = age
BY BeginStep DEF Warm, AfterRun, Calmed

(* What is marked when apt begins. *)
Began(c) ==
  \E k \in Job :
    /\ k.stage = "update" /\ k.spent = 0 /\ k.forced = job[c].forced
    /\ job' = [job EXCEPT ![c] = k]
    /\ age' = 0

LEMMA AptBegins ==
  ASSUME TypeOK, FreshUnlessApt, NEW c \in Checkers, TryAcquire(c) \/ MarkAttempt(c)
  PROVE  Began(c)
<1>. DEFINE k == [job[c] EXCEPT !.stage = "update", !.refresh = 0]
<1>0. job \in [Checkers -> Job] /\ job[c] \in Job /\ (~Apt(c) => job[c].spent = 0)
  BY DEF TypeOK, FreshUnlessApt
<1>1. /\ k \in Job /\ k.stage = "update" /\ k.spent = 0 /\ k.forced = job[c].forced
  BY <1>0 DEF TryAcquire, MarkAttempt, Acquired, Job, Stages, Apt
<1>2. job' = [job EXCEPT ![c] = k] /\ age' = 0
  BY <1>0 DEF TryAcquire, MarkAttempt, Acquired
<1>. QED
  BY <1>1, <1>2 DEF Began

LEMMA JobStep ==
  ASSUME TypeOK, FreshUnlessApt, [Next]_vars
  PROVE  job' \in [Checkers -> Job]
<1>0. job \in [Checkers -> Job] /\ MaxCheck \in Nat
  BY UpdatesAssumption DEF TypeOK
<1>1. ASSUME NEW c \in Checkers, Warm(c) \/ AfterRun(c) PROVE job' \in [Checkers -> Job]
  BY <1>0, <1>1, StartCalms DEF Calmed
<1>2. ASSUME NEW c \in Checkers, Step(c) PROVE job' \in [Checkers -> Job]
  <2>1. CASE TryAcquire(c) \/ MarkAttempt(c)
    BY <1>0, <2>1, AptBegins DEF Began
  <2>2. CASE AptUpdate(c)
    <3>1. job' = [job EXCEPT ![c].stage = "simulate"]
      BY <2>2 DEF AptUpdate, Goto
    <3>. QED
      BY <1>0, <3>1 DEF Job, Stages
  <2>. QED
    BY <1>0, <1>2, <2>1, <2>2, StepCalms DEF Step, Calmed
<1>3. CASE TimePasses
  <2>1. ASSUME NEW c \in Checkers, Apt(c) PROVE [job[c] EXCEPT !.spent = @ + 1] \in Job
    BY <1>0, <1>3, <2>1 DEF TimePasses, Job
  <2>2. job' = [c \in Checkers |-> IF Apt(c) THEN [job[c] EXCEPT !.spent = @ + 1] ELSE job[c]]
    BY <1>3 DEF TimePasses
  <2>. QED
    BY <1>0, <2>1, <2>2
<1>4. CASE Release \/ OperationEnds \/ Reload \/ ReloadApps \/ Expire \/ UNCHANGED vars
  BY <1>0, <1>4 DEF Release, OperationEnds, Reload, ReloadApps, Expire, vars
<1>. QED
  BY <1>1, <1>2, <1>3, <1>4 DEF Next

LEMMA TypeStep == TypeOK /\ PostsCounted /\ FreshUnlessApt /\ [Next]_vars => TypeOK' /\ PostsCounted'
<1> SUFFICES ASSUME TypeOK, PostsCounted, FreshUnlessApt, [Next]_vars
             PROVE  TypeOK' /\ PostsCounted'
  OBVIOUS
<1>0. /\ job \in [Checkers -> Job] /\ age \in 0..Longest /\ Longest \in Nat
      /\ Upgradable \in 0..MaxReleases
      /\ mirror \in 0..MaxReleases /\ index \in 0..mirror /\ installed \in 0..index
  BY UpgradableType, LongestAssumption DEF TypeOK
<1>j. job' \in [Checkers -> Job]
  BY JobStep
<1> USE UpdatesAssumption DEF PostsCounted
<1>1. ASSUME NEW c \in Checkers, Warm(c) PROVE TypeOK' /\ PostsCounted'
  BY <1>j, <1>1 DEF Warm, TypeOK
<1>2. ASSUME NEW c \in Checkers, AfterRun(c) PROVE TypeOK' /\ PostsCounted'
  BY <1>j, <1>2 DEF AfterRun, TypeOK
<1>3. ASSUME NEW c \in Checkers, TryAcquire(c) \/ MarkAttempt(c) PROVE TypeOK' /\ PostsCounted'
  BY <1>0, <1>j, <1>3 DEF TryAcquire, MarkAttempt, TypeOK
<1>4. ASSUME NEW c \in Checkers, AptUpdate(c) PROVE TypeOK' /\ PostsCounted'
  BY <1>0, <1>j, <1>4 DEF AptUpdate, TypeOK
<1>5. ASSUME NEW c \in Checkers, NotYetDue(c) \/ AptSimulate(c) \/ RunCommand(c) \/ Republish(c)
      PROVE  TypeOK' /\ PostsCounted'
  BY <1>j, <1>5 DEF NotYetDue, AptSimulate, RunCommand, Counted, Republish, TypeOK
<1>6. ASSUME NEW c \in Checkers, CheckFails(c) PROVE TypeOK' /\ PostsCounted'
  BY <1>j, <1>6 DEF CheckFails, TypeOK
<1>7. ASSUME NEW c \in Checkers, RecordSuccess(c) \/ Publish(c) \/ SetAgain(c)
      PROVE  TypeOK' /\ PostsCounted'
  <2>1. job[c].result \in 0..MaxReleases
    BY <1>0 DEF Job
  <2>. QED
    BY <1>j, <1>7, <2>1 DEF RecordSuccess, Publish, SetAgain, TypeOK
<1>8. CASE Release
  BY <1>0, <1>j, <1>8 DEF Release, TypeOK
<1>9. CASE OperationEnds
  BY <1>0, <1>j, <1>9 DEF OperationEnds, Install, TypeOK
<1>10. CASE Reload \/ ReloadApps
  <2>1. reloads' \in 0..MaxReloads /\ warms' \in Nat
    BY <1>10 DEF Reload, ReloadApps, TypeOK
  <2>. QED
    BY <1>j, <1>10, <2>1 DEF Reload, ReloadApps, TypeOK
<1>11. CASE TimePasses
  BY <1>0, <1>j, <1>11 DEF TimePasses, TypeOK
<1>12. CASE Expire \/ UNCHANGED vars
  BY <1>j, <1>12 DEF Expire, vars, TypeOK
<1>. QED
  BY <1>1, <1>2, <1>3, <1>4, <1>5, <1>6, <1>7, <1>8, <1>9, <1>10, <1>11, <1>12 DEF Next, Step

AptInv == FreshUnlessApt /\ AttemptNoted /\ NoDuplicateRuns

(* A step of a check that leaves it outside apt disturbs none of the three. *)
LEMMA CalmKept ==
  ASSUME job \in [Checkers -> Job], AptInv, NEW c \in Checkers, Calmed(c), age' = age
  PROVE  AptInv'
BY DEF AptInv, FreshUnlessApt, AttemptNoted, NoDuplicateRuns, Calmed, Calm, Apt

LEMMA AptInvStep == TypeOK /\ AptInv /\ [Next]_vars => AptInv'
<1> SUFFICES ASSUME TypeOK, AptInv, [Next]_vars PROVE AptInv'
  OBVIOUS
<1>0. job \in [Checkers -> Job] /\ age \in Nat /\ FreshUnlessApt
  BY LongestAssumption DEF TypeOK, AptInv
<1>1. ASSUME UNCHANGED <<job, age>> PROVE AptInv'
  BY <1>1 DEF AptInv, FreshUnlessApt, AttemptNoted, NoDuplicateRuns, Apt
<1>2. ASSUME NEW c \in Checkers, Warm(c) \/ AfterRun(c) PROVE AptInv'
  BY <1>0, <1>1, <1>2, StartCalms, CalmKept
<1>3. ASSUME NEW c \in Checkers, Step(c), ~TryAcquire(c), ~MarkAttempt(c), ~AptUpdate(c) PROVE AptInv'
  BY <1>0, <1>3, StepCalms, CalmKept DEF Step
<1>4. ASSUME NEW c \in Checkers, AptUpdate(c) PROVE AptInv'
  <2>1. /\ Apt(c) /\ age' = age
        /\ job' = [job EXCEPT ![c].stage = "simulate"]
    BY <1>4 DEF AptUpdate, Goto, Apt
  <2>2. \A d \in Checkers : /\ Apt(d)' <=> Apt(d)
                            /\ job'[d].spent = job[d].spent /\ job'[d].forced = job[d].forced
    BY <1>0, <2>1 DEF Apt, Job
  <2>. QED
    BY <2>1, <2>2 DEF AptInv, FreshUnlessApt, AttemptNoted, NoDuplicateRuns
<1>5. ASSUME NEW c \in Checkers, TryAcquire(c) PROVE AptInv'
  <2>1. PICK k \in Job : /\ k.stage = "update" /\ k.spent = 0 /\ k.forced = job[c].forced
                         /\ job' = [job EXCEPT ![c] = k] /\ age' = 0
    BY <1>0, <1>5, AptBegins DEF Began
  <2>2. age > MaxCheck
    <3>1. job[c].refresh \in Intervals \cup {0}
      BY <1>0 DEF Job
    <3>. QED
      <4>. DEFINE due == RefreshDuration(job[c].refresh)
      <4>1. due \in Nat /\ due > MaxCheck /\ age >= due
        BY <1>5, <3>1, RefreshIsLong DEF TryAcquire
      <4>. HIDE DEF due
      <4>. QED
        BY <1>0, <4>1, UpdatesAssumption
  <2>3. \A d \in Checkers : ~Apt(d)
    BY <1>0, <2>2, UpdatesAssumption DEF AptInv, AttemptNoted, Job
  <2>4. \A d \in Checkers \ {c} : ~Apt(d)'
    BY <1>0, <2>1, <2>3 DEF Apt
  <2>5. Apt(c)' /\ job'[c].spent = 0
    BY <1>0, <2>1 DEF Apt
  <2>. QED
    BY <1>0, <2>1, <2>3, <2>4, <2>5 DEF AptInv, FreshUnlessApt, AttemptNoted, NoDuplicateRuns
<1>6. ASSUME NEW c \in Checkers, MarkAttempt(c) PROVE AptInv'
  <2>1. PICK k \in Job : /\ k.stage = "update" /\ k.spent = 0 /\ k.forced = job[c].forced
                         /\ job' = [job EXCEPT ![c] = k] /\ age' = 0
    BY <1>0, <1>6, AptBegins DEF Began
  <2>2. /\ Apt(c)' /\ ~Apt(c) /\ job'[c].spent = 0 /\ job'[c].forced
        /\ \A d \in Checkers \ {c} : /\ Apt(d)' <=> Apt(d)
                                     /\ job'[d] = job[d] /\ job[d].spent \in Nat
    BY <1>0, <1>6, <2>1 DEF Apt, MarkAttempt, Acquired, Job
  <2>. QED
    BY <1>0, <2>1, <2>2 DEF AptInv, FreshUnlessApt, AttemptNoted, NoDuplicateRuns
<1>7. CASE TimePasses
  <2>1. \A d \in Checkers :
          /\ Apt(d)' <=> Apt(d)
          /\ job'[d].forced = job[d].forced
          /\ job[d].spent \in Nat
          /\ job'[d].spent = IF Apt(d) THEN job[d].spent + 1 ELSE job[d].spent
    BY <1>0, <1>7, UpdatesAssumption DEF TimePasses, Apt, Job
  <2>2. age' <= age + 1 /\ age' \in Nat
    BY <1>0, <1>7 DEF TimePasses
  <2>. QED
    BY <1>0, <2>1, <2>2 DEF AptInv, FreshUnlessApt, AttemptNoted, NoDuplicateRuns
<1>8. CASE Release \/ OperationEnds \/ Reload \/ ReloadApps \/ Expire \/ UNCHANGED vars
  BY <1>1, <1>8 DEF Release, OperationEnds, Reload, ReloadApps, Expire, vars
<1>. QED
  BY <1>2, <1>3, <1>4, <1>5, <1>6, <1>7, <1>8 DEF Next

LEMMA UpdatesInit == Init => UpdatesInv
<1> SUFFICES ASSUME Init PROVE UpdatesInv
  OBVIOUS
<1>1. job \in [Checkers -> Job] /\ \A c \in Checkers : ~Apt(c) /\ job[c].spent = 0
  BY IdleCalm DEF Init, Apt, Idle
<1>2. TypeOK
  <2>1. /\ age \in 0..Longest /\ count \in 0..MaxReleases /\ posts \in 0..MaxRuns
        /\ runs \in 0..MaxRuns /\ reloads \in 0..MaxReloads /\ faults \in 0..MaxFaults
    BY UpdatesAssumption, LongestAssumption DEF Init
  <2>2. mirror \in 0..MaxReleases /\ index \in 0..mirror /\ installed \in 0..index
    BY UpdatesAssumption DEF Init
  <2>. QED
    BY <1>1, <2>1, <2>2 DEF Init, TypeOK
<1>. QED
  BY <1>1, <1>2 DEF Init, UpdatesInv, PostsCounted, FreshUnlessApt, AttemptNoted, NoDuplicateRuns

LEMMA UpdatesStep == UpdatesInv /\ [Next]_vars => UpdatesInv'
BY TypeStep, AptInvStep DEF UpdatesInv, AptInv

LEMMA UpdatesHold == Spec => []UpdatesInv
BY UpdatesInit, UpdatesStep, PTL DEF Spec

(* The variables keep to their types: in particular a check is at apt for  *)
(* no longer than its time limits, and counts no more than there is.       *)
THEOREM TypesCorrect == Spec => []TypeOK
<1>1. UpdatesInv => TypeOK
  BY DEF UpdatesInv
<1>. QED
  BY <1>1, UpdatesHold, PTL

(* Two warms never have apt at work at once, nor does a warm set it to     *)
(* work while a run's check does: TryAcquire notes the attempt when it     *)
(* claims it, and no check outlives the shortest interval.                 *)
THEOREM NoDuplicates == Spec => []NoDuplicateRuns
<1>1. UpdatesInv => NoDuplicateRuns
  BY DEF UpdatesInv
<1>. QED
  BY <1>1, UpdatesHold, PTL

(***************************************************************************)
(* A count that is right, with no check about to record another one.  What *)
(* is published or republished late, from an older check, may still reach  *)
(* the cache: SystemUpdateCount asks the tracker first.                    *)
(***************************************************************************)
CountIsRight ==
  /\ hasCount /\ count = Upgradable
  /\ \A c \in Checkers : job[c].stage = "record" => job[c].result = Upgradable

LEMMA OwnStep ==
  ASSUME job \in [Checkers -> Job], NEW c \in Checkers, Step(c), ~TryAcquire(c), ~MarkAttempt(c),
         UNCHANGED host, CountIsRight
  PROVE  /\ \A d \in Checkers \ {c} : job'[d] = job[d]
         /\ job'[c].stage = "record" => job'[c].result = Upgradable
<1>1. CASE NotYetDue(c) \/ AptUpdate(c) \/ AptSimulate(c) \/ RunCommand(c)
  BY <1>1 DEF NotYetDue, Acquired, AptUpdate, Goto, AptSimulate, RunCommand, Counted, Job
<1>2. CASE CheckFails(c)
  BY <1>2 DEF CheckFails, Idle, Job
<1>3. CASE RecordSuccess(c) \/ Publish(c) \/ Republish(c) \/ SetAgain(c)
  BY <1>3 DEF RecordSuccess, Goto, Publish, Republish, SetAgain, End, Idle, Job
<1>. QED
  BY <1>1, <1>2, <1>3 DEF Step

LEMMA RightStep ==
  ASSUME TypeOK, FreshUnlessApt, CountIsRight, [Next]_vars, UNCHANGED host
  PROVE  CountIsRight'
<1>0. job \in [Checkers -> Job] /\ Upgradable' = Upgradable
  BY DEF TypeOK, Upgradable
<1>1. ASSUME NEW c \in Checkers, Step(c) PROVE CountIsRight'
  <2>1. CASE TryAcquire(c) \/ MarkAttempt(c)
    BY <1>0, <2>1 DEF TryAcquire, MarkAttempt, Acquired, CountIsRight, Job
  <2>2. CASE ~TryAcquire(c) /\ ~MarkAttempt(c)
    <3>1. \A d \in Checkers : job'[d].stage = "record" => job'[d].result = Upgradable
      BY <1>0, <1>1, <2>2, OwnStep DEF CountIsRight
    <3>2. hasCount' /\ count' = Upgradable
      BY <1>1, <2>2 DEF Step, NotYetDue, AptUpdate, AptSimulate, RunCommand, Counted, CheckFails,
         RecordSuccess, Goto, Publish, Republish, SetAgain, CountIsRight
    <3>. QED
      BY <1>0, <3>1, <3>2 DEF CountIsRight
  <2>. QED
    BY <2>1, <2>2
<1>2. ASSUME NEW c \in Checkers, Warm(c) \/ AfterRun(c) PROVE CountIsRight'
  <2>1. job' = job \/ Begin(c, FALSE) \/ Begin(c, TRUE)
    BY <1>2 DEF Warm, AfterRun
  <2>2. \A d \in Checkers : job'[d].stage = "record" => job'[d] = job[d]
    BY <1>0, <2>1 DEF Begin, Job
  <2>. QED
    BY <1>0, <1>2, <2>2 DEF Warm, AfterRun, CountIsRight
<1>3. CASE TimePasses
  <2>1. \A d \in Checkers : job'[d].stage = "record" => job'[d] = job[d]
    BY <1>0, <1>3 DEF TimePasses, Apt, Job
  <2>. QED
    BY <1>0, <1>3, <2>1 DEF TimePasses, CountIsRight
<1>4. CASE Release \/ OperationEnds \/ Reload \/ ReloadApps \/ Expire \/ UNCHANGED vars
  BY <1>0, <1>4 DEF Release, OperationEnds, Reload, ReloadApps, Expire, vars, CountIsRight
<1>. QED
  BY <1>1, <1>2, <1>3, <1>4 DEF Next

(* Failing checks, reloads, entries that expire and counts that are        *)
(* republished late never make a right count wrong: it is reported until   *)
(* the host's packages or its index change (the safety part of             *)
(* CountSettles; runner.go:240).                                           *)
THEOREM RightCountStays ==
  Spec => /\ [](CountIsRight => Reported = Upgradable)
          /\ [][CountIsRight /\ UNCHANGED host => CountIsRight']_vars
<1>1. CountIsRight => Reported = Upgradable
  BY DEF CountIsRight, Reported
<1>2. UpdatesInv /\ [Next]_vars => [CountIsRight /\ UNCHANGED host => CountIsRight']_vars
  BY RightStep DEF UpdatesInv
<1>. QED
  BY <1>1, <1>2, UpdatesHold, PTL DEF Spec
=============================================================================
