---------------------------- MODULE SystemUpdates ----------------------------
(***************************************************************************)
(* The count of packages that wait for an update, for one app: the checks  *)
(* (checkSystemUpdates and what starts them, internal/operations/          *)
(* runner.go), the apt checker and the tracker (sysupdate.go), the cache   *)
(* entry they publish and the refresh interval (internal/config/           *)
(* config.go).                                                             *)
(*                                                                         *)
(* Time passes in units that are as long as a check's time limits allow it *)
(* to be (or a fraction of that).  The host's packages are three           *)
(* releases, of which none is later than the one before: what the mirror   *)
(* has, what the local index knows, and what is installed; the number that *)
(* a check counts is the distance of the last two.                         *)
(***************************************************************************)
EXTENDS Integers, FiniteSets

CONSTANTS
  Checkers,    \* the goroutines that check
  Ticker,      \* the one of them that backgroundRefresh is
  Intervals,   \* what refresh_interval may be set to; 0: unset, or not valid
  DefaultRefresh, MinRefresh,  \* defaultSysUpdateRefresh, minSysUpdateRefresh
  MaxCheck,    \* how long a check lasts: aptUpdateTimeout + aptSimulateTimeout
  Longest,     \* bound: how far the age of the last attempt is told
  Absent,      \* no entry in the cache
  MaxReleases, \* bound: the releases are 0..MaxReleases
  MaxRuns,     \* bound: how many operations of the app succeed
  MaxReloads,  \* bound: how often the configuration is loaded
  MaxFaults    \* bound: how many checks fail

ASSUME UpdatesAssumption ==
  /\ Ticker \in Checkers
  /\ Intervals \subseteq Nat
  /\ DefaultRefresh \in Nat
  /\ MinRefresh \in Nat
  /\ MaxCheck \in Nat
  /\ MaxCheck < MinRefresh
  /\ MinRefresh <= DefaultRefresh
  /\ Absent \notin Nat
  /\ MaxReleases \in Nat
  /\ MaxRuns \in Nat
  /\ MaxReloads \in Nat
  /\ MaxFaults \in Nat

(* Only the built-in check has an interval. *)
Configs == [check : {"apt"}, refresh : Intervals] \cup
           [check : {"command", "none"}, refresh : {0}]

VARIABLES
  config,     \* the app's system_updates or system_update_check, in r.apps
  reloading,  \* between Reload and ReloadApps
  warms,      \* goroutines of warmVersionCache that have still to begin
  posts,      \* goroutines of finished runs that have still to check
  job,        \* what each checker does
  age,        \* how long ago lastAttempt was; at Longest: at least that, or never
  count,      \* the last good count, if hasCount
  hasCount,
  cache,      \* the entry "__sysupdate:<app>", Absent also when it has expired
  mirror, index, installed,  \* the host's packages
  runs, reloads, faults  \* how many there were

tracker == <<age, count, hasCount>>
host == <<mirror, index, installed>>
started == <<config, reloading, warms, posts, runs, reloads>>
vars == <<started, faults, job, tracker, cache, host>>

(* Mutated: an interval below the minimum is taken as it is. *)
RefreshUnclamped(refresh) == IF refresh = 0 THEN DefaultRefresh ELSE refresh

RefreshDuration(refresh) ==
  CASE refresh = 0          -> DefaultRefresh
    [] refresh \in 1..MinRefresh -> MinRefresh
    [] OTHER                -> refresh

(* Ages beyond the longest interval make no difference. *)
ASSUME LongestAssumption ==
  /\ Longest \in Nat
  /\ \A r \in Intervals : RefreshDuration(r) <= Longest

Upgradable == index - installed

Stages == {"idle", "acquire", "update", "simulate", "command", "record",
           "publish", "republish", "set"}
Job == [stage : Stages, forced : BOOLEAN, refresh : Intervals \cup {0},
        spent : 0..MaxCheck, result : 0..MaxReleases]
Idle == [stage |-> "idle", forced |-> FALSE, refresh |-> 0, spent |-> 0, result |-> 0]

TypeOK ==
  /\ config \in Configs
  /\ reloading \in BOOLEAN
  /\ warms \in Nat
  /\ posts \in 0..MaxRuns
  /\ job \in [Checkers -> Job]
  /\ age \in 0..Longest
  /\ count \in 0..MaxReleases
  /\ hasCount \in BOOLEAN
  /\ cache \in 0..MaxReleases \cup {Absent}
  /\ mirror \in 0..MaxReleases
  /\ index \in 0..mirror
  /\ installed \in 0..index
  /\ runs \in 0..MaxRuns
  /\ reloads \in 0..MaxReloads
  /\ faults \in 0..MaxFaults

(* NewRunner starts the first warm. *)
Init ==
  /\ config \in Configs
  /\ reloading = FALSE
  /\ warms = 1
  /\ posts = 0
  /\ job = [c \in Checkers |-> Idle]
  /\ age = Longest
  /\ count = 0
  /\ hasCount = FALSE
  /\ cache = Absent
  /\ mirror \in 0..MaxReleases
  /\ index \in 0..mirror
  /\ installed = 0
  /\ runs = 0
  /\ reloads = 0
  /\ faults = 0

-----------------------------------------------------------------------------
(***************************************************************************)
(* The host, the clock, and what starts checks.                            *)
(***************************************************************************)
Release ==
  /\ mirror < MaxReleases
  /\ mirror' = mirror + 1
  /\ UNCHANGED <<faults, started, job, tracker, cache, index, installed>>

(* An operation of the app, or the administrator, installs packages, with  *)
(* or without looking for new ones first.                                  *)
Install ==
  /\ index' \in {index, mirror}
  /\ installed' \in installed..index'
  /\ UNCHANGED mirror

(* RunApp: exit code 0 starts the goroutine that checks again. *)
OperationEnds ==
  /\ runs < MaxRuns
  /\ Install
  /\ runs' = runs + 1
  /\ posts' = posts + 1
  /\ UNCHANGED <<faults, config, reloading, warms, reloads, job, tracker, cache>>

Reload ==
  /\ ~reloading
  /\ reloads < MaxReloads
  /\ reloading' = TRUE
  /\ reloads' = reloads + 1
  /\ warms' = warms + 1
  /\ UNCHANGED <<faults, config, posts, runs, job, tracker, cache, host>>

ReloadApps ==
  /\ reloading
  /\ reloading' = FALSE
  /\ config' \in Configs
  /\ warms' = warms + 1
  /\ UNCHANGED <<faults, posts, runs, reloads, job, tracker, cache, host>>

Apt(c) == job[c].stage \in {"update", "simulate"}

(* Mutated: apt-get has no time limit. *)
TimeWithoutLimit ==
  /\ age' = IF age < Longest THEN age + 1 ELSE age
  /\ job' = [c \in Checkers |-> IF Apt(c) THEN [job[c] EXCEPT !.spent = @ + 1]
                                ELSE job[c]]
  /\ age' # age \/ job' # job
  /\ UNCHANGED <<faults, started, count, hasCount, cache, host>>

(* Both of a check's commands have time limits. *)
TimePasses ==
  /\ \A c \in Checkers : Apt(c) => job[c].spent < MaxCheck
  /\ age' = IF age < Longest THEN age + 1 ELSE age
  /\ job' = [c \in Checkers |-> IF Apt(c) THEN [job[c] EXCEPT !.spent = @ + 1]
                                ELSE job[c]]
  /\ age' # age \/ job' # job
  /\ UNCHANGED <<faults, started, count, hasCount, cache, host>>

Expire ==
  /\ cache # Absent
  /\ cache' = Absent
  /\ UNCHANGED <<faults, started, job, tracker, host>>

-----------------------------------------------------------------------------
(***************************************************************************)
(* A check, by the stages of checkSystemUpdates.  A goroutine works on the *)
(* copy of the configuration that it made when it began.                   *)
(***************************************************************************)
Goto(c, from, to) == job[c].stage = from /\ job' = [job EXCEPT ![c].stage = to]
End(c) == job' = [job EXCEPT ![c] = Idle]

Begin(c, forced) ==
  /\ job[c].stage = "idle"
  /\ config.check # "none"
  /\ job' = [job EXCEPT ![c].stage = IF config.check = "apt" THEN "acquire" ELSE "command",
                        ![c].forced = forced, ![c].refresh = config.refresh]

(* The interval is looked at once. *)
Acquired(c, to) ==
  /\ job[c].stage = "acquire"
  /\ job' = [job EXCEPT ![c].stage = to, ![c].refresh = 0]

(* Started by the ticker, a reload or NewRunner. *)
Warm(c) ==
  /\ IF c = Ticker THEN UNCHANGED warms ELSE warms > 0 /\ warms' = warms - 1
  /\ \/ Begin(c, FALSE)
     \/ c # Ticker /\ config.check = "none" /\ UNCHANGED job
  /\ UNCHANGED <<faults, config, reloading, posts, runs, reloads, tracker, cache, host>>

AfterRun(c) ==
  /\ c # Ticker
  /\ posts > 0
  /\ posts' = posts - 1
  /\ \/ Begin(c, TRUE)
     \/ config.check = "none" /\ UNCHANGED job
  /\ UNCHANGED <<faults, config, reloading, warms, runs, reloads, tracker, cache, host>>

TryAcquire(c) ==
  /\ ~job[c].forced
  /\ age >= RefreshDuration(job[c].refresh)
  /\ Acquired(c, "update")
  /\ age' = 0
  /\ UNCHANGED <<faults, started, count, hasCount, cache, host>>

(* Mutated: every attempt is noted, also one that is not yet due. *)
NotYetDueNoted(c) ==
  /\ ~job[c].forced
  /\ age < RefreshDuration(job[c].refresh)
  /\ Acquired(c, "republish")
  /\ age' = 0
  /\ UNCHANGED <<faults, started, count, hasCount, cache, host>>

NotYetDue(c) ==
  /\ ~job[c].forced
  /\ age < RefreshDuration(job[c].refresh)
  /\ Acquired(c, "republish")
  /\ UNCHANGED <<faults, started, tracker, cache, host>>

MarkAttempt(c) ==
  /\ job[c].forced
  /\ Acquired(c, "update")
  /\ age' = 0
  /\ UNCHANGED <<faults, started, count, hasCount, cache, host>>

(* apt-get update; apt's own lock keeps two of them apart. *)
AptUpdate(c) ==
  /\ Goto(c, "update", "simulate")
  /\ index' = mirror
  /\ UNCHANGED <<faults, started, tracker, cache, mirror, installed>>

Counted(c, from) ==
  /\ job[c].stage = from
  /\ job' = [job EXCEPT ![c].stage = "record", ![c].result = Upgradable, ![c].spent = 0]
  /\ UNCHANGED <<faults, started, tracker, cache, host>>

AptSimulate(c) == Counted(c, "simulate")
RunCommand(c) == Counted(c, "command")

(* No root, no network, apt's lock taken, a time limit, no number printed. *)
(* recordError keeps the error's text and leaves the count alone.          *)
CheckFails(c) ==
  /\ job[c].stage \in {"update", "simulate", "command"}
  /\ faults < MaxFaults
  /\ faults' = faults + 1
  /\ job' = [job EXCEPT ![c] = IF Apt(c) THEN [@ EXCEPT !.stage = "republish", !.spent = 0]
                               ELSE Idle]
  /\ UNCHANGED <<started, tracker, cache, host>>

RecordSuccess(c) ==
  /\ Goto(c, "record", "publish")
  /\ count' = job[c].result
  /\ hasCount' = TRUE
  /\ UNCHANGED <<faults, started, age, cache, host>>

Publish(c) ==
  /\ job[c].stage = "publish"
  /\ cache' = job[c].result
  /\ End(c)
  /\ UNCHANGED <<faults, started, tracker, host>>

(* republishSystemUpdateCount reads the tracker and then sets the entry.   *)
Republish(c) ==
  /\ job[c].stage = "republish"
  /\ IF hasCount
     THEN job' = [job EXCEPT ![c].stage = "set", ![c].result = count]
     ELSE End(c)
  /\ UNCHANGED <<faults, started, tracker, cache, host>>

SetAgain(c) ==
  /\ job[c].stage = "set"
  /\ cache' = job[c].result
  /\ End(c)
  /\ UNCHANGED <<faults, started, tracker, host>>

(* SystemUpdateCount *)
Reported == IF hasCount THEN count
            ELSE IF cache = Absent THEN 0 ELSE cache

-----------------------------------------------------------------------------
Step(c) ==
  \/ TryAcquire(c) \/ NotYetDue(c) \/ MarkAttempt(c)
  \/ AptUpdate(c) \/ AptSimulate(c) \/ RunCommand(c) \/ CheckFails(c)
  \/ RecordSuccess(c) \/ Publish(c) \/ Republish(c) \/ SetAgain(c)

Next ==
  \/ \E c \in Checkers : Warm(c) \/ AfterRun(c) \/ Step(c)
  \/ Release \/ OperationEnds \/ Reload \/ ReloadApps \/ TimePasses \/ Expire

Spec == Init /\ [][Next]_vars

(* Time passes, the ticker ticks and goroutines run. *)
FairSpec ==
  /\ Spec
  /\ WF_vars(TimePasses)
  /\ WF_vars(Warm(Ticker))
  /\ \A c \in Checkers : WF_vars(Step(c))

-----------------------------------------------------------------------------
(***************************************************************************)
(* Properties.                                                             *)
(***************************************************************************)
(* Two warms never have apt at work at once, nor does a warm set it to     *)
(* work while it works for a run (sysupdate.go:132 "prevents two           *)
(* concurrent warms from launching duplicate apt runs"): a check is over   *)
(* before the shortest interval is.                                        *)
NoDuplicateRuns ==
  \A c, d \in Checkers :
    c # d /\ Apt(c) /\ Apt(d) /\ ~job[c].forced =>
      job[d].forced /\ job[d].spent <= job[c].spent

(* When the host and the configuration no longer change, the count that is *)
(* reported comes to be that of the host: with the built-in check of all   *)
(* that the mirror has, with a command of what the local index knows.      *)
CountSettles ==
  /\ <>[](config.check = "apt") => <>[](Reported = mirror - installed)
  /\ <>[](config.check = "command") => <>[](Reported = Upgradable)

=============================================================================
