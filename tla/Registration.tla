----------------------------- MODULE Registration -----------------------------
(***************************************************************************)
(* How the runner becomes known to the Docked server and stays so: the     *)
(* enrollment goroutine (internal/enrollment/enrollment.go), the heartbeat *)
(* goroutine (internal/heartbeat/heartbeat.go), both started once by main, *)
(* the .registered marker and the token in the config file, which outlive  *)
(* the process, and the server, as far as its answers are told apart here. *)
(*                                                                         *)
(* docked_url is set.  A request, or its answer, may be lost; a register   *)
(* request that the client gave up on may reach the server later; a proxy  *)
(* may answer 401 in the server's place.                                   *)
(***************************************************************************)
EXTENDS Integers

CONSTANTS
  MaxAttempts,   \* maxEnrollRetries
  MaxCrashes,    \* bound: how often the service stops or the host goes down
  MaxLosses,     \* bound: how often the server loses what it knows of the runner,
                 \* or a proxy refuses a heartbeat
  MaxFaults      \* bound: how many local steps fail

ASSUME RegistrationAssumption ==
  /\ MaxAttempts \in Nat \ {0}
  /\ MaxCrashes \in Nat
  /\ MaxLosses \in Nat
  /\ MaxFaults \in Nat

VARIABLES
  token,      \* the server: the enrollment token is "valid" or "spent"
  known,      \* the server: "none", a runner of the "name", or "ours": also its key
  late,       \* a register request is on its way that nobody waits for
  up,         \* the service runs
  config,     \* the config file: with the "token", "cleared", or "empty"
  marker,     \* the file .registered exists
  enroller,   \* where enrollment.Run stands
  attempt,    \* its loop counter
  beat,       \* where the heartbeat stands: "boot" before heartbeat.Start
  burst,      \* heartbeats sent since the last pause
  crashes, losses, faults

serverVars == <<token, known, late>>
diskVars == <<config, marker>>
enrollVars == <<enroller, attempt>>
beatVars == <<beat, burst>>
bounds == <<crashes, losses, faults>>
vars == <<serverVars, up, diskVars, enrollVars, beatVars, bounds>>

TypeOK ==
  /\ token \in {"valid", "spent"}
  /\ known \in {"none", "name", "ours"}
  /\ late \in BOOLEAN /\ up \in BOOLEAN
  /\ config \in {"token", "cleared", "empty"} /\ marker \in BOOLEAN
  /\ enroller \in {"off", "check", "post", "sleep", "mark", "clear", "over"}
  /\ attempt \in 1..MaxAttempts
  /\ beat \in {"off", "boot", "pause", "send", "reenroll"}
  /\ burst \in Nat
  /\ crashes \in 0..MaxCrashes
  /\ losses \in 0..MaxLosses
  /\ faults \in 0..MaxFaults

(* A freshly installed runner, configured with a token. *)
Init ==
  /\ token = "valid" /\ known = "none" /\ late = FALSE
  /\ up = FALSE
  /\ config = "token" /\ marker = FALSE
  /\ enroller = "off" /\ attempt = 1
  /\ beat = "off" /\ burst = 0
  /\ crashes = 0 /\ losses = 0 /\ faults = 0

Fault == faults < MaxFaults /\ faults' = faults + 1

-----------------------------------------------------------------------------
(***************************************************************************)
(* The process: main starts the goroutine of enrollment first and the      *)
(* heartbeat last, which an empty docked_url in the configuration it has   *)
(* loaded disables.  The key it generated before is gone if it could not   *)
(* be persisted.                                                           *)
(***************************************************************************)
Boot ==
  /\ ~up
  /\ up' = TRUE
  /\ enroller' = "check"
  /\ beat' = IF config = "empty" THEN "off" ELSE "boot"
  /\ \/ UNCHANGED <<known, faults>>
     \/ known = "ours" /\ known' = "name" /\ Fault
  /\ UNCHANGED <<token, late, diskVars, attempt, burst, crashes, losses>>

(* os.WriteFile, cut short after the truncation, leaves an empty file.     *)
CutShort == config' \in {config, "empty"}

(* The process ends, or is ended, anywhere: its request may still get to   *)
(* the server, the file it writes may be truncated.                        *)
Crash ==
  /\ up
  /\ crashes < MaxCrashes
  /\ crashes' = crashes + 1
  /\ up' = FALSE
  /\ enroller' = "off" /\ attempt' = 1
  /\ beat' = "off" /\ burst' = 0
  /\ UNCHANGED late \/ (enroller = "post" /\ late' = TRUE)
  /\ UNCHANGED known \/ (beat = "reenroll" /\ known = "name" /\ known' = "ours")
  /\ UNCHANGED config \/ (enroller = "clear" /\ CutShort)
  /\ UNCHANGED <<token, marker, losses, faults>>

-----------------------------------------------------------------------------
(***************************************************************************)
(* The Docked server.                                                      *)
(***************************************************************************)
(* It takes a token once. *)
TakeToken ==
  /\ token' = "spent"
  /\ known' = IF token = "valid" THEN "ours" ELSE known

LateRegister ==
  /\ late
  /\ late' = FALSE
  /\ TakeToken
  /\ UNCHANGED <<up, diskVars, enrollVars, beatVars, bounds>>

(* Its database is rebuilt, with the runner's name in it or without. *)
Forget ==
  /\ losses < MaxLosses
  /\ losses' = losses + 1
  /\ \/ known = "ours" /\ known' = "name"
     \/ known # "none" /\ known' = "none"
  /\ UNCHANGED <<token, late, up, diskVars, enrollVars, beatVars, crashes, faults>>

-----------------------------------------------------------------------------
(***************************************************************************)
(* enrollment.Run.                                                         *)
(***************************************************************************)
(* It ends at once if there is nothing to do; or if BuildRunnerURL fails.  *)
EnrollCheck ==
  /\ enroller = "check"
  /\ \/ /\ enroller' = IF marker \/ config # "token" THEN "over" ELSE "post"
        /\ UNCHANGED faults
     \/ /\ ~marker /\ config = "token"
        /\ enroller' = "over"
        /\ Fault
  /\ UNCHANGED <<serverVars, up, diskVars, attempt, beatVars, crashes, losses>>

(* The server answers: 201, or 401, which is not tried again. *)
RegisterAnswered ==
  /\ enroller = "post"
  /\ TakeToken
  /\ enroller' = IF token = "valid" THEN "mark" ELSE "over"
  /\ UNCHANGED <<late, up, diskVars, attempt, beatVars, bounds>>

(* Mutated: the test against maxEnrollRetries comes a round too late.      *)
RetryOnceMore ==
  IF attempt <= MaxAttempts THEN enroller' = "sleep" /\ attempt' = attempt + 1
  ELSE enroller' = "over" /\ UNCHANGED attempt

(* Mutated: giving up clears the token too. *)
RetryThenClear ==
  \/ attempt < MaxAttempts /\ enroller' = "sleep" /\ attempt' = attempt + 1
  \/ attempt = MaxAttempts /\ enroller' = "clear" /\ UNCHANGED attempt

(* Mutated: any answer of the server ends the loop as a success does. *)
RegisterAnswerIgnored ==
  /\ enroller = "post"
  /\ enroller' = "mark"
  /\ UNCHANGED <<serverVars, up, diskVars, attempt, beatVars, bounds>>

(* A 401 for a token that has expired, or from a proxy. *)
RegisterRefused ==
  /\ enroller = "post"
  /\ enroller' = "over"
  /\ UNCHANGED <<serverVars, up, diskVars, attempt, beatVars, bounds>>

(* A failure other than 401: again, after a while, or that was the last.   *)
Retry ==
  \/ attempt < MaxAttempts /\ enroller' = "sleep" /\ attempt' = attempt + 1
  \/ attempt = MaxAttempts /\ enroller' = "over" /\ UNCHANGED attempt

(* No answer in time, or none that can be decoded: the server has taken    *)
(* the token, or will, or never sees the request.                          *)
RegisterFails ==
  /\ enroller = "post"
  /\ Retry
  /\ \/ TakeToken /\ UNCHANGED late
     \/ late' = TRUE /\ UNCHANGED <<token, known>>
     \/ UNCHANGED serverVars
  /\ UNCHANGED <<up, diskVars, beatVars, bounds>>

SleepEnds ==
  /\ enroller = "sleep"
  /\ enroller' = "post"
  /\ UNCHANGED <<serverVars, up, diskVars, attempt, beatVars, bounds>>

(* A failure of either write is logged and otherwise ignored. *)
WriteMarker ==
  /\ enroller = "mark"
  /\ enroller' = "clear"
  /\ \/ marker' = TRUE /\ UNCHANGED faults
     \/ Fault /\ UNCHANGED marker
  /\ UNCHANGED <<serverVars, up, config, attempt, beatVars, crashes, losses>>

ClearToken ==
  /\ enroller = "clear"
  /\ enroller' = "over"
  /\ \/ config' = (IF config = "empty" THEN "empty" ELSE "cleared") /\ UNCHANGED faults
     \/ Fault /\ CutShort
  /\ UNCHANGED <<serverVars, up, marker, attempt, beatVars, crashes, losses>>

-----------------------------------------------------------------------------
(***************************************************************************)
(* The heartbeat.                                                          *)
(***************************************************************************)
(* Only a runner that is registered by now begins to send heartbeats.      *)
HeartbeatStart ==
  /\ beat = "boot"
  /\ beat' = IF marker THEN "pause" ELSE "off"
  /\ UNCHANGED <<serverVars, up, diskVars, enrollVars, burst, bounds>>

PauseEnds ==
  /\ beat = "pause"
  /\ beat' = "send" /\ burst' = 0
  /\ UNCHANGED <<serverVars, up, diskVars, enrollVars, bounds>>

(* Mutated: 401 is a failure like others. *)
HeartbeatNeverFatal ==
  /\ beat = "send"
  /\ beat' = "pause"
  /\ burst' = burst + 1
  /\ UNCHANGED <<serverVars, up, diskVars, enrollVars, bounds>>

(* 200, or 401 when the server does not know the key.                      *)
HeartbeatAnswered ==
  /\ beat = "send"
  /\ beat' = IF known = "ours" THEN "pause" ELSE "reenroll"
  /\ burst' = burst + 1
  /\ UNCHANGED <<serverVars, up, diskVars, enrollVars, bounds>>

HeartbeatRefused ==
  /\ beat = "send"
  /\ losses < MaxLosses
  /\ losses' = losses + 1
  /\ beat' = "reenroll"
  /\ burst' = burst + 1
  /\ UNCHANGED <<serverVars, up, diskVars, enrollVars, crashes, faults>>

HeartbeatFails ==
  /\ beat = "send"
  /\ beat' = "pause"
  /\ burst' = burst + 1
  /\ UNCHANGED <<serverVars, up, diskVars, enrollVars, bounds>>

(* The server finds the runner by its name and stores the key; the next    *)
(* heartbeat follows at once.                                              *)
ReEnrolled ==
  /\ beat = "reenroll"
  /\ known # "none"
  /\ known' = "ours"
  /\ beat' = "send"
  /\ UNCHANGED <<token, late, up, diskVars, enrollVars, burst, bounds>>

(* Mutated: the loop ends, as the comment of fatalError has it; or goes on *)
(* without a pause.                                                        *)
ReEnrollStops ==
  /\ beat = "reenroll"
  /\ beat' = "off"
  /\ UNCHANGED <<serverVars, up, diskVars, enrollVars, burst, bounds>>

ReEnrollHammers ==
  /\ beat = "reenroll"
  /\ beat' = "send"
  /\ UNCHANGED <<serverVars, up, diskVars, enrollVars, burst, bounds>>

(* No such runner, a refusal, no answer; the server may have stored the    *)
(* key all the same.                                                       *)
ReEnrollFails ==
  /\ beat = "reenroll"
  /\ beat' = "pause"
  /\ \/ UNCHANGED known
     \/ known # "none" /\ known' = "ours"
  /\ UNCHANGED <<token, late, up, diskVars, enrollVars, burst, bounds>>

-----------------------------------------------------------------------------
Enroll == \/ EnrollCheck \/ RegisterAnswered \/ RegisterRefused \/ RegisterFails
          \/ SleepEnds \/ WriteMarker \/ ClearToken

Heartbeat == \/ HeartbeatStart \/ PauseEnds \/ HeartbeatAnswered \/ HeartbeatRefused
             \/ HeartbeatFails \/ ReEnrolled \/ ReEnrollFails

Next == Boot \/ Crash \/ LateRegister \/ Forget \/ Enroll \/ Heartbeat

Spec == Init /\ [][Next]_vars

(* The goroutines run, and their timers and timeouts fire; the service     *)
(* manager starts the service; and of all the heartbeats and re-enrollments*)
(* that are sent, not every one gets lost.                                 *)
FairSpec ==
  /\ Spec
  /\ WF_vars(Boot) /\ WF_vars(Enroll) /\ WF_vars(Heartbeat)
  /\ SF_vars(HeartbeatAnswered) /\ SF_vars(ReEnrolled)

-----------------------------------------------------------------------------
(***************************************************************************)
(* Properties.                                                             *)
(***************************************************************************)
(* The marker, which ends enrollment for good, is there only if the server *)
(* did register the runner, whatever crashes, retries and late requests do *)
(* ("Mark as registered so we never retry").                               *)
MarkerIsTrue == marker => known # "none" \/ losses > 0

(* A token that the server still takes is not removed from the file, and   *)
(* a new start can use it.                                                 *)
ValidTokenStays == token = "valid" => config = "token"

(* However often it is refused, the heartbeat goes on, until the service   *)
(* stops (heartbeat.go:83 "Never give up").                                *)
HeartbeatGoesOn == beat \in {"pause", "reenroll"} ~> (beat = "send" \/ ~up)

(* A server that has lost the key of the runner, but not its name, gets    *)
(* the key again.                                                          *)
KeyIsRestored == beat = "pause" /\ known = "name" ~> (known # "name" \/ ~up)

(* Heartbeats follow each other without a pause only if the server lost    *)
(* the key, or a proxy refused, in between (heartbeat.go:86 "so we don't   *)
(* hammer the server").                                                    *)
HeartbeatsArePaced == burst <= 2 + losses

(* Once the runner is enrolled its heartbeat starts (heartbeat.go:59       *)
(* "heartbeat disabled (will start after enrollment)").  The code does not *)
(* do this; no run has it.                                                 *)
EnrolledBeats == (up /\ marker) ~> (beat \in {"pause", "send", "reenroll"} \/ ~up)

=============================================================================
