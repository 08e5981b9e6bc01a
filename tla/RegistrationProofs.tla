-------------------------- MODULE RegistrationProofs --------------------------
(***************************************************************************)
(* Theorems about Registration, for every number of attempts, crashes,     *)
(* losses and faults.                                                      *)
(***************************************************************************)
EXTENDS Registration, TLAPS

USE DEF serverVars, diskVars, enrollVars, beatVars, bounds, Fault

(***************************************************************************)
(* Types.                                                                  *)
(***************************************************************************)
Flags == late \in BOOLEAN /\ up \in BOOLEAN /\ marker \in BOOLEAN

Stages ==
  /\ token \in {"valid", "spent"}
  /\ known \in {"none", "name", "ours"}
  /\ config \in {"token", "cleared", "empty"}
  /\ enroller \in {"off", "check", "post", "sleep", "mark", "clear", "over"}
  /\ attempt \in 1..MaxAttempts
  /\ beat \in {"off", "boot", "pause", "send", "reenroll"}
  /\ burst \in Nat
  /\ crashes \in 0..MaxCrashes
  /\ losses \in 0..MaxLosses
  /\ faults \in 0..MaxFaults

LEMMA FlagsStep == Flags /\ [Next]_vars => Flags'
<1> SUFFICES ASSUME Flags, [Next]_vars PROVE Flags'
  OBVIOUS
<1> USE DEF Flags
<1>1. CASE Boot \/ Crash
  BY <1>1 DEF Boot, Crash
<1>2. CASE LateRegister \/ Forget
  BY <1>2 DEF LateRegister, Forget
<1>3. CASE EnrollCheck \/ SleepEnds \/ WriteMarker \/ ClearToken
  BY <1>3 DEF EnrollCheck, SleepEnds, WriteMarker, ClearToken
<1>4. CASE RegisterAnswered \/ RegisterRefused \/ RegisterFails
  BY <1>4 DEF RegisterAnswered, RegisterRefused, RegisterFails
<1>5. CASE Heartbeat
  BY <1>5 DEF Heartbeat, HeartbeatStart, PauseEnds, HeartbeatAnswered, HeartbeatRefused,
              HeartbeatFails, ReEnrolled, ReEnrollFails
<1>6. CASE UNCHANGED vars
  BY <1>6 DEF vars
<1> QED
  BY <1>1, <1>2, <1>3, <1>4, <1>5, <1>6 DEF Next, Enroll

LEMMA StagesStep == Stages /\ [Next]_vars => Stages'
<1> SUFFICES ASSUME Stages, [Next]_vars PROVE Stages'
  OBVIOUS
<1> USE RegistrationAssumption DEF Stages, TakeToken, CutShort
<1>1. CASE Boot
  BY <1>1 DEF Boot
<1>2. CASE Crash
  BY <1>2 DEF Crash
<1>3. CASE LateRegister \/ Forget
  BY <1>3 DEF LateRegister, Forget
<1>4. CASE EnrollCheck \/ SleepEnds \/ WriteMarker \/ ClearToken
  BY <1>4 DEF EnrollCheck, SleepEnds, WriteMarker, ClearToken
<1>5. CASE RegisterAnswered \/ RegisterRefused
  BY <1>5 DEF RegisterAnswered, RegisterRefused
<1>6. CASE RegisterFails
  <2>1. Retry /\ UNCHANGED <<up, diskVars, beatVars, bounds>>
    BY <1>6 DEF RegisterFails
  <2>2. /\ enroller' \in {"sleep", "over"}
        /\ attempt' \in 1..MaxAttempts
    BY <2>1 DEF Retry
  <2>3. /\ token' \in {"valid", "spent"}
        /\ known' \in {"none", "name", "ours"}
    BY <1>6 DEF RegisterFails
  <2> QED
    BY <2>1, <2>2, <2>3
<1>7. CASE Heartbeat
  BY <1>7 DEF Heartbeat, HeartbeatStart, PauseEnds, HeartbeatAnswered, HeartbeatRefused,
              HeartbeatFails, ReEnrolled, ReEnrollFails
<1>8. CASE UNCHANGED vars
  BY <1>8 DEF vars
<1> QED
  BY <1>1, <1>2, <1>3, <1>4, <1>5, <1>6, <1>7, <1>8 DEF Next, Enroll

(* The variables keep to their types: the retry loop of enrollment ends    *)
(* within maxEnrollRetries attempts.                                       *)
THEOREM TypeCorrect == Spec => []TypeOK
<1>1. Init => Flags
  BY DEF Init, Flags
<1>2. Init => Stages
  BY RegistrationAssumption DEF Init, Stages
<1>3. Flags /\ Stages => TypeOK
  BY DEF Flags, Stages, TypeOK
<1> QED
  BY <1>1, <1>2, <1>3, FlagsStep, StagesStep, PTL DEF Spec

-----------------------------------------------------------------------------
(***************************************************************************)
(* Enrollment: what follows a success on the local side is preceded by     *)
(* one on the server's.                                                    *)
(***************************************************************************)
Registered == token = "spent" /\ (known # "none" \/ losses > 0)

Traces == enroller \in {"mark", "clear"} \/ marker \/ config # "token"

EnrollInv ==
  /\ token = "spent" => Registered
  /\ Traces => Registered

LEMMA EnrollStep == TypeOK /\ EnrollInv /\ [Next]_vars => EnrollInv'
<1> SUFFICES ASSUME TypeOK, EnrollInv, [Next]_vars PROVE EnrollInv'
  OBVIOUS
<1> USE RegistrationAssumption DEF TypeOK, TakeToken, CutShort, EnrollInv, Registered, Traces
<1>1. CASE Boot
  BY <1>1 DEF Boot
<1>2. CASE Crash
  BY <1>2 DEF Crash
<1>3. CASE LateRegister
  BY <1>3 DEF LateRegister
<1>4. CASE Forget
  BY <1>4 DEF Forget
<1>5. CASE EnrollCheck \/ SleepEnds
  BY <1>5 DEF EnrollCheck, SleepEnds
<1>6. CASE WriteMarker \/ ClearToken
  BY <1>6 DEF WriteMarker, ClearToken
<1>7. CASE RegisterAnswered \/ RegisterRefused
  BY <1>7 DEF RegisterAnswered, RegisterRefused
<1>8. CASE RegisterFails
  <2>1. enroller' \in {"sleep", "over"}
    BY <1>8 DEF RegisterFails, Retry
  <2> QED
    BY <1>8, <2>1 DEF RegisterFails
<1>9. CASE Heartbeat
  BY <1>9 DEF Heartbeat, HeartbeatStart, PauseEnds, HeartbeatAnswered, HeartbeatRefused,
              HeartbeatFails, ReEnrolled, ReEnrollFails
<1>10. CASE UNCHANGED vars
  BY <1>10 DEF vars
<1> QED
  BY <1>1, <1>2, <1>3, <1>4, <1>5, <1>6, <1>7, <1>8, <1>9, <1>10 DEF Next, Enroll

LEMMA EnrollHolds == Spec => []EnrollInv
<1>1. Init => EnrollInv
  BY DEF Init, EnrollInv, Traces
<1> QED
  BY <1>1, EnrollStep, TypeCorrect, PTL DEF Spec

(* The marker .registered, which ends enrollment for good, is only written *)
(* for a runner the server did register.                                   *)
THEOREM MarkerHolds == Spec => []MarkerIsTrue
<1>1. EnrollInv => MarkerIsTrue
  BY DEF EnrollInv, Traces, Registered, MarkerIsTrue
<1> QED
  BY <1>1, EnrollHolds, PTL

(* ClearEnrollmentToken never removes a token that is still good.          *)
THEOREM TokenHolds == Spec => []ValidTokenStays
<1>1. EnrollInv => ValidTokenStays
  BY DEF EnrollInv, Traces, Registered, ValidTokenStays
<1> QED
  BY <1>1, EnrollHolds, PTL

-----------------------------------------------------------------------------
(***************************************************************************)
(* The heartbeat: each one of a burst but the last was refused, and each   *)
(* refusal but the first has a loss of its own.                            *)
(***************************************************************************)
PaceInv ==
  /\ ~up => beat = "off"
  /\ beat \in {"off", "boot"} => burst = 0
  /\ beat = "send" => burst <= losses + (IF known = "ours" THEN 1 ELSE 0)
  /\ beat = "reenroll" => burst <= losses + 1
  /\ beat = "pause" => burst <= losses + 2

LEMMA PaceStep == TypeOK /\ PaceInv /\ [Next]_vars => PaceInv'
<1> SUFFICES ASSUME TypeOK, PaceInv, [Next]_vars PROVE PaceInv'
  OBVIOUS
<1> USE RegistrationAssumption DEF TypeOK, PaceInv
<1>1. CASE Boot
  BY <1>1 DEF Boot
<1>2. CASE Crash
  BY <1>2 DEF Crash
<1>3. CASE LateRegister
  BY <1>3 DEF LateRegister, TakeToken
<1>4. CASE Forget
  BY <1>4 DEF Forget
<1>5. CASE Enroll
  <2>1. UNCHANGED <<up, beat, burst, losses>>
    BY <1>5 DEF Enroll, EnrollCheck, RegisterAnswered, RegisterRefused, RegisterFails,
                SleepEnds, WriteMarker, ClearToken
  <2>2. known = "ours" => known' = "ours"
    BY <1>5 DEF Enroll, EnrollCheck, RegisterAnswered, RegisterRefused, RegisterFails,
                SleepEnds, WriteMarker, ClearToken, TakeToken
  <2> QED
    BY <2>1, <2>2
<1>6. CASE HeartbeatStart \/ PauseEnds
  BY <1>6 DEF HeartbeatStart, PauseEnds
<1>7. CASE HeartbeatAnswered \/ HeartbeatRefused \/ HeartbeatFails
  BY <1>7 DEF HeartbeatAnswered, HeartbeatRefused, HeartbeatFails
<1>8. CASE ReEnrolled \/ ReEnrollFails
  BY <1>8 DEF ReEnrolled, ReEnrollFails
<1>9. CASE UNCHANGED vars
  BY <1>9 DEF vars
<1> QED
  BY <1>1, <1>2, <1>3, <1>4, <1>5, <1>6, <1>7, <1>8, <1>9 DEF Next, Heartbeat

(* Without a loss of the key, or a refusal by a proxy, at most two         *)
(* heartbeats follow each other without a pause; each of those adds one.   *)
THEOREM PaceHolds == Spec => []HeartbeatsArePaced
<1>1. Init => PaceInv
  BY DEF Init, PaceInv
<1>2. Spec => []PaceInv
  BY <1>1, PaceStep, TypeCorrect, PTL DEF Spec
<1>3. TypeOK /\ PaceInv => HeartbeatsArePaced
  BY DEF TypeOK, PaceInv, HeartbeatsArePaced
<1> QED
  BY <1>2, <1>3, TypeCorrect, PTL

=============================================================================
