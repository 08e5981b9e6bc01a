------------------------- MODULE OutputStreamProofs -------------------------
(***************************************************************************)
(* Theorems about OutputStream, for any pipes, line widths and limits: the *)
(* types, the order of the events, that the captured output is a merge of  *)
(* the pipes as MergedLog has it, and that truncate keeps the end of it.   *)
(***************************************************************************)
EXTENDS OutputStream, FiniteSetTheorems, TLAPS

(***************************************************************************)
(* The inductive invariant: Reading keeps the drains within what was       *)
(* written, Phases relates the stage of Run to the command and the drains, *)
(* Ending places the last event, and Counted relates what a drain has      *)
(* scanned to what it has sent and stored.                                 *)
(***************************************************************************)
Idle(s) == drain[s] = "scan" /\ taken[s] = 0 /\ written[s] = <<>>

Reading ==
  \A s \in Sources :
    /\ taken[s] <= Len(written[s])
    /\ drain[s] \in {"send", "store"} => taken[s] > 0

(* Why the drain of a pipe may end: nothing more will come, or a line did  *)
(* not fit.                                                                *)
DoneBy(s) ==
  \/ Ended /\ taken[s] = Len(written[s])
  \/ \E i \in 1..Len(written[s]) : written[s][i] > ScanLimit

Phases ==
  /\ run \in {"open", "start"} => command = "none"
  /\ run \in {"drain", "wait", "save"} => command # "none"
  /\ command = "none" => \A s \in Sources : Idle(s)
  /\ \A s \in Sources : drain[s] = "done" => DoneBy(s)
  /\ run \in {"wait", "save"} => \A s \in Sources : drain[s] = "done"
  /\ run = "save" => Ended
  /\ run \in {"answer", "over"} =>
       command = "none" \/ (Ended /\ \A s \in Sources : drain[s] = "done")
  /\ kept # Absent => run \in {"answer", "over"} /\ command # "none"

Ending ==
  /\ \A i \in 1..Len(stream) :
       stream[i].what = "done" => run = "over" /\ i = Len(stream)
  /\ run = "over" => stream # <<>> /\ stream[Len(stream)].what = "done"

Counted ==
  \A s \in Sources :
    /\ Cardinality(LogEvents(s)) = taken[s] - (IF drain[s] = "send" THEN 1 ELSE 0)
    /\ Cardinality(Captured(s)) =
         taken[s] - (IF drain[s] \in {"send", "store"} THEN 1 ELSE 0)
    /\ \A i \in LogEvents(s) : stream[i].at = Cardinality(LogEvents(s) \cap (1..i))

OutputInv == TypeOK /\ Reading /\ Phases /\ Ending /\ Counted

(***************************************************************************)
(* Positions in a sequence, and the output that is kept.                   *)
(***************************************************************************)
LEMMA Positions ==
  ASSUME NEW n \in Nat, NEW P \in SUBSET (1..n)
  PROVE  /\ IsFiniteSet(P)
         /\ Cardinality(P) \in 0..n
         /\ Cardinality(P \cup {n + 1}) = Cardinality(P) + 1
<1>. DEFINE all == 1..n
<1>1. IsFiniteSet(all) /\ Cardinality(all) = n
  BY FS_Interval
<1>2. P \in SUBSET all /\ n + 1 \notin P
  OBVIOUS
<1>3. IsFiniteSet(P) /\ Cardinality(P) <= Cardinality(all)
  <2>. HIDE DEF all
  <2>. QED
    BY <1>1, <1>2, FS_Subset
<1>4. Cardinality(P) \in Nat
  BY <1>3, FS_CardinalityType
<1>5. Cardinality(P \cup {n + 1}) = Cardinality(P) + 1
  BY <1>2, <1>3, FS_AddElement
<1>. HIDE DEF all
<1>. QED
  BY <1>1, <1>3, <1>4, <1>5

LEMMA Subsequence ==
  ASSUME NEW S, NEW s \in Seq(S), NEW m \in 1..Len(s) + 1
  PROVE  SubSeq(s, m, Len(s)) \in Seq(S)
OBVIOUS

LEMMA TruncateType ==
  ASSUME NEW lines \in Seq(Line)
  PROVE  Truncate(lines) \in [marked : BOOLEAN, lines : Seq(Line)]
<1>. DEFINE inside == {i \in 1..Len(lines) :
                         Before(lines, i) > Width(lines) - StoreLimit}
            n == Cardinality(inside)
<1>1. n \in 0..Len(lines)
  <2>1. Len(lines) \in Nat /\ inside \in SUBSET (1..Len(lines))
    OBVIOUS
  <2>. HIDE DEF inside
  <2>. QED
    BY <2>1, Positions
<1>2. SubSeq(lines, Len(lines) - n + 1, Len(lines)) \in Seq(Line)
  <2>1. Len(lines) - n + 1 \in 1..Len(lines) + 1
    <3>. HIDE DEF n
    <3>. QED BY <1>1
  <2>. HIDE DEF n
  <2>. QED BY <2>1, Subsequence
<1>. QED
  BY <1>2 DEF Truncate

USE DEF pipeVars, drainVars, clientVars

(***************************************************************************)
(* Each part of the invariant is kept by every step.                       *)
(***************************************************************************)
LEMMA TypeInit == Init => TypeOK
<1>1. Init => unread \in 0..SocketSize
  BY OutputAssumption DEF Init
<1>. QED
  <2> SUFFICES ASSUME Init PROVE TypeOK
    BY <1>1
  <2>1. written \in [Sources -> Seq(Widths)] /\ taken \in [Sources -> Nat]
    BY DEF Init
  <2>2. drain \in [Sources -> {"scan", "send", "store", "done"}] /\ clash \subseteq Sources
    BY DEF Init
  <2>3. buf \in Seq(Line) /\ stream \in Seq(Event)
    BY DEF Init
  <2>. QED
    BY <1>1, <2>1, <2>2, <2>3 DEF Init, TypeOK

LEMMA SendTypes ==
  ASSUME TypeOK, NEW e \in Event, Send(e)
  PROVE  stream' \in Seq(Event) /\ unread' \in 0..SocketSize /\ gone' \in BOOLEAN
BY OutputAssumption DEF TypeOK, Send

LEMMA TypeStep == TypeOK /\ Reading /\ [Next]_vars => TypeOK'
<1> SUFFICES ASSUME TypeOK, Reading, [Next]_vars PROVE TypeOK'
  OBVIOUS
<1>0. /\ written \in [Sources -> Seq(Widths)] /\ taken \in [Sources -> Nat]
      /\ buf \in Seq(Line) /\ unread \in 0..SocketSize
  BY DEF TypeOK
<1>1. CASE OpenStream \/ StartFails \/ Answer
  <2>1. PICK e \in Event : Send(e)
    BY <1>1 DEF OpenStream, StartFails, Answer, Event
  <2>. QED
    BY <1>1, <2>1, SendTypes DEF OpenStream, StartFails, Answer, TypeOK
<1>2. CASE Start \/ Drained \/ Wait
  BY <1>2 DEF Start, Drained, Wait, TypeOK
<1>3. CASE Save
  <2>1. Truncate(buf) \in [marked : BOOLEAN, lines : Seq(Line)]
    BY <1>0, TruncateType
  <2>. QED
    BY <1>3, <2>1 DEF Save, TypeOK
<1>4. ASSUME NEW s \in Sources, Scan(s) PROVE TypeOK'
  BY <1>4 DEF Scan, TypeOK
<1>5. ASSUME NEW s \in Sources, TooLong(s) \/ EndOfFile(s) PROVE TypeOK'
  BY <1>5 DEF TooLong, EndOfFile, TypeOK
<1>6. ASSUME NEW s \in Sources, SendLine(s) PROVE TypeOK'
  <2>. DEFINE e == [what |-> "log", from |-> s, at |-> taken[s], alone |-> s \notin clash]
  <2>1. taken[s] \in Nat \ {0}
    BY <1>0, <1>6 DEF SendLine, Reading
  <2>2. e \in Event
    BY <2>1 DEF Event
  <2>3. Send(e) /\ drain' = [drain EXCEPT ![s] = "store"] /\ clash' = clash \ {s}
        /\ UNCHANGED <<pipeVars, taken, buf, kept, run>>
    BY <1>6 DEF SendLine
  <2>. HIDE DEF e
  <2>4. stream' \in Seq(Event) /\ unread' \in 0..SocketSize /\ gone' \in BOOLEAN
    BY <2>2, <2>3, SendTypes
  <2>. QED
    BY <2>3, <2>4 DEF TypeOK
<1>7. ASSUME NEW s \in Sources, Store(s) PROVE TypeOK'
  <2>. DEFINE l == [from |-> s, at |-> taken[s], line |-> written[s][taken[s]]]
  <2>1. taken[s] \in Nat \ {0} /\ written[s] \in Seq(Widths) /\ taken[s] <= Len(written[s])
    BY <1>0, <1>7 DEF Store, Reading
  <2>2. l \in Line
    BY <2>1 DEF Line
  <2>3. buf' = Append(buf, l) /\ drain' = [drain EXCEPT ![s] = "scan"]
        /\ UNCHANGED <<pipeVars, taken, clash, kept, run, clientVars>>
    BY <1>7 DEF Store
  <2>. HIDE DEF l
  <2>. QED
    BY <2>2, <2>3 DEF TypeOK
<1>8. ASSUME NEW s \in Sources, NEW width \in Widths, Write(s, width) PROVE TypeOK'
  BY <1>8 DEF Write, TypeOK
<1>9. CASE CommandExits \/ Kill \/ ClientReads \/ ClientLeaves
  <2>1. unread' \in 0..SocketSize
    BY <1>0, <1>9, OutputAssumption DEF CommandExits, Kill, ClientReads, ClientLeaves
  <2>. QED
    BY <1>9, <2>1 DEF CommandExits, Kill, ClientReads, ClientLeaves, TypeOK
<1>10. CASE UNCHANGED vars
  BY <1>10 DEF vars, TypeOK
<1>. QED
  BY <1>1, <1>2, <1>3, <1>4, <1>5, <1>6, <1>7, <1>8, <1>9, <1>10 DEF Next, Body, Drain

LEMMA ReadingStep == TypeOK /\ Reading /\ [Next]_vars => Reading'
<1> SUFFICES ASSUME TypeOK, Reading, [Next]_vars PROVE Reading'
  OBVIOUS
<1>0. /\ written \in [Sources -> Seq(Widths)] /\ taken \in [Sources -> Nat]
      /\ drain \in [Sources -> {"scan", "send", "store", "done"}]
  BY DEF TypeOK
<1>1. CASE Body \/ CommandExits \/ Kill \/ ClientReads \/ ClientLeaves \/ UNCHANGED vars
  BY <1>1 DEF Body, OpenStream, Start, StartFails, Drained, Wait, Save, Answer, CommandExits,
              Kill, ClientReads, ClientLeaves, vars, Reading
<1>2. ASSUME NEW s \in Sources, Scan(s) PROVE Reading'
  BY <1>0, <1>2 DEF Scan, Reading
<1>3. ASSUME NEW s \in Sources, TooLong(s) \/ EndOfFile(s) \/ SendLine(s) \/ Store(s)
      PROVE  Reading'
  BY <1>0, <1>3 DEF TooLong, EndOfFile, SendLine, Store, Reading
<1>4. ASSUME NEW s \in Sources, NEW width \in Widths, Write(s, width) PROVE Reading'
  BY <1>0, <1>4 DEF Write, Reading
<1>. QED
  BY <1>1, <1>2, <1>3, <1>4 DEF Next, Drain

LEMMA PhasesStep == TypeOK /\ Phases /\ [Next]_vars => Phases'
<1> SUFFICES ASSUME TypeOK, Phases, [Next]_vars PROVE Phases'
  OBVIOUS
<1>0. /\ written \in [Sources -> Seq(Widths)] /\ taken \in [Sources -> Nat]
      /\ drain \in [Sources -> {"scan", "send", "store", "done"}]
  BY DEF TypeOK
<1> USE DEF Phases, Idle, DoneBy, Ended
<1>1. CASE OpenStream \/ StartFails \/ Answer
  BY <1>1 DEF OpenStream, StartFails, Answer
<1>2. CASE Start \/ Drained
  BY <1>2 DEF Start, Drained
<1>3. CASE Wait \/ Save
  BY <1>3 DEF Wait, Save
<1>4. ASSUME NEW s \in Sources, Scan(s) PROVE Phases'
  BY <1>0, <1>4 DEF Scan
<1>5. ASSUME NEW s \in Sources, TooLong(s) PROVE Phases'
  <2>1. DoneBy(s)
    <3>. DEFINE next == taken[s] + 1
    <3>1. next \in 1..Len(written[s]) /\ written[s][next] \in Widths
      BY <1>0, <1>5 DEF TooLong
    <3>2. written[s][next] \in Nat /\ ScanLimit \in Nat
      BY <3>1, OutputAssumption
    <3>3. ~(written[s][next] <= ScanLimit)
      BY <1>5 DEF TooLong, Fits
    <3>. QED
      BY <3>1, <3>2, <3>3
  <2>. QED
    BY <1>0, <1>5, <2>1 DEF TooLong
<1>6. ASSUME NEW s \in Sources, EndOfFile(s) PROVE Phases'
  BY <1>0, <1>6 DEF EndOfFile
<1>7. ASSUME NEW s \in Sources, SendLine(s) \/ Store(s) PROVE Phases'
  BY <1>0, <1>7 DEF SendLine, Store
<1>8. ASSUME NEW s \in Sources, NEW width \in Widths, Write(s, width) PROVE Phases'
  <2>1. \A t \in Sources : DoneBy(t) => DoneBy(t)'
    BY <1>0, <1>8 DEF Write
  <2>. QED
    BY <1>0, <1>8, <2>1 DEF Write
<1>9. CASE CommandExits \/ Kill
  BY <1>9 DEF CommandExits, Kill
<1>10. CASE ClientReads \/ ClientLeaves \/ UNCHANGED vars
  BY <1>10 DEF ClientReads, ClientLeaves, vars
<1>. QED
  BY <1>1, <1>2, <1>3, <1>4, <1>5, <1>6, <1>7, <1>8, <1>9, <1>10 DEF Next, Body, Drain

LEMMA EndingStep == TypeOK /\ Phases /\ Ending /\ [Next]_vars => Ending'
<1> SUFFICES ASSUME TypeOK, Phases, Ending, [Next]_vars PROVE Ending'
  OBVIOUS
<1>0. stream \in Seq(Event)
  BY DEF TypeOK
<1> USE DEF Ending
<1>1. CASE OpenStream \/ StartFails \/ Answer
  <2>1. run # "over"
    BY <1>1 DEF OpenStream, StartFails, Answer
  <2>2. PICK e \in Event : stream' = Append(stream, e) /\ (e.what = "done" <=> run' = "over")
    BY <1>1 DEF OpenStream, StartFails, Answer, Send, Event
  <2>. QED
    BY <1>0, <2>1, <2>2
<1>2. CASE Start \/ Drained \/ Wait \/ Save
  BY <1>2 DEF Start, Drained, Wait, Save
<1>3. ASSUME NEW s \in Sources, SendLine(s) PROVE Ending'
  <2>1. run # "over"
    BY <1>3 DEF SendLine, Phases, Idle
  <2>. QED
    BY <1>0, <1>3, <2>1 DEF SendLine, Send
<1>4. ASSUME NEW s \in Sources, Scan(s) \/ TooLong(s) \/ EndOfFile(s) \/ Store(s)
      PROVE  Ending'
  BY <1>4 DEF Scan, TooLong, EndOfFile, Store
<1>5. ASSUME NEW s \in Sources, NEW width \in Widths, Write(s, width) PROVE Ending'
  BY <1>5 DEF Write
<1>6. CASE CommandExits \/ Kill \/ ClientReads \/ ClientLeaves \/ UNCHANGED vars
  BY <1>6 DEF CommandExits, Kill, ClientReads, ClientLeaves, vars
<1>. QED
  BY <1>1, <1>2, <1>3, <1>4, <1>5, <1>6 DEF Next, Body, Drain

LEMMA LogAppended ==
  ASSUME stream \in Seq(Event), NEW e \in Event, stream' = Append(stream, e),
         NEW s \in Sources
  PROVE  LogEvents(s)' = IF e.what = "log" /\ e.from = s
                         THEN LogEvents(s) \cup {Len(stream) + 1}
                         ELSE LogEvents(s)
BY DEF LogEvents

LEMMA Countable ==
  ASSUME TypeOK, NEW s \in Sources
  PROVE  /\ LogEvents(s) \in SUBSET (1..Len(stream))
         /\ Captured(s) \in SUBSET (1..Len(buf))
         /\ Cardinality(LogEvents(s) \cup {Len(stream) + 1}) = Cardinality(LogEvents(s)) + 1
         /\ Cardinality(Captured(s) \cup {Len(buf) + 1}) = Cardinality(Captured(s)) + 1
<1>1. Len(stream) \in Nat /\ LogEvents(s) \in SUBSET (1..Len(stream))
  BY DEF TypeOK, LogEvents
<1>2. Len(buf) \in Nat /\ Captured(s) \in SUBSET (1..Len(buf))
  BY DEF TypeOK, Captured
<1>. QED
  BY <1>1, <1>2, Positions

LEMMA CountedInit == Init => Counted
<1> SUFFICES ASSUME Init PROVE Counted
  OBVIOUS
<1>1. \A s \in Sources : LogEvents(s) = {} /\ Captured(s) = {}
  BY DEF Init, LogEvents, Captured
<1>. QED
  BY <1>1, FS_EmptySet DEF Init, Counted

LEMMA CountedStep == TypeOK /\ Reading /\ Counted /\ [Next]_vars => Counted'
<1> SUFFICES ASSUME TypeOK, Reading, Counted, [Next]_vars PROVE Counted'
  OBVIOUS
<1>0. /\ stream \in Seq(Event) /\ buf \in Seq(Line) /\ taken \in [Sources -> Nat]
      /\ drain \in [Sources -> {"scan", "send", "store", "done"}]
  BY DEF TypeOK
<1>a. ASSUME NEW e \in Event, e.what # "log", Send(e), UNCHANGED drainVars PROVE Counted'
  <2>1. \A s \in Sources : LogEvents(s)' = LogEvents(s)
    BY <1>0, <1>a, LogAppended DEF Send
  <2>2. \A s \in Sources : Captured(s)' = Captured(s)
    BY <1>a DEF Captured
  <2>3. \A s \in Sources : \A i \in LogEvents(s) : stream'[i] = stream[i]
    BY <1>0, <1>a DEF LogEvents, Send
  <2>. QED
    BY <1>a, <2>1, <2>2, <2>3 DEF Counted
<1>b. ASSUME UNCHANGED <<stream, buf>>,
             \A s \in Sources : /\ taken'[s] = taken[s]
                                /\ drain'[s] = drain[s] \/ {drain'[s], drain[s]} \subseteq {"scan", "done"}
      PROVE  Counted'
  <2>1. \A s \in Sources : LogEvents(s)' = LogEvents(s) /\ Captured(s)' = Captured(s)
    BY <1>b DEF LogEvents, Captured
  <2>. QED
    BY <1>b, <2>1 DEF Counted
<1>1. CASE OpenStream \/ StartFails \/ Answer
  <2>1. PICK e \in Event : e.what # "log" /\ Send(e)
    BY <1>1 DEF OpenStream, StartFails, Answer, Event
  <2>2. UNCHANGED drainVars
    BY <1>1 DEF OpenStream, StartFails, Answer
  <2>. QED
    BY <2>1, <2>2, <1>a
<1>2. CASE Start \/ Drained \/ Wait \/ Save
  BY <1>2, <1>b DEF Start, Drained, Wait, Save
<1>3. CASE CommandExits \/ Kill \/ ClientReads \/ ClientLeaves \/ UNCHANGED vars
  BY <1>3, <1>b DEF CommandExits, Kill, ClientReads, ClientLeaves, vars
<1>4. ASSUME NEW s \in Sources, NEW width \in Widths, Write(s, width) PROVE Counted'
  BY <1>4, <1>b DEF Write
<1>5. ASSUME NEW s \in Sources, TooLong(s) \/ EndOfFile(s) PROVE Counted'
  <2>1. UNCHANGED <<stream, buf, taken>> /\ drain[s] = "scan" /\ drain'[s] = "done"
        /\ \A t \in Sources \ {s} : drain'[t] = drain[t]
    BY <1>0, <1>5 DEF TooLong, EndOfFile
  <2>. QED
    BY <2>1, <1>b
<1>6. ASSUME NEW s \in Sources, Scan(s) PROVE Counted'
  <2>1. \A t \in Sources : LogEvents(t)' = LogEvents(t) /\ Captured(t)' = Captured(t)
    BY <1>6 DEF Scan, LogEvents, Captured
  <2>2. UNCHANGED stream
    BY <1>6 DEF Scan
  <2>3. ASSUME NEW t \in Sources
        PROVE  /\ Cardinality(LogEvents(t)') = taken'[t] - (IF drain'[t] = "send" THEN 1 ELSE 0)
               /\ Cardinality(Captured(t)') =
                    taken'[t] - (IF drain'[t] \in {"send", "store"} THEN 1 ELSE 0)
    <3>1. CASE t = s
      BY <1>0, <1>6, <2>1, <3>1 DEF Scan, Counted
    <3>2. CASE t # s
      BY <1>0, <1>6, <2>1, <3>2 DEF Scan, Counted
    <3>. QED
      BY <3>1, <3>2
  <2>. QED
    BY <2>1, <2>2, <2>3 DEF Counted
<1>7. ASSUME NEW s \in Sources, SendLine(s) PROVE Counted'
  <2>. DEFINE e == [what |-> "log", from |-> s, at |-> taken[s], alone |-> s \notin clash]
              n == Len(stream) + 1
  <2>1. drain[s] = "send" /\ taken[s] \in Nat \ {0}
    BY <1>0, <1>7 DEF SendLine, Reading
  <2>2. e \in Event /\ e.what = "log" /\ e.from = s
    BY <2>1 DEF Event
  <2>3. stream' = Append(stream, e) /\ drain' = [drain EXCEPT ![s] = "store"]
        /\ UNCHANGED <<taken, buf>>
    BY <1>7 DEF SendLine, Send
  <2>4. LogEvents(s)' = LogEvents(s) \cup {n} /\ stream'[n].at = taken[s]
    <3>1. stream'[n].at = taken[s]
      BY <1>0, <2>2, <2>3
    <3>. HIDE DEF e
    <3>. QED
      BY <1>0, <2>2, <2>3, <3>1, LogAppended
  <2>5. \A t \in Sources \ {s} : LogEvents(t)' = LogEvents(t)
    <3>. HIDE DEF e
    <3>. QED
      BY <1>0, <2>2, <2>3, LogAppended
  <2>6. \A t \in Sources : Captured(t)' = Captured(t)
    BY <2>3 DEF Captured
  <2>7. Cardinality(LogEvents(s)') = taken[s]
    <3>1. Cardinality(LogEvents(s)) = taken[s] - 1
      BY <2>1 DEF Counted
    <3>2. Cardinality(LogEvents(s) \cup {n}) = Cardinality(LogEvents(s)) + 1
      BY Countable
    <3>. QED
      BY <2>1, <2>4, <3>1, <3>2
  <2>8. \A t \in Sources : \A i \in LogEvents(t) :
          i \in 1..Len(stream) /\ stream'[i] = stream[i]
    BY <1>0, <2>2, <2>3 DEF LogEvents
  <2>9. LogEvents(s)' \cap (1..n) = LogEvents(s)'
    BY <2>4, <1>0 DEF LogEvents
  <2>10. \A i \in LogEvents(s) : LogEvents(s)' \cap (1..i) = LogEvents(s) \cap (1..i)
    BY <2>4, <2>8, <1>0
  <2>11. \A i \in LogEvents(s)' :
           stream'[i].at = Cardinality(LogEvents(s)' \cap (1..i))
    BY <2>4, <2>7, <2>8, <2>9, <2>10 DEF Counted
  <2>12. \A t \in Sources \ {s} : \A i \in LogEvents(t)' :
           stream'[i].at = Cardinality(LogEvents(t)' \cap (1..i))
    BY <2>5, <2>8 DEF Counted
  <2>13. ASSUME NEW t \in Sources
         PROVE  /\ Cardinality(LogEvents(t)') = taken'[t] - (IF drain'[t] = "send" THEN 1 ELSE 0)
                /\ Cardinality(Captured(t)') =
                     taken'[t] - (IF drain'[t] \in {"send", "store"} THEN 1 ELSE 0)
    <3>1. CASE t = s
      BY <1>0, <2>1, <2>3, <2>6, <2>7, <3>1 DEF Counted
    <3>2. CASE t # s
      BY <1>0, <2>3, <2>5, <2>6, <3>2 DEF Counted
    <3>. QED
      BY <3>1, <3>2
  <2>. QED
    BY <2>11, <2>12, <2>13 DEF Counted
<1>8. ASSUME NEW s \in Sources, Store(s) PROVE Counted'
  <2>. DEFINE n == Len(buf) + 1
  <2>1. drain[s] = "store" /\ taken[s] \in Nat \ {0} /\ drain' = [drain EXCEPT ![s] = "scan"]
        /\ UNCHANGED <<taken, stream>>
    BY <1>0, <1>8 DEF Store, Reading
  <2>2. \A t \in Sources : LogEvents(t)' = LogEvents(t)
    BY <2>1 DEF LogEvents
  <2>3. Captured(s)' = Captured(s) \cup {n} /\ \A t \in Sources \ {s} : Captured(t)' = Captured(t)
    BY <1>0, <1>8 DEF Store, Captured
  <2>4. Cardinality(Captured(s) \cup {n}) = Cardinality(Captured(s)) + 1
    BY Countable
  <2>5. ASSUME NEW t \in Sources
        PROVE  /\ Cardinality(LogEvents(t)') = taken'[t] - (IF drain'[t] = "send" THEN 1 ELSE 0)
               /\ Cardinality(Captured(t)') =
                    taken'[t] - (IF drain'[t] \in {"send", "store"} THEN 1 ELSE 0)
    <3>1. CASE t = s
      <4>1. /\ Cardinality(LogEvents(s)) = taken[s] - 0
            /\ Cardinality(Captured(s)) = taken[s] - 1
        BY <2>1 DEF Counted
      <4>2. drain'[s] = "scan" /\ taken'[s] = taken[s] /\ taken[s] - 0 = taken[s] - 1 + 1
        BY <1>0, <2>1
      <4>. QED
        BY <1>0, <2>1, <2>2, <2>3, <2>4, <3>1, <4>1, <4>2
    <3>2. CASE t # s
      BY <1>0, <2>1, <2>2, <2>3, <3>2 DEF Counted
    <3>. QED
      BY <3>1, <3>2
  <2>. QED
    BY <2>1, <2>2, <2>5 DEF Counted
<1>. QED
  BY <1>1, <1>2, <1>3, <1>4, <1>5, <1>6, <1>7, <1>8 DEF Next, Body, Drain

LEMMA OutputInit == Init => OutputInv
<1>1. Init => Reading /\ Phases /\ Ending
  BY DEF Init, Reading, Phases, Idle, Ending
<1>. QED
  BY <1>1, TypeInit, CountedInit DEF OutputInv

LEMMA OutputStep == OutputInv /\ [Next]_vars => OutputInv'
BY TypeStep, ReadingStep, PhasesStep, EndingStep, CountedStep DEF OutputInv

LEMMA OutputHolds == Spec => []OutputInv
BY OutputInit, OutputStep, PTL DEF Spec

(* The variables keep to their types: a drain reads no line that was not   *)
(* written, and no more events wait at the client than its socket takes.   *)
THEOREM TypesCorrect == Spec => []TypeOK
<1>1. OutputInv => TypeOK
  BY DEF OutputInv
<1>. QED
  BY <1>1, OutputHolds, PTL

(* Run sends each pipe's lines in their order and without a gap, and the   *)
(* done event after every line that it captured.                           *)
THEOREM DoneComesLast == Spec => []DoneIsLast
<1>1. OutputInv => DoneIsLast
  <2> SUFFICES ASSUME OutputInv PROVE DoneIsLast
    OBVIOUS
  <2>0. taken \in [Sources -> Nat]
    BY DEF OutputInv, TypeOK
  <2>1. ASSUME run = "over", NEW s \in Sources
        PROVE  Cardinality(LogEvents(s)) = Cardinality(Captured(s))
    <3>1. drain[s] \notin {"send", "store"}
      BY <2>1 DEF OutputInv, Phases, Idle
    <3>. QED
      BY <3>1 DEF OutputInv, Counted
  <2>. QED
    BY <2>1 DEF OutputInv, Counted, Ending, DoneIsLast
<1>. QED
  BY <1>1, OutputHolds, PTL

(***************************************************************************)
(* The refinement of MergedLog.                                            *)
(***************************************************************************)
LEMMA LogInit == Init => Log!Init
BY DEF Init, Log!Init, Merged, InLog, Outcome

LEMMA OutcomeKept ==
  ASSUME UNCHANGED <<command, written, kept>>
  PROVE  Outcome' = Outcome
BY DEF Outcome, Spoiled

(* Once the output is kept, nothing writes to a pipe or reads from one.    *)
LEMMA KeptIsFinal ==
  ASSUME OutputInv, kept # Absent
  PROVE  Ended /\ \A s \in Sources : drain[s] = "done"
BY DEF OutputInv, Phases

LEMMA Stutter ==
  ASSUME UNCHANGED <<written, buf>>, Merged' = Merged, Outcome' = Outcome
  PROVE  [Log!Next]_<<written, Merged, buf, Outcome>>
OBVIOUS

LEMMA LogStep ==
  ASSUME OutputInv, [Next]_vars
  PROVE  [Log!Next]_<<written, Merged, buf, Outcome>>
<1>0. /\ written \in [Sources -> Seq(Widths)] /\ taken \in [Sources -> Nat]
      /\ drain \in [Sources -> {"scan", "send", "store", "done"}]
      /\ buf \in Seq(Line)
  BY DEF OutputInv, TypeOK
<1>1. CASE OpenStream \/ Start \/ StartFails \/ Drained \/ Wait \/ Answer
  <2>1. UNCHANGED <<drainVars, written, kept>>
    BY <1>1 DEF OpenStream, Start, StartFails, Drained, Wait, Answer
  <2>2. Outcome' = Outcome
    <3>1. CASE kept = Absent
      BY <2>1, <3>1 DEF Outcome
    <3>2. CASE kept # Absent
      BY <1>1, <2>1, <3>2, KeptIsFinal, OutcomeKept
         DEF OutputInv, Phases, OpenStream, Start, StartFails, Drained, Wait, Answer
    <3>. QED
      BY <3>1, <3>2
  <2>. QED
    BY <2>1, <2>2, Stutter DEF Merged, InLog
<1>2. CASE Save
  <2>1. kept = Absent /\ kept' # Absent /\ UNCHANGED <<command, written, taken, drain, buf>>
    <3>1. kept' \in [marked : BOOLEAN, lines : Seq(Line)]
      BY <1>0, <1>2, TruncateType DEF Save
    <3>2. kept = Absent
      BY <1>2 DEF Save, OutputInv, Phases
    <3>. QED
      BY <1>2, <3>1, <3>2, OutputAssumption DEF Save
  <2>2. \A s \in Sources : drain[s] = "done" /\ DoneBy(s)
    BY <1>2 DEF Save, OutputInv, Phases
  <2>3. Merged' = Merged /\ Outcome = "open" /\ Spoiled' = Spoiled
    BY <2>1 DEF Merged, InLog, Outcome, Spoiled
  <2>4. CASE Spoiled
    <3>1. Outcome' = "cut"
      BY <2>1, <2>3, <2>4 DEF Outcome
    <3>. QED
      BY <2>1, <2>3, <3>1 DEF Log!Next, Log!CutShort, Merged, InLog, Outcome
  <2>5. CASE ~Spoiled
    <3>1. Outcome' = "whole"
      BY <2>1, <2>3, <2>5 DEF Outcome
    <3>2. \A s \in Sources : Merged[s] = Len(written[s])
      BY <1>0, <2>2, <2>5 DEF DoneBy, Spoiled, Merged, InLog
    <3>. QED
      BY <2>1, <2>3, <3>1, <3>2 DEF Log!Next, Log!KeepWhole, Merged, InLog, Outcome
  <2>. QED
    BY <2>4, <2>5
<1>3. ASSUME NEW s \in Sources, Scan(s) \/ TooLong(s) \/ EndOfFile(s) \/ SendLine(s)
      PROVE  [Log!Next]_<<written, Merged, buf, Outcome>>
  <2>1. UNCHANGED <<command, written, buf, kept>>
    BY <1>3 DEF Scan, TooLong, EndOfFile, SendLine
  <2>2. \A t \in Sources : InLog(t)' = InLog(t)
    <3>1. \A t \in Sources \ {s} : taken'[t] = taken[t] /\ drain'[t] = drain[t]
      BY <1>0, <1>3 DEF Scan, TooLong, EndOfFile, SendLine
    <3>2. InLog(s)' = InLog(s)
      BY <1>0, <1>3 DEF Scan, TooLong, EndOfFile, SendLine, InLog
    <3>. QED
      BY <3>1, <3>2 DEF InLog
  <2>3. Merged' = Merged
    BY <2>2 DEF Merged
  <2>. QED
    BY <2>1, <2>3, OutcomeKept, Stutter
<1>4. ASSUME NEW s \in Sources, Store(s)
      PROVE  [Log!Next]_<<written, Merged, buf, Outcome>>
  <2>1. kept = Absent /\ Outcome = "open"
    BY <1>4, KeptIsFinal DEF Store, Outcome
  <2>2. UNCHANGED <<command, written, kept>> /\ Outcome' = "open"
    BY <1>4, <2>1, OutcomeKept DEF Store
  <2>3. taken[s] \in 1..Len(written[s])
    BY <1>0, <1>4 DEF Store, OutputInv, Reading
  <2>4. Merged[s] = taken[s] - 1 /\ Merged' = [Merged EXCEPT ![s] = @ + 1] /\ Merged'[s] = taken[s]
    <3>1. InLog(s) = taken[s] - 1 /\ InLog(s)' = taken[s]
      BY <1>0, <1>4, <2>3 DEF Store, InLog
    <3>2. \A t \in Sources \ {s} : InLog(t)' = InLog(t)
      BY <1>0, <1>4 DEF Store, InLog
    <3>3. taken[s] = taken[s] - 1 + 1
      BY <2>3
    <3>. QED
      BY <3>1, <3>2, <3>3 DEF Merged
  <2>5. buf' = Append(buf, [from |-> s, at |-> Merged'[s], line |-> written[s][Merged'[s]]])
    BY <1>4, <2>4 DEF Store
  <2>6. Merged[s] < Len(written[s])
    BY <1>0, <2>3, <2>4
  <2>. QED
    BY <2>1, <2>2, <2>4, <2>5, <2>6 DEF Log!Next, Log!Merge, Merged, InLog, Outcome
<1>5. ASSUME NEW s \in Sources, NEW width \in Widths, Write(s, width)
      PROVE  [Log!Next]_<<written, Merged, buf, Outcome>>
  <2>1. kept = Absent /\ kept' = Absent
    BY <1>5, KeptIsFinal DEF Write, Ended
  <2>2. written' = [written EXCEPT ![s] = Append(@, width)] /\ UNCHANGED <<taken, drain, buf>>
    BY <1>5 DEF Write
  <2>3. Outcome = "open" /\ Outcome' = "open"
    BY <2>1 DEF Outcome
  <2>4. Merged' = Merged
    BY <2>2 DEF Merged, InLog
  <2>. QED
    BY <2>2, <2>3, <2>4 DEF Log!Next, Log!Write, Merged, InLog, Outcome
<1>6. CASE CommandExits \/ Kill
  <2>1. kept = Absent /\ kept' = Absent
    BY <1>6, KeptIsFinal DEF CommandExits, Kill, Ended
  <2>2. UNCHANGED <<written, drainVars>>
    BY <1>6 DEF CommandExits, Kill
  <2>. QED
    BY <2>1, <2>2, Stutter DEF Outcome, Merged, InLog
<1>7. CASE ClientReads \/ ClientLeaves \/ UNCHANGED vars
  <2>1. UNCHANGED <<command, written, drainVars, kept>>
    BY <1>7 DEF ClientReads, ClientLeaves, vars
  <2>. QED
    BY <2>1, OutcomeKept, Stutter DEF Merged, InLog
<1>. QED
  BY <1>1, <1>2, <1>3, <1>4, <1>5, <1>6, <1>7 DEF Next, Body, Drain

(* What Run captures is a merge of the two pipes, and what it keeps of a   *)
(* command that ended by itself and wrote no line that is too long misses  *)
(* no line.                                                                *)
THEOREM OutputIsMerged == Spec => ImplementsMergedLog
BY LogInit, LogStep, OutputHolds, PTL DEF Spec, ImplementsMergedLog, Log!Spec

(***************************************************************************)
(* What truncate keeps is the end of the output.  The bytes of the lines   *)
(* in two sets of places add up; those of the end of a sequence are as     *)
(* many as they were in the whole of it.                                   *)
(***************************************************************************)
LEMMA Rectangle ==
  ASSUME NEW i, NEW w \in Nat
  PROVE  IsFiniteSet({i} \X (1..w)) /\ Cardinality({i} \X (1..w)) = w
<1>. DEFINE one == {i}  span == 1..w
<1>1. IsFiniteSet(one) /\ Cardinality(one) = 1
  BY FS_Singleton
<1>2. IsFiniteSet(span) /\ Cardinality(span) = w
  BY FS_Interval
<1>. HIDE DEF one, span
<1>3. IsFiniteSet(one \X span) /\ Cardinality(one \X span) = 1 * w
  BY <1>1, <1>2, FS_Product
<1>. QED
  BY <1>3 DEF one, span

LEMMA LineWidths ==
  ASSUME NEW lines \in Seq(Line), NEW i \in 1..Len(lines)
  PROVE  lines[i].line \in Nat \ {0}
<1>1. lines[i] \in Line /\ Widths \subseteq Nat \ {0}
  BY OutputAssumption
<1>. QED
  BY <1>1 DEF Line

LEMMA BytesFinite ==
  ASSUME NEW lines \in Seq(Line), NEW P \in SUBSET (1..Len(lines))
  PROVE  IsFiniteSet(Bytes(lines, P)) /\ Cardinality(Bytes(lines, P)) \in Nat
<1>. DEFINE Of(i) == {i} \X (1..lines[i].line)
            parts == {Of(i) : i \in P}
            f == [i \in P |-> Of(i)]
<1>1. \A i \in P : IsFiniteSet(Of(i))
  BY LineWidths, Rectangle
<1>2. IsFiniteSet(P)
  <2>1. Len(lines) \in Nat
    OBVIOUS
  <2>. QED
    BY <2>1, Positions
<1>. HIDE DEF Of
<1>3. f \in Surjection(P, parts)
  <2>1. f \in [P -> parts]
    OBVIOUS
  <2>2. ASSUME NEW part \in parts
        PROVE  \E i \in P : f[i] = part
    OBVIOUS
  <2>. HIDE DEF f, parts
  <2>. QED
    BY <2>1, <2>2 DEF Surjection
<1>4. IsFiniteSet(parts)
  <2>. HIDE DEF f, parts
  <2>. QED
    BY <1>2, <1>3, FS_Surjection
<1>5. IsFiniteSet(UNION parts)
  BY <1>1, <1>4, FS_UNION
<1>6. Bytes(lines, P) = UNION parts
  BY DEF Bytes, Of
<1>. HIDE DEF parts
<1>. QED
  BY <1>5, <1>6, FS_CardinalityType

LEMMA BytesAdd ==
  ASSUME NEW lines \in Seq(Line), NEW P \in SUBSET (1..Len(lines)),
         NEW Q \in SUBSET (1..Len(lines)), P \cap Q = {}
  PROVE  Cardinality(Bytes(lines, P \cup Q))
           = Cardinality(Bytes(lines, P)) + Cardinality(Bytes(lines, Q))
<1>. DEFINE b == Bytes(lines, P)  c == Bytes(lines, Q)
<1>1. Bytes(lines, P \cup Q) = b \cup c
  BY DEF Bytes
<1>2. b \cap c = {}
  BY DEF Bytes
<1>3. IsFiniteSet(b) /\ IsFiniteSet(c) /\ Cardinality(b) \in Nat /\ Cardinality(c) \in Nat
  BY BytesFinite
<1>. HIDE DEF b, c
<1>4. Cardinality(b \cup c) = Cardinality(b) + Cardinality(c) - Cardinality(b \cap c)
  BY <1>3, FS_Union
<1>5. Cardinality(b \cap c) = 0
  BY <1>2, FS_EmptySet
<1>6. Cardinality(b \cup c) = Cardinality(b) + Cardinality(c)
  BY <1>3, <1>4, <1>5
<1>. QED
  BY <1>1, <1>6 DEF b, c

LEMMA TailWidth ==
  ASSUME NEW lines \in Seq(Line), NEW m \in 1..Len(lines) + 1
  PROVE  Width(SubSeq(lines, m, Len(lines))) = Cardinality(Bytes(lines, m..Len(lines)))
<1>. DEFINE end == SubSeq(lines, m, Len(lines))
            k == Len(lines) - m + 1
            b == Bytes(end, 1..k)
            c == Bytes(lines, m..Len(lines))
            f == [p \in b |-> <<p[1] + (m - 1), p[2]>>]
<1>1. /\ k \in Nat /\ Len(end) = k /\ \A i \in 1..k : end[i] = lines[i + (m - 1)]
      /\ end \in Seq(Line)
  BY Subsequence
<1>2. \A p : p \in b <=> \E i \in 1..k : \E j \in 1..lines[i + (m - 1)].line : p = <<i, j>>
  BY <1>1 DEF Bytes
<1>3. \A p : p \in c <=> \E i \in m..Len(lines) : \E j \in 1..lines[i].line : p = <<i, j>>
  BY DEF Bytes
<1>. HIDE DEF end, b, c
<1>4. f \in [b -> c]
  <2>1. ASSUME NEW p \in b
        PROVE  <<p[1] + (m - 1), p[2]>> \in c
    <3>0. PICK i \in 1..k : \E j \in 1..lines[i + (m - 1)].line : p = <<i, j>>
      BY <1>2
    <3>1. PICK j \in 1..lines[i + (m - 1)].line : p = <<i, j>>
      BY <3>0
    <3>2. i + (m - 1) \in m..Len(lines)
      OBVIOUS
    <3>. QED
      BY <1>3, <3>1, <3>2
  <2>. QED
    BY <2>1
<1>5. \A p, q \in b : f[p] = f[q] => p = q
  <2>1. ASSUME NEW p \in b, NEW q \in b, f[p] = f[q]
        PROVE  p = q
    <3>1. PICK i \in 1..k : \E j \in 1..lines[i + (m - 1)].line : p = <<i, j>>
      BY <1>2
    <3>2. PICK x \in 1..k : \E y \in 1..lines[x + (m - 1)].line : q = <<x, y>>
      BY <1>2
    <3>3. PICK j \in 1..lines[i + (m - 1)].line : p = <<i, j>>
      BY <3>1
    <3>4. PICK y \in 1..lines[x + (m - 1)].line : q = <<x, y>>
      BY <3>2
    <3>5. i + (m - 1) = x + (m - 1) /\ j = y
      BY <2>1, <3>3, <3>4
    <3>. QED
      BY <3>3, <3>4, <3>5
  <2>. QED
    BY <2>1
<1>6. \A q \in c : \E p \in b : f[p] = q
  <2>1. ASSUME NEW q \in c
        PROVE  \E p \in b : f[p] = q
    <3>0. PICK i \in m..Len(lines) : \E j \in 1..lines[i].line : q = <<i, j>>
      BY <1>3
    <3>1. PICK j \in 1..lines[i].line : q = <<i, j>>
      BY <3>0
    <3>2. i - (m - 1) \in 1..k /\ (i - (m - 1)) + (m - 1) = i
      OBVIOUS
    <3>3. <<i - (m - 1), j>> \in b
      BY <1>2, <3>2
    <3>. QED
      BY <3>1, <3>2, <3>3
  <2>. QED
    BY <2>1
<1>7. ExistsBijection(b, c)
  <2>. HIDE DEF f
  <2>. QED
    BY <1>4, <1>5, <1>6 DEF ExistsBijection, Bijection, Injection, Surjection, IsInjective
<1>8. IsFiniteSet(b)
  <2>1. 1..k \in SUBSET (1..Len(end))
    BY <1>1
  <2>. QED
    BY <1>1, <2>1, BytesFinite DEF b
<1>9. Cardinality(b) = Cardinality(c)
  BY <1>7, <1>8, FS_Bijection
<1>. QED
  BY <1>1, <1>9 DEF Width, end, b, c

(* A set of places that has every place after one of its own.              *)
LEMMA UpwardClosed ==
  ASSUME NEW n \in Nat, NEW P \in SUBSET (1..n),
         \A i \in P : \A j \in i..n : j \in P
  PROVE  /\ Cardinality(P) \in 0..n
         /\ P = (n - Cardinality(P) + 1)..n
<1>. DEFINE k == Cardinality(P)  end == (n - k + 1)..n
<1>1. IsFiniteSet(P) /\ k \in 0..n
  BY Positions
<1>. HIDE DEF k
<1>2. IsFiniteSet(end) /\ Cardinality(end) = k
  <2>1. n - k + 1 \in Int /\ n \in Int
    BY <1>1
  <2>2. IsFiniteSet(end) /\ Cardinality(end) = IF n - k + 1 > n THEN 0 ELSE n - (n - k + 1) + 1
    BY <2>1, FS_Interval
  <2>. QED
    BY <1>1, <2>2
<1>3. ASSUME NEW i \in P
      PROVE  i \in end
  <2>. DEFINE after == i..n
  <2>1. after \in SUBSET P
    OBVIOUS
  <2>2. Cardinality(after) = n - i + 1
    BY FS_Interval
  <2>. HIDE DEF after
  <2>3. n - i + 1 <= k
    BY <1>1, <2>1, <2>2, FS_Subset DEF k
  <2>. QED
    BY <1>1, <2>3
<1>4. P \in SUBSET end
  BY <1>3
<1>. HIDE DEF end
<1>5. P = end
  BY <1>2, <1>4, FS_Subset DEF k
<1>. QED
  BY <1>1, <1>5 DEF end, k

LEMMA SuffixOf ==
  ASSUME NEW S, NEW s \in Seq(S), NEW m \in 1..Len(s) + 1
  PROVE  IsSuffix(SubSeq(s, m, Len(s)), s)
<1>. DEFINE end == SubSeq(s, m, Len(s))  k == Len(s) - m + 1
<1>1. k \in 0..Len(s) /\ Len(end) = k /\ \A i \in 1..k : end[i] = s[i + (m - 1)]
  OBVIOUS
<1>2. Reverse(end) = [i \in 1..k |-> s[Len(s) - i + 1]]
  <2>. HIDE DEF end
  <2>1. \A i \in 1..k : end[k - i + 1] = s[Len(s) - i + 1]
    BY <1>1
  <2>. QED
    BY <1>1, <2>1 DEF Reverse
<1>3. Reverse(s) = [i \in 1..Len(s) |-> s[Len(s) - i + 1]]
  BY DEF Reverse
<1>4. Len(Reverse(end)) = k /\ Len(Reverse(s)) = Len(s)
  BY <1>1, <1>2, <1>3
<1>5. SubSeq(Reverse(end), 1, k) = SubSeq(Reverse(s), 1, k)
  BY <1>1, <1>2, <1>3
<1>. QED
  BY <1>1, <1>4, <1>5 DEF IsSuffix, IsPrefix

(* Of whatever was captured, truncate keeps the end: all of it if it fits, *)
(* and else as many whole lines as the limit allows, give or take one.     *)
THEOREM TruncateKeepsTail ==
  ASSUME NEW lines \in Seq(Line)
  PROVE  LET t == Truncate(lines) IN
         /\ IsSuffix(t.lines, lines)
         /\ t.marked <=> t.lines # lines
         /\ Width(t.lines) <= StoreLimit
         /\ t.marked => Width(t.lines) + lines[Len(lines) - Len(t.lines)].line >= StoreLimit
<1>. DEFINE n == Len(lines)
            B(i) == Before(lines, i)
            inside == {i \in 1..n : B(i) > Width(lines) - StoreLimit}
            k == Cardinality(inside)
            m == n - k + 1
            t == Truncate(lines)
<1>0. n \in Nat /\ StoreLimit \in Nat \ {0} /\ Width(lines) \in Nat
  <2>1. Len(lines) \in Nat /\ 1..Len(lines) \in SUBSET (1..Len(lines))
    OBVIOUS
  <2>. QED
    BY <2>1, BytesFinite, OutputAssumption DEF Width
<1>1. /\ B(1) = 0 /\ B(n + 1) = Width(lines)
      /\ \A i \in 1..n + 1 : B(i) \in Nat
      /\ \A i \in 1..n : B(i + 1) = B(i) + lines[i].line
      /\ \A i \in 1..n + 1 : Width(lines) = B(i) + Cardinality(Bytes(lines, i..n))
  <2>1. B(1) = 0
    <3>1. Bytes(lines, 1..0) = {}
      BY DEF Bytes
    <3>. QED
      BY <3>1, FS_EmptySet DEF Before
  <2>2. B(n + 1) = Width(lines)
    BY <1>0 DEF Before, Width
  <2>3. ASSUME NEW i \in 1..n + 1
        PROVE  B(i) \in Nat /\ Width(lines) = B(i) + Cardinality(Bytes(lines, i..n))
    <3>1. /\ 1..i - 1 \in SUBSET (1..n) /\ i..n \in SUBSET (1..n)
          /\ (1..i - 1) \cap (i..n) = {} /\ (1..i - 1) \cup (i..n) = 1..n
      BY <1>0
    <3>. QED
      BY <3>1, BytesFinite, BytesAdd DEF Before, Width
  <2>4. ASSUME NEW i \in 1..n
        PROVE  B(i + 1) = B(i) + lines[i].line
    <3>1. /\ 1..i - 1 \in SUBSET (1..n) /\ {i} \in SUBSET (1..n)
          /\ (1..i - 1) \cap {i} = {} /\ (1..i - 1) \cup {i} = 1..(i + 1) - 1
      BY <1>0
    <3>2. Bytes(lines, {i}) = {i} \X (1..lines[i].line)
      BY DEF Bytes
    <3>3. Cardinality(Bytes(lines, {i})) = lines[i].line
      BY <3>2, LineWidths, Rectangle
    <3>4. /\ B(i) = Cardinality(Bytes(lines, 1..i - 1))
          /\ B(i + 1) = Cardinality(Bytes(lines, 1..(i + 1) - 1))
      BY DEF Before
    <3>. HIDE DEF B
    <3>5. Cardinality(Bytes(lines, (1..i - 1) \cup {i}))
            = Cardinality(Bytes(lines, 1..i - 1)) + Cardinality(Bytes(lines, {i}))
      BY <3>1, BytesAdd
    <3>. QED
      BY <3>1, <3>3, <3>4, <3>5
  <2>. QED
    BY <2>1, <2>2, <2>3, <2>4
<1>2. \A i \in 1..n : lines[i].line \in Nat \ {0}
  BY LineWidths
<1>3. CASE Width(lines) <= StoreLimit
  <2>1. t = [marked |-> FALSE, lines |-> lines]
    BY <1>3 DEF Truncate
  <2>2. IsSuffix(lines, lines)
    <3>1. SubSeq(lines, 1, Len(lines)) = lines /\ 1 \in 1..Len(lines) + 1
      BY <1>0
    <3>. QED
      BY <3>1, SuffixOf
  <2>. QED
    BY <1>3, <2>1, <2>2
<1>4. CASE Width(lines) > StoreLimit
  <2>1. t = [marked |-> TRUE, lines |-> SubSeq(lines, m, n)]
    BY <1>0, <1>4 DEF Truncate
  <2>. HIDE DEF B, t
  <2>2. \A i, j \in 1..n : i <= j => B(i) <= B(j)
    <3>1. ASSUME NEW i \in 1..n, NEW j \in 1..n, i <= j
          PROVE  B(i) <= B(j)
      <4>1. Bytes(lines, 1..i - 1) \in SUBSET Bytes(lines, 1..j - 1)
        BY <3>1 DEF Bytes
      <4>2. 1..j - 1 \in SUBSET (1..Len(lines))
        BY <1>0
      <4>. QED
        BY <4>1, <4>2, BytesFinite, FS_Subset DEF B, Before
    <3>. QED
      BY <3>1
  <2>3. k \in 0..n /\ inside = m..n
    <3>1. inside \in SUBSET (1..n)
      OBVIOUS
    <3>2. \A i \in inside : \A j \in i..n : j \in inside
      <4>1. ASSUME NEW i \in inside, NEW j \in i..n
            PROVE  j \in inside
        <5>1. i \in 1..n /\ j \in 1..n /\ i <= j /\ B(i) > Width(lines) - StoreLimit
          BY <1>0
        <5>2. B(i) \in Nat /\ B(j) \in Nat /\ B(i) <= B(j)
          BY <1>0, <1>1, <2>2, <5>1
        <5>. QED
          BY <1>0, <5>1, <5>2
      <4>. QED
        BY <4>1
    <3>. HIDE DEF inside
    <3>. QED
      BY <1>0, <3>1, <3>2, UpwardClosed
  <2>4. 1 \notin inside
    BY <1>0, <1>1, <1>4
  <2>5. m \in 2..n + 1
    <3>1. m \in 1..n + 1
      <4>. HIDE DEF inside, k
      <4>. QED
        BY <1>0, <2>3
    <3>2. m # 1
      <4>1. m = 1 => 1 \in m..n
        <5>1. n # 0
          <6>1. n = 0 => Width(lines) = 0
            BY <1>1
          <6>. QED
            BY <1>0, <1>4, <6>1
        <5>. QED
          BY <1>0, <5>1
      <4>. QED
        BY <2>3, <2>4, <4>1
    <3>. QED
      BY <1>0, <3>1, <3>2
  <2>6. /\ Len(SubSeq(lines, m, n)) = n - m + 1
        /\ Width(SubSeq(lines, m, n)) = Width(lines) - B(m)
        /\ IsSuffix(SubSeq(lines, m, n), lines)
    <3>1. m \in 1..Len(lines) + 1
      BY <1>0, <2>5
    <3>. HIDE DEF m
    <3>2. Len(SubSeq(lines, m, n)) = n - m + 1
      BY <3>1
    <3>3. Width(SubSeq(lines, m, n)) = Cardinality(Bytes(lines, m..n))
      BY <3>1, TailWidth
    <3>4. Width(lines) = B(m) + Cardinality(Bytes(lines, m..n)) /\ B(m) \in Nat
      BY <1>1, <3>1
    <3>5. Cardinality(Bytes(lines, m..n)) \in Nat
      <4>1. m..n \in SUBSET (1..Len(lines))
        BY <3>1
      <4>. QED
        BY <4>1, BytesFinite
    <3>6. Width(SubSeq(lines, m, n)) = Width(lines) - B(m)
      BY <3>3, <3>4, <3>5
    <3>. QED
      BY <3>1, <3>2, <3>6, SuffixOf
  <2>7. Width(lines) - B(m) <= StoreLimit
    <3>1. CASE m = n + 1
      BY <1>0, <1>1, <3>1
    <3>2. CASE m \in 1..n
      <4>1. m \in inside
        <5>. HIDE DEF inside, m
        <5>. QED
          BY <1>0, <2>3, <3>2
      <4>2. B(m) > Width(lines) - StoreLimit /\ B(m) \in Nat
        BY <1>1, <3>2, <4>1
      <4>. HIDE DEF inside, m
      <4>. QED
        BY <1>0, <4>2
    <3>. QED
      BY <1>0, <2>5, <3>1, <3>2
  <2>8. Width(lines) - B(m) + lines[m - 1].line >= StoreLimit
    <3>1. m - 1 \in 1..n
      BY <1>0, <2>5
    <3>2. m - 1 \notin inside
      <4>. HIDE DEF inside, m
      <4>. QED
        BY <1>0, <2>3, <2>5
    <3>3. B(m - 1) <= Width(lines) - StoreLimit
      <4>1. B(m - 1) \in Nat
        BY <1>1, <3>1
      <4>. HIDE DEF m
      <4>. QED
        BY <1>0, <3>1, <3>2, <4>1
    <3>. HIDE DEF m, inside
    <3>4. /\ B(m) = B(m - 1) + lines[m - 1].line /\ B(m - 1) \in Nat
          /\ lines[m - 1].line \in Nat
      <4>1. (m - 1) + 1 = m
        BY <2>5
      <4>. QED
        BY <1>1, <1>2, <3>1, <4>1
    <3>. QED
      BY <1>0, <3>3, <3>4
  <2>9. n - (n - m + 1) = m - 1 /\ n - m + 1 # n
    <3>. HIDE DEF m
    <3>. QED
      BY <1>0, <2>5
  <2>. HIDE DEF m
  <2>10. t.lines = SubSeq(lines, m, n) /\ t.marked = TRUE
    BY <2>1
  <2>11. t.lines # lines
    BY <2>6, <2>9, <2>10
  <2>. QED
    BY <2>6, <2>7, <2>8, <2>9, <2>10, <2>11 DEF t
<1>. QED
  BY <1>0, <1>3, <1>4

KeptInv == kept # Absent => kept = Truncate(buf)

LEMMA KeptStep == OutputInv /\ KeptInv /\ [Next]_vars => KeptInv'
<1> SUFFICES ASSUME OutputInv, KeptInv, [Next]_vars PROVE KeptInv'
  OBVIOUS
<1>a. ASSUME UNCHANGED <<buf, kept>> PROVE KeptInv'
  BY <1>a DEF KeptInv
<1>1. CASE Save
  BY <1>1 DEF Save, drainVars, KeptInv
<1>2. ASSUME NEW s \in Sources, Store(s) PROVE KeptInv'
  <2>1. kept = Absent /\ UNCHANGED kept
    BY <1>2, KeptIsFinal DEF Store
  <2>. QED
    BY <2>1 DEF KeptInv
<1>3. CASE OpenStream \/ Start \/ StartFails \/ Drained \/ Wait \/ Answer
  BY <1>3, <1>a DEF OpenStream, Start, StartFails, Drained, Wait, Answer, drainVars
<1>4. ASSUME NEW s \in Sources, Scan(s) \/ TooLong(s) \/ EndOfFile(s) \/ SendLine(s)
      PROVE  KeptInv'
  BY <1>4, <1>a DEF Scan, TooLong, EndOfFile, SendLine
<1>5. ASSUME NEW s \in Sources, NEW width \in Widths, Write(s, width) PROVE KeptInv'
  BY <1>5, <1>a DEF Write, drainVars
<1>6. CASE CommandExits \/ Kill \/ ClientReads \/ ClientLeaves \/ UNCHANGED vars
  BY <1>6, <1>a DEF CommandExits, Kill, ClientReads, ClientLeaves, drainVars, vars
<1>. QED
  BY <1>1, <1>2, <1>3, <1>4, <1>5, <1>6 DEF Next, Body, Drain

(* Nothing is captured after the output was cut to size, so what goes to   *)
(* the history is the end of everything that Run captured.                 *)
THEOREM KeptIsTheTail == Spec => []KeptIsTail
<1>1. Init => KeptInv
  BY DEF Init, KeptInv
<1>2. OutputInv /\ KeptInv => KeptIsTail
  <2> SUFFICES ASSUME OutputInv, KeptInv, kept # Absent PROVE KeptIsTail
    BY DEF KeptIsTail
  <2>1. buf \in Seq(Line) /\ kept = Truncate(buf)
    BY DEF OutputInv, TypeOK, KeptInv
  <2>. QED
    BY <2>1, TruncateKeepsTail DEF KeptIsTail
<1>. QED
  BY <1>1, <1>2, KeptStep, OutputHolds, PTL DEF Spec
=============================================================================
