---------------------------- MODULE OutputStream ----------------------------
(***************************************************************************)
(* The output of one run, from the command's two pipes to the client and   *)
(* to the history: the middle of Runner.Run and RunApp, which are alike    *)
(* (internal/operations/runner.go 410-459, 712-761), truncate, the         *)
(* handlers Run and RunApp (internal/api/handlers/operations.go 69-91,     *)
(* 239-268) and the event writer (internal/sse/sse.go).                    *)
(*                                                                         *)
(* A line is known by its pipe, its number in it and its width: its bytes  *)
(* and the newline.  Widths and limits are in units of the same size; the  *)
(* code's two limits are both 64 KiB.  The command is all that holds the   *)
(* write ends of the pipes; what it leaves behind is in OperationRunner.   *)
(***************************************************************************)
EXTENDS Integers, FiniteSets, Sequences, SequencesExt

CONSTANTS
  Sources,     \* stdout and stderr
  Widths,      \* how wide a line may be
  ScanLimit,   \* the widest line that bufio.Scanner takes
  StoreLimit,  \* what truncate keeps
  MarkerWidth, \* the line "[...truncated]" that it puts in front
  Absent,      \* no output has been kept yet
  MaxLines,    \* bound: how many lines the command writes to a pipe
  PipeSize,    \* how many lines a pipe holds
  SocketSize   \* how many events a client that does not read is sent

Line == [from : Sources, at : Nat \ {0}, line : Widths]

ASSUME OutputAssumption ==
  /\ Widths \subseteq Nat \ {0}
  /\ ScanLimit \in Nat \ {0}
  /\ StoreLimit \in Nat \ {0}
  /\ MarkerWidth \in Nat \ {0}
  /\ Absent \notin [marked : BOOLEAN, lines : Seq(Line)]
  /\ MaxLines \in Nat
  /\ PipeSize \in Nat \ {0}
  /\ SocketSize \in Nat \ {0}

VARIABLES
  command,   \* bash -l -c op.Command
  written,   \* what it has written to each pipe: the widths
  taken,     \* how many lines of each pipe its drain has scanned
  drain,     \* where each drain stands
  clash,     \* the drains whose event was begun or interrupted by the other's
  buf,       \* the captured lines
  kept,      \* the output for the history, once it has been cut to size
  run,       \* where Run and its handler stand
  stream,    \* the events written to the response
  unread,    \* how many of them the client has still to read
  gone       \* the client has left

pipeVars == <<command, written>>
drainVars == <<taken, drain, clash, buf>>
clientVars == <<stream, unread, gone>>
vars == <<pipeVars, drainVars, kept, run, clientVars>>

Event == [what : {"start", "error", "done"}] \cup
         [what : {"log"}, from : Sources, at : Nat \ {0}, alone : BOOLEAN]

TypeOK ==
  /\ command \in {"none", "running", "exited", "killed"}
  /\ written \in [Sources -> Seq(Widths)]
  /\ taken \in [Sources -> Nat]
  /\ drain \in [Sources -> {"scan", "send", "store", "done"}]
  /\ clash \subseteq Sources
  /\ buf \in Seq(Line)
  /\ kept = Absent \/ kept \in [marked : BOOLEAN, lines : Seq(Line)]
  /\ run \in {"open", "start", "drain", "wait", "save", "answer", "over"}
  /\ stream \in Seq(Event)
  /\ unread \in 0..SocketSize
  /\ gone \in BOOLEAN

Init ==
  /\ command = "none"
  /\ written = [s \in Sources |-> <<>>]
  /\ taken = [s \in Sources |-> 0]
  /\ drain = [s \in Sources |-> "scan"]
  /\ clash = {}
  /\ buf = <<>>
  /\ kept = Absent
  /\ run = "open"
  /\ stream = <<>>
  /\ unread = 0
  /\ gone = FALSE

-----------------------------------------------------------------------------
(***************************************************************************)
(* The event writer.  A flush waits while the client neither reads nor     *)
(* leaves: the server sets no WriteTimeout.  To a client that has left     *)
(* nothing is sent, and Send returns no error.                             *)
(***************************************************************************)
(* Mutated: a flush never waits. *)
SendAtOnce(event) ==
  /\ stream' = Append(stream, event)
  /\ unread' = IF gone THEN unread ELSE unread + 1
  /\ UNCHANGED gone

Send(event) ==
  /\ gone \/ unread < SocketSize
  /\ stream' = Append(stream, event)
  /\ unread' = IF gone THEN unread ELSE unread + 1
  /\ UNCHANGED gone

ClientReads ==
  /\ ~gone
  /\ unread > 0
  /\ unread' = unread - 1
  /\ UNCHANGED <<pipeVars, drainVars, kept, run, stream, gone>>

ClientLeaves ==
  /\ ~gone
  /\ gone' = TRUE
  /\ UNCHANGED <<pipeVars, drainVars, kept, run, stream, unread>>

-----------------------------------------------------------------------------
(***************************************************************************)
(* The command.  A write to a pipe that is full waits.                     *)
(***************************************************************************)
Write(s, width) ==
  /\ command = "running"
  /\ Len(written[s]) < MaxLines
  /\ Len(written[s]) - taken[s] < PipeSize
  /\ written' = [written EXCEPT ![s] = Append(@, width)]
  /\ UNCHANGED <<command, drainVars, kept, run, clientVars>>

CommandExits ==
  /\ command = "running"
  /\ command' = "exited"
  /\ UNCHANGED <<written, drainVars, kept, run, clientVars>>

(* Mutated: the command is not bound to the context. *)
NeverKill == FALSE /\ UNCHANGED vars

(* The context ends - by the time limit, a DELETE or, unless the operation *)
(* is persistent, the client's departure - and os/exec kills the command.  *)
Kill ==
  /\ command = "running"
  /\ command' = "killed"
  /\ UNCHANGED <<written, drainVars, kept, run, clientVars>>

Ended == command \in {"exited", "killed"}

-----------------------------------------------------------------------------
(***************************************************************************)
(* The two drains.  Nothing orders their calls of output; buf has a mutex. *)
(* Of two events that are written at once, any part may be lost or end up  *)
(* within the other: they are not alone.                                   *)
(***************************************************************************)
Fits(s) == written[s][taken[s] + 1] <= ScanLimit

Scan(s) ==
  /\ drain[s] = "scan"
  /\ taken[s] < Len(written[s])
  /\ Fits(s)
  /\ taken' = [taken EXCEPT ![s] = @ + 1]
  /\ drain' = [drain EXCEPT ![s] = "send"]
  /\ LET others == {t \in Sources \ {s} : drain[t] = "send"}
     IN  clash' = IF others = {} THEN clash ELSE clash \cup others \cup {s}
  /\ UNCHANGED <<pipeVars, buf, kept, run, clientVars>>

(* A line that is too long ends the scanner; its error is not looked at    *)
(* and the pipe is not read any further.                                   *)
TooLong(s) ==
  /\ drain[s] = "scan"
  /\ taken[s] < Len(written[s])
  /\ ~Fits(s)
  /\ drain' = [drain EXCEPT ![s] = "done"]
  /\ UNCHANGED <<pipeVars, taken, clash, buf, kept, run, clientVars>>

(* Mutated: cmd.Wait is called first, and closes pipes that hold lines. *)
EndOfCommand(s) ==
  /\ drain[s] = "scan"
  /\ Ended
  /\ drain' = [drain EXCEPT ![s] = "done"]
  /\ UNCHANGED <<pipeVars, taken, clash, buf, kept, run, clientVars>>

EndOfFile(s) ==
  /\ drain[s] = "scan"
  /\ taken[s] = Len(written[s])
  /\ Ended
  /\ drain' = [drain EXCEPT ![s] = "done"]
  /\ UNCHANGED <<pipeVars, taken, clash, buf, kept, run, clientVars>>

SendLine(s) ==
  /\ drain[s] = "send"
  /\ Send([what |-> "log", from |-> s, at |-> taken[s], alone |-> s \notin clash])
  /\ drain' = [drain EXCEPT ![s] = "store"]
  /\ clash' = clash \ {s}
  /\ UNCHANGED <<pipeVars, taken, buf, kept, run>>

Store(s) ==
  /\ drain[s] = "store"
  /\ buf' = Append(buf, [from |-> s, at |-> taken[s], line |-> written[s][taken[s]]])
  /\ drain' = [drain EXCEPT ![s] = "scan"]
  /\ UNCHANGED <<pipeVars, taken, clash, kept, run, clientVars>>

-----------------------------------------------------------------------------
(***************************************************************************)
(* Run and its handler.                                                    *)
(***************************************************************************)
OpenStream ==
  /\ run = "open"
  /\ Send([what |-> "start"])
  /\ run' = "start"
  /\ UNCHANGED <<pipeVars, drainVars, kept>>

Start ==
  /\ run = "start"
  /\ command' = "running"
  /\ run' = "drain"
  /\ UNCHANGED <<written, drainVars, kept, clientVars>>

StartFails ==
  /\ run = "start"
  /\ Send([what |-> "error"])
  /\ run' = "answer"
  /\ UNCHANGED <<pipeVars, drainVars, kept>>

(* Mutated: the wait group counts one of the drains only. *)
OneDrained ==
  /\ run = "drain"
  /\ \E s \in Sources : drain[s] = "done"
  /\ run' = "wait"
  /\ UNCHANGED <<pipeVars, drainVars, kept, clientVars>>

Drained ==
  /\ run = "drain"
  /\ \A s \in Sources : drain[s] = "done"
  /\ run' = "wait"
  /\ UNCHANGED <<pipeVars, drainVars, kept, clientVars>>

Wait ==
  /\ run = "wait"
  /\ Ended
  /\ run' = "save"
  /\ UNCHANGED <<pipeVars, drainVars, kept, clientVars>>

(* The bytes of the lines in some places: each line has as many as it is   *)
(* wide.                                                                   *)
Bytes(lines, places) == UNION {{i} \X (1..lines[i].line) : i \in places}
Width(lines) == Cardinality(Bytes(lines, 1..Len(lines)))
Before(lines, i) == Cardinality(Bytes(lines, 1..i - 1))

(* Mutated: it keeps the beginning. *)
TruncateEnd(lines) ==
  [marked |-> Width(lines) > StoreLimit,
   lines |-> SelectSeq(lines, LAMBDA l : \E i \in 1..Len(lines) :
                         lines[i] = l /\ Before(lines, i + 1) <= StoreLimit)]

(* Of the last StoreLimit bytes, what stands before the first newline is   *)
(* dropped as a partial line, even where it is a whole one; a marker is    *)
(* put in front of the rest.                                               *)
Truncate(lines) ==
  IF Width(lines) <= StoreLimit
  THEN [marked |-> FALSE, lines |-> lines]
  ELSE LET inside == {i \in 1..Len(lines) :
                        Before(lines, i) > Width(lines) - StoreLimit}
       IN  [marked |-> TRUE,
            lines |-> SubSeq(lines, Len(lines) - Cardinality(inside) + 1, Len(lines))]

(* How long the text is that goes to the history. *)
Stored(text) == Width(text.lines) + (IF text.marked THEN MarkerWidth ELSE 0)

Save ==
  /\ run = "save"
  /\ kept' = Truncate(buf)
  /\ run' = "answer"
  /\ UNCHANGED <<pipeVars, drainVars, clientVars>>

Answer ==
  /\ run = "answer"
  /\ Send([what |-> "done"])
  /\ run' = "over"
  /\ UNCHANGED <<pipeVars, drainVars, kept>>

-----------------------------------------------------------------------------
Drain(s) == Scan(s) \/ TooLong(s) \/ EndOfFile(s) \/ SendLine(s) \/ Store(s)
Body == OpenStream \/ Start \/ StartFails \/ Drained \/ Wait \/ Save \/ Answer

Next ==
  \/ Body
  \/ \E s \in Sources : Drain(s) \/ \E width \in Widths : Write(s, width)
  \/ CommandExits
  \/ Kill
  \/ ClientReads
  \/ ClientLeaves

(* Goroutines run, the time limit ends the command, and a client that      *)
(* stays goes on reading.                                                  *)
Spec ==
  /\ Init /\ [][Next]_vars
  /\ WF_vars(Body)
  /\ \A s \in Sources : WF_vars(Drain(s))
  /\ WF_vars(Kill)
  /\ WF_vars(ClientReads)

-----------------------------------------------------------------------------
(***************************************************************************)
(* Properties.                                                             *)
(***************************************************************************)
(* Where a pipe's lines stand in the response and in the captured output.  *)
LogEvents(s) == {i \in 1..Len(stream) : stream[i].what = "log" /\ stream[i].from = s}
Captured(s) == {i \in 1..Len(buf) : buf[i].from = s}

(* The client is sent each pipe's lines in their order and without a gap;  *)
(* "done" is the last event, and by then every captured line was sent.     *)
DoneIsLast ==
  /\ \A s \in Sources : \A i \in LogEvents(s) :
       stream[i].at = Cardinality(LogEvents(s) \cap (1..i))
  /\ \A i \in 1..Len(stream) : stream[i].what = "done" => i = Len(stream)
  /\ run = "over" =>
       /\ stream # <<>> /\ stream[Len(stream)].what = "done"
       /\ \A s \in Sources : Cardinality(LogEvents(s)) = Cardinality(Captured(s))

(* What goes to the history is the end of what was captured, in full or    *)
(* marked as cut: no more lines than the limit allows, and no fewer, give  *)
(* or take one.  The marker is not counted (see StoredFits).               *)
KeptIsTail ==
  kept # Absent =>
    /\ IsSuffix(kept.lines, buf)
    /\ kept.marked <=> kept.lines # buf
    /\ Width(kept.lines) <= StoreLimit
    /\ kept.marked => LET next == buf[Len(buf) - Len(kept.lines)]
                   IN  Width(kept.lines) + next.line >= StoreLimit

(* Every run whose client stays and reads, or leaves, is answered.         *)
StreamEnds == <>(run = "over")

Spoiled ==
  \/ command = "killed"
  \/ \E s \in Sources : \E i \in 1..Len(written[s]) : written[s][i] > ScanLimit

(* The refinement mapping: a line is in the log once its drain has stored  *)
(* it, and the outcome is known once the output is kept.                   *)
InLog(s) == taken[s] - (IF drain[s] \in {"send", "store"} THEN 1 ELSE 0)
Merged == [s \in Sources |-> InLog(s)]
Outcome == IF kept = Absent THEN "open" ELSE IF Spoiled THEN "cut" ELSE "whole"

Log == INSTANCE MergedLog
  WITH Lines <- Widths, merged <- Merged, log <- buf, outcome <- Outcome

(* The captured output is a merge of the two pipes, and misses nothing of  *)
(* a command that ended by itself and wrote no line that is too long.      *)
(* What it misses of the others is lost without a word: no part of the     *)
(* code tells a whole output from one that a long line has cut short.      *)
ImplementsMergedLog == Log!Spec

(* The text in the history is within the limit (runner.go:459 "cap stored  *)
(* output at 64 KiB").  The code does not keep to this; no run has it.     *)
StoredFits == kept # Absent => Stored(kept) <= StoreLimit

=============================================================================
