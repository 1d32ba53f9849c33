------------------------------ MODULE LogReplay ------------------------------
(***************************************************************************)
(* UProtocolLogWriter and UProtocolLogReader.  The writer puts every       *)
(* packet into a file with the time since its Start.  A reader's thread    *)
(* hands the packets to its rule when their time has come, counted from    *)
(* its own Start, or from the first packet if CutFirstInterval is set, and *)
(* reports the end of the file as the loss of the connection.              *)
(*                                                                         *)
(* The program that writes may end before all it wrote is in the file,     *)
(* which then ends within a record.  The rule is that of the writer, for   *)
(* which a record is a whole packet.  Time is counted in ticks.            *)
(***************************************************************************)
EXTENDS Integers, Sequences

CONSTANTS
    MaxRecords,      \* bound: records of a log
    MaxLogTime,      \* bound: the time until which is written and started
    MaxReplays       \* bound: calls of Start of the reader

ASSUME LogAssumption == {MaxRecords, MaxLogTime, MaxReplays} \subseteq Nat

VARIABLES
    clock,           \* FDateTime::Now
    log,             \* the records in the file: their times
    torn,            \* whether the last record is only in part in the file
    writing,         \* Writer of the writer
    writeStart,      \* its StartTime
    cutFirst,        \* CutFirstInterval
    replay,          \* the reader's thread
    stopReplay,      \* the thread was told to stop
    next,            \* the position in the file, as the number of a record
    current,         \* CurrentLogTime, -1 if there is none
    startTime,       \* StartTime of the reader
    logUser,         \* the user's thread in Start or Close of the reader
    replays,         \* the number of calls of Start
    startedAt,       \* ghost: the time of the last Start
    replayed,        \* ghost: per packet handed to the rule, record and time
    logHeard         \* ghost: what was reported to the manager last

writerVars == <<log, torn, writing, writeStart>>
replayVars == <<replay, next, current, startTime, replayed, logHeard>>
logCalls   == <<stopReplay, logUser, replays, startedAt, cutFirst>>
logVars    == <<clock, writerVars, replayVars, logCalls>>

NothingLogged ==
    /\ log = <<>> /\ torn = FALSE /\ writing = FALSE /\ writeStart = 0
    /\ cutFirst \in BOOLEAN
    /\ replay = "none" /\ stopReplay = FALSE /\ next = 1 /\ current = -1 /\ startTime = 0
    /\ logUser = "closed" /\ replays = 0 /\ startedAt = 0 /\ replayed = <<>>
    /\ logHeard = "nothing"

LogInit == clock = 0 /\ NothingLogged

Tick ==
    /\ clock < 3 * MaxLogTime
    /\ clock' = clock + 1
    /\ UNCHANGED <<writerVars, replayVars, logCalls>>

-----------------------------------------------------------------------------
(* The writer, before the log is read.                                     *)

StartWriter ==
    /\ replays = 0 /\ clock <= MaxLogTime
    /\ writing' = TRUE /\ writeStart' = clock
    /\ log' = <<>> /\ torn' = FALSE
    /\ UNCHANGED <<clock, replayVars, logCalls>>

WriteRecord ==
    /\ writing /\ clock <= MaxLogTime /\ Len(log) < MaxRecords
    /\ log' = Append(log, clock - writeStart)
    /\ UNCHANGED <<clock, torn, writing, writeStart, replayVars, logCalls>>

CloseWriter ==
    /\ writing
    /\ writing' = FALSE
    /\ UNCHANGED <<clock, log, torn, writeStart, replayVars, logCalls>>

(* The program ends: the file holds what had been flushed. *)
WriterDies ==
    /\ writing
    /\ writing' = FALSE
    /\ \E n \in 0 .. Len(log) : log' = SubSeq(log, 1, n) /\ torn' \in IF n = 0 THEN {FALSE} ELSE BOOLEAN
    /\ UNCHANGED <<clock, writeStart, replayVars, logCalls>>

-----------------------------------------------------------------------------
(* The reader's thread: ReadData.                                          *)

ReplayAt(pc) == replay' = pc /\ UNCHANGED <<clock, writerVars, logCalls>>

(* FODWorkerThread::Exit calls ReadEnd. *)
ReplayExits == ReplayAt("exited") /\ logHeard' = "disconnected"

IsEnd == next > Len(log)
IsDue == current <= clock - startTime

BeginPass ==
    /\ replay = "pass"
    /\ IF stopReplay THEN ReplayExits ELSE ReplayAt("loop") /\ UNCHANGED logHeard
    /\ UNCHANGED <<next, current, startTime, replayed>>

(* Nothing is left to read, or the next packet is not due.                 *)
EndPass ==
    /\ replay = "loop"
    /\ IF current < 0 THEN IsEnd ELSE ~IsDue
    /\ ReplayAt("pass")
    /\ UNCHANGED <<next, current, startTime, replayed, logHeard>>

GoOnReading ==
    /\ replay = "loop" /\ current < 0 /\ ~IsEnd
    /\ ReplayAt("read")
    /\ UNCHANGED <<next, current, startTime, replayed, logHeard>>

HandToRule ==
    /\ replay = "loop" /\ current >= 0 /\ IsDue
    /\ replayed' = Append(replayed, [record |-> next - 1, at |-> clock])
    /\ current' = -1
    /\ ReplayAt("read")
    /\ UNCHANGED <<next, startTime, logHeard>>

(* Mutant: the interval is cut anew by every record. *)
CutEveryInterval ==
    /\ replay = "read" /\ ~IsEnd /\ ~(torn /\ next = Len(log))
    /\ current' = log[next]
    /\ startTime' = IF cutFirst THEN startTime - log[next] ELSE startTime
    /\ next' = next + 1
    /\ ReplayAt("loop")
    /\ UNCHANGED <<replayed, logHeard>>

ReadRecord ==
    /\ replay = "read" /\ ~IsEnd /\ ~(torn /\ next = Len(log))
    /\ current' = log[next]
    /\ startTime' = IF cutFirst /\ next = 1 THEN startTime - log[next] ELSE startTime
    /\ next' = next + 1
    /\ ReplayAt("loop")
    /\ UNCHANGED <<replayed, logHeard>>

(* Less is left than a record takes. *)
ReadNoRecord ==
    /\ replay = "read" /\ (IsEnd \/ (torn /\ next = Len(log)))
    /\ ReplayExits
    /\ UNCHANGED <<next, current, startTime, replayed>>

ReplayStep ==
    \/ BeginPass \/ EndPass \/ GoOnReading \/ HandToRule \/ ReadRecord \/ ReadNoRecord

-----------------------------------------------------------------------------
(* Start and Close of the reader, on the user's thread.                    *)

StartReader ==
    /\ logUser = "closed" /\ ~writing /\ replays < MaxReplays /\ clock <= 2 * MaxLogTime
    /\ replays' = replays + 1
    /\ next' = 1 /\ current' = -1 /\ startTime' = clock
    /\ stopReplay' = FALSE
    /\ replay' = "pass" /\ logUser' = "starting"
    /\ startedAt' = clock /\ replayed' = <<>>
    /\ UNCHANGED <<clock, writerVars, cutFirst, logHeard>>

ReportReplay ==
    /\ logUser = "starting"
    /\ logUser' = "open" /\ logHeard' = "connected"
    /\ UNCHANGED <<clock, writerVars, replay, next, current, startTime, replayed, stopReplay,
                   replays, startedAt, cutFirst>>

(* Kill: Stop, and then the end of the thread. *)
StopReader ==
    /\ logUser = "open"
    /\ logUser' = "join" /\ stopReplay' = TRUE
    /\ UNCHANGED <<clock, writerVars, replayVars, replays, startedAt, cutFirst>>

CloseReader ==
    /\ logUser = "join" /\ replay = "exited"
    /\ logUser' = "closed"
    /\ UNCHANGED <<clock, writerVars, replayVars, stopReplay, replays, startedAt, cutFirst>>

LogCall == ReportReplay \/ CloseReader

-----------------------------------------------------------------------------
LogNext ==
    \/ Tick \/ StartWriter \/ WriteRecord \/ CloseWriter \/ WriterDies
    \/ ReplayStep \/ StartReader \/ StopReader \/ LogCall

(* Time passes, and every thread that can run runs. *)
LogFairness == WF_logVars(Tick) /\ WF_logVars(ReplayStep) /\ WF_logVars(LogCall)

LogSpec == LogInit /\ [][LogNext]_logVars /\ LogFairness

-----------------------------------------------------------------------------
Whole == IF torn THEN Len(log) - 1 ELSE Len(log)

(* Packets are replayed in the order they were written, each once and      *)
(* whole, and none before as much time has passed since Start as had when  *)
(* it was written, less the interval before the first one if that is cut.  *)
ReplayInTime ==
    /\ Len(replayed) <= Whole
    /\ \A i \in DOMAIN replayed :
          /\ replayed[i].record = i
          /\ replayed[i].at - startedAt >= log[i] - (IF cutFirst THEN log[1] ELSE 0)

(* A log that is not empty comes back as it was written: in order, in time *)
(* and to its last whole record, even if it breaks off within a record,    *)
(* and then its end is reported, unless the reader is closed first.        *)
ReplaysTheLog ==
    \A n \in 1 .. MaxReplays :
        replays = n /\ log # <<>> ~>
            \/ replay = "exited" /\ Len(replayed) = Whole /\ ReplayInTime
            \/ stopReplay
=============================================================================
