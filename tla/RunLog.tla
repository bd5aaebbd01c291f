-------------------------------- MODULE RunLog -------------------------------
(***************************************************************************)
(* The log of a run (internal/runlog): events are kept in memory, up to a  *)
(* limit, and the whole log is put in the store from time to time and at   *)
(* the end.  An event is a record; what matters here is its name "ev".     *)
(***************************************************************************)
EXTENDS Naturals, SequencesExt

CONSTANTS
    MaxLines,     \* maxLogBytes, in lines
    MaxPuts       \* how often the log is put in the store before the end

ASSUME RunLogAssumption == MaxLines \in Nat /\ MaxPuts \in Nat

VARIABLES
    lines,        \* the lines in memory
    truncated,    \* the limit was reached
    logFailed,    \* the log could not be put
    puts,         \* how often it was put before the end
    logFile,      \* the log in the store
    endFailed     \* history: it could not be put at the end of the run

logVars == <<lines, truncated, logFailed, puts, logFile, endFailed>>

Marker == [ev |-> "log_truncated"]

LogInit ==
    /\ lines = << >>
    /\ truncated = FALSE
    /\ logFailed = FALSE
    /\ puts = 0
    /\ logFile = << >>
    /\ endFailed = FALSE

FaultyAlwaysKept(e) == FALSE        \* the limit is for every event

(* alwaysKeep: the events that survive the limit.                          *)
AlwaysKept(e) == e.ev \in {"run_end", "download_failed", "video_stop", "error"}

(* record: the lines and the flag after one more event.                    *)
Recorded(before, e) ==
    IF before.truncated /\ ~AlwaysKept(e) THEN before
    ELSE IF Len(before.lines) < MaxLines
    THEN [before EXCEPT !.lines = Append(@, e)]
    ELSE [lines |-> before.lines \o (IF before.truncated THEN << >> ELSE <<Marker>>)
                                 \o (IF AlwaysKept(e) THEN <<e>> ELSE << >>),
          truncated |-> TRUE]

RecordedAll(events) ==
    FoldLeft(Recorded, [lines |-> lines, truncated |-> truncated], events)

(* flush: the log that was put replaces the one before.  A Put that failed *)
(* may have taken effect.                                                  *)
PutSucceeds(l) ==
    /\ logFile' = l
    /\ UNCHANGED logFailed

PutFails(l) ==
    /\ logFile' \in {logFile, l}
    /\ logFailed' = TRUE

(* maybeFlush, when enough time passed since the last Put.                 *)
MaybeFlush(l) ==
    /\ ~logFailed
    /\ puts < MaxPuts
    /\ puts' = puts + 1
    /\ PutSucceeds(l) \/ PutFails(l)

FaultyLog(events, attached) ==      \* put before the store may be used
    LET after == RecordedAll(events)
    IN  /\ lines' = after.lines
        /\ truncated' = after.truncated
        /\ UNCHANGED endFailed
        /\ UNCHANGED <<logFailed, puts, logFile>> \/ MaybeFlush(after.lines)

(* Event and Progress: the log is only put when it has a store.            *)
Log(events, attached) ==
    LET after == RecordedAll(events)
    IN  /\ lines' = after.lines
        /\ truncated' = after.truncated
        /\ UNCHANGED endFailed
        /\ \/ UNCHANGED <<logFailed, puts, logFile>>
           \/ attached /\ MaybeFlush(after.lines)

(* The last event, and Close, which puts the log even when a Put before it *)
(* failed.                                                                 *)
LogEnd(e) ==
    LET after == RecordedAll(<<e>>)
    IN  /\ lines' = after.lines
        /\ truncated' = after.truncated
        /\ \/ PutSucceeds(after.lines) /\ endFailed' = FALSE
           \/ PutFails(after.lines) /\ endFailed' = TRUE
        /\ UNCHANGED puts

=============================================================================
