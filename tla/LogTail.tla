------------------------------- MODULE LogTail -------------------------------
(***************************************************************************)
(* scripts/analysis/parse_centipede_log.py, the "log_parser" child of      *)
(* start.sh: it follows run.log by a byte offset it keeps in               *)
(* run.log.offset and appends rows to regatoni-batch-stats.tsv and         *)
(* regatoni-events.jsonl.  It may be signalled or killed at any point and  *)
(* launched again.  Nothing in the repository shortens run.log; an offset  *)
(* larger than the log stands for one that was replaced between launches.  *)
(***************************************************************************)
EXTENDS Naturals, Sequences, FiniteSets, SequencesExt

CONSTANTS
    Kinds,         \* what a line can be, other than noise
    NL,            \* the newline
    MaxLog,        \* bound: bytes of the log
    MaxLaunches    \* bound: launches of the parser

ASSUME LogAssumption ==
    NL \notin Kinds /\ MaxLog \in Nat /\ MaxLaunches \in Nat

VARIABLES
    log,           \* run.log: what Centipede and the oracles have written
    files,         \* the two outputs: kind -> rows, named by their line's end
    header,        \* headers in regatoni-batch-stats.tsv
    offset,        \* run.log.offset: a number, or what is not one
    pc,            \* where the parser is
    mode,          \* --watch, or one shot
    last,          \* its offset in memory
    cur,           \* the size of the log it has read
    pending,       \* the lines of its chunk it has still to write
    stop,          \* SIGTERM or SIGINT has come
    launches

vars == <<log, files, header, offset, pc, mode, last, cur, pending, stop, launches>>
parser == <<pc, mode, last, cur, pending, stop>>

Missing == MaxLog + 2  \* no offset file, or no number in it
Stale == MaxLog + 1    \* the offset of a longer log

-----------------------------------------------------------------------------
Init ==
    /\ log = <<>> /\ files = [k \in Kinds |-> <<>>] /\ header = 0
    /\ offset \in {Missing, Stale}
    /\ pc = "down" /\ mode = "watch" /\ stop = FALSE
    /\ last = 0 /\ cur = 0 /\ pending = {}
    /\ launches = 0

Write ==
    /\ Len(log) < MaxLog
    /\ \E t \in Kinds \cup {NL} : log' = Append(log, t)
    /\ UNCHANGED <<files, header, offset, parser, launches>>

(* Outputs.open and read_offset.                                           *)
HeaderIfEmpty == IF header = 0 THEN 1 ELSE header
NoReadOffset == 0  \* mutant: a launch starts from the beginning
ReadOffset == IF offset = Missing THEN 0 ELSE offset

Launch(m) ==
    /\ pc = "down"
    /\ launches < MaxLaunches
    /\ launches' = launches + 1
    /\ header' = HeaderIfEmpty
    /\ pc' = "top" /\ mode' = m /\ stop' = FALSE
    /\ last' = ReadOffset /\ cur' = 0 /\ pending' = {}
    /\ UNCHANGED <<log, files, offset>>

(* The size of the log; an offset beyond it starts from the beginning.     *)
NoRestart(size, from) == from  \* mutant: a replaced log is waited for
Restart(size, from) == IF size < from THEN 0 ELSE from
Poll ==
    /\ pc = "top" /\ ~(mode = "watch" /\ stop)
    /\ cur' = Len(log)
    /\ last' = Restart(Len(log), last)
    /\ pc' = IF Len(log) > last' THEN "read" ELSE "sleep"
    /\ UNCHANGED <<log, files, header, offset, mode, pending, stop, launches>>

(* The chunk from last to the size that was read, cut after its last       *)
(* newline: an incomplete line stays for the next poll.                    *)
AllLines == {i \in (last + 1)..cur : log[i] = NL \/ i = cur}  \* mutant: no rfind
CompleteLines == {i \in (last + 1)..cur : log[i] = NL}

ReadChunk ==
    /\ pc = "read"
    /\ pending' = CompleteLines
    /\ IF CompleteLines = {} THEN pc' = "sleep" /\ UNCHANGED cur
       ELSE /\ pc' = "write"
            /\ cur' = CHOOSE i \in CompleteLines : \A j \in CompleteLines : j <= i
    /\ UNCHANGED <<log, files, header, offset, mode, last, stop, launches>>

(* parse_line on a line of the chunk: a row of some kind, or noise.        *)
IsRow(k, end) ==
    /\ end > last + 1 /\ log[end - 1] = k
    /\ end = last + 2 \/ log[end - 2] = NL

(* process_chunk writes and flushes row after row.                         *)
WriteRow ==
    /\ pc = "write"
    /\ \E end \in pending :
         /\ \A e \in pending : end <= e
         /\ files' = [k \in Kinds |->
                        IF IsRow(k, end) THEN Append(files[k], end) ELSE files[k]]
         /\ pending' = pending \ {end}
    /\ UNCHANGED <<log, header, offset, pc, mode, last, cur, stop, launches>>

(* write_offset replaces the file in one step, after the rows.             *)
Size == Len(log)  \* mutant: the size is saved, not the end of the last line
NewOffset == cur
SaveOffset ==
    /\ pc = "write" /\ pending = {}
    /\ last' = NewOffset
    /\ offset' = NewOffset
    /\ pc' = "sleep"
    /\ UNCHANGED <<log, files, header, mode, cur, pending, stop, launches>>

(* A signal only ends the loop at its next turn.                           *)
Wake ==
    /\ pc = "sleep"
    /\ pc' = IF mode = "watch" THEN "top" ELSE "exit"
    /\ UNCHANGED <<log, files, header, offset, mode, last, cur, pending, stop, launches>>

Leave ==
    /\ pc = "exit" \/ (pc = "top" /\ mode = "watch" /\ stop)
    /\ pc' = "down"
    /\ UNCHANGED <<log, files, header, offset, mode, last, cur, pending, stop, launches>>

Signal ==
    /\ pc # "down" /\ mode = "watch" /\ ~stop
    /\ stop' = TRUE
    /\ UNCHANGED <<log, files, header, offset, pc, mode, last, cur, pending, launches>>

Kill ==
    /\ pc # "down"
    /\ pc' = "down"
    /\ UNCHANGED <<log, files, header, offset, mode, last, cur, pending, stop, launches>>

Parse == Poll \/ ReadChunk \/ WriteRow \/ SaveOffset \/ Wake \/ Leave
Next ==
    \/ Write \/ Signal \/ Kill
    \/ \E m \in {"watch", "once"} : Launch(m)
    \/ Parse

(* The parser is sequential; its launches, signals and kills are not due.  *)
Spec == Init /\ [][Next]_vars /\ WF_vars(Parse)

-----------------------------------------------------------------------------
TypeOK ==
    /\ log \in Seq(Kinds \cup {NL})
    /\ files \in [Kinds -> Seq(1..MaxLog)]
    /\ header \in 0..1
    /\ offset \in 0..Missing
    /\ pc \in {"down", "top", "read", "write", "sleep", "exit"}
    /\ mode \in {"watch", "once"} /\ stop \in BOOLEAN
    /\ last \in 0..Stale /\ cur \in 0..MaxLog /\ pending \subseteq 1..MaxLog
    /\ launches \in 0..MaxLaunches

(* The rows of a file without what a relaunched parser has repeated.       *)
Distinct(rows) ==
    LET upTo[n \in Nat] ==
          IF n = 0 THEN <<>>
          ELSE IF \E j \in 1..(n - 1) : rows[j] = rows[n] THEN upTo[n - 1]
          ELSE Append(upTo[n - 1], rows[n])
    IN  upTo[Len(rows)]

(* The parser implements LogFeed up to repetitions: seen without the rows  *)
(* that it writes again after a kill, it passes the complete lines on one  *)
(* by one from the start of the log, each kind in order, none skipped and  *)
(* none torn, whatever the offset file was, and wherever a parser was      *)
(* killed between its rows and its offset.                                 *)
Feed == INSTANCE LogFeed WITH fed <- [k \in Kinds |-> Distinct(files[k])]
FeedsEveryLine == Feed!Spec

(* The offset on disk can be trusted: it is the end of a line, and the     *)
(* rows of every line before it are in the files, whenever the parser is   *)
(* killed; so a launch that starts there leaves out nothing.               *)
Saved == offset \in 0..MaxLog
OffsetIsCovered ==
    Saved =>
        /\ offset <= Len(log)
        /\ offset > 0 => log[offset] = NL
        /\ \A k \in Kinds : Feed!Rows(log, k, offset) \subseteq Range(files[k])

(* "Persist byte offset across restarts": what is before the offset on     *)
(* disk is never written again, by whichever launch.                       *)
NothingBeforeOffsetRepeats ==
    [][\A k \in Kinds :
         (files'[k] # files[k] /\ Saved) => files'[k][Len(files'[k])] > offset]_vars

(* While the parser lives, every complete line is eventually passed on:    *)
(* unless it is down for good, it is again and again level with the log.   *)
Level == \A k \in Kinds : Range(files[k]) = Feed!Rows(log, k, Len(log))
CatchesUp == <>[](pc = "down") \/ []<>Level
=============================================================================
