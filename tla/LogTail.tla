------------------------------ MODULE LogTail ------------------------------
(***************************************************************************)
(* The live log view: Caddy appends to a log file and rotates it,          *)
(* logtail.Tailer.Stream (backend/internal/caddy/logtail/tailer.go)        *)
(* follows it by polling, and CaddyLogsHandler.Stream passes the lines to  *)
(* the browser through a channel of bounded capacity.                      *)
(*                                                                         *)
(* Everything Caddy ever logs is one sequence of pieces 1, 2, 3, ...: an   *)
(* odd piece begins a line, the even one after it ends it (it holds the    *)
(* newline).  The file in place holds the pieces from fileFrom + 1 on, so  *)
(* its size is written - fileFrom.                                         *)
(***************************************************************************)
EXTENDS Integers, Sequences, FiniteSets

CONSTANTS
    MaxLines,       \* bound: lines Caddy logs
    MaxRotations,   \* bound: rotations
    Backfill,       \* lines sent before following (500)
    ChanCap         \* capacity of the handler's channel (256)

ASSUME LogAssumption ==
    /\ MaxLines \in Nat /\ MaxRotations \in Nat
    /\ Backfill \in Nat \ {0} /\ ChanCap \in Nat \ {0}

VARIABLES
    written,    \* pieces Caddy has written
    fileFrom,   \* pieces in rotated files
    inPlace,    \* the path names a file (FALSE in the middle of a rotation)
    rotations,  \* rotations begun
    tpc,        \* control point of the tailer goroutine
    offset, carry,
    statSize,   \* fi.Size() of this tick
    out,        \* lines this tick (or the backfill) still has to send
    startAt,    \* ghost: pieces written when Stream took its offset
    startRot,   \* ghost: rotations at that time
    channel,    \* lines: the channel between tailer and handler
    hpc,        \* the handler: "serving" or "returned"
    ctxDone,    \* r.Context() is cancelled
    shown       \* lines the browser has

logVars == <<written, fileFrom, inPlace, rotations, tpc, offset, carry, statSize,
             out, startAt, startRot, channel, hpc, ctxDone, shown>>
caddyVars == <<written, fileFrom, inPlace, rotations>>
tailVars == <<tpc, offset, carry, statSize, out, startAt, startRot>>
viewVars == <<hpc, ctxDone, shown>>

TailPoints == {"backfill", "sendBackfill", "start", "tick", "read", "send", "done"}

LogInit ==
    /\ written \in {0, 2} /\ fileFrom = 0 /\ inPlace \in BOOLEAN /\ rotations = 0
    /\ written > 0 => inPlace
    /\ tpc = "backfill" /\ offset = 0 /\ carry = <<>> /\ statSize = 0 /\ out = <<>>
    /\ startAt = 0 /\ startRot = 0
    /\ channel = <<>> /\ hpc = "serving" /\ ctxDone = FALSE /\ shown = <<>>

Pieces(from, to) == [i \in 1 .. to - from |-> from + i]
EndsLine(piece) == piece % 2 = 0

\* The k-th smallest element of a set of numbers.
Nth(set, k) == CHOOSE i \in set : Cardinality({j \in set : j < i}) = k - 1

\* A run of pieces cut after every newline; the rest is the partial last line.
Cut(pieces) ==
    LET ends == {i \in DOMAIN pieces : EndsLine(pieces[i])}
        end(k) == IF k = 0 THEN 0 ELSE Nth(ends, k)
    IN  [lines |-> [k \in 1 .. Cardinality(ends) |-> SubSeq(pieces, end(k - 1) + 1, end(k))],
         rest |-> SubSeq(pieces, end(Cardinality(ends)) + 1, Len(pieces))]

Size == written - fileFrom
------------------------------------------------------------------------------
\* Caddy writes part of a line, and rotates between two lines: the file is
\* renamed, then a new one is created under the path.
LogWrite ==
    /\ inPlace /\ written < 2 * MaxLines
    /\ written' = written + 1
    /\ UNCHANGED <<fileFrom, inPlace, rotations, tailVars, channel, viewVars>>

LogRotate ==
    /\ inPlace /\ Size > 0 /\ EndsLine(written) /\ rotations < MaxRotations
    /\ inPlace' = FALSE
    /\ rotations' = rotations + 1
    /\ UNCHANGED <<written, fileFrom, tailVars, channel, viewVars>>

LogCreate ==
    /\ ~inPlace
    /\ inPlace' = TRUE
    /\ fileFrom' = written
    /\ UNCHANGED <<written, rotations, tailVars, channel, viewVars>>
------------------------------------------------------------------------------
\* LastLines: the trailing lines, a last line without newline among them
\* (bufio.Scanner returns it), nothing when there is no file.
LastLines(n) ==
    LET cut == Cut(Pieces(fileFrom, written))
        all == IF cut.rest = <<>> THEN cut.lines ELSE Append(cut.lines, cut.rest)
    IN  IF ~inPlace THEN <<>>
        ELSE IF Len(all) <= n THEN all ELSE SubSeq(all, Len(all) - n + 1, Len(all))

\* Any other error ends the stream.
ReadBackfill ==
    /\ tpc = "backfill"
    /\ \/ tpc' = "sendBackfill" /\ out' = LastLines(Backfill)
       \/ tpc' = "done" /\ out' = out
    /\ UNCHANGED <<offset, carry, statSize, startAt, startRot, caddyVars, channel, viewVars>>

Sending == {"sendBackfill", "send"}

\* out <- line, in the backfill and in a tick.
SendLine ==
    /\ tpc \in Sending /\ out # <<>> /\ Len(channel) < ChanCap
    /\ channel' = Append(channel, Head(out))
    /\ out' = Tail(out)
    /\ UNCHANGED <<tpc, offset, carry, statSize, startAt, startRot, caddyVars, viewVars>>

\* Mutant of TakeOffset: the file is followed from its start.
TakeOffsetZero ==
    /\ tpc = "sendBackfill" /\ out = <<>>
    /\ tpc' = "tick"
    /\ offset' = 0
    /\ startAt' = written
    /\ startRot' = rotations
    /\ UNCHANGED <<carry, statSize, out, caddyVars, channel, viewVars>>

\* The offset is the size at a Stat of its own, after the backfill.
TakeOffset ==
    /\ tpc = "sendBackfill" /\ out = <<>>
    /\ tpc' = "tick"
    /\ offset' = IF inPlace THEN Size ELSE 0
    /\ startAt' = written
    /\ startRot' = rotations
    /\ UNCHANGED <<carry, statSize, out, caddyVars, channel, viewVars>>

\* Mutant of TailTick: the last byte counts as read.
TailTickShort ==
    /\ tpc = "tick" /\ inPlace
    /\ statSize' = Size
    /\ offset' = IF Size < offset THEN 0 ELSE offset
    /\ carry' = IF Size < offset THEN <<>> ELSE carry
    /\ tpc' = IF Size <= offset' + 1 THEN "tick" ELSE "read"
    /\ UNCHANGED <<out, startAt, startRot, caddyVars, channel, viewVars>>

\* A tick: no file, or nothing new, waits for the next one; a file shorter than
\* the offset was rotated and is read from its start.
TailTick ==
    /\ tpc = "tick" /\ inPlace
    /\ statSize' = Size
    /\ offset' = IF Size < offset THEN 0 ELSE offset
    /\ carry' = IF Size < offset THEN <<>> ELSE carry
    /\ tpc' = IF Size = offset' THEN "tick" ELSE "read"
    /\ UNCHANGED <<out, startAt, startRot, caddyVars, channel, viewVars>>

LesserOf(m, n) == IF m < n THEN m ELSE n
\* Seek and Read find what the path names now, from the offset on.
ReadNow == Pieces(fileFrom + offset, LesserOf(fileFrom + statSize, written))
AfterRead(read) == offset + Len(read)

\* Mutant of TailRead: the partial line of the tick before is forgotten.
TailReadNoCarry ==
    /\ tpc = "read" /\ inPlace
    /\ LET read == IF fileFrom + offset < written THEN ReadNow ELSE <<>>
       IN  /\ offset' = AfterRead(read)
           /\ out' = Cut(read).lines
           /\ carry' = Cut(read).rest
    /\ tpc' = "send"
    /\ UNCHANGED <<statSize, startAt, startRot, caddyVars, channel, viewVars>>

TailRead ==
    /\ tpc = "read"
    /\ LET read == IF fileFrom + offset < written THEN ReadNow ELSE <<>>
           cut == Cut(carry \o read)
       IN \/ /\ inPlace
             /\ offset' = AfterRead(read)
             /\ out' = cut.lines
             /\ carry' = cut.rest
             /\ tpc' = "send"
          \/ /\ ~inPlace       \* os.Open fails
             /\ tpc' = "tick"
             /\ UNCHANGED <<offset, out, carry>>
    /\ UNCHANGED <<statSize, startAt, startRot, caddyVars, channel, viewVars>>

TailSent ==
    /\ tpc = "send" /\ out = <<>>
    /\ tpc' = "tick"
    /\ UNCHANGED <<offset, carry, statSize, out, startAt, startRot, caddyVars, channel, viewVars>>

\* Mutant of TailStops: a plain send, only the tick watches the context.
TailStopsAtTick ==
    /\ ctxDone /\ tpc = "tick"
    /\ tpc' = "done"
    /\ UNCHANGED <<offset, carry, statSize, out, startAt, startRot, caddyVars, channel, viewVars>>

\* Both selects of Stream, waiting to send and waiting for a tick, watch the context.
TailStops ==
    /\ ctxDone
    /\ tpc = "tick" \/ (tpc \in Sending /\ out # <<>>)
    /\ tpc' = "done"
    /\ UNCHANGED <<offset, carry, statSize, out, startAt, startRot, caddyVars, channel, viewVars>>

TailStep == ReadBackfill \/ SendLine \/ TakeOffset \/ TailTick \/ TailRead \/ TailSent \/ TailStops
------------------------------------------------------------------------------
\* The handler shows a line, or fails to and returns; net/http cancels the
\* context of a handler that returned.
ShowLine ==
    /\ hpc = "serving" /\ channel # <<>>
    /\ channel' = Tail(channel)
    /\ \/ shown' = Append(shown, Head(channel)) /\ UNCHANGED <<hpc, ctxDone>>
       \/ hpc' = "returned" /\ ctxDone' = TRUE /\ shown' = shown
    /\ UNCHANGED <<caddyVars, tailVars>>

Disconnect ==
    /\ ~ctxDone
    /\ ctxDone' = TRUE
    /\ UNCHANGED <<hpc, shown, channel, caddyVars, tailVars>>

HandlerStops ==
    /\ hpc = "serving" /\ ctxDone
    /\ hpc' = "returned"
    /\ UNCHANGED <<ctxDone, shown, channel, caddyVars, tailVars>>

LogNext ==
    \/ LogWrite \/ LogRotate \/ LogCreate
    \/ TailStep
    \/ ShowLine \/ Disconnect \/ HandlerStops

\* The ticker fires for ever, goroutines are scheduled, and a connection that
\* stays open takes what is written to it.  A Go select with several cases ready
\* takes one at random, so a cancelled context is noticed some time.
LogFair ==
    /\ WF_logVars(TailStep) /\ SF_logVars(TailStops)
    /\ WF_logVars(ShowLine) /\ SF_logVars(HandlerStops)

LogSpec == LogInit /\ [][LogNext]_logVars /\ LogFair
------------------------------------------------------------------------------
\* What Stream has taken from the files and has not thrown away, in order.
Sent == shown \o channel \o out
Taken == Append(Sent, carry)

\* No piece of the log is sent twice or before an earlier one, whatever rotations
\* and appends come between the backfill, the Stat and the reads.
SentInOrder ==
    hpc = "serving" =>
        \A i, j \in DOMAIN Taken : \A x \in DOMAIN Taken[i], y \in DOMAIN Taken[j] :
            i < j \/ (i = j /\ x < y) => Taken[i][x] < Taken[j][y]

Following == tpc \in {"tick", "read", "send"} /\ hpc = "serving" /\ rotations = startRot

\* These lines are what was streamed, after a backfill of lines begun before.
StreamedOf(sent, lines) ==
    LET backfilled == Len(sent) - Len(lines)
    IN  /\ backfilled >= 0
        /\ \A i \in 1 .. backfilled : sent[i][1] <= startAt
        /\ \A k \in 1 .. Len(lines) : sent[backfilled + k] = lines[k]

\* Until the file is rotated, the stream is the log from the offset it started
\* at: no gap, every line whole but the one that was being written at the start,
\* the partial line kept in carry.
StreamIsLog ==
    Following =>
        LET cut == Cut(Pieces(startAt, fileFrom + offset))
        IN  StreamedOf(Sent, cut.lines) /\ carry = cut.rest

\* Once Caddy stops logging, every line ended since the start reaches a browser
\* that stays connected, unless the file was rotated.
LinesArrive ==
    <>[](\/ ctxDone \/ tpc = "done" \/ rotations # startRot
         \/ StreamedOf(shown, Cut(Pieces(startAt, written)).lines))

\* "The tailer goroutine is stopped via r.Context() cancellation - no goroutine
\* leak" (caddy_logs_handler.go:79): also when the channel is full and nobody
\* reads it any more.
NoLeak == ctxDone ~> (tpc = "done" /\ hpc = "returned")
==============================================================================
