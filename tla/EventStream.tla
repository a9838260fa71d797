---------------------------- MODULE EventStream -----------------------------
(***************************************************************************)
(* One committed generation on its way from the provider to the caller.    *)
(*                                                                         *)
(* A reader task turns the provider's events into neutral items and owes   *)
(* exactly one terminal item.  A generation that a subscription pays for   *)
(* passes a recorder task, which writes the ledger when it ends; one on a  *)
(* direct route does not.  An encoder, polled by the caller's connection,  *)
(* writes the items in the format the caller asked for.  The tasks are     *)
(* joined by channels that hold one item.  The provider's connection may   *)
(* fail and the caller may hang up at any point.                           *)
(***************************************************************************)
EXTENDS Integers, Sequences

CONSTANTS
    ToolCalls,   \* the provider's tool-call indices
    MaxEvents    \* bound of the provider's events

ASSUME StreamAssumption == MaxEvents \in Nat

VARIABLES
    wireKind,    \* "chat" or "blocks": how the provider's wire starts a call
    format,      \* the caller's format: "chat", "anthropic" or "responses"
    recorded,    \* whether a recorder stands between reader and encoder
    eventsRead,  \* how many provider events were read
    reader,      \* the reader task: [up, owed, seen, terminal]
    fromReader,  \* the reader's channel
    recorder,    \* the recorder task: [up, finished, error, holding, record]
    fromRecorder,\* the recorder's channel
    encoder      \* the encoder, and what the caller has seen of it

streamVars == <<wireKind, format, recorded, eventsRead, reader, fromReader,
                recorder, fromRecorder, encoder>>

Text == [kind |-> "text", call |-> 0]
Start(i) == [kind |-> "start", call |-> i]
Arguments(i) == [kind |-> "arguments", call |-> i]
Finish == [kind |-> "finish", call |-> 0]
Failure == [kind |-> "failed", call |-> 0]
DoneItem == [kind |-> "done", call |-> 0]

NoItem == [kind |-> "none", call |-> 0]

StreamInit ==
    /\ wireKind \in {"chat", "blocks"}
    /\ format \in {"chat", "anthropic", "responses"}
    /\ recorded \in BOOLEAN
    /\ eventsRead = 0
    /\ reader = [up |-> TRUE, owed |-> <<>>, seen |-> {}, terminal |-> FALSE]
    /\ fromReader = <<>>
    /\ recorder = [up |-> recorded, finished |-> FALSE, error |-> FALSE,
                   holding |-> NoItem, record |-> "none"]
    /\ fromRecorder = <<>>
    /\ encoder = [here |-> TRUE, open |-> 0, blocks |-> <<>>,
                  tool |-> [i \in ToolCalls |-> 0], lateDelta |-> FALSE,
                  ended |-> "no", accounted |-> 0]

-----------------------------------------------------------------------------
(* The reader: providers/stream.rs and the three wires under it.           *)

\* The items of one fragment of a tool call.  The chat wire repeats the
\* index on every fragment and names the call only on the first; the other
\* wires start a call with an event of its own.
ChatFragment(i) ==
    IF i \in reader.seen THEN <<Arguments(i)>> ELSE <<Start(i), Arguments(i)>>

\* The receiving end of the reader's channel is dropped with its task.
ReaderHeard == IF recorded THEN recorder.up ELSE encoder.here /\ encoder.ended = "no"

ReadEvent(items, done) ==
    /\ reader.up
    /\ reader.owed = <<>>
    /\ eventsRead < MaxEvents
    /\ eventsRead' = eventsRead + 1
    /\ reader' = [reader EXCEPT !.owed = items, !.terminal = @ \/ done,
                     !.seen = @ \cup {items[n].call : n \in {m \in DOMAIN items :
                                                            items[m].kind = "start"}}]
    /\ UNCHANGED <<wireKind, format, recorded, fromReader, recorder, fromRecorder, encoder>>

ReadText == ReadEvent(<<Text>>, FALSE)

ReadCall(i) ==
    \/ wireKind = "chat" /\ ReadEvent(ChatFragment(i), FALSE)
    \/ wireKind = "blocks" /\ i \notin reader.seen /\ ReadEvent(<<Start(i)>>, FALSE)
    \/ wireKind = "blocks" /\ ReadEvent(<<Arguments(i)>>, FALSE)

\* The finish reason and the meter; on the block wires the terminal event
\* carries them.
ReadFinish(done) == ReadEvent(<<Finish>>, done)

\* `[DONE]`, message_stop: nothing to send, and the body is read on.
ReadTerminal == ReadEvent(<<>>, TRUE)

\* An error event, a body that is not JSON, a call with no index, id or name.
ReadBroken == ReadEvent(<<Failure>>, TRUE)

\* Fault: a body that simply ends is taken for a generation that finished.
EndOfBodyDone == <<DoneItem>>

\* The body ended: one terminal item is owed.
EndOfBody == IF reader.terminal THEN <<DoneItem>> ELSE <<Failure>>

ReadEnd ==
    /\ reader.up
    /\ reader.owed = <<>>
    /\ \E items \in {EndOfBody, <<Failure>>} :      \* or the read failed
          reader' = [reader EXCEPT !.owed = items]
    /\ UNCHANGED <<wireKind, format, recorded, eventsRead, fromReader, recorder,
                   fromRecorder, encoder>>

\* One item is sent at a time; a failure is the last one.  A send nobody can
\* receive ends the task.
SendItem ==
    /\ reader.up
    /\ reader.owed # <<>>
    /\ IF ReaderHeard
       THEN /\ fromReader = <<>>
            /\ fromReader' = <<Head(reader.owed)>>
            /\ reader' = [reader EXCEPT !.owed = Tail(@),
                             !.up = Head(reader.owed).kind \notin {"failed", "done"}]
       ELSE /\ reader' = [reader EXCEPT !.owed = <<>>, !.up = FALSE]
            /\ UNCHANGED fromReader
    /\ UNCHANGED <<wireKind, format, recorded, eventsRead, recorder, fromRecorder, encoder>>

-----------------------------------------------------------------------------
(* The recorder: dispatch/routed_stream.rs.                                *)

\* Fault: every end of the channel is taken for a generation that finished.
RecordAnswered(r) == "answered"

\* The verdict the ledger is given: a failure it saw, or no Done, is one.
RecordOf(r) == IF ~r.error /\ r.finished THEN "answered" ELSE "refused"

Recorded(r) == [r EXCEPT !.up = FALSE, !.holding = NoItem, !.record = RecordOf(r)]

Receive ==
    /\ recorder.up
    /\ recorder.holding = NoItem
    /\ \/ /\ fromReader # <<>>
          /\ fromReader' = <<>>
          /\ recorder' = [recorder EXCEPT !.holding = fromReader[1],
                             !.error = @ \/ fromReader[1].kind = "failed",
                             !.finished = @ \/ fromReader[1].kind = "done"]
       \/ /\ fromReader = <<>>
          /\ ~reader.up
          /\ recorder' = Recorded(recorder)
          /\ UNCHANGED fromReader
    /\ UNCHANGED <<wireKind, format, recorded, eventsRead, reader, fromRecorder, encoder>>

EncoderHears == encoder.here /\ encoder.ended = "no"

Forward ==
    /\ recorder.up
    /\ recorder.holding # NoItem
    /\ IF EncoderHears
       THEN /\ fromRecorder = <<>>
            /\ fromRecorder' = <<recorder.holding>>
            /\ recorder' = IF recorder.holding.kind \in {"failed", "done"}
                           THEN Recorded(recorder)
                           ELSE [recorder EXCEPT !.holding = NoItem]
       ELSE /\ recorder' = Recorded([recorder EXCEPT !.error = TRUE])
            /\ UNCHANGED fromRecorder
    /\ UNCHANGED <<wireKind, format, recorded, eventsRead, reader, fromReader, encoder>>

-----------------------------------------------------------------------------
(* The encoders: streaming/pump.rs, wire/anthropic_events.rs and           *)
(* wire/responses_events/pump.rs.                                          *)

KindOpen(e) == IF e.open = 0 THEN "none" ELSE e.blocks[e.open]

\* close_open_block, close_open_item: the open block gets its stop event.
CloseBlock(e) == [e EXCEPT !.open = 0]

\* open_block_of: a block that opens stops the open one.
OpenBlock(e, kind) ==
    [CloseBlock(e) EXCEPT !.blocks = Append(@, kind), !.open = Len(e.blocks) + 1]

\* open_text_block, open_message.
TextBlock(e) == IF KindOpen(e) = "text" THEN e ELSE OpenBlock(e, "text")

ToolBlock(e, i) == [OpenBlock(e, "tool") EXCEPT !.tool[i] = Len(e.blocks) + 1]

\* fail(): the transport closes without the format's terminal event, or with
\* response.failed.
Fail(e) == [e EXCEPT !.ended = "failed"]

\* Arguments belong to the block their call opened, which need not be the
\* block that is open; a call never started ends the stream.
ArgumentBlock(e, i) ==
    IF e.tool[i] = 0 THEN Fail(e) ELSE [e EXCEPT !.lateDelta = @ \/ e.tool[i] # e.open]

\* message_delta and message_stop, response.completed, `[DONE]`.
Complete(e) == [CloseBlock(e) EXCEPT !.ended = "complete"]

\* The chat format numbers calls as the provider does and has no blocks.
Encoded(e, item) ==
    IF item.kind = "done" THEN Complete(e)
    ELSE IF item.kind = "failed" THEN Fail(e)
    ELSE IF item.kind = "finish" \/ format = "chat" THEN e
    ELSE CASE item.kind = "text" -> TextBlock(e)
           [] item.kind = "start" -> ToolBlock(e, item.call)
           [] OTHER -> ArgumentBlock(e, item.call)

\* account(): the statistics are told of a stream polled to its end, once.
Accounted(e) == IF e.ended = "no" THEN e ELSE [e EXCEPT !.accounted = @ + 1]

Incoming == IF recorded THEN fromRecorder ELSE fromReader
SenderUp == IF recorded THEN recorder.up ELSE reader.up

\* poll_next: an item, or a channel closed without a terminal item.
Poll ==
    /\ EncoderHears
    /\ \/ /\ Incoming # <<>>
          /\ encoder' = Accounted(Encoded(encoder, Incoming[1]))
          /\ IF recorded THEN fromRecorder' = <<>> /\ UNCHANGED fromReader
                         ELSE fromReader' = <<>> /\ UNCHANGED fromRecorder
       \/ /\ Incoming = <<>>
          /\ ~SenderUp
          /\ encoder' = Accounted(Fail(encoder))
          /\ UNCHANGED <<fromReader, fromRecorder>>
    /\ UNCHANGED <<wireKind, format, recorded, eventsRead, reader, recorder>>

HangUp ==
    /\ EncoderHears
    /\ encoder' = [encoder EXCEPT !.here = FALSE]
    /\ UNCHANGED <<wireKind, format, recorded, eventsRead, reader, fromReader,
                   recorder, fromRecorder>>

StreamNext ==
    \/ ReadText \/ ReadTerminal \/ ReadBroken \/ ReadEnd \/ SendItem
    \/ \E i \in ToolCalls : ReadCall(i)
    \/ \E done \in BOOLEAN : ReadFinish(done)
    \/ Receive \/ Forward \/ Poll \/ HangUp

StreamSpec == StreamInit /\ [][StreamNext]_streamVars

-----------------------------------------------------------------------------

\* The caller reads a complete message, `[DONE]`, message_stop or
\* response.completed, only when the provider's terminal event was read and
\* nothing failed after it, however the tasks between them ended.
CompleteWasFinished == encoder.ended = "complete" => reader.terminal

\* The ledger and the caller are told one story: the subscription is charged
\* an answered call exactly when the generation it paid for reached its
\* Done, and a caller that read a complete message is not recorded as
\* refused (routed_stream.rs:27-34).
LedgerTellsTheSame ==
    recorded /\ ~recorder.up =>
       /\ encoder.ended = "complete" => recorder.record = "answered"
       /\ recorder.record = "answered" => reader.terminal

\* What the caller and the ledger learn of a stream's end.
StreamSafe == CompleteWasFinished /\ LedgerTellsTheSame

\* Content blocks are opened, filled and stopped (anthropic_events.rs:3-4),
\* and two interleaved calls stay two (anthropic_events.rs:46-48): a block
\* that was stopped is sent no further delta.
StoppedBlockQuiet == ~encoder.lateDelta

=============================================================================
