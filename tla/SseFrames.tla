----------------------------- MODULE SseFrames ------------------------------
(***************************************************************************)
(* How arriving bytes become whole events: providers/stream/frame.rs.      *)
(*                                                                         *)
(* The body is a sequence of bytes that reaches the framer in chunks, cut  *)
(* wherever the network cut it.  A byte is a line end, a colon, a letter   *)
(* that makes the line an event field or a data field, or one of the two   *)
(* bytes of a character outside ASCII, with which a line is a field of     *)
(* another name; what such a byte decodes to by itself is the replacement  *)
(* character.                                                              *)
(***************************************************************************)
EXTENDS Integers, Sequences

CONSTANT MaxBytes   \* bound of the body's length

ASSUME FramesAssumption == MaxBytes \in Nat

VARIABLES
    bodyBytes,   \* the provider's body
    fed,         \* how many of its bytes were fed
    framer,      \* the framer's buffer, event name and data lines
    framed,      \* the events it has yielded
    torn         \* a chunk has ended inside a character

frameVars == <<bodyBytes, fed, framer, framed, torn>>

Bytes == {"end", "colon", "e", "d", "lead", "tail"}
Chars == {"end", "colon", "e", "d", "wide", "replaced"}

\* A body is text: a lead byte and its tail come together.
IsText(bytes) ==
    \A n \in 1..Len(bytes) :
       /\ bytes[n] = "lead" => n < Len(bytes) /\ bytes[n + 1] = "tail"
       /\ bytes[n] = "tail" => n > 1 /\ bytes[n - 1] = "lead"

\* String::from_utf8_lossy on one chunk: a pair is its character, a byte
\* without its other half the replacement character.
WithByte(chunk, text, n) ==
    IF chunk[n] = "tail" /\ n > 1 /\ chunk[n - 1] = "lead"
    THEN Append(SubSeq(text, 1, Len(text) - 1), "wide")
    ELSE Append(text, IF chunk[n] \in {"lead", "tail"} THEN "replaced" ELSE chunk[n])

\* The text after each byte of a chunk.
Decoding(chunk) ==
    LET D[n \in 0..Len(chunk)] == IF n = 0 THEN <<>> ELSE WithByte(chunk, D[n - 1], n)
    IN D

Decoded(chunk) == Decoding(chunk)[Len(chunk)]

Empty == [buffer |-> <<>>, event |-> FALSE, data |-> <<>>]

\* One line: a blank one yields the event when it has data and forgets its
\* name; an event or data field is kept; a comment and a field of another
\* name carry nothing.
WithLine(f, line) ==
    CASE line = <<>> -> [f EXCEPT !.event = FALSE, !.data = <<>>]
      [] line # <<>> /\ line[1] = "e" -> [f EXCEPT !.event = TRUE]
      [] line # <<>> /\ line[1] = "d" -> [f EXCEPT !.data = Append(@, line)]
      [] OTHER -> f

Yielded(f, line) ==
    IF line = <<>> /\ f.data # <<>> THEN <<[named |-> f.event, data |-> f.data]>> ELSE <<>>

\* One character read: kept in the buffer, or the end of the buffered line.
Advance(w, c) ==
    IF c # "end" THEN [f |-> [w.f EXCEPT !.buffer = Append(@, c)], out |-> w.out]
    ELSE [f |-> [WithLine(w.f, w.f.buffer) EXCEPT !.buffer = <<>>],
          out |-> w.out \o Yielded(w.f, w.f.buffer)]

\* The framer and what it has yielded after each character of a chunk.
FeedWalk(f, chars) ==
    LET W[n \in 0..Len(chars)] ==
          IF n = 0 THEN [f |-> f, out |-> <<>>] ELSE Advance(W[n - 1], chars[n])
    IN W

\* Fault: the part of a line a chunk ends with is not kept for the next one.
FeedForgetting(f, chars) == FeedWalk([f EXCEPT !.buffer = <<>>], chars)[Len(chars)]

\* feed(): what is complete is framed, the rest stays in the buffer.
Feed(f, chars) == FeedWalk(f, chars)[Len(chars)]

FramesInit ==
    /\ \E n \in 0..MaxBytes : bodyBytes \in {b \in [1..n -> Bytes] : IsText(b)}
    /\ fed = 0
    /\ framer = Empty
    /\ framed = <<>>
    /\ torn = FALSE

FeedChunk(n) ==
    /\ fed + n <= Len(bodyBytes)
    /\ LET fedNow == Feed(framer, Decoded(SubSeq(bodyBytes, fed + 1, fed + n)))
       IN framer' = fedNow.f /\ framed' = framed \o fedNow.out
    /\ fed' = fed + n
    /\ torn' = (torn \/ bodyBytes[fed + n] = "lead")
    /\ UNCHANGED bodyBytes

FramesNext == \E n \in 1..MaxBytes : FeedChunk(n)

FramesSpec == FramesInit /\ [][FramesNext]_frameVars

-----------------------------------------------------------------------------

\* The event stream format read without chunks: the lines of the text, and
\* an event for each blank line that follows data lines.
LineEnds(chars) == {n \in 1..Len(chars) : chars[n] = "end"}

LastOf(places) == CHOOSE m \in places : \A k \in places : k <= m

LineBefore(chars, n) ==
    SubSeq(chars, LastOf({0} \cup {m \in LineEnds(chars) : m < n}) + 1, n - 1)

\* The last blank line before n, or the start of the text.
BlankBefore(chars, n) ==
    LastOf({0} \cup {m \in LineEnds(chars) : m < n /\ LineBefore(chars, m) = <<>>})

IsName(line) == line # <<>> /\ line[1] = "e"
IsData(line) == line # <<>> /\ line[1] = "d"

\* The data lines from one place of the text up to each later one.
DataFrom(chars, from) ==
    LET D[n \in 0..Len(chars)] ==
          IF n <= from THEN <<>>
          ELSE IF chars[n] = "end" /\ IsData(LineBefore(chars, n))
               THEN Append(D[n - 1], LineBefore(chars, n)) ELSE D[n - 1]
    IN D

\* What the lines since the last blank one before n say.
EventBefore(chars, n) ==
    [named |-> \E m \in LineEnds(chars) :
                  BlankBefore(chars, n) < m /\ m < n /\ IsName(LineBefore(chars, m)),
     data |-> DataFrom(chars, BlankBefore(chars, n))[n - 1]]

EventsUpTo(chars) ==
    LET E[n \in 0..Len(chars)] ==
          IF n = 0 THEN <<>>
          ELSE IF /\ chars[n] = "end" /\ LineBefore(chars, n) = <<>>
                  /\ EventBefore(chars, n).data # <<>>
               THEN Append(E[n - 1], EventBefore(chars, n)) ELSE E[n - 1]
    IN E

EventsOf(chars) == EventsUpTo(chars)[Len(chars)]

\* No wire module sees half a line, wherever the chunks were cut
\* (frame.rs:4-6): fed to its end in chunks that cut no character in two, a
\* body yields the events the format reads in its text, each with its name
\* and its data lines.
WholeEvents ==
    fed = Len(bodyBytes) /\ ~torn => framed = EventsOf(Decoded(bodyBytes))

\* The same however the chunks were cut.
WholeText ==
    fed = Len(bodyBytes) => framed = EventsOf(Decoded(bodyBytes))

=============================================================================
