----------------------------- MODULE LogParser -----------------------------
(***************************************************************************)
(* The record assembler of log.rs: console lines of two streams become     *)
(* frames; an error record is held back until the next root of its stream, *)
(* collecting the lines in between, and every text is bounded.             *)
(*                                                                         *)
(* What parse_header finds in a line is its shape: a header of level info  *)
(* or error, an "Error:" or "warning:" root, or plain text.  A text is a   *)
(* sequence of pieces [line, n]: the first n bytes of that line; pieces    *)
(* are joined by one separator byte.  Line i is the i-th line pushed.      *)
(***************************************************************************)
EXTENDS Integers, Sequences, FiniteSets, FiniteSetsExt, SequencesExt

CONSTANTS MaxContinuations,  \* MAX_CONTINUATION_LINES
          MaxText,           \* MAX_LOG_TEXT_BYTES
          HeaderBytes,       \* what the header adds to the raw text
          LineShapes,        \* [kind, len, width, big]: the lines a core prints
          MaxLines           \* bound: lines pushed

Streams == {"stdout", "stderr"}
LineKinds == {"info", "error", "Error:", "warning:", "plain"}

ASSUME TextAssumption ==
  /\ MaxContinuations \in Nat /\ MaxText \in Nat \ {0} /\ HeaderBytes \in Nat
  /\ LineShapes \subseteq [kind : LineKinds, len : Nat, width : 1..4, big : BOOLEAN]

VARIABLES
  lines,      \* history: the lines pushed, [stream, shape]
  pending,    \* per stream, the record held back, or the empty sequence
  newest,     \* newest_pending: the stream that held a record last, or "none"
  emitted,    \* history: the frames handed out, in order
  released    \* history: how many of them the last finish() handed out

parserVars == <<lines, pending, newest, emitted, released>>

Levels == [info |-> 2, warning |-> 3, error |-> 4]

-----------------------------------------------------------------------------
(* Bounded texts.                                                          *)

TextLen(text) ==
  IF text = << >> THEN 0
  ELSE FoldLeft(LAMBDA n, p : n + p.n, Len(text) - 1, text)

\* The largest index at or below max that does not split a character, in a line
\* of wide characters behind that many single bytes.
char_boundary_at_or_below(single, width, max) ==
  IF max <= single THEN max ELSE max - ((max - single) % width)

Least(a, b) == IF a < b THEN a ELSE b

\* append_bounded: the text after taking as much of the line as fits, and
\* whether something was left behind.
append_bounded(text, line, shape) ==
  LET room == MaxText - TextLen(text)
      end  == char_boundary_at_or_below(0, shape.width, Least(room - 1, shape.len))
  IN  IF room <= 0 THEN [text |-> text, cut |-> TRUE]
      ELSE IF shape.len = 0 THEN [text |-> Append(text, [line |-> line, n |-> 0]), cut |-> FALSE]
      ELSE IF end = 0 THEN [text |-> text, cut |-> TRUE]
      ELSE [text |-> Append(text, [line |-> line, n |-> end]), cut |-> end < shape.len]

\* truncate_text of a line behind that many bytes of header.
truncate_text(line, header, shape) ==
  LET len == header + shape.len
      end == IF len <= MaxText THEN len ELSE char_boundary_at_or_below(header, shape.width, MaxText)
  IN  [text |-> <<[line |-> line, n |-> end]>>, cut |-> len > MaxText]

-----------------------------------------------------------------------------
(* Records.                                                                *)

\* bound_frame of a root line: the message and the raw text are cut to their
\* cap; `big` stands for a target, time stamp or field list past its own cap.
RootFrame(line, stream, level, shape, header) ==
  LET message == truncate_text(line, 0, shape)
      raw     == truncate_text(line, header, shape)
  IN  [root |-> line, stream |-> stream, level |-> level,
       message |-> message.text, raw |-> raw.text, lines |-> 1,
       truncated |-> message.cut \/ raw.cut \/ (header > 0 /\ shape.big)]

\* Pending::append.
BothTexts(record, line, shape) ==
  <<append_bounded(record.frame.raw, line, shape),
    append_bounded(record.frame.message, line, shape)>>

AfterFull(n) == MaxContinuations

append(record, line, shape) ==
  IF record.continuations = MaxContinuations
  THEN [record EXCEPT !.frame.truncated = TRUE]
  ELSE LET texts == BothTexts(record, line, shape)
           cut   == texts[1].cut \/ texts[2].cut
       IN  [frame |-> [record.frame EXCEPT !.raw = texts[1].text, !.message = texts[2].text,
                                           !.truncated = @ \/ cut],
            continuations |-> IF cut THEN AfterFull(record.continuations)
                              ELSE record.continuations + 1]

Held(stream) == IF pending[stream] = << >> THEN << >> ELSE <<pending[stream][1].frame>>

\* emit: the record the stream held goes out first; the new frame is held or
\* goes out behind it.
HeldFirst(held, new) == held \o new

emit(stream, frame, hold) ==
  /\ emitted' = emitted \o HeldFirst(Held(stream), IF hold THEN << >> ELSE <<frame>>)
  /\ pending' = [pending EXCEPT ![stream] =
                   IF hold THEN <<[frame |-> frame, continuations |-> 0]>> ELSE << >>]
  /\ newest' = IF hold THEN stream ELSE newest

Next1 == Len(lines) + 1
NoteLine(stream, shape) ==
  /\ Len(lines) < MaxLines
  /\ lines' = Append(lines, [stream |-> stream, shape |-> shape])
  /\ released' = 0

\* push_at, a line whose header parses: an error record is held.
PushHeader(stream, shape) ==
  /\ shape.kind \in {"info", "error"}
  /\ NoteLine(stream, shape)
  /\ emit(stream, RootFrame(Next1, stream, Levels[shape.kind], shape, HeaderBytes),
          shape.kind = "error")

\* Which pending record a headerless line continues.
AnyStream(stream) == {s \in Streams : pending[s] # << >>}
SameStream(stream) == {s \in {stream} : pending[s] # << >>}

\* push_at, plain text behind a held record of the same stream.
PushContinuation(stream, shape) ==
  /\ shape.kind = "plain" /\ SameStream(stream) # {}
  /\ NoteLine(stream, shape)
  /\ \E s \in SameStream(stream) :
       pending' = [pending EXCEPT ![s] = <<append(pending[s][1], Next1, shape)>>]
  /\ UNCHANGED <<newest, emitted>>

\* push_at, any other headerless line: its own frame, held only when it is an
\* error root on stderr.
PlainLevel(stream, shape) ==
  CASE shape.kind = "Error:"   -> Levels.error
    [] shape.kind = "warning:" -> Levels.warning
    [] shape.kind = "plain"    -> IF stream = "stdout" THEN Levels.info ELSE Levels.warning

PushPlain(stream, shape) ==
  /\ shape.kind \in {"Error:", "warning:", "plain"}
  /\ shape.kind = "plain" => SameStream(stream) = {}
  /\ NoteLine(stream, shape)
  /\ emit(stream, RootFrame(Next1, stream, PlainLevel(stream, shape), shape, 0),
          shape.kind = "Error:" /\ stream = "stderr")

\* finish: both held records, oldest first.
OldestFirst ==
  IF newest = "stdout" THEN Held("stderr") \o Held("stdout")
  ELSE Held("stdout") \o Held("stderr")

finish ==
  /\ \E s \in Streams : pending[s] # << >>
  /\ emitted' = emitted \o OldestFirst
  /\ released' = Len(OldestFirst)
  /\ pending' = [s \in Streams |-> << >>]
  /\ newest' = "none"
  /\ UNCHANGED lines

ParserInit ==
  /\ lines = << >> /\ emitted = << >>
  /\ pending = [s \in Streams |-> << >>]
  /\ newest = "none" /\ released = 0

ParserNext ==
  \/ \E s \in Streams, shape \in LineShapes :
       PushHeader(s, shape) \/ PushContinuation(s, shape) \/ PushPlain(s, shape)
  \/ finish

-----------------------------------------------------------------------------
(* The condensed cause of a failed one-shot run.                           *)

WorstOf(levels) == Max(levels)

\* error_summary: the highest level at or above warning, then the last frame
\* of that level; 0 when there is none.
error_summary(frames) ==
  LET levels == {l \in {frames[i].level : i \in DOMAIN frames} : l >= Levels.warning}
  IN  IF levels = {} THEN 0
      ELSE frames[Max({i \in DOMAIN frames : frames[i].level = WorstOf(levels)})].root

-----------------------------------------------------------------------------
FramesSeen == ToSet(emitted) \cup {pending[s][1].frame : s \in {t \in Streams : pending[t] # << >>}}

\* The frame a line belongs to: the one with the nearest root of its stream.
RootOf(i, frames) ==
  LET roots == {f.root : f \in {g \in frames : g.stream = lines[i].stream /\ g.root <= i}}
  IN  IF roots = {} THEN 0 ELSE CHOOSE r \in roots : \A q \in roots : q <= r

Shows(text, i) == \E k \in DOMAIN text : text[k].line = i

\* No console line is lost or shown twice: each is the root of one frame, or is
\* shown by the frame of the nearest root before it on its own stream, or that
\* frame says it is truncated (log.rs, push_at and Pending::append).
NoLineLost ==
  LET frames == FramesSeen
  IN  \A i \in DOMAIN lines :
        LET root == RootOf(i, frames)
        IN  /\ root # 0
            /\ \A f \in frames : Shows(f.raw, i) => f.root = root /\ f.stream = lines[i].stream
            /\ \A f \in frames :
                 f.root = root /\ ~f.truncated => Shows(f.raw, i) /\ Shows(f.message, i)

\* A text of a frame stays within the cap, splits no character, and has no hole
\* between its continuations; behind a root that was cut there is room for less
\* than one of its characters, and a frame with a line cut short says so.
TextBounded(frame, text, header) ==
  LET shape(k)  == lines[text[k].line].shape
      ahead(k)  == IF k = 1 THEN header ELSE 0
      whole(k)  == text[k].n = ahead(k) + shape(k).len
  IN  /\ TextLen(text) <= MaxText
      /\ \A k \in 1..(Len(text) - 1) : text[k].line < text[k + 1].line
      /\ \A k \in DOMAIN text :
           whole(k) \/ (frame.truncated /\ (text[k].n - ahead(k)) % shape(k).width = 0)
      /\ \A k \in 2..(Len(text) - 1) : whole(k)
      /\ ~whole(1) => TextLen(text) - text[1].n < shape(1).width

\* Both texts of every frame are bounded in this sense, the raw one with the
\* header of its root (log.rs, bound_frame and append_bounded).
TextsBounded ==
  \A f \in FramesSeen :
    /\ TextBounded(f, f.message, 0)
    /\ TextBounded(f, f.raw, IF lines[f.root].shape.kind \in {"info", "error"}
                             THEN HeaderBytes ELSE 0)

\* The message is never ahead of the raw text by more than the header it lacks:
\* once a continuation was cut from either, neither takes another line.
TextsStopTogether ==
  \A f \in FramesSeen :
    /\ Len(f.raw) <= Len(f.message)
    /\ \A k \in 1..(Len(f.message) - 1) : k \in DOMAIN f.raw
    /\ Len(f.message) <= MaxContinuations + 1

\* The frames of one stream leave the parser in the order of their roots.
StreamOrderKept ==
  \A i, j \in DOMAIN emitted :
    i < j /\ emitted[i].stream = emitted[j].stream => emitted[i].root < emitted[j].root

\* When finish() releases two records the older root comes first.
OldestReleasedFirst ==
  released = 2 => emitted[Len(emitted) - 1].root < emitted[Len(emitted)].root

\* The cause reported for a failed run is the newest record of the worst level
\* at or above warning, held error records included once finish() released them.
SummaryIsWorst ==
  (\A s \in Streams : pending[s] = << >>) =>
    LET shown == error_summary(emitted)
    IN  IF shown = 0 THEN \A f \in FramesSeen : f.level < Levels.warning
        ELSE \E f \in FramesSeen :
               /\ f.root = shown /\ f.level >= Levels.warning
               /\ \A g \in FramesSeen : g.level <= f.level
               /\ \A g \in FramesSeen : g.level = f.level /\ g.stream = f.stream => g.root <= f.root

\* The records tell what the console said: no line is lost, doubled or cut in a
\* character, each stream keeps its order, both texts stop together, and the
\* cause of a failure is the worst record (log.rs, push_at, finish and
\* error_summary).
RecordsFaithful ==
  /\ NoLineLost /\ StreamOrderKept /\ OldestReleasedFirst
  /\ TextsBounded /\ TextsStopTogether
  /\ SummaryIsWorst
=============================================================================
