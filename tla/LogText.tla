------------------------------ MODULE LogText ------------------------------
(***************************************************************************)
(* The header parsers of log.rs as operators on texts: a text is a         *)
(* sequence of symbols, each a character, a byte of a wide character, or a *)
(* word that no parser looks into.  `sample` is one printed line together  *)
(* with what the core meant by it; the properties compare what the parser  *)
(* reads with what was meant.                                              *)
(***************************************************************************)
EXTENDS Integers, Sequences, FiniteSets, SequencesExt

CONSTANTS Samples   \* the printed lines tried, by parser

VARIABLE sample

None == << >>
Some(x) == <<x>>
From(s, i) == SubSeq(s, i, Len(s))
Upto(s, i) == SubSeq(s, 1, i)
First(s, P(_)) == IF \E i \in DOMAIN s : P(s[i])
                  THEN CHOOSE i \in DOMAIN s : P(s[i]) /\ \A j \in 1..(i - 1) : ~P(s[j])
                  ELSE 0
IsSpace(c) == c = " "
RECURSIVE trim_start(_)
trim_start(s) == IF s # << >> /\ IsSpace(Head(s)) THEN trim_start(Tail(s)) ELSE s

-----------------------------------------------------------------------------
(* ANSI escapes.                                                           *)

ESC == "ESC"
IsFinal(b) == b \in {"[", "m", "a"}   \* the bytes of the samples in 0x40..=0x7e

\* What is left after the parameter bytes and the final byte of a sequence.
AfterFinal(s) == LET end == First(s, IsFinal) IN IF end = 0 THEN << >> ELSE From(s, end + 1)

RECURSIVE strip_ansi(_)
strip_ansi(s) ==
  IF s = << >> THEN << >>
  ELSE IF Head(s) # ESC THEN <<Head(s)>> \o strip_ansi(Tail(s))
  ELSE IF Len(s) = 1 \/ s[2] # "[" THEN strip_ansi(Tail(s))
  ELSE strip_ansi(AfterFinal(From(s, 3)))

-----------------------------------------------------------------------------
(* logfmt (mihomo).                                                        *)

Unescape(c) ==
  CASE c \in {"\"", "\\"} -> <<c>>
    [] c = "n" -> <<"LF">>
    [] c = "r" -> <<"CR">>
    [] c = "t" -> <<"TAB">>
    [] OTHER -> <<"\\", c>>

\* The quoted value that starts here and what follows it, or None when it is
\* not closed.
RECURSIVE Quoted(_, _)
Quoted(s, value) ==
  IF s = << >> THEN None
  ELSE IF Head(s) = "\"" THEN Some([value |-> value, rest |-> Tail(s)])
  ELSE IF Head(s) = "\\"
       THEN IF Len(s) < 2 THEN None ELSE Quoted(From(s, 3), value \o Unescape(s[2]))
  ELSE Quoted(Tail(s), Append(value, Head(s)))

Bare(s) == LET end == First(s, IsSpace) IN
  IF end = 0 THEN [value |-> s, rest |-> << >>]
  ELSE [value |-> Upto(s, end - 1), rest |-> From(s, end)]

ScanValue(s) ==
  IF s # << >> /\ Head(s) = "\""
  THEN LET q == Quoted(Tail(s), << >>)
       IN  IF q = None \/ (q[1].rest # << >> /\ ~IsSpace(Head(q[1].rest))) THEN None ELSE q
  ELSE Some(Bare(s))

RECURSIVE ScanFields(_, _)
ScanFields(line, fields) ==
  LET s  == trim_start(line)
      eq == First(s, LAMBDA c : c = "=")
  IN  IF s = << >> THEN Some(fields)
      ELSE IF eq <= 1 \/ (\E i \in 1..(eq - 1) : IsSpace(s[i])) THEN None
      ELSE LET v == ScanValue(From(s, eq + 1))
           IN  IF v = None THEN None
               ELSE ScanFields(v[1].rest, Append(fields, [key |-> Upto(s, eq - 1), value |-> v[1].value]))
scan_logfmt(line) == ScanFields(line, << >>)

\* parse_level, on the words the samples use; 0 is an unknown level.
parse_level(word) ==
  CASE word = <<"debug">> -> 1
    [] word \in {<<"info">>, <<"INFO">>, <<"INF">>, <<"???">>} -> 2
    [] word \in {<<"warning">>, <<"WARN">>, <<"WRN">>} -> 3
    [] word \in {<<"error">>, <<"ERROR">>, <<"ERR">>} -> 4
    [] OTHER -> 0

Reserved == {<<"time">>, <<"level">>, <<"msg">>}

\* parse_mihomo: the last value of each reserved key counts, the other fields
\* are kept in order.
parse_mihomo(line) ==
  LET scanned == scan_logfmt(line)
      Values(key) == SelectSeq(scanned[1], LAMBDA f : f.key = key)
      Final(key) == Last(Values(key)).value
  IN  IF scanned = None THEN None
      ELSE IF \E key \in Reserved : Values(key) = << >> THEN None
      ELSE IF parse_level(Final(<<"level">>)) = 0 THEN None
      ELSE Some([time |-> Final(<<"time">>), level |-> parse_level(Final(<<"level">>)),
                 target |-> << >>, message |-> Final(<<"msg">>),
                 fields |-> SelectSeq(scanned[1], LAMBDA f : f.key \notin Reserved)])

-----------------------------------------------------------------------------
(* The tracing layouts (meow, clash-rs) and clash premium.                 *)

take_token(input) ==
  LET s   == trim_start(input)
      end == First(s, IsSpace)
  IN  IF end = 0 THEN None
      ELSE Some([token |-> Upto(s, end - 1), rest |-> trim_start(From(s, end))])

AnyColon(s) == {i \in 1..(Len(s) - 1) : s[i] = ":"}
\* The positions where ": " starts.
Separators(s) == {i \in 1..(Len(s) - 1) : s[i] = ":" /\ IsSpace(s[i + 1])}
Latest(S) == CHOOSE i \in S : \A j \in S : i >= j
Earliest(S) == CHOOSE i \in S : \A j \in S : i <= j

parse_meow(line) ==
  LET time  == take_token(line)
      level == take_token(time[1].rest)
      rest  == level[1].rest
      at    == Earliest(Separators(rest))
  IN  IF time = None \/ level = None THEN None
      ELSE IF parse_level(level[1].token) = 0 \/ Separators(rest) = {} THEN None
      ELSE IF at = 1 THEN None
      ELSE Some([time |-> time[1].token, level |-> parse_level(level[1].token),
                 target |-> Upto(rest, at - 1), message |-> From(rest, at + 2), fields |-> << >>])

IsDigit(c) == c = "1"

\* Where the `<path>:<line>` anchor that ends at this separator starts, or 0.
AnchorStart(rest, at) ==
  LET colons == {i \in 1..(at - 1) : rest[i] = ":"}
      colon  == Latest(colons)
      spaces == {i \in 1..(colon - 1) : IsSpace(rest[i])}
      start  == IF spaces = {} THEN 1 ELSE Latest(spaces) + 1
  IN  IF colons = {} THEN 0
      ELSE IF colon = at - 1 \/ (\E i \in (colon + 1)..(at - 1) : ~IsDigit(rest[i])) THEN 0
      ELSE IF start = colon THEN 0 ELSE start

FirstAnchor(rest) == {at \in Separators(rest) :
  /\ AnchorStart(rest, at) # 0
  /\ \A b \in Separators(rest) : b < at => AnchorStart(rest, b) = 0}

clash_rs_source(rest) ==
  IF FirstAnchor(rest) = {} THEN None
  ELSE LET at == CHOOSE a \in FirstAnchor(rest) : TRUE
       IN  Some([target |-> Upto(SubSeq(rest, AnchorStart(rest, at), at), at - AnchorStart(rest, at)),
                 message |-> From(rest, at + 2)])

\* clash_rs_timestamp_end: `shape` says of each of the 18 fixed positions that
\* it holds what the layout asks for; then 1 to 9 digits and a space.
Subsecond(digits, after) == digits \in 1..9 /\ after = " "
clash_rs_timestamp_end(fixed, digits, after) ==
  IF (\A i \in DOMAIN fixed : fixed[i]) /\ Subsecond(digits, after) THEN Some(18 + digits) ELSE None

\* clash_rs_unix_ms: the subsecond digits scaled to nanoseconds, in 32 bits.
RECURSIVE Pow10(_)
Pow10(n) == IF n = 0 THEN 1 ELSE 10 * Pow10(n - 1)
nanos(value, digits) == value * Pow10(9 - digits)

\* premium_target: a non-empty `[Tag] ` prefix without a space in it.
premium_target(body) ==
  LET tagged == {i \in 2..(Len(body) - 1) : body[i] = "]" /\ IsSpace(body[i + 1])}
      at     == Earliest(tagged)
  IN  IF body = << >> \/ Head(body) # "[" \/ tagged = {} THEN [target |-> << >>, message |-> body]
      ELSE IF at = 2 \/ (\E i \in 2..(at - 1) : IsSpace(body[i])) THEN [target |-> << >>, message |-> body]
      ELSE [target |-> SubSeq(body, 2, at - 1), message |-> From(body, at + 2)]

TextInit == sample \in Samples

-----------------------------------------------------------------------------
(* The lines the cores print.                                              *)

\* Wide characters are two bytes; a colour sequence is ESC [ parameters m.
Glyphs == {<<"a">>, <<"u1", "u2">>}
Escapes == {<<ESC, "[", "m">>, <<ESC, "[", "3", "m">>, <<ESC>>, <<ESC, "[">>}
AnsiSamples(n) ==
  {[algo |-> "ansi", parts |-> p] : p \in UNION {[1..k -> Glyphs \cup Escapes] : k \in 0..n}}

\* logrus: a value is quoted when it holds anything but letters.
Escape(c) == IF c \in {"\"", "\\"} THEN <<"\\", c>> ELSE IF c = "LF" THEN <<"\\", "n">> ELSE <<c>>
Quote(value) ==
  IF \A i \in DOMAIN value : value[i] \in {"a", "n", "info", "bogus"} THEN value
  ELSE <<"\"">> \o FlattenSeq([i \in DOMAIN value |-> Escape(value[i])]) \o <<"\"">>
Pair(f) == f.key \o <<"=">> \o Quote(f.value)
LogfmtLine(fields) ==
  FlattenSeq([i \in DOMAIN fields |-> IF i = 1 THEN Pair(fields[i]) ELSE <<" ">> \o Pair(fields[i])])
LogfmtSamples(values) ==
  {[algo |-> "logfmt",
    fields |-> [i \in 1..4 |-> [key |-> <<order[i]>>,
                                value |-> CASE order[i] = "time" -> <<"a">>
                                            [] order[i] = "level" -> <<level>>
                                            [] order[i] = "msg" -> v
                                            [] order[i] = "x" -> w]],
    level |-> level, msg |-> v, x |-> w] :
     order \in {<<"time", "level", "msg", "x">>, <<"x", "msg", "time", "level">>},
     level \in {"info", "bogus"}, v \in values, w \in values}

\* The message may hold anything, ": " and anchors included.
MeowSamples(targets, messages) ==
  {[algo |-> "meow", pad |-> pad, target |-> t, message |-> m] :
     pad \in {<< >>, <<" ">>}, t \in targets, m \in messages}
ClashRsSamples(messages) ==
  {[algo |-> "source", front |-> f, message |-> m] :
     f \in {<< >>, <<"a", " ">>, <<"a", ":", ":", "a", " ">>}, m \in messages}
StampSamples ==
  {[algo |-> "stamp", broken |-> b, digits |-> d, after |-> c] :
     b \in 0..18, d \in 0..10, c \in {" ", "a"}}
PremiumSamples(tags, messages) ==
  {[algo |-> "tag", tag |-> t, message |-> m] : t \in tags, m \in messages}

-----------------------------------------------------------------------------
Is(algo) == sample.algo = algo
Text(parts) == FlattenSeq([i \in DOMAIN parts |-> IF parts[i] \in Glyphs THEN parts[i] ELSE << >>])

\* Dropping escapes leaves whole characters (the expect in strip_ansi cannot
\* panic), no escape, and, when every sequence is complete, exactly the text.
AnsiStripped ==
  Is("ansi") =>
    LET out == strip_ansi(FlattenSeq(sample.parts))
    IN  /\ \A i \in DOMAIN out : out[i] # ESC
        /\ \A i \in DOMAIN out : out[i] = "u1" <=> i < Len(out) /\ out[i + 1] = "u2"
        /\ \A i \in DOMAIN out : out[i] = "u2" => i > 1 /\ out[i - 1] = "u1"
        /\ (<<ESC, "[">> \notin ToSet(sample.parts)) => out = Text(sample.parts)

\* A mihomo line reads back as what was logged, quoting undone and the call
\* site's own field kept, exactly when its level is known (parse_mihomo).
LogfmtReadBack ==
  Is("logfmt") =>
    LET read == parse_mihomo(LogfmtLine(sample.fields))
    IN  IF sample.level = "bogus" THEN read = None
        ELSE /\ read # None
             /\ read[1].message = sample.msg
             /\ read[1].fields = <<[key |-> <<"x">>, value |-> sample.x]>>

\* A meow line splits at the first ": " after the target, whatever the message
\* holds (parse_meow).
MeowReadBack ==
  Is("meow") =>
    LET line == <<"T", " ">> \o sample.pad \o <<"INFO", " ">> \o sample.target
                  \o <<":", " ">> \o sample.message
        read == parse_meow(line)
    IN  /\ read # None
        /\ read[1].target = sample.target
        /\ read[1].message = sample.message

\* A clash-rs header ends at its own file:line anchor even when the message
\* holds another one (clash_rs_source).
SourceReadBack ==
  Is("source") =>
    LET read == clash_rs_source(sample.front \o <<"a", ":", "1", ":", " ">> \o sample.message)
    IN  read # None /\ read[1].target = <<"a", ":", "1">> /\ read[1].message = sample.message

\* A clash-rs time stamp is accepted only with its separators and digits in
\* place, one to nine subsecond digits and the space before the level, and its
\* nanoseconds stay below a second (clash_rs_timestamp_end, clash_rs_unix_ms).
StampAccepted ==
  Is("stamp") =>
    LET end == clash_rs_timestamp_end([i \in 1..18 |-> i # sample.broken], sample.digits, sample.after)
    IN  /\ end # None <=> sample.broken = 0 /\ sample.digits \in 1..9 /\ sample.after # "a"
        /\ end # None => nanos(Pow10(sample.digits) - 1, sample.digits) < Pow10(9)

\* A premium tag is split off and everything else stays in the message: tag and
\* message put together again are the line (premium_target).
TagReadBack ==
  Is("tag") =>
    LET body == <<"[">> \o sample.tag \o <<"]", " ">> \o sample.message
        read == premium_target(body)
    IN  IF sample.tag = << >> \/ (\E i \in DOMAIN sample.tag : sample.tag[i] \in {" ", "]"})
        THEN read.target = << >> => read.message = body
        ELSE read.target = sample.tag /\ read.message = sample.message

\* What each core prints is read back as what it meant, with escapes, colour
\* sequences and delimiters inside values (log.rs, strip_ansi, parse_mihomo,
\* parse_meow, clash_rs_source, clash_rs_timestamp_end, premium_target).
HeadersReadBack ==
  /\ AnsiStripped /\ LogfmtReadBack /\ MeowReadBack
  /\ SourceReadBack /\ StampAccepted /\ TagReadBack
=============================================================================
