---------------------------- MODULE MCComponents ----------------------------
(***************************************************************************)
(* The parts beside the manager that have a state or an algorithm of their *)
(* own, one per behaviour: the log parser and archive, the config change   *)
(* and the runtime store, the clash API client, the health tracker. A      *)
(* behaviour picks its part at the start; the others stay at rest.         *)
(***************************************************************************)
EXTENDS LogParser, LogText, PremiumClock, LogArchive, MCConfigChange, RuntimeStore,
        ClashClient, HealthReference

VARIABLE part

-----------------------------------------------------------------------------
(* Lines for the record assembler: every kind of root, held ones cut at    *)
(* and before the cap or with a header past its own, and continuations     *)
(* that are empty, fit, fill and overrun a text of six bytes.              *)
Shape(kind, len, width, big) == [kind |-> kind, len |-> len, width |-> width, big |-> big]
ShapeTable ==
    {Shape("info", 5, 1, FALSE), Shape("error", 2, 1, TRUE), Shape("error", 8, 4, FALSE),
     Shape("Error:", 2, 1, FALSE), Shape("Error:", 8, 4, FALSE), Shape("warning:", 2, 1, FALSE),
     Shape("plain", 0, 1, FALSE), Shape("plain", 1, 1, FALSE), Shape("plain", 4, 2, FALSE)}

(* Printed lines for the parsers: every text over a small alphabet that    *)
(* holds the characters each parser treats specially.                      *)
Words(A, n) == UNION {[1..k -> A] : k \in 0..n}
SampleTable ==
    AnsiSamples(4)
    \cup LogfmtSamples(Words({"a", "n", "=", "\"", "\\", " ", "LF"}, 2))
    \cup MeowSamples({<<"a">>, <<"a", ":", ":", "a">>}, Words({"a", " ", ":"}, 3))
    \cup ClashRsSamples(Words({"a", " ", ":", "1"}, 5))
    \cup StampSamples
    \cup PremiumSamples(Words({"a", " ", "]"}, 2), Words({"a", " ", "[", "]"}, 2))

-----------------------------------------------------------------------------
(* At rest: no line tried, an empty document.                              *)
NoSample == [algo |-> "none"]
NoCase == CaseOf("other", FALSE, FALSE, TRUE, NoEntries, NoEntries)

componentVars == <<parserVars, sample, clockVars, archiveVars, case, storeVars, clientVars,
                   healthVars>>

Init ==
    /\ part \in {"parser", "text", "clock", "archive", "config", "store", "client", "health"}
    /\ ParserInit /\ ArchiveInit /\ StoreInit /\ ClientInit /\ HealthInit
    /\ part # "archive" => maxFiles = 1
    /\ part # "store" => platform = "unix"
    /\ IF part = "clock" THEN ClockInit ELSE ClockInit /\ printedAt = DayHours
    /\ IF part = "text" THEN TextInit ELSE sample = NoSample
    /\ IF part = "config" THEN CaseInit ELSE case = NoCase

Next ==
    /\ UNCHANGED <<part, sample, case>>
    /\ \/ /\ part = "parser" /\ ParserNext
          /\ UNCHANGED <<clockVars, archiveVars, storeVars, clientVars, healthVars>>
       \/ /\ part = "clock" /\ ClockNext
          /\ UNCHANGED <<parserVars, archiveVars, storeVars, clientVars, healthVars>>
       \/ /\ part = "archive" /\ ArchiveNext
          /\ UNCHANGED <<parserVars, clockVars, storeVars, clientVars, healthVars>>
       \/ /\ part = "store" /\ StoreNext
          /\ UNCHANGED <<parserVars, clockVars, archiveVars, clientVars, healthVars>>
       \/ /\ part = "client" /\ ClientNext
          /\ UNCHANGED <<parserVars, clockVars, archiveVars, storeVars, healthVars>>
       \/ /\ part = "health" /\ HealthNext
          /\ UNCHANGED <<parserVars, clockVars, archiveVars, storeVars, clientVars>>

Spec == Init /\ [][Next]_<<part, componentVars>>

=============================================================================
