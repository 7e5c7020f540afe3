--------------------------- MODULE MCConfigChange ---------------------------
(***************************************************************************)
(* The pairs of documents on which the classifier is checked.              *)
(***************************************************************************)
EXTENDS ConfigChange

(* Documents for the classifier: for each key the values the tables of     *)
(* mihomo.rs tell apart, alone and in the pairs that meet in one decision. *)
NoEntries == [k \in {} |-> Null]
FieldValues == [k \in {"mixed-port", "interface-name", "tun", "tuic-server", "ss-config", "dns",
                       "proxies", "listeners", "external-controller", "extra-port"} |->
    CASE k = "mixed-port" -> {Num(0), Num(1), Str("x")}
      [] k = "interface-name" -> {Str("a"), Str("b"), Null}
      [] k = "tun" -> {Map(NoEntries), Map([enable |-> Bool(TRUE)]), Map([enable |-> Bool(FALSE)]),
                       Map([enable |-> Bool(TRUE), stack |-> Str("system")]),
                       Map([enable |-> Bool(TRUE), stack |-> Str("lwip")]),
                       Map([enable |-> Bool(TRUE), stack |-> Str("lwip2")]),
                       Map([enable |-> Bool(TRUE), stack |-> Null]),
                       Map([enable |-> Str("x")]),
                       Map([enable |-> Bool(TRUE), other |-> Str("x")]), Num(1)}
      [] k = "tuic-server" -> {Map(NoEntries), Map([enable |-> Bool(TRUE)]),
                               Map([enable |-> Bool(FALSE)]), Map([listen |-> Str("x")])}
      [] k = "ss-config" -> {Str(""), Str("x")}
      [] k = "dns" -> {Map(NoEntries), Map([listen |-> Str("x")]), Map([listen |-> Str("")]),
                       Map([nameserver |-> Str("a")]),
                       Map([listen |-> Str("x"), nameserver |-> Str("b")]), Null}
      [] k = "proxies" -> {Seq1("a"), Seq1("b")}
      [] k = "listeners" -> {Seq1(""), Seq1("a")}
      [] k = "external-controller" -> {Str("a"), Str("b")}
      [] k = "extra-port" -> {Num(1)}]

Documents(K) ==
    UNION {{f \in [S -> UNION {FieldValues[k] : k \in S}] : \A k \in S : f[k] \in FieldValues[k]}
           : S \in SUBSET K}

CaseOf(kind, managed, managedNow, specChanged, current, desired) ==
    [kind |-> kind, managed |-> managed, managedNow |-> managedNow, specChanged |-> specChanged,
     current |-> current, desired |-> desired]

KeyPairs == {{"tun", "mixed-port"}, {"dns", "interface-name"}, {"dns", "extra-port"},
             {"mixed-port", "interface-name"},
             {"tuic-server", "proxies"}, {"listeners", "mixed-port"},
             {"ss-config", "interface-name"}}

CaseTable ==
    UNION {{CaseOf("mihomo", TRUE, TRUE, FALSE, a, b) : a \in Documents(K), b \in Documents(K)}
           : K \in KeyPairs}
    \cup UNION {{CaseOf(kind, m, n, s, a, b) : kind \in {"mihomo", "other"}, m \in BOOLEAN,
                    n \in BOOLEAN, s \in BOOLEAN, a \in Documents({k}), b \in Documents({k})}
                : k \in DOMAIN FieldValues}

(* A case is decided at once: no step follows.                             *)
Decided == CaseInit /\ [][FALSE]_case

=============================================================================
