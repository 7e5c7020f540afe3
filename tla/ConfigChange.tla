---------------------------- MODULE ConfigChange ----------------------------
(***************************************************************************)
(* What the manager does with a configuration document: derive the         *)
(* effective one, diff it against the running one, decide between nothing, *)
(* a PATCH, a reload and a switch, and decide whether two epochs may       *)
(* overlap (config/mod.rs, clash.rs, diff.rs, mihomo.rs).                  *)
(*                                                                         *)
(* A YAML value is [t, v] for a scalar or a sequence and [t, m] for a      *)
(* mapping, m a function on keys.  Each class of keys the code tells apart *)
(* is represented by one or two keys.                                      *)
(***************************************************************************)
EXTENDS Integers, Sequences, FiniteSets, SequencesExt

CONSTANTS Cases   \* records [kind, managed, managedNow, specChanged, current, desired]

VARIABLE case

Nothing == << >>
Just(x) == <<x>>
Null == [t |-> "null", v |-> ""]
Num(n) == [t |-> "int", v |-> n]
Str(s) == [t |-> "str", v |-> s]
Bool(b) == [t |-> "bool", v |-> b]
Seq1(s) == [t |-> "seq", v |-> s]
Map(m) == [t |-> "map", m |-> m]

Has(doc, key) == key \in DOMAIN doc
IsMap(value) == value.t = "map"
Get(doc, key) == IF Has(doc, key) THEN Just(doc[key]) ELSE Nothing
\* The entry of a key when the value is a mapping that has it.
Child(opt, key) == IF opt # Nothing /\ IsMap(opt[1]) THEN Get(opt[1].m, key) ELSE Nothing
Put(doc, key, value) == [k \in DOMAIN doc \cup {key} |-> IF k = key THEN value ELSE doc[k]]
Drop(doc, keys) == [k \in DOMAIN doc \ keys |-> doc[k]]

-----------------------------------------------------------------------------
(* The key tables.                                                         *)

INBOUND_PORT_FIELDS == {"mixed-port"}
TUNNEL_STRINGS == {"ss-config"}     \* ss-config, vmess-config, tcptun-config, udptun-config
PATCH_FIELDS == INBOUND_PORT_FIELDS \cup TUNNEL_STRINGS \cup {"tun", "tuic-server", "interface-name"}
TUN_PATCH_FIELDS == {"enable", "stack"}
TUIC_SERVER_PATCH_FIELDS == {"enable", "listen"}
RELOAD_FIELDS == {"proxies", "dns"}
LOCAL_CONTROLLER == "external-controller-unix"
CONTROLLER_KEYS == {"external-controller", LOCAL_CONTROLLER}
CONTROLLER_FIELDS == CONTROLLER_KEYS \cup {"secret"}
COLLECTIONS == {"listeners"}        \* listeners, tunnels
INBOUND_LIKE == {"extra-port"} \cup INBOUND_PORT_FIELDS \cup COLLECTIONS

-----------------------------------------------------------------------------
(* Diffing.                                                                *)

RECURSIVE diff_value(_, _, _)
diff_value(current, desired, path) ==
  LET cm   == current # Nothing /\ IsMap(current[1])
      dm   == desired # Nothing /\ IsMap(desired[1])
      keys == (IF cm THEN DOMAIN current[1].m ELSE {}) \cup (IF dm THEN DOMAIN desired[1].m ELSE {})
  IN  IF current = desired THEN {}
      ELSE IF /\ cm \/ dm
              /\ current = Nothing \/ (cm /\ (desired = Nothing \/ dm))
              /\ keys # {}
           THEN UNION {diff_value(Child(current, k), Child(desired, k), Append(path, k)) : k \in keys}
      ELSE {[path |-> path, new |-> desired]}

diff(current, desired) == diff_value(Just(Map(current)), Just(Map(desired)), << >>)

RECURSIVE collect_leaves(_, _)
collect_leaves(value, path) ==
  IF IsMap(value) /\ DOMAIN value.m # {}
  THEN UNION {collect_leaves(value.m[k], Append(path, k)) : k \in DOMAIN value.m}
  ELSE {[path |-> path, value |-> value]}

RECURSIVE value_at(_, _)
value_at(value, path) ==
  IF path = << >> THEN Just(value)
  ELSE IF ~IsMap(value) \/ ~Has(value.m, Head(path)) THEN Nothing
  ELSE value_at(value.m[Head(path)], Tail(path))

-----------------------------------------------------------------------------
(* The effective document.                                                 *)

\* The managed endpoint carries the epoch, so that two epochs never share one.
managed_endpoint_path(epoch) == Str(<<"core-1.sock", "core-2.sock">>[epoch])

rewrite_managed_controller(doc, epoch) ==
  Put(Drop(doc, CONTROLLER_KEYS), LOCAL_CONTROLLER, managed_endpoint_path(epoch))

ZeroKey(doc, key) ==
  IF Has(doc, key) /\ doc[key].t = "int" THEN Put(doc, key, Num(0)) ELSE doc
zero_inbounds(doc) ==
  LET ports == FoldLeft(ZeroKey, doc, SetToSeq(INBOUND_PORT_FIELDS))
  IN  IF Child(Get(doc, "tun"), "enable") = Just(Bool(TRUE))
      THEN Put(ports, "tun", Map(Put(doc["tun"].m, "enable", Bool(FALSE))))
      ELSE ports

\* prepare: the full or the bootstrap document of an epoch.
prepare(source, managed, epoch, zeroed) ==
  LET doc == IF zeroed THEN zero_inbounds(source) ELSE source
  IN  IF managed THEN rewrite_managed_controller(doc, epoch) ELSE doc

\* str_value: empty strings do not count.
str_value(doc, key) ==
  IF Has(doc, key) /\ doc[key].t = "str" /\ doc[key].v # "" THEN Just(doc[key].v) ELSE Nothing

\* inspect, inspect_http and resolve_controller: the endpoint the manager uses.
resolve_controller(doc, managed) ==
  LET local == IF managed THEN str_value(doc, LOCAL_CONTROLLER) ELSE Nothing
  IN  IF local # Nothing THEN local ELSE str_value(doc, "external-controller")

-----------------------------------------------------------------------------
(* Classification.                                                         *)

dns_listen(doc) == Child(Get(doc, "dns"), "listen")
is_dns_listen(path) == Len(path) >= 2 /\ path[1] = "dns" /\ path[2] = "listen"

patch_nested_path_is_supported(path) ==
  CASE path[1] = "tun"         -> Len(path) >= 2 /\ path[2] \in TUN_PATCH_FIELDS
    [] path[1] = "tuic-server" -> Len(path) >= 2 /\ path[2] \in TUIC_SERVER_PATCH_FIELDS
    [] OTHER                   -> Len(path) = 1

filter_mapping(value, allowed) == Map([k \in DOMAIN value.m \cap allowed |-> value.m[k]])

\* Deserialising into ConfigPatch: a null becomes an absent field, a TUN stack
\* the client does not know becomes Unknown, and a value of another type fails.
TypeOf(path) == IF path[Len(path)] = "enable" THEN "bool"
                ELSE IF path[1] \in INBOUND_PORT_FIELDS THEN "int" ELSE "str"
WellTyped(path, value) ==
  value.t = TypeOf(path) \/ (value.t = "null" /\ path[Len(path)] # "enable")
UnknownStack(path, value) ==
  /\ path[Len(path)] = "stack" /\ value.t = "str"
  /\ value.v \notin {"system", "gVisor", "mixed"}
Known(path, value) == IF UnknownStack(path, value) THEN Str("Unknown") ELSE value

RECURSIVE Typed(_, _)
Typed(path, value) ==
  IF IsMap(value)
  THEN Map([k \in {j \in DOMAIN value.m : value.m[j] # Null} |-> Typed(Append(path, k), value.m[k])])
  ELSE Known(path, value)

ConfigPatchFrom(doc) ==
  IF \A leaf \in collect_leaves(Map(doc), << >>) :
       IsMap(leaf.value) \/ WellTyped(leaf.path, leaf.value)
  THEN Just(Typed(<< >>, Map(doc)).m) ELSE Nothing

Switch == [change |-> "switch"]
Failed == [change |-> "error"]

build_patch(desired, changes) ==
  LET roots == {e.path[1] : e \in changes}
      nested == roots \cap {"tun", "tuic-server"}
      allowed(root) == IF root = "tun" THEN TUN_PATCH_FIELDS ELSE TUIC_SERVER_PATCH_FIELDS
      doc   == [r \in roots |-> IF r \in nested THEN filter_mapping(desired[r], allowed(r)) ELSE desired[r]]
      patch == ConfigPatchFrom(doc)
  IN  IF ~(roots \subseteq DOMAIN desired) THEN Switch
      ELSE IF \E r \in nested : ~IsMap(desired[r]) THEN Failed
      ELSE IF \E r \in nested : ~Has(doc[r].m, "enable") \/ doc[r].m["enable"].t # "bool" THEN Switch
      ELSE IF patch = Nothing THEN Switch
      ELSE [change |-> "patch", patch |-> patch[1], expected |-> collect_leaves(Map(patch[1]), << >>)]

RemovalPatchable(e) == e.path[1] \in PATCH_FIELDS /\ patch_nested_path_is_supported(e.path)
Patchable(e) ==
  /\ e.new # Nothing
  /\ e.path[1] \in PATCH_FIELDS /\ patch_nested_path_is_supported(e.path)

Reloadable(e) ==
  /\ e.path[1] \in RELOAD_FIELDS
  /\ ~is_dns_listen(e.path)
  /\ ~(e.path[1] = "dns" /\ Len(e.path) = 1)

classify_documents(current, desired) ==
  LET changes == diff(current, desired)
  IN  IF dns_listen(current) # dns_listen(desired) THEN Switch
      ELSE IF changes = {} THEN [change |-> "noop"]
      ELSE IF \A e \in changes : Patchable(e) THEN build_patch(desired, changes)
      ELSE IF \A e \in changes : Reloadable(e) THEN [change |-> "reload"]
      ELSE Switch

\* classify, for the running source and effective documents and the desired ones.
classify(c) ==
  LET sources == diff(c.current, c.desired)
      running == prepare(c.current, c.managed, 1, FALSE)
      wanted  == prepare(c.desired, c.managedNow, 1, FALSE)
  IN  IF c.specChanged THEN Switch
      ELSE IF c.kind # "mihomo"
           THEN IF sources = {} /\ diff(running, wanted) = {} THEN [change |-> "noop"] ELSE Switch
      ELSE IF \E e \in sources : e.path[1] \in CONTROLLER_FIELDS \/ is_dns_listen(e.path) THEN Switch
      ELSE classify_documents(running, wanted)

\* restoration_patch: only nothing or a patch restores a bootstrap.
restoration_patch(bootstrap, desired) ==
  LET c == classify_documents(bootstrap, desired)
  IN  IF c.change \in {"noop", "patch"} THEN c ELSE Failed

\* verify: the typed reply of GET /configs has every expected leaf.
verify(change, reply) ==
  \A leaf \in change.expected : value_at(Map(reply), leaf.path) = Just(leaf.value)

-----------------------------------------------------------------------------
(* Overlap.                                                                *)

nonempty_collection(value) == value.t # "null" /\ value.v # ""

InboundSurface(doc) ==
  LET enable(key) == Child(Get(doc, key), "enable")
  IN  \/ \E k \in INBOUND_PORT_FIELDS : Has(doc, k) /\ doc[k].t # "int"
      \/ Has(doc, "tun") /\ (~IsMap(doc["tun"]) \/ (enable("tun") # Nothing /\ enable("tun")[1].t # "bool"))
      \/ Has(doc, "tuic-server")
           /\ \/ ~IsMap(doc["tuic-server"])
              \/ enable("tuic-server") # Just(Bool(FALSE)) /\ DOMAIN doc["tuic-server"].m # {}
      \/ \E k \in TUNNEL_STRINGS : Has(doc, k) /\ doc[k] # Str("")
      \/ \E k \in COLLECTIONS : Has(doc, k) /\ nonempty_collection(doc[k])
      \/ \E k \in DOMAIN doc : k \in INBOUND_LIKE /\ k \notin PATCH_FIELDS \cup COLLECTIONS

\* overlap_block: a dns.listen decides alone, whatever else the document has.
overlap_block(doc) ==
  LET listen == dns_listen(doc)
  IN  IF listen # Nothing
      THEN IF listen[1] \in {Str(""), Null} THEN "none"
           ELSE IF listen[1].t = "str" THEN "dns_listen" ELSE "inbound"
      ELSE IF InboundSurface(doc) THEN "inbound" ELSE "none"

\* Without the check of the tuic server.
OverlapForgetsTuic(doc) ==
  IF overlap_block(doc) = "inbound" /\ overlap_block(Drop(doc, {"tuic-server"})) = "none"
  THEN "none" ELSE overlap_block(doc)
Overlap(doc) == overlap_block(doc)

graceful_degrade_reason(c) ==
  IF ~c.managedNow THEN "http"
  ELSE IF c.kind # "mihomo" THEN "kind"
  ELSE Overlap(c.desired)

CaseInit == case \in Cases

-----------------------------------------------------------------------------
(* The core, external: what listens, what a PATCH changes, and what it     *)
(* tells of itself.                                                        *)

Listens(doc) ==
  \/ \E k \in {"mixed-port", "extra-port"} : Has(doc, k) /\ doc[k] # Num(0)
  \/ Child(Get(doc, "tun"), "enable") = Just(Bool(TRUE))
  \/ Child(Get(doc, "tuic-server"), "enable") = Just(Bool(TRUE))
  \/ Has(doc, "ss-config") /\ doc["ss-config"] # Str("")
  \/ Has(doc, "listeners") /\ nonempty_collection(doc["listeners"])
  \/ dns_listen(doc) \notin {Nothing, Just(Str("")), Just(Null)}

\* PATCH sets what it carries and keeps the rest, one level down as well.
Merged(old, new) ==
  IF old # Nothing /\ IsMap(old[1]) /\ IsMap(new)
  THEN Map([k \in DOMAIN old[1].m \cup DOMAIN new.m |-> IF Has(new.m, k) THEN new.m[k] ELSE old[1].m[k]])
  ELSE new
Patched(doc, patch) ==
  [k \in DOMAIN doc \cup DOMAIN patch |-> IF Has(patch, k) THEN Merged(Get(doc, k), patch[k]) ELSE doc[k]]

\* The settings a core runs with: what the document leaves out, or sets to
\* null, has its default.
Setting(opt, default) == IF opt # Nothing /\ opt[1].t = default.t THEN opt[1] ELSE default
Settings(doc) ==
  LET top(key, default) == Setting(Get(doc, key), default)
      sub(key, field, default) == Setting(Child(Get(doc, key), field), default)
  IN  [k \in {"mixed-port", "interface-name", "ss-config", "tun", "tuic-server"} |->
         CASE k = "mixed-port" -> top(k, Num(0))
           [] k \in {"interface-name", "ss-config"} -> top(k, Str(""))
           [] k = "tun" -> Map([enable |-> sub(k, "enable", Bool(FALSE)),
                                stack  |-> sub(k, "stack", Str("gVisor"))])
           [] k = "tuic-server" -> Map([enable |-> sub(k, "enable", Bool(FALSE)),
                                        listen |-> sub(k, "listen", Str(""))])]

\* RuntimeConfig: every field is present, and a stack the client does not
\* know has become Unknown.
RuntimeConfig(doc) == Typed(<< >>, Map(Settings(doc))).m

-----------------------------------------------------------------------------
Running(c) == prepare(c.current, c.managed, 1, FALSE)
Wanted(c)  == prepare(c.desired, c.managedNow, 1, FALSE)

LeafPaths(doc) ==
  {leaf.path : leaf \in {l \in collect_leaves(Map(doc), << >>) : ~IsMap(l.value)}}
At(doc, path) == value_at(Map(doc), path)

\* ConfigPatch cannot say null, nor a TUN stack the client does not know.
Expressible(path, wanted) ==
  wanted # Nothing => wanted[1] # Null /\ ~UnknownStack(path, wanted[1])

\* The patch turns the running document into the wanted one, leaf by leaf.  A
\* leaf that is wanted null stays what it was, an unknown stack goes out as
\* Unknown, and every other one becomes exactly what is wanted.
PatchGives(running, patch, wanted) ==
  LET reached == Patched(running, patch)
  IN  \A path \in LeafPaths(running) \cup LeafPaths(reached) \cup LeafPaths(wanted) :
        \/ At(reached, path) = At(wanted, path)
        \/ At(wanted, path) = Just(Null) /\ At(reached, path) = At(running, path)
        \/ ~Expressible(path, At(wanted, path)) /\ At(reached, path) = Just(Str("Unknown"))

\* A core that verifies runs what is wanted, whichever part of the patch it
\* applied: every setting that the patch can express has its wanted value.
VerifiedRuns(running, change, wanted) ==
  \A roots \in SUBSET DOMAIN change.patch :
    LET actual == Patched(running, Drop(change.patch, roots))
    IN  verify(change, RuntimeConfig(actual)) =>
          \A path \in LeafPaths(Settings(wanted)) :
            Expressible(path, At(wanted, path)) =>
              At(Settings(actual), path) = At(Settings(wanted), path)

\* A change sent as PATCH makes the running configuration the desired one: no
\* removal, unsupported nested field or listener is left behind.  What is left
\* behind is named: a field whose desired value is null (mihomo.rs,
\* classify_documents and build_patch).
PatchReaches ==
  LET c == classify(case)
  IN  c.change = "patch" => PatchGives(Running(case), c.patch, Wanted(case))

\* Verification accepts the core that applied the patch, and a core that applied
\* none or a part of it only if nothing it left out makes a difference; an empty
\* patch is never accepted (mihomo.rs, RuntimeProjection::verify).
VerifyTells ==
  LET c == classify(case)
  IN  c.change = "patch" =>
        /\ VerifiedRuns(Running(case), c, Wanted(case))
        /\ verify(c, RuntimeConfig(Patched(Running(case), c.patch))) <=> c.patch # << >>

\* Whatever is not a switch keeps the control channel and the DNS listener, a
\* reload keeps every inbound as well, and nothing to do means that the
\* documents the core runs are equal (mihomo.rs, classify).
InPlaceKeepsEndpoints ==
  LET c == classify(case)
  IN  /\ c.change \in {"noop", "patch", "reload"} =>
           /\ resolve_controller(Running(case), case.managed) = resolve_controller(Wanted(case), case.managedNow)
           /\ dns_listen(Running(case)) = dns_listen(Wanted(case))
      /\ c.change = "reload" =>
           \A k \in DOMAIN case.current \cup DOMAIN case.desired :
             Get(case.current, k) # Get(case.desired, k) => k \in {"proxies", "dns"}
      /\ c.change = "noop" => Running(case) = Wanted(case)

Bootstrap(c) == prepare(c.desired, TRUE, 2, TRUE)
Full(c) == prepare(c.desired, TRUE, 2, FALSE)
Restored(c) ==
  LET r == restoration_patch(Bootstrap(c), Full(c))
  IN  \/ r.change = "noop" /\ Bootstrap(c) = Full(c)
      \/ /\ r.change = "patch"
         /\ PatchGives(Bootstrap(c), r.patch, Full(c))
         /\ VerifiedRuns(Bootstrap(c), r, Full(c))

\* When a graceful switch is chosen the bootstrap of the new epoch listens
\* nowhere, and the patch behind it restores the full document and is seen to, for
\* documents without a dns.listen (switching.rs, graceful_degrade_reason).
GracefulIsSafe ==
  graceful_degrade_reason(case) = "none" /\ dns_listen(case.desired) = Nothing
    => ~Listens(Bootstrap(case)) /\ Restored(case)

\* The same for every document: README.md says that every inbound is provably
\* zeroable and restorable when the graceful switch is selected.
EveryInboundZeroable ==
  graceful_degrade_reason(case) = "none" => ~Listens(Bootstrap(case))

\* The documents of two overlapping epochs resolve to different endpoints and
\* expose no other controller (clash.rs, rewrite_managed_controller).
EpochsKeepApart ==
  graceful_degrade_reason(case) = "none" =>
    LET old == prepare(case.desired, TRUE, 1, FALSE)
        new == Bootstrap(case)
    IN  /\ resolve_controller(old, TRUE) # resolve_controller(new, TRUE)
        /\ \A k \in CONTROLLER_KEYS : Has(old, k) /\ Has(new, k) => old[k] # new[k]

\* A change made in place takes effect and is seen to: the patch reaches the
\* desired document but for what ConfigPatch cannot express (a null, an unknown
\* TUN stack), a core that verifies has every other setting as desired, and the
\* control channel stays (mihomo.rs, classify, build_patch and verify).
InPlaceTakesEffect == PatchReaches /\ VerifyTells /\ InPlaceKeepsEndpoints

\* Two epochs can run side by side in a graceful switch: the bootstrap listens
\* nowhere, is restored by its patch, and shares no endpoint with the old core
\* (switching.rs, graceful_degrade_reason; clash.rs, rewrite_managed_controller).
OverlapIsSafe == GracefulIsSafe /\ EpochsKeepApart
=============================================================================
