----------------------------- MODULE ClashClient -----------------------------
(***************************************************************************)
(* The Clash API client (crates/clash-api): a client is built for a host,   *)
(* a typed call runs through execute(), whose retry policy may repeat the   *)
(* attempt, and the answer is decoded or handed out as a line stream.       *)
(*                                                                         *)
(* The controller and the network are external.  An attempt that times out  *)
(* may have been executed, may be executed later, or never.                 *)
(***************************************************************************)
EXTENDS Integers, Sequences, FiniteSets, SequencesExt, FiniteSetsExt

CONSTANTS MaxRetries,       \* of the exponential policy
          ProxyTimeoutMax,  \* i16::MAX, scaled
          GroupTimeoutMax,  \* i32::MAX, scaled
          IntervalMax,      \* isize::MAX, scaled
          BodyCap,          \* 16 KiB, scaled
          MaxFeed           \* bound: lines of a stream

VARIABLES api,   \* the client and its one call
          feed   \* the line stream of a successful streaming call

clientVars == <<api, feed>>

(***************************************************************************)
(* The endpoints: operation, method, retry_safe, what the caller gets, and  *)
(* the kind of duration among the arguments.                                *)
(***************************************************************************)
Timed(op, method, safe, reply, timing) ==
  [op |-> op, method |-> method, safe |-> safe, reply |-> reply, timing |-> timing]
Endpoint(op, method, safe, reply) == Timed(op, method, safe, reply, "none")
Getter(op) == Endpoint(op, "GET", TRUE, "json")
StreamPair(op, ws) == {Endpoint(op, "GET", TRUE, "stream"), Endpoint(ws, "GET", TRUE, "ws")}

ConfigsApi ==
  {Getter("configs"), Endpoint("update_config", "PUT", FALSE, "empty"),
   Endpoint("patch_config", "PATCH", FALSE, "empty"),
   Endpoint("update_geo_databases", "POST", FALSE, "empty")}

ConnectionsApi ==
  {Getter("connections"), Timed("connections_ws", "GET", TRUE, "ws", "interval"),
   Endpoint("close_connection", "DELETE", TRUE, "empty"),
   Endpoint("close_all_connections", "DELETE", FALSE, "empty")}

DnsApi == {Getter("dns_query")}
LogsApi == StreamPair("logs", "logs_ws") \cup StreamPair("structured_logs", "structured_logs_ws")

MaintenanceApi ==
  {Getter("hello"), Endpoint("collect_garbage", "PUT", FALSE, "empty"),
   Endpoint("flush_fake_ip_cache", "POST", FALSE, "empty"),
   Endpoint("flush_dns_cache", "POST", FALSE, "empty"),
   Endpoint("restart", "POST", FALSE, "json"), Endpoint("upgrade", "POST", FALSE, "json"),
   Endpoint("upgrade_ui", "POST", FALSE, "json"),
   Endpoint("upgrade_geo_databases", "POST", FALSE, "empty")}

MemoryApi == StreamPair("memory", "memory_ws")

GroupsApi ==
  {Getter("groups"), Getter("group"), Timed("group_delay", "GET", FALSE, "json", "group")}

ProxiesApi ==
  {Getter("proxies"), Getter("proxy"),
   Timed("proxy_delay", "GET", FALSE, "json", "proxy"),
   Endpoint("select_proxy", "PUT", FALSE, "empty"),
   Endpoint("clear_proxy_selection", "DELETE", FALSE, "empty")}

ProxyProvidersApi ==
  {Getter("proxy_providers"), Getter("proxy_provider"), Getter("provider_proxy"),
   Endpoint("update_proxy_provider", "PUT", FALSE, "empty"),
   Endpoint("healthcheck_proxy_provider", "GET", FALSE, "empty"),
   Timed("provider_proxy_delay", "GET", FALSE, "json", "proxy")}

RulesApi ==
  {Getter("rules"), Endpoint("patch_rules", "PATCH", FALSE, "empty"),
   Getter("rule_providers"), Endpoint("update_rule_provider", "PUT", FALSE, "empty")}

StorageApi ==
  {Getter("storage_get"), Endpoint("storage_put", "PUT", FALSE, "empty"),
   Endpoint("storage_delete", "DELETE", TRUE, "empty")}

TrafficApi == StreamPair("traffic", "traffic_ws")
VersionApi == {Getter("version")}

Endpoints ==
  ConfigsApi \cup ConnectionsApi \cup DnsApi \cup LogsApi \cup MaintenanceApi \cup MemoryApi
    \cup GroupsApi \cup ProxiesApi \cup ProxyProvidersApi \cup RulesApi \cup StorageApi
    \cup TrafficApi \cup VersionApi

(***************************************************************************)
(* ClientBuilder::build                                                    *)
(***************************************************************************)
NoApiCall == Endpoint("none", "GET", FALSE, "empty")

Fresh == [stage |-> "new", auth |-> FALSE, retries |-> 0, ep |-> NoApiCall, ms |-> 0,
          literal |-> FALSE, delays |-> 0, tries |-> 0, applied |-> 0, late |-> 0, result |-> "none",
          sent |-> 0, body |-> 0]

NoFeed == [lines |-> <<>>, closed |-> FALSE, read |-> 0, items |-> <<>>, open |-> FALSE]

ClientInit == api = Fresh /\ feed = NoFeed

\* normalize_base_url
BaseUrlOk(base) == base \notin {"scheme", "opaque", "query"}

Supported(host, unix) ==
  \/ host = "http"
  \/ host = "pipe" /\ ~unix
  \/ host = "socket" /\ unix

\* The secret becomes a header of HTTP hosts only; one that no header can
\* hold is an error there.
HeaderOk(host, secret) == host = "http" => secret # "unprintable"

Build ==
  /\ api.stage = "new"
  /\ \E host \in {"http", "pipe", "socket"}, unix \in BOOLEAN,
        base \in {"plain", "scheme", "opaque", "query"},
        secret \in {"none", "empty", "plain", "unprintable"}, retries \in {0, MaxRetries} :
       IF /\ host = "http" => BaseUrlOk(base)
          /\ Supported(host, unix)
          /\ HeaderOk(host, secret)
       THEN api' = [api EXCEPT !.stage = "ready", !.retries = retries,
                      !.auth = (host = "http" /\ secret = "plain")]
       ELSE api' = [api EXCEPT !.stage = "done", !.result = "build"]
  /\ UNCHANGED feed

(***************************************************************************)
(* A typed call: its arguments are validated before anything is sent.       *)
(***************************************************************************)
\* DelayQuery::new and ConnectionStreamQuery::new
Constructed(timing, ms) ==
  ms > 0 /\ ms <= (IF timing = "interval" THEN IntervalMax ELSE GroupTimeoutMax)

\* The fields of a DelayQuery are public: one put together without new() meets
\* only validate_proxy_timeout.
ValidTiming(timing, ms, literal) ==
  \/ timing = "none"
  \/ /\ literal \/ Constructed(timing, ms)
     /\ timing = "proxy" => ms <= ProxyTimeoutMax

Durations(ep) == IF ep.timing = "none" THEN {0} ELSE 0..(IntervalMax + 1)
Literals(ep) == IF ep.timing \in {"group", "proxy"} THEN BOOLEAN ELSE {FALSE}

\* The texts that are checked: the name and type of a DNS question, the key of
\* a stored value, the expected status of a delay test.
Texts(ep) ==
  IF ep.op = "dns_query" \/ ep.timing \in {"group", "proxy"} THEN {"good", "empty", "malformed"}
  ELSE IF ep \in StorageApi THEN {"good", "empty"} ELSE {"good"}
ValidText(text) == text = "good"

ApiCall ==
  /\ api.stage = "ready"
  /\ \E ep \in Endpoints : \E ms \in Durations(ep), literal \in Literals(ep), text \in Texts(ep) :
       api' = IF ValidText(text) /\ ValidTiming(ep.timing, ms, literal)
                THEN [api EXCEPT !.stage = "trying", !.ep = ep, !.ms = ms, !.literal = literal,
                                 !.delays = api.retries]
                ELSE [api EXCEPT !.stage = "done", !.ep = ep, !.result = "argument"]
  /\ UNCHANGED feed

\* endpoint(): a path is joined to the base unless it is a URL of its own or
\* cannot be joined.  The paths of the typed calls always can.
Resolves(path) == path \notin {"absolute", "unjoinable"}

\* request(), get() and the like hand out a request and send nothing.
RawRequest ==
  /\ api.stage = "ready"
  /\ \E path \in {"relative", "absolute", "unjoinable"} :
       api' = [api EXCEPT !.stage = "done",
                          !.result = IF Resolves(path) THEN "request" ELSE "endpoint"]
  /\ UNCHANGED feed

\* is_transient: by the error of the transport or of the handshake, or by
\* one of three statuses
Transient(error) == error \in {"connect", "timeout", "gateway"}

\* NoRetry never repeats; ExponentialRetry repeats what the endpoint permits.
RetriesAnything(a, error) == a.retries > 0 /\ Transient(error)
Retryable(a, error) == a.retries > 0 /\ a.ep.safe /\ Transient(error)

\* execute(): ask for a delay and try again, or return the error.
DelayLeft(a) == a.delays > 0

After(a, error) ==
  IF Retryable(a, error) /\ DelayLeft(a)
    THEN [a EXCEPT !.delays = @ - 1]
    ELSE [a EXCEPT !.stage = "done", !.result = error]

Attempt == api.stage = "trying"
Tried == [api EXCEPT !.tries = @ + 1]

NotConnected ==
  /\ Attempt /\ api' = After(Tried, "connect")
  /\ UNCHANGED feed

TimedOut ==
  /\ Attempt
  /\ \/ api' = After(Tried, "timeout")
     \/ api' = After([Tried EXCEPT !.applied = @ + 1], "timeout")
     \/ api' = After([Tried EXCEPT !.late = @ + 1], "timeout")
  /\ UNCHANGED feed

\* The abandoned request reaches the controller after all.
AppliedLate ==
  /\ api.late > 0
  /\ api' = [api EXCEPT !.late = @ - 1, !.applied = @ + 1]
  /\ UNCHANGED feed

\* ensure_success: the body of an error is read up to the cap.
ReadChunk(n, chunk) == IF n < BodyCap THEN n + Min({chunk, BodyCap - n}) ELSE n

ErrorStatus ==
  /\ Attempt
  /\ \E error \in {"gateway", "status"}, chunks \in SeqOf(1..BodyCap, 2), done \in {0, 1} :
       /\ done = 1 => error = "gateway"
       /\ api' = After([Tried EXCEPT !.applied = @ + done, !.sent = FoldLeft(+, 0, chunks),
                          !.body = FoldLeft(ReadChunk, 0, chunks)], error)
  /\ UNCHANGED feed

\* The handshake of a WebSocket is refused or the stream is not upgraded.
NotUpgraded ==
  /\ Attempt /\ api.ep.reply = "ws" /\ api' = After(Tried, "handshake")
  /\ UNCHANGED feed

Succeeds ==
  /\ Attempt
  /\ LET a == [Tried EXCEPT !.applied = @ + 1] IN
     api' = IF a.ep.reply = "json" THEN [a EXCEPT !.stage = "reading"]
            ELSE [a EXCEPT !.stage = "done", !.result = "ok"]
  /\ feed' = [feed EXCEPT !.open = (api.ep.reply = "stream")]

\* decode_json runs outside execute(): what it meets is never retried.
Decode ==
  /\ api.stage = "reading"
  /\ \E result \in {"ok", "read", "decode"} :
       api' = [api EXCEPT !.stage = "done", !.result = result]
  /\ UNCHANGED feed

(***************************************************************************)
(* HttpStream over the lines of the body: blank lines are skipped, a line   *)
(* that is no value is an item of its own, and an error of the codec (a     *)
(* line too long, a body cut off) is the last item.  Text behind the last   *)
(* line break is a line as well once the body ends.                         *)
(***************************************************************************)
FeedWritten ==
  /\ feed.open /\ ~feed.closed /\ Len(feed.lines) < MaxFeed
  /\ \E line \in {"blank", "value", "garbage", "codec"} :
       feed' = [feed EXCEPT !.lines = Append(@, line)]
  /\ UNCHANGED api

FeedClosed ==
  /\ feed.open /\ ~feed.closed
  /\ feed' = [feed EXCEPT !.closed = TRUE]
  /\ UNCHANGED api

EndsStream(line) == line = "codec"

FeedLine ==
  /\ feed.open /\ feed.read < Len(feed.lines)
  /\ LET line == feed.lines[feed.read + 1] IN
     feed' = [feed EXCEPT !.read = @ + 1, !.open = ~EndsStream(line),
                          !.items = IF line = "blank" THEN @ ELSE Append(@, line)]
  /\ UNCHANGED api

FeedEnds ==
  /\ feed.open /\ feed.closed /\ feed.read = Len(feed.lines)
  /\ feed' = [feed EXCEPT !.open = FALSE]
  /\ UNCHANGED api

ClientNext ==
  \/ Build \/ ApiCall \/ RawRequest
  \/ NotConnected \/ TimedOut \/ ErrorStatus \/ NotUpgraded \/ Succeeds
  \/ AppliedLate \/ Decode
  \/ FeedWritten \/ FeedClosed \/ FeedLine \/ FeedEnds

-----------------------------------------------------------------------------
\* What the controller must not do twice for one call: everything but reads
\* of its state and removals by key.
OnceOnly(ep) ==
  IF ep.method = "GET" THEN ep.timing \in {"group", "proxy"} \/ ep.op = "healthcheck_proxy_provider"
  ELSE ep.op \notin {"close_connection", "storage_delete"}

\* A call whose repetition changes something reaches the controller at most
\* once, whichever answers are lost or late (execute() with retry_safe).
AppliedOnce == OnceOnly(api.ep) => api.applied + api.late <= 1

\* A call that returned a value was executed, and one that gave up on a
\* transient error had used every delay of its policy.
RetriesExhausted ==
  api.stage = "done" /\ api.tries > 0 =>
    /\ api.result = "ok" => api.applied > 0
    /\ Retryable(api, api.result) => api.tries = 1 + api.retries

\* A duration that was sent fits the integer the controller parses it into: 16
\* bits for one proxy, however the query was made; 32 for a group and a machine
\* word for an interval, none of them zero, when a constructor made the query
\* (proxies.rs, DelayQuery; connections.rs, ConnectionStreamQuery).
TimeoutFits ==
  api.tries > 0 =>
    /\ api.ep.timing = "proxy" => api.ms <= ProxyTimeoutMax
    /\ api.ep.timing \in {"proxy", "group"} /\ ~api.literal => api.ms \in 1..GroupTimeoutMax
    /\ api.ep.timing = "interval" => api.ms \in 1..IntervalMax

\* The kept error body is the head of what came, whatever its chunks.
BodyIsHead == api.body = Min({api.sent, BodyCap})

\* The items of a stream are the lines of the body in order, without the blank
\* ones, and a stream that ended had given out every one of them, the text behind
\* the last line break included, unless the codec failed: a line that does not
\* decode ends nothing (stream.rs, from_response).
StreamKeepsValues ==
  /\ feed.items = SelectSeq(SubSeq(feed.lines, 1, feed.read), LAMBDA l : l # "blank")
  /\ feed.read > 0 /\ ~feed.open =>
       \/ feed.closed /\ feed.read = Len(feed.lines)
       \/ feed.lines[feed.read] = "codec"

\* A call does what its caller may assume: no effect twice, no delay of the
\* policy unused, no duration beyond what the other side can hold, every line of
\* a stream before its end and the head of an error body (client.rs, execute;
\* proxies.rs; stream.rs).
ClientSound ==
  /\ AppliedOnce /\ RetriesExhausted
  /\ TimeoutFits /\ BodyIsHead /\ StreamKeepsValues
=============================================================================
