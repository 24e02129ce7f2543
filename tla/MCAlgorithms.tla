---------------------------- MODULE MCAlgorithms ----------------------------
(***************************************************************************)
(* The algorithms of the detection path over bounded inputs.  A behaviour  *)
(* takes one lane, chosen when it starts, and leaves the others alone:     *)
(* the correlation window, the union of campaign links, plan and apply,    *)
(* the response commands of an agent, or a probe: an input of a pure       *)
(* function, some grown word by word.                                      *)
(***************************************************************************)
EXTENDS Correlation, Sigma, Campaign, NodeConfig, Codecs, Dsl, Enrichment, Response

VARIABLE probe

algVars == <<vars, campaignVars, configVars, responseVars, probe>>

---------------------------------------------------------------------------
(* Correlation: a rule of every kind, as the YAML has it                   *)

CorrDoc(kind, rules, timespan, condition) ==
    [title |-> "t", id |-> "", kind |-> kind, rules |-> rules, timespan |-> timespan, condition |-> condition,
     field |-> kind = "value_count"]

CorrDocs == {
    CorrDoc("event_count", <<"a">>, <<1, "s">>, {<<"gte", 2>>}),
    CorrDoc("event_count", <<"a", "b">>, <<2, "s">>, {<<"gt", 2>>, <<"lt", 9>>}),
    CorrDoc("event_count", <<"b">>, <<1, "m">>, {<<"eq", 2>>}),
    CorrDoc("event_count", <<"b">>, <<0, "s">>, {<<"eq", 2>>}),
    CorrDoc("event_count", <<"b">>, <<1, "s">>, {}),
    CorrDoc("value_count", <<"a">>, <<2, "s">>, {<<"gte", 2>>, <<"lte", 3>>}),
    CorrDoc("value_count", <<"a">>, <<1, "s">>, {}),
    CorrDoc("temporal", <<"a", "b">>, <<1, "s">>, {}),
    CorrDoc("temporal_ordered", <<"a", "b", "a">>, <<2, "s">>, {}),
    CorrDoc("temporal", <<>>, <<1, "s">>, {})}

Rules == {c \in {FromCorrelation(d) : d \in CorrDocs} : c.ok}

\* What one event can match, in the engine's order.
Matches == {<<"a">>, <<"b">>, <<"a", "b">>, <<"c">>}

---------------------------------------------------------------------------
(* Sigma: all short word sequences, longer conditions and each of their    *)
(* one-word changes; documents over every pattern of two characters        *)

TheNames == {"sel", "flt"}
ThePicks == [w \in {"sel", "flt", "typo", "s*"} |-> IF w = "s*" THEN {"sel"} ELSE {w} \cap TheNames]
TheNumeral == [w \in {"1", "2"} |-> IF w = "1" THEN 1 ELSE 2]
TheAlias == [f \in {"f", "message"} |-> IF f = "f" THEN "user" ELSE f]

Word == Keyword \cup DOMAIN ThePicks \cup DOMAIN TheNumeral
Conditions == {
    <<"sel", "and", "not", "flt", "or", "typo">>,
    <<"not", "(", "sel", "or", "flt", ")", "and", "1", "of", "s*">>,
    <<"(", "1", "of", "them", "or", "sel", ")", "and", "not", "all", "of", "them">>,
    <<"sel", "or", "flt", "and", "not", "not", "sel", "or", "typo">>}
Spoilt(s) ==
    {s} \cup {RemoveAt(s, i) : i \in DOMAIN s}
    \cup {ReplaceAt(s, i, w) : i \in DOMAIN s, w \in Word} \cup {InsertAt(s, i, w) : i \in DOMAIN s, w \in Word}

F(key) == [key |-> key, lower |-> "f"]
Entry(mods, values) == [field |-> F("f"), mods |-> mods, values |-> values]
YMap(entries) == [is |-> "map", map |-> entries]
YList(items) == [is |-> "list", list |-> items]
YText(t) == [is |-> "scalar", scalar |-> t]
Doc(title, sel, flt, conds) ==
    [id |-> "", title |-> title, level |-> "high", tags |-> <<>>, condlist |-> Len(conds) > 1, condition |-> conds,
     detection |-> [n \in TheNames |-> IF n = "sel" THEN sel ELSE flt]]

\* Four documents around one pattern and one list of modifiers.
Docs(mods, p) == <<
    Doc("pattern", YMap(<<Entry(mods, <<p>>)>>), YMap(<<Entry(<<>>, <<Null>>)>>),
        <<<<"sel">>, Null, <<"flt">>>>),
    Doc("both", YMap(<<Entry(mods, <<p, <<"b">>>>)>>),
        YList(<<YText(<<"a", " ", "b">>), YMap(<<Entry(<<"cased">>, <<p>>)>>)>>), <<<<"sel", "and", "not", "flt">>>>),
    Doc("broken", YMap(<<>>), YMap(<<>>), <<<<"sel", "and">>>>),
    Doc("last", YList(<<YText(p)>>), YList(<<YText(<<"b">>)>>), <<<<"all", "of", "them">>>>)>>

Patterns == UNION {[1 .. n -> {"a", "b", "*", "?"}] : n \in 1 .. 2} \cup
            {<<"a", "*", "b">>, <<"*", "a", "*">>, <<"a", "?", "*">>, <<"?", "b", "a">>}
ModLists == {<<>>, <<"contains">>, <<"startswith">>, <<"endswith">>, <<"contains", "all">>, <<"wide">>}
Texts == UNION {[1 .. n -> {"a", "b"}] : n \in 0 .. 3} \cup {<<"a", NewLine>>, <<NewLine, "b">>, <<"a", NewLine, "b">>}
Happening(fields, user) ==
    [id |-> "e", ts |-> 0, fields |-> fields,
     parts |-> [message |-> <<"a">>, user |-> user, process |-> <<>>, actor |-> user, host |-> <<"b">>, target |-> <<>>]]
Happenings ==
    {Happening({}, <<>>), Happening({}, <<"a", "b">>)}
    \cup {Happening({[name |-> F("F"), value |-> t]}, <<>>) : t \in Texts}
    \cup {Happening({[name |-> F("f"), value |-> <<"a">>], [name |-> F("F"), value |-> t]}, <<>>) : t \in Texts}

---------------------------------------------------------------------------
(* Campaigns: three batches, each with no similar pair, one or two         *)

Ev(ts, class, host, actor, target, technique, anomaly) ==
    [ts |-> ts, class |-> class, host |-> host, actor |-> actor, target |-> target, technique |-> technique,
     anomaly |-> anomaly]
Scenes == {
    <<Ev(0, "auth", "h", "u", "-", "T1110", 50), Ev(60, "proc", "h", "-", "-", "", 20),
      Ev(30, "net", "-", "u", "ip", "", 75), Ev(200, "auth", "-", "v", "ip", "", 20)>>,
    <<Ev(0, "auth", "h", "u", "-", "", 20), Ev(0, "auth", "h", "v", "-", "", 20),
      Ev(30, "proc", "h", "u", "-", "", 20), Ev(40, "net", "h", "v", "ip", "", 90)>>,
    <<Ev(0, "auth", "-", "-", "-", "", 20), Ev(100, "proc", "-", "u", "-", "", 20),
      Ev(210, "proc", "-", "u", "-", "", 20), Ev(90, "net", "h", "-", "-", "", 30),
      Ev(150, "proc", "h", "u", "-", "", 90)>>}
Alike(n) == {Q \in SUBSET {p \in SUBSET (1 .. n) : Cardinality(p) = 2} : Cardinality(Q) <= IF n > 4 THEN 1 ELSE 2}
Batches ==
    UNION {{[events |-> s,
             sim |-> [i \in DOMAIN s |-> [j \in DOMAIN s |->
                        IF i = j THEN 100 ELSE IF {i, j} \in P THEN 60 + i + j ELSE 10]]] : P \in Alike(Len(s))} :
           s \in Scenes}
TheCfg == [window |-> 120, threshold |-> 50, knn |-> 1, cross |-> TRUE, semantic |-> TRUE, entity |-> TRUE, beam |-> 2]
TheTactics == [t \in {"T1110"} |-> "credential-access"]
TheClasses == [c \in {"auth", "proc", "net"} |-> c]

---------------------------------------------------------------------------
(* Configurations                                                          *)

TheSections == <<"version", "inputs", "sigma">>
TheDefaults == [s \in Range(TheSections) |->
    CASE s = "version" -> Scalar("1") [] s = "inputs" -> ListOf(<<>>) [] s = "sigma" -> Scalar("off")]
Written(inputs, sigma) == MapOf([s \in Range(TheSections) |->
    CASE s = "version" -> Scalar("1") [] s = "inputs" -> inputs [] s = "sigma" -> sigma])
TheDesired ==
    {Written(ListOf(i), Scalar(g)) : i \in {<<>>, <<Scalar("a")>>, <<Scalar("a"), Scalar("b")>>}, g \in {"off", "on"}}
TheDirs == [c \in TheDesired |-> IF c = Written(ListOf(<<>>), Scalar("on")) THEN "other" ELSE "data"]

Leaf == {Scalar("a"), Scalar("b")}
Shallow ==
    Leaf \cup {ListOf(s) : s \in UNION {[1 .. n -> Leaf] : n \in 0 .. 2}}
    \cup {MapOf(m) : m \in UNION {[K -> Leaf] : K \in SUBSET {"k", "l"}}}
Trees ==
    Shallow \cup {ListOf(<<a, b>>) : a \in Shallow, b \in Leaf}
    \cup {MapOf([k \in {"k", "l"} |-> IF k = "k" THEN a ELSE Scalar("a")]) : a \in Shallow}

In(id, kind, codec, settings) == [id |-> id, kind |-> kind, codec |-> codec, settings |-> settings]
FileIn == In("f", "file", "json", {"path"})
Line(id, from, route) == [id |-> id, from |-> from, route |-> route]
Configs ==
    [version : {1, 2}, targets : {<<>>, <<"query">>, <<"ingest", "index">>},
     inputs : {<<>>, <<FileIn>>, <<In("f", "file", "xml", {"path"}), In("s", "syslog", "syslog", {"listen"})>>,
               <<In("f", "file", "json", {})>>, <<In("k", "kafka", "json", {}), FileIn>>, <<FileIn, FileIn>>},
     pipelines : {<<>>, <<Line("p", <<"f">>, <<"index">>), Line("p", <<"s">>, <<"sigma">>)>>,
                  <<Line("p", <<"f">>, <<"index">>), Line("q", <<"s">>, <<"sigma">>)>>}
                 \cup {<<Line("p", from, route)>> :
                        from \in {<<>>, <<"f">>, <<"s", "f">>, <<"k">>},
                        route \in {<<>>, <<"index">>, <<"sigma">>, <<"index", "sigma">>, <<"correlation">>, <<"disk">>}},
     sigma : [enabled : BOOLEAN, rulepacks : BOOLEAN, dir : {"unset", "missing", "empty", "there"}],
     detectors : BOOLEAN,
     edr : {[enabled |-> TRUE, listen |-> TRUE, cert |-> FALSE, key |-> FALSE, tokens |-> FALSE],
            [enabled |-> TRUE, listen |-> FALSE, cert |-> TRUE, key |-> FALSE, tokens |-> TRUE]}]

---------------------------------------------------------------------------
(* Queries and frames                                                      *)

TheIdents == {"host", "n", "message", "count"}
Table == <<
    [host |-> "a", n |-> 2, message |-> <<"x", "y">>], [host |-> "b", n |-> 1, message |-> <<"y">>],
    [host |-> "a", n |-> 3, message |-> <<>>], [host |-> "b", n |-> 2, message |-> <<"x", "_", "y">>]>>
Stages ==
    [cmd : {"search"}, term : {<<>>, <<"x">>, <<"_">>, <<"x", "%">>}]
    \cup [cmd : {"where"}, col : {"n"}, op : {">", "<=", "!=", "=", "like"}, value : {2}]
    \cup [cmd : {"where"}, col : {"message"}, op : {"contains"}, text : {<<"y">>}]
    \cup [cmd : {"where"}, col : {"a-b"}, op : {"="}, value : {2}]
    \cup [cmd : {"stats"}, alias : {"count"}, by : {<<>>, <<"host">>}]
    \cup [cmd : {"fields"}, cols : {<<"host">>, <<"n", "host">>}]
    \cup [cmd : {"sort"}, col : {"n", "count"}, desc : BOOLEAN]
    \cup [cmd : {"head", "limit"}, n : {1, 2}] \cup [cmd : {"drop"}]

TheHeader == <<"product", "name">>
Headers == [1 .. 2 -> {<<"a">>, <<"|">>, <<"|", " ", "=">>, <<Esc, "|">>}]
Inner(chars) == {t \in UNION {[1 .. n -> chars] : n \in 1 .. 3} : t[1] # " " /\ t[Len(t)] # " "}
Values == Inner({"a", "n", "=", "|", " "})
TheChars == [n \in {9, 94} |-> IF n = 9 THEN "TAB" ELSE "^"]
Delims == {[v2 |-> FALSE, spec |-> <<>>, delim |-> "TAB"]} \cup
    [v2 : {TRUE}, spec : {<<"^">>, <<" ", "^">>, <<"x", "5", "e">>, <<"0", "x", "5", "E">>}, delim : {"^"}] \cup
    [v2 : {TRUE}, spec : {<<>>, <<"x", "0", "9">>, <<"0", "x", "9">>}, delim : {"TAB"}] \cup
    [v2 : {TRUE}, spec : {<<"x">>}, delim : {"x"}]

\* How a syslog line starts, and the words that follow.
SysHeads == {<<>>, <<<<"1">>, <<"T">>>>, <<<<"Jan">>, <<"2">>, <<"T">>, <<"h">>>>,
             <<<<"1">>, <<"T">>, <<"h">>, <<"a">>, <<"-">>, <<"i">>>>}
SysWord == {<<"1">>, <<"h">>, <<"t", ":">>, <<"t", "[", "1", "]", ":">>, <<"-">>, <<"-", "h">>, <<"[", "s", "]">>, <<"[", "s">>, <<"s", "]">>}
Message == UNION {[1 .. n -> {"u", "v", "w"}] : n \in 1 .. 2} \cup {<<"u", "v", "w">>}
Frames == {
    <<"json", [is |-> "array", items |-> <<>>]>>, <<"json", [is |-> "bad", text |-> <<"a">>]>>,
    <<"json", [is |-> "array", items |-> <<[is |-> "object", fields |-> [f \in {"k"} |-> "v"]], [is |-> "object", fields |-> <<>>], [is |-> "text", text |-> "t"]>>]>>,
    <<"cef", <<"a">>>>, <<"cef", <<"CEF:", "a">>>>, <<"cef", <<"h", " ", "CEF:", "a", "|", "b", "|", "a", "=", "n", NL>>>>,
    <<"leef", <<"a", " ">>>>, <<"leef", <<"LEEF:", "2", "|", "a", "|", "b">>>>, <<"leef", <<"LEEF:", "2">>>>,
    <<"leef", <<"LEEF:", "1", "|", "v", "|", "p", "|", "1", "|", "7", "|", "m", "=", "a">>>>,
    <<"leef", <<"LEEF:", "2", "|", "v", "|", "p", "|", "1", "|", "7", "|", "m", "=", "a">>>>,
    <<"syslog", <<"1", " ", "2">>>>, <<"xml", <<"a">>>>}

---------------------------------------------------------------------------
(* Records and endpoint events: an indicator in every place and spelling   *)

TheImages == [p \in {"p", "q", "r"} |-> IF p = "r" THEN "other" ELSE "bad"]

TheBits == [l \in {"zq3v9xkw", "evil", "com", "x", "***", "root", "0"} |-> IF l = "zq3v9xkw" THEN 3496 ELSE IF l = "root" THEN 2996 ELSE 0]
Odd == Text(<<"zq3v9xkw", "x", "com">>)
Evil == Text(<<"evil", "com">>)
Link == [Evil EXCEPT !.form = "url"]
TheFeed == {Evil, Link}
TheIocs == [hashes |-> {Evil}, ips |-> {Evil}, domains |-> {Evil}]

FieldKeys == {"user", "url", "src_ip", "dst_ip", "host", "domain", "query", "tag", "message", "syslog_severity", "dga.score"}
Readings == {Odd, Evil, [Evil EXCEPT !.caps = TRUE], Link, [Text(<<"root">>) EXCEPT !.form = "secret"], Text(<<"x">>), Number(400)}
Records ==
    [fields : UNION {[K -> Readings] : K \in {K \in SUBSET FieldKeys : Cardinality(K) <= 2}}, says : {{}, {"auth", "failed"}},
     named : {Evil}]
Pipelines == {<<>>, <<<<"redact", "geoip">>, <<"threatintel", "entropy">>>>, <<<<"entropy", "threat_intel">>, <<"redact">>>>,
              <<<<"entropy", "threatintel">>, <<"redact", "entropy", "threatintel">>>>}

Hashes == {Blank, Evil, [Evil EXCEPT !.caps = TRUE], Odd}
Proc(h) == [id |-> Text(<<"x">>), name |-> Text(<<"x">>), hash |-> h]
Endpoints ==
    [kind : {"process_start", "file_create", "network_connect", "dns_query", "module_load", "registry_set", "persistence_add"},
     agent : {Evil}, detail : BOOLEAN, a : Hashes, b : Hashes, hash : Hashes,
     process : {Proc(h) : h \in Hashes}, parent : {Proc(Evil), Proc(Blank)},
     extra : {<<>>, <<<<"k", Evil>>>>, <<<<"file.hash.sha256", Text(<<"x">>)>>>>}]

---------------------------------------------------------------------------
(* The lanes                                                               *)

\* Inputs that are tried as they are.
Probes == <<
    [lane : {"rules"}, mods : ModLists, pattern : Patterns, event : Happenings],
    [lane : {"words"}, q : {<<>>} \cup UNION {Spoilt(s) : s \in Conditions}],
    [lane : {"stages", "messages"}, q : {<<>>}],
    [lane : {"syslog"}, start : SysHeads, q : {<<>>}],
    [lane : {"diff"}, from : Trees, to : Trees],
    [lane : {"config"}, cfg : Configs],
    [lane : {"shards"}, s : 1 .. 6, n : 1 .. 5, r : 1 .. 6],
    [lane : {"cef"}, header : Headers, a : Values, b : {<<>>, <<"=", "a">>, <<"a", " ", "n">>}],
    [lane : {"leef"}, by : Delims, key : {"m", "k"}, a : Values],
    [lane : {"frame"}, frame : Frames],
    [lane : {"records"}, record : Records, pipelines : Pipelines],
    [lane : {"endpoint"}, event : Endpoints]>>

CorrIdle ==
    /\ rule = CHOOSE r \in RuleSet : TRUE
    /\ engine = Fresh /\ seen = 0 /\ clock = 0 /\ late = FALSE /\ stream = <<>>
    /\ since = [g \in Group |-> <<>>] /\ last = [ref |-> <<>>, fired |-> FALSE]
CampaignIdle == CampaignInit({[events |-> <<>>, sim |-> <<>>]})
ConfigIdle == declared = Written(ListOf(<<>>), Scalar("off")) /\ ConfigInit

ResponseIdle ==
    /\ os = "linux" /\ work = [t \in Task |-> "kill"] /\ step = [t \in Task |-> "gone"] /\ pending = [t \in Task |-> {}]
    /\ fw = Open /\ file = [there |-> TRUE, copies |-> {}, sealed |-> {}] /\ alive = {} /\ failures = MaxFailures

AlgInit ==
    \/ probe = [lane |-> "correlation"] /\ Init /\ CampaignIdle /\ ConfigIdle /\ ResponseIdle
    \/ probe = [lane |-> "campaign"] /\ CampaignInit(Batches) /\ CorrIdle /\ ConfigIdle /\ ResponseIdle
    \/ probe = [lane |-> "apply"] /\ ConfigInit /\ CorrIdle /\ CampaignIdle /\ ResponseIdle
    \/ probe = [lane |-> "response"] /\ ResponseInit /\ CorrIdle /\ CampaignIdle /\ ConfigIdle
    \/ CorrIdle /\ CampaignIdle /\ ConfigIdle /\ ResponseIdle /\ \E k \in DOMAIN Probes : probe \in Probes[k]

\* A probe that is a sequence grows by one element.
Grow(lane, bound, S) ==
    /\ probe.lane = lane /\ Len(probe.q) < bound
    /\ \E x \in S : probe' = [probe EXCEPT !.q = Append(@, x)]
    /\ UNCHANGED <<vars, campaignVars, configVars, responseVars>>

AlgNext ==
    \/ probe.lane = "correlation" /\ Next /\ UNCHANGED <<campaignVars, configVars, responseVars, probe>>
    \/ probe.lane = "campaign" /\ Unite /\ UNCHANGED <<vars, configVars, responseVars, probe>>
    \/ probe.lane = "apply" /\ ConfigNext /\ UNCHANGED <<vars, campaignVars, responseVars, probe>>
    \/ probe.lane = "response" /\ ResponseNext /\ UNCHANGED <<vars, campaignVars, configVars, probe>>
    \/ Grow("words", 4, Word)
    \/ Grow("stages", 3, Stages)
    \/ Grow("syslog", 4, SysWord)
    \/ Grow("messages", 4, Message)

AlgSpec == AlgInit /\ [][AlgNext]_algVars

---------------------------------------------------------------------------
(* Properties: the reference definitions of each module, on its lane       *)

\* Sigma conditions and rules mean what their grammar and their YAML say
\* (condition.rs, matcher.rs, engine.rs).
SigmaMeaning ==
    /\ probe.lane = "words" => ConditionMeans(probe.q)
    /\ probe.lane = "rules" => RulesMean(Docs(probe.mods, probe.pattern), probe.event)

\* A correlation fires when its window is due, once per burst, on matches of one
\* timespan, live and in a retro-hunt (correlation.rs, hunt.rs).
CorrelationFires == FiresWhenDue /\ OneBurst /\ WithinTimespan

\* Campaigns are the components of the link graph, and a chain is one of its
\* paths (campaign.rs, causal.rs).
CampaignsHold == CampaignsAreComponents /\ ChainsHold

\* plan lists exactly the differences, whatever the two trees, and after an
\* apply it knows whether something drifted (plan.rs); a configuration that
\* validates runs as it reads (validate.rs, run.rs), and shards spread over the
\* cluster (shard.rs).
Deployed ==
    /\ probe.lane = "diff" => DiffExact(probe.from, probe.to)
    /\ DriftTruth
    /\ probe.lane = "config" => RoutedOrWarned(probe.cfg)
    /\ probe.lane = "shards" => Spread(probe.s, probe.n, probe.r)

\* A pipe query and its SQL statement agree (dsl.rs lower).
DslMeaning == probe.lane = "stages" => LowersTrue(probe.q, Table)

\* The two extension fields of a CEF probe.
Extension == <<<<"a", probe.a>>>> \o (IF probe.b = <<>> THEN <<>> ELSE <<<<"n", probe.b>>>>)

\* Codecs read back what was written and lose no frame (codec.rs, cef.rs,
\* leef.rs), and templates keep covering their messages (template.rs).
CodecsFaithful ==
    /\ probe.lane = "cef" => CefReads(probe.header, Extension)
    /\ probe.lane = "leef" => LeefReads(probe.by, <<"7">>, <<<<probe.key, probe.a>>, <<"n", <<"a", "=">>>>>>)
    /\ probe.lane = "syslog" => SyslogReads(probe.start \o probe.q)
    /\ probe.lane = "messages" => TemplatesCover(probe.q)
    /\ probe.lane = "frame" => FramesKept(probe.frame[1], probe.frame[2])

\* The label, the alerts and the masking of an event follow from what it
\* carries and from the steps' order (normalize, enrich, detect, map.rs).
EventsMean ==
    /\ probe.lane = "records" => RecordsMean(probe.record, probe.pipelines)
    /\ probe.lane = "endpoint" => EndpointMeans(probe.event)
============================================================================
