----------------------------- MODULE Enrichment -----------------------------
(***************************************************************************)
(* From a decoded record to the alerts of the custom detectors: the        *)
(* normalizer (sigil-normalize), the chain of enrichers (sigil-enrich)     *)
(* that run.rs builds from the steps of all pipelines, and the detectors   *)
(* (sigil-detect).  An endpoint event takes another way: map.rs of         *)
(* sigil-edr makes the event, and neither the normalizer nor the enrichers *)
(* see it.                                                                 *)
(*                                                                         *)
(* A value is its labels (the parts between dots), whether it has capital  *)
(* letters, its form (plain, a URL, a secret, or a number) and the number. *)
(* What a message says is a set: "auth" for any of the words of a login,   *)
(* "failed" for any of a failure; `named` is the user it names after "for" *)
(* or Blank.                                                               *)
(***************************************************************************)
EXTENDS Integers, Sequences, FiniteSets, SequencesExt

CONSTANTS
    Bits,           \* Bits[l]: the entropy of label l in thousandths of a bit, or 0
                    \* for one under 8 characters
    SuspectThreshold, \* threshold of the entropy enricher, in hundredths
    DgaThreshold,   \* threshold of the dga detector, in hundredths
    Feed,           \* indicators of the threatintel enricher, lower case
    Iocs            \* indicators of the ioc detector, lower case: [hashes, ips, domains]

Text(labels) == [labels |-> labels, caps |-> FALSE, form |-> "plain", num |-> 0]
Number(n) == [labels |-> <<"0">>, caps |-> FALSE, form |-> "number", num |-> n]
Blank == Text(<<>>)
LowerCase(v) == [v EXCEPT !.caps = FALSE]
Entity(kind, id) == [kind |-> kind, id |-> id]
Nobody == Entity("none", Blank)

---------------------------------------------------------------------------
(* Normalizer                                                              *)

\* first_str: the first of the keys with something in it.
FirstStr(f, keys) ==
    LET full == SelectSeq(keys, LAMBDA k : k \in DOMAIN f /\ f[k] # Blank)
    IN  IF full = <<>> THEN Blank ELSE f[full[1]]

HasKey(f, keys) == \E k \in keys : k \in DOMAIN f

\* An entity of what first_str found, if anything.
Found(kind, v) == IF v = Blank THEN Nobody ELSE Entity(kind, v)

\* classify: the first class whose fields are there, or whose words the
\* message has, and the actor and target that its fields name.
Classify(r) ==
    LET f == r.fields
        user == FirstStr(f, <<"user", "username", "user.name", "user_name">>)
        app == FirstStr(f, <<"app", "appname", "tag">>)
        as(class, actor, target) == [class |-> class, actor |-> actor, target |-> target]
    IN  CASE "auth" \in r.says \/ HasKey(f, {"user", "username", "user.name", "auth", "logon_type"}) ->
                as("authentication", Found("user", IF user = Blank THEN r.named ELSE user),
                   Found("ip", FirstStr(f, <<"src_ip", "source.ip", "src", "client_ip">>)))
          [] HasKey(f, {"http_method", "method", "url", "uri", "http.request.method", "status_code"}) ->
                as("http", Nobody, Found("url", FirstStr(f, <<"url", "uri", "url.full">>)))
          [] HasKey(f, {"src_ip", "dst_ip", "source.ip", "destination.ip", "dest_ip", "dst_port"}) ->
                as("network", Found("ip", FirstStr(f, <<"src_ip", "source.ip", "src">>)),
                   Found("ip", FirstStr(f, <<"dst_ip", "destination.ip", "dest_ip", "dst">>)))
          [] HasKey(f, {"process", "process.name", "cmd", "command_line", "exe", "image"}) ->
                as("process", Found("process", FirstStr(f, <<"process", "process.name", "exe", "image">>)), Nobody)
          [] HasKey(f, {"eventName", "methodName", "protoPayload", "eventSource"}) -> as("api", Nobody, Nobody)
          [] app # Blank -> as("process", Entity("process", app), Nobody)
          [] OTHER -> as("other", Nobody, Nobody)

\* severity_from: the number of a syslog record, else what the message says.
SeverityFrom(r) ==
    IF "syslog_severity" \in DOMAIN r.fields /\ r.fields["syslog_severity"].form = "number"
      THEN LET n == r.fields["syslog_severity"].num
           IN  CASE n <= 2 -> "critical" [] n = 3 -> "high" [] n = 4 -> "medium" [] n = 5 -> "low" [] OTHER -> "informational"
      ELSE IF "failed" \in r.says THEN "medium" ELSE "informational"

\* Normalizer::normalize
Normalize(r) ==
    LET c == Classify(r)
    IN  [message |-> FirstStr(r.fields, <<"message", "msg", "event.original">>),
         host |-> Found("host", FirstStr(r.fields, <<"host", "hostname", "host.name", "host_name">>)),
         actor |-> c.actor, target |-> c.target, class |-> c.class, severity |-> SeverityFrom(r),
         fields |-> r.fields, labels |-> <<>>]

---------------------------------------------------------------------------
(* Enrichers                                                               *)

\* insert into the fields, and push a label that is not there.
With(ev, k, v) == [ev EXCEPT !.fields = [x \in DOMAIN @ \cup {k} |-> IF x = k THEN v ELSE @[x]]]
Labelled(ev, l) == IF l \in Range(ev.labels) THEN ev ELSE [ev EXCEPT !.labels = Append(@, l)]

\* redact: a URL is defanged, a secret masked; what is masked stays as it is.
RedactText(v) ==
    CASE v.form = "url" -> [v EXCEPT !.form = "defanged"]
      [] v.form = "secret" -> Text(<<"***">>)
      [] OTHER -> v

\* RedactEnricher: the message and the fields, not the entities.
Redact(ev) ==
    [ev EXCEPT !.message = RedactText(@), !.fields = [k \in DOMAIN @ |-> RedactText(@[k])]]

\* candidate_domain and significant_label
CandidateDomain(ev) ==
    IF ev.target.kind \in {"domain", "host"} THEN ev.target.id
    ELSE FirstStr(ev.fields, <<"domain", "dns_query", "query", "dns.question.name", "host">>)

SignificantLabel(v) == v.labels[IF Len(v.labels) < 3 THEN 1 ELSE Len(v.labels) - 2]

\* To hundredths, a half upwards.
Rounded(thousandths) == (thousandths + 5) \div 10

\* EntropyEnricher: a score on the fields, rounded, unless the label is short.
\* The label is by the score that is not.
Scored(ev) ==
    LET v == CandidateDomain(ev)
        bits == IF v.labels = <<>> THEN 0 ELSE Bits[SignificantLabel(v)]
        stamped == With(With(ev, "dga.entropy", Number(Rounded(bits))), "dga.score", Number(Rounded(bits)))
    IN  IF bits = 0 THEN ev ELSE IF bits >= 10 * SuspectThreshold THEN Labelled(stamped, "dga-suspect") ELSE stamped

IocFields == <<"src_ip", "dst_ip", "ip", "domain", "dns_query", "query", "url", "hash", "md5", "sha1", "sha256">>

\* Mutant: only the entities are looked up.
MatchEntities(ev) ==
    LET cands == SelectSeq(<<ev.host.id, ev.actor.id, ev.target.id>>, LAMBDA v : v # Blank)
        hits == SelectSeq([i \in DOMAIN cands |-> LowerCase(cands[i])], LAMBDA v : v \in Feed)
    IN  IF hits = <<>> THEN Blank ELSE hits[1]

\* match_event: the first of the entities and the indicator fields that is in
\* the feed.
MatchEvent(ev) ==
    LET carried == SelectSeq(IocFields, LAMBDA k : k \in DOMAIN ev.fields)
        cands == SelectSeq(<<ev.host.id, ev.actor.id, ev.target.id>>, LAMBDA v : v # Blank)
                 \o [i \in DOMAIN carried |-> ev.fields[carried[i]]]
        hits == SelectSeq([i \in DOMAIN cands |-> LowerCase(cands[i])], LAMBDA v : v \in Feed)
    IN  IF hits = <<>> THEN Blank ELSE hits[1]

\* ThreatIntelEnricher
Matched(ev) ==
    LET hit == MatchEvent(ev)
    IN  IF hit = Blank THEN ev
        ELSE Labelled(With(With(ev, "threat.matched", Number(1)), "threat.indicator", hit), "threat-intel-hit")

\* build_enrich_chain over the enrich steps of all pipelines: the names it can
\* build, in order.  No enricher asks for the network, so none is refused.
BuildEnrichChain(pipelines) ==
    SelectSeq(FlattenSeq(pipelines), LAMBDA n : n \in {"redact", "entropy", "threatintel", "threat_intel"})

\* EnrichChain::apply
Enrich(chain, ev) ==
    FoldLeft(LAMBDA e, n : CASE n = "redact" -> Redact(e) [] n = "entropy" -> Scored(e) [] OTHER -> Matched(e), ev, chain)

---------------------------------------------------------------------------
(* Endpoint events and the detectors                                       *)

\* Where the parts of a telemetry record's detail go (`detail`: it has one): a,
\* b and hash are its main part, its second one and its SHA-256.
DetailKeys(kind) ==
    CASE kind \in {"file_create", "file_modify", "file_delete"} ->
            [entity |-> "file", a |-> "file.path", b |-> "file.mode", hash |-> "file.hash.sha256"]
      [] kind = "network_connect" -> [entity |-> "ip", a |-> "destination.ip", b |-> "source.ip", hash |-> ""]
      [] kind = "dns_query" -> [entity |-> "domain", a |-> "dns.question.name", b |-> "dns.question.type", hash |-> ""]
      [] kind = "module_load" -> [entity |-> "file", a |-> "module.path", b |-> "", hash |-> "module.hash.sha256"]
      [] kind = "registry_set" -> [entity |-> "registry", a |-> "registry.key", b |-> "registry.value.name", hash |-> ""]
      [] kind = "persistence_add" -> [entity |-> "file", a |-> "persistence.target", b |-> "persistence.name", hash |-> ""]
      [] OTHER -> [entity |-> "none", a |-> "", b |-> "", hash |-> ""]

\* put_str: a value that is not empty; later ones replace earlier ones.
PutStr(f, puts) ==
    FoldLeft(LAMBDA g, p : IF p[1] = "" \/ p[2] = Blank THEN g
                           ELSE [x \in DOMAIN g \cup {p[1]} |-> IF x = p[1] THEN p[2] ELSE g[x]], f, puts)

\* put_process, without the fields that no detector reads.
PutProcess(name, hash, p) == <<<<name, p.name>>, <<hash, p.hash>>>>

\* class_for
ClassFor(kind) ==
    CASE kind \in {"process_start", "process_stop"} -> "process"
      [] kind \in {"file_create", "file_modify", "file_delete"} -> "filesystem"
      [] kind = "network_connect" -> "network"
      [] kind = "dns_query" -> "dns"
      [] kind = "module_load" -> "module"
      [] kind = "registry_set" -> "registry"
      [] kind = "persistence_add" -> "scheduled_job"
      [] OTHER -> "other"

\* Mutant: a hash is put under the name of a file's for every kind.
DetailPutsFile(ee, keys) == <<<<keys.a, ee.a>>, <<keys.b, ee.b>>, <<"file.hash.sha256", Blank>>>>

\* The fields of the record's own part.
DetailPuts(ee, keys) == <<<<keys.a, ee.a>>, <<keys.b, ee.b>>, <<keys.hash, ee.hash>>>>

\* map::to_event: the agent's extra fields come last and may replace the others.
ToEvent(ee) ==
    LET keys == DetailKeys(ee.kind)
        puts == PutProcess("process.name", "process.hash.sha256", ee.process)
                \o PutProcess("parent.name", "parent.hash.sha256", ee.parent)
                \o (IF ee.detail THEN DetailPuts(ee, keys) ELSE <<>>) \o ee.extra
    IN  [message |-> Blank, host |-> Entity("host", ee.agent), actor |-> Entity("process", ee.process.id),
         target |-> IF keys.entity = "none" \/ ~ee.detail THEN Nobody ELSE Entity(keys.entity, ee.a),
         class |-> ClassFor(ee.kind), severity |-> "informational",
         fields |-> PutStr([k \in {} |-> Blank], puts), labels |-> <<"edr">>]

\* hash_hit, ip_hit (as the event has it, capitals and all) and domain_hit
Carries(ev, keys) == {ev.fields[k] : k \in {k \in keys : k \in DOMAIN ev.fields}}
HashHit(ev) ==
    \E v \in Carries(ev, {"process.hash.sha256", "file.hash.sha256", "module.hash.sha256"}) : LowerCase(v) \in Iocs.hashes
IpHit(ev) == \E v \in Carries(ev, {"destination.ip", "source.ip"}) : v \in Iocs.ips
DomainHit(ev) ==
    \/ \E v \in Carries(ev, {"dns.question.name"}) : LowerCase(v) \in Iocs.domains
    \/ ev.target.kind = "domain" /\ LowerCase(ev.target.id) \in Iocs.domains

\* IocDetector::eval and DgaDetector::eval: the alert's rule, or none.
IocEval(ev) ==
    CASE HashHit(ev) -> "ioc-hash-match" [] IpHit(ev) -> "ioc-ip-match" [] DomainHit(ev) -> "ioc-domain-match" [] OTHER -> ""
DgaEval(ev) ==
    IF \E v \in Carries(ev, {"dga.score"}) : v.form = "number" /\ v.num >= DgaThreshold THEN "dga-domain" ELSE ""

\* build_detector_chain, where an ioc detector without indicators is left out,
\* and DetectorChain::eval.
Detectors(names, ev) ==
    LET fired == [i \in DOMAIN names |->
                    CASE names[i] = "dga" -> DgaEval(ev)
                      [] names[i] = "ioc" /\ Iocs.hashes \cup Iocs.ips \cup Iocs.domains # {} -> IocEval(ev)
                      [] OTHER -> ""]
    IN  SelectSeq(fired, LAMBDA rule : rule # "")

---------------------------------------------------------------------------
(* Properties                                                              *)

\* What the enrichers see of a field at place k of the chain.
SeenAt(chain, k, v) == IF \E j \in 1 .. k - 1 : chain[j] = "redact" THEN RedactText(v) ELSE v

\* However the pipelines list the enrichers, and also when two list the same:
\* an event is labelled a threat exactly when an entity is in the feed or an
\* indicator field is, as it reads when the lookup's turn comes (redact.rs:5
\* leaves to the configuration what redaction hides from later lookups); it is
\* labelled suspect exactly when a domain's entropy reaches the enricher's
\* threshold; the dga detector fires exactly when that entropy, to the nearest
\* hundredth, reaches its own, or on a score that the log itself brought; what
\* came in is masked when any pipeline redacts; and running the chain twice
\* gives the same labels and the same alerts.
RecordsMean(r, pipelines) ==
    LET chain == BuildEnrichChain(pipelines)
        n == Normalize(r)
        e == Enrich(chain, n)
        twice == Enrich(chain, e)
        turns(name) == {k \in DOMAIN chain : chain[k] \in name}
        listed(k) == \/ \E x \in {n.host, n.actor, n.target} : LowerCase(x.id) \in Feed
                     \/ \E key \in Range(IocFields) \cap DOMAIN r.fields :
                            LowerCase(SeenAt(chain, k, r.fields[key])) \in Feed
        domain(k) == SeenAt(chain, k, FirstStr(r.fields, <<"domain", "dns_query", "query", "dns.question.name", "host">>))
        score(k) == IF domain(k) = Blank THEN 0 ELSE Bits[SignificantLabel(domain(k))]
        scored == {k \in turns({"entropy"}) : score(k) # 0}
        own == "dga.score" \in DOMAIN r.fields /\ r.fields["dga.score"].form = "number"
                   /\ r.fields["dga.score"].num >= DgaThreshold
    IN  /\ "threat-intel-hit" \in Range(e.labels) <=> \E k \in turns({"threatintel", "threat_intel"}) : listed(k)
        /\ Detectors(<<"dga">>, e) = <<"dga-domain">> <=>
              IF scored = {} THEN own ELSE \E k \in scored : score(k) + 5 >= 10 * DgaThreshold
        /\ "dga-suspect" \in Range(e.labels) <=> \E k \in scored : score(k) >= 10 * SuspectThreshold
        /\ turns({"redact"}) # {} =>
              /\ e.message = RedactText(n.message)
              /\ \A k \in DOMAIN r.fields \ {"dga.score", "dga.entropy"} : e.fields[k] = RedactText(r.fields[k])
        /\ twice.labels = e.labels
        /\ Detectors(<<"dga", "ioc">>, twice) = Detectors(<<"dga", "ioc">>, e)

\* An endpoint event that carries an indicator (the hash of its process, file or
\* module, an address, or a name) fires the ioc detector, and one that mentions
\* none does not, unless the agent's extra fields replace the one it is in.
\* Left open, although ioc.rs:4 says "any known-bad indicator": the hash of the
\* parent and an address in other letters than the list's, which fire nothing.
EndpointMeans(ee) ==
    LET fires == Detectors(<<"ioc", "dga">>, ToEvent(ee)) # <<>>
        extra == {ee.extra[i][1] : i \in DOMAIN ee.extra}
        hashes == {ee.process.hash} \cup (IF ee.detail /\ DetailKeys(ee.kind).hash # "" THEN {ee.hash} ELSE {})
        addresses == IF ee.detail /\ ee.kind = "network_connect" THEN {ee.a, ee.b} ELSE {}
        listed(S, list) == \E v \in S : LowerCase(v) \in list
        named == ee.detail /\ ee.kind = "dns_query" /\ LowerCase(ee.a) \in Iocs.domains
    IN  extra \cap {"process.hash.sha256", "file.hash.sha256", "module.hash.sha256", "destination.ip", "source.ip",
                    "dns.question.name", "dga.score"} = {} =>
            /\ listed(hashes, Iocs.hashes) \/ addresses \cap Iocs.ips # {} \/ named => fires
            /\ fires => listed(hashes \cup {ee.parent.hash}, Iocs.hashes) \/ listed(addresses, Iocs.ips) \/ named
=============================================================================
