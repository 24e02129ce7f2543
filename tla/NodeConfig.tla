----------------------------- MODULE NodeConfig -----------------------------
(***************************************************************************)
(* The configuration of a node: the structural diff behind plan, apply and *)
(* drift and the snapshot they keep (sigil-config plan.rs), validation     *)
(* (validate.rs), and what a valid configuration then does: the roles a    *)
(* node runs (role.rs), the sinks an input's events reach (run.rs) and the *)
(* nodes a shard is placed on (shard.rs).                                  *)
(*                                                                         *)
(* A YAML value is a scalar, a map or a list; a path is the sequence of    *)
(* the keys and indexes on the way.  The snapshot file is written section  *)
(* by section: cut off by a crash it may still parse, with the defaults    *)
(* for the sections it lost, or it may not parse at all.                   *)
(***************************************************************************)
EXTENDS Integers, Sequences, FiniteSets, SequencesExt, TLC

CONSTANTS
    Sections,       \* the sections of a configuration, in the order written
    DefaultOf,      \* DefaultOf[s]: the value of a section that is absent
    Desired,        \* the configurations the operator may write
    DirOf,          \* DirOf[c]: the data directory a configuration names
    MaxApplies,     \* bound: applies
    MaxTears        \* bound: crashes while the snapshot is written

VARIABLES
    declared,       \* the configuration file
    snapshot,       \* snapshot[d]: applied-config.yaml in the data directory d
    applied,        \* history: what the last apply that succeeded recorded there
    tears, applies

configVars == <<declared, snapshot, applied, tears, applies>>

---------------------------------------------------------------------------
(* diff                                                                    *)

Scalar(v) == [is |-> "scalar", v |-> v]
MapOf(m) == [is |-> "map", m |-> m]
ListOf(s) == [is |-> "list", s |-> s]

\* Mutant: items the desired list has past the current one are missed.
RECURSIVE WalkShort(_, _, _)
WalkShort(path, c, d) ==
    CASE c.is = "map" /\ d.is = "map" ->
            UNION {WalkShort(Append(path, k), c.m[k], d.m[k]) : k \in (DOMAIN c.m) \cap (DOMAIN d.m)}
            \cup {[op |-> "removed", path |-> Append(path, k)] : k \in (DOMAIN c.m) \ (DOMAIN d.m)}
            \cup {[op |-> "added", path |-> Append(path, k)] : k \in (DOMAIN d.m) \ (DOMAIN c.m)}
      [] c.is = "list" /\ d.is = "list" ->
            UNION {WalkShort(Append(path, ToString(i)), c.s[i], d.s[i]) : i \in (DOMAIN c.s) \cap (DOMAIN d.s)}
            \cup {[op |-> "removed", path |-> Append(path, ToString(i))] : i \in (DOMAIN c.s) \ (DOMAIN d.s)}
      [] OTHER -> IF c = d THEN {} ELSE {[op |-> "changed", path |-> path]}

\* walk: maps key by key, lists index by index, anything else as a whole.
RECURSIVE Walk(_, _, _)
Walk(path, c, d) ==
    CASE c.is = "map" /\ d.is = "map" ->
            UNION {Walk(Append(path, k), c.m[k], d.m[k]) : k \in (DOMAIN c.m) \cap (DOMAIN d.m)}
            \cup {[op |-> "removed", path |-> Append(path, k)] : k \in (DOMAIN c.m) \ (DOMAIN d.m)}
            \cup {[op |-> "added", path |-> Append(path, k)] : k \in (DOMAIN d.m) \ (DOMAIN c.m)}
      [] c.is = "list" /\ d.is = "list" ->
            UNION {Walk(Append(path, ToString(i)), c.s[i], d.s[i]) : i \in (DOMAIN c.s) \cap (DOMAIN d.s)}
            \cup {[op |-> "removed", path |-> Append(path, ToString(i))] : i \in (DOMAIN c.s) \ (DOMAIN d.s)}
            \cup {[op |-> "added", path |-> Append(path, ToString(i))] : i \in (DOMAIN d.s) \ (DOMAIN c.s)}
      [] OTHER -> IF c = d THEN {} ELSE {[op |-> "changed", path |-> path]}

Diff(current, desired) == Walk(<<>>, current, desired)

---------------------------------------------------------------------------
(* plan, apply, drift                                                      *)

None == [is |-> "none"]         \* no snapshot file
Unreadable == [is |-> "torn"]   \* one that does not parse

\* The first n sections of a configuration, the defaults for the others.
Cut(c, n) == MapOf([s \in Range(Sections) |->
                IF s \in {Sections[i] : i \in 1 .. n} THEN c.m[s] ELSE DefaultOf[s]])

\* empty_config, with the version of the desired one.
EmptyConfig(c) == Cut(c, 1)

ConfigInit ==
    /\ declared \in Desired
    /\ snapshot = [d \in {DirOf[c] : c \in Desired} |-> None]
    /\ applied = snapshot
    /\ tears = 0 /\ applies = 0

\* load_snapshot, then Config::plan.
Plan(c) ==
    LET current == snapshot[DirOf[c]]
    IN  IF current = Unreadable THEN [ok |-> FALSE]
        ELSE [ok |-> TRUE, changes |-> Diff(IF current = None THEN EmptyConfig(c) ELSE current, c)]

\* Mutant: nothing applied counts as the empty configuration.
DriftLenient(c) == Plan(c)

\* Config::drift: an error when nothing was ever applied.
Drift(c) == IF snapshot[DirOf[c]] = None THEN [ok |-> FALSE] ELSE Plan(c)

\* The operator edits the file.
Edit ==
    /\ \E c \in Desired \ {declared} : declared' = c
    /\ UNCHANGED <<snapshot, applied, tears, applies>>

\* Config::apply: plan first, so that a snapshot that does not parse stops
\* it, then the write.
Apply ==
    /\ applies < MaxApplies
    /\ Plan(declared).ok
    /\ snapshot' = [snapshot EXCEPT ![DirOf[declared]] = declared]
    /\ applied' = [applied EXCEPT ![DirOf[declared]] = declared]
    /\ applies' = applies + 1
    /\ UNCHANGED <<declared, tears>>

\* A crash in fs::write: the file is truncated first and filled from the top.
ApplyTorn ==
    /\ tears < MaxTears
    /\ Plan(declared).ok
    /\ \E n \in 0 .. Len(Sections) :
          snapshot' = [snapshot EXCEPT ![DirOf[declared]] = IF n = 0 THEN Unreadable ELSE Cut(declared, n)]
    /\ tears' = tears + 1
    /\ UNCHANGED <<declared, applied, applies>>

ConfigNext == Edit \/ Apply \/ ApplyTorn

---------------------------------------------------------------------------
(* validate                                                                *)

KnownSinks == {"index", "sigma", "correlation"}
KnownCodecs == {"json", "syslog", "cef", "leef"}
ImplementedInputs == {"file", "syslog"}

Repeated(q) == {i \in DOMAIN q : \E j \in 1 .. i - 1 : q[j].id = q[i].id}

\* What is wrong with the inputs: "" is a blank id.
InputErrors(inputs) ==
    {<<"empty id", i>> : i \in {i \in DOMAIN inputs : inputs[i].id = ""}}
    \cup {<<"duplicate input", i>> : i \in Repeated(inputs)}
    \cup {<<"missing setting", i>> : i \in {i \in DOMAIN inputs :
             \/ inputs[i].kind = "file" /\ "path" \notin inputs[i].settings
             \/ inputs[i].kind = "syslog" /\ "listen" \notin inputs[i].settings}}

InputWarnings(inputs) ==
    {<<"kind", i>> : i \in {i \in DOMAIN inputs : inputs[i].kind \notin ImplementedInputs}}
    \cup {<<"codec", i>> : i \in {i \in DOMAIN inputs : inputs[i].codec \notin KnownCodecs}}

PipelineErrors(c) ==
    {<<"duplicate pipeline", i>> : i \in Repeated(c.pipelines)}
    \cup {<<"unknown input", i>> : i \in {i \in DOMAIN c.pipelines :
             ~(Range(c.pipelines[i].from) \subseteq {c.inputs[k].id : k \in DOMAIN c.inputs})}}
    \cup {<<"unknown sink", i>> : i \in {i \in DOMAIN c.pipelines :
             ~(Range(c.pipelines[i].route) \subseteq KnownSinks)}}

PipelineWarnings(pipelines) ==
    {<<"no from", i>> : i \in {i \in DOMAIN pipelines : pipelines[i].from = <<>>}}
    \cup {<<"no route", i>> : i \in {i \in DOMAIN pipelines : pipelines[i].route = <<>>}}
    \cup {<<"not wired", i>> : i \in {i \in DOMAIN pipelines : "correlation" \in Range(pipelines[i].route)}}

\* Mutant: rules that are nowhere go unnoticed when a rulepack is named.
SigmaWarningsPack(c) ==
    IF c.sigma.enabled /\ \E i \in DOMAIN c.pipelines : "sigma" \in Range(c.pipelines[i].route)
      THEN CASE c.sigma.dir = "missing" -> {<<"rules_dir not found", 0>>}
             [] c.sigma.dir = "unset" /\ ~c.sigma.rulepacks -> {<<"no rules", 0>>}
             [] OTHER -> {}
      ELSE {}

\* The rules: rulepacks do not resolve yet, a directory must exist.
SigmaWarnings(c) ==
    IF c.sigma.enabled /\ \E i \in DOMAIN c.pipelines : "sigma" \in Range(c.pipelines[i].route)
      THEN CASE c.sigma.dir = "missing" -> {<<"rules_dir not found", 0>>}
             [] c.sigma.dir = "unset" /\ c.sigma.rulepacks -> {<<"rulepacks", 0>>}
             [] c.sigma.dir = "unset" /\ ~c.sigma.rulepacks -> {<<"no rules", 0>>}
             [] OTHER -> {}
      ELSE {}

EdrErrors(edr) ==
    IF edr.enabled
      THEN (IF edr.listen THEN {} ELSE {<<"edr listen", 0>>}) \cup (IF edr.cert = edr.key THEN {} ELSE {<<"edr tls", 0>>})
      ELSE {}

EdrWarnings(edr) ==
    IF edr.enabled
      THEN (IF edr.cert \/ edr.key THEN {} ELSE {<<"plaintext", 0>>}) \cup (IF edr.tokens THEN {} ELSE {<<"no tokens", 0>>})
      ELSE {}

\* Config::validate (the users are in module RuleStudio): errors stop an
\* apply, warnings do not.
Validate(c) ==
    [errors   |-> (IF c.version = 1 THEN {} ELSE {<<"version", 0>>})
                  \cup InputErrors(c.inputs) \cup PipelineErrors(c) \cup EdrErrors(c.edr),
     warnings |-> InputWarnings(c.inputs) \cup PipelineWarnings(c.pipelines)
                  \cup SigmaWarnings(c) \cup EdrWarnings(c.edr)]

---------------------------------------------------------------------------
(* What the configuration does                                             *)

AllRoles == {"ingest", "index", "correlate", "query", "coordinator"}

\* RoleSet::from_targets: nothing or "all" is everything; what is unknown is
\* left out.
Roles(targets) ==
    IF targets = <<>> \/ "all" \in Range(targets) THEN AllRoles
    ELSE {IF t = "correlation" THEN "correlate" ELSE t : t \in Range(targets)} \cap AllRoles

\* sources_routed_to
SourcesRoutedTo(c, sink) ==
    UNION {Range(c.pipelines[i].from) : i \in {i \in DOMAIN c.pipelines : sink \in Range(c.pipelines[i].route)}}

\* The sinks the events of an input reach: should_index and should_sigma.
\* The engine has rules when their directory exists (build_engine).
Reaches(c, input) ==
    LET runs == "index" \in Roles(c.targets) /\ input.kind \in ImplementedInputs
        active == c.sigma.enabled /\ (c.sigma.dir = "there" \/ c.detectors)
    IN  (IF runs /\ (SourcesRoutedTo(c, "index") = {} \/ input.id \in SourcesRoutedTo(c, "index")) THEN {"index"} ELSE {})
        \cup (IF runs /\ active /\ input.id \in SourcesRoutedTo(c, "sigma") THEN {"sigma"} ELSE {})

\* ShardMap::nodes_for, on the ring of n nodes: the primary first.
NodesFor(shard, n, replication) ==
    LET copies == IF replication < n THEN replication ELSE n
    IN  IF n = 0 THEN <<>> ELSE [i \in 1 .. copies |-> (shard + i - 1) % n]

---------------------------------------------------------------------------
(* Properties                                                              *)

Absent == [is |-> "absent"]
RECURSIVE At(_, _), PathsOf(_)
At(t, path) ==
    IF path = <<>> THEN t
    ELSE IF t.is = "map" /\ Head(path) \in DOMAIN t.m THEN At(t.m[Head(path)], Tail(path))
    ELSE IF t.is = "list" /\ \E i \in DOMAIN t.s : ToString(i) = Head(path)
      THEN At(t.s[CHOOSE i \in DOMAIN t.s : ToString(i) = Head(path)], Tail(path))
    ELSE Absent

PathsOf(t) ==
    {<<>>} \cup
    CASE t.is = "map"  -> UNION {{<<k>> \o p : p \in PathsOf(t.m[k])} : k \in DOMAIN t.m}
      [] t.is = "list" -> UNION {{<<ToString(i)>> \o p : p \in PathsOf(t.s[i])} : i \in DOMAIN t.s}
      [] OTHER -> {}

\* The diff tells the whole truth and nothing twice: a path is added, removed
\* or changed as the two values say, wherever they differ a change is at that
\* place, above it or below it, and no change lies inside another.
DiffExact(c, d) ==
    LET changes == Diff(c, d)
    IN  /\ \A ch \in changes :
              /\ At(c, ch.path) # At(d, ch.path)
              /\ ch.op = "added" <=> At(c, ch.path) = Absent
              /\ ch.op = "removed" <=> At(d, ch.path) = Absent
              /\ \A other \in changes : IsPrefix(other.path, ch.path) => other = ch
        /\ \A p \in PathsOf(c) \cup PathsOf(d) :
              At(c, p) # At(d, p) => \E ch \in changes : IsPrefix(ch.path, p) \/ IsPrefix(p, ch.path)

\* drift reports "in sync" exactly when the declared file is what the last
\* apply recorded in the data directory it names, and refuses when nothing was
\* ever recorded there, whatever edits, applies and changes of the directory
\* came before, as long as no crash cut a snapshot off.
DriftTruth ==
    LET dir == DirOf[declared] drift == Drift(declared)
    IN  tears = 0 =>
            /\ drift.ok <=> applied[dir] # None
            /\ drift.ok => (drift.changes = {} <=> applied[dir] = declared)

\* No event is dropped in silence: when a configuration has no errors, an input
\* that some pipeline reads reaches every sink of that pipeline on a node with
\* the index role, or a warning about the input, the pipeline or the rules says
\* why not.  Two silences are left: Sigma switched off, and a rules directory
\* without a rule in it.
RoutedOrWarned(c) ==
    LET report == Validate(c)
        why(k, i) == {w \in report.warnings : \/ w \in {<<"kind", k>>, <<"not wired", i>>}
                                              \/ w[1] \in {"rules_dir not found", "rulepacks", "no rules"}}
    IN  report.errors = {} /\ "index" \in Roles(c.targets) =>
            \A k \in DOMAIN c.inputs, i \in DOMAIN c.pipelines :
                /\ c.inputs[k].id \in Range(c.pipelines[i].from)
                /\ ~(Range(c.pipelines[i].route) \subseteq Reaches(c, c.inputs[k]))
                => why(k, i) # {} \/ ~c.sigma.enabled \/ c.sigma.dir = "empty"

\* Every shard has as many copies as the replication asks for and the cluster
\* has nodes, on different nodes; and no node holds more than one copy more of
\* the shards than another for each copy of a shard.
Spread(shards, n, replication) ==
    LET held(v) == Cardinality({<<s, i>> \in (0 .. shards - 1) \X (1 .. n) :
                                  i \in DOMAIN NodesFor(s, n, replication) /\ NodesFor(s, n, replication)[i] = v})
    IN  /\ \A s \in 0 .. shards - 1 :
              Cardinality(Range(NodesFor(s, n, replication))) = IF replication < n THEN replication ELSE n
        /\ \A v, w \in 0 .. n - 1 : held(v) <= held(w) + replication
============================================================================
