# Formal models of sigil

TLA+ models of the parts of sigil that keep state and are hard to test: what
runs concurrently, what survives a crash, what arrives late; and of its
algorithms, against definitions of what they should compute. Each module is
translated from the Rust source; `PROJECT.json` maps every definition to the
lines it stands for and lists the runs, the mutants, the hazards, the findings
and the theorems.

Contents: [the system](#the-system), [modules](#modules), [runs](#runs),
[findings](#findings), [fairness](#fairness), [proofs](#proofs),
[not modelled](#not-modelled), [plan](#plan).

To check: `tlc -config MCRaft_safety.cfg MCRaft` and so on (the `runs` of
`PROJECT.json`), and `tlapm RaftProofs.tla` and so on for the other modules whose
name ends in `Proofs`.

## The system

sigil is a SIEM in one binary (`sigil run`) with an endpoint agent
(`sigil-agent`), a hunt command that reads the node's files from another
process (`sigil hunt`) and a web console.

```
 log files --FileTailer--> frame channel --> run loop --> hot index (Tantivy)
 agents ----gRPC stream--> EDR gateway ---->     |  \---> buffer --> Parquet segments --> archive
                               ^                 v                    (catalog.json)
                               |            Sigma + correlation + detectors --> alert ring + store --> API
                               |                                         \--> sinks (webhook, Jira, ...)
                           CommandQueue <------------------------------------------------- API
 cluster nodes: RaftDriver + Transport (catalog entries)
```

| Component | State | Operations | Meets the others through |
|---|---|---|---|
| Raft (`sigil-cluster/raft.rs`, `transport.rs`) | role, term, vote, log, commit index, leader's indexes; nothing on disk | tick, step (four messages), propose | topics of a Transport that drops when full; a mutex released before publishing |
| EDR command path (`sigil-edr`, `sigil-agent`) | live sessions, agent records, command records, per-session channel; agent's flag and executors | enqueue, session loop, record result, disconnect; connect, heartbeat, execute, report | two gRPC streams, a channel of 64, a shared store |
| File ingest and run loop (`sigil-ingest/input.rs`, `sigil-cli/run.rs`) | offset and checkpoint file, frame channel, uncommitted events, segment buffer | poll, send, index, commit, roll, Ctrl-C | the tailed file, the channel of 8192, the index and the segments |
| Columnar store (`sigil-index/store.rs`, `catalog.rs`) | Parquet files, archive objects, `catalog.json` and its copy in memory | write_segment, enforce_retention, migrate_warm, read_range | files shared with `sigil hunt` |
| Sigma correlation (`sigil-sigma/correlation.rs`, `hunt.rs`) | a sliding window per rule and group | process, retro_hunt | the run loop's order of events |
| Alert store (`sigil-store`, `sigil-api`) | ring of recent alerts, ALERTS table | push (upsert), patch, bulk patch, hydrate | handlers on several threads, the run loop |
| Rule and configuration editing (`sigil-api`, `sigil-config`, `engine.rs`) | rules directory, configuration file and its backup, the shared engine | rule_create, rule_update, rule_delete, config_put, reload_engine, start | files without a lock; an RwLock held for the swap alone |
| Telemetry (`sigil-agent/collector`, `transport.rs`, `sigil-edr/server.rs`) | snapshots of the collectors, the batch of a session, four bounded channels in a row | poll, batch, flush, heartbeat, hand on, ack | the stream both ways, the run loop's inbox |
| Detection and outputs (`sigil-cli/run.rs`, `output.rs`) | the event in hand, its alerts, Jira's set of rules | detect, push, emit, index, commit | a sink is awaited inside the loop |
| Response (`sigil-agent/response`) | firewall, quarantine, processes | isolate, unisolate, quarantine, kill | a thread per command, tools that fail |
| Access (`sigil-api/auth.rs`, `sigil-edr/tokens.rs`) | running key and users, tokens in the store | login, verify, mint, delete, seed, enroll, start | configuration edits that count from the next start |
| Sigma (`sigil-sigma`) | none | compile, evaluate | the engine of the run loop |
| Campaigns (`sigil-correlate`, `sigil-graph`) | union-find over a batch | link, unite, filter, causal path, incident | links come out of a hash map |
| Configuration and cluster layout (`sigil-config`, `shard.rs`, `role.rs`) | the snapshot of the last apply | validate, plan, apply, drift, route, place | a file in the data directory |
| Codecs and templates (`sigil-ingest`) | the template miner's templates | decode, mine | frames of the inputs |
| Normalization, enrichment, detectors, mapping | none | normalize, enrich, eval, to_event | one chain for all pipelines |
| Query language (`sigil-api/dsl.rs`) | none | lower | SQL of DataFusion |

The rest is listed under [not modelled](#not-modelled).

What is hard, and what makes each component correct:

- **Raft.** Messages overtake each other because the driver publishes after it
  unlocks; replies of an earlier leadership are accepted; `become_follower`
  clears the vote, in the same term too. Correct: one leader per term, logs that
  agree, a commit that is never undone and never past the log.
- **EDR.** Streams break on one side first, so two sessions of one agent
  coexist; a result can come before the bookkeeping of its command; both sides
  restart. Correct: a command runs at most once, the audit trail tells what
  happened, a connected agent is reachable, the console shows the agent's state.
- **Ingest.** Partial lines, rotation, a checkpoint written before the lines
  are indexed, a full channel, a crash anywhere. Correct: whole lines, each
  once and in order, in both tiers.
- **Columnar store.** Every job is several steps on files, each of which can
  fail or be the last before a crash. Correct: what the catalog lists can be
  read, what was acknowledged is listed until it expires, what expired is gone.
- **Correlation.** Windows are maintained incrementally, events may be late.
  Correct: a rule fires exactly when its definition over the matches says so.
- **Alert store.** Reads and writes of a record are separate transactions.
  Correct: triage is never lost, the ring and the table agree.
- **Editing.** Handlers share files and no lock; a file is truncated and then
  filled; the engine is loaded outside the lock and swapped inside. Correct: the
  engine is what the directory says, no rule goes undetected because another is
  edited, a save loses no secret and leaves something to start from.
- **Telemetry and detection.** Every hop waits for room in the next, the
  session task also for room on the way back, and the loop for its sinks.
  Correct: an event is in one place, arrives unless a stream or the node ended
  or a wait lasts for ever, and is detected on before it can be found.
- **Response.** A command is several calls of a tool, each of which can fail;
  two commands can run at once. Correct: the link to the server and the
  quarantined file survive, and the result says what happened.
- **Access.** Tokens outlive the configuration they were made under. Correct:
  a role that was taken away runs out.
- **Algorithms.** A parser, a matcher, a union-find, a beam search, a diff, a
  lowering, codecs with escapes: a wrong corner case is silent. Correct: each
  computes what a definition written from its purpose says.

## Modules

| Module | Models | Composes |
|---|---|---|
| `Raft` | RaftNode, RaftDriver and the Transport | - |
| `MCRaft` | instances, from states in and behind elections | `Raft` |
| `EdrGateway`, `MCEdrGateway` | gateway, registry, queue and agent, composed by channels and streams | - |
| `Pipeline`, `MCPipeline` | FileTailer, its task, the channel and the run loop | - |
| `ColumnarStore`, `MCColumnarStore` | store, catalog, the loop's jobs, `sigil hunt` | - |
| `SegmentStore` | what the columnar store promises, without tiers and crashes | implemented by `ColumnarStore` |
| `Detection` | the run loop behind the channels: detect, sinks, index, commit | - |
| `Telemetry`, `MCNode` | collectors, agent session, gateway session | `Detection` |
| `AlertTriage` | AlertStore, Store and the patch handlers | - |
| `RuleStudio` | the editing handlers, the files and the start of the node | - |
| `Access` | logins, bearer tokens, enrollment tokens | - |
| `MCConsole` | what users of the console do | the three above |
| `Correlation` | one correlation rule over a stream of events | - |
| `Sigma` | conditions, matching, compilation of rules and correlations | - |
| `Campaign` | links, union-find, causal chains, incidents | - |
| `NodeConfig` | diff, plan, apply, drift, validation, routing, roles, shards | - |
| `Dsl` | the pipe language and the SQL it becomes | - |
| `Codecs` | JSON, syslog, CEF, LEEF, template mining | - |
| `Enrichment` | normalizer, enrichers, detectors, EDR mapping | - |
| `Response` | the agent's executors | - |
| `MCAlgorithms` | bounded inputs for the algorithms | the eight above |
| `RaftProofs`, `EdrGatewayProofs`, `ColumnarStoreProofs`, `PipelineProofs`, `ResponseProofs` | the theorems, with their inductive invariants and lemmas | the module they are named for |
| `RaftCommitProofs` | the theorems on commits | `RaftProofs` |
| `ConsoleProofs` | the theorems on triage, editing and access | the modules of `MCConsole` |
| `NodeProofs` | the theorems on the way from a host to the index and the sinks | `Telemetry` with `Detection` |

Variables that no guard reads are marked as history in each module. Every
operator whose comment says *Mutant* is a plausible bug used to show that a
property can fail; nothing else refers to it.

**Raft.** An action is one critical section of the driver's mutex. `Tick` is
`StartElection` or `Heartbeat`; `quiet_ticks` only decides when, so the timer
may fire at any time. `ballots` is a set because votes go through their own
topics; `link[i][j]` is a FIFO that `Offer` leaves alone when full. `unsent`
holds what a thread computed and has yet to publish; `Overlap` says whether
another thread may come between, and `Caller = {"pump"}` that one thread does
both. A node has no disk, so there is no restart. `ledger[t]` is history: the log
of the leader of term `t` as far as it ever wrote it; `held[i][t]` is how much of
it node `i` has taken in that term.

**EdrGateway.** `Enqueue`, `Lookup`, `Send`, `Mark` are the four steps of
`CommandQueue::enqueue` that others can see; `Hello`, `Inbound`, `Forward`,
`Leave`, `Disconnect` are the session task; `Connect`, `Heartbeat`,
`Downstream`, `Act`, `Report` are the agent. One agent stands for the fleet,
which shares nothing. `Act(c, ok, took)` tells what an executor answers from what
it did: on macOS an isolation is reported as done whatever became of `pfctl -e`
(`isolate.rs:93-97`; `Response` has the calls). `apart` is history: why flag and
firewall may differ at the moment.

**Pipeline.** A log is a sequence of bytes `<<line, position>>`, so that a
frame cut out of the middle of a line is visible. `Poll` is the whole of
`poll_lines`, the checkpoint included; `Tear` is a crash inside that write.
`Commit` and `Roll` are the timers, and `Exit` is the code after the loop. The
lines of a poll are cut at its line ends, taken in ascending order
(`Ascending`); the byte loop of `poll_lines` finds the same ends one by one.
`overtaken` is history: the lines of a new log that lay behind the old offset when
the tailer next looked.

**ColumnarStore.** Every save of the catalog is two steps with a torn file
between them, as `fs::write` truncates first. `Retention`..`SaveRemove` is
`enforce_retention`, `Store`..`Migrated` is `migrate_warm`, in the order the
loop runs them. `hunt` keeps the catalog it read at the start.

**Correlation.** A rule is chosen at the start. `Processed` pushes an event's
matches, evicts from the front, evaluates, clears. `Hunted` replays the same
events by time. The reference definition `Due` shares nothing with `Evaluate`
for the temporal kinds: it asks for a choice of places in the sequence.

**SegmentStore.** Segments whose data is there from the write until it
expires, and a reader who gets everything that had been returned when it asked
and has not expired since, or an error. `ColumnarStore` implements it with
`data` as what is in a file or in the archive; a migration, a save and a crash
are stuttering steps.

**Detection, Telemetry.** `Detection` has one step per await of the loop, so
that a node can end between an alert and its event; a sink answers, fails, or
never does (`Emit` is not fair). `Telemetry` adds the way of an agent's events
to the inbox: an event is its number in the order of collection, and `lost`
and `dropped` say which ended with a stream and with the node. Events of the
other inputs have negative numbers, so that the two never mix. `AtPositions`
is the filter of `detect`: the elements at a set of positions, in their order.
A heartbeat may be sent at any time. `Circle` is the state in which agent and
gateway wait for each other's stream. Commands share the stream to the agent with
the acks (`server.rs:187`) and are not in this module.

**Response.** One step per call of nft, pfctl, netsh or the file system, on
one of three platforms; a firewall is what it blocks by default and what it
lets pass.

**Access.** `AccessRestart` builds AuthState from the file and seeds tokens. A
bearer token keeps the roles of its login and expires `Ttl + Leeway` later; a
node without a secret draws a key for its life. Enrollment tokens are saved
objects: `TokenCreate` mints one, and `SavedCreate`, `SavedUpdate` and `SavedDelete`
are the generic routes, which reach objects of that kind as well.

**Sigma.** Strings are sequences of characters, conditions sequences of words.
`ConditionMeans` compares the parser with the set of meanings the grammar
gives a sequence of words, `RulesMean` the compiled predicates with what the
entries of a rule ask for. Both leave open what the repository does not settle
(see [findings](#findings)).

**Campaign.** `Union` is a step per link, in any order, as the hash map yields
them; the rest are operators over the batch. Similarities are inputs.

**NodeConfig.** `apply` writes a snapshot that a crash can cut off at a section;
the rest are operators. YAML trees are maps, lists and scalars.

**Codecs, Dsl, Enrichment.** Operators only, with data abstracted to what
decides: texts of characters for the codecs, where a month, a mark such as `CEF:`
and the name of a field count as one; words for templates; rows and stages for
the language, with a reference for `where` of its own; labels, case and form of a
value for enrichment, and entropy in thousandths, so that the rounding of the
score and the two thresholds (of the enricher and of the detector) are apart.

**AlertTriage.** `UpsertGet`/`UpsertWrite` and `PatchGet`/`PatchWrite` are the
transactions. A patch of one alert is a bulk patch of a list of one. `TriageRestart`
is the end of the process at any point with `hydrate` on the way back, which
leaves the ring empty when it cannot read the store (`sigil-api/lib.rs:86`).
`NewestFirst` is the sort of `list_alerts`: some sequence of the records in
descending order of time.

**RuleStudio.** A request is a program counter over the file operations of its
handler: `Truncate`, `Fill` or `RemoveFile`, then `List`, `ReadFile`, `Swap`, which
is `reload_engine`; a save goes `BackUp`, `Copy`, `Empty`, `Write` first. A rule
is an id and a version, a configuration its signing secret and the credential
of one user. A file that is being written, or was when the process ended, holds
a part of its text, and a part may parse: all sections of a configuration but the
version have defaults (`sigil-config/lib.rs:31-68`), so `ConfigParts` has those
without a secret or without users, and `RuleParts` a rule that lacks something. A
file written by two requests at once may end up as a part, and a write into a file
that was removed meanwhile is lost. `uncovered` is history: has a save begun
without a whole backup?

## Runs

Times are for two workers.

| Run | Instance | Shows | Size |
|---|---|---|---|
| `raft_safety` | 3 nodes: two candidates in term 1; and behind a first election, one more of them, log of 1; one thread per node that publishes one by one into queues of 1 (which drop) | types, Election Safety, Leader Completeness | 1.1M states, 70 s |
| `raft_log` | behind three elections, two leaders, diverging logs; log of 2, 1 loss, fair | Log Matching; commits agree, are stable and within the log; every log converges to the leader's | 69k, 110 s |
| `edr_commands` | isolate and unisolate, 2 sessions (half-open), 1 restart, channel of 1, fair | at most once; outcomes that happened and stay, honest `pending`, live entries that are served (`AuditTrail`); flag and firewall agree but after three named events; the console catches up | 1.0M, 200 s |
| `pipe_ingest` | 4 lines of sizes 3, 1, 2, 2 (one blank), channel of 1, roll at 2; 1 stop, 1 crash, 1 torn and 1 failed checkpoint, 1 rotation, fair | whole lines, in order and not twice; no line lost while up; tiers agree; every line becomes searchable that a new log did not put behind the offset | 253k, 170 s |
| `store_lifecycle` | 2 segments, 3 instants, 1 crash, 1 error, fair | the catalog is readable and complete, retention deletes (`RetentionHolds`); the abstract store is implemented, hunts included; hunts fail only on moved segments; aged segments are archived | 1.1M, 75 s |
| `console` | triage: 3 alerts, ring of 2, 2 requests (single, bulk, repeated), 1 restart, 1 failure; editing: 2 rules, 4 files, 3 requests of which 2 at once, 1 crash, 1 failed write; access: 2 users, 3 starts, 5 instants, 2 bearer tokens, a named and a minted enrollment token | notes kept, the ring is the newest and full; a rule nobody touches is always detected, one edit at a time leaves the engine current and the secrets in place; roles run out | 3.3M, 165 s |
| `algorithms` | the correlation rules that 10 documents compile to, over 4 events in any order; all conditions of up to 4 words and each one-word change of longer ones; every pattern of two characters; batches of events with links in any order; pairs of trees, 2 applies, 1 torn snapshot; pipelines of up to 3 stages; CEF and LEEF lines with separators and escapes in their values and eight spellings of the delimiter, syslog lines of up to 4 words behind each kind of head, frames that are cut short; 2 response commands at once with 1 failure | each computes its reference definition | 1.0M, 160 s |
| `node` | 2 host changes and 2 heartbeats, or 1 and 3; channels of 1, batch of 2, 1 broken stream or 1 end of the node, 2 sinks, 3 frames, fair | nothing is lost or doubled on the way, processes tracked, sinks told in order, detected before indexed, telemetry arrives unless a sink or the circle holds it up for ever | 325k, 205 s |

`raft_stale_append`, `raft_stale_reply`, `edr_replaced` and `pipe_stop` end in a
counterexample: see [findings](#findings).

Why the bounds are enough for what is asked:

- Three servers are the smallest cluster in which a majority is not everyone;
  two terms have a leader, a rival and a deposed leader. The runs start in
  `MCRaft` from states in or behind elections already held, which are reachable by
  the steps its comments tell, because the elections themselves would use up
  the budget. Election Safety and Log Matching do not rest on these bounds: they
  are proved. The commit properties are proved too, but under two conditions. They
  fail where a node leads twice and a reply to its first leadership is still on
  the way in the second, which takes five terms (`raft_stale_reply`) and is out of
  reach of `raft_safety` and `raft_log`.
- One agent, two sessions and a channel of one let a session be replaced, be
  full, and break with a command inside it.
- Lines of sizes 1, 2 and 3 give blank lines, partial lines and a cut inside a
  line; a channel of one makes the tailer wait. The first line is longer than the
  last, so that after a rotation the new log can end before, at and behind the old
  offset.
- A crash can fall between any two steps. In `Pipeline` a torn checkpoint and a
  clean stop come on top of it, so that a process can end three times.
- Two requests at once and a third after or between them let a reload meet every
  step of an edit, an edit meet a deletion of the same file, and a save read what
  another has half written. One rule lies in the file of its name, one in another.
- The clock of `ColumnarStore` goes past both ages; spans include a segment
  that straddles the edge.
- Timespans of 1 and 2 over three instants give matches inside, at the edge of
  and outside the window; four events fill the longest sequence and one more.
- In `node` a channel of one is full at once, so that every hop waits. With three
  heartbeats the stream of acks is full while the next ack waits and the agent
  waits to send: the run reaches `Circle`, and without the premise that names it
  `TelemetryArrives` fails.
- Two response threads and one failed call meet at every call. Two failures add
  no new kind of end: each call's result is looked at or ignored by itself.
- The inputs of the algorithms are chosen so that every branch of the code is
  taken on both sides: patterns with and without wildcards and line feeds, trees
  that differ at a leaf, at a node and in length, links that close a cycle.
- Capacities of the code (1024, 64, 256, 4096, 8192, 2000, 10 000) are constants here, with
  values small enough to be reached.

`raft_safety` leaves history, the leader hint and dead ballots out of its view; `MCRaft` says why
nothing can tell such states apart. Deadlock checking is off wherever every bounded resource can
be used up; the systems themselves have no end state.

## Findings

| Run | The code | Says otherwise |
|---|---|---|
| `raft_stale_append` | a heartbeat published after a later proposal truncates the entry already acknowledged: the truncation does not ask for a conflict; the commit index can then lie past the log, where `committed()` panics | `raft.rs:382` |
| `raft_stale_reply` | a success reply to an earlier leadership of the same node is counted for the current one: a leader commits what nobody else holds, or looks past the end of its log | `raft.rs:267` |
| `edr_replaced` | the end of an old session removes its successor from the registry: connected, and out of reach of commands | `registry.rs:137` |
| `pipe_stop` | Ctrl-C drops lines whose checkpoint is written | `input.rs:5` |

Each is quoted in full in `PROJECT.json`. Other limits met while modelling are
written into the passing properties as their conditions:

- `raft_log` and `raft_safety` are about publishes of one thread at a time;
  Election Safety and Log Matching do not need it.
- `LeaderCompleteness`, `CommitsHold` and `CommittedStable` hold as long as no
  stale reply meets a later leadership of the same node: `step` looks only for
  newer terms in an `AppendReply` (`raft.rs:405`). The theorems have both
  conditions as hypotheses (`PublishesInOrder`, `FreshReplies`).
- `AuditTrail`: `PendingUndelivered` says what a pending record means; `connect` sends nothing
  of what is pending, although `queue.rs:3` says it waits for the agent.
- `OutcomeKept` begins when `enqueue` returns: before that its own `sent` mark
  can overwrite a result that came first (`queue.rs:95`).
- `FlagTellsFirewall` has three exceptions: an agent that restarts on an isolated
  host reports that it is not (`transport.rs:71`); two isolation commands at once can
  cross between firewall and flag (`response/mod.rs:38`); an isolation on macOS
  reports a success that `pfctl` did not have (`isolate.rs:93-97`). Each lasts until
  an isolation command runs alone and takes effect.
- `WholeLines` is about a log that is not rotated: a file that regrew past the
  old offset is read from the middle of a line (`input.rs:62`). `Searchable` leaves
  out the lines before that place, which are never read (`overtaken`).
- `PurgedGone` is about a node that never crashed: a crash in the middle of a
  migration leaves a second copy (an object of a warm entry, or a file of a cold
  one) that retention, which looks at the entry's tier, never deletes
  (`store.rs:123-129`).
- `HuntFailsOnlyMoved`: a hunt in another process does fail on a segment that
  the node archives under it (`store.rs:90`).
- `FiresWhenDue` ends with the first late event: a late match joins a window it
  is too old for, and a retro-hunt, which sorts, disagrees with the live stream.
- `NotesKept` names the overlap that loses a note. The same overlap puts an old
  assignee or status back (`sigil-store/lib.rs:223`).
- `EngineCurrent` and `SecretsKept` are about requests that do not
  overlap and writes that do not fail. Two edits at once can leave the older
  engine in place until the next edit; a save that reads the file while another
  rewrites it saves a blank signing secret or a placeholder; two saves at once, or
  a copy that failed unnoticed, can leave neither file whole. A node that crashed
  inside a save may start from a part of the configuration, without secret and
  users, and the next save then copies that part over the backup (`uncovered`).
- `EngineCurrent` says what the engine holds, not that it is evaluated.
- `UntouchedDetected` is about the rules there at the start: `sigma_active` is
  computed once (`run.rs:115`), so a node that started without rules never
  evaluates the ones created later, although `run.rs:94` says that edits take
  effect live.
- `LinkKept` holds on Windows only when no call failed: outbound is blocked
  before the allow rules are added and their results are ignored
  (`isolate.rs:115-139`), although `isolate.rs:3` says that a contained host can
  never sever the link.
- `ResultTells` is about calls that succeed: a kill by hash that killed nothing
  and a pf that was not switched on are reported as done.
- `TelemetryArrives` is about sinks that answer in the end: the loop awaits them
  without a timeout, although `output.rs:3` says that a failing sink never blocks
  detection. It is also about streams that do not wait for each other: when the
  agent waits to send into a full stream it reads no acks, and the session task
  that waits to ack reads nothing from that stream (`server.rs:167`).
- `DetectedFirst`, each alert once: about rules and detectors that share no id
  (`DetectionAssumption`). Nothing in `SigmaEngine` or `DetectorChain` looks for
  the same id twice; a rule loaded in two versions, which an update can leave
  behind (below), alerts twice on an event.
- `SinksTold`: Jira notes a rule before it asks for the ticket, so a failed
  request is the rule's only one.
- `CefReads` is about extension values without a backslash: header and extension
  both resolve escapes, so an escaped backslash before an `n` reads back as a
  line feed (`cef.rs:97`). `SyslogReads` leaves out a day padded with a blank,
  which moves the host by a word, and a message whose first word begins with a
  dash where the structured data should be: `strip_structured_data` drops the
  dash, although `codec.rs:95` says that what is not structured lands in the
  message. `LeefReads` leaves out a delimiter that is neither one character nor the
  code of one: `leef.rs:104` says that it counts as a tab, `parse_delim` takes its
  first character.
- `LowersTrue` is about stages in the order of SQL: in any other the lowering
  means something else (`dsl.rs:63`). A search term with `%` or `_` is a pattern.
- `RecordsMean` looks at a value as redaction has left it when the lookup's turn
  comes; the steps of all pipelines make one chain. `EndpointMeans` says when the
  indicator detector must fire and when it must not. It leaves open what it does
  not look at, the parent's hash and an address in capitals, since `ioc.rs:3`
  speaks of any known-bad indicator.
- `DriftTruth` ends with a torn snapshot: cut off at a section it parses with
  the defaults for the rest, and drift reports changes that nobody made.
- `ConditionMeans` leaves open what a name means that no selection has. The code
  takes it for false, so that `not` of it is true of every event
  (`condition.rs:196`).
- `RulesMean` leaves open whether `null` matches an empty field: `matcher.rs:16`
  says absent or empty, the code matches absent ones only.
- Updating a rule that came in a file of another name writes a second file
  beside it, and both versions are loaded; `find_rule_path` does not look into
  subdirectories, which `load_dir` does. The model has both.

## Fairness

Weak fairness of an action is assumed only where the code runs it in a loop
that nothing but the end of the process leaves.

- `Raft`: the pump's timer, the publishing of what was computed, the handling
  of what a link carries. Elections, proposals and losses are not fair, and
  losses are finite in number.
- `EdrGateway`: the tasks of the runtime, and the agent's loop, which
  reconnects and heartbeats for ever. Nobody has to issue a command, break a
  stream or restart.
- `Pipeline`: the input task, the arms of the run loop (each `interval` ticks
  and `select!` picks fairly), the exit path and the restart by a supervisor
  (the unit files of `deploy/` restart the service). Not the writer of the log.
- `ColumnarStore`: the retention arm, the roll in progress, the restart. Not
  the clock, the crashes or the errors.

- `Telemetry`: the collectors' thread, each arm of the agent's and of the
  session's select, the arms of the run loop. Not the sinks, which need not
  answer: `TelemetryArrives` has that as a premise, as it has that the circle does
  not last. Not the host, the heartbeats or the breaks.

The modules of `console` and `algorithms` state safety only and assume no
fairness.

## Proofs

Every theorem is about the specification that the runs check, for all values of
its constants: any number of servers, segments, commands, sessions, files,
requests, threads, users, alerts and lines, and any number of crashes, failures
and restarts. What is assumed of the constants is the `ASSUME` of each module
(finite and non-empty sets, sizes that are numbers, values that are told apart),
which TLC evaluates in every run.

| Theorem | States | Inductive invariant |
|---|---|---|
| `TypeCorrect` | `Raft`: `[]TypeOK` | itself |
| `ElectionSafe` | `Raft`: `[]ElectionSafety` | `ElectionInv` (`ElectionInvariant`) |
| `LogsMatch` | `Raft`: `[]LogMatching` | `LogInv` (`LogInvariant`) |
| `Retained`, `HuntsFail` | `ColumnarStore`: `[]RetentionHolds`, `[]HuntFailsOnlyMoved` | `StoreInv` (`StoreInvariant`) |
| `StoreImplemented` | `ColumnarStore` implements `SegmentStore` (`ImplementsStore`) | `StoreInv` |
| `ExecutedOnce`, `FlagTruthful` | `EdrGateway`: `[]AtMostOnce`, `[]FlagTellsFirewall` | `EdrInv` (`EdrInvariant`) |
| `AuditTrailKept` | `EdrGateway`: `AuditTrail`, of which one part is an action property | `EdrInv` |
| `UntouchedAlways`, `EngineAfterEdits`, `SecretsAlways` | `RuleStudio`: `[]UntouchedDetected`, `[]EngineCurrent`, `[]SecretsKept` | `StudioInv` (`StudioInvariant`) |
| `ResponsesKept` | `Response`: `[]ResponsesHold` | `HostInv` (`HostInvariant`) |
| `RolesRevoked` | `Access`: `[]RolesRunOut` | `RolesInv` |
| `NotesAlways` | `AlertTriage`: `[]NotesKept` | `TriageInv` (`TriageInvariant`) |
| `TiersAlways` | `Pipeline`: `[]TiersAgree` | `TierInv` (`TierInvariant`) |
| `LinesAlways`, `AllAccounted` | `Pipeline`: `[]LinesHold`, `[]Accounted` | `LineInv` (`LineInvariant`) |
| `RingAlways` | `AlertTriage`: `[]RingNewest` | `RingInv` (`RingInvariant`) |
| `LeadersComplete`, `CommitsAgree`, `CommitsStay` | `Raft`, where `PublishesInOrder` and `FreshReplies`: `[]LeaderCompleteness`, `[]CommitsHold`, `CommittedStable` | `LedgerInv`, `OrderInv`, `VoteInv`, `CommitInv` (a theorem each) |
| `SinksAlways` | `Telemetry` with `Detection`: `[]SinksTold` | `SinkInv` (`SinkInvariant`), over `NodeTypes` (`NodeTypesInvariant`) |
| `ProcessesAlways` | the same: `[]ProcessesTracked` | `TrackInv` (`TrackInvariant`) |
| `TelemetryAlways` | the same: `[]TelemetryAccounted` | `AccountInv` (`AccountInvariant`) |
| `DetectedAlways` | the same: `[]DetectedFirst` | `DetectInv` (`DetectInvariant`) |

**Election Safety** is not inductive: nothing in it says that a vote is given once.
What makes it subtle here is that a candidate which hears the winner of its own
term forgets its vote in that term. The invariant therefore speaks of `grants`,
the votes given to others, rather than of `votedFor`: such a vote binds its
voter for the rest of the term (`GrantsBind`), and a voter that may still change
its mind in a term has given nothing to anyone but itself (`SelfVote`). Since
only the winner's appends can make a candidate forget (`AppendsWon`,
`LeadersWon`), its own candidacy is over by then (`WinnersLead`). The counter of
a candidate is a number of messages; that it is also a number of distinct voters
needs `AnsweredOnce`, `RepliesUncounted` and `VotesAreVoters`. Two winners of a
term have majorities that share a node, by a lemma on cardinalities, and that
node has voted twice.

**Log Matching** is about logs, but logs are made from appends. `LogInv` calls
both *pieces* (the index and term of the entry before, and the entries) and says
that any two pieces anywhere agree below a place where their terms are the same
(`Agree`), that every term in a piece was won (`Sound`), and that a leader has
every entry of its term that exists (`Leads`). The lemmas follow what the code
does to pieces: what `broadcast_appends` sends is a part of a log
(`AppendsWithin`), a proposal comes behind all of its term (`SoundProposed`), and
truncating at `prev_index` and extending joins two pieces at a place where they
agree (`SoundSpliced`). A new leader finds no entry of its term, because every
term in a piece was won and by Election Safety nobody else wins it. None of this
looks at the order of the messages, so it holds with overlapping publishes too,
where a late heartbeat does shorten a log.

**Commits of Raft** are not safe as the code stands: a late append can shorten
what was acknowledged, and a late reply can be counted for a second leadership
(`raft_stale_append`, `raft_stale_reply`). The theorems say that there is nothing
else. `PublishesInOrder` is about the constants: one thread of a node computes and
publishes. `FreshReplies` is about behaviours: no leader takes a successful reply
to an append of an earlier term. Four layers, each resting on those before it:

1. `LedgerInv`, without a condition: every log and every append is a part of a
   leader's log. An entry, with all before it, is in the ledger of its term
   (`Traced`), and an append on its way was cut from the ledger of its term
   (`CutFrom`).
2. `OrderInv`, with publishes in order: the ends of the appends of a term on a link
   never go back, nor behind what the receiver holds. So within a term no node
   gives up what it took, although `step` truncates without a conflict.
3. `VoteInv`: what a voter has held of a leader's own entries, its candidate has, as
   long as every leader in between has (`Kept`). A vote compares only the last term
   and the length, so the lemma under it follows the entry at the voter's end into
   the ledger of its term, which both logs are traced to.
4. `CommitInv`, with fresh replies: `match_index` and replies claim no more than was
   held, so what is committed was held by a majority in the term that wrote it
   (`Chosen`, `Backed`).

That a chosen entry is in the log of every later leader is then an induction on
terms. It is made without an induction rule: of the terms whose leader lacks
the entry take the least one, whose majority shares a voter with that of the
entry, and layer 3 applies because all leaders in between have it.

**ColumnarStore.** `StoreInv` says, for every place a job can be interrupted, how
memory, the saved catalog, local files and the archive differ: uploaded before
listed as cold, saved before the local file is dropped (`MigratingInv`), new until
listed (`WritingInv`), and data in one tier only until something fails
(`OneTier`, which `PurgedGone` needs). `HuntInv` follows a reader in another
process with its old catalog. The refinement maps `data` to what is in either
tier; a write, a removal and the steps of a hunt are steps of `SegmentStore`, and
migrations, saves, failures and crashes are shown to stutter, one lemma per action.

**EdrGateway.** At-most-once is a statement about counters; what keeps it is that
a command is in one place only (`OnePlace`): not yet sent, in a channel, in a
stream, or handed over; likewise its result (`OneResult`). `Unique` says that
no queue of any session holds it twice, with lemmas on what appending and taking
do to that. `OutcomeKept` then follows for every step from the absence of a
second result. For the flag, the invariant follows a lone isolation command
through its two steps, firewall and then flag, and says that nothing else
writes either while `apart` is empty.

**RuleStudio.** A reload reads the directory file by file while others edit it, so
`UntouchedInv` says of every reload in progress that what nobody touched it has
read or has yet to read. `EngineInv` and `ConfigInv` give the files, the engine
and the backup at each step of a request that is alone: while the configuration
is a part of one, whether it parses or not, the backup is whole.

**Response.** One invariant per platform, over sets of threads at each step
(`Some`): on macOS a thread can load an anchor that another has emptied, and on
Windows a destination can be missing only while somebody has yet to add it.

**Access.** A bearer token is as old as its expiry says, and its roles were held
at that time or later (`JwtsGranted`); with `GrantsNoted` no lookup is needed.

**AlertTriage.** A request holds a copy of a record. `CopiesHold` says that the copy
has the notes of all writes it has seen, but for those that were already
overwritten; what its own write drops is then what it had not seen.

**Pipeline.** Both tiers with their memory grow by the same event in one step, and a
stop empties both memories in turn (`StoppedEmpty`). What an event is does not
matter and is not assumed.

For the lines, `LineInv` says that the file is a log (`FileIsLog`: each byte is
followed by the next of its line or the first of the next), that offset and
checkpoint lie at the start of a line (`Whole`), that the frames in hot index,
memory, channel and batch, one after the other, are in sequence, and what will be
read comes after them (`Sequenced`), and that until the node first ends they are
the lines behind the offset (`AllRead`). A poll adds what
it cuts at the end of that sequence, a send, a receipt and a commit move the
boundary between two of its parts, and a crash cuts off its tail. That the frames
of one poll are in ascending order comes from `Ascending`, whose `CHOOSE` is shown
to have a witness for every finite set of numbers.

**The ring.** `RingInv` splits it at what was pushed since the start: the back is
the back of `since` (`RingRecent`), the front is sorted and newer than whatever
`hydrate` left out (`RingKept`), and its length is that of all that is known, up
to the capacity (`RingSized`). Dropping the oldest on a push keeps both; the sort
of `hydrate` is taken as some sequence in order, and that one exists is proved.

**The node.** These theorems are about agent, stream, gateway and run loop at once.

- *Sinks*: in the middle of an alert some sinks have been told of it and some not.
  `SinkInv` says of each that it was told of the stored alerts as far as the loop
  has come, and `TakenMore` what the alerts at a set of positions become when one
  is added, for Jira and the file sink.
- *Processes*: of a process the last event about it decides (`Running`). A poll
  tells of each at most once, so that its events may come in any order.
- *Telemetry*: `AccountInv` gives each event left one spot (a place on the way and a
  position in it) and says that no event overtakes another in the first session.
  Each step moves a head, a tail or a whole part, and has a lemma that says
  what its spots become.
- *Detection*: what is yet to come has no alert and is not indexed; with that no
  step stores an alert that is there. What is stored and what is in hand, one
  after the other, do not change while alerts are pushed and emitted, and each rule
  is in it once because no list has a rule twice.

`DetectionAssumption` asks that rules, sinks and events of the inputs are listed
once, that detectors and rules have different ids and that a correlation's alert
has one of its own; `TelemetryAssumption` that a host has finitely many processes
and entries.

Only model-checked:

- Liveness under fairness: `ReplicationConverges`, `ViewCatchesUp`, `Searchable`,
  `Archived`, `TelemetryArrives`.
- The properties of `algorithms` other than `ResponsesHold`: what recursive
  definitions and folds compute for every input. The prover cannot apply an
  induction rule to data; where a proof above needs one (ascending sequences,
  cardinalities, terms) it takes a least counterexample instead, which these
  definitions, being `RECURSIVE`, do not allow.
- The four properties that the findings refute.

## Not modelled

- *Not worth a model*: WASM plugins (a signature and a capability check when a
  plugin is loaded, then a third-party runtime: a property would restate the
  check), argument parsing, printing and the other commands of the CLI, bodies
  and headers of HTTP requests, `fetch`, which reads one file.
- *External*: Tantivy, DataFusion and Arrow, the object store, redb, gRPC flow
  control, the firewall and the other OS calls of the agent. The models keep
  what the code relies on.
- *Out of reach of exhaustive checking*: embeddings, learned scoring and the
  evaluation harness (floating point).
- *User interface*: the web console.

Left out inside a modelled component: stream frames below the message in
`Telemetry`, and its file and network collectors, which poll as the process
collector does; half-written Parquet files in `ColumnarStore`; overflow of a
huge timespan in `Sigma`; the SSE broadcast and saved objects in `AlertTriage`; the
score and the rank of campaigns, which are translated and not checked;
rule tests and correlation rules (which only a restart loads) in `RuleStudio`;
the syslog listeners and the `<PRI>` in `Codecs`; commands in `Telemetry`; regular expressions of rules, entropy,
similarity and passwords, which are inputs.

## Plan

Every safety property of the state machines is both checked and proved. What is left:

- liveness and the recursive algorithms, which are out of this prover's reach;
- if `step` is changed to truncate on a conflict only and to ignore replies of
  earlier terms, the hypotheses `PublishesInOrder` and `FreshReplies` should go from
  the theorems on commits, and the two runs should pass.
