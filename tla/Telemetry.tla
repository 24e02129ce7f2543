----------------------------- MODULE Telemetry -----------------------------
(***************************************************************************)
(* The way of endpoint telemetry: the collectors of sigil-agent on their   *)
(* thread, the agent's control loop with its batch, the stream, the        *)
(* gateway's session task, and the run loop of module Detection, which     *)
(* takes the events from the gateway's channel.                            *)
(*                                                                         *)
(* Every hop is bounded and waited for: a collector waits for room in the  *)
(* telemetry channel, the agent's loop for room in the stream (and reads   *)
(* nothing meanwhile), the session task for room in the event channel, or  *)
(* in the stream of its acknowledgements (and reads nothing meanwhile).    *)
(* An event is its number, from 1, in the order of collection.  The        *)
(* handshake and the commands of a session are in module EdrGateway; here  *)
(* `up` and `down` are a stream together with the channel that feeds it.   *)
(* A command takes a place in `down` as an acknowledgement does, and the   *)
(* session task waits for it in the same way; only the acknowledgements    *)
(* are here.                                                               *)
(***************************************************************************)
EXTENDS Detection

CONSTANTS
    Pid,            \* process ids
    Entry,          \* files in a persistence location
    BatchSize,      \* batch_size
    TeleCap,        \* room in the telemetry channel (4096 in the code)
    UpCap,          \* room in the stream to the gateway (256)
    DownCap,        \* room in the stream to the agent (64)
    InboxCap,       \* room in the event channel (8192)
    MaxChanges,     \* bound: changes of the host
    MaxBeats,       \* bound: heartbeats
    MaxBreaks       \* bound: broken streams

Session == 1 .. MaxBreaks + MaxNodeStops + 1

ASSUME TelemetryAssumption ==
    /\ IsFiniteSet(Pid) /\ IsFiniteSet(Entry)
    /\ BatchSize \in Nat /\ UpCap \in Nat /\ MaxBreaks \in Nat

VARIABLES
    procs, autoruns, readable, changes,     \* the host
    known, seen, primed,    \* ProcessCollector.known, PersistenceCollector.seen; who has polled
    todo,       \* polled events the thread has yet to send
    tele,       \* the telemetry channel
    sess,       \* the agent's session, or 0
    opened,     \* sessions opened
    batch,      \* session_once's batch
    sending,    \* the message the agent's loop waits to send, or none
    up, down,   \* the streams of each session
    gw,         \* gw[s]: what the session task waits to hand on
    beats, breaks,
    \* History, read by no guard:
    emitted,    \* all events, in the order of collection
    baseline,   \* the processes of the first poll
    lost        \* events that ended with a session

hostVars == <<procs, autoruns, readable, changes>>
collectorVars == <<known, seen, primed, todo, emitted, baseline>>
sessionVars == <<tele, sess, opened, batch, sending, up, down, gw, beats, breaks, lost>>
telemetryVars == <<hostVars, collectorVars, sessionVars>>

NoMessage == [is |-> "none", events |-> <<>>]
BeatMessage == [is |-> "beat", events |-> <<>>]

TelemetryInit ==
    /\ procs \in SUBSET Pid /\ autoruns = {} /\ readable = TRUE /\ changes \in 0 .. MaxChanges
    /\ known = {} /\ seen = {} /\ primed = {} /\ todo = <<>> /\ emitted = <<>> /\ baseline = {}
    /\ tele = <<>> /\ sess = 0 /\ opened = 0 /\ batch = <<>> /\ sending = NoMessage
    /\ up = [s \in Session |-> <<>>] /\ down = [s \in Session |-> 0]
    /\ gw = [s \in Session |-> NoMessage]
    /\ beats \in 0 .. MaxBeats /\ breaks \in 0 .. MaxBreaks /\ lost = {}

---------------------------------------------------------------------------
(* The host and the collectors                                             *)

\* A process starts or ends, a persistence file appears, or its directory can
\* no longer, or again, be read.
HostChange ==
    /\ changes < MaxChanges
    /\ changes' = changes + 1
    /\ \/ \E p \in Pid : procs' = (IF p \in procs THEN procs \ {p} ELSE procs \cup {p}) /\ UNCHANGED <<autoruns, readable>>
       \/ \E f \in Entry \ autoruns : autoruns' = autoruns \cup {f} /\ UNCHANGED <<procs, readable>>
       \/ readable' = ~readable /\ UNCHANGED <<procs, autoruns>>
    /\ UNCHANGED <<collectorVars, sessionVars, loopVars>>

\* New events of a kind about each of S.
Events(kind, S) == LET q == SetToSeq(S) IN [i \in DOMAIN q |-> [kind |-> kind, of |-> q[i]]]

\* What a poll found joins what was collected; the thread sends it.
Collected(found) ==
    /\ todo' = [i \in DOMAIN found |-> Len(emitted) + i]
    /\ emitted' = emitted \o found

\* Mutant: what has ended stays known.
SnapshotKeeps == known \cup procs

\* self.known = current
Snapshot == procs

\* ProcessCollector::poll: what appeared and what vanished since the last one;
\* the first only takes the snapshot.
ProcessPoll ==
    /\ todo = <<>>
    /\ procs # known \/ "process" \notin primed
    /\ IF "process" \in primed
         THEN Collected(Events("start", procs \ known) \o Events("stop", known \ procs)) /\ UNCHANGED baseline
         ELSE baseline' = procs /\ UNCHANGED <<todo, emitted>>
    /\ known' = Snapshot
    /\ primed' = primed \cup {"process"}
    /\ UNCHANGED <<seen, hostVars, sessionVars, loopVars>>

\* PersistenceCollector::poll: a directory that cannot be read has no entries.
PersistencePoll ==
    LET current == IF readable THEN autoruns ELSE {}
    IN  /\ todo = <<>>
        /\ current # seen \/ "persistence" \notin primed
        /\ IF "persistence" \in primed THEN Collected(Events("add", current \ seen)) ELSE UNCHANGED <<todo, emitted>>
        /\ seen' = current
        /\ primed' = primed \cup {"persistence"}
        /\ UNCHANGED <<known, baseline, hostVars, sessionVars, loopVars>>

\* blocking_send of the thread's next event.
Collect ==
    /\ todo # <<>> /\ Len(tele) < TeleCap
    /\ tele' = Append(tele, Head(todo))
    /\ todo' = Tail(todo)
    /\ UNCHANGED <<known, seen, primed, emitted, baseline, hostVars, sess, opened, batch, sending, up, down, gw,
                   beats, breaks, lost, loopVars>>

---------------------------------------------------------------------------
(* The agent's session_once                                                *)

\* The loop waits in its select.
Ready == sess # 0 /\ sending = NoMessage

ConnectGateway ==
    /\ sess = 0 /\ node = "up" /\ opened < MaxBreaks + MaxNodeStops + 1
    /\ sess' = opened + 1 /\ opened' = opened + 1
    /\ batch' = <<>> /\ sending' = NoMessage
    /\ UNCHANGED <<tele, up, down, gw, beats, breaks, lost, hostVars, collectorVars, loopVars>>

\* Mutant: the batch is copied into the message and not taken.
SendBatchKeeps(b) == sending' = [is |-> "telemetry", events |-> b] /\ batch' = b

\* send_batch takes the batch and waits for the stream.
SendBatch(b) == sending' = [is |-> "telemetry", events |-> b] /\ batch' = <<>>

\* telemetry_rx.recv: a batch that is full is sent.
Receive ==
    /\ Ready /\ tele # <<>>
    /\ tele' = Tail(tele)
    /\ LET b == Append(batch, Head(tele))
       IN  IF Len(b) >= BatchSize THEN SendBatch(b) ELSE batch' = b /\ UNCHANGED sending
    /\ UNCHANGED <<sess, opened, up, down, gw, beats, breaks, lost, hostVars, collectorVars, loopVars>>

\* Mutant: the timer sends full batches only.
FlushFull ==
    /\ Ready /\ Len(batch) >= BatchSize
    /\ SendBatch(batch)
    /\ UNCHANGED <<tele, sess, opened, up, down, gw, beats, breaks, lost, hostVars, collectorVars, loopVars>>

\* flush.tick
Flush ==
    /\ Ready /\ batch # <<>>
    /\ SendBatch(batch)
    /\ UNCHANGED <<tele, sess, opened, up, down, gw, beats, breaks, lost, hostVars, collectorVars, loopVars>>

\* heartbeat.tick, also in a burst after the loop had to wait.
Beat ==
    /\ Ready /\ beats < MaxBeats
    /\ beats' = beats + 1
    /\ sending' = BeatMessage
    /\ UNCHANGED <<tele, sess, opened, batch, up, down, gw, breaks, lost, hostVars, collectorVars, loopVars>>

\* down.next: an acknowledgement, which is ignored.
ReadAck ==
    /\ Ready /\ down[sess] > 0
    /\ down' = [down EXCEPT ![sess] = @ - 1]
    /\ UNCHANGED <<tele, sess, opened, batch, sending, up, gw, beats, breaks, lost, hostVars, collectorVars, loopVars>>

\* The stream has room for the message.
SendUp ==
    /\ sess # 0 /\ sending # NoMessage /\ Len(up[sess]) < UpCap
    /\ up' = [up EXCEPT ![sess] = Append(@, sending)]
    /\ sending' = NoMessage
    /\ UNCHANGED <<tele, sess, opened, batch, down, gw, beats, breaks, lost, hostVars, collectorVars, loopVars>>

\* The events of a sequence of messages.
EventsOf(msgs) == UNION {Range(msgs[i].events) : i \in DOMAIN msgs}

\* The stream breaks: the batch and the message end with session_once, and so
\* does what had not reached the gateway; what had, the session task handles.
\* The collectors' channel stays, and the next session reads on.
Break ==
    /\ sess # 0 /\ breaks < MaxBreaks
    /\ breaks' = breaks + 1
    /\ \E n \in 0 .. Len(up[sess]) :
           /\ up' = [up EXCEPT ![sess] = SubSeq(@, 1, n)]
           /\ lost' = lost \cup Range(batch) \cup Range(sending.events)
                           \cup EventsOf(SubSeq(up[sess], n + 1, Len(up[sess])))
    /\ sess' = 0 /\ batch' = <<>> /\ sending' = NoMessage
    /\ down' = [down EXCEPT ![sess] = 0]
    /\ UNCHANGED <<tele, opened, gw, beats, hostVars, collectorVars, loopVars>>

---------------------------------------------------------------------------
(* AgentGateway::session                                                   *)

\* inbound.message
GatewayTakes(s) ==
    /\ node = "up" /\ gw[s] = NoMessage /\ up[s] # <<>>
    /\ gw' = [gw EXCEPT ![s] = Head(up[s])]
    /\ up' = [up EXCEPT ![s] = Tail(@)]
    /\ UNCHANGED <<tele, sess, opened, batch, sending, down, beats, breaks, lost, hostVars, collectorVars, loopVars>>

\* The batch without the event just handed on.
HandedOn(m) == IF Len(m.events) > 1 THEN [m EXCEPT !.events = Tail(@)] ELSE NoMessage

\* event_tx.send of the next event of the batch, as map::to_event makes it.
GatewayHandsOn(s) ==
    /\ node = "up" /\ gw[s].is = "telemetry" /\ Len(inbox) < InboxCap
    /\ inbox' = Append(inbox, Head(gw[s].events))
    /\ gw' = [gw EXCEPT ![s] = HandedOn(@)]
    /\ UNCHANGED <<tele, sess, opened, batch, sending, up, down, beats, breaks, lost, hostVars, collectorVars,
                   node, rx, inputsOpen, loop, stored, told, filed, ticketed, fresh, hot, ends, dropped>>

\* A heartbeat is acknowledged; on a stream that is gone the send fails.
GatewayAcks(s) ==
    /\ node = "up" /\ gw[s].is = "beat" /\ down[s] < DownCap
    /\ down' = IF sess = s THEN [down EXCEPT ![s] = @ + 1] ELSE down
    /\ gw' = [gw EXCEPT ![s] = NoMessage]
    /\ UNCHANGED <<tele, sess, opened, batch, sending, up, beats, breaks, lost, hostVars, collectorVars, loopVars>>

---------------------------------------------------------------------------
(* The node                                                                *)

\* With the node every session ends.
SessionsEnd ==
    /\ lost' = lost \cup Range(batch) \cup Range(sending.events)
                    \cup UNION {EventsOf(up[s]) \cup Range(gw[s].events) : s \in Session}
    /\ sess' = 0 /\ batch' = <<>> /\ sending' = NoMessage
    /\ up' = [s \in Session |-> <<>>] /\ down' = [s \in Session |-> 0] /\ gw' = [s \in Session |-> NoMessage]
    /\ UNCHANGED <<tele, opened, beats, breaks, hostVars, collectorVars>>

NodeEnds == (CtrlC \/ NodeCrash) /\ SessionsEnd

NodeRuns ==
    /\ TakeFrame \/ TakeEvent \/ CommitHot \/ Drained \/ Detect \/ PushAlert \/ Emit \/ IndexAdd \/ NodeStart
    /\ UNCHANGED telemetryVars

Agent ==
    \/ ProcessPoll \/ PersistencePoll \/ Collect
    \/ ConnectGateway \/ Receive \/ Flush \/ Beat \/ ReadAck \/ SendUp

Gateway == \E s \in Session : GatewayTakes(s) \/ GatewayHandsOn(s) \/ GatewayAcks(s)

TelemetryNext == HostChange \/ Agent \/ Break \/ Gateway \/ NodeEnds \/ NodeRuns

TelemetrySpecInit == TelemetryInit /\ DetectionInit
nodeVars == <<telemetryVars, loopVars>>

TelemetrySpec == TelemetrySpecInit /\ [][TelemetryNext]_nodeVars

\* The collectors' thread, the agent's loop, the session tasks and the run loop
\* run on; a sink need not answer.
TelemetryFairness ==
    /\ WF_nodeVars(ProcessPoll \/ PersistencePoll \/ Collect)
    /\ WF_nodeVars(ConnectGateway) /\ WF_nodeVars(Receive) /\ WF_nodeVars(Flush) /\ WF_nodeVars(ReadAck)
    /\ WF_nodeVars(SendUp)
    /\ \A s \in Session : WF_nodeVars(GatewayTakes(s)) /\ WF_nodeVars(GatewayHandsOn(s)) /\ WF_nodeVars(GatewayAcks(s))
    /\ WF_nodeVars(TakeFrame /\ UNCHANGED telemetryVars) /\ WF_nodeVars(TakeEvent /\ UNCHANGED telemetryVars)
    /\ WF_nodeVars(CommitHot /\ UNCHANGED telemetryVars)
    /\ WF_nodeVars((Detect \/ PushAlert \/ IndexAdd \/ NodeStart) /\ UNCHANGED telemetryVars)

---------------------------------------------------------------------------
(* Properties                                                              *)

\* The places between a collector and the hot index, the furthest first, and
\* the events in each.  In the fifth stage each session has a line of them:
\* the message its task holds, and those in its stream.
Place == ({1, 2, 3, 4, 6, 7, 8, 9} \X {0} \X {0}) \cup ({5} \X Session \X (0 .. UpCap))
Holding(p) ==
    CASE p[1] = 1 -> hot
      [] p[1] = 2 -> fresh
      [] p[1] = 3 -> IF loop.pc = "select" THEN <<>> ELSE <<loop.event>>
      [] p[1] = 4 -> inbox
      [] p[1] = 5 /\ p[3] = 0 -> gw[p[2]].events
      [] p[1] = 5 /\ p[3] > 0 -> IF p[3] <= Len(up[p[2]]) THEN up[p[2]][p[3]].events ELSE <<>>
      [] p[1] = 6 -> sending.events
      [] p[1] = 7 -> batch
      [] p[1] = 8 -> tele
      [] p[1] = 9 -> todo

\* The place p comes before q, and position i of p before position j of q.
Before(p, q) ==
    \/ p[1] < q[1]
    \/ p[1] = q[1] /\ p[2] < q[2]
    \/ p[1] = q[1] /\ p[2] = q[2] /\ p[3] < q[3]
Ahead(p, i, q, j) == Before(p, q) \/ (p = q /\ i < j)

\* Every event that a collector produced is in one place between the host and
\* the hot index, or ended with a session or with the node: no step of the
\* agent, the stream, the gateway or the loop loses, repeats or invents one.
\* They keep their order as long as there has been one session.
TelemetryAccounted ==
    /\ {n \in UNION {Range(Holding(p)) : p \in Place} : n > 0} = DOMAIN emitted \ (lost \cup dropped)
    /\ \A p, q \in Place : \A i \in DOMAIN Holding(p), j \in DOMAIN Holding(q) :
           Holding(p)[i] > 0 /\ Holding(p)[i] = Holding(q)[j] => p = q /\ i = j
    /\ opened <= 1 =>
           \A p, q \in Place : \A i \in DOMAIN Holding(p), j \in DOMAIN Holding(q) :
               Holding(p)[i] > 0 /\ Holding(q)[j] > 0 /\ Ahead(p, i, q, j) => Holding(p)[i] < Holding(q)[j]

\* The process p was running after the first n events, as they tell: it was at
\* the first poll, or started, and nothing was told of it after that.
Untold(p, m, n) == \A i \in m .. n : emitted[i].kind \in {"start", "stop"} => emitted[i].of # p
Running(p, n) ==
    \/ p \in baseline /\ Untold(p, 1, n)
    \/ \E i \in 1 .. n : emitted[i] = [kind |-> "start", of |-> p] /\ Untold(p, i + 1, n)

\* The process events replay to the collector's snapshot: a start is only of a
\* process that was not running, a stop of one that was, from the first poll on.
ProcessesTracked ==
    "process" \in primed =>
        /\ \A i \in DOMAIN emitted :
               /\ emitted[i].kind = "start" => ~Running(emitted[i].of, i - 1)
               /\ emitted[i].kind = "stop" => Running(emitted[i].of, i - 1)
        /\ known = {p \in Pid : Running(p, Len(emitted))}

\* Agent and gateway wait for each other: the agent for room in the stream, and
\* the session task that would make it for room in the one the agent reads.
Circle ==
    /\ sess # 0 /\ sending # NoMessage /\ Len(up[sess]) = UpCap
    /\ gw[sess].is = "beat" /\ down[sess] = DownCap

\* Every collected event becomes searchable, or ends with a broken stream or with
\* the node, unless one of two things stalls the way for good: a sink that never
\* answers, or the circle of an agent and a gateway that wait for each other,
\* which nothing but the end of the stream undoes.  No other wait in the row of
\* bounded channels, and no timing of batches, breaks and restarts, leaves an
\* event behind.
TelemetryArrives ==
    ([]<>(loop.pc # "emit")) /\ ([]<>~Circle) =>
        \A n \in 1 .. MaxChanges : n \in DOMAIN emitted ~> n \in Range(hot) \cup lost \cup dropped
============================================================================
