---------------------------- MODULE EdrGateway ----------------------------
(***************************************************************************)
(* Response commands from the API to one enrolled EDR agent: CommandQueue, *)
(* AgentRegistry, the gateway's session task, and the agent's control loop *)
(* with its executors.  Agents share nothing that a step here reads, so    *)
(* one agent stands for the fleet.                                         *)
(*                                                                         *)
(* A step is what one task does between two points where another task of   *)
(* the multi-threaded runtime can see the store, the registry or a         *)
(* channel.  enqueue is four of them: persist, look up the sender, send,   *)
(* persist again.  HeartbeatAck is left out (the agent ignores it), and so *)
(* is the flow control of the two gRPC streams; telemetry takes another    *)
(* path.  The firewall and the OS actions are external: they succeed or    *)
(* fail.                                                                   *)
(***************************************************************************)
EXTENDS Integers, Sequences, FiniteSets

CONSTANTS
    Isolate, Unisolate, Other,  \* command ids, by command type
    HalfOpen,       \* may the agent reconnect before the gateway has noticed
                    \* the end of the previous stream?
    ChanCap,        \* capacity of a session's command channel (64 in the code)
    MaxSessions,    \* bound: control streams opened in all
    MaxBeats,       \* bound: heartbeats in flight on a stream
    MaxRestarts     \* bound: restarts of the agent and of the gateway in all

ASSUME CommandAssumption ==
    /\ Isolate \cap Unisolate = {} /\ Isolate \cap Other = {} /\ Unisolate \cap Other = {}
ASSUME EdrBoundAssumption ==
    /\ HalfOpen \in BOOLEAN
    /\ ChanCap \in Nat \ {0}
    /\ MaxSessions \in Nat
    /\ MaxBeats \in Nat
    /\ MaxRestarts \in Nat

VARIABLES
    \* the gateway
    live,       \* AgentRegistry::live: the session whose command_tx it holds, or None
    liveIso,    \* that entry's isolated, FALSE without one
    recIso,     \* AgentRecord::isolated in the store
    srv,        \* srv[s]: where the task of session s is
    chan,       \* chan[s]: its command channel
    status,     \* CommandRecord::status in the store
    enq,        \* enq[c]: where CommandQueue::enqueue of c is, and its command_tx
    \* the streams
    up,         \* up[s]: agent to gateway
    down,       \* down[s]: gateway to agent
    gone,       \* the sessions the agent has left
    \* the agent
    sess,       \* the session of session_once, or None
    greeted,    \* HelloAck received in that session
    aIso,       \* ResponseCtx::isolated
    task,       \* task[c]: the spawned execution of c
    firewall,   \* is the host isolated? survives the agent
    opened, restarts,
    \* History, read by no guard:
    runs,       \* runs[c]: how often c was handed to response::execute
    outcome,    \* outcome[c]: the results of those executions
    apart       \* what may have set flag and firewall apart since an isolation
                \* command last ran alone and did what it reported

gateway == <<live, liveIso, recIso, srv, chan, status, enq>>
streams == <<up, down, gone>>
agent   == <<sess, greeted, aIso, task, firewall>>
history == <<runs, outcome, apart>>
vars    == <<gateway, streams, agent, opened, restarts, history>>

Command == Isolate \cup Unisolate \cup Other
Session == 1 .. MaxSessions
None == 0

UpMsg == [type : {"Heartbeat"}, isolated : BOOLEAN]
            \cup [type : {"Result"}, cmd : Command, ok : BOOLEAN]
DownMsg == [type : {"HelloAck"}] \cup [type : {"Command"}, cmd : Command]

\* The registry, the store, the streams and the tasks have their types.
TypeOK ==
    /\ live \in Session \cup {None} /\ liveIso \in BOOLEAN /\ recIso \in BOOLEAN
    /\ srv \in [Session -> {"unborn", "hello", "up", "closing", "done"}]
    /\ chan \in [Session -> Seq(Command)]
    /\ status \in [Command -> {"none", "pending", "sent", "completed", "failed"}]
    /\ enq \in [Command -> [at : {"none", "lookup", "send", "mark", "done", "dead"},
                            tx : Session \cup {None}]]
    /\ up \in [Session -> Seq(UpMsg)]
    /\ down \in [Session -> Seq(DownMsg)]
    /\ gone \in SUBSET Session
    /\ sess \in Session \cup {None} /\ greeted \in BOOLEAN /\ aIso \in BOOLEAN
    /\ task \in [Command -> [at : {"none", "run", "report"}, from : Session \cup {None},
                             ok : BOOLEAN]]
    /\ firewall \in BOOLEAN
    /\ opened \in Session \cup {0} /\ restarts \in Nat
    /\ runs \in [Command -> Nat]
    /\ outcome \in [Command -> SUBSET BOOLEAN]
    /\ apart \in SUBSET {"restart", "overlap", "claimed"}

NotEnqueued == [at |-> "none", tx |-> None]
Isolation == Isolate \cup Unisolate
UnderWay(c) == task[c].at # "none"

NoTask == [at |-> "none", from |-> None, ok |-> FALSE]

---------------------------------------------------------------------------
(* CommandQueue                                                            *)

\* enqueue persists the record as pending ...
Enqueue(c) ==
    /\ enq[c].at = "none"
    /\ status' = [status EXCEPT ![c] = "pending"]
    /\ enq' = [enq EXCEPT ![c].at = "lookup"]
    /\ UNCHANGED <<live, liveIso, recIso, srv, chan, streams, agent, opened, restarts, history>>

\* ... asks the registry for the command sender ...
Lookup(c) ==
    /\ enq[c].at = "lookup"
    /\ enq' = [enq EXCEPT ![c] = IF live = None THEN [at |-> "done", tx |-> None]
                                                ELSE [at |-> "send", tx |-> live]]
    /\ UNCHANGED <<live, liveIso, recIso, srv, chan, status, streams, agent, opened, restarts,
                   history>>

\* ... sends, waiting for room, unless the receiver has been dropped ...
Send(c) ==
    LET s == enq[c].tx
    IN  /\ enq[c].at = "send"
        /\ \/ /\ srv[s] = "done"
              /\ enq' = [enq EXCEPT ![c] = [at |-> "done", tx |-> None]]
              /\ UNCHANGED chan
           \/ /\ srv[s] # "done"
              /\ Len(chan[s]) < ChanCap
              /\ chan' = [chan EXCEPT ![s] = Append(@, c)]
              /\ enq' = [enq EXCEPT ![c].at = "mark"]
        /\ UNCHANGED <<live, liveIso, recIso, srv, status, streams, agent, opened, restarts, history>>

\* Mutant: the second persist is forgotten.
MarkNot(c) ==
    /\ enq[c].at = "mark"
    /\ enq' = [enq EXCEPT ![c] = [at |-> "done", tx |-> None]]
    /\ UNCHANGED <<live, liveIso, recIso, srv, chan, status, streams, agent, opened, restarts,
                   history>>

\* ... and persists its own copy of the record again, as sent.
Mark(c) ==
    /\ enq[c].at = "mark"
    /\ status' = [status EXCEPT ![c] = "sent"]
    /\ enq' = [enq EXCEPT ![c] = [at |-> "done", tx |-> None]]
    /\ UNCHANGED <<live, liveIso, recIso, srv, chan, streams, agent, opened, restarts, history>>

\* Mutants: a status no reader knows; a failure recorded as success.
RecordedMisspelt(m) == [status EXCEPT ![m.cmd] = IF m.ok THEN "complete" ELSE "failed"]
RecordedOk(m) == [status EXCEPT ![m.cmd] = "completed"]

\* record_result
Recorded(m) == [status EXCEPT ![m.cmd] = IF m.ok THEN "completed" ELSE "failed"]

---------------------------------------------------------------------------
(* AgentGateway::session and AgentRegistry                                 *)

\* The first frame is a valid Hello: registry.connect, then HelloAck.  A
\* stream that ends before it leaves no trace.
Hello(s) ==
    /\ srv[s] = "hello"
    /\ \/ /\ srv' = [srv EXCEPT ![s] = "up"]
          /\ live' = s
          /\ liveIso' = (live # None /\ liveIso)
          /\ down' = [down EXCEPT ![s] = Append(@, [type |-> "HelloAck"])]
       \/ /\ s \in gone
          /\ srv' = [srv EXCEPT ![s] = "done"]
          /\ UNCHANGED <<live, liveIso, down>>
    /\ UNCHANGED <<recIso, chan, status, enq, up, gone, agent, opened, restarts, history>>

\* Mutant: a heartbeat can set the isolated flag and never clears it.
HeartbeatSticks(iso) == live # None /\ (liveIso \/ iso)

\* registry.heartbeat finds the entry by agent id, whichever session's it is.
RegistryHeartbeat(iso) == IF live = None THEN liveIso ELSE iso

\* The next frame from the agent.
Inbound(s) ==
    /\ srv[s] = "up" /\ up[s] # <<>>
    /\ up' = [up EXCEPT ![s] = Tail(@)]
    /\ LET m == Head(up[s])
       IN  \/ /\ m.type = "Heartbeat"
              /\ liveIso' = RegistryHeartbeat(m.isolated)
              /\ UNCHANGED status
           \/ /\ m.type = "Result"
              /\ status' = Recorded(m)
              /\ UNCHANGED liveIso
    /\ UNCHANGED <<live, recIso, srv, chan, enq, down, gone, agent, opened, restarts, history>>

\* Mutant: the command stays in the channel.
TakenNot(s) == chan

\* cmd_rx.recv
Taken(s) == [chan EXCEPT ![s] = Tail(@)]

\* A command from the channel goes down the stream; when the stream is gone
\* the send may fail, which ends the loop.
Forward(s) ==
    /\ srv[s] = "up" /\ chan[s] # <<>>
    /\ chan' = Taken(s)
    /\ \/ /\ down' = [down EXCEPT ![s] = Append(@, [type |-> "Command", cmd |-> Head(chan[s])])]
          /\ UNCHANGED srv
       \/ /\ s \in gone
          /\ srv' = [srv EXCEPT ![s] = "closing"]
          /\ UNCHANGED down
    /\ UNCHANGED <<live, liveIso, recIso, status, enq, up, gone, agent, opened, restarts, history>>

\* The loop ends: the stream ended or broke, or every sender of the drained
\* channel is dropped because another session took the registry's entry.
Leave(s) ==
    /\ srv[s] = "up"
    /\ \/ s \in gone
       \/ /\ live # s /\ chan[s] = <<>>
          /\ \A c \in Command : enq[c].tx # s
    /\ srv' = [srv EXCEPT ![s] = "closing"]
    /\ UNCHANGED <<live, liveIso, recIso, chan, status, enq, streams, agent, opened, restarts,
                   history>>

\* Mutant: the entry stays when the task ends.
RemovedNot(s) == live

\* registry.disconnect(agent_id) removes the agent's entry.
Removed(s) == None

\* registry.disconnect, then the task ends and drops its receiver and its stream.
Disconnect(s) ==
    /\ srv[s] = "closing"
    /\ srv' = [srv EXCEPT ![s] = "done"]
    /\ chan' = [chan EXCEPT ![s] = <<>>]
    /\ live' = Removed(s)
    /\ recIso' = IF live = None THEN recIso ELSE liveIso
    /\ liveIso' = (Removed(s) # None /\ liveIso)
    /\ up' = [up EXCEPT ![s] = <<>>]
    /\ UNCHANGED <<status, enq, down, gone, agent, opened, restarts, history>>

\* The gateway restarts: the registry's live map, the tasks and the channels
\* are lost, the store is kept.
GatewayRestart ==
    /\ restarts < MaxRestarts
    /\ restarts' = restarts + 1
    /\ live' = None /\ liveIso' = FALSE
    /\ srv' = [s \in Session |-> IF srv[s] = "unborn" THEN "unborn" ELSE "done"]
    /\ chan' = [s \in Session |-> <<>>]
    /\ up' = [s \in Session |-> <<>>]
    /\ enq' = [c \in Command |-> IF enq[c].at \in {"none", "done"} THEN enq[c]
                                                          ELSE [at |-> "dead", tx |-> None]]
    /\ UNCHANGED <<recIso, status, down, gone, agent, opened, history>>

---------------------------------------------------------------------------
(* The agent: transport::run and session_once                              *)

\* The gateway is in the middle of session s.
Serving(s) == srv[s] \in {"hello", "up", "closing"}

\* session_once opens a stream and says Hello.
Connect ==
    /\ sess = None /\ opened < MaxSessions
    /\ HalfOpen \/ \A s \in Session : ~Serving(s)
    /\ opened' = opened + 1
    /\ sess' = opened + 1
    /\ greeted' = FALSE
    /\ srv' = [srv EXCEPT ![opened + 1] = "hello"]
    /\ UNCHANGED <<live, liveIso, recIso, chan, status, enq, streams, aIso, task, firewall,
                   restarts, history>>

\* The agent leaves session_once and drops the stream: it broke, or the gateway
\* closed it.
LeaveStream ==
    /\ sess # None
    /\ sess' = None /\ greeted' = FALSE
    /\ gone' = gone \cup {sess}
    /\ down' = [down EXCEPT ![sess] = <<>>]
    /\ UNCHANGED <<gateway, up, aIso, task, firewall, opened, restarts, history>>

\* The connection breaks, which either side notices when it does.
StreamBreak == sess # None /\ srv[sess] # "done" /\ LeaveStream

\* down.next() is None once the gateway has ended the stream.
StreamEnd == sess # None /\ srv[sess] = "done" /\ down[sess] = <<>> /\ LeaveStream

\* heartbeat.tick
Heartbeat ==
    /\ sess # None /\ greeted /\ Len(up[sess]) < MaxBeats
    /\ up' = [up EXCEPT ![sess] = Append(@, [type |-> "Heartbeat", isolated |-> aIso])]
    /\ UNCHANGED <<gateway, down, gone, agent, opened, restarts, history>>

\* The next frame from the gateway: the HelloAck, or a command to spawn.
Downstream ==
    /\ sess # None /\ down[sess] # <<>>
    /\ down' = [down EXCEPT ![sess] = Tail(@)]
    /\ LET m == Head(down[sess])
       IN  \/ /\ m.type = "HelloAck" /\ greeted' = TRUE
              /\ UNCHANGED <<task, runs, apart>>
           \/ /\ m.type = "Command"
              /\ task' = [task EXCEPT ![m.cmd] = [at |-> "run", from |-> sess, ok |-> FALSE]]
              /\ runs' = [runs EXCEPT ![m.cmd] = @ + 1]
              /\ apart' = IF m.cmd \in Isolation /\ \E d \in Isolation : UnderWay(d)
                         THEN apart \cup {"overlap"} ELSE apart
              /\ UNCHANGED greeted
    /\ UNCHANGED <<gateway, up, gone, sess, aIso, firewall, opened, restarts, outcome>>

\* What may hold flag and firewall apart after c has run: nothing once an
\* isolation command has run alone and done what it claims.
Apart(c, ok) ==
    IF c \notin Isolation \/ ~ok THEN apart
    ELSE IF firewall' # (c \in Isolate) THEN apart \cup {"claimed"}
    ELSE IF \A d \in Isolation \ {c} : ~UnderWay(d) THEN {} ELSE apart

\* response::execute on its blocking thread: the OS action, which took effect
\* or not, and what it reports.  The two are the same but for isolation on
\* macOS, which reports success whatever pfctl -e did.
Act(c, ok, took) ==
    /\ task[c].at = "run"
    /\ took = ok \/ (c \in Isolate /\ ok)
    /\ task' = [task EXCEPT ![c] = [at |-> "report", from |-> task[c].from, ok |-> ok]]
    /\ firewall' = IF took /\ c \notin Other THEN c \in Isolate ELSE firewall
    /\ outcome' = [outcome EXCEPT ![c] = @ \cup {ok}]
    /\ apart' = Apart(c, ok)
    /\ UNCHANGED <<gateway, streams, sess, greeted, aIso, opened, restarts, runs>>

\* Mutant: the flag is set whether or not the action succeeded.
FlagAnyway(c, ok) == IF c \notin Other THEN c \in Isolate ELSE aIso

\* The isolation flag after command c.
Flag(c, ok) == IF ok /\ c \notin Other THEN c \in Isolate ELSE aIso

\* ... then the flag and the result, on the stream the command came from, if
\* that is still there.
Report(c) ==
    LET s == task[c].from
    IN  /\ task[c].at = "report"
        /\ task' = [task EXCEPT ![c] = NoTask]
        /\ aIso' = Flag(c, task[c].ok)
        /\ up' = IF s \in gone \/ srv[s] = "done" THEN up
                 ELSE [up EXCEPT ![s] =
                          Append(@, [type |-> "Result", cmd |-> c, ok |-> task[c].ok])]
        /\ UNCHANGED <<gateway, down, gone, sess, greeted, firewall, opened, restarts, history>>

\* The agent process restarts; its identity and the firewall's rules stay.
AgentRestart ==
    /\ restarts < MaxRestarts
    /\ restarts' = restarts + 1
    /\ sess' = None
    /\ gone' = IF sess = None THEN gone ELSE gone \cup {sess}
    /\ down' = [s \in Session |-> IF s = sess THEN <<>> ELSE down[s]]
    /\ greeted' = FALSE
    /\ aIso' = FALSE
    /\ task' = [c \in Command |-> NoTask]
    /\ apart' = IF firewall THEN {"restart"} ELSE {}
    /\ UNCHANGED <<gateway, up, firewall, opened, runs, outcome>>

---------------------------------------------------------------------------
Init ==
    /\ live = None /\ liveIso = FALSE /\ recIso = FALSE
    /\ srv = [s \in Session |-> "unborn"]
    /\ chan = [s \in Session |-> <<>>]
    /\ status = [c \in Command |-> "none"]
    /\ enq = [c \in Command |-> NotEnqueued]
    /\ up = [s \in Session |-> <<>>]
    /\ down = [s \in Session |-> <<>>]
    /\ gone = {}
    /\ sess = None /\ greeted = FALSE /\ aIso = FALSE
    /\ task = [c \in Command |-> NoTask]
    /\ firewall = FALSE
    /\ opened = 0 /\ restarts = 0
    /\ runs = [c \in Command |-> 0]
    /\ outcome = [c \in Command |-> {}]
    /\ apart = {}

Api == \E c \in Command : Enqueue(c) \/ Lookup(c) \/ Send(c) \/ Mark(c)
Serve == \E s \in Session : Hello(s) \/ Inbound(s) \/ Forward(s) \/ Leave(s) \/ Disconnect(s)
Control == Connect \/ StreamBreak \/ StreamEnd \/ Heartbeat \/ Downstream
Execute == \E c \in Command : (\E ok, took \in BOOLEAN : Act(c, ok, took)) \/ Report(c)

Next == Api \/ Serve \/ Control \/ Execute \/ GatewayRestart \/ AgentRestart

Spec == Init /\ [][Next]_vars

\* Every task runs on: the API's calls, the session tasks, the agent's loop
\* (which reconnects and heartbeats for ever) and its executors.  Nothing
\* makes anyone issue a command, break a stream or restart.
Fairness ==
    /\ \A c \in Command :
           /\ WF_vars(Lookup(c)) /\ WF_vars(Send(c)) /\ WF_vars(Mark(c))
           /\ WF_vars(\E ok, took \in BOOLEAN : Act(c, ok, took)) /\ WF_vars(Report(c))
    /\ \A s \in Session :
           /\ WF_vars(Hello(s)) /\ WF_vars(Forward(s)) /\ WF_vars(Leave(s))
           /\ WF_vars(Inbound(s)) /\ WF_vars(Disconnect(s))
    /\ WF_vars(Connect) /\ WF_vars(StreamEnd) /\ WF_vars(Heartbeat) /\ WF_vars(Downstream)

FairSpec == Spec /\ Fairness

---------------------------------------------------------------------------
(* Properties                                                              *)

\* A response command is destructive: however streams break and processes
\* restart, no command is executed twice.
AtMostOnce == \A c \in Command : runs[c] <= 1

\* The outcome in the audit trail is one that an execution had.
OutcomeHappened ==
    \A c \in Command :
        /\ status[c] = "completed" => TRUE \in outcome[c]
        /\ status[c] = "failed" => FALSE \in outcome[c]

\* Once enqueue has returned, a record that still says pending is of a
\* command that was never handed to a session, so that it can be issued
\* again.
PendingUndelivered ==
    \A c \in Command : enq[c].at = "done" /\ status[c] = "pending" =>
        /\ runs[c] = 0
        /\ \A s \in Session :
               /\ \A k \in DOMAIN chan[s] : chan[s][k] # c
               /\ \A k \in DOMAIN down[s] : down[s][k] # [type |-> "Command", cmd |-> c]

\* The registry calls the agent connected only while some session task is
\* still there to take its commands and to remove the entry in the end.
LiveServed == live # None => srv[live] \in {"up", "closing"}

\* is_connected: an agent that holds a live control stream is registered.
StreamIsLive == sess # None /\ greeted /\ srv[sess] = "up" => live # None

\* The outcome of a command stays in the audit trail once enqueue has
\* returned (until then its own late mark can still overwrite it).
OutcomeKept ==
    [][\A c \in Command :
            enq[c].at = "done" /\ status[c] \in {"completed", "failed"} => status'[c] = status[c]]_vars

\* The audit trail of the response commands can be relied on: an outcome in it
\* happened and stays, what it calls pending was never delivered, and a
\* connected agent has a session that takes its commands.
AuditTrail == [](TypeOK /\ OutcomeHappened /\ PendingUndelivered /\ LiveServed) /\ OutcomeKept

\* With no isolation command under way, the flag that heartbeats report is the
\* state of the host's firewall, over any number of commands, failures and
\* restarts, unless one of three things set them apart: the agent restarted on
\* an isolated host, two isolation commands ran at once (they can cross between
\* firewall and flag), or an isolation claimed a success it did not have.  The
\* next isolation command that runs alone and takes effect puts them together.
FlagTellsFirewall ==
    apart = {} /\ (\A c \in Isolation : ~UnderWay(c)) => aIso = firewall

\* The fleet view's isolated.
ViewIsolated == IF live = None THEN recIso ELSE liveIso

\* An agent that stays connected over the session that the registry holds is
\* eventually shown as isolated exactly if it says that it is.
ViewCatchesUp ==
    (\E s \in Session : <>[](sess = s /\ greeted /\ srv[s] = "up" /\ live = s))
        => <>[](ViewIsolated = aIso)
===========================================================================
