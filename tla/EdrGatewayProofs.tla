-------------------------- MODULE EdrGatewayProofs --------------------------
(***************************************************************************)
(* Proofs about EdrGateway, for any commands, sessions and capacities, with *)
(* or without half-open streams, and any number of restarts.               *)
(***************************************************************************)
EXTENDS EdrGateway, SequenceTheorems, TLAPS

---------------------------------------------------------------------------
(* The inductive invariant                                                 *)

\* Does a queue hold a member of X, and not more than one?
HasIn(q, X) == \E k \in DOMAIN q : q[k] \in X
OnceIn(q, X) == \A k, l \in DOMAIN q : q[k] \in X /\ q[l] \in X => k = l

\* Do the sessions' queues f hold one, and not more than one between them?
Among(f, X) == \E s \in Session : HasIn(f[s], X)
OnceAmong(f, X) ==
    \A s \in Session :
        /\ OnceIn(f[s], X)
        /\ \A t \in Session : HasIn(f[s], X) /\ HasIn(f[t], X) => s = t

\* The frames that carry command c down, and its result up.
Orders(c) == {m \in DownMsg : m.type = "Command" /\ m.cmd = c}
Results(c) == {m \in UpMsg : m.type = "Result" /\ m.cmd = c}
ResultsOf(c, ok) == {m \in Results(c) : m.ok = ok}

\* A command is at most once in the channels, in the streams down and, as a
\* result, in the streams up.
Unique ==
    \A c \in Command :
        OnceAmong(chan, {c}) /\ OnceAmong(down, Orders(c)) /\ OnceAmong(up, Results(c))

\* A command is in one place at a time: not yet sent, in a channel, in a stream
\* down, or handed over to be executed.
OnePlace ==
    \A c \in Command :
        /\ \/ enq[c].at \in {"none", "lookup", "send"}
           \/ enq[c].at = "done" /\ status[c] = "pending"
           => runs[c] = 0 /\ ~Among(chan, {c}) /\ ~Among(down, Orders(c))
        /\ Among(chan, {c}) => runs[c] = 0 /\ ~Among(down, Orders(c))
        /\ Among(down, Orders(c)) => runs[c] = 0
        /\ runs[c] <= 1

\* So is its execution: not begun, under way, its result in a stream up, or
\* recorded.
OneResult ==
    \A c \in Command :
        /\ runs[c] = 0 \/ task[c].at # "none" =>
               status[c] \notin {"completed", "failed"} /\ ~Among(up, Results(c))
        /\ runs[c] = 0 => task[c].at = "none"
        /\ Among(up, Results(c)) => status[c] \notin {"completed", "failed"}

\* What a task, a result and a record say happened.
Truthful ==
    \A c \in Command :
        /\ status[c] = "completed" => TRUE \in outcome[c]
        /\ status[c] = "failed" => FALSE \in outcome[c]
        /\ task[c].at = "report" => task[c].ok \in outcome[c]
        /\ \A ok \in BOOLEAN : Among(up, ResultsOf(c, ok)) => ok \in outcome[c]

Placed == Unique /\ OnePlace /\ OneResult /\ Truthful

\* Sessions that were not opened have no task.
Opened == LiveServed /\ \A s \in Session : s > opened => srv[s] = "unborn"

\* While nothing has set flag and firewall apart, one isolation command is under
\* way at most, and they differ only between its OS action and its report, which
\* will put them together.
Lone == \A c, d \in Isolation : UnderWay(c) /\ UnderWay(d) => c = d
FlagInv ==
    apart = {} =>
        /\ Lone
        /\ \A c \in Isolation : task[c].at = "report" => Flag(c, task[c].ok) = firewall
        /\ (\A c \in Isolation : task[c].at # "report") => aIso = firewall

EdrInv == TypeOK /\ Placed /\ Opened /\ FlagInv

---------------------------------------------------------------------------
(* Queues                                                                  *)

\* What a queue holds after a message is appended ...
LEMMA AppendIn ==
    ASSUME NEW S, NEW q \in Seq(S), NEW x \in S, NEW X
    PROVE  /\ Append(q, x) \in Seq(S)
           /\ HasIn(Append(q, x), X) <=> HasIn(q, X) \/ x \in X
           /\ OnceIn(q, X) /\ (x \in X => ~HasIn(q, X)) => OnceIn(Append(q, x), X)
<1>1. /\ Len(q) \in Nat /\ DOMAIN q = 1 .. Len(q)
      /\ Append(q, x) \in Seq(S) /\ DOMAIN Append(q, x) = 1 .. Len(q) + 1
      /\ \A k \in 1 .. Len(q) : Append(q, x)[k] = q[k]
      /\ Append(q, x)[Len(q) + 1] = x
  BY LenProperties, AppendProperties
<1> QED BY <1>1 DEF HasIn, OnceIn

\* ... and after the first one is taken.
LEMMA TakeIn ==
    ASSUME NEW S, NEW q \in Seq(S), q # <<>>, NEW X
    PROVE  /\ Head(q) \in S /\ Tail(q) \in Seq(S)
           /\ Head(q) \in X => HasIn(q, X)
           /\ HasIn(Tail(q), X) => HasIn(q, X)
           /\ OnceIn(q, X) => OnceIn(Tail(q), X)
           /\ OnceIn(q, X) /\ Head(q) \in X => ~HasIn(Tail(q), X)
<1>1. /\ Len(q) \in Nat /\ Len(q) >= 1 /\ DOMAIN q = 1 .. Len(q)
      /\ Head(q) = q[1] /\ Head(q) \in S /\ Tail(q) \in Seq(S) /\ Len(Tail(q)) = Len(q) - 1
      /\ \A k \in 1 .. Len(q) - 1 : Tail(q)[k] = q[k + 1]
  BY EmptySeq, LenProperties, HeadTailProperties
<1>2. DOMAIN Tail(q) = 1 .. Len(q) - 1
  BY <1>1, LenProperties
<1> QED BY <1>1, <1>2 DEF HasIn, OnceIn

\* An empty queue holds nothing.
LEMMA EmptyIn ==
    ASSUME NEW X
    PROVE  ~HasIn(<<>>, X) /\ OnceIn(<<>>, X)
BY DEF HasIn, OnceIn

\* The same for the queues of all sessions: one gets a message ...
LEMMA PutAmong ==
    ASSUME NEW S, NEW f \in [Session -> Seq(S)], NEW s \in Session, NEW x \in S, NEW X
    PROVE  LET g == [f EXCEPT ![s] = Append(f[s], x)]
           IN  /\ Among(g, X) <=> Among(f, X) \/ x \in X
               /\ OnceAmong(f, X) /\ (x \in X => ~Among(f, X)) => OnceAmong(g, X)
<1> DEFINE g == [f EXCEPT ![s] = Append(f[s], x)]
<1>1. /\ HasIn(Append(f[s], x), X) <=> HasIn(f[s], X) \/ x \in X
      /\ OnceIn(f[s], X) /\ (x \in X => ~HasIn(f[s], X)) => OnceIn(Append(f[s], x), X)
  BY AppendIn
<1>2. g[s] = Append(f[s], x) /\ \A t \in Session \ {s} : g[t] = f[t]
  OBVIOUS
<1> QED BY <1>1, <1>2 DEF Among, OnceAmong

\* ... gives up its first ...
LEMMA TakeAmong ==
    ASSUME NEW S, NEW f \in [Session -> Seq(S)], NEW s \in Session, f[s] # <<>>, NEW X
    PROVE  LET g == [f EXCEPT ![s] = Tail(f[s])]
           IN  /\ Head(f[s]) \in S
               /\ Head(f[s]) \in X => Among(f, X)
               /\ Among(g, X) => Among(f, X)
               /\ OnceAmong(f, X) => OnceAmong(g, X)
               /\ OnceAmong(f, X) /\ Head(f[s]) \in X => ~Among(g, X)
<1> DEFINE g == [f EXCEPT ![s] = Tail(f[s])]
<1>1. /\ Head(f[s]) \in S
      /\ Head(f[s]) \in X => HasIn(f[s], X)
      /\ HasIn(Tail(f[s]), X) => HasIn(f[s], X)
      /\ OnceIn(f[s], X) => OnceIn(Tail(f[s]), X)
      /\ OnceIn(f[s], X) /\ Head(f[s]) \in X => ~HasIn(Tail(f[s]), X)
  BY TakeIn
<1>2. g[s] = Tail(f[s]) /\ \A t \in Session \ {s} : g[t] = f[t]
  OBVIOUS
<1> QED BY <1>1, <1>2 DEF Among, OnceAmong

\* ... or some are emptied.
LEMMA ClearAmong ==
    ASSUME NEW f, NEW g, NEW X, \A t \in Session : g[t] = <<>> \/ g[t] = f[t]
    PROVE  (Among(g, X) => Among(f, X)) /\ (OnceAmong(f, X) => OnceAmong(g, X))
BY EmptyIn DEF Among, OnceAmong

---------------------------------------------------------------------------
(* Types                                                                   *)

\* A command may move to the next point of enqueue with its sender kept.
LEMMA AtType ==
    ASSUME NEW A, NEW T, NEW f \in [Command -> [at : A, tx : T]], NEW c \in Command, NEW a \in A
    PROVE  [f EXCEPT ![c].at = a] \in [Command -> [at : A, tx : T]]
<1>1. f[c] \in [at : A, tx : T]
  OBVIOUS
<1>2. [f[c] EXCEPT !.at = a] \in [at : A, tx : T]
  BY <1>1
<1> QED BY <1>2

\* Every step of the API, the gateway and the agent keeps the types.
LEMMA TypeStep == TypeOK /\ [Next]_vars => TypeOK'
<1> SUFFICES ASSUME TypeOK, [Next]_vars PROVE TypeOK'
  OBVIOUS
<1> USE DEF gateway, streams, agent, history
<1>1. ASSUME NEW c \in Command, Enqueue(c) PROVE TypeOK'
  <2>1. status' = [status EXCEPT ![c] = "pending"] /\ enq' = [enq EXCEPT ![c].at = "lookup"]
    BY <1>1 DEF Enqueue
  <2>2. status' \in [Command -> {"none", "pending", "sent", "completed", "failed"}]
    BY <2>1 DEF TypeOK
  <2>3. enq' \in [Command -> [at : {"none", "lookup", "send", "mark", "done", "dead"},
                             tx : Session \cup {None}]]
    BY <2>1, AtType DEF TypeOK
  <2> QED BY <1>1, <2>2, <2>3 DEF TypeOK, Enqueue
<1>2. ASSUME NEW c \in Command, Lookup(c) PROVE TypeOK'
  BY <1>2 DEF TypeOK, Lookup
<1>3. ASSUME NEW c \in Command, Send(c) PROVE TypeOK'
  <2> DEFINE s == enq[c].tx
  <2>1. CASE srv[s] = "done"
    <3>1. chan' = chan /\ enq' = [enq EXCEPT ![c] = [at |-> "done", tx |-> None]]
      BY <1>3, <2>1 DEF Send
    <3>2. enq' \in [Command -> [at : {"none", "lookup", "send", "mark", "done", "dead"},
                               tx : Session \cup {None}]]
      BY <3>1 DEF TypeOK
    <3> QED BY <1>3, <3>1, <3>2 DEF TypeOK, Send
  <2>2. CASE srv[s] # "done"
    <3>1. s \in Session \cup {None}
      BY DEF TypeOK
    <3>2. \A t \in Session : Append(chan[t], c) \in Seq(Command)
      BY AppendProperties DEF TypeOK
    <3>3. /\ chan' = [chan EXCEPT ![s] = Append(chan[s], c)] /\ enq' = [enq EXCEPT ![c].at = "mark"]
      BY <1>3, <2>2 DEF Send
    <3>4. chan' \in [Session -> Seq(Command)]
      BY <3>2, <3>3 DEF TypeOK
    <3>5. enq' \in [Command -> [at : {"none", "lookup", "send", "mark", "done", "dead"},
                               tx : Session \cup {None}]]
      BY <3>3, AtType DEF TypeOK
    <3> QED BY <1>3, <3>4, <3>5 DEF TypeOK, Send
  <2> QED BY <2>1, <2>2
<1>4. ASSUME NEW c \in Command, Mark(c) PROVE TypeOK'
  BY <1>4 DEF TypeOK, Mark
<1>5. ASSUME NEW s \in Session, Hello(s) PROVE TypeOK'
  <2>1. [type |-> "HelloAck"] \in DownMsg /\ down[s] \in Seq(DownMsg)
    BY DEF DownMsg, TypeOK
  <2>2. Append(down[s], [type |-> "HelloAck"]) \in Seq(DownMsg)
    BY <2>1, AppendProperties
  <2>3. down' \in [Session -> Seq(DownMsg)]
    BY <1>5, <2>2 DEF Hello, TypeOK
  <2> QED BY <1>5, <2>3 DEF TypeOK, Hello
<1>6. ASSUME NEW s \in Session, Inbound(s) PROVE TypeOK'
  <2> DEFINE m == Head(up[s])
  <2>1. m \in UpMsg /\ Tail(up[s]) \in Seq(UpMsg)
    BY <1>6, HeadTailProperties DEF TypeOK, Inbound
  <2>2. up' \in [Session -> Seq(UpMsg)]
    BY <1>6, <2>1 DEF TypeOK, Inbound
  <2>3. CASE m.type = "Heartbeat" /\ liveIso' = RegistryHeartbeat(m.isolated) /\ status' = status
    <3>1. m.isolated \in BOOLEAN
      BY <2>1, <2>3 DEF UpMsg
    <3>2. liveIso' \in BOOLEAN
      BY <2>3, <3>1 DEF RegistryHeartbeat, TypeOK
    <3> QED BY <1>6, <2>2, <2>3, <3>2 DEF TypeOK, Inbound
  <2>4. CASE m.type = "Result" /\ status' = Recorded(m) /\ liveIso' = liveIso
    <3>1. m.cmd \in Command
      BY <2>1, <2>4 DEF UpMsg
    <3>2. status' \in [Command -> {"none", "pending", "sent", "completed", "failed"}]
      BY <2>4, <3>1 DEF Recorded, TypeOK
    <3> QED BY <1>6, <2>2, <2>4, <3>2 DEF TypeOK, Inbound
  <2> QED BY <1>6, <2>3, <2>4 DEF Inbound
<1>7. ASSUME NEW s \in Session, Forward(s) PROVE TypeOK'
  <2> DEFINE m == [type |-> "Command", cmd |-> Head(chan[s])]
  <2>1. Head(chan[s]) \in Command /\ Tail(chan[s]) \in Seq(Command)
    BY <1>7, HeadTailProperties DEF TypeOK, Forward
  <2>2. m \in DownMsg /\ down[s] \in Seq(DownMsg)
    BY <2>1 DEF DownMsg, TypeOK
  <2>3. Append(down[s], m) \in Seq(DownMsg)
    BY <2>2, AppendProperties
  <2>4. chan' \in [Session -> Seq(Command)]
    BY <1>7, <2>1 DEF Forward, Taken, TypeOK
  <2>5. down' \in [Session -> Seq(DownMsg)]
    BY <1>7, <2>3 DEF Forward, TypeOK
  <2> QED BY <1>7, <2>4, <2>5 DEF TypeOK, Forward
<1>8. ASSUME NEW s \in Session, Leave(s) PROVE TypeOK'
  BY <1>8 DEF TypeOK, Leave
<1>9. ASSUME NEW s \in Session, Disconnect(s) PROVE TypeOK'
  BY <1>9 DEF TypeOK, Disconnect, Removed
<1>10. CASE Connect
  <2>1. opened + 1 \in Session
    BY <1>10, EdrBoundAssumption DEF TypeOK, Connect, Session
  <2> QED BY <1>10, <2>1 DEF TypeOK, Connect
<1>11. CASE StreamBreak \/ StreamEnd
  <2>1. LeaveStream
    BY <1>11 DEF StreamBreak, StreamEnd
  <2>2. greeted' = FALSE /\ down' = [down EXCEPT ![sess] = <<>>]
    BY <2>1 DEF LeaveStream
  <2>3. greeted' \in BOOLEAN
    BY <2>2, Zenon
  <2>4. down' \in [Session -> Seq(DownMsg)]
    <3>1. <<>> \in Seq(DownMsg) /\ down \in [Session -> Seq(DownMsg)]
      BY DEF TypeOK
    <3> QED BY <2>2, <3>1
  <2> QED BY <2>1, <2>3, <2>4 DEF TypeOK, LeaveStream
<1>12. CASE Heartbeat
  <2> DEFINE m == [type |-> "Heartbeat", isolated |-> aIso]
  <2>1. sess \in Session /\ m \in UpMsg
    BY <1>12 DEF TypeOK, Heartbeat, UpMsg
  <2>2. Append(up[sess], m) \in Seq(UpMsg)
    BY <2>1, AppendProperties DEF TypeOK
  <2>3. up' \in [Session -> Seq(UpMsg)]
    BY <1>12, <2>2 DEF TypeOK, Heartbeat
  <2> QED BY <1>12, <2>3 DEF TypeOK, Heartbeat
<1>13. CASE Downstream
  <2> DEFINE m == Head(down[sess])
  <2>0. sess \in Session
    BY <1>13 DEF TypeOK, Downstream
  <2>1. m \in DownMsg /\ Tail(down[sess]) \in Seq(DownMsg)
    BY <1>13, <2>0, HeadTailProperties DEF TypeOK, Downstream
  <2>2. down' \in [Session -> Seq(DownMsg)]
    BY <1>13, <2>1 DEF TypeOK, Downstream
  <2>3. CASE m.type = "HelloAck" /\ greeted' = TRUE /\ UNCHANGED <<task, runs, apart>>
    BY <1>13, <2>2, <2>3 DEF TypeOK, Downstream
  <2>4. CASE /\ m.type = "Command" /\ greeted' = greeted
             /\ task' = [task EXCEPT ![m.cmd] = [at |-> "run", from |-> sess, ok |-> FALSE]]
             /\ runs' = [runs EXCEPT ![m.cmd] = @ + 1]
             /\ apart' \in {apart, apart \cup {"overlap"}}
    <3>1. m.cmd \in Command
      BY <2>1, <2>4 DEF DownMsg
    <3> HIDE DEF m
    <3>2. task' \in [Command -> [at : {"none", "run", "report"}, from : Session \cup {None},
                                ok : BOOLEAN]]
      BY <2>0, <2>4, <3>1 DEF TypeOK
    <3>3. runs' \in [Command -> Nat]
      BY <2>4, <3>1 DEF TypeOK
    <3> QED BY <1>13, <2>2, <2>4, <3>2, <3>3 DEF TypeOK, Downstream
  <2> QED BY <1>13, <2>3, <2>4 DEF Downstream
<1>14. ASSUME NEW c \in Command, NEW ok \in BOOLEAN, NEW took \in BOOLEAN, Act(c, ok, took)
       PROVE  TypeOK'
  <2>1. /\ task' = [task EXCEPT ![c] = [at |-> "report", from |-> task[c].from, ok |-> ok]]
        /\ outcome' = [outcome EXCEPT ![c] = @ \cup {ok}]
        /\ firewall' = (c \in Isolate) \/ firewall' = firewall
        /\ apart' \in {apart, apart \cup {"claimed"}, {}}
    BY <1>14 DEF Act, Apart
  <2>2. task' \in [Command -> [at : {"none", "run", "report"}, from : Session \cup {None},
                              ok : BOOLEAN]]
    BY <2>1 DEF TypeOK
  <2>3. outcome' \in [Command -> SUBSET BOOLEAN]
    BY <2>1 DEF TypeOK
  <2>4. firewall' \in BOOLEAN
    <3>1. firewall \in BOOLEAN /\ (c \in Isolate) \in BOOLEAN
      BY DEF TypeOK
    <3> QED BY <2>1, <3>1, Zenon
  <2>5. apart' \in SUBSET {"restart", "overlap", "claimed"}
    BY <2>1 DEF TypeOK
  <2> QED BY <1>14, <2>2, <2>3, <2>4, <2>5 DEF TypeOK, Act
<1>15. ASSUME NEW c \in Command, Report(c) PROVE TypeOK'
  <2> DEFINE s == task[c].from
             m == [type |-> "Result", cmd |-> c, ok |-> task[c].ok]
  <2>1. m \in UpMsg /\ s \in Session \cup {None}
    BY DEF TypeOK, UpMsg
  <2>2. \A t \in Session : Append(up[t], m) \in Seq(UpMsg)
    BY <2>1, AppendProperties DEF TypeOK
  <2>3. up' = up \/ up' = [up EXCEPT ![s] = Append(up[s], m)]
    BY <1>15 DEF Report
  <2> HIDE DEF m
  <2>4. up' \in [Session -> Seq(UpMsg)]
    <3>1. CASE up' = up
      BY <3>1 DEF TypeOK
    <3>2. CASE up' = [up EXCEPT ![s] = Append(up[s], m)]
      BY <2>2, <3>2 DEF TypeOK
    <3> QED BY <2>3, <3>1, <3>2
  <2>5. task' \in [Command -> [at : {"none", "run", "report"}, from : Session \cup {None},
                              ok : BOOLEAN]]
    BY <1>15 DEF TypeOK, Report, NoTask
  <2>6. aIso' \in BOOLEAN
    <3>1. aIso' = (c \in Isolate) \/ aIso' = aIso
      BY <1>15 DEF Report, Flag
    <3>2. aIso \in BOOLEAN /\ (c \in Isolate) \in BOOLEAN
      BY DEF TypeOK
    <3> QED BY <3>1, <3>2, Zenon
  <2> QED BY <1>15, <2>4, <2>5, <2>6 DEF TypeOK, Report
<1>16. CASE GatewayRestart
  <2>1. liveIso' = FALSE
    BY <1>16 DEF GatewayRestart
  <2>2. liveIso' \in BOOLEAN
    BY <2>1, Zenon
  <2> QED BY <1>16, <2>2 DEF TypeOK, GatewayRestart
<1>17. CASE AgentRestart
  <2>1. NoTask \in [at : {"none", "run", "report"}, from : Session \cup {None}, ok : BOOLEAN]
    BY DEF NoTask
  <2>2. gone' \in SUBSET Session
    BY <1>17 DEF TypeOK, AgentRestart
  <2>3. task' \in [Command -> [at : {"none", "run", "report"}, from : Session \cup {None},
                              ok : BOOLEAN]]
    <3>1. task' = [c \in Command |-> NoTask]
      BY <1>17 DEF AgentRestart
    <3> QED BY <2>1, <3>1
  <2>4. /\ sess' = None /\ greeted' = FALSE /\ aIso' = FALSE /\ restarts' = restarts + 1
        /\ UNCHANGED <<live, liveIso, recIso, srv, chan, status, enq, up, firewall, opened,
                       runs, outcome>>
        /\ apart' = IF firewall THEN {"restart"} ELSE {}
    BY <1>17 DEF AgentRestart
  <2>5. sess' \in Session \cup {None} /\ restarts' \in Nat
    BY <2>4 DEF TypeOK
  <2>6. greeted' \in BOOLEAN /\ aIso' \in BOOLEAN
    BY <2>4, Zenon
  <2>7. down' \in [Session -> Seq(DownMsg)]
    BY <1>17 DEF TypeOK, AgentRestart
  <2> QED BY <2>2, <2>3, <2>4, <2>5, <2>6, <2>7 DEF TypeOK
<1>18. CASE UNCHANGED vars
  BY <1>18 DEF TypeOK, vars
<1> QED BY <1>1, <1>2, <1>3, <1>4, <1>5, <1>6, <1>7, <1>8, <1>9, <1>10, <1>11, <1>12, <1>13, <1>14,
           <1>15, <1>16, <1>17, <1>18 DEF Next, Api, Serve, Control, Execute
---------------------------------------------------------------------------
(* One place, one result                                                   *)

\* An order and a result are of their own command only.
LEMMA FramesOf ==
    ASSUME NEW c \in Command, NEW d \in Command, NEW ok \in BOOLEAN, NEW b \in BOOLEAN
    PROVE  /\ [type |-> "HelloAck"] \notin Orders(d)
           /\ [type |-> "Command", cmd |-> c] \in Orders(d) <=> c = d
           /\ [type |-> "Heartbeat", isolated |-> b] \notin Results(d)
           /\ [type |-> "Result", cmd |-> c, ok |-> b] \in Results(d) <=> c = d
           /\ [type |-> "Result", cmd |-> c, ok |-> b] \in ResultsOf(d, ok) <=> c = d /\ b = ok
           /\ \A m \in UpMsg : m \in ResultsOf(d, ok) => m \in Results(d)
<1>1. [type |-> "HelloAck"] \notin Orders(d)
  BY DEF Orders
<1>2. [type |-> "Command", cmd |-> c] \in Orders(d) <=> c = d
  BY DEF Orders, DownMsg
<1>3. [type |-> "Heartbeat", isolated |-> b] \notin Results(d)
  BY DEF Results
<1> DEFINE m == [type |-> "Result", cmd |-> c, ok |-> b]
<1>4. m \in UpMsg /\ m.type = "Result" /\ m.cmd = c /\ m.ok = b
  BY DEF UpMsg
<1> HIDE DEF m
<1>5. m \in Results(d) <=> c = d
  BY <1>4 DEF Results
<1>6. m \in ResultsOf(d, ok) <=> c = d /\ b = ok
  BY <1>4, <1>5 DEF ResultsOf
<1>7. \A u \in UpMsg : u \in ResultsOf(d, ok) => u \in Results(d)
  BY DEF ResultsOf
<1> QED BY <1>1, <1>2, <1>3, <1>5, <1>6, <1>7 DEF m

\* Every step keeps a command in one place, and its execution in one.
LEMMA PlaceStep == TypeOK /\ Placed /\ [Next]_vars => Placed'
<1> SUFFICES ASSUME TypeOK, Placed, [Next]_vars PROVE Placed'
  OBVIOUS
<1> USE DEF gateway, streams, agent, history
<1>1. ASSUME NEW c \in Command, Enqueue(c) PROVE Placed'
  <2>1. \A d \in Command : IF d = c THEN enq'[d].at = "lookup" /\ status'[d] = "pending"
                                    ELSE enq'[d] = enq[d] /\ status'[d] = status[d]
    BY <1>1 DEF Enqueue, TypeOK
  <2>2. enq[c].at = "none" /\ UNCHANGED <<chan, up, down, task, runs, outcome>>
    BY <1>1 DEF Enqueue
  <2> QED BY <2>1, <2>2 DEF Placed, Unique, OnePlace, OneResult, Truthful
<1>2. ASSUME NEW c \in Command, Lookup(c) PROVE Placed'
  <2>1. \A d \in Command : IF d = c THEN enq'[d].at \in {"done", "send"} ELSE enq'[d] = enq[d]
    BY <1>2 DEF Lookup, TypeOK
  <2>2. enq[c].at = "lookup" /\ UNCHANGED <<chan, up, down, status, task, runs, outcome>>
    BY <1>2 DEF Lookup
  <2> QED BY <2>1, <2>2 DEF Placed, Unique, OnePlace, OneResult, Truthful
<1>3. ASSUME NEW c \in Command, Send(c) PROVE Placed'
  <2> DEFINE s == enq[c].tx
  <2>1. CASE srv[s] = "done"
    <3>1. \A d \in Command : IF d = c THEN enq'[d].at = "done" ELSE enq'[d] = enq[d]
      BY <1>3, <2>1 DEF Send, TypeOK
    <3>2. enq[c].at = "send" /\ UNCHANGED <<chan, up, down, status, task, runs, outcome>>
      BY <1>3, <2>1 DEF Send
    <3> QED BY <3>1, <3>2 DEF Placed, Unique, OnePlace, OneResult, Truthful
  <2>2. CASE srv[s] # "done"
    <3>1. /\ chan' = [chan EXCEPT ![s] = Append(chan[s], c)]
          /\ enq' = [enq EXCEPT ![c].at = "mark"]
          /\ enq[c].at = "send"
          /\ UNCHANGED <<up, down, status, task, runs, outcome>>
      BY <1>3, <2>2 DEF Send
    <3>2. \A d \in Command : /\ Among(chan', {d}) => Among(chan, {d}) \/ c = d
                             /\ OnceAmong(chan, {d}) /\ (c = d => ~Among(chan, {d}))
                                    => OnceAmong(chan', {d})
      <4>1. CASE s \in Session
        <5>1. \A X : /\ Among(chan', X) <=> Among(chan, X) \/ c \in X
                     /\ OnceAmong(chan, X) /\ (c \in X => ~Among(chan, X)) => OnceAmong(chan', X)
          <6> HIDE DEF s
          <6> QED BY <3>1, <4>1, PutAmong DEF TypeOK
        <5> QED BY <5>1
      <4>2. CASE s \notin Session
        <5>1. chan' = chan
          BY <3>1, <4>2 DEF TypeOK
        <5> QED BY <5>1
      <4> QED BY <4>1, <4>2
    <3>3. \A d \in Command : IF d = c THEN enq'[d].at = "mark" ELSE enq'[d] = enq[d]
      BY <3>1 DEF TypeOK
    <3>4. Unique'
      BY <3>1, <3>2 DEF Placed, Unique, OnePlace
    <3>5. OnePlace'
      BY <3>1, <3>2, <3>3 DEF Placed, OnePlace
    <3> QED BY <3>1, <3>4, <3>5 DEF Placed, OneResult, Truthful
  <2> QED BY <2>1, <2>2
<1>4. ASSUME NEW c \in Command, Mark(c) PROVE Placed'
  <2>1. \A d \in Command : IF d = c THEN enq'[d].at = "done" /\ status'[d] = "sent"
                                    ELSE enq'[d] = enq[d] /\ status'[d] = status[d]
    BY <1>4 DEF Mark, TypeOK
  <2>2. enq[c].at = "mark" /\ UNCHANGED <<chan, up, down, task, runs, outcome>>
    BY <1>4 DEF Mark
  <2> QED BY <2>1, <2>2 DEF Placed, Unique, OnePlace, OneResult, Truthful
<1>5. ASSUME NEW s \in Session, Hello(s) PROVE Placed'
  <2>1. down' = down \/ down' = [down EXCEPT ![s] = Append(down[s], [type |-> "HelloAck"])]
    BY <1>5 DEF Hello
  <2>2. ASSUME NEW d \in Command
        PROVE  /\ Among(down', Orders(d)) => Among(down, Orders(d))
               /\ OnceAmong(down, Orders(d)) => OnceAmong(down', Orders(d))
    <3>1. [type |-> "HelloAck"] \in DownMsg /\ [type |-> "HelloAck"] \notin Orders(d)
      BY DEF DownMsg, Orders
    <3>2. CASE down' = [down EXCEPT ![s] = Append(down[s], [type |-> "HelloAck"])]
      <4> DEFINE m == [type |-> "HelloAck"]
      <4> HIDE DEF m
      <4>1. \A X : /\ Among(down', X) <=> Among(down, X) \/ m \in X
                   /\ OnceAmong(down, X) /\ (m \in X => ~Among(down, X)) => OnceAmong(down', X)
        <5>1. m \in DownMsg /\ down' = [down EXCEPT ![s] = Append(down[s], m)]
          BY <3>1, <3>2 DEF m
        <5> QED BY <5>1, PutAmong DEF TypeOK
      <4> QED BY <3>1, <4>1 DEF m
    <3> QED BY <2>1, <3>2
  <2>3. UNCHANGED <<chan, up, enq, status, task, runs, outcome>>
    BY <1>5 DEF Hello
  <2> QED BY <2>2, <2>3 DEF Placed, Unique, OnePlace, OneResult, Truthful
<1>6. ASSUME NEW s \in Session, Inbound(s) PROVE Placed'
  <2> DEFINE m == Head(up[s])
  <2>1. /\ up' = [up EXCEPT ![s] = Tail(up[s])]
        /\ up[s] # <<>>
        /\ UNCHANGED <<chan, down, enq, task, runs, outcome>>
    BY <1>6 DEF Inbound
  <2>2. /\ m \in UpMsg
        /\ \A X : /\ m \in X => Among(up, X)
                  /\ Among(up', X) => Among(up, X)
                  /\ OnceAmong(up, X) => OnceAmong(up', X)
                  /\ OnceAmong(up, X) /\ m \in X => ~Among(up', X)
    BY <2>1, TakeAmong DEF TypeOK
  <2>3. CASE status' = status
    BY <2>1, <2>2, <2>3 DEF Placed, Unique, OnePlace, OneResult, Truthful
  <2>4. CASE m.type = "Result" /\ status' = Recorded(m)
    <3>1. m.cmd \in Command /\ m.ok \in BOOLEAN
      BY <2>2, <2>4 DEF UpMsg
    <3>2. m \in Results(m.cmd) /\ m \in ResultsOf(m.cmd, m.ok)
      BY <2>2, <2>4 DEF Results, ResultsOf
    <3>3. \A d \in Command :
              status'[d] = IF d = m.cmd THEN IF m.ok THEN "completed" ELSE "failed" ELSE status[d]
      BY <2>4, <3>1 DEF Recorded, TypeOK
    <3> HIDE DEF m
    <3>4. Unique'
      BY <2>1, <2>2 DEF Placed, Unique
    <3>5. OnePlace'
      BY <2>1, <2>2, <3>1, <3>3 DEF Placed, OnePlace
    <3>6. OneResult'
      BY <2>1, <2>2, <3>1, <3>2, <3>3 DEF Placed, Unique, OneResult
    <3>7. Truthful'
      BY <2>1, <2>2, <3>1, <3>2, <3>3 DEF Placed, Truthful
    <3> QED BY <3>4, <3>5, <3>6, <3>7 DEF Placed
  <2> QED BY <1>6, <2>3, <2>4 DEF Inbound
<1>7. ASSUME NEW s \in Session, Forward(s) PROVE Placed'
  <2> DEFINE c == Head(chan[s])
             m == [type |-> "Command", cmd |-> c]
  <2>1. /\ chan' = [chan EXCEPT ![s] = Tail(chan[s])]
        /\ chan[s] # <<>>
        /\ down' = down \/ down' = [down EXCEPT ![s] = Append(down[s], m)]
        /\ UNCHANGED <<up, enq, status, task, runs, outcome>>
    BY <1>7 DEF Forward, Taken
  <2>2. /\ c \in Command
        /\ \A d \in Command : /\ c = d => Among(chan, {d})
                              /\ Among(chan', {d}) => Among(chan, {d})
                              /\ OnceAmong(chan, {d}) => OnceAmong(chan', {d})
                              /\ OnceAmong(chan, {d}) /\ c = d => ~Among(chan', {d})
    <3>1. chan \in [Session -> Seq(Command)]
      BY DEF TypeOK
    <3>2. \A X : /\ c \in Command
                 /\ c \in X => Among(chan, X)
                 /\ Among(chan', X) => Among(chan, X)
                 /\ OnceAmong(chan, X) => OnceAmong(chan', X)
                 /\ OnceAmong(chan, X) /\ c \in X => ~Among(chan', X)
      BY <2>1, <3>1, TakeAmong
    <3> HIDE DEF c
    <3> QED BY <3>2
  <2>3. m \in DownMsg /\ \A d \in Command : m \in Orders(d) <=> c = d
    BY <2>2 DEF DownMsg, Orders
  <2> HIDE DEF c, m
  <2>4. \A d \in Command : /\ Among(down', Orders(d)) => Among(down, Orders(d)) \/ c = d
                           /\ OnceAmong(down, Orders(d)) /\ (c = d => ~Among(down, Orders(d)))
                                  => OnceAmong(down', Orders(d))
    <3> TAKE d \in Command
    <3>1. CASE down' = down
      BY <3>1
    <3>2. CASE down' = [down EXCEPT ![s] = Append(down[s], m)]
      <4>1. \A X : /\ Among(down', X) <=> Among(down, X) \/ m \in X
                   /\ OnceAmong(down, X) /\ (m \in X => ~Among(down, X)) => OnceAmong(down', X)
        BY <2>3, <3>2, PutAmong DEF TypeOK
      <4> QED BY <2>3, <4>1
    <3> QED BY <2>1, <3>1, <3>2
  <2>5. Unique' /\ OnePlace'
    BY <2>1, <2>2, <2>4 DEF Placed, Unique, OnePlace
  <2> QED BY <2>1, <2>5 DEF Placed, OneResult, Truthful
<1>8. ASSUME NEW s \in Session, Leave(s) PROVE Placed'
  BY <1>8 DEF Leave, Placed, Unique, OnePlace, OneResult, Truthful
<1>9. ASSUME NEW s \in Session, Disconnect(s) PROVE Placed'
  <2>1. /\ chan' = [chan EXCEPT ![s] = <<>>] /\ up' = [up EXCEPT ![s] = <<>>]
        /\ UNCHANGED <<down, enq, status, task, runs, outcome>>
    BY <1>9 DEF Disconnect
  <2>2. \A t \in Session : (chan'[t] = <<>> \/ chan'[t] = chan[t]) /\ (up'[t] = <<>> \/ up'[t] = up[t])
    BY <2>1 DEF TypeOK
  <2>3. ASSUME NEW d \in Command
        PROVE  /\ Among(chan', {d}) => Among(chan, {d})
               /\ OnceAmong(chan, {d}) => OnceAmong(chan', {d})
               /\ Among(up', Results(d)) => Among(up, Results(d))
               /\ OnceAmong(up, Results(d)) => OnceAmong(up', Results(d))
               /\ \A ok \in BOOLEAN : Among(up', ResultsOf(d, ok)) => Among(up, ResultsOf(d, ok))
    BY <2>2, ClearAmong
  <2>4. Unique' /\ OnePlace'
    BY <2>1, <2>3 DEF Placed, Unique, OnePlace
  <2>5. OneResult' /\ Truthful'
    BY <2>1, <2>3 DEF Placed, OneResult, Truthful
  <2> QED BY <2>4, <2>5 DEF Placed
<1>10. CASE Connect
  BY <1>10 DEF Connect, Placed, Unique, OnePlace, OneResult, Truthful
<1>11. CASE StreamBreak \/ StreamEnd
  <2>1. /\ down' = [down EXCEPT ![sess] = <<>>]
        /\ UNCHANGED <<chan, up, enq, status, task, runs, outcome>>
    BY <1>11 DEF StreamBreak, StreamEnd, LeaveStream
  <2>2. \A t \in Session : down'[t] = <<>> \/ down'[t] = down[t]
    BY <2>1 DEF TypeOK
  <2>3. \A d \in Command : /\ Among(down', Orders(d)) => Among(down, Orders(d))
                           /\ OnceAmong(down, Orders(d)) => OnceAmong(down', Orders(d))
    BY <2>2, ClearAmong
  <2>4. Unique' /\ OnePlace'
    BY <2>1, <2>3 DEF Placed, Unique, OnePlace
  <2>5. OneResult' /\ Truthful'
    BY <2>1 DEF Placed, OneResult, Truthful
  <2> QED BY <2>4, <2>5 DEF Placed
<1>12. CASE Heartbeat
  <2> DEFINE m == [type |-> "Heartbeat", isolated |-> aIso]
  <2>1. sess \in Session /\ m \in UpMsg /\ aIso \in BOOLEAN
    BY <1>12 DEF TypeOK, Heartbeat, UpMsg
  <2>2. up' = [up EXCEPT ![sess] = Append(up[sess], m)]
    BY <1>12 DEF Heartbeat
  <2>3. ASSUME NEW d \in Command PROVE m \notin Results(d) /\ \A ok \in BOOLEAN : m \notin ResultsOf(d, ok)
    BY DEF Results, ResultsOf
  <2> HIDE DEF m
  <2>4. \A d \in Command :
            /\ Among(up', Results(d)) <=> Among(up, Results(d))
            /\ OnceAmong(up, Results(d)) => OnceAmong(up', Results(d))
            /\ \A ok \in BOOLEAN : Among(up', ResultsOf(d, ok)) <=> Among(up, ResultsOf(d, ok))
    <3>1. \A X : /\ Among(up', X) <=> Among(up, X) \/ m \in X
                 /\ OnceAmong(up, X) /\ (m \in X => ~Among(up, X)) => OnceAmong(up', X)
      BY <2>1, <2>2, PutAmong DEF TypeOK
    <3> QED BY <2>3, <3>1
  <2>5. UNCHANGED <<chan, down, enq, status, task, runs, outcome>>
    BY <1>12 DEF Heartbeat
  <2> QED BY <2>4, <2>5 DEF Placed, Unique, OnePlace, OneResult, Truthful
<1>13. CASE Downstream
  <2> DEFINE m == Head(down[sess])
  <2>1. /\ sess \in Session /\ down[sess] # <<>>
        /\ down' = [down EXCEPT ![sess] = Tail(down[sess])]
        /\ UNCHANGED <<chan, up, enq, status, outcome>>
    BY <1>13 DEF Downstream, TypeOK
  <2>2. /\ m \in DownMsg
        /\ \A X : /\ m \in X => Among(down, X)
                  /\ Among(down', X) => Among(down, X)
                  /\ OnceAmong(down, X) => OnceAmong(down', X)
                  /\ OnceAmong(down, X) /\ m \in X => ~Among(down', X)
    BY <2>1, TakeAmong DEF TypeOK
  <2>3. CASE UNCHANGED <<task, runs>>
    BY <2>1, <2>2, <2>3 DEF Placed, Unique, OnePlace, OneResult, Truthful
  <2>4. CASE /\ m.type = "Command"
             /\ task' = [task EXCEPT ![m.cmd] = [at |-> "run", from |-> sess, ok |-> FALSE]]
             /\ runs' = [runs EXCEPT ![m.cmd] = @ + 1]
    <3>1. m.cmd \in Command
      BY <2>2, <2>4 DEF DownMsg
    <3>2. m \in Orders(m.cmd)
      BY <2>2, <2>4 DEF Orders
    <3>3. \A d \in Command : IF d = m.cmd THEN task'[d].at = "run" /\ runs'[d] = runs[d] + 1
                                          ELSE task'[d] = task[d] /\ runs'[d] = runs[d]
      BY <2>4, <3>1 DEF TypeOK
    <3>4. \A d \in Command : runs[d] \in Nat
      BY DEF TypeOK
    <3> HIDE DEF m
    <3>5. Unique'
      BY <2>1, <2>2 DEF Placed, Unique
    <3>6. /\ runs[m.cmd] = 0 /\ ~Among(down', Orders(m.cmd)) /\ ~Among(chan, {m.cmd})
          /\ enq[m.cmd].at \notin {"none", "lookup", "send"}
          /\ ~(enq[m.cmd].at = "done" /\ status[m.cmd] = "pending")
      BY <2>2, <3>1, <3>2 DEF Placed, Unique, OnePlace
    <3>7. OnePlace'
      <4> SUFFICES ASSUME NEW d \in Command
                   PROVE  /\ \/ enq'[d].at \in {"none", "lookup", "send"}
                             \/ enq'[d].at = "done" /\ status'[d] = "pending"
                             => runs'[d] = 0 /\ ~Among(chan', {d}) /\ ~Among(down', Orders(d))
                          /\ Among(chan', {d}) => runs'[d] = 0 /\ ~Among(down', Orders(d))
                          /\ Among(down', Orders(d)) => runs'[d] = 0
                          /\ runs'[d] <= 1
        BY DEF OnePlace
      <4>1. CASE d # m.cmd
        BY <2>1, <2>2, <3>3, <4>1 DEF Placed, OnePlace
      <4>2. CASE d = m.cmd
        <5>1. runs'[d] = 1
          BY <3>1, <3>3, <3>6, <4>2
        <5> QED BY <2>1, <3>6, <4>2, <5>1
      <4> QED BY <4>1, <4>2
    <3>8. OneResult'
      <4>1. ASSUME NEW d \in Command, d # m.cmd
            PROVE  /\ runs'[d] = 0 \/ task'[d].at # "none" =>
                          status'[d] \notin {"completed", "failed"} /\ ~Among(up', Results(d))
                   /\ runs'[d] = 0 => task'[d].at = "none"
                   /\ Among(up', Results(d)) => status'[d] \notin {"completed", "failed"}
        BY <2>1, <3>3, <4>1 DEF Placed, OneResult
      <4>2. runs'[m.cmd] = 1
        BY <3>1, <3>3, <3>6
      <4>3. status[m.cmd] \notin {"completed", "failed"} /\ ~Among(up, Results(m.cmd))
        BY <3>1, <3>6 DEF Placed, OneResult
      <4> QED BY <2>1, <4>1, <4>2, <4>3 DEF OneResult
    <3>9. Truthful'
      BY <2>1, <3>3 DEF Placed, Truthful
    <3> QED BY <3>5, <3>7, <3>8, <3>9 DEF Placed
  <2> QED BY <1>13, <2>3, <2>4 DEF Downstream
<1>14. ASSUME NEW c \in Command, NEW ok \in BOOLEAN, NEW took \in BOOLEAN, Act(c, ok, took)
       PROVE  Placed'
  <2>1. /\ task[c].at = "run"
        /\ task' = [task EXCEPT ![c] = [at |-> "report", from |-> task[c].from, ok |-> ok]]
        /\ outcome' = [outcome EXCEPT ![c] = @ \cup {ok}]
        /\ UNCHANGED <<chan, down, up, enq, status, runs>>
    BY <1>14 DEF Act
  <2>2. \A d \in Command : IF d = c THEN /\ task'[d].at = "report" /\ task'[d].ok = ok
                                         /\ outcome'[d] = outcome[d] \cup {ok}
                                    ELSE task'[d] = task[d] /\ outcome'[d] = outcome[d]
    BY <2>1 DEF TypeOK
  <2>3. Unique' /\ OnePlace'
    BY <2>1 DEF Placed, Unique, OnePlace
  <2>4. OneResult'
    BY <2>1, <2>2 DEF Placed, OneResult
  <2>5. Truthful'
    BY <2>1, <2>2 DEF Placed, Truthful
  <2> QED BY <2>3, <2>4, <2>5 DEF Placed
<1>15. ASSUME NEW c \in Command, Report(c) PROVE Placed'
  <2> DEFINE s == task[c].from
             m == [type |-> "Result", cmd |-> c, ok |-> task[c].ok]
  <2>1. /\ task[c].at = "report"
        /\ task' = [task EXCEPT ![c] = NoTask]
        /\ up' = up \/ up' = [up EXCEPT ![s] = Append(up[s], m)]
        /\ UNCHANGED <<chan, down, enq, status, runs, outcome>>
    BY <1>15 DEF Report
  <2>2. m \in UpMsg /\ task[c].ok \in BOOLEAN
    BY DEF TypeOK, UpMsg
  <2>3. \A d \in Command : /\ m \in Results(d) <=> c = d
                           /\ \A ok \in BOOLEAN : m \in ResultsOf(d, ok) <=> c = d /\ ok = task[c].ok
    BY <2>2, FramesOf
  <2>4. \A d \in Command : IF d = c THEN task'[d].at = "none" ELSE task'[d] = task[d]
    BY <2>1 DEF TypeOK, NoTask
  <2> HIDE DEF m
  <2>5. \A d \in Command :
            /\ Among(up', Results(d)) => Among(up, Results(d)) \/ c = d
            /\ OnceAmong(up, Results(d)) /\ (c = d => ~Among(up, Results(d)))
                   => OnceAmong(up', Results(d))
            /\ \A ok \in BOOLEAN : Among(up', ResultsOf(d, ok)) =>
                   Among(up, ResultsOf(d, ok)) \/ (c = d /\ ok = task[c].ok)
    <3>1. CASE up' = up
      BY <3>1
    <3>2. CASE s \in Session /\ up' = [up EXCEPT ![s] = Append(up[s], m)]
      <4>1. \A X : /\ Among(up', X) <=> Among(up, X) \/ m \in X
                   /\ OnceAmong(up, X) /\ (m \in X => ~Among(up, X)) => OnceAmong(up', X)
        <5> HIDE DEF s
        <5> QED BY <2>2, <3>2, PutAmong DEF TypeOK
      <4> QED BY <2>3, <4>1
    <3>3. CASE s \notin Session
      BY <2>1, <3>1, <3>3 DEF TypeOK
    <3> QED BY <2>1, <3>1, <3>2, <3>3
  <2>6. Unique' /\ OnePlace'
    BY <2>1, <2>5 DEF Placed, Unique, OnePlace, OneResult
  <2>7. OneResult'
    BY <2>1, <2>4, <2>5 DEF Placed, OneResult
  <2>8. Truthful'
    BY <2>1, <2>4, <2>5 DEF Placed, Truthful
  <2> QED BY <2>6, <2>7, <2>8 DEF Placed
<1>16. CASE GatewayRestart
  <2>1. /\ chan' = [s \in Session |-> <<>>] /\ up' = [s \in Session |-> <<>>]
        /\ UNCHANGED <<down, status, task, runs, outcome>>
    BY <1>16 DEF GatewayRestart
  <2>2. \A d \in Command : enq'[d] = enq[d] \/ enq'[d].at = "dead"
    BY <1>16 DEF GatewayRestart
  <2>3. \A X : ~Among(chan', X) /\ OnceAmong(chan', X) /\ ~Among(up', X) /\ OnceAmong(up', X)
    BY <2>1, EmptyIn DEF Among, OnceAmong
  <2> QED BY <2>1, <2>2, <2>3 DEF Placed, Unique, OnePlace, OneResult, Truthful
<1>17. CASE AgentRestart
  <2>1. \A d \in Command : task'[d].at = "none"
    BY <1>17 DEF AgentRestart, NoTask
  <2>2. UNCHANGED <<chan, up, enq, status, runs, outcome>>
    BY <1>17 DEF AgentRestart
  <2>3. \A t \in Session : down'[t] = <<>> \/ down'[t] = down[t]
    BY <1>17 DEF AgentRestart
  <2>4. \A d \in Command : /\ Among(down', Orders(d)) => Among(down, Orders(d))
                           /\ OnceAmong(down, Orders(d)) => OnceAmong(down', Orders(d))
    BY <2>3, ClearAmong
  <2>5. Unique' /\ OnePlace'
    BY <2>2, <2>4 DEF Placed, Unique, OnePlace
  <2>6. OneResult' /\ Truthful'
    BY <2>1, <2>2 DEF Placed, OneResult, Truthful
  <2> QED BY <2>5, <2>6 DEF Placed
<1>18. CASE UNCHANGED vars
  BY <1>18 DEF vars, Placed, Unique, OnePlace, OneResult, Truthful
<1> QED BY <1>1, <1>2, <1>3, <1>4, <1>5, <1>6, <1>7, <1>8, <1>9, <1>10, <1>11, <1>12, <1>13, <1>14,
           <1>15, <1>16, <1>17, <1>18 DEF Next, Api, Serve, Control, Execute
---------------------------------------------------------------------------
(* The registry, the flag and the audit trail                              *)

\* Every step keeps a session task behind the registry's entry.
LEMMA OpenedStep == TypeOK /\ Opened /\ [Next]_vars => Opened'
<1> SUFFICES ASSUME TypeOK, Opened, [Next]_vars PROVE Opened'
  OBVIOUS
<1> USE DEF gateway, streams, agent, history
<1>1. CASE UNCHANGED <<live, srv, opened>>
  BY <1>1 DEF Opened, LiveServed
<1>2. ASSUME NEW s \in Session, Hello(s) PROVE Opened'
  BY <1>2 DEF TypeOK, Opened, LiveServed, Hello, None
<1>3. ASSUME NEW s \in Session, Forward(s) PROVE Opened'
  BY <1>3 DEF TypeOK, Opened, LiveServed, Forward, None
<1>4. ASSUME NEW s \in Session, Leave(s) PROVE Opened'
  BY <1>4 DEF TypeOK, Opened, LiveServed, Leave, None
<1>5. ASSUME NEW s \in Session, Disconnect(s) PROVE Opened'
  BY <1>5 DEF TypeOK, Opened, LiveServed, Disconnect, Removed
<1>6. CASE Connect
  <2>1. opened \in Nat /\ opened + 1 \in Session
    BY <1>6, EdrBoundAssumption DEF TypeOK, Connect, Session
  <2>2. /\ srv' = [srv EXCEPT ![opened + 1] = "hello"]
        /\ opened' = opened + 1 /\ live' = live
    BY <1>6 DEF Connect
  <2>3. srv[opened + 1] = "unborn"
    BY <2>1 DEF Opened
  <2>4. \A s \in Session : s > opened + 1 => srv'[s] = "unborn"
    BY <2>1, <2>2 DEF TypeOK, Opened, Session
  <2>5. live # None => srv'[live] \in {"up", "closing"}
    BY <2>1, <2>2, <2>3 DEF TypeOK, Opened, LiveServed
  <2> QED BY <2>2, <2>4, <2>5 DEF Opened, LiveServed
<1>7. CASE GatewayRestart
  BY <1>7 DEF TypeOK, Opened, LiveServed, GatewayRestart
<1>8. ASSUME NEW c \in Command, Enqueue(c) \/ Lookup(c) \/ Send(c) \/ Mark(c) PROVE Opened'
  BY <1>1, <1>8 DEF Enqueue, Lookup, Send, Mark
<1>9. ASSUME NEW s \in Session, Inbound(s) PROVE Opened'
  BY <1>1, <1>9 DEF Inbound
<1>10. CASE StreamBreak \/ StreamEnd \/ Heartbeat \/ Downstream
  BY <1>1, <1>10 DEF StreamBreak, StreamEnd, LeaveStream, Heartbeat, Downstream
<1>11. CASE Execute
  BY <1>1, <1>11 DEF Execute, Act, Report
<1>12. CASE AgentRestart
  BY <1>1, <1>12 DEF AgentRestart
<1>13. CASE UNCHANGED vars
  BY <1>1, <1>13 DEF vars
<1> QED BY <1>2, <1>3, <1>4, <1>5, <1>6, <1>7, <1>8, <1>9, <1>10, <1>11, <1>12, <1>13
        DEF Next, Api, Serve, Control

\* Every step keeps flag and firewall together but for the command between.
LEMMA FlagStep == TypeOK /\ Placed /\ FlagInv /\ [Next]_vars => FlagInv'
<1> SUFFICES ASSUME TypeOK, Placed, FlagInv, [Next]_vars PROVE FlagInv'
  OBVIOUS
<1> USE DEF gateway, streams, agent, history
<1>0. /\ \A c \in Isolation : c \in Command /\ c \notin Other
      /\ \A c \in Command : c \notin Other => c \in Isolation
  BY CommandAssumption DEF Command, Isolation
<1>1. CASE UNCHANGED <<task, firewall, aIso, apart>>
  BY <1>1 DEF FlagInv, Lone, UnderWay, Flag
<1>2. CASE AgentRestart
  <2>1. \A c \in Command : task'[c].at = "none"
    BY <1>2 DEF AgentRestart, NoTask
  <2>2. aIso' = FALSE /\ firewall' = firewall /\ (apart' = {} => ~firewall)
    BY <1>2 DEF AgentRestart
  <2>3. apart' = {} => aIso' = firewall'
    BY <2>2 DEF TypeOK
  <2> QED BY <1>0, <2>1, <2>3 DEF FlagInv, Lone, UnderWay
<1>3. CASE Downstream
  <2> DEFINE m == Head(down[sess])
  <2>1. UNCHANGED <<firewall, aIso>>
    BY <1>3 DEF Downstream
  <2>2. CASE UNCHANGED <<task, runs, apart>>
    BY <1>1, <2>1, <2>2
  <2>3. CASE /\ m.type = "Command"
             /\ task' = [task EXCEPT ![m.cmd] = [at |-> "run", from |-> sess, ok |-> FALSE]]
             /\ apart' = IF m.cmd \in Isolation /\ \E d \in Isolation : UnderWay(d)
                        THEN apart \cup {"overlap"} ELSE apart
    <3>1. sess \in Session /\ down[sess] # <<>>
      BY <1>3 DEF Downstream, TypeOK
    <3>2. m \in DownMsg /\ \A X : m \in X => Among(down, X)
      BY <3>1, TakeAmong DEF TypeOK
    <3>3. m.cmd \in Command /\ m \in Orders(m.cmd)
      BY <2>3, <3>2 DEF DownMsg, Orders
    <3>4. task[m.cmd].at = "none"
      BY <3>2, <3>3 DEF Placed, OnePlace, OneResult
    <3> HIDE DEF m
    <3>5. \A d \in Command : IF d = m.cmd THEN task'[d].at = "run" ELSE task'[d] = task[d]
      BY <2>3, <3>3 DEF TypeOK
    <3> SUFFICES ASSUME apart' = {}
                 PROVE  /\ Lone'
                        /\ \A c \in Isolation : task'[c].at = "report" => Flag(c, task[c].ok)' = firewall'
                        /\ (\A c \in Isolation : task'[c].at # "report") => aIso' = firewall'
      BY DEF FlagInv
    <3>6. apart = {} /\ (m.cmd \in Isolation => \A d \in Isolation : ~UnderWay(d))
      BY <2>3
    <3>7. Lone'
      BY <1>0, <3>5, <3>6 DEF FlagInv, Lone, UnderWay
    <3>8. ASSUME NEW c \in Isolation, task'[c].at = "report" PROVE Flag(c, task[c].ok)' = firewall'
      <4>1. task'[c] = task[c]
        BY <1>0, <3>5, <3>8
      <4> QED BY <2>1, <3>6, <3>8, <4>1 DEF FlagInv, Flag
    <3>9. ASSUME \A c \in Isolation : task'[c].at # "report" PROVE aIso' = firewall'
      <4>1. \A c \in Isolation : task[c].at # "report"
        BY <1>0, <3>4, <3>5, <3>9
      <4> QED BY <2>1, <3>6, <4>1 DEF FlagInv
    <3> QED BY <3>7, <3>8, <3>9
  <2> QED BY <1>3, <2>2, <2>3 DEF Downstream
<1>4. ASSUME NEW c \in Command, NEW ok \in BOOLEAN, NEW took \in BOOLEAN, Act(c, ok, took)
      PROVE  FlagInv'
  <2>1. /\ task[c].at = "run"
        /\ took = ok \/ (c \in Isolate /\ ok)
        /\ task' = [task EXCEPT ![c] = [at |-> "report", from |-> task[c].from, ok |-> ok]]
        /\ firewall' = IF took /\ c \notin Other THEN c \in Isolate ELSE firewall
        /\ aIso' = aIso
        /\ apart' = Apart(c, ok)
    BY <1>4 DEF Act
  <2>2. \A d \in Command : IF d = c THEN task'[d].at = "report" /\ task'[d].ok = ok
                                    ELSE task'[d] = task[d]
    BY <2>1 DEF TypeOK
  <2> SUFFICES ASSUME apart' = {}
               PROVE  /\ Lone'
                      /\ \A d \in Isolation : task'[d].at = "report" => Flag(d, task[d].ok)' = firewall'
                      /\ (\A d \in Isolation : task'[d].at # "report") => aIso' = firewall'
    BY DEF FlagInv
  <2>3. CASE c \notin Isolation
    <3>1. apart = {} /\ firewall' = firewall
      BY <1>0, <2>1, <2>3 DEF Apart
    <3>2. \A d \in Isolation : task'[d] = task[d]
      BY <1>0, <2>2, <2>3
    <3> QED BY <2>1, <3>1, <3>2 DEF FlagInv, Lone, UnderWay, Flag
  <2>4. CASE c \in Isolation
    <3>1. \A d \in Isolation \ {c} : ~UnderWay(d)
      <4>1. CASE apart = {}
        BY <2>1, <2>4, <4>1 DEF FlagInv, Lone, UnderWay
      <4>2. CASE apart # {}
        BY <2>1, <2>4, <4>2 DEF Apart
      <4> QED BY <4>1, <4>2
    <3>2. \A d \in Isolation : task'[d].at # "none" => d = c
      BY <1>0, <2>2, <3>1 DEF UnderWay
    <3>3. Lone'
      BY <3>2 DEF Lone, UnderWay
    <3>4. Flag(c, task[c].ok)' = firewall'
      <4>1. CASE ok
        <5>1. firewall' = (c \in Isolate)
          BY <2>1, <2>4, <4>1 DEF Apart
        <5>2. Flag(c, task[c].ok)' = (c \in Isolate)
          BY <1>0, <2>2, <2>4, <4>1 DEF Flag
        <5> QED BY <5>1, <5>2
      <4>2. CASE ~ok
        <5>1. apart = {} /\ firewall' = firewall
          BY <2>1, <4>2 DEF Apart
        <5>2. \A d \in Isolation : task[d].at # "report"
          BY <2>1, <3>1 DEF UnderWay
        <5>3. aIso = firewall
          BY <5>1, <5>2 DEF FlagInv
        <5>4. Flag(c, task[c].ok)' = aIso'
          BY <2>2, <4>2 DEF Flag
        <5> QED BY <2>1, <5>1, <5>3, <5>4
      <4> QED BY <4>1, <4>2
    <3>5. task'[c].at = "report"
      BY <2>2
    <3> QED BY <2>4, <3>2, <3>3, <3>4, <3>5
  <2> QED BY <2>3, <2>4
<1>5. ASSUME NEW c \in Command, Report(c) PROVE FlagInv'
  <2>1. /\ task[c].at = "report"
        /\ task' = [task EXCEPT ![c] = NoTask]
        /\ aIso' = Flag(c, task[c].ok)
        /\ UNCHANGED <<firewall, apart>>
    BY <1>5 DEF Report
  <2>2. \A d \in Command : IF d = c THEN task'[d].at = "none" ELSE task'[d] = task[d]
    BY <2>1 DEF TypeOK, NoTask
  <2> SUFFICES ASSUME apart = {}
               PROVE  /\ Lone'
                      /\ \A d \in Isolation : task'[d].at = "report" => Flag(d, task[d].ok)' = firewall'
                      /\ (\A d \in Isolation : task'[d].at # "report") => aIso' = firewall'
    BY <2>1 DEF FlagInv
  <2>3. Lone'
    BY <1>0, <2>2 DEF FlagInv, Lone, UnderWay
  <2>4. CASE c \notin Isolation
    <3>1. aIso' = aIso
      BY <1>0, <2>1, <2>4 DEF Flag
    <3>2. \A d \in Isolation : task'[d] = task[d]
      BY <1>0, <2>2, <2>4
    <3> QED BY <2>1, <2>3, <3>1, <3>2 DEF FlagInv, Flag
  <2>5. CASE c \in Isolation
    <3>1. \A d \in Isolation : task'[d].at = "none"
      BY <1>0, <2>1, <2>2, <2>5 DEF FlagInv, Lone, UnderWay
    <3>2. aIso' = firewall'
      BY <2>1, <2>5 DEF FlagInv
    <3> QED BY <2>3, <3>1, <3>2
  <2> QED BY <2>4, <2>5
<1>6. ASSUME NEW c \in Command, Enqueue(c) \/ Lookup(c) \/ Send(c) \/ Mark(c) PROVE FlagInv'
  BY <1>1, <1>6 DEF Enqueue, Lookup, Send, Mark
<1>7. ASSUME NEW s \in Session, Hello(s) \/ Inbound(s) \/ Forward(s) \/ Leave(s) \/ Disconnect(s)
      PROVE  FlagInv'
  BY <1>1, <1>7 DEF Hello, Inbound, Forward, Leave, Disconnect
<1>8. CASE Connect \/ StreamBreak \/ StreamEnd \/ Heartbeat \/ GatewayRestart
  BY <1>1, <1>8 DEF Connect, StreamBreak, StreamEnd, LeaveStream, Heartbeat, GatewayRestart
<1>9. CASE UNCHANGED vars
  BY <1>1, <1>9 DEF vars
<1> QED BY <1>2, <1>3, <1>4, <1>5, <1>6, <1>7, <1>8, <1>9 DEF Next, Api, Serve, Control, Execute

\* The first state satisfies the invariant.
LEMMA EdrInit == Init => EdrInv
<1> SUFFICES ASSUME Init PROVE EdrInv
  OBVIOUS
<1>1. TypeOK
  <2>1. /\ NotEnqueued \in [at : {"none", "lookup", "send", "mark", "done", "dead"},
                            tx : Session \cup {None}]
        /\ NoTask \in [at : {"none", "run", "report"}, from : Session \cup {None}, ok : BOOLEAN]
        /\ 0 \in Nat /\ None = 0
    BY DEF NotEnqueued, NoTask, None
  <2>2. liveIso \in BOOLEAN /\ recIso \in BOOLEAN /\ greeted \in BOOLEAN /\ aIso \in BOOLEAN
        /\ firewall \in BOOLEAN
    BY Zenon DEF Init
  <2>3. /\ enq \in [Command -> [at : {"none", "lookup", "send", "mark", "done", "dead"},
                               tx : Session \cup {None}]]
        /\ task \in [Command -> [at : {"none", "run", "report"}, from : Session \cup {None},
                                ok : BOOLEAN]]
    BY <2>1 DEF Init
  <2>4. /\ chan \in [Session -> Seq(Command)] /\ up \in [Session -> Seq(UpMsg)]
        /\ down \in [Session -> Seq(DownMsg)]
    BY DEF Init
  <2> QED BY <2>1, <2>2, <2>3, <2>4 DEF Init, TypeOK
<1>2. Placed
  <2>1. \A X : /\ ~Among(chan, X) /\ OnceAmong(chan, X) /\ ~Among(down, X) /\ OnceAmong(down, X)
               /\ ~Among(up, X) /\ OnceAmong(up, X)
    BY EmptyIn DEF Init, Among, OnceAmong
  <2> QED BY <2>1 DEF Init, Placed, Unique, OnePlace, OneResult, Truthful, NoTask
<1>3. Opened
  BY DEF Init, Opened, LiveServed
<1>4. FlagInv
  BY CommandAssumption DEF Init, FlagInv, Lone, UnderWay, Isolation, NoTask, Command
<1> QED BY <1>1, <1>2, <1>3, <1>4 DEF EdrInv

\* The inductive invariant holds of every behaviour of the command path.
THEOREM EdrInvariant == Spec => []EdrInv
<1>1. EdrInv /\ [Next]_vars => EdrInv'
  BY TypeStep, PlaceStep, OpenedStep, FlagStep DEF EdrInv
<1> QED BY EdrInit, <1>1, PTL DEF Spec

\* A response command is executed at most once, however streams break, sessions
\* replace each other and the agent and the gateway restart.
THEOREM ExecutedOnce == Spec => []AtMostOnce
<1>1. EdrInv => AtMostOnce
  BY DEF EdrInv, Placed, OnePlace, AtMostOnce
<1> QED BY EdrInvariant, <1>1, PTL

\* What the audit trail says of a command happened and stays, what it calls
\* pending was never delivered, and the registry's entry has a session task.
THEOREM AuditTrailKept == Spec => AuditTrail
<1>1. EdrInv => TypeOK /\ OutcomeHappened /\ PendingUndelivered /\ LiveServed
  <2> SUFFICES ASSUME EdrInv PROVE TypeOK /\ OutcomeHappened /\ PendingUndelivered /\ LiveServed
    OBVIOUS
  <2>1. OutcomeHappened
    BY DEF EdrInv, Placed, Truthful, OutcomeHappened
  <2>2. PendingUndelivered
    <3> SUFFICES ASSUME NEW c \in Command, enq[c].at = "done", status[c] = "pending"
                 PROVE  /\ runs[c] = 0
                        /\ \A s \in Session :
                            /\ \A k \in DOMAIN chan[s] : chan[s][k] # c
                            /\ \A k \in DOMAIN down[s] : down[s][k] # [type |-> "Command", cmd |-> c]
      BY DEF PendingUndelivered
    <3>1. runs[c] = 0 /\ ~Among(chan, {c}) /\ ~Among(down, Orders(c))
      BY DEF EdrInv, Placed, OnePlace
    <3>2. [type |-> "Command", cmd |-> c] \in Orders(c)
      BY DEF Orders, DownMsg
    <3> QED BY <3>1, <3>2 DEF Among, HasIn
  <2> QED BY <2>1, <2>2 DEF EdrInv, Opened
<1>2. EdrInv /\ [Next]_vars =>
          [\A c \in Command : enq[c].at = "done" /\ status[c] \in {"completed", "failed"}
                                  => status'[c] = status[c]]_vars
  <2> SUFFICES ASSUME EdrInv, Next, NEW c \in Command, enq[c].at = "done",
                      status[c] \in {"completed", "failed"}
               PROVE  status'[c] = status[c]
    OBVIOUS
  <2> USE DEF gateway, streams, agent, history
  <2>1. CASE status' = status
    BY <2>1
  <2>2. ASSUME NEW d \in Command, Enqueue(d) \/ Lookup(d) \/ Send(d) \/ Mark(d)
        PROVE  status'[c] = status[c]
    BY <2>2 DEF EdrInv, TypeOK, Enqueue, Lookup, Send, Mark
  <2>3. ASSUME NEW s \in Session, Inbound(s) PROVE status'[c] = status[c]
    <3> DEFINE m == Head(up[s])
    <3>1. up[s] # <<>>
      BY <2>3 DEF Inbound
    <3>2. m \in UpMsg /\ \A X : m \in X => Among(up, X)
      BY <3>1, TakeAmong DEF EdrInv, TypeOK
    <3>3. CASE m.type = "Result" /\ status' = Recorded(m)
      <4>1. m.cmd \in Command /\ m \in Results(m.cmd)
        BY <3>2, <3>3 DEF UpMsg, Results
      <4>2. m.cmd # c
        BY <3>2, <4>1 DEF EdrInv, Placed, OneResult
      <4> QED BY <3>3, <4>1, <4>2 DEF Recorded, EdrInv, TypeOK
    <3> QED BY <2>1, <2>3, <3>3 DEF Inbound
  <2>4. ASSUME NEW s \in Session, Hello(s) \/ Forward(s) \/ Leave(s) \/ Disconnect(s)
        PROVE  status'[c] = status[c]
    BY <2>4 DEF Hello, Forward, Leave, Disconnect
  <2>5. CASE Control \/ Execute \/ GatewayRestart \/ AgentRestart
    BY <2>5 DEF Control, Connect, StreamBreak, StreamEnd, LeaveStream, Heartbeat, Downstream,
                Execute, Act, Report, GatewayRestart, AgentRestart
  <2> QED BY <2>2, <2>3, <2>4, <2>5 DEF Next, Api, Serve
<1> QED BY EdrInvariant, <1>1, <1>2, PTL DEF Spec, AuditTrail, OutcomeKept

\* Heartbeats report the host's isolation truthfully, over any sequence of
\* commands, failures and restarts, unless a restart on an isolated host, two
\* isolation commands at once or a success that was not one set them apart, and
\* then only until an isolation command runs alone and takes effect.
THEOREM FlagTruthful == Spec => []FlagTellsFirewall
<1>1. EdrInv => FlagTellsFirewall
  BY DEF EdrInv, FlagInv, FlagTellsFirewall, UnderWay
<1> QED BY EdrInvariant, <1>1, PTL
=============================================================================
