---------------------------- MODULE RaftProofs ----------------------------
(***************************************************************************)
(* Proofs about Raft, for every cluster size, every bound and with or      *)
(* without overlapping threads.                                            *)
(***************************************************************************)
EXTENDS Raft, FiniteSetTheorems, SequenceTheorems, TLAPS

\* Whether or not it has room, a queue of messages stays one.
LEMMA OfferType ==
    ASSUME NEW q \in Seq(AppendMsg), NEW m \in AppendMsg
    PROVE  Offer(q, m) \in Seq(AppendMsg)
BY AppendProperties DEF Offer

\* What broadcast_appends sends is an AppendEntries, as long as the entry
\* before it exists.
LEMMA AppendsForType ==
    ASSUME NEW t \in Nat, NEW l \in Seq(LogEntry), NEW next \in Nat \ {0}, NEW c \in Nat,
           next - 1 <= Len(l)
    PROVE  AppendsFor(t, l, next, c) \in AppendEntries
<1>1. SubSeq(l, next, Len(l)) \in Seq(LogEntry)
  <2>1. \A k \in next .. Len(l) : l[k] \in LogEntry
    BY ElementOfSeq
  <2> QED BY <2>1, SubSeqProperties
<1>2. next # 1 => l[next - 1].term \in Nat
  <2> SUFFICES ASSUME next # 1 PROVE l[next - 1].term \in Nat
    OBVIOUS
  <2>1. next - 1 \in 1 .. Len(l)
    BY LenProperties
  <2>2. l[next - 1] \in LogEntry
    BY <2>1, ElementOfSeq
  <2> QED BY <2>2 DEF LogEntry
<1> QED BY <1>1, <1>2 DEF AppendsFor, AppendEntries

\* broadcast_appends leaves the queues and the unpublished batches well typed.
LEMMA BroadcastType ==
    ASSUME TypeOK, NEW i \in Server, NEW th \in Thread, NEW l \in Seq(LogEntry),
           NEW next \in [Server -> Nat \ {0}], NEW c \in Nat, term'[i] \in Nat,
           BroadcastAppends(i, th, l, next, c)
    PROVE  /\ link' \in [Server -> [Server -> Seq(AppendMsg)]]
           /\ unsent' \in [Server -> [Thread -> SUBSET Envelope]]
<1> DEFINE app == [j \in Peers(i) |-> AppendsFor(term'[i], l, next[j], c)]
<1>1. \A j \in Peers(i) : app[j] \in AppendEntries
  <2> SUFFICES ASSUME NEW j \in Peers(i) PROVE AppendsFor(term'[i], l, next[j], c) \in AppendEntries
    OBVIOUS
  <2>1. next[j] \in Nat \ {0} /\ next[j] - 1 <= Len(l)
    BY DEF BroadcastAppends, CanBroadcast, Peers
  <2> QED BY <2>1, AppendsForType
<1>2. CASE Overlap
  <2>1. {[to |-> j, msg |-> app[j]] : j \in Peers(i)} \in SUBSET Envelope
    BY <1>1 DEF Envelope, Peers
  <2> DEFINE batch == {[to |-> j, msg |-> app[j]] : j \in Peers(i)}
  <2>2. unsent' = [unsent EXCEPT ![i][th] = batch] /\ link' = link
    BY <1>2 DEF BroadcastAppends
  <2> HIDE DEF batch
  <2> QED BY <2>1, <2>2 DEF TypeOK, batch
<1>3. CASE ~Overlap
  <2>1. \A j \in Server : link[i][j] \in Seq(AppendMsg)
    BY DEF TypeOK
  <2>2. \A j \in Peers(i) : Offer(link[i][j], app[j]) \in Seq(AppendMsg)
    BY <1>1, <2>1, OfferType DEF AppendMsg, Peers
  <2> DEFINE row == [j \in Server |-> IF j \in Peers(i) THEN Offer(link[i][j], app[j])
                                                        ELSE link[i][j]]
  <2>3. link' = [link EXCEPT ![i] = row] /\ unsent' = unsent
    BY <1>3 DEF BroadcastAppends
  <2>4. row \in [Server -> Seq(AppendMsg)]
    BY <2>1, <2>2
  <2> HIDE DEF row
  <2> QED BY <2>3, <2>4 DEF TypeOK
<1> QED BY <1>2, <1>3

\* A received append or reply is well typed, and so is what it leaves behind.
LEMMA ReceiveType ==
    ASSUME TypeOK, NEW i \in Server, NEW j \in Server, link[j][i] # <<>>
    PROVE  /\ Head(link[j][i]) \in AppendMsg
           /\ Tail(link[j][i]) \in Seq(AppendMsg)
           /\ [link EXCEPT ![j][i] = Tail(@)] \in [Server -> [Server -> Seq(AppendMsg)]]
<1>1. link \in [Server -> [Server -> Seq(AppendMsg)]]
  BY DEF TypeOK
<1>2. link[j][i] \in Seq(AppendMsg)
  BY <1>1
<1>3. Head(link[j][i]) \in AppendMsg /\ Tail(link[j][i]) \in Seq(AppendMsg)
  BY <1>2, HeadTailProperties
<1> QED BY <1>1, <1>3

\* Taking a message and queueing the reply keeps the queues well typed.
LEMMA ReplyType ==
    ASSUME TypeOK, NEW i \in Server, NEW j \in Peers(i), link[j][i] # <<>>,
           NEW m \in AppendReply, ReplyTo(j, i, m)
    PROVE  link' \in [Server -> [Server -> Seq(AppendMsg)]]
<1>1. /\ link \in [Server -> [Server -> Seq(AppendMsg)]]
      /\ j \in Server
      /\ link[i][j] \in Seq(AppendMsg)
  BY DEF TypeOK, Peers
<1>2. Offer(link[i][j], m) \in Seq(AppendMsg)
  BY <1>1, OfferType DEF AppendMsg
<1>3. Tail(link[j][i]) \in Seq(AppendMsg)
  BY ReceiveType DEF Peers
<1> QED BY <1>1, <1>2, <1>3 DEF ReplyTo, Peers

\* become_follower keeps the fields it resets well typed.
LEMMA FollowerType ==
    ASSUME TypeOK, NEW i \in Server, NEW t \in Nat, BecomeFollower(i, t)
    PROVE  /\ role' \in [Server -> {"Follower", "Candidate", "Leader"}]
           /\ term' \in [Server -> Nat]
           /\ votedFor' \in [Server -> Server \cup {Nil}]
           /\ votes' \in [Server -> Nat]
           /\ nextIndex' \in [Server -> [Server -> Nat \ {0}]]
           /\ matchIndex' \in [Server -> [Server -> Nat]]
           /\ counted' \in [Server -> SUBSET Server]
BY DEF BecomeFollower, TypeOK, NoNext, NoMatch

\* become_leader keeps every field it sets well typed.
LEMMA LeaderType ==
    ASSUME TypeOK, NEW i \in Server, NEW voters \in SUBSET Server, term'[i] \in Nat,
           BecomeLeader(i, voters)
    PROVE  /\ role' \in [Server -> {"Follower", "Candidate", "Leader"}]
           /\ votes' \in [Server -> Nat]
           /\ nextIndex' \in [Server -> [Server -> Nat \ {0}]]
           /\ matchIndex' \in [Server -> [Server -> Nat]]
           /\ hint' \in [Server -> Server \cup {Nil}]
           /\ counted' \in [Server -> SUBSET Server]
           /\ elections' \in SUBSET [leader : Server, term : Nat, voters : SUBSET Server]
           /\ link' \in [Server -> [Server -> Seq(AppendMsg)]]
           /\ unsent' \in [Server -> [Thread -> SUBSET Envelope]]
<1> DEFINE next == [j \in Server |-> IF j = i THEN 1 ELSE Len(log[i]) + 1]
<1>1. log[i] \in Seq(LogEntry) /\ Len(log[i]) \in Nat /\ commit[i] \in Nat
  BY LenProperties DEF TypeOK
<1>2. next \in [Server -> Nat \ {0}]
  BY <1>1
<1>3. BroadcastAppends(i, "pump", log[i], next, commit[i])
  BY DEF BecomeLeader
<1>4. /\ link' \in [Server -> [Server -> Seq(AppendMsg)]]
      /\ unsent' \in [Server -> [Thread -> SUBSET Envelope]]
  <2> HIDE DEF next
  <2> QED BY <1>1, <1>2, <1>3, BroadcastType DEF Thread
<1>5. nextIndex' = [nextIndex EXCEPT ![i] = next]
  BY DEF BecomeLeader
<1>6. nextIndex' \in [Server -> [Server -> Nat \ {0}]]
  <2> HIDE DEF next
  <2> QED BY <1>2, <1>5 DEF TypeOK
<1>7. role' \in [Server -> {"Follower", "Candidate", "Leader"}] /\ votes' \in [Server -> Nat]
  BY DEF BecomeLeader, TypeOK
<1>8. matchIndex' \in [Server -> [Server -> Nat]] /\ counted' \in [Server -> SUBSET Server]
  BY DEF BecomeLeader, TypeOK, NoMatch
<1>9. hint' \in [Server -> Server \cup {Nil}]
  BY DEF BecomeLeader, TypeOK
<1>10. elections' \in SUBSET [leader : Server, term : Nat, voters : SUBSET Server]
  BY DEF BecomeLeader, TypeOK
<1> QED BY <1>4, <1>6, <1>7, <1>8, <1>9, <1>10

\* One step of the specification keeps TypeOK.
LEMMA TypeStep == TypeOK /\ [Next]_vars => TypeOK'
<1> SUFFICES ASSUME TypeOK, [Next]_vars PROVE TypeOK'
  OBVIOUS
<1>1. ASSUME NEW i \in Server, StartElection(i) PROVE TypeOK'
  <2>1. term' \in [Server -> Nat] /\ term'[i] \in Nat /\ term[i] + 1 \in Nat
    BY <1>1 DEF StartElection, TypeOK
  <2>2. Len(log[i]) \in Nat /\ LastTerm(log[i]) \in Nat
    <3>1. log[i] \in Seq(LogEntry) /\ Len(log[i]) \in Nat
      BY LenProperties DEF TypeOK
    <3>2. log[i] # <<>> => log[i][Len(log[i])] \in LogEntry
      BY <3>1, EmptySeq, ElementOfSeq
    <3> QED BY <3>1, <3>2 DEF LastTerm, LogEntry
  <2>3. CASE Peers(i) = {}
    <3>1. BecomeLeader(i, {i}) /\ UNCHANGED ballots
      BY <1>1, <2>3 DEF StartElection
    <3>2. {i} \in SUBSET Server
      OBVIOUS
    <3>3. /\ votedFor' \in [Server -> Server \cup {Nil}]
          /\ started' \in Nat
          /\ UNCHANGED <<log, commit, grants, lost>>
      BY <1>1 DEF StartElection, TypeOK
    <3> QED BY <2>1, <3>1, <3>2, <3>3, LeaderType DEF TypeOK
  <2>4. CASE Peers(i) # {}
    <3>1. {[type |-> "RequestVote", term |-> term[i] + 1, from |-> i, to |-> j,
            lastIndex |-> Len(log[i]), lastTerm |-> LastTerm(log[i])] : j \in Peers(i)}
          \in SUBSET RequestVote
      BY <2>1, <2>2 DEF RequestVote, Peers
    <3>2. ballots' \in SUBSET (RequestVote \cup VoteReply)
      BY <1>1, <2>4, <3>1 DEF StartElection, TypeOK
    <3>3. /\ role' = [role EXCEPT ![i] = "Candidate"]
          /\ votes' = [votes EXCEPT ![i] = 1]
          /\ counted' = [counted EXCEPT ![i] = {}]
          /\ votedFor' = [votedFor EXCEPT ![i] = i]
          /\ started' = started + 1
          /\ UNCHANGED <<nextIndex, matchIndex, hint, elections, link, unsent>>
          /\ UNCHANGED <<log, commit, grants, lost>>
      BY <1>1, <2>4 DEF StartElection
    <3>4. role' \in [Server -> {"Follower", "Candidate", "Leader"}]
      BY <3>3 DEF TypeOK
    <3>5. votes' \in [Server -> Nat] /\ started' \in Nat
      BY <3>3 DEF TypeOK
    <3>6. counted' \in [Server -> SUBSET Server]
      BY <3>3 DEF TypeOK
    <3>7. votedFor' \in [Server -> Server \cup {Nil}]
      BY <3>3 DEF TypeOK
    <3> QED BY <2>1, <3>2, <3>3, <3>4, <3>5, <3>6, <3>7 DEF TypeOK
  <2> QED BY <2>3, <2>4
<1>2. ASSUME NEW i \in Server, Heartbeat(i) PROVE TypeOK'
  <2>1. /\ log[i] \in Seq(LogEntry) /\ nextIndex[i] \in [Server -> Nat \ {0}]
        /\ commit[i] \in Nat /\ term'[i] \in Nat
    BY <1>2 DEF Heartbeat, nodeVars, TypeOK
  <2>2. BroadcastAppends(i, "pump", log[i], nextIndex[i], commit[i])
    BY <1>2 DEF Heartbeat
  <2>3. /\ link' \in [Server -> [Server -> Seq(AppendMsg)]]
        /\ unsent' \in [Server -> [Thread -> SUBSET Envelope]]
    BY <2>1, <2>2, BroadcastType DEF Thread
  <2> QED BY <1>2, <2>3 DEF Heartbeat, TypeOK, nodeVars, history, bounds
<1>3. ASSUME NEW i \in Server, NEW c \in Caller, NEW v \in Value, Propose(i, c, v)
      PROVE  TypeOK'
  <2> DEFINE l == Append(log[i], [term |-> term[i], data |-> v])
  <2>1. PICK n \in CommitCandidates(i, l) :
            /\ commit' = [commit EXCEPT ![i] = n]
            /\ BroadcastAppends(i, c, l, nextIndex[i], n)
    BY <1>3 DEF Propose
  <2>2. l \in Seq(LogEntry)
    <3>1. [term |-> term[i], data |-> v] \in LogEntry
      BY DEF TypeOK, LogEntry
    <3> QED BY <3>1, AppendProperties DEF TypeOK
  <2>3. n \in Nat
    <3>1. commit[i] \in Nat /\ Len(l) \in Nat
      BY <2>2, LenProperties DEF TypeOK
    <3> HIDE DEF l
    <3> QED BY <3>1 DEF CommitCandidates
  <2>4. nextIndex[i] \in [Server -> Nat \ {0}] /\ term'[i] \in Nat /\ c \in Thread
    BY <1>3 DEF Propose, TypeOK, Thread
  <2>5. log' = [log EXCEPT ![i] = l]
    BY <1>3 DEF Propose
  <2> HIDE DEF l
  <2>6. /\ link' \in [Server -> [Server -> Seq(AppendMsg)]]
        /\ unsent' \in [Server -> [Thread -> SUBSET Envelope]]
    BY <2>1, <2>2, <2>3, <2>4, BroadcastType
  <2>7. log' \in [Server -> Seq(LogEntry)] /\ commit' \in [Server -> Nat]
    BY <2>1, <2>2, <2>3, <2>5 DEF TypeOK
  <2>8. /\ UNCHANGED <<role, term, votedFor, votes, nextIndex, matchIndex, hint, ballots>>
        /\ UNCHANGED <<bounds, history>>
    BY <1>3 DEF Propose
  <2> QED BY <2>6, <2>7, <2>8 DEF TypeOK, history, bounds
<1>4. ASSUME NEW i \in Server, NEW m \in ballots, HandleRequestVote(i, m) PROVE TypeOK'
  <2> DEFINE t == IF m.term > term[i] THEN m.term ELSE term[i]
             vote == IF m.term > term[i] THEN Nil ELSE votedFor[i]
             grant == m.term = t /\ UpToDate(m, log[i]) /\ CanVote(vote, m.from)
             reply == [type |-> "VoteReply", term |-> t, from |-> i, to |-> m.from,
                       granted |-> grant]
  <2>1. m.term \in Nat /\ m.from \in Server /\ t \in Nat /\ vote \in Server \cup {Nil}
    BY DEF TypeOK, RequestVote, VoteReply
  <2>2. grant \in BOOLEAN
    OBVIOUS
  <2>3. reply \in VoteReply
    <3> HIDE DEF grant, t
    <3> QED BY <2>1, <2>2 DEF VoteReply
  <2>4. /\ ballots' = (ballots \ {m}) \cup {reply}
        /\ grants' = IF grant THEN grants \cup {<<i, m.from, t>>} ELSE grants
        /\ votedFor' = [votedFor EXCEPT ![i] = IF grant THEN m.from ELSE vote]
    BY <1>4 DEF HandleRequestVote
  <2>5. /\ ballots' \in SUBSET (RequestVote \cup VoteReply)
        /\ grants' \in SUBSET (Server \X Server \X Nat)
        /\ votedFor' \in [Server -> Server \cup {Nil}]
    <3> HIDE DEF reply, grant, t, vote
    <3>1. ballots' \in SUBSET (RequestVote \cup VoteReply)
      BY <2>3, <2>4 DEF TypeOK
    <3>2. <<i, m.from, t>> \in Server \X Server \X Nat
      BY <2>1
    <3>3. grants' \in SUBSET (Server \X Server \X Nat)
      BY <2>4, <3>2 DEF TypeOK
    <3>4. votedFor' \in [Server -> Server \cup {Nil}]
      BY <2>1, <2>4 DEF TypeOK
    <3> QED BY <3>1, <3>3, <3>4
  <2>6. /\ term' \in [Server -> Nat]
        /\ role' \in [Server -> {"Follower", "Candidate", "Leader"}]
        /\ votes' \in [Server -> Nat]
        /\ nextIndex' \in [Server -> [Server -> Nat \ {0}]]
        /\ matchIndex' \in [Server -> [Server -> Nat]]
        /\ counted' \in [Server -> SUBSET Server]
    <3>1. CASE m.term > term[i]
      <4>1. /\ term' = [term EXCEPT ![i] = m.term]
            /\ role' = [role EXCEPT ![i] = "Follower"]
            /\ votes' = [votes EXCEPT ![i] = 0]
            /\ nextIndex' = [nextIndex EXCEPT ![i] = NoNext]
            /\ matchIndex' = [matchIndex EXCEPT ![i] = NoMatch]
            /\ counted' = [counted EXCEPT ![i] = {}]
        BY <1>4, <3>1 DEF HandleRequestVote
      <4>2. NoNext \in [Server -> Nat \ {0}] /\ NoMatch \in [Server -> Nat]
        BY DEF NoNext, NoMatch
      <4>3. nextIndex' \in [Server -> [Server -> Nat \ {0}]]
        BY <4>1, <4>2 DEF TypeOK
      <4>4. matchIndex' \in [Server -> [Server -> Nat]]
        BY <4>1, <4>2 DEF TypeOK
      <4>5. term' \in [Server -> Nat] /\ votes' \in [Server -> Nat]
        BY <2>1, <4>1 DEF TypeOK
      <4>6. role' \in [Server -> {"Follower", "Candidate", "Leader"}]
        BY <4>1 DEF TypeOK
      <4>7. counted' \in [Server -> SUBSET Server]
        BY <4>1 DEF TypeOK
      <4> QED BY <4>3, <4>4, <4>5, <4>6, <4>7
    <3>2. CASE ~(m.term > term[i])
      BY <1>4, <3>2 DEF HandleRequestVote, TypeOK
    <3> QED BY <3>1, <3>2
  <2> QED BY <1>4, <2>5, <2>6 DEF HandleRequestVote, TypeOK, bounds
<1>5. ASSUME NEW i \in Server, NEW m \in ballots, HandleVoteReply(i, m) PROVE TypeOK'
  <2>1. m.term \in Nat /\ m.from \in Server
    BY DEF TypeOK, RequestVote, VoteReply
  <2>2. ballots' \in SUBSET (RequestVote \cup VoteReply) /\ UNCHANGED bounds
    BY <1>5 DEF HandleVoteReply, TypeOK
  <2>3. CASE m.term > term[i] /\ BecomeFollower(i, m.term)
             /\ UNCHANGED <<log, commit, hint, link, unsent, grants, elections>>
    BY <2>1, <2>2, <2>3, FollowerType DEF TypeOK, bounds
  <2>4. CASE m.term = term[i] /\ m.granted /\ role[i] = "Candidate"
    <3>1. CASE votes[i] + 1 >= Majority
      <4>1. UNCHANGED <<term, votedFor, log, commit, grants>>
            /\ BecomeLeader(i, counted[i] \cup {m.from, i})
        BY <1>5, <2>1, <2>4, <3>1 DEF HandleVoteReply, TypeOK
      <4>2. counted[i] \cup {m.from, i} \in SUBSET Server /\ term'[i] \in Nat
        BY <2>1, <4>1 DEF TypeOK
      <4> QED BY <2>2, <4>1, <4>2, LeaderType DEF TypeOK, bounds
    <3>2. CASE ~(votes[i] + 1 >= Majority)
      <4>1. /\ votes' = [votes EXCEPT ![i] = @ + 1]
            /\ counted' = [counted EXCEPT ![i] = @ \cup {m.from}]
            /\ UNCHANGED <<role, term, votedFor, log, commit, nextIndex, matchIndex,
                           hint, link, unsent, grants, elections>>
        <5>1. ~(m.term > term[i])
          BY <2>1, <2>4 DEF TypeOK
        <5> QED BY <1>5, <2>4, <3>2, <5>1 DEF HandleVoteReply
      <4>2. votes' \in [Server -> Nat]
        BY <4>1 DEF TypeOK
      <4>3. counted' \in [Server -> SUBSET Server]
        BY <2>1, <4>1 DEF TypeOK
      <4> QED BY <2>2, <4>1, <4>2, <4>3 DEF TypeOK, bounds
    <3> QED BY <3>1, <3>2
  <2>5. CASE UNCHANGED <<nodeVars, link, unsent, history>>
    BY <2>2, <2>5 DEF TypeOK, nodeVars, history, bounds
  <2> QED BY <1>5, <2>3, <2>4, <2>5 DEF HandleVoteReply
<1>6. ASSUME NEW i \in Server, NEW j \in Peers(i), HandleAppendEntries(i, j) PROVE TypeOK'
  <2> DEFINE m == Head(link[j][i])
             l == Spliced(m, log[i])
             known == IF m.leaderCommit < Len(l) THEN m.leaderCommit ELSE Len(l)
  <2>1. j \in Server /\ link[j][i] # <<>> /\ m.type = "AppendEntries"
    BY <1>6 DEF HandleAppendEntries, Incoming, Peers
  <2>2. m \in AppendEntries
    BY <2>1, ReceiveType DEF AppendMsg, AppendReply
  <2>3. /\ m.term \in Nat /\ m.prevIndex \in Nat /\ m.entries \in Seq(LogEntry)
        /\ m.leaderCommit \in Nat
    <3> HIDE DEF m
    <3> QED BY <2>2 DEF AppendEntries
  <2>4. /\ role' \in [Server -> {"Follower", "Candidate", "Leader"}]
        /\ term' \in [Server -> Nat]
        /\ votedFor' \in [Server -> Server \cup {Nil}]
        /\ votes' \in [Server -> Nat]
        /\ nextIndex' \in [Server -> [Server -> Nat \ {0}]]
        /\ matchIndex' \in [Server -> [Server -> Nat]]
        /\ counted' \in [Server -> SUBSET Server]
    <3>1. CASE BecomeFollower(i, m.term)
      BY <2>3, <3>1, FollowerType
    <3>2. CASE UNCHANGED <<term, role, votedFor, votes, nextIndex, matchIndex, counted>>
      BY <3>2 DEF TypeOK
    <3> QED BY <1>6, <3>1, <3>2 DEF HandleAppendEntries
  <2>5. /\ UNCHANGED <<ballots, unsent, bounds, grants, elections>>
    BY <1>6 DEF HandleAppendEntries
  <2>6. CASE m.term < term[i]
    <3>1. /\ ReplyTo(j, i, [type |-> "AppendReply", term |-> term[i],
                             success |-> FALSE, matchIndex |-> 0])
          /\ UNCHANGED <<log, commit, hint>>
      <4>1. ~(m.term >= term[i])
        <5> HIDE DEF m
        <5> QED BY <2>3, <2>6 DEF TypeOK
      <4> QED BY <1>6, <4>1 DEF HandleAppendEntries
    <3>2. [type |-> "AppendReply", term |-> term[i],
           success |-> FALSE, matchIndex |-> 0] \in AppendReply
      BY DEF AppendReply, TypeOK
    <3>3. link' \in [Server -> [Server -> Seq(AppendMsg)]]
      BY <2>1, <3>1, <3>2, ReplyType
    <3> QED BY <2>4, <2>5, <3>1, <3>3 DEF TypeOK, bounds
  <2> DEFINE no == [type |-> "AppendReply", term |-> m.term, success |-> FALSE, matchIndex |-> 0]
             yes == [type |-> "AppendReply", term |-> m.term, success |-> TRUE,
                     matchIndex |-> Len(l)]
  <2>7. CASE hint' = [hint EXCEPT ![i] = j] /\ ReplyTo(j, i, no) /\ UNCHANGED <<log, commit>>
    <3>1. no \in AppendReply
      <4> HIDE DEF m
      <4> QED BY <2>3 DEF AppendReply
    <3>2. link' \in [Server -> [Server -> Seq(AppendMsg)]]
      <4> HIDE DEF no
      <4> QED BY <2>1, <2>7, <3>1, ReplyType
    <3> QED BY <2>1, <2>4, <2>5, <2>7, <3>2 DEF TypeOK, bounds
  <2>8. CASE /\ hint' = [hint EXCEPT ![i] = j]
             /\ m.prevIndex = 0 \/ m.prevIndex \in DOMAIN log[i]
             /\ log' = [log EXCEPT ![i] = l]
             /\ commit' = [commit EXCEPT ![i] = IF m.leaderCommit > @ THEN known ELSE @]
             /\ ReplyTo(j, i, yes)
    <3>1. l \in Seq(LogEntry) /\ Len(l) \in Nat
      <4>1. log[i] \in Seq(LogEntry)
        BY DEF TypeOK
      <4>2. \A k \in 1 .. m.prevIndex : log[i][k] \in LogEntry
        <5>1. DOMAIN log[i] = 1 .. Len(log[i]) /\ Len(log[i]) \in Nat
          BY <4>1, LenProperties
        <5>2. m.prevIndex <= Len(log[i])
          <6> HIDE DEF m
          <6> QED BY <2>3, <2>8, <5>1
        <5> HIDE DEF m
        <5> QED BY <2>3, <4>1, <5>1, <5>2, ElementOfSeq
      <4>3. SubSeq(log[i], 1, m.prevIndex) \in Seq(LogEntry)
        <5> HIDE DEF m
        <5> QED BY <2>3, <4>2, SubSeqProperties
      <4> HIDE DEF m
      <4>4. l \in Seq(LogEntry)
        BY <2>3, <4>3, ConcatProperties DEF Spliced
      <4> QED BY <4>4, LenProperties
    <3>2. yes \in AppendReply
      <4> HIDE DEF m, l
      <4> QED BY <2>3, <3>1 DEF AppendReply
    <3>3. link' \in [Server -> [Server -> Seq(AppendMsg)]]
      <4> HIDE DEF yes
      <4> QED BY <2>1, <2>8, <3>2, ReplyType
    <3>4. known \in Nat
      <4> HIDE DEF m, l
      <4> QED BY <2>3, <3>1
    <3>5. log' \in [Server -> Seq(LogEntry)] /\ commit' \in [Server -> Nat]
      <4> HIDE DEF m, l, known
      <4> QED BY <2>8, <3>1, <3>4 DEF TypeOK
    <3> QED BY <2>1, <2>4, <2>5, <2>8, <3>3, <3>5 DEF TypeOK, bounds
  <2> QED BY <1>6, <2>6, <2>7, <2>8 DEF HandleAppendEntries, PrevMatches
<1>7. ASSUME NEW i \in Server, NEW j \in Peers(i), HandleAppendReply(i, j) PROVE TypeOK'
  <2> DEFINE m == Head(link[j][i])
             next == NextFor(m, nextIndex[i][j])
             match == [matchIndex[i] EXCEPT ![j] = m.matchIndex]
  <2>1. j \in Server /\ link[j][i] # <<>> /\ m.type = "AppendReply"
    BY <1>7 DEF HandleAppendReply, Incoming, Peers
  <2>2. m.term \in Nat /\ m.matchIndex \in Nat
    <3>1. m \in AppendReply
      BY <2>1, ReceiveType DEF AppendMsg, AppendEntries
    <3> HIDE DEF m
    <3> QED BY <3>1 DEF AppendReply
  <2>3. link' \in [Server -> [Server -> Seq(AppendMsg)]]
    BY <1>7, <2>1, ReceiveType DEF HandleAppendReply
  <2>4. UNCHANGED <<ballots, unsent, bounds, grants, elections, log, hint>>
    BY <1>7 DEF HandleAppendReply
  <2>5. CASE m.term > term[i] /\ BecomeFollower(i, m.term) /\ UNCHANGED commit
    BY <2>2, <2>3, <2>4, <2>5, FollowerType DEF TypeOK, bounds
  <2>6. CASE /\ nextIndex' = [nextIndex EXCEPT ![i][j] = next]
             /\ IF m.success
                THEN /\ matchIndex' = [matchIndex EXCEPT ![i] = match]
                     /\ \E n \in CommitCandidates(i, log[i]) :
                            /\ AdvanceCommit(i, log[i], match, n)
                            /\ commit' = [commit EXCEPT ![i] = n]
                ELSE UNCHANGED <<matchIndex, commit>>
             /\ UNCHANGED <<role, term, votedFor, votes, counted>>
    <3>1. next \in Nat \ {0} /\ match \in [Server -> Nat]
      <4>1. nextIndex[i][j] \in Nat \ {0} /\ matchIndex[i] \in [Server -> Nat]
        BY <2>1 DEF TypeOK
      <4> HIDE DEF m
      <4>2. next \in Nat \ {0}
        BY <2>2, <4>1 DEF NextFor
      <4>3. match \in [Server -> Nat]
        BY <2>2, <4>1
      <4> QED BY <4>2, <4>3
    <3>2. CommitCandidates(i, log[i]) \subseteq Nat
      <4>1. commit[i] \in Nat /\ Len(log[i]) \in Nat
        BY LenProperties DEF TypeOK
      <4> QED BY <4>1 DEF CommitCandidates
    <3>3. /\ nextIndex' \in [Server -> [Server -> Nat \ {0}]]
          /\ matchIndex' \in [Server -> [Server -> Nat]]
          /\ commit' \in [Server -> Nat]
      <4> HIDE DEF m, next, match
      <4>1. nextIndex' \in [Server -> [Server -> Nat \ {0}]]
        BY <2>1, <2>6, <3>1 DEF TypeOK
      <4>2. matchIndex' \in [Server -> [Server -> Nat]]
        <5>1. matchIndex' = matchIndex \/ matchIndex' = [matchIndex EXCEPT ![i] = match]
          BY <2>6
        <5>2. matchIndex \in [Server -> [Server -> Nat]]
          BY DEF TypeOK
        <5> QED BY <3>1, <5>1, <5>2
      <4>3. commit' \in [Server -> Nat]
        BY <2>6, <3>2 DEF TypeOK
      <4> QED BY <4>1, <4>2, <4>3
    <3> QED BY <2>3, <2>4, <2>6, <3>3 DEF TypeOK, bounds
  <2>7. CASE UNCHANGED <<role, term, votedFor, votes, commit, nextIndex, matchIndex, counted>>
    BY <2>3, <2>4, <2>7 DEF TypeOK, bounds
  <2> QED BY <1>7, <2>5, <2>6, <2>7 DEF HandleAppendReply
<1>8. ASSUME NEW i \in Server, NEW th \in Thread, Publish(i, th) PROVE TypeOK'
  <2>1. PICK e \in unsent[i][th] :
            /\ unsent' = [unsent EXCEPT ![i][th] = @ \ {e}]
            /\ link' = [link EXCEPT ![i][e.to] = Offer(@, e.msg)]
    BY <1>8 DEF Publish
  <2>2. e \in Envelope
    <3>1. unsent[i][th] \in SUBSET Envelope
      BY DEF TypeOK
    <3> QED BY <3>1
  <2>3. e.to \in Server /\ e.msg \in AppendMsg
    BY <2>2 DEF Envelope, AppendMsg
  <2>4. Offer(link[i][e.to], e.msg) \in Seq(AppendMsg)
    <3>1. link[i][e.to] \in Seq(AppendMsg)
      BY <2>3 DEF TypeOK
    <3> QED BY <2>3, <3>1, OfferType
  <2>5. unsent' \in [Server -> [Thread -> SUBSET Envelope]]
    BY <2>1 DEF TypeOK
  <2>6. link' \in [Server -> [Server -> Seq(AppendMsg)]]
    BY <2>1, <2>3, <2>4 DEF TypeOK
  <2>7. UNCHANGED <<nodeVars, ballots, bounds, history>>
    BY <1>8 DEF Publish
  <2> QED BY <2>5, <2>6, <2>7 DEF TypeOK, nodeVars, history, bounds
<1>9. ASSUME NEW i \in Server, NEW j \in Peers(i), Lose(i, j) PROVE TypeOK'
  <2>1. link' \in [Server -> [Server -> Seq(AppendMsg)]]
    BY <1>9, ReceiveType DEF Lose, Peers
  <2>2. UNCHANGED <<nodeVars, ballots, unsent, started, history>> /\ lost' = lost + 1
    BY <1>9 DEF Lose
  <2>3. lost' \in Nat
    BY <2>2 DEF TypeOK
  <2> QED BY <2>1, <2>2, <2>3 DEF TypeOK, nodeVars, history
<1>10. CASE UNCHANGED vars
  BY <1>10 DEF vars, nodeVars, netVars, history, bounds, TypeOK
<1> QED BY <1>1, <1>2, <1>3, <1>4, <1>5, <1>6, <1>7, <1>8, <1>9, <1>10 DEF Next, Tick, Receive

\* Every field and message keeps its type, through every handler of RaftNode
\* and every step of RaftDriver.
THEOREM TypeCorrect == Spec => []TypeOK
<1>1. Init => TypeOK
  BY EmptySeq DEF Init, TypeOK, NoNext, NoMatch
<1> QED BY <1>1, TypeStep, PTL DEF Spec

---------------------------------------------------------------------------
(* Election Safety.  The ballots and the appends are treated apart: a step *)
(* either leaves the voting state alone or sends no new kind of append.    *)

Voting == /\ GrantsBind /\ SelfVote /\ AnsweredOnce /\ RepliesUncounted
          /\ VotesAreVoters /\ WinnersLead /\ LeadersWon /\ ElectionSafety

votingVars == <<role, term, votedFor, votes, ballots, grants, counted, elections>>

\* Two sets of nodes that both reach majority() have a node in common.
LEMMA MajoritiesMeet ==
    ASSUME NEW P \in SUBSET Server, NEW Q \in SUBSET Server,
           Cardinality(P) >= Majority, Cardinality(Q) >= Majority
    PROVE  P \cap Q # {}
<1>1. Cardinality(Server) \in Nat /\ Cardinality(P) \in Nat /\ Cardinality(Q) \in Nat
  BY ServerAssumption, FS_CardinalityType, FS_Subset
<1>2. Cardinality(P) + Cardinality(Q) > Cardinality(Server)
  BY <1>1 DEF Majority
<1> QED BY <1>2, ServerAssumption, FS_MajoritiesIntersect

\* One more voter is one more vote.
LEMMA OneMore ==
    ASSUME NEW S, IsFiniteSet(S), NEW x, x \notin S
    PROVE  /\ IsFiniteSet(S \cup {x})
           /\ Cardinality(S) \in Nat
           /\ Cardinality(S \cup {x}) = Cardinality(S) + 1
BY FS_AddElement, FS_CardinalityType

\* A step that does not touch the voting state keeps it.
LEMMA VotingUntouched ==
    ASSUME Voting, UNCHANGED votingVars
    PROVE  Voting'
BY DEF Voting, votingVars, GrantsBind, SelfVote, AnsweredOnce, RepliesUncounted,
       VotesAreVoters, WinnersLead, LeadersWon, Won, ElectionSafety

\* A node may follow a newer term, or a winner of its own term, without
\* disturbing any vote: the vote for itself that it forgets in the second case
\* is one it can no longer win with.
LEMMA VotingFollow ==
    ASSUME TypeOK, TypeOK', Voting, NEW i \in Server, NEW t \in Nat,
           BecomeFollower(i, t), ballots' \subseteq ballots, UNCHANGED <<grants, elections>>,
           t > term[i] \/ (t = term[i] /\ role[i] # "Follower" /\ ~Won(i, t))
    PROVE  Voting'
<1>0. /\ term \in [Server -> Nat] /\ term' \in [Server -> Nat]
      /\ role \in [Server -> {"Follower", "Candidate", "Leader"}]
      /\ votedFor \in [Server -> Server \cup {Nil}]
      /\ votes \in [Server -> Nat]
      /\ counted \in [Server -> SUBSET Server]
  BY DEF TypeOK
<1>1. /\ term[i] \in Nat /\ t >= term[i]
      /\ term' = [term EXCEPT ![i] = t]
      /\ role' = [role EXCEPT ![i] = "Follower"]
      /\ votedFor' = [votedFor EXCEPT ![i] = Nil]
      /\ votes' = [votes EXCEPT ![i] = 0]
      /\ counted' = [counted EXCEPT ![i] = {}]
  BY <1>0 DEF BecomeFollower
<1>2. GrantsBind'
  <2> SUFFICES ASSUME NEW g \in grants
               PROVE  /\ g[1] # g[2] /\ g[3] <= term'[g[1]]
                      /\ g[3] = term'[g[1]] => role'[g[1]] = "Follower" /\ votedFor'[g[1]] = g[2]
                      /\ \A h \in grants : g[1] = h[1] /\ g[3] = h[3] => g[2] = h[2]
    BY DEF GrantsBind
  <2>1. g[1] \in Server /\ g[2] \in Server /\ g[3] \in Nat
    BY DEF TypeOK
  <2>2. /\ g[1] # g[2] /\ g[3] <= term[g[1]]
        /\ g[3] = term[g[1]] => role[g[1]] = "Follower" /\ votedFor[g[1]] = g[2]
        /\ \A h \in grants : g[1] = h[1] /\ g[3] = h[3] => g[2] = h[2]
    BY DEF Voting, GrantsBind
  <2>3. CASE g[1] = i
    <3>1. g[3] # t
      BY <1>0, <1>1, <2>1, <2>2, <2>3
    <3> QED BY <1>0, <1>1, <2>1, <2>2, <2>3, <3>1
  <2>4. CASE g[1] # i
    BY <1>0, <1>1, <2>1, <2>2, <2>4
  <2> QED BY <2>3, <2>4
<1>3. SelfVote'
  BY <1>0, <1>1 DEF Voting, SelfVote
<1>4. \A k \in Server : term'[k] >= term[k] /\ (term'[k] = term[k] => counted'[k] \subseteq counted[k])
  BY <1>0, <1>1
<1>5. AnsweredOnce'
  <2> SUFFICES ASSUME NEW m \in ballots', m.type = "RequestVote"
               PROVE  /\ m.from # m.to /\ m.term <= term'[m.from]
                      /\ m.term = term'[m.from] => m.to \notin counted'[m.from]
                      /\ \A r \in ballots' :
                           /\ r.from = m.from /\ r.to = m.to /\ r.term = m.term /\ r.type = m.type
                                => r = m
                           /\ ~(r.type = "VoteReply" /\ r.granted /\ r.from = m.to
                                /\ r.to = m.from /\ r.term = m.term)
    BY DEF AnsweredOnce
  <2>1. m.from \in Server /\ m.term \in Nat /\ m \in ballots
    BY DEF TypeOK, RequestVote, VoteReply
  <2>2. m.from # m.to /\ m.term <= term[m.from]
        /\ (m.term = term[m.from] => m.to \notin counted[m.from])
    BY <2>1 DEF Voting, AnsweredOnce
  <2>3. m.term <= term'[m.from] /\ (m.term = term'[m.from] => m.to \notin counted'[m.from])
    BY <1>0, <1>4, <2>1, <2>2
  <2> QED BY <2>1, <2>2, <2>3 DEF Voting, AnsweredOnce
<1>6. RepliesUncounted'
  <2> SUFFICES ASSUME NEW r \in ballots', r.type = "VoteReply", r.granted
               PROVE  /\ <<r.from, r.to, r.term>> \in grants
                      /\ r.term <= term'[r.to]
                      /\ r.term = term'[r.to] => r.from \notin counted'[r.to]
    BY DEF RepliesUncounted
  <2>1. r.to \in Server /\ r.term \in Nat /\ r \in ballots
    BY DEF TypeOK, RequestVote, VoteReply
  <2>2. /\ <<r.from, r.to, r.term>> \in grants
        /\ r.term <= term[r.to]
        /\ r.term = term[r.to] => r.from \notin counted[r.to]
    BY <2>1 DEF Voting, RepliesUncounted
  <2> QED BY <1>0, <1>4, <2>1, <2>2
<1>7. VotesAreVoters'
  <2> SUFFICES ASSUME NEW k \in Server
               PROVE  /\ \A v \in counted'[k] : v # k /\ <<v, k, term'[k]>> \in grants
                      /\ role'[k] = "Candidate" => votes'[k] = Cardinality(counted'[k]) + 1
    BY DEF VotesAreVoters
  <2>1. CASE k = i
    BY <1>0, <1>1, <2>1
  <2>2. CASE k # i
    <3>1. /\ counted'[k] = counted[k] /\ term'[k] = term[k]
          /\ role'[k] = role[k] /\ votes'[k] = votes[k]
      BY <1>0, <1>1, <2>2
    <3> QED BY <3>1 DEF Voting, VotesAreVoters
  <2> QED BY <2>1, <2>2
<1>8. WinnersLead'
  <2> SUFFICES ASSUME NEW e \in elections
               PROVE  /\ e.term <= term'[e.leader]
                      /\ e.term = term'[e.leader] => role'[e.leader] = "Leader"
    BY DEF Voting, WinnersLead
  <2>1. e.leader \in Server /\ e.term \in Nat
    BY DEF TypeOK
  <2>2. e.term <= term[e.leader] /\ (e.term = term[e.leader] => role[e.leader] = "Leader")
    BY DEF Voting, WinnersLead
  <2>3. CASE e.leader # i
    BY <1>0, <1>1, <2>1, <2>2, <2>3
  <2>4. CASE e.leader = i
    <3>1. e.term < t
      <4>1. CASE t > term[i]
        BY <1>1, <2>1, <2>2, <2>4, <4>1
      <4>2. CASE t = term[i] /\ ~Won(i, t)
        <5>1. e.term # t
          BY <2>4, <4>2 DEF Won
        <5> QED BY <1>1, <2>1, <2>2, <2>4, <4>2, <5>1
      <4> QED BY <4>1, <4>2
    <3> QED BY <1>0, <1>1, <2>1, <2>4, <3>1
  <2> QED BY <2>3, <2>4
<1>9. LeadersWon' /\ ElectionSafety'
  BY <1>0, <1>1 DEF Voting, LeadersWon, Won, ElectionSafety
<1> QED BY <1>2, <1>3, <1>5, <1>6, <1>7, <1>8, <1>9 DEF Voting

\* The types the voting proofs use.
VotingTypes ==
    /\ term \in [Server -> Nat]
    /\ role \in [Server -> {"Follower", "Candidate", "Leader"}]
    /\ votedFor \in [Server -> Server \cup {Nil}]
    /\ votes \in [Server -> Nat]
    /\ counted \in [Server -> SUBSET Server]

LEMMA VotingTyped == TypeOK => VotingTypes
BY DEF TypeOK, VotingTypes

\* The fields of a ballot in flight.
LEMMA BallotTyped ==
    ASSUME TypeOK, NEW m \in ballots
    PROVE  m.term \in Nat /\ m.from \in Server /\ m.to \in Server
BY DEF TypeOK, RequestVote, VoteReply

\* Two granted replies with the same sender, receiver and term are the same.
LEMMA ReplyUnique ==
    ASSUME TypeOK, NEW m \in ballots, NEW r \in ballots,
           m.type = "VoteReply", r.type = "VoteReply", m.granted, r.granted,
           m.from = r.from, m.to = r.to, m.term = r.term
    PROVE  m = r
<1>1. m \in VoteReply /\ r \in VoteReply
  BY DEF TypeOK, RequestVote, VoteReply
<1>2. m.granted = TRUE /\ r.granted = TRUE
  BY <1>1 DEF VoteReply
<1> QED BY <1>1, <1>2 DEF VoteReply

\* start_election asks for votes in a term in which nobody can have answered.
LEMMA VotingStart ==
    ASSUME TypeOK, TypeOK', Voting, NEW i \in Server, StartElection(i), Peers(i) # {}
    PROVE  Voting'
<1> DEFINE req(j) == [type |-> "RequestVote", term |-> term[i] + 1, from |-> i, to |-> j,
                      lastIndex |-> Len(log[i]), lastTerm |-> LastTerm(log[i])]
<1>0. VotingTypes
  BY VotingTyped
<1>1. /\ term' = [term EXCEPT ![i] = term[i] + 1]
      /\ votedFor' = [votedFor EXCEPT ![i] = i]
      /\ role' = [role EXCEPT ![i] = "Candidate"]
      /\ votes' = [votes EXCEPT ![i] = 1]
      /\ counted' = [counted EXCEPT ![i] = {}]
      /\ ballots' = ballots \cup {req(j) : j \in Peers(i)}
      /\ UNCHANGED <<grants, elections>>
  BY DEF StartElection
<1>2. /\ term'[i] = term[i] + 1 /\ term[i] \in Nat /\ counted'[i] = {}
      /\ \A k \in Server : k # i => term'[k] = term[k] /\ counted'[k] = counted[k]
  BY <1>0, <1>1 DEF VotingTypes
<1>3. GrantsBind'
  <2> SUFFICES ASSUME NEW g \in grants
               PROVE  /\ g[1] # g[2] /\ g[3] <= term'[g[1]]
                      /\ g[3] = term'[g[1]] => role'[g[1]] = "Follower" /\ votedFor'[g[1]] = g[2]
                      /\ \A h \in grants : g[1] = h[1] /\ g[3] = h[3] => g[2] = h[2]
    BY <1>1 DEF GrantsBind
  <2>1. g[1] \in Server /\ g[2] \in Server /\ g[3] \in Nat
    BY DEF TypeOK
  <2>2. /\ g[1] # g[2] /\ g[3] <= term[g[1]]
        /\ g[3] = term[g[1]] => role[g[1]] = "Follower" /\ votedFor[g[1]] = g[2]
        /\ \A h \in grants : g[1] = h[1] /\ g[3] = h[3] => g[2] = h[2]
    BY DEF Voting, GrantsBind
  <2>3. CASE g[1] = i
    BY <1>2, <2>1, <2>2, <2>3
  <2>4. CASE g[1] # i
    BY <1>0, <1>1, <1>2, <2>1, <2>2, <2>4 DEF VotingTypes
  <2> QED BY <2>3, <2>4
<1>4. SelfVote'
  BY <1>0, <1>1 DEF Voting, SelfVote, VotingTypes
<1>5. \A m \in ballots : m.type = "RequestVote" /\ m.from = i => m.term <= term[i]
  BY DEF Voting, AnsweredOnce
<1>6. \A r \in ballots : r.type = "VoteReply" /\ r.granted /\ r.to = i => r.term <= term[i]
  BY DEF Voting, RepliesUncounted
<1>7. AnsweredOnce'
  <2> SUFFICES ASSUME NEW m \in ballots', m.type = "RequestVote"
               PROVE  /\ m.from # m.to /\ m.term <= term'[m.from]
                      /\ m.term = term'[m.from] => m.to \notin counted'[m.from]
                      /\ \A r \in ballots' :
                           /\ r.from = m.from /\ r.to = m.to /\ r.term = m.term /\ r.type = m.type
                                => r = m
                           /\ ~(r.type = "VoteReply" /\ r.granted /\ r.from = m.to
                                /\ r.to = m.from /\ r.term = m.term)
    BY DEF AnsweredOnce
  <2>1. CASE m \in ballots
    <3>1. /\ m.from # m.to /\ m.term <= term[m.from]
          /\ m.term = term[m.from] => m.to \notin counted[m.from]
          /\ \A r \in ballots :
               /\ r.from = m.from /\ r.to = m.to /\ r.term = m.term /\ r.type = m.type => r = m
               /\ ~(r.type = "VoteReply" /\ r.granted /\ r.from = m.to /\ r.to = m.from
                    /\ r.term = m.term)
      BY <2>1 DEF Voting, AnsweredOnce
    <3>2. m.from \in Server /\ m.term \in Nat
      BY <2>1, BallotTyped
    <3>3. /\ m.term <= term'[m.from]
          /\ m.term = term'[m.from] => m.to \notin counted'[m.from]
      BY <1>2, <3>1, <3>2
    <3>4. ASSUME NEW j \in Peers(i), req(j).from = m.from, req(j).term = m.term PROVE FALSE
      <4>1. m.from = i /\ m.term = term[i] + 1
        BY <3>4
      <4> QED BY <1>2, <1>5, <2>1, <3>2, <4>1
    <3> QED BY <1>1, <3>1, <3>3, <3>4
  <2>2. CASE \E j \in Peers(i) : m = req(j)
    <3>1. PICK j \in Peers(i) : m = req(j)
      BY <2>2
    <3>2. m.from = i /\ m.to = j /\ m.term = term[i] + 1 /\ j # i
      BY <3>1 DEF Peers
    <3>3. ASSUME NEW r \in ballots, r.type = "RequestVote", r.from = i, r.term = term[i] + 1
          PROVE  FALSE
      BY <1>2, <1>5, <3>3
    <3>4. ASSUME NEW r \in ballots, r.type = "VoteReply", r.granted, r.to = i,
                 r.term = term[i] + 1
          PROVE  FALSE
      BY <1>2, <1>6, <3>4
    <3>5. \A k \in Peers(i) : req(k).type = "RequestVote" /\ (req(k).to = j => k = j)
      OBVIOUS
    <3> HIDE DEF req
    <3> QED BY <1>1, <1>2, <3>1, <3>2, <3>3, <3>4, <3>5
  <2> QED BY <1>1, <2>1, <2>2
<1>8. RepliesUncounted'
  <2> SUFFICES ASSUME NEW r \in ballots', r.type = "VoteReply", r.granted
               PROVE  /\ <<r.from, r.to, r.term>> \in grants
                      /\ r.term <= term'[r.to]
                      /\ r.term = term'[r.to] => r.from \notin counted'[r.to]
    BY <1>1 DEF RepliesUncounted
  <2>1. r \in ballots
    BY <1>1
  <2>2. r.to \in Server /\ r.term \in Nat
    BY <2>1, BallotTyped
  <2>3. /\ <<r.from, r.to, r.term>> \in grants
        /\ r.term <= term[r.to]
        /\ r.term = term[r.to] => r.from \notin counted[r.to]
    BY <2>1 DEF Voting, RepliesUncounted
  <2> QED BY <1>2, <2>2, <2>3
<1>9. VotesAreVoters'
  <2> SUFFICES ASSUME NEW k \in Server
               PROVE  /\ \A v \in counted'[k] : v # k /\ <<v, k, term'[k]>> \in grants
                      /\ role'[k] = "Candidate" => votes'[k] = Cardinality(counted'[k]) + 1
    BY <1>1 DEF VotesAreVoters
  <2>1. CASE k = i
    <3>1. votes'[i] = 1 /\ Cardinality({}) = 0
      BY <1>0, <1>1, FS_EmptySet DEF VotingTypes
    <3> QED BY <1>2, <2>1, <3>1
  <2>2. CASE k # i
    <3>1. /\ counted'[k] = counted[k] /\ term'[k] = term[k]
          /\ role'[k] = role[k] /\ votes'[k] = votes[k]
      BY <1>0, <1>1, <2>2 DEF VotingTypes
    <3> QED BY <3>1 DEF Voting, VotesAreVoters
  <2> QED BY <2>1, <2>2
<1>10. WinnersLead'
  <2> SUFFICES ASSUME NEW e \in elections
               PROVE  /\ e.term <= term'[e.leader]
                      /\ e.term = term'[e.leader] => role'[e.leader] = "Leader"
    BY <1>1 DEF Voting, WinnersLead
  <2>1. e.leader \in Server /\ e.term \in Nat
    BY DEF TypeOK
  <2>2. e.term <= term[e.leader] /\ (e.term = term[e.leader] => role[e.leader] = "Leader")
    BY DEF Voting, WinnersLead
  <2> QED BY <1>0, <1>1, <1>2, <2>1, <2>2 DEF VotingTypes
<1>11. LeadersWon' /\ ElectionSafety'
  BY <1>0, <1>1 DEF Voting, LeadersWon, Won, ElectionSafety, VotingTypes
<1> QED BY <1>3, <1>4, <1>7, <1>8, <1>9, <1>10, <1>11 DEF Voting

\* Granting a vote binds the voter: it is, or has just become, a follower that
\* had not voted for anyone else in the term.
LEMMA VotingVote ==
    ASSUME TypeOK, TypeOK', Voting, NEW i \in Server, NEW m \in ballots, HandleRequestVote(i, m)
    PROVE  Voting'
<1> DEFINE newer == m.term > term[i]
           t     == IF newer THEN m.term ELSE term[i]
           vote  == IF newer THEN Nil ELSE votedFor[i]
           grant == m.term = t /\ UpToDate(m, log[i]) /\ CanVote(vote, m.from)
           reply == [type |-> "VoteReply", term |-> t, from |-> i, to |-> m.from,
                     granted |-> grant]
<1>0. VotingTypes /\ term' \in [Server -> Nat]
  BY VotingTyped DEF TypeOK
<1>1. m.term \in Nat /\ m.from \in Server /\ m.to = i /\ m.type = "RequestVote"
  BY BallotTyped DEF HandleRequestVote
<1>2. /\ i # m.from /\ m.term <= term[m.from]
      /\ m.term = term[m.from] => i \notin counted[m.from]
  BY <1>1 DEF Voting, AnsweredOnce
<1>3. /\ votedFor' = [votedFor EXCEPT ![i] = IF grant THEN m.from ELSE vote]
      /\ ballots' = (ballots \ {m}) \cup {reply}
      /\ grants' = IF grant THEN grants \cup {<<i, m.from, t>>} ELSE grants
      /\ elections' = elections
  BY DEF HandleRequestVote
<1>4. /\ term'[i] = t /\ t \in Nat /\ term[i] \in Nat /\ t >= term[i]
      /\ newer => role'[i] = "Follower" /\ counted'[i] = {} /\ votes'[i] = 0 /\ t > term[i]
      /\ ~newer => role'[i] = role[i] /\ counted'[i] = counted[i] /\ votes'[i] = votes[i]
                   /\ t = term[i]
      /\ votedFor'[i] = IF grant THEN m.from ELSE vote
      /\ \A k \in Server : k # i =>
             /\ term'[k] = term[k] /\ role'[k] = role[k] /\ votedFor'[k] = votedFor[k]
             /\ counted'[k] = counted[k] /\ votes'[k] = votes[k]
  <2>1. votedFor'[i] = IF grant THEN m.from ELSE vote
    <3> HIDE DEF grant, vote
    <3> QED BY <1>0, <1>3 DEF VotingTypes
  <2>2. \A k \in Server : k # i => votedFor'[k] = votedFor[k]
    <3> HIDE DEF grant, vote
    <3> QED BY <1>0, <1>3 DEF VotingTypes
  <2>3. CASE newer
    BY <1>0, <1>1, <2>1, <2>2, <2>3 DEF HandleRequestVote, VotingTypes
  <2>4. CASE ~newer
    BY <1>0, <1>1, <2>1, <2>2, <2>4 DEF HandleRequestVote, VotingTypes
  <2> QED BY <2>3, <2>4
<1>5. Nil \notin Server
  BY NilAssumption
<1>6. grant => role'[i] = "Follower" /\ t = m.term
  <2> SUFFICES ASSUME grant, ~newer PROVE role[i] = "Follower"
    BY <1>4
  <2>1. votedFor[i] \in {Nil, m.from}
    BY DEF CanVote
  <2> QED BY <1>2, <1>5, <2>1 DEF Voting, SelfVote
<1>7. \A g \in grants : g[1] = i /\ g[3] = t => ~newer /\ votedFor[i] = g[2] /\ role[i] = "Follower"
  <2> SUFFICES ASSUME NEW g \in grants, g[1] = i, g[3] = t
               PROVE  ~newer /\ votedFor[i] = g[2] /\ role[i] = "Follower"
    OBVIOUS
  <2>1. g[3] <= term[i] /\ (g[3] = term[i] => role[i] = "Follower" /\ votedFor[i] = g[2])
    BY DEF Voting, GrantsBind
  <2> QED BY <1>4, <2>1
<1>8. grant => \A g \in grants : g[1] = i /\ g[3] = t => g[2] = m.from
  <2> SUFFICES ASSUME grant, NEW g \in grants, g[1] = i, g[3] = t PROVE g[2] = m.from
    OBVIOUS
  <2>1. g[2] \in Server
    BY DEF TypeOK
  <2>2. vote = g[2]
    BY <1>7
  <2> QED BY <1>5, <2>1, <2>2 DEF CanVote
<1>9. votedFor'[i] = m.from \/ votedFor'[i] = vote
  BY <1>4
<1> HIDE DEF t, grant, reply
<1>10. GrantsBind'
  <2> SUFFICES ASSUME NEW g \in grants'
               PROVE  /\ g[1] # g[2] /\ g[3] <= term'[g[1]]
                      /\ g[3] = term'[g[1]] => role'[g[1]] = "Follower" /\ votedFor'[g[1]] = g[2]
                      /\ \A h \in grants' : g[1] = h[1] /\ g[3] = h[3] => g[2] = h[2]
    BY DEF GrantsBind
  <2>1. CASE g \in grants
    <3>1. g[1] \in Server /\ g[2] \in Server /\ g[3] \in Nat
      BY <2>1 DEF TypeOK
    <3>2. /\ g[1] # g[2] /\ g[3] <= term[g[1]]
          /\ g[3] = term[g[1]] => role[g[1]] = "Follower" /\ votedFor[g[1]] = g[2]
          /\ \A h \in grants : g[1] = h[1] /\ g[3] = h[3] => g[2] = h[2]
      BY <2>1 DEF Voting, GrantsBind
    <3>3. \A h \in grants' : g[1] = h[1] /\ g[3] = h[3] => g[2] = h[2]
      BY <1>3, <1>8, <2>1, <3>2
    <3>4. CASE g[1] # i
      BY <1>4, <3>1, <3>2, <3>3, <3>4
    <3>5. CASE g[1] = i
      <4>1. g[3] <= term'[i]
        BY <1>4, <3>1, <3>2, <3>5
      <4>2. ASSUME g[3] = term'[i] PROVE role'[i] = "Follower" /\ votedFor'[i] = g[2]
        <5>1. g[3] = t
          BY <1>4, <4>2
        <5>2. ~newer /\ votedFor[i] = g[2] /\ role[i] = "Follower"
          BY <1>7, <2>1, <3>5, <5>1
        <5>3. grant => m.from = g[2]
          BY <1>8, <2>1, <3>5, <5>1
        <5> QED BY <1>4, <5>2, <5>3
      <4> QED BY <3>2, <3>3, <3>5, <4>1, <4>2
    <3> QED BY <3>4, <3>5
  <2>2. CASE grant /\ g = <<i, m.from, t>>
    <3>1. g[1] = i /\ g[2] = m.from /\ g[3] = t
      BY <2>2
    <3>2. \A h \in grants' : h[1] = i /\ h[3] = t => h[2] = m.from
      BY <1>3, <1>8, <2>2
    <3> QED BY <1>2, <1>4, <1>6, <2>2, <3>1, <3>2
  <2> QED BY <1>3, <2>1, <2>2
<1>11. SelfVote'
  <2> SUFFICES ASSUME NEW k \in Server, role'[k] # "Follower" PROVE votedFor'[k] = k
    BY DEF SelfVote
  <2>1. CASE k # i
    BY <1>4, <2>1 DEF Voting, SelfVote
  <2>2. CASE k = i
    <3>1. ~newer /\ ~grant
      BY <1>4, <1>6, <2>2
    <3> QED BY <1>4, <2>2, <3>1 DEF Voting, SelfVote
  <2> QED BY <2>1, <2>2
<1>12. \A k \in Server : term'[k] >= term[k] /\ (term'[k] = term[k] => counted'[k] = counted[k])
  BY <1>0, <1>4 DEF VotingTypes
<1>13. reply.type = "VoteReply" /\ reply.from = i /\ reply.to = m.from /\ reply.term = t
       /\ reply.granted = grant
  BY DEF reply
<1>14. AnsweredOnce'
  <2> SUFFICES ASSUME NEW q \in ballots', q.type = "RequestVote"
               PROVE  /\ q.from # q.to /\ q.term <= term'[q.from]
                      /\ q.term = term'[q.from] => q.to \notin counted'[q.from]
                      /\ \A r \in ballots' :
                           /\ r.from = q.from /\ r.to = q.to /\ r.term = q.term /\ r.type = q.type
                                => r = q
                           /\ ~(r.type = "VoteReply" /\ r.granted /\ r.from = q.to
                                /\ r.to = q.from /\ r.term = q.term)
    BY DEF AnsweredOnce
  <2>1. q \in ballots /\ q # m
    BY <1>3, <1>13
  <2>2. /\ q.from # q.to /\ q.term <= term[q.from]
        /\ q.term = term[q.from] => q.to \notin counted[q.from]
        /\ \A r \in ballots :
             /\ r.from = q.from /\ r.to = q.to /\ r.term = q.term /\ r.type = q.type => r = q
             /\ ~(r.type = "VoteReply" /\ r.granted /\ r.from = q.to /\ r.to = q.from
                  /\ r.term = q.term)
    BY <2>1 DEF Voting, AnsweredOnce
  <2>3. q.from \in Server /\ q.term \in Nat
    BY <2>1, BallotTyped
  <2>4. q.term <= term'[q.from] /\ (q.term = term'[q.from] => q.to \notin counted'[q.from])
    BY <1>0, <1>12, <2>2, <2>3 DEF VotingTypes
  <2>5. ~(reply.granted /\ reply.from = q.to /\ reply.to = q.from /\ reply.term = q.term)
    BY <1>1, <1>6, <1>13, <2>1, <2>2
  <2> QED BY <1>3, <1>13, <2>2, <2>4, <2>5
<1>15. RepliesUncounted'
  <2> SUFFICES ASSUME NEW r \in ballots', r.type = "VoteReply", r.granted
               PROVE  /\ <<r.from, r.to, r.term>> \in grants'
                      /\ r.term <= term'[r.to]
                      /\ r.term = term'[r.to] => r.from \notin counted'[r.to]
    BY DEF RepliesUncounted
  <2>1. CASE r \in ballots
    <3>1. r.to \in Server /\ r.term \in Nat
      BY <2>1, BallotTyped
    <3>2. /\ <<r.from, r.to, r.term>> \in grants
          /\ r.term <= term[r.to]
          /\ r.term = term[r.to] => r.from \notin counted[r.to]
      BY <2>1 DEF Voting, RepliesUncounted
    <3> QED BY <1>0, <1>3, <1>12, <3>1, <3>2 DEF VotingTypes
  <2>2. CASE r = reply
    <3>1. grant /\ r.from = i /\ r.to = m.from /\ r.term = m.term /\ t = m.term
      BY <1>6, <1>13, <2>2
    <3>2. <<i, m.from, m.term>> \in grants'
      BY <1>3, <3>1
    <3> QED BY <1>1, <1>2, <1>4, <3>1, <3>2
  <2> QED BY <1>3, <2>1, <2>2
<1>16. VotesAreVoters'
  <2> SUFFICES ASSUME NEW k \in Server
               PROVE  /\ \A v \in counted'[k] : v # k /\ <<v, k, term'[k]>> \in grants'
                      /\ role'[k] = "Candidate" => votes'[k] = Cardinality(counted'[k]) + 1
    BY DEF VotesAreVoters
  <2>1. CASE k = i /\ newer
    BY <1>4, <2>1
  <2>2. CASE k # i \/ ~newer
    <3>1. /\ counted'[k] = counted[k] /\ term'[k] = term[k]
          /\ role'[k] = role[k] /\ votes'[k] = votes[k]
      BY <1>4, <2>2
    <3> QED BY <1>3, <3>1 DEF Voting, VotesAreVoters
  <2> QED BY <2>1, <2>2
<1>17. WinnersLead'
  <2> SUFFICES ASSUME NEW e \in elections
               PROVE  /\ e.term <= term'[e.leader]
                      /\ e.term = term'[e.leader] => role'[e.leader] = "Leader"
                      /\ e.leader \in e.voters /\ Cardinality(e.voters) >= Majority
                      /\ \A v \in e.voters \ {e.leader} : <<v, e.leader, e.term>> \in grants'
                      /\ \A c \in Server : <<e.leader, c, e.term>> \notin grants'
    BY <1>3 DEF WinnersLead
  <2>1. e.leader \in Server /\ e.term \in Nat
    BY DEF TypeOK
  <2>2. /\ e.term <= term[e.leader]
        /\ e.term = term[e.leader] => role[e.leader] = "Leader"
        /\ e.leader \in e.voters /\ Cardinality(e.voters) >= Majority
        /\ \A v \in e.voters \ {e.leader} : <<v, e.leader, e.term>> \in grants
        /\ \A c \in Server : <<e.leader, c, e.term>> \notin grants
    BY DEF Voting, WinnersLead
  <2>3. e.term <= term'[e.leader] /\ (e.term = term'[e.leader] => role'[e.leader] = "Leader")
    <3>1. CASE e.leader # i
      BY <1>4, <2>1, <2>2, <3>1
    <3>2. CASE e.leader = i
      BY <1>4, <2>1, <2>2, <3>2
    <3> QED BY <3>1, <3>2
  <2>4. ~(grant /\ e.leader = i /\ e.term = t)
    <3> SUFFICES ASSUME grant, e.leader = i, e.term = t PROVE FALSE
      OBVIOUS
    <3>1. role'[i] = "Leader"
      BY <1>4, <2>3
    <3> QED BY <1>6, <3>1
  <2> QED BY <1>3, <2>2, <2>3, <2>4
<1>18. LeadersWon' /\ ElectionSafety'
  <2>1. \A k \in Server : role'[k] = "Leader" => role[k] = "Leader" /\ term'[k] = term[k]
    BY <1>4
  <2> QED BY <1>3, <2>1 DEF Voting, LeadersWon, Won, ElectionSafety
<1> QED BY <1>10, <1>11, <1>14, <1>15, <1>16, <1>17, <1>18 DEF Voting

\* Counting a granted reply takes it out of flight, so that it is counted
\* once.  i is a candidate that stays one or becomes the leader.
LEMMA ReplyCounted ==
    ASSUME TypeOK, Voting, NEW i \in Server, NEW m \in ballots,
           m.type = "VoteReply", m.granted, m.to = i, m.term = term[i],
           ballots' = ballots \ {m}, counted' = [counted EXCEPT ![i] = @ \cup {m.from}],
           UNCHANGED <<term, grants>>
    PROVE  AnsweredOnce' /\ RepliesUncounted' /\ m.from \notin counted[i]
           /\ \A v \in counted'[i] : v # i /\ <<v, i, term[i]>> \in grants
<1>0. VotingTypes
  BY VotingTyped
<1>1. /\ counted'[i] = counted[i] \cup {m.from}
      /\ \A k \in Server : k # i => counted'[k] = counted[k]
  BY <1>0 DEF VotingTypes
<1>2. AnsweredOnce'
  <2> SUFFICES ASSUME NEW q \in ballots', q.type = "RequestVote"
               PROVE  /\ q.from # q.to /\ q.term <= term[q.from]
                      /\ q.term = term[q.from] => q.to \notin counted'[q.from]
                      /\ \A r \in ballots' :
                           /\ r.from = q.from /\ r.to = q.to /\ r.term = q.term /\ r.type = q.type
                                => r = q
                           /\ ~(r.type = "VoteReply" /\ r.granted /\ r.from = q.to
                                /\ r.to = q.from /\ r.term = q.term)
    BY DEF AnsweredOnce
  <2>1. q \in ballots /\ q.from \in Server
    BY BallotTyped
  <2>2. /\ q.from # q.to /\ q.term <= term[q.from]
        /\ q.term = term[q.from] => q.to \notin counted[q.from]
        /\ \A r \in ballots :
             /\ r.from = q.from /\ r.to = q.to /\ r.term = q.term /\ r.type = q.type => r = q
             /\ ~(r.type = "VoteReply" /\ r.granted /\ r.from = q.to /\ r.to = q.from
                  /\ r.term = q.term)
    BY <2>1 DEF Voting, AnsweredOnce
  <2>3. q.from = i /\ q.term = term[i] => q.to # m.from
    BY <2>2
  <2> QED BY <1>1, <2>1, <2>2, <2>3
<1>3. RepliesUncounted'
  <2> SUFFICES ASSUME NEW r \in ballots', r.type = "VoteReply", r.granted
               PROVE  /\ <<r.from, r.to, r.term>> \in grants
                      /\ r.term <= term[r.to]
                      /\ r.term = term[r.to] => r.from \notin counted'[r.to]
    BY DEF RepliesUncounted
  <2>1. r \in ballots /\ r # m /\ r.to \in Server
    BY BallotTyped
  <2>2. /\ <<r.from, r.to, r.term>> \in grants
        /\ r.term <= term[r.to]
        /\ r.term = term[r.to] => r.from \notin counted[r.to]
    BY <2>1 DEF Voting, RepliesUncounted
  <2>3. r.to = i /\ r.term = term[i] => r.from # m.from
    BY <2>1, ReplyUnique
  <2> QED BY <1>1, <2>1, <2>2, <2>3
<1>4. m.from \notin counted[i] /\ <<m.from, i, term[i]>> \in grants
  BY DEF Voting, RepliesUncounted
<1>5. m.from # i
  <2>1. \A g \in grants : g[1] # g[2]
    BY DEF Voting, GrantsBind
  <2> QED BY <1>4, <2>1
<1>6. \A v \in counted'[i] : v # i /\ <<v, i, term[i]>> \in grants
  BY <1>1, <1>4, <1>5 DEF Voting, VotesAreVoters
<1> QED BY <1>2, <1>3, <1>4, <1>6

\* A vote that does not make a majority yet.
LEMMA VotingCount ==
    ASSUME TypeOK, Voting, NEW i \in Server, NEW m \in ballots,
           m.type = "VoteReply", m.granted, m.to = i, m.term = term[i], role[i] = "Candidate",
           ballots' = ballots \ {m}, counted' = [counted EXCEPT ![i] = @ \cup {m.from}],
           votes' = [votes EXCEPT ![i] = @ + 1],
           UNCHANGED <<role, term, votedFor, grants, elections>>
    PROVE  Voting'
<1>0. VotingTypes
  BY VotingTyped
<1>1. /\ AnsweredOnce' /\ RepliesUncounted' /\ m.from \notin counted[i]
      /\ \A v \in counted'[i] : v # i /\ <<v, i, term[i]>> \in grants
  BY ReplyCounted
<1>2. VotesAreVoters'
  <2> SUFFICES ASSUME NEW k \in Server
               PROVE  /\ \A v \in counted'[k] : v # k /\ <<v, k, term[k]>> \in grants
                      /\ role[k] = "Candidate" => votes'[k] = Cardinality(counted'[k]) + 1
    BY DEF VotesAreVoters
  <2>1. CASE k = i
    <3>1. counted[i] \in SUBSET Server /\ votes'[i] = votes[i] + 1
          /\ counted'[i] = counted[i] \cup {m.from}
      BY <1>0 DEF VotingTypes
    <3>2. IsFiniteSet(counted[i])
      BY <3>1, ServerAssumption, FS_Subset
    <3>3. Cardinality(counted'[i]) = Cardinality(counted[i]) + 1 /\ Cardinality(counted[i]) \in Nat
      <4>1. Cardinality(counted[i] \cup {m.from}) = Cardinality(counted[i]) + 1
            /\ Cardinality(counted[i]) \in Nat
        BY <1>1, <3>2, OneMore
      <4> QED BY <3>1, <4>1
    <3>4. votes[i] = Cardinality(counted[i]) + 1
      BY DEF Voting, VotesAreVoters
    <3> QED BY <1>1, <2>1, <3>1, <3>3, <3>4
  <2>2. CASE k # i
    <3>1. counted'[k] = counted[k] /\ votes'[k] = votes[k]
      BY <1>0, <2>2 DEF VotingTypes
    <3> QED BY <3>1 DEF Voting, VotesAreVoters
  <2> QED BY <2>1, <2>2
<1>3. GrantsBind' /\ SelfVote' /\ WinnersLead' /\ LeadersWon' /\ ElectionSafety'
  BY DEF Voting, GrantsBind, SelfVote, WinnersLead, LeadersWon, Won, ElectionSafety
<1> QED BY <1>1, <1>2, <1>3 DEF Voting

\* The vote that makes the majority.  Another winner of the term would share a
\* voter with this one, and no node stands behind both.
LEMMA VotingWin ==
    ASSUME TypeOK, Voting, NEW i \in Server, NEW m \in ballots,
           m.type = "VoteReply", m.granted, m.to = i, m.term = term[i], role[i] = "Candidate",
           votes[i] + 1 >= Majority, ballots' = ballots \ {m},
           BecomeLeader(i, counted[i] \cup {m.from, i}),
           UNCHANGED <<term, votedFor, grants>>
    PROVE  Voting'
<1> DEFINE voters == counted[i] \cup {m.from, i}
           won == [leader |-> i, term |-> term[i], voters |-> voters]
<1>0. VotingTypes /\ m.from \in Server /\ term[i] \in Nat
  BY VotingTyped, BallotTyped DEF VotingTypes
<1>1. <<m.from, i, term[i]>> \in grants
  BY DEF Voting, RepliesUncounted
<1>2. m.from # i /\ i \notin counted[i]
  <2>1. \A g \in grants : g[1] # g[2]
    BY DEF Voting, GrantsBind
  <2> QED BY <1>1, <2>1 DEF Voting, VotesAreVoters
<1>3. counted' = [counted EXCEPT ![i] = @ \cup {m.from}]
  <2>1. counted' = [counted EXCEPT ![i] = voters \ {i}]
    BY DEF BecomeLeader
  <2>2. voters \ {i} = counted[i] \cup {m.from}
    BY <1>2
  <2> QED BY <2>1, <2>2
<1>4. /\ role' = [role EXCEPT ![i] = "Leader"]
      /\ elections' = elections \cup {won}
  BY DEF BecomeLeader
<1>5. /\ AnsweredOnce' /\ RepliesUncounted' /\ m.from \notin counted[i]
      /\ \A v \in counted'[i] : v # i /\ <<v, i, term[i]>> \in grants
  BY <1>3, ReplyCounted
<1>6. /\ role'[i] = "Leader" /\ counted'[i] = counted[i] \cup {m.from}
      /\ \A k \in Server : k # i => role'[k] = role[k] /\ counted'[k] = counted[k]
                                   /\ votes'[k] = votes[k]
  BY <1>0, <1>3, <1>4 DEF BecomeLeader, VotingTypes
<1>7. \A g \in grants : ~(g[1] = i /\ g[3] = term[i])
  BY DEF Voting, GrantsBind
<1>8. GrantsBind'
  <2>1. \A g \in grants : g[1] \in Server
    BY DEF TypeOK
  <2> QED BY <1>6, <1>7, <2>1 DEF Voting, GrantsBind
<1>9. SelfVote'
  <2>1. votedFor[i] = i
    BY DEF Voting, SelfVote
  <2> QED BY <1>6, <2>1 DEF Voting, SelfVote
<1>10. VotesAreVoters'
  BY <1>5, <1>6 DEF Voting, VotesAreVoters
<1>11. voters \in SUBSET Server /\ Cardinality(voters) >= Majority
  <2>1. counted[i] \in SUBSET Server
    BY <1>0 DEF VotingTypes
  <2>2. IsFiniteSet(counted[i]) /\ Cardinality(counted[i]) \in Nat
    BY <2>1, ServerAssumption, FS_Subset, FS_CardinalityType
  <2>3. IsFiniteSet(counted[i] \cup {m.from})
        /\ Cardinality(counted[i] \cup {m.from}) = Cardinality(counted[i]) + 1
    BY <1>5, <2>2, OneMore
  <2>4. voters = (counted[i] \cup {m.from}) \cup {i} /\ i \notin counted[i] \cup {m.from}
    BY <1>2
  <2>5. Cardinality(voters) = Cardinality(counted[i]) + 2
    <3>1. Cardinality((counted[i] \cup {m.from}) \cup {i})
            = Cardinality(counted[i] \cup {m.from}) + 1
      BY <2>3, <2>4, OneMore
    <3> HIDE DEF voters
    <3> QED BY <2>2, <2>3, <2>4, <3>1
  <2>6. votes[i] = Cardinality(counted[i]) + 1
    BY DEF Voting, VotesAreVoters
  <2> QED BY <1>0, <2>1, <2>2, <2>5, <2>6
<1>12. \A v \in voters \ {i} : <<v, i, term[i]>> \in grants
  BY <1>5, <1>6
<1> HIDE DEF voters
<1>13. WinnersLead'
  <2> SUFFICES ASSUME NEW e \in elections'
               PROVE  /\ e.term <= term[e.leader]
                      /\ e.term = term[e.leader] => role'[e.leader] = "Leader"
                      /\ e.leader \in e.voters /\ Cardinality(e.voters) >= Majority
                      /\ \A v \in e.voters \ {e.leader} : <<v, e.leader, e.term>> \in grants
                      /\ \A c \in Server : <<e.leader, c, e.term>> \notin grants
    BY DEF WinnersLead
  <2>1. CASE e \in elections
    <3>1. e.leader \in Server
      BY <2>1 DEF TypeOK
    <3> QED BY <1>6, <2>1, <3>1 DEF Voting, WinnersLead
  <2>2. CASE e = won
    <3>1. e.leader = i /\ e.term = term[i] /\ e.voters = voters
      BY <2>2
    <3>2. \A c \in Server : <<i, c, term[i]>> \notin grants
      BY <1>7
    <3>3. i \in voters
      BY DEF voters
    <3> QED BY <1>0, <1>6, <1>11, <1>12, <3>1, <3>2, <3>3
  <2> QED BY <1>4, <2>1, <2>2
<1>14. LeadersWon'
  <2> SUFFICES ASSUME NEW k \in Server, role'[k] = "Leader"
               PROVE  \E e \in elections' : e.leader = k /\ e.term = term[k]
    BY DEF LeadersWon, Won
  <2>1. CASE k = i
    <3>1. won \in elections' /\ won.leader = i /\ won.term = term[i]
      BY <1>4
    <3> HIDE DEF won
    <3> QED BY <2>1, <3>1
  <2>2. CASE k # i
    BY <1>4, <1>6, <2>2 DEF Voting, LeadersWon, Won
  <2> QED BY <2>1, <2>2
<1>15. \A e \in elections : e.term = term[i] => e.leader = i
  <2> SUFFICES ASSUME NEW e \in elections, e.term = term[i], e.leader # i PROVE FALSE
    OBVIOUS
  <2>1. e.voters \in SUBSET Server /\ e.leader \in Server
    BY DEF TypeOK
  <2>2. /\ Cardinality(e.voters) >= Majority
        /\ \A v \in e.voters \ {e.leader} : <<v, e.leader, term[i]>> \in grants
        /\ <<e.leader, i, term[i]>> \notin grants
    BY DEF Voting, WinnersLead
  <2>3. PICK v \in Server : v \in voters /\ v \in e.voters
    BY <1>11, <2>1, <2>2, MajoritiesMeet
  <2>4. CASE v = i
    <3>1. <<i, e.leader, term[i]>> \in grants
      BY <2>2, <2>3, <2>4
    <3> QED BY <1>7, <3>1
  <2>5. CASE v = e.leader
    <3>1. <<e.leader, i, term[i]>> \in grants
      BY <1>12, <2>3, <2>5
    <3> QED BY <2>2, <3>1
  <2>6. CASE v # i /\ v # e.leader
    <3>1. <<v, i, term[i]>> \in grants /\ <<v, e.leader, term[i]>> \in grants
      BY <1>12, <2>2, <2>3, <2>6
    <3>2. \A g, h \in grants : g[1] = h[1] /\ g[3] = h[3] => g[2] = h[2]
      BY DEF Voting, GrantsBind
    <3> QED BY <3>1, <3>2
  <2> QED BY <2>4, <2>5, <2>6
<1>16. ElectionSafety'
  BY <1>4, <1>15 DEF Voting, ElectionSafety
<1> QED BY <1>5, <1>8, <1>9, <1>10, <1>13, <1>14, <1>16 DEF Voting

\* A node without peers elects itself; it is the only node there is.
LEMMA VotingAlone ==
    ASSUME TypeOK, TypeOK', Voting, NEW i \in Server, StartElection(i), Peers(i) = {}
    PROVE  Voting'
<1>0. VotingTypes
  BY VotingTyped
<1>1. Server = {i}
  BY DEF Peers
<1>2. /\ term' = [term EXCEPT ![i] = term[i] + 1]
      /\ votedFor' = [votedFor EXCEPT ![i] = i]
      /\ BecomeLeader(i, {i}) /\ UNCHANGED <<ballots, grants>>
  BY DEF StartElection
<1>3. /\ role'[i] = "Leader" /\ counted'[i] = {} /\ term'[i] = term[i] + 1 /\ term[i] \in Nat
      /\ elections' = elections \cup {[leader |-> i, term |-> term[i] + 1, voters |-> {i}]}
  BY <1>0, <1>2 DEF BecomeLeader, VotingTypes
<1>4. grants = {}
  <2>1. \A g \in grants : g[1] \in Server /\ g[2] \in Server /\ g[1] # g[2]
    BY DEF TypeOK, Voting, GrantsBind
  <2> QED BY <1>1, <2>1
<1>5. GrantsBind' /\ SelfVote' /\ VotesAreVoters'
  BY <1>0, <1>1, <1>2, <1>3, <1>4 DEF GrantsBind, SelfVote, VotesAreVoters, VotingTypes
<1>6. AnsweredOnce' /\ RepliesUncounted'
  <2>1. \A m \in ballots : m.type # "RequestVote"
    <3>1. \A m \in ballots : m.type = "RequestVote" => m.from # m.to
      BY DEF Voting, AnsweredOnce
    <3> QED BY <1>1, <3>1, BallotTyped
  <2>2. \A m \in ballots : ~(m.type = "VoteReply" /\ m.granted)
    BY <1>4 DEF Voting, RepliesUncounted
  <2> QED BY <1>2, <2>1, <2>2 DEF AnsweredOnce, RepliesUncounted
<1>7. WinnersLead'
  <2>1. Cardinality({i}) = 1 /\ Majority = 1
    <3>1. Cardinality(Server) = 1
      BY <1>1, FS_Singleton
    <3> QED BY <1>1, <3>1 DEF Majority
  <2> SUFFICES ASSUME NEW e \in elections'
               PROVE  /\ e.term <= term'[e.leader]
                      /\ e.term = term'[e.leader] => role'[e.leader] = "Leader"
                      /\ e.leader \in e.voters /\ Cardinality(e.voters) >= Majority
                      /\ \A v \in e.voters \ {e.leader} : <<v, e.leader, e.term>> \in grants
                      /\ \A c \in Server : <<e.leader, c, e.term>> \notin grants
    BY <1>2 DEF WinnersLead
  <2>2. CASE e \in elections
    <3>1. e.leader = i /\ e.term \in Nat
      BY <1>1, <2>2 DEF TypeOK
    <3>2. /\ e.term <= term[i] /\ e.leader \in e.voters /\ Cardinality(e.voters) >= Majority
          /\ \A v \in e.voters \ {e.leader} : <<v, e.leader, e.term>> \in grants
      BY <2>2, <3>1 DEF Voting, WinnersLead
    <3> QED BY <1>3, <1>4, <3>1, <3>2
  <2>3. CASE e = [leader |-> i, term |-> term[i] + 1, voters |-> {i}]
    BY <1>3, <1>4, <2>1, <2>3
  <2> QED BY <1>3, <2>2, <2>3
<1>8. LeadersWon' /\ ElectionSafety'
  <2>1. \A e \in elections' : e.leader = i
    BY <1>1 DEF TypeOK
  <2> QED BY <1>1, <1>3, <2>1 DEF LeadersWon, Won, ElectionSafety
<1> QED BY <1>5, <1>6, <1>7, <1>8 DEF Voting

---------------------------------------------------------------------------
(* The appends: whoever has one in flight won the term it is in.           *)

LEMMA CarriedOffer ==
    ASSUME NEW q \in Seq(AppendMsg), NEW m
    PROVE  Carried(Offer(q, m)) \subseteq Carried(q) \cup {m}
<1>1. CASE Offer(q, m) = q
  BY <1>1
<1>2. CASE Offer(q, m) = Append(q, m)
  BY <1>2 DEF Carried
<1> QED BY <1>1, <1>2 DEF Offer

LEMMA CarriedTaken ==
    ASSUME NEW q \in Seq(AppendMsg), q # <<>>
    PROVE  Head(q) \in Carried(q) /\ Carried(Tail(q)) \subseteq Carried(q)
<1>1. /\ Len(q) \in Nat /\ Len(q) >= 1 /\ DOMAIN q = 1 .. Len(q)
      /\ Head(q) = q[1] /\ Tail(q) \in Seq(AppendMsg) /\ Len(Tail(q)) = Len(q) - 1
      /\ \A k \in 1 .. Len(q) - 1 : Tail(q)[k] = q[k + 1]
  BY EmptySeq, LenProperties, HeadTailProperties
<1>2. DOMAIN Tail(q) = 1 .. Len(q) - 1
  BY <1>1, LenProperties
<1> QED BY <1>1, <1>2 DEF Carried

\* A win of the next state.
WonNow(i, t) == \E e \in elections' : e.leader = i /\ e.term = t

\* Elections are never forgotten, so it is enough to look at what is new.
LEMMA AppendsKept ==
    ASSUME AppendsWon, elections \subseteq elections',
           \A i \in Server : \A th \in Thread : \A e \in unsent'[i][th] :
               e \in unsent[i][th] \/ WonNow(i, e.msg.term),
           \A i, j \in Server : \A m \in Carried(link'[i][j]) :
               m \in Carried(link[i][j]) \/ m.type # "AppendEntries" \/ WonNow(i, m.term)
    PROVE  AppendsWon'
<1>1. \A i \in Server : \A th \in Thread : \A e \in unsent'[i][th] : WonNow(i, e.msg.term)
  BY DEF AppendsWon, Won, WonNow
<1>2. \A i, j \in Server : \A m \in Carried(link'[i][j]) :
          m.type = "AppendEntries" => WonNow(i, m.term)
  BY DEF AppendsWon, Won, WonNow
<1>3. ASSUME NEW i \in Server, NEW j \in Server PROVE Carried(link[i][j])' = Carried(link'[i][j])
  BY DEF Carried
<1> QED BY <1>1, <1>2, <1>3 DEF AppendsWon, Won, WonNow

\* A leader broadcasts in the term it won.
LEMMA AppendsBroadcast ==
    ASSUME TypeOK, AppendsWon, elections \subseteq elections',
           NEW i \in Server, NEW th \in Thread, NEW l, NEW next, NEW c,
           BroadcastAppends(i, th, l, next, c), WonNow(i, term'[i])
    PROVE  AppendsWon'
<1> DEFINE app == [j \in Peers(i) |-> AppendsFor(term'[i], l, next[j], c)]
<1>0. /\ link \in [Server -> [Server -> Seq(AppendMsg)]]
      /\ unsent \in [Server -> [Thread -> SUBSET Envelope]]
  BY DEF TypeOK
<1>1. \A j \in Peers(i) : app[j].term = term'[i]
  BY DEF AppendsFor
<1>2. \/ /\ unsent' = [unsent EXCEPT ![i][th] = {[to |-> j, msg |-> app[j]] : j \in Peers(i)}]
         /\ link' = link
      \/ /\ link' = [link EXCEPT ![i] =
                       [j \in Server |-> IF j \in Peers(i) THEN Offer(link[i][j], app[j])
                                                           ELSE link[i][j]]]
         /\ unsent' = unsent
  BY DEF BroadcastAppends
<1> HIDE DEF app
<1>3. CASE /\ unsent' = [unsent EXCEPT ![i][th] = {[to |-> j, msg |-> app[j]] : j \in Peers(i)}]
           /\ link' = link
  <2>1. ASSUME NEW k \in Server, NEW h \in Thread, NEW e \in unsent'[k][h]
        PROVE  e \in unsent[k][h] \/ WonNow(k, e.msg.term)
    <3>1. CASE k = i /\ h = th
      <4>1. PICK j \in Peers(i) : e = [to |-> j, msg |-> app[j]]
        BY <1>0, <1>3, <2>1, <3>1
      <4>2. e.msg.term = term'[i]
        BY <1>1, <4>1
      <4> QED BY <3>1, <4>2
    <3>2. CASE ~(k = i /\ h = th)
      BY <1>0, <1>3, <2>1, <3>2
    <3> QED BY <3>1, <3>2
  <2> QED BY <1>3, <2>1, AppendsKept
<1>4. CASE /\ link' = [link EXCEPT ![i] =
                         [j \in Server |-> IF j \in Peers(i) THEN Offer(link[i][j], app[j])
                                                             ELSE link[i][j]]]
           /\ unsent' = unsent
  <2>1. ASSUME NEW k \in Server, NEW j \in Server, NEW m \in Carried(link'[k][j])
        PROVE  m \in Carried(link[k][j]) \/ WonNow(k, m.term)
    <3>1. CASE k = i /\ j \in Peers(i)
      <4>1. link'[k][j] = Offer(link[i][j], app[j]) /\ link[i][j] \in Seq(AppendMsg)
        BY <1>0, <1>4, <3>1
      <4>2. m \in Carried(link[i][j]) \/ m = app[j]
        BY <2>1, <4>1, CarriedOffer
      <4> QED BY <1>1, <3>1, <4>2
    <3>2. CASE ~(k = i /\ j \in Peers(i))
      <4>1. link'[k][j] = link[k][j]
        BY <1>0, <1>4, <3>2
      <4> QED BY <2>1, <4>1
    <3> QED BY <3>1, <3>2
  <2> QED BY <1>4, <2>1, AppendsKept
<1> QED BY <1>2, <1>3, <1>4

\* Taking a message out of link[j][i] and answering it with a reply adds no
\* append.
LEMMA AppendsReceived ==
    ASSUME TypeOK, AppendsWon, elections' = elections, unsent' = unsent,
           NEW i \in Server, NEW j \in Server, i # j, link[j][i] # <<>>,
           \/ link' = [link EXCEPT ![j][i] = Tail(@)]
           \/ \E r \in AppendReply : ReplyTo(j, i, r)
    PROVE  AppendsWon'
<1>0. link \in [Server -> [Server -> Seq(AppendMsg)]]
  BY DEF TypeOK
<1>1. Carried(Tail(link[j][i])) \subseteq Carried(link[j][i])
  BY <1>0, CarriedTaken
<1>2. ASSUME NEW k \in Server, NEW n \in Server, NEW m \in Carried(link'[k][n])
      PROVE  m \in Carried(link[k][n]) \/ m.type # "AppendEntries"
  <2>1. CASE link' = [link EXCEPT ![j][i] = Tail(@)]
    <3>1. link'[k][n] = link[k][n] \/ (k = j /\ n = i /\ link'[k][n] = Tail(link[j][i]))
      BY <1>0, <2>1
    <3> QED BY <1>1, <1>2, <3>1
  <2>2. ASSUME NEW r \in AppendReply, ReplyTo(j, i, r)
        PROVE  m \in Carried(link[k][n]) \/ m.type # "AppendEntries"
    <3>1. \/ link'[k][n] = link[k][n]
          \/ k = j /\ n = i /\ link'[k][n] = Tail(link[j][i])
          \/ k = i /\ n = j /\ link'[k][n] = Offer(link[i][j], r)
      BY <1>0, <2>2 DEF ReplyTo
    <3>2. r.type # "AppendEntries"
      BY DEF AppendReply
    <3>3. Carried(Offer(link[i][j], r)) \subseteq Carried(link[i][j]) \cup {r}
      BY <1>0, CarriedOffer
    <3> QED BY <1>1, <1>2, <3>1, <3>2, <3>3
  <2> QED BY <2>1, <2>2
<1> QED BY <1>2, AppendsKept

LEMMA AppendsUntouched ==
    ASSUME AppendsWon, UNCHANGED <<elections, link, unsent>>
    PROVE  AppendsWon'
BY DEF AppendsWon, Won, Carried

\* Becoming leader broadcasts in the term just won.
LEMMA AppendsElected ==
    ASSUME TypeOK, AppendsWon, NEW i \in Server, NEW voters, BecomeLeader(i, voters)
    PROVE  AppendsWon'
<1> DEFINE won == [leader |-> i, term |-> term'[i], voters |-> voters]
<1>1. elections' = elections \cup {won}
  BY DEF BecomeLeader
<1>2. won.leader = i /\ won.term = term'[i]
  OBVIOUS
<1>3. WonNow(i, term'[i])
  <2> HIDE DEF won
  <2> QED BY <1>1, <1>2 DEF WonNow
<1>4. \E l, next, c : BroadcastAppends(i, "pump", l, next, c)
  BY DEF BecomeLeader
<1>5. "pump" \in Thread
  BY DEF Thread
<1> HIDE DEF won
<1> QED BY <1>1, <1>3, <1>4, <1>5, AppendsBroadcast

\* An append that is handled is taken from its link and answered.
LEMMA AppendTaken ==
    ASSUME TypeOK, NEW i \in Server, NEW j \in Peers(i), HandleAppendEntries(i, j)
    PROVE  /\ j \in Server /\ i # j /\ link[j][i] # <<>>
           /\ Head(link[j][i]) \in AppendEntries
           /\ Head(link[j][i]) \in Carried(link[j][i])
           /\ \E r \in AppendReply : ReplyTo(j, i, r)
<1> DEFINE m == Head(link[j][i])
<1>1. j \in Server /\ i # j /\ link[j][i] # <<>> /\ m.type = "AppendEntries"
  BY DEF HandleAppendEntries, Incoming, Peers
<1>2. m \in AppendEntries
  <2>1. m \in AppendMsg
    BY <1>1, ReceiveType
  <2> QED BY <1>1, <2>1 DEF AppendMsg, AppendEntries, AppendReply
<1>3. m.term \in Nat /\ term[i] \in Nat
  <2> HIDE DEF m
  <2> QED BY <1>2, VotingTyped DEF AppendEntries, VotingTypes
<1>4. m \in Carried(link[j][i])
  BY <1>1, CarriedTaken DEF TypeOK
<1>5. \/ ReplyTo(j, i, [type |-> "AppendReply", term |-> term[i],
                        success |-> FALSE, matchIndex |-> 0])
      \/ ReplyTo(j, i, [type |-> "AppendReply", term |-> m.term,
                        success |-> FALSE, matchIndex |-> 0])
      \/ \E k \in Nat : ReplyTo(j, i, [type |-> "AppendReply", term |-> m.term,
                                       success |-> TRUE, matchIndex |-> k])
  <2> DEFINE l == Spliced(m, log[i])
  <2>1. Len(l) \in Nat
    <3>1. m.entries \in Seq(LogEntry)
      BY <1>2 DEF AppendEntries
    <3>2. m.prevIndex \in Nat /\ log[i] \in Seq(LogEntry)
      BY <1>2 DEF AppendEntries, TypeOK
    <3> HIDE DEF m
    <3>3. Len(SubSeq(log[i], 1, m.prevIndex)) \in Nat
      BY <3>2
    <3> QED BY <3>1, <3>2, <3>3 DEF Spliced
  <2> HIDE DEF l
  <2> QED BY <2>1 DEF HandleAppendEntries, l
<1>6. \E r \in AppendReply : ReplyTo(j, i, r)
  <2> HIDE DEF m
  <2> QED BY <1>3, <1>5 DEF AppendReply
<1> QED BY <1>1, <1>2, <1>4, <1>6

LEMMA ElectionStep == TypeOK /\ TypeOK' /\ ElectionInv /\ [Next]_vars => ElectionInv'
<1> SUFFICES ASSUME TypeOK, TypeOK', ElectionInv, [Next]_vars PROVE Voting' /\ AppendsWon'
  BY DEF ElectionInv, Voting
<1>0. Voting /\ AppendsWon
  BY DEF ElectionInv, Voting
<1>1. ASSUME NEW i \in Server, StartElection(i) PROVE Voting' /\ AppendsWon'
  <2>1. CASE Peers(i) = {}
    <3>1. BecomeLeader(i, {i})
      BY <1>1, <2>1 DEF StartElection
    <3> QED BY <1>0, <1>1, <2>1, <3>1, VotingAlone, AppendsElected
  <2>2. CASE Peers(i) # {}
    <3>1. UNCHANGED <<elections, link, unsent>>
      BY <1>1, <2>2 DEF StartElection
    <3> QED BY <1>0, <1>1, <2>2, <3>1, VotingStart, AppendsUntouched
  <2> QED BY <2>1, <2>2
<1>2. ASSUME NEW i \in Server, Heartbeat(i) PROVE Voting' /\ AppendsWon'
  <2>1. UNCHANGED votingVars /\ role[i] = "Leader"
        /\ BroadcastAppends(i, "pump", log[i], nextIndex[i], commit[i])
    BY <1>2 DEF Heartbeat, votingVars, nodeVars, history
  <2>2. WonNow(i, term'[i])
    BY <1>0, <2>1 DEF Voting, LeadersWon, Won, WonNow, votingVars
  <2>3. "pump" \in Thread /\ elections \subseteq elections'
    BY <2>1 DEF Thread, votingVars
  <2> QED BY <1>0, <2>1, <2>2, <2>3, VotingUntouched, AppendsBroadcast
<1>3. ASSUME NEW i \in Server, NEW c \in Caller, NEW v \in Value, Propose(i, c, v)
      PROVE  Voting' /\ AppendsWon'
  <2>1. UNCHANGED votingVars /\ role[i] = "Leader"
    BY <1>3 DEF Propose, votingVars, history
  <2>2. \E l, n : BroadcastAppends(i, c, l, nextIndex[i], n)
    BY <1>3 DEF Propose
  <2>3. WonNow(i, term'[i])
    BY <1>0, <2>1 DEF Voting, LeadersWon, Won, WonNow, votingVars
  <2>4. c \in Thread /\ elections \subseteq elections'
    BY <2>1 DEF Thread, votingVars
  <2> QED BY <1>0, <2>1, <2>2, <2>3, <2>4, VotingUntouched, AppendsBroadcast
<1>4. ASSUME NEW i \in Server, NEW m \in ballots, HandleRequestVote(i, m)
      PROVE  Voting' /\ AppendsWon'
  <2>1. UNCHANGED <<elections, link, unsent>>
    BY <1>4 DEF HandleRequestVote
  <2> QED BY <1>0, <1>4, <2>1, VotingVote, AppendsUntouched
<1>5. ASSUME NEW i \in Server, NEW m \in ballots, HandleVoteReply(i, m)
      PROVE  Voting' /\ AppendsWon'
  <2>1. m.type = "VoteReply" /\ m.to = i /\ ballots' = ballots \ {m} /\ m.term \in Nat
    BY <1>5, BallotTyped DEF HandleVoteReply
  <2>2. CASE /\ m.term > term[i] /\ BecomeFollower(i, m.term)
             /\ UNCHANGED <<link, unsent, grants, elections>>
    BY <1>0, <2>1, <2>2, VotingFollow, AppendsUntouched
  <2>3. CASE /\ m.term = term[i] /\ m.granted /\ role[i] = "Candidate"
             /\ votes[i] + 1 >= Majority
             /\ UNCHANGED <<term, votedFor, grants>>
             /\ BecomeLeader(i, counted[i] \cup {m.from, i})
    BY <1>0, <2>1, <2>3, VotingWin, AppendsElected
  <2>4. CASE /\ m.term = term[i] /\ m.granted /\ role[i] = "Candidate"
             /\ votes' = [votes EXCEPT ![i] = @ + 1]
             /\ counted' = [counted EXCEPT ![i] = @ \cup {m.from}]
             /\ UNCHANGED <<role, term, votedFor, link, unsent, grants, elections>>
    BY <1>0, <2>1, <2>4, VotingCount, AppendsUntouched
  <2>5. CASE /\ ~(m.term = term[i] /\ m.granted /\ role[i] = "Candidate")
             /\ m.term <= term[i]
             /\ UNCHANGED <<nodeVars, link, unsent, history>>
    <3>1. /\ UNCHANGED <<role, term, votedFor, votes, grants, counted, elections>>
          /\ UNCHANGED <<elections, link, unsent>>
      BY <2>5 DEF nodeVars, history
    <3>2. Voting'
      BY <1>0, <2>1, <3>1 DEF Voting, GrantsBind, SelfVote, AnsweredOnce, RepliesUncounted,
                              VotesAreVoters, WinnersLead, LeadersWon, Won, ElectionSafety
    <3> QED BY <1>0, <3>1, <3>2, AppendsUntouched
  <2> QED BY <1>5, <2>2, <2>3, <2>4, <2>5 DEF HandleVoteReply
<1>6. ASSUME NEW i \in Server, NEW j \in Peers(i), HandleAppendEntries(i, j)
      PROVE  Voting' /\ AppendsWon'
  <2> DEFINE m == Head(link[j][i])
  <2>1. /\ j \in Server /\ i # j /\ link[j][i] # <<>> /\ m.type = "AppendEntries"
        /\ UNCHANGED <<ballots, unsent, grants, elections>>
    BY <1>6 DEF HandleAppendEntries, Incoming, Peers
  <2>2. m.term \in Nat /\ term[i] \in Nat
    <3>1. m \in AppendEntries
      BY <1>6, AppendTaken
    <3> HIDE DEF m
    <3> QED BY <3>1, VotingTyped DEF AppendEntries, VotingTypes
  <2>3. \E r \in AppendReply : ReplyTo(j, i, r)
    BY <1>6, AppendTaken
  <2>4. AppendsWon'
    BY <1>0, <2>1, <2>3, AppendsReceived
  <2>5. Won(j, m.term)
    <3>1. m \in Carried(link[j][i])
      BY <2>1, CarriedTaken DEF TypeOK
    <3> HIDE DEF m
    <3> QED BY <1>0, <2>1, <3>1 DEF AppendsWon
  <2>6. ~Won(i, m.term)
    <3> HIDE DEF m
    <3> QED BY <1>0, <2>1, <2>5 DEF Voting, ElectionSafety, Won
  <2>7. CASE /\ m.term > term[i] \/ (m.term = term[i] /\ role[i] # "Follower")
             /\ BecomeFollower(i, m.term)
    <3> HIDE DEF m
    <3> QED BY <1>0, <2>1, <2>2, <2>4, <2>6, <2>7, VotingFollow
  <2>8. CASE UNCHANGED <<term, role, votedFor, votes, counted>>
    <3>1. UNCHANGED votingVars
      BY <2>1, <2>8 DEF votingVars
    <3> QED BY <1>0, <2>4, <3>1, VotingUntouched
  <2> QED BY <1>6, <2>7, <2>8 DEF HandleAppendEntries
<1>7. ASSUME NEW i \in Server, NEW j \in Peers(i), HandleAppendReply(i, j)
      PROVE  Voting' /\ AppendsWon'
  <2> DEFINE m == Head(link[j][i])
  <2>1. /\ j \in Server /\ i # j /\ link[j][i] # <<>> /\ m.type = "AppendReply"
        /\ link' = [link EXCEPT ![j][i] = Tail(@)]
        /\ UNCHANGED <<ballots, unsent, grants, elections>>
    BY <1>7 DEF HandleAppendReply, Incoming, Peers
  <2>2. AppendsWon'
    BY <1>0, <2>1, AppendsReceived
  <2>3. m.term \in Nat
    <3>1. m \in AppendMsg
      BY <2>1, ReceiveType
    <3> HIDE DEF m
    <3> QED BY <3>1 DEF AppendMsg, AppendEntries, AppendReply
  <2>4. CASE m.term > term[i] /\ BecomeFollower(i, m.term)
    <3> HIDE DEF m
    <3> QED BY <1>0, <2>1, <2>2, <2>3, <2>4, VotingFollow
  <2>5. CASE UNCHANGED <<role, term, votedFor, votes, counted>>
    <3>1. UNCHANGED votingVars
      BY <2>1, <2>5 DEF votingVars
    <3> QED BY <1>0, <2>2, <3>1, VotingUntouched
  <2> QED BY <1>7, <2>4, <2>5 DEF HandleAppendReply
<1>8. ASSUME NEW i \in Server, NEW th \in Thread, Publish(i, th) PROVE Voting' /\ AppendsWon'
  <2>1. PICK e \in unsent[i][th] :
            /\ unsent' = [unsent EXCEPT ![i][th] = @ \ {e}]
            /\ link' = [link EXCEPT ![i][e.to] = Offer(@, e.msg)]
    BY <1>8 DEF Publish
  <2>2. UNCHANGED votingVars /\ elections' = elections
    BY <1>8 DEF Publish, votingVars, nodeVars, history
  <2>3. /\ link \in [Server -> [Server -> Seq(AppendMsg)]]
        /\ unsent \in [Server -> [Thread -> SUBSET Envelope]]
    BY DEF TypeOK
  <2>4. e.to \in Server
    BY <2>3 DEF Envelope
  <2>5. WonNow(i, e.msg.term)
    BY <1>0, <2>2 DEF AppendsWon, Won, WonNow
  <2>6. ASSUME NEW k \in Server, NEW n \in Server, NEW m \in Carried(link'[k][n])
        PROVE  m \in Carried(link[k][n]) \/ WonNow(k, m.term)
    <3>1. link'[k][n] = link[k][n] \/ (k = i /\ n = e.to /\ link'[k][n] = Offer(link[i][n], e.msg))
      BY <2>1, <2>3, <2>4
    <3>2. Carried(Offer(link[i][n], e.msg)) \subseteq Carried(link[i][n]) \cup {e.msg}
      BY <2>3, CarriedOffer
    <3> QED BY <2>5, <2>6, <3>1, <3>2
  <2>7. \A k \in Server : \A h \in Thread : unsent'[k][h] \subseteq unsent[k][h]
    BY <2>1, <2>3
  <2>8. AppendsWon'
    BY <1>0, <2>2, <2>6, <2>7, AppendsKept
  <2> QED BY <1>0, <2>2, <2>8, VotingUntouched
<1>9. ASSUME NEW i \in Server, NEW j \in Peers(i), Lose(i, j) PROVE Voting' /\ AppendsWon'
  <2>1. UNCHANGED votingVars /\ UNCHANGED <<elections, unsent>>
        /\ link' = [link EXCEPT ![i][j] = Tail(@)] /\ link[i][j] # <<>>
    BY <1>9 DEF Lose, votingVars, nodeVars, history
  <2> QED BY <1>0, <2>1, VotingUntouched, AppendsReceived DEF Peers
<1>10. CASE UNCHANGED vars
  <2>1. UNCHANGED votingVars /\ UNCHANGED <<elections, link, unsent>>
    BY <1>10 DEF vars, votingVars, nodeVars, netVars, history
  <2> QED BY <1>0, <2>1, VotingUntouched, AppendsUntouched
<1> QED BY <1>1, <1>2, <1>3, <1>4, <1>5, <1>6, <1>7, <1>8, <1>9, <1>10 DEF Next, Tick, Receive

\* The voting invariant holds of every state RaftNode can reach, for any
\* number of nodes and whatever the transport loses or delays.
THEOREM ElectionInvariant == Spec => []ElectionInv
<1>1. Init => ElectionInv
  BY EmptySeq DEF Init, ElectionInv, GrantsBind, SelfVote, AnsweredOnce, RepliesUncounted,
                  VotesAreVoters, WinnersLead, LeadersWon, AppendsWon, Carried, ElectionSafety
<1> QED BY <1>1, ElectionStep, TypeCorrect, PTL DEF Spec

\* Election Safety for every cluster: two nodes never win the same term,
\* although become_follower lets a defeated candidate vote again in its term.
THEOREM ElectionSafe == Spec => []ElectionSafety
<1>1. ElectionInv => ElectionSafety
  BY DEF ElectionInv
<1> QED BY <1>1, ElectionInvariant, PTL
---------------------------------------------------------------------------
(* Log Matching                                                            *)
(*                                                                         *)
(* A log, and the part of a leader's log that an append carries, is a      *)
(* piece: the index and term of the entry before it, and its entries.  Any *)
(* two pieces anywhere, in a node or in flight, agree below every index at *)
(* which their terms are the same.  That is inductive because a leader     *)
(* holds every entry of its term that there is, so what it proposes is at  *)
(* a place no other piece of that term has reached.                        *)

Whole(l) == [prevIndex |-> 0, prevTerm |-> 0, entries |-> l]

IsPiece(P) ==
    /\ P.prevIndex \in Nat /\ P.prevTerm \in Nat /\ P.entries \in Seq(LogEntry)
    /\ P.prevIndex = 0 => P.prevTerm = 0

\* The indexes whose term is known from a piece, the terms, and the entries.
Span(P) == P.prevIndex .. P.prevIndex + Len(P.entries)
EntryAt(P, n) == P.entries[n - P.prevIndex]
TermAt(P, n) == IF n = P.prevIndex THEN P.prevTerm ELSE EntryAt(P, n).term

SameAt(P, Q, k) ==
    /\ TermAt(P, k) = TermAt(Q, k)
    /\ k > P.prevIndex /\ k > Q.prevIndex => EntryAt(P, k) = EntryAt(Q, k)

Agree(P, Q) ==
    \A n \in Span(P) \cap Span(Q) : TermAt(P, n) = TermAt(Q, n) =>
        \A k \in Span(P) \cap Span(Q) : k <= n => SameAt(P, Q, k)

\* S is a part of W.
Within(S, W) ==
    /\ S.prevIndex >= W.prevIndex /\ Span(S) \subseteq Span(W)
    /\ \A n \in Span(S) : SameAt(S, W, n)

\* Every two of the pieces agree, and every term in one of them was won.
Sound(X, E) ==
    /\ \A P \in X : IsPiece(P)
    /\ \A P, Q \in X : Agree(P, Q)
    /\ \A P \in X : \A n \in Span(P) : n > 0 => \E e \in E : e.term = TermAt(P, n)

\* Whoever leads the term t with the log l has every entry of that term.
Leads(X, l, t) ==
    \A P \in X : \A n \in Span(P) :
        n > 0 /\ TermAt(P, n) = t => n \in 1 .. Len(l) /\ l[n].term = t

\* Agreement goes both ways.
LEMMA AgreeBack == ASSUME NEW P, NEW Q, Agree(P, Q) PROVE Agree(Q, P)
  BY DEF Agree, SameAt

\* What agrees with a piece agrees with its parts.
LEMMA AgreeWithin ==
    ASSUME NEW S, NEW W, NEW Q, IsPiece(S), IsPiece(W), IsPiece(Q), Within(S, W), Agree(W, Q)
    PROVE  Agree(S, Q)
<1> SUFFICES ASSUME NEW n \in Span(S) \cap Span(Q), TermAt(S, n) = TermAt(Q, n),
                    NEW k \in Span(S) \cap Span(Q), k <= n
             PROVE  SameAt(S, Q, k)
  BY DEF Agree
<1>1. n \in Span(W) /\ k \in Span(W) /\ SameAt(S, W, n) /\ SameAt(S, W, k)
  BY DEF Within
<1>2. TermAt(W, n) = TermAt(Q, n)
  BY <1>1 DEF SameAt
<1>3. SameAt(W, Q, k)
  BY <1>1, <1>2 DEF Agree
<1>4. k \in Int /\ S.prevIndex \in Nat /\ W.prevIndex \in Nat /\ S.prevIndex >= W.prevIndex
  BY DEF Span, IsPiece, Within
<1> QED
  BY <1>1, <1>3, <1>4 DEF SameAt

\* Parts of one of the pieces may join them.
LEMMA SoundWithin ==
    ASSUME NEW X, NEW E, NEW W \in X, NEW Y, Sound(X, E),
           \A S \in Y : IsPiece(S) /\ Within(S, W)
    PROVE  Sound(X \cup Y, E)
<1>1. IsPiece(W) /\ \A P \in X \cup Y : IsPiece(P)
  BY DEF Sound
<1>2. ASSUME NEW S \in Y, NEW Q \in X PROVE Agree(S, Q) /\ Agree(Q, S)
  <2>1. Agree(W, Q)
    BY DEF Sound
  <2> QED
    BY <2>1, <1>1, AgreeWithin, AgreeBack
<1>3. ASSUME NEW S \in Y, NEW T \in Y PROVE Agree(S, T)
  <2>1. Agree(W, T)
    BY <1>2
  <2> QED
    BY <2>1, <1>1, AgreeWithin
<1>4. \A P, Q \in X \cup Y : Agree(P, Q)
  BY <1>2, <1>3 DEF Sound
<1>5. ASSUME NEW S \in Y, NEW n \in Span(S), n > 0 PROVE \E e \in E : e.term = TermAt(S, n)
  <2>1. n \in Span(W) /\ TermAt(S, n) = TermAt(W, n)
    BY DEF Within, SameAt
  <2> QED
    BY <2>1, <1>5 DEF Sound
<1> QED
  BY <1>1, <1>4, <1>5 DEF Sound

\* A leader has what the parts of a piece have.
LEMMA LeadsWithin ==
    ASSUME NEW X, NEW W \in X, NEW Y, NEW l, NEW t, Leads(X, l, t), \A S \in Y : Within(S, W)
    PROVE  Leads(X \cup Y, l, t)
<1>1. ASSUME NEW S \in Y, NEW n \in Span(S), n > 0, TermAt(S, n) = t
      PROVE  n \in 1 .. Len(l) /\ l[n].term = t
  <2>1. n \in Span(W) /\ TermAt(W, n) = t
    BY <1>1 DEF Within, SameAt
  <2> QED
    BY <2>1, <1>1 DEF Leads
<1> QED
  BY <1>1 DEF Leads

\* A whole log as a piece.
LEMMA WholeFacts ==
    ASSUME NEW l \in Seq(LogEntry)
    PROVE  /\ IsPiece(Whole(l)) /\ Span(Whole(l)) = 0 .. Len(l) /\ Whole(l).prevIndex = 0
           /\ TermAt(Whole(l), 0) = 0
           /\ \A n \in 1 .. Len(l) : EntryAt(Whole(l), n) = l[n] /\ TermAt(Whole(l), n) = l[n].term
<1>1. Whole(l).prevIndex = 0 /\ Whole(l).prevTerm = 0 /\ Whole(l).entries = l /\ Len(l) \in Nat
  BY DEF Whole
<1>2. \A n \in 1 .. Len(l) : n - 0 = n /\ n # 0
  BY <1>1
<1> QED
  BY <1>1, <1>2 DEF IsPiece, Span, TermAt, EntryAt

\* A leader's proposal comes behind every entry of its term, so its longer log
\* still agrees with every piece.
LEMMA SoundProposed ==
    ASSUME NEW X, NEW E, NEW l \in Seq(LogEntry), NEW x \in LogEntry, Whole(l) \in X, Sound(X, E),
           Leads(X, l, x.term), \E e \in E : e.term = x.term
    PROVE  Sound(X \cup {Whole(Append(l, x))}, E)
<1> DEFINE k == Append(l, x)  W == Whole(l)  V == Whole(k)
<1>1. k \in Seq(LogEntry) /\ Len(k) = Len(l) + 1 /\ Len(l) \in Nat /\ k[Len(l) + 1] = x
      /\ \A n \in 1 .. Len(l) : k[n] = l[n]
  OBVIOUS
<1> HIDE DEF k
<1>2. /\ IsPiece(W) /\ Span(W) = 0 .. Len(l) /\ W.prevIndex = 0 /\ TermAt(W, 0) = 0
      /\ \A n \in 1 .. Len(l) : EntryAt(W, n) = l[n] /\ TermAt(W, n) = l[n].term
  BY WholeFacts
<1>3. /\ IsPiece(V) /\ Span(V) = 0 .. Len(l) + 1 /\ V.prevIndex = 0 /\ TermAt(V, 0) = 0
      /\ \A n \in 1 .. Len(l) + 1 : EntryAt(V, n) = k[n] /\ TermAt(V, n) = k[n].term
  BY <1>1, WholeFacts
<1> HIDE DEF V, W
<1>4. \A n \in 0 .. Len(l) : TermAt(V, n) = TermAt(W, n) /\ (n > 0 => EntryAt(V, n) = EntryAt(W, n))
  BY <1>1, <1>2, <1>3
<1>5. W \in X
  BY DEF W
<1>6. ASSUME NEW Q \in X PROVE Agree(V, Q)
  <2> SUFFICES ASSUME NEW n \in Span(V) \cap Span(Q), TermAt(V, n) = TermAt(Q, n),
                      NEW m \in Span(V) \cap Span(Q), m <= n
               PROVE  SameAt(V, Q, m)
    BY DEF Agree
  <2>1. IsPiece(Q) /\ Agree(W, Q)
    BY <1>5 DEF Sound
  <2>2. n # Len(l) + 1
    <3>1. n = Len(l) + 1 => TermAt(Q, n) = x.term /\ n > 0
      BY <1>1, <1>3
    <3>2. n \in Span(Q) /\ (n > 0 /\ TermAt(Q, n) = x.term => n \in 1 .. Len(l))
      BY DEF Leads
    <3> QED
      BY <3>1, <3>2, <1>1
  <2>3. n \in 0 .. Len(l) /\ m \in 0 .. Len(l)
    BY <2>2, <1>1, <1>3
  <2>4. SameAt(W, Q, m)
    BY <2>1, <2>3, <1>2, <1>4 DEF Agree
  <2> QED
    BY <2>1, <2>3, <2>4, <1>2, <1>3, <1>4 DEF SameAt, IsPiece
<1>7. Agree(V, V)
  BY DEF Agree, SameAt
<1>8. ASSUME NEW n \in Span(V), n > 0 PROVE \E e \in E : e.term = TermAt(V, n)
  <2>1. CASE n = Len(l) + 1
    BY <2>1, <1>1, <1>3
  <2>2. CASE n # Len(l) + 1
    <3>1. n \in Span(W) /\ TermAt(V, n) = TermAt(W, n)
      BY <2>2, <1>1, <1>2, <1>3, <1>4
    <3> QED
      BY <3>1, <1>5, <1>8 DEF Sound
  <2> QED
    BY <2>1, <2>2
<1>9. Sound(X \cup {V}, E)
  <2>1. \A P \in X \cup {V} : IsPiece(P)
    BY <1>3 DEF Sound
  <2>2. \A P, Q \in X \cup {V} : Agree(P, Q)
    BY <1>6, <1>7, AgreeBack DEF Sound
  <2>3. \A P \in X \cup {V} : \A n \in Span(P) : n > 0 => \E e \in E : e.term = TermAt(P, n)
    BY <1>8 DEF Sound
  <2> QED
    BY <2>1, <2>2, <2>3 DEF Sound
<1> QED
  BY <1>9 DEF V, k
\* A log cut at the entry before a piece and continued with that piece agrees
\* with whatever both agree with, when the entry before is the same in both.
LEMMA SoundSpliced ==
    ASSUME NEW X, NEW E, NEW l \in Seq(LogEntry), NEW M \in X, Whole(l) \in X, Sound(X, E),
           PrevMatches(M, l)
    PROVE  /\ Spliced(M, l) \in Seq(LogEntry)
           /\ Sound(X \cup {Whole(Spliced(M, l))}, E)
           /\ \A n \in Span(Whole(Spliced(M, l))) : n > 0 =>
                  \E P \in X : n \in Span(P) /\ TermAt(P, n) = TermAt(Whole(Spliced(M, l)), n)
<1> DEFINE p == M.prevIndex  k == Spliced(M, l)  W == Whole(l)  V == Whole(k)
<1>1. p \in Nat /\ M.entries \in Seq(LogEntry) /\ Len(M.entries) \in Nat /\ (p = 0 => M.prevTerm = 0)
      /\ IsPiece(M) /\ Len(l) \in Nat
  BY DEF Sound, IsPiece
<1>2. p <= Len(l) /\ (p > 0 => l[p].term = M.prevTerm)
  BY <1>1 DEF PrevMatches
<1>3. /\ k \in Seq(LogEntry) /\ Len(k) = p + Len(M.entries)
      /\ \A n \in 1 .. p : k[n] = l[n]
      /\ \A n \in p + 1 .. p + Len(M.entries) : k[n] = M.entries[n - p]
  <2> DEFINE a == SubSeq(l, 1, p)
  <2>1. a \in Seq(LogEntry) /\ Len(a) = p /\ \A n \in 1 .. p : a[n] = l[n]
    BY <1>1, <1>2
  <2>2. k = a \o M.entries
    BY DEF Spliced
  <2> DEFINE b == M.entries
  <2>3. b \in Seq(LogEntry) /\ Len(b) \in Nat
    BY <1>1
  <2> HIDE DEF a, b, p
  <2>4. /\ a \o b \in Seq(LogEntry) /\ Len(a \o b) = p + Len(b)
        /\ \A n \in 1 .. p : (a \o b)[n] = a[n]
        /\ \A n \in p + 1 .. p + Len(b) : (a \o b)[n] = b[n - p]
    <3>1. /\ a \o b \in Seq(LogEntry) /\ Len(a \o b) = Len(a) + Len(b)
          /\ \A n \in 1 .. Len(a) + Len(b) : (a \o b)[n] = IF n <= Len(a) THEN a[n] ELSE b[n - Len(a)]
      BY <2>1, <2>3, ConcatProperties
    <3> QED
      BY <3>1, <2>1, <2>3, <1>1
  <2> HIDE DEF k
  <2> QED
    BY <2>1, <2>2, <2>4 DEF b
<1> HIDE DEF k
<1>4. /\ IsPiece(W) /\ Span(W) = 0 .. Len(l) /\ W.prevIndex = 0 /\ TermAt(W, 0) = 0
      /\ \A n \in 1 .. Len(l) : EntryAt(W, n) = l[n] /\ TermAt(W, n) = l[n].term
  BY WholeFacts
<1>5. /\ IsPiece(V) /\ Span(V) = 0 .. p + Len(M.entries) /\ V.prevIndex = 0 /\ TermAt(V, 0) = 0
      /\ \A n \in 1 .. p + Len(M.entries) : EntryAt(V, n) = k[n] /\ TermAt(V, n) = k[n].term
  BY <1>3, WholeFacts
<1> HIDE DEF V, W
<1>6. \A n \in 0 .. p : /\ n \in Span(W) /\ TermAt(V, n) = TermAt(W, n)
                        /\ n > 0 => EntryAt(V, n) = EntryAt(W, n)
  <2> HIDE DEF p
  <2> SUFFICES ASSUME NEW n \in 0 .. p
               PROVE  /\ n \in Span(W) /\ TermAt(V, n) = TermAt(W, n)
                      /\ n > 0 => EntryAt(V, n) = EntryAt(W, n)
    OBVIOUS
  <2>1. CASE n = 0
    BY <2>1, <1>1, <1>4, <1>5
  <2>2. CASE n # 0
    <3>1. n \in 1 .. p /\ n \in 1 .. Len(l) /\ n \in 1 .. p + Len(M.entries)
      BY <2>2, <1>1, <1>2
    <3> QED
      BY <3>1, <1>1, <1>3, <1>4, <1>5
  <2> QED
    BY <2>1, <2>2
<1>7. \A n \in p + 1 .. p + Len(M.entries) :
          n \in Span(M) /\ TermAt(V, n) = TermAt(M, n) /\ EntryAt(V, n) = EntryAt(M, n)
  <2> SUFFICES ASSUME NEW n \in p + 1 .. p + Len(M.entries)
               PROVE  n \in Span(M) /\ TermAt(V, n) = TermAt(M, n) /\ EntryAt(V, n) = EntryAt(M, n)
    OBVIOUS
  <2>1. n # p /\ n \in Span(M) /\ n \in 1 .. p + Len(M.entries)
    BY <1>1 DEF Span
  <2>2. EntryAt(M, n) = k[n] /\ TermAt(M, n) = k[n].term
    BY <2>1, <1>3 DEF EntryAt, TermAt
  <2> QED
    BY <2>1, <2>2, <1>5
<1>8. W \in X
  BY DEF W
<1>9. TermAt(M, p) = TermAt(W, p) /\ p \in Span(M)
  BY <1>1, <1>2, <1>4 DEF TermAt, Span
<1> HIDE DEF p
<1>10. ASSUME NEW Q \in X PROVE Agree(V, Q)
  <2> SUFFICES ASSUME NEW n \in Span(V) \cap Span(Q), TermAt(V, n) = TermAt(Q, n),
                      NEW j \in Span(V) \cap Span(Q), j <= n
               PROVE  SameAt(V, Q, j)
    BY DEF Agree
  <2>1. IsPiece(Q) /\ Agree(W, Q) /\ Agree(M, Q)
    BY <1>8 DEF Sound
  <2>2. n \in 0 .. p + Len(M.entries) /\ j \in 0 .. p + Len(M.entries) /\ Q.prevIndex \in Nat
    BY <2>1, <1>5 DEF IsPiece
  <2>3. CASE n <= p
    <3>1. n \in 0 .. p /\ j \in 0 .. p
      BY <2>2, <2>3, <1>1
    <3>2. SameAt(W, Q, j)
      BY <3>1, <2>1, <1>6 DEF Agree
    <3> QED
      BY <3>1, <3>2, <2>2, <1>4, <1>5, <1>6 DEF SameAt
  <2>4. CASE n > p
    <3>1. n \in p + 1 .. p + Len(M.entries) /\ n \in Span(M) /\ TermAt(M, n) = TermAt(Q, n)
      BY <2>2, <2>4, <1>1, <1>7
    <3>2. \A i \in Span(M) \cap Span(Q) : i <= n => SameAt(M, Q, i)
      BY <3>1, <2>1 DEF Agree
    <3>3. CASE j > p
      <4>1. j \in p + 1 .. p + Len(M.entries)
        BY <2>2, <3>3, <1>1
      <4>2. SameAt(M, Q, j)
        BY <4>1, <3>2, <1>7
      <4> QED
        BY <4>1, <4>2, <3>3, <2>2, <1>1, <1>7 DEF SameAt, p
    <3>4. CASE j <= p
      <4>1. p \in Span(Q)
        <5>1. Q.prevIndex \in Nat /\ Len(Q.entries) \in Nat
          BY <2>1 DEF IsPiece
        <5>2. j >= Q.prevIndex /\ n <= Q.prevIndex + Len(Q.entries)
          BY <5>1 DEF Span
        <5> QED
          BY <5>1, <5>2, <3>4, <2>2, <2>4, <1>1 DEF Span
      <4>2. TermAt(W, p) = TermAt(Q, p) /\ p \in Span(W) /\ j \in 0 .. p
        BY <4>1, <3>1, <3>2, <3>4, <2>2, <2>4, <1>1, <1>6, <1>9 DEF SameAt
      <4>3. SameAt(W, Q, j)
        BY <4>1, <4>2, <3>4, <2>1, <1>6 DEF Agree
      <4> QED
        BY <4>2, <4>3, <2>2, <1>4, <1>5, <1>6 DEF SameAt
    <3> QED
      BY <3>3, <3>4, <2>2, <1>1
  <2> QED
    BY <2>3, <2>4, <2>2, <1>1
<1>11. ASSUME NEW n \in Span(V), n > 0
       PROVE  \E P \in X : n \in Span(P) /\ TermAt(P, n) = TermAt(V, n)
  <2>1. CASE n <= p
    BY <2>1, <1>1, <1>5, <1>6, <1>8, <1>11
  <2>2. CASE n > p
    BY <2>2, <1>1, <1>5, <1>7, <1>11
  <2> QED
    BY <2>1, <2>2, <1>1, <1>5
<1>12. Sound(X \cup {V}, E)
  <2>1. \A P \in X \cup {V} : IsPiece(P)
    BY <1>5 DEF Sound
  <2>2. Agree(V, V)
    BY DEF Agree, SameAt
  <2>3. \A P, Q \in X \cup {V} : Agree(P, Q)
    BY <2>2, <1>10, AgreeBack DEF Sound
  <2>4. \A n \in Span(V) : n > 0 => \E e \in E : e.term = TermAt(V, n)
    BY <1>11 DEF Sound
  <2>5. \A P \in X \cup {V} : \A n \in Span(P) : n > 0 => \E e \in E : e.term = TermAt(P, n)
    BY <2>4 DEF Sound
  <2> QED
    BY <2>1, <2>3, <2>5 DEF Sound
<1> QED
  BY <1>3, <1>11, <1>12 DEF V, k

\* What broadcast_appends sends is a part of the leader's log.
LEMMA AppendsWithin ==
    ASSUME NEW t \in Nat, NEW l \in Seq(LogEntry), NEW next \in Nat \ {0}, NEW c \in Nat,
           next - 1 <= Len(l)
    PROVE  /\ IsPiece(AppendsFor(t, l, next, c))
           /\ Within(AppendsFor(t, l, next, c), Whole(l))
<1> DEFINE S == AppendsFor(t, l, next, c)  W == Whole(l)  p == next - 1  es == SubSeq(l, next, Len(l))
<1>1. /\ S.prevIndex = p /\ S.prevTerm = (IF next = 1 THEN 0 ELSE l[next - 1].term) /\ S.entries = es
      /\ S \in AppendEntries
  BY AppendsForType DEF AppendsFor
<1>2. es \in Seq(LogEntry) /\ Len(es) = Len(l) - p /\ Len(l) \in Nat /\ p \in Nat /\ p <= Len(l)
      /\ \A n \in 1 .. Len(l) - p : es[n] = l[p + n]
  OBVIOUS
<1>3. /\ IsPiece(W) /\ Span(W) = 0 .. Len(l) /\ W.prevIndex = 0 /\ TermAt(W, 0) = 0
      /\ \A n \in 1 .. Len(l) : EntryAt(W, n) = l[n] /\ TermAt(W, n) = l[n].term
  BY WholeFacts
<1>4. IsPiece(S)
  <2>1. S.prevTerm \in Nat
    <3> HIDE DEF S
    <3> QED BY <1>1 DEF AppendEntries
  <2>2. p = 0 => S.prevTerm = 0
    BY <1>1, <1>2
  <2> HIDE DEF S, es
  <2> QED
    BY <2>1, <2>2, <1>1, <1>2 DEF IsPiece
<1>5. next # 1 => p \in 1 .. Len(l) /\ S.prevTerm = l[p].term
  BY <1>1, <1>2
<1>6. next = 1 => p = 0 /\ S.prevTerm = 0
  BY <1>1
<1> HIDE DEF S, W, es, p
<1>7. Span(S) = p .. Len(l)
  BY <1>1, <1>2 DEF Span
<1>8. ASSUME NEW n \in Span(S) PROVE SameAt(S, W, n)
  <2>1. CASE n = p
    BY <2>1, <1>1, <1>2, <1>3, <1>5, <1>6 DEF SameAt, TermAt
  <2>2. CASE n # p
    <3>1. n - p \in 1 .. Len(l) - p /\ n \in 1 .. Len(l) /\ p + (n - p) = n
      BY <2>2, <1>2, <1>7
    <3>2. EntryAt(S, n) = l[n]
      BY <3>1, <1>1, <1>2 DEF EntryAt
    <3> QED
      BY <3>1, <3>2, <2>2, <1>1, <1>3 DEF SameAt, TermAt
  <2> QED
    BY <2>1, <2>2
<1>9. Within(S, W)
  BY <1>1, <1>2, <1>3, <1>7, <1>8 DEF Within
<1> QED
  BY <1>4, <1>9 DEF S, W
---------------------------------------------------------------------------
(* The pieces there are: the logs, and the appends queued or unpublished.  *)

Queued(lk) == UNION {UNION {{m \in Carried(lk[i][j]) : m.type = "AppendEntries"} : j \in Server} : i \in Server}
Unpublished(un) == UNION {UNION {{e.msg : e \in un[i][th]} : th \in Thread} : i \in Server}
Sent(lk, un) == Queued(lk) \cup Unpublished(un)

Pieces(lg, lk, un) == {Whole(lg[i]) : i \in Server} \cup Sent(lk, un)

\* The inductive invariant of Log Matching.
LogInv ==
    /\ Sound(Pieces(log, link, unsent), elections)
    /\ \A i \in Server : role[i] = "Leader" => Leads(Pieces(log, link, unsent), log[i], term[i])

LEMMA SentWhere ==
    ASSUME NEW lk, NEW un, NEW m
    PROVE  m \in Sent(lk, un) <=>
               \/ \E i, j \in Server : m \in Carried(lk[i][j]) /\ m.type = "AppendEntries"
               \/ \E i \in Server, th \in Thread : \E e \in un[i][th] : m = e.msg
<1>1. m \in Queued(lk) <=> \E i, j \in Server : m \in Carried(lk[i][j]) /\ m.type = "AppendEntries"
  BY DEF Queued
<1>2. m \in Unpublished(un) <=> \E i \in Server, th \in Thread : \E e \in un[i][th] : m = e.msg
  BY DEF Unpublished
<1> QED BY <1>1, <1>2 DEF Sent

\* Taking a message out of a link and answering it with a reply adds no append.
LEMMA SentReceived ==
    ASSUME TypeOK, unsent' = unsent, NEW i \in Server, NEW j \in Server, i # j, link[j][i] # <<>>,
           \/ link' = [link EXCEPT ![j][i] = Tail(@)]
           \/ \E r \in AppendReply : ReplyTo(j, i, r)
    PROVE  Sent(link', unsent') \subseteq Sent(link, unsent)
<1>0. link \in [Server -> [Server -> Seq(AppendMsg)]]
  BY DEF TypeOK
<1>1. Carried(Tail(link[j][i])) \subseteq Carried(link[j][i])
  BY <1>0, CarriedTaken
<1>2. ASSUME NEW k \in Server, NEW n \in Server, NEW m \in Carried(link'[k][n])
      PROVE  m \in Carried(link[k][n]) \/ m.type # "AppendEntries"
  <2>1. CASE link' = [link EXCEPT ![j][i] = Tail(@)]
    <3>1. link'[k][n] = link[k][n] \/ (k = j /\ n = i /\ link'[k][n] = Tail(link[j][i]))
      BY <1>0, <2>1
    <3> QED BY <1>1, <1>2, <3>1
  <2>2. ASSUME NEW r \in AppendReply, ReplyTo(j, i, r)
        PROVE  m \in Carried(link[k][n]) \/ m.type # "AppendEntries"
    <3>1. \/ link'[k][n] = link[k][n]
          \/ k = j /\ n = i /\ link'[k][n] = Tail(link[j][i])
          \/ k = i /\ n = j /\ link'[k][n] = Offer(link[i][j], r)
      BY <1>0, <2>2 DEF ReplyTo
    <3>2. r.type # "AppendEntries"
      BY DEF AppendReply
    <3>3. Carried(Offer(link[i][j], r)) \subseteq Carried(link[i][j]) \cup {r}
      BY <1>0, CarriedOffer
    <3> QED BY <1>1, <1>2, <3>1, <3>2, <3>3
  <2> QED BY <2>1, <2>2
<1>3. ASSUME NEW m \in Sent(link', unsent') PROVE m \in Sent(link, unsent)
  <2>1. \/ \E k, n \in Server : m \in Carried(link'[k][n]) /\ m.type = "AppendEntries"
        \/ \E k \in Server, th \in Thread : \E e \in unsent'[k][th] : m = e.msg
    BY SentWhere
  <2>2. \/ \E k, n \in Server : m \in Carried(link[k][n]) /\ m.type = "AppendEntries"
        \/ \E k \in Server, th \in Thread : \E e \in unsent[k][th] : m = e.msg
    BY <2>1, <1>2
  <2> QED BY <2>2, SentWhere
<1> QED BY <1>3

\* Publishing an append moves it.
LEMMA SentPublished ==
    ASSUME TypeOK, NEW i \in Server, NEW th \in Thread, Publish(i, th)
    PROVE  Sent(link', unsent') \subseteq Sent(link, unsent)
<1>1. PICK e \in unsent[i][th] :
          /\ unsent' = [unsent EXCEPT ![i][th] = @ \ {e}]
          /\ link' = [link EXCEPT ![i][e.to] = Offer(@, e.msg)]
  BY DEF Publish
<1>2. /\ link \in [Server -> [Server -> Seq(AppendMsg)]]
      /\ unsent \in [Server -> [Thread -> SUBSET Envelope]]
  BY DEF TypeOK
<1>3. e.to \in Server
  BY <1>2 DEF Envelope
<1>4. ASSUME NEW k \in Server, NEW n \in Server, NEW m \in Carried(link'[k][n])
      PROVE  m \in Carried(link[k][n]) \/ m = e.msg
  <2>1. link'[k][n] = link[k][n] \/ (k = i /\ n = e.to /\ link'[k][n] = Offer(link[i][n], e.msg))
    BY <1>1, <1>2, <1>3
  <2>2. Carried(Offer(link[i][n], e.msg)) \subseteq Carried(link[i][n]) \cup {e.msg}
    BY <1>2, CarriedOffer
  <2> QED BY <1>4, <2>1, <2>2
<1>5. \A k \in Server : \A h \in Thread : unsent'[k][h] \subseteq unsent[k][h]
  BY <1>1, <1>2
<1>6. ASSUME NEW m \in Sent(link', unsent') PROVE m \in Sent(link, unsent)
  <2>1. \/ \E k, n \in Server : m \in Carried(link'[k][n]) /\ m.type = "AppendEntries"
        \/ \E k \in Server, h \in Thread : \E f \in unsent'[k][h] : m = f.msg
    BY SentWhere
  <2>2. \/ \E k, n \in Server : m \in Carried(link[k][n]) /\ m.type = "AppendEntries"
        \/ \E k \in Server, h \in Thread : \E f \in unsent[k][h] : m = f.msg
    BY <2>1, <1>4, <1>5
  <2> QED BY <2>2, SentWhere
<1> QED BY <1>6

\* A broadcast adds what AppendsFor makes of the leader's log.
LEMMA SentBroadcast ==
    ASSUME TypeOK, NEW i \in Server, NEW th \in Thread, NEW l, NEW next, NEW c,
           BroadcastAppends(i, th, l, next, c)
    PROVE  Sent(link', unsent') \subseteq
               Sent(link, unsent) \cup {AppendsFor(term'[i], l, next[j], c) : j \in Peers(i)}
<1> DEFINE app == [j \in Peers(i) |-> AppendsFor(term'[i], l, next[j], c)]
<1>0. /\ link \in [Server -> [Server -> Seq(AppendMsg)]]
      /\ unsent \in [Server -> [Thread -> SUBSET Envelope]]
  BY DEF TypeOK
<1>1. \/ /\ unsent' = [unsent EXCEPT ![i][th] = {[to |-> j, msg |-> app[j]] : j \in Peers(i)}]
         /\ link' = link
      \/ /\ link' = [link EXCEPT ![i] =
                       [j \in Server |-> IF j \in Peers(i) THEN Offer(link[i][j], app[j])
                                                           ELSE link[i][j]]]
         /\ unsent' = unsent
  BY DEF BroadcastAppends
<1>2. \A j \in Peers(i) : app[j] = AppendsFor(term'[i], l, next[j], c)
  OBVIOUS
<1> HIDE DEF app
<1>3. ASSUME NEW k \in Server, NEW h \in Thread, NEW e \in unsent'[k][h]
      PROVE  e \in unsent[k][h] \/ \E j \in Peers(i) : e.msg = app[j]
  <2>1. CASE unsent' = unsent
    BY <1>3, <2>1
  <2>2. CASE unsent' = [unsent EXCEPT ![i][th] = {[to |-> j, msg |-> app[j]] : j \in Peers(i)}]
    <3>1. CASE k = i /\ h = th
      <4>1. PICK j \in Peers(i) : e = [to |-> j, msg |-> app[j]]
        BY <1>0, <1>3, <2>2, <3>1
      <4> QED BY <4>1
    <3>2. CASE ~(k = i /\ h = th)
      BY <1>0, <1>3, <2>2, <3>2
    <3> QED BY <3>1, <3>2
  <2> QED BY <1>1, <2>1, <2>2
<1>4. ASSUME NEW k \in Server, NEW n \in Server, NEW m \in Carried(link'[k][n])
      PROVE  m \in Carried(link[k][n]) \/ \E j \in Peers(i) : m = app[j]
  <2>1. \/ link'[k][n] = link[k][n]
        \/ k = i /\ n \in Peers(i) /\ link'[k][n] = Offer(link[i][n], app[n])
    <3> DEFINE row == [j \in Server |-> IF j \in Peers(i) THEN Offer(link[i][j], app[j]) ELSE link[i][j]]
    <3>1. row[n] = IF n \in Peers(i) THEN Offer(link[i][n], app[n]) ELSE link[i][n]
      OBVIOUS
    <3>2. link' = link \/ link' = [link EXCEPT ![i] = row]
      BY <1>1
    <3> HIDE DEF row
    <3> QED BY <3>1, <3>2, <1>0
  <2>2. link[i][n] \in Seq(AppendMsg)
    BY <1>0
  <2>3. Carried(Offer(link[i][n], app[n])) \subseteq Carried(link[i][n]) \cup {app[n]}
    BY <2>2, CarriedOffer
  <2> QED BY <1>4, <2>1, <2>3
<1>5. ASSUME NEW m \in Sent(link', unsent')
      PROVE  m \in Sent(link, unsent) \/ \E j \in Peers(i) : m = app[j]
  <2>1. \/ \E k, n \in Server : m \in Carried(link'[k][n]) /\ m.type = "AppendEntries"
        \/ \E k \in Server, h \in Thread : \E f \in unsent'[k][h] : m = f.msg
    BY SentWhere
  <2>2. \/ \E k, n \in Server : m \in Carried(link[k][n]) /\ m.type = "AppendEntries"
        \/ \E k \in Server, h \in Thread : \E f \in unsent[k][h] : m = f.msg
        \/ \E j \in Peers(i) : m = app[j]
    BY <2>1, <1>3, <1>4
  <2> QED BY <2>2, SentWhere
<1> QED BY <1>2, <1>5

\* Steps that add no piece, and no leader.
LEMMA LogStill ==
    ASSUME LogInv, Pieces(log', link', unsent') \subseteq Pieces(log, link, unsent),
           elections \subseteq elections',
           \A i \in Server : role'[i] = "Leader" =>
               role[i] = "Leader" /\ term'[i] = term[i] /\ log'[i] = log[i]
    PROVE  LogInv'
<1>1. Sound(Pieces(log', link', unsent'), elections')
  BY DEF LogInv, Sound
<1>2. ASSUME NEW i \in Server, role'[i] = "Leader"
      PROVE  Leads(Pieces(log', link', unsent'), log'[i], term'[i])
  <2>1. Leads(Pieces(log, link, unsent), log[i], term[i])
    BY <1>2 DEF LogInv
  <2> QED BY <2>1, <1>2 DEF Leads
<1>3. Pieces(log, link, unsent)' = Pieces(log', link', unsent')
  BY DEF Pieces, Sent, Queued, Unpublished, Carried, Whole
<1> QED BY <1>1, <1>2, <1>3 DEF LogInv, Sound, Leads, Agree, SameAt, TermAt, EntryAt, Span, IsPiece
\* Fewer pieces, and more elections, are no harder.
LEMMA SoundFewer ==
    ASSUME NEW X, NEW Y, NEW E, NEW F, Sound(X, E), Y \subseteq X, E \subseteq F
    PROVE  Sound(Y, F)
  BY DEF Sound

LEMMA LeadsFewer ==
    ASSUME NEW X, NEW Y, NEW l, NEW t, Leads(X, l, t), Y \subseteq X
    PROVE  Leads(Y, l, t)
  BY DEF Leads

\* The invariant in the next state, by its parts.
LEMMA LogInvNext ==
    ASSUME Sound(Pieces(log', link', unsent'), elections'),
           \A i \in Server : role'[i] = "Leader" => Leads(Pieces(log', link', unsent'), log'[i], term'[i])
    PROVE  LogInv'
<1>1. Pieces(log, link, unsent)' = Pieces(log', link', unsent')
  BY DEF Pieces, Sent, Queued, Unpublished, Carried, Whole
<1> QED BY <1>1 DEF LogInv, Sound, Leads, Agree, SameAt, TermAt, EntryAt, Span, IsPiece

\* A broadcast adds parts of the log it is made from.
LEMMA LogBroadcast ==
    ASSUME TypeOK, NEW i \in Server, NEW th \in Thread, NEW l \in Seq(LogEntry),
           NEW next \in [Server -> Nat \ {0}], NEW c \in Nat, term'[i] \in Nat,
           BroadcastAppends(i, th, l, next, c),
           NEW X, NEW E, Sound(X, E), Whole(l) \in X, Pieces(log', link, unsent) \subseteq X
    PROVE  \E Y : /\ Pieces(log', link', unsent') \subseteq X \cup Y
                  /\ Sound(X \cup Y, E)
                  /\ \A S \in Y : Within(S, Whole(l))
<1> DEFINE Y == {AppendsFor(term'[i], l, next[j], c) : j \in Peers(i)}
<1>1. \A S \in Y : IsPiece(S) /\ Within(S, Whole(l))
  <2> SUFFICES ASSUME NEW j \in Peers(i)
               PROVE  /\ IsPiece(AppendsFor(term'[i], l, next[j], c))
                      /\ Within(AppendsFor(term'[i], l, next[j], c), Whole(l))
    OBVIOUS
  <2>1. next[j] \in Nat \ {0} /\ next[j] - 1 <= Len(l)
    BY DEF BroadcastAppends, CanBroadcast, Peers
  <2> QED BY <2>1, AppendsWithin
<1>2. Sent(link', unsent') \subseteq Sent(link, unsent) \cup Y
  BY SentBroadcast
<1> HIDE DEF Y
<1>3. Pieces(log', link', unsent') \subseteq X \cup Y
  BY <1>2 DEF Pieces
<1>4. Sound(X \cup Y, E)
  BY <1>1, SoundWithin
<1> QED BY <1>1, <1>3, <1>4

\* A heartbeat.
LEMMA LogHeartbeat == ASSUME TypeOK, LogInv, NEW i \in Server, Heartbeat(i) PROVE LogInv'
<1> DEFINE X == Pieces(log, link, unsent)
<1>1. /\ UNCHANGED <<log, role, term, elections>>
      /\ BroadcastAppends(i, "pump", log[i], nextIndex[i], commit[i])
  BY DEF Heartbeat, nodeVars, history
<1>2. /\ log[i] \in Seq(LogEntry) /\ nextIndex[i] \in [Server -> Nat \ {0}] /\ commit[i] \in Nat
      /\ term'[i] \in Nat /\ "pump" \in Thread
  BY <1>1 DEF TypeOK, Thread
<1>3. Whole(log[i]) \in X /\ Pieces(log', link, unsent) \subseteq X /\ Sound(X, elections)
  BY <1>1 DEF Pieces, LogInv
<1> HIDE DEF X
<1>4. PICK Y : /\ Pieces(log', link', unsent') \subseteq X \cup Y
               /\ Sound(X \cup Y, elections)
               /\ \A S \in Y : Within(S, Whole(log[i]))
  BY <1>1, <1>2, <1>3, LogBroadcast
<1>5. Sound(Pieces(log', link', unsent'), elections')
  BY <1>1, <1>4, SoundFewer
<1>6. ASSUME NEW k \in Server, role'[k] = "Leader"
      PROVE  Leads(Pieces(log', link', unsent'), log'[k], term'[k])
  <2>1. Leads(X, log[k], term[k])
    BY <1>1, <1>6 DEF LogInv, X
  <2>2. Leads(X \cup Y, log[k], term[k])
    BY <2>1, <1>3, <1>4, LeadsWithin
  <2> QED BY <2>2, <1>1, <1>4, LeadsFewer
<1> QED BY <1>5, <1>6, LogInvNext

\* A new leader: no entry of its term exists yet.
LEMMA LogElected ==
    ASSUME TypeOK, TypeOK', ElectionInv, ElectionInv', LogInv, NEW i \in Server, NEW voters, BecomeLeader(i, voters),
           log' = log, ~Won(i, term'[i]), \A k \in Server \ {i} : role'[k] = role[k] /\ term'[k] = term[k]
    PROVE  LogInv'
<1> DEFINE X == Pieces(log, link, unsent)
           next == [j \in Server |-> IF j = i THEN 1 ELSE Len(log[i]) + 1]
           won == [leader |-> i, term |-> term'[i], voters |-> voters]
<1>1. /\ BroadcastAppends(i, "pump", log[i], next, commit[i])
      /\ elections' = elections \cup {won}
  BY DEF BecomeLeader
<1>2. /\ log[i] \in Seq(LogEntry) /\ next \in [Server -> Nat \ {0}] /\ commit[i] \in Nat
      /\ term'[i] \in Nat /\ "pump" \in Thread
  <2>1. log[i] \in Seq(LogEntry) /\ Len(log[i]) \in Nat /\ commit[i] \in Nat
    BY DEF TypeOK
  <2>2. term'[i] \in Nat
    BY DEF TypeOK
  <2> QED BY <2>1, <2>2 DEF Thread
<1>3. won.leader = i /\ won.term = term'[i]
  OBVIOUS
<1> HIDE DEF next, won
<1>4. Whole(log[i]) \in X /\ Pieces(log', link, unsent) \subseteq X /\ Sound(X, elections)
  BY DEF Pieces, LogInv
<1>5. \A e \in elections : e.term # term'[i]
  <2> SUFFICES ASSUME NEW e \in elections, e.term = term'[i] PROVE FALSE
    OBVIOUS
  <2>1. e \in elections' /\ won \in elections'
    BY <1>1
  <2>2. e.leader = i
    BY <2>1, <1>3 DEF ElectionInv, ElectionSafety
  <2> QED BY <2>2 DEF Won
<1> HIDE DEF X
<1>6. PICK Y : /\ Pieces(log', link', unsent') \subseteq X \cup Y
               /\ Sound(X \cup Y, elections)
               /\ \A S \in Y : Within(S, Whole(log[i]))
  BY <1>1, <1>2, <1>4, LogBroadcast
<1>7. Sound(Pieces(log', link', unsent'), elections')
  BY <1>1, <1>6, SoundFewer
<1>8. ASSUME NEW k \in Server, role'[k] = "Leader"
      PROVE  Leads(Pieces(log', link', unsent'), log'[k], term'[k])
  <2>1. CASE k = i
    <3>1. ASSUME NEW P \in X \cup Y, NEW n \in Span(P), n > 0 PROVE TermAt(P, n) # term'[i]
      BY <3>1, <1>5, <1>6 DEF Sound
    <3>2. Leads(X \cup Y, log'[k], term'[k])
      BY <2>1, <3>1 DEF Leads
    <3> QED BY <3>2, <1>6, LeadsFewer
  <2>2. CASE k # i
    <3>1. role[k] = "Leader" /\ term'[k] = term[k]
      BY <2>2, <1>8
    <3>2. Leads(X, log[k], term[k])
      BY <3>1 DEF LogInv, X
    <3>3. Leads(X \cup Y, log[k], term[k])
      BY <3>2, <1>4, <1>6, LeadsWithin
    <3> QED BY <3>1, <3>3, <1>6, LeadsFewer
  <2> QED BY <2>1, <2>2
<1> QED BY <1>7, <1>8, LogInvNext

\* A proposal: the leader has every entry of its term, and nobody else leads it.
LEMMA LogProposed ==
    ASSUME TypeOK, ElectionInv, LogInv, NEW i \in Server, NEW c \in Caller, NEW v \in Value, Propose(i, c, v), TypeOK'
    PROVE  LogInv'
<1> DEFINE x == [term |-> term[i], data |-> v]
           l == Append(log[i], x)
           X == Pieces(log, link, unsent)
           Z == X \cup {Whole(l)}
<1>1. /\ role[i] = "Leader" /\ log' = [log EXCEPT ![i] = l]
      /\ UNCHANGED <<role, term, elections>>
  BY DEF Propose, history
<1>2. PICK b \in Nat : BroadcastAppends(i, c, l, nextIndex[i], b)
  <2>1. PICK n \in CommitCandidates(i, l) :
            commit' = [commit EXCEPT ![i] = n] /\ BroadcastAppends(i, c, l, nextIndex[i], n)
    BY DEF Propose
  <2>2. commit'[i] = n /\ commit'[i] \in Nat
    BY <2>1 DEF TypeOK
  <2> QED BY <2>1, <2>2
<1>3. /\ x \in LogEntry /\ x.term = term[i] /\ log[i] \in Seq(LogEntry) /\ nextIndex[i] \in [Server -> Nat \ {0}]
      /\ term'[i] \in Nat /\ c \in Thread
  BY <1>1 DEF TypeOK, Thread, LogEntry
<1> HIDE DEF x
<1>4. l \in Seq(LogEntry) /\ Len(l) = Len(log[i]) + 1 /\ l[Len(log[i]) + 1] = x /\ Len(log[i]) \in Nat
      /\ \A m \in 1 .. Len(log[i]) : l[m] = log[i][m]
  BY <1>3
<1>5. Whole(log[i]) \in X /\ Sound(X, elections) /\ Leads(X, log[i], term[i])
  BY <1>1 DEF Pieces, LogInv
<1>6. \E e \in elections : e.leader = i /\ e.term = x.term
  BY <1>1, <1>3 DEF ElectionInv, LeadersWon, Won
<1>7. Sound(Z, elections)
  <2> HIDE DEF X
  <2> QED BY <1>3, <1>5, <1>6, SoundProposed
<1>8. \A j \in Server : Whole(log'[j]) \in Z
  BY <1>1, <1>3 DEF Pieces, TypeOK
<1>9. Pieces(log', link, unsent) \subseteq Z /\ Whole(l) \in Z
  BY <1>8 DEF Pieces
<1> HIDE DEF l, X, Z
<1>10. PICK Y : /\ Pieces(log', link', unsent') \subseteq Z \cup Y
                /\ Sound(Z \cup Y, elections)
                /\ \A S \in Y : Within(S, Whole(l))
  BY <1>2, <1>3, <1>4, <1>7, <1>9, LogBroadcast
<1>11. Sound(Pieces(log', link', unsent'), elections')
  BY <1>1, <1>10, SoundFewer
<1>12. /\ Span(Whole(l)) = 0 .. Len(log[i]) + 1
       /\ \A m \in 1 .. Len(log[i]) + 1 : TermAt(Whole(l), m) = l[m].term
  BY <1>4, WholeFacts
<1>13. /\ Span(Whole(log[i])) = 0 .. Len(log[i])
       /\ \A m \in 1 .. Len(log[i]) : TermAt(Whole(log[i]), m) = log[i][m].term
  BY <1>3, WholeFacts
<1>14. ASSUME NEW k \in Server, role'[k] = "Leader"
       PROVE  Leads(Pieces(log', link', unsent'), log'[k], term'[k])
  <2>1. CASE k = i
    <3>1. log'[k] = l /\ term'[k] = term[i]
      BY <2>1, <1>1 DEF TypeOK
    <3>2. ASSUME NEW P \in Z, NEW n \in Span(P), n > 0, TermAt(P, n) = term[i]
          PROVE  n \in 1 .. Len(l) /\ l[n].term = term[i]
      <4>1. CASE P \in X
        <5>1. n \in 1 .. Len(log[i]) /\ log[i][n].term = term[i]
          BY <4>1, <3>2, <1>5 DEF Leads
        <5> QED BY <5>1, <1>4
      <4>2. CASE P = Whole(l)
        BY <4>2, <3>2, <1>4, <1>12
      <4> QED BY <4>1, <4>2 DEF Z
    <3>3. Leads(Z, l, term[i])
      BY <3>2 DEF Leads
    <3>4. Leads(Z \cup Y, l, term[i])
      BY <3>3, <1>9, <1>10, LeadsWithin
    <3> QED BY <3>1, <3>4, <1>10, LeadsFewer
  <2>2. CASE k # i
    <3>1. role[k] = "Leader" /\ term'[k] = term[k] /\ log'[k] = log[k]
      BY <2>2, <1>1, <1>14 DEF TypeOK
    <3>2. Leads(X, log[k], term[k])
      BY <3>1 DEF LogInv, X
    <3>3. term[k] # term[i]
      BY <3>1, <2>2, <1>1 DEF ElectionInv, LeadersWon, Won, ElectionSafety
    <3>4. ASSUME NEW P \in Z, NEW n \in Span(P), n > 0, TermAt(P, n) = term[k]
          PROVE  n \in 1 .. Len(log[k]) /\ log[k][n].term = term[k]
      <4>1. CASE P \in X
        BY <4>1, <3>2, <3>4 DEF Leads
      <4>2. CASE P = Whole(l)
        <5>1. n \in 1 .. Len(log[i]) + 1 /\ l[n].term = term[k]
          BY <4>2, <3>4, <1>4, <1>12
        <5>2. n # Len(log[i]) + 1
          BY <5>1, <3>3, <1>3, <1>4
        <5>3. n \in 1 .. Len(log[i]) /\ log[i][n].term = term[k]
          BY <5>1, <5>2, <1>4
        <5>4. n \in Span(Whole(log[i])) /\ TermAt(Whole(log[i]), n) = term[k]
          BY <5>3, <1>4, <1>13
        <5> QED BY <5>4, <3>2, <3>4, <1>5 DEF Leads
      <4> QED BY <4>1, <4>2 DEF Z
    <3>5. Leads(Z, log[k], term[k])
      BY <3>4 DEF Leads
    <3>6. Leads(Z \cup Y, log[k], term[k])
      BY <3>5, <1>9, <1>10, LeadsWithin
    <3> QED BY <3>1, <3>6, <1>10, LeadsFewer
  <2> QED BY <2>1, <2>2
<1> QED BY <1>11, <1>14, LogInvNext

\* An accepted append: what the follower's log becomes is put together from
\* two pieces, and the follower is no leader.
LEMMA LogAccepted ==
    ASSUME TypeOK, TypeOK', LogInv, elections' = elections, unsent' = unsent,
           NEW i \in Server, NEW m \in Sent(link, unsent), PrevMatches(m, log[i]),
           Sent(link', unsent') \subseteq Sent(link, unsent),
           log' = [log EXCEPT ![i] = Spliced(m, log[i])], role'[i] # "Leader",
           \A k \in Server \ {i} : role'[k] = role[k] /\ term'[k] = term[k]
    PROVE  LogInv'
<1> DEFINE X == Pieces(log, link, unsent)  l == Spliced(m, log[i])  Z == X \cup {Whole(l)}
<1>1. Whole(log[i]) \in X /\ m \in X /\ Sound(X, elections) /\ log[i] \in Seq(LogEntry)
  BY DEF Pieces, LogInv, TypeOK
<1>2. \A k \in Server : Whole(log'[k]) \in Z
  BY DEF Pieces, TypeOK
<1>3. Pieces(log', link', unsent') \subseteq Z
  BY <1>2 DEF Pieces
<1> HIDE DEF X
<1>4. /\ Sound(Z, elections)
      /\ \A n \in Span(Whole(l)) : n > 0 =>
             \E P \in X : n \in Span(P) /\ TermAt(P, n) = TermAt(Whole(l), n)
  BY <1>1, SoundSpliced
<1> HIDE DEF l, Z
<1>5. Sound(Pieces(log', link', unsent'), elections')
  BY <1>3, <1>4, SoundFewer
<1>6. ASSUME NEW k \in Server, role'[k] = "Leader"
      PROVE  Leads(Pieces(log', link', unsent'), log'[k], term'[k])
  <2>1. role[k] = "Leader" /\ term'[k] = term[k] /\ log'[k] = log[k]
    BY <1>6 DEF TypeOK
  <2>2. Leads(X, log[k], term[k])
    BY <2>1 DEF LogInv, X
  <2>3. Leads(Z, log[k], term[k])
    BY <2>2, <1>4 DEF Leads, Z
  <2> QED BY <2>1, <2>3, <1>3, LeadsFewer
<1> QED BY <1>5, <1>6, LogInvNext

LEMMA LogStep == TypeOK /\ TypeOK' /\ ElectionInv /\ ElectionInv' /\ LogInv /\ [Next]_vars => LogInv'
<1> SUFFICES ASSUME TypeOK, TypeOK', ElectionInv, ElectionInv', LogInv, [Next]_vars PROVE LogInv'
  OBVIOUS
<1>0. role \in [Server -> {"Follower", "Candidate", "Leader"}] /\ term \in [Server -> Nat]
  BY DEF TypeOK
<1>1. ASSUME NEW i \in Server, StartElection(i) PROVE LogInv'
  <2>1. /\ term' = [term EXCEPT ![i] = @ + 1] /\ log' = log /\ role[i] # "Leader"
    BY <1>1 DEF StartElection
  <2>2. CASE Peers(i) = {}
    <3>1. BecomeLeader(i, {i})
      BY <1>1, <2>2 DEF StartElection
    <3>2. \A k \in Server \ {i} : role'[k] = role[k] /\ term'[k] = term[k]
      BY <2>1, <3>1, <1>0 DEF BecomeLeader
    <3>3. ~Won(i, term'[i])
      <4> SUFFICES ASSUME NEW e \in elections, e.leader = i, e.term = term[i] + 1 PROVE FALSE
        BY <2>1, <1>0 DEF Won
      <4>1. e.term <= term[i]
        BY DEF ElectionInv, WinnersLead
      <4> QED BY <4>1, <1>0
    <3> QED BY <2>1, <3>1, <3>2, <3>3, LogElected
  <2>3. CASE Peers(i) # {}
    <3>1. UNCHANGED <<elections, link, unsent>> /\ role' = [role EXCEPT ![i] = "Candidate"]
      BY <1>1, <2>3 DEF StartElection
    <3>2. \A k \in Server : role'[k] = "Leader" => role[k] = "Leader" /\ term'[k] = term[k]
      BY <2>1, <3>1, <1>0
    <3> QED BY <2>1, <3>1, <3>2, LogStill
  <2> QED BY <2>2, <2>3
<1>2. ASSUME NEW i \in Server, Heartbeat(i) PROVE LogInv'
  BY <1>2, LogHeartbeat
<1>3. ASSUME NEW i \in Server, NEW c \in Caller, NEW v \in Value, Propose(i, c, v) PROVE LogInv'
  BY <1>3, LogProposed
<1>4. ASSUME NEW i \in Server, NEW m \in ballots, HandleRequestVote(i, m) PROVE LogInv'
  <2>1. /\ UNCHANGED <<log, elections, link, unsent>>
        /\ \/ role' = [role EXCEPT ![i] = "Follower"] /\ \E t : term' = [term EXCEPT ![i] = t]
           \/ UNCHANGED <<role, term>>
    BY <1>4 DEF HandleRequestVote
  <2>2. \A k \in Server : role'[k] = "Leader" => role[k] = "Leader" /\ term'[k] = term[k]
    BY <2>1, <1>0
  <2> QED BY <2>1, <2>2, LogStill
<1>5. ASSUME NEW i \in Server, NEW m \in ballots, HandleVoteReply(i, m) PROVE LogInv'
  <2>1. CASE BecomeFollower(i, m.term) /\ UNCHANGED <<log, link, unsent, elections>>
    <3>1. \A k \in Server : role'[k] = "Leader" => role[k] = "Leader" /\ term'[k] = term[k]
      BY <2>1, <1>0 DEF BecomeFollower
    <3> QED BY <2>1, <3>1, LogStill
  <2>2. CASE /\ role[i] = "Candidate" /\ UNCHANGED <<term, log>>
             /\ BecomeLeader(i, counted[i] \cup {m.from, i})
    <3>1. \A k \in Server \ {i} : role'[k] = role[k] /\ term'[k] = term[k]
      BY <2>2, <1>0 DEF BecomeLeader
    <3>2. ~Won(i, term'[i])
      BY <2>2 DEF Won, ElectionInv, WinnersLead
    <3> QED BY <2>2, <3>1, <3>2, LogElected
  <2>3. CASE UNCHANGED <<role, term, log, link, unsent, elections>>
    BY <2>3, LogStill
  <2>4. \/ BecomeFollower(i, m.term) /\ UNCHANGED <<log, link, unsent, elections>>
        \/ /\ role[i] = "Candidate" /\ UNCHANGED <<term, log>>
           /\ BecomeLeader(i, counted[i] \cup {m.from, i})
        \/ UNCHANGED <<role, term, log, link, unsent, elections>>
    BY <1>5 DEF HandleVoteReply, nodeVars, history
  <2> QED BY <2>1, <2>2, <2>3, <2>4
<1>6. ASSUME NEW i \in Server, NEW j \in Peers(i), HandleAppendEntries(i, j) PROVE LogInv'
  <2> DEFINE m == Head(link[j][i])
  <2>1. /\ j \in Server /\ i # j /\ link[j][i] # <<>> /\ m \in AppendEntries
        /\ m \in Carried(link[j][i]) /\ \E r \in AppendReply : ReplyTo(j, i, r)
    BY <1>6, AppendTaken
  <2>2. UNCHANGED <<unsent, elections>>
    BY <1>6 DEF HandleAppendEntries
  <2>3. Sent(link', unsent') \subseteq Sent(link, unsent)
    BY <2>1, <2>2, SentReceived
  <2>4. \/ BecomeFollower(i, m.term)
        \/ UNCHANGED <<role, term>> /\ ~(m.term = term[i] /\ role[i] # "Follower") /\ ~(m.term > term[i])
    BY <1>6 DEF HandleAppendEntries
  <2>5. \/ log' = log
        \/ PrevMatches(m, log[i]) /\ m.term >= term[i] /\ log' = [log EXCEPT ![i] = Spliced(m, log[i])]
    BY <1>6 DEF HandleAppendEntries
  <2>6. m \in Sent(link, unsent) /\ m.term \in Nat
    <3> HIDE DEF m
    <3>1. m.type = "AppendEntries" /\ m.term \in Nat
      BY <2>1 DEF AppendEntries
    <3> QED BY <2>1, <3>1, SentWhere
  <2> HIDE DEF m
  <2>7. \A k \in Server : role'[k] = "Leader" => role[k] = "Leader" /\ term'[k] = term[k]
    BY <2>4, <1>0 DEF BecomeFollower
  <2>8. \A k \in Server \ {i} : role'[k] = role[k] /\ term'[k] = term[k]
    BY <2>4, <1>0 DEF BecomeFollower
  <2>9. CASE log' = log
    <3>1. Pieces(log', link', unsent') \subseteq Pieces(log, link, unsent)
      BY <2>3, <2>9 DEF Pieces
    <3> QED BY <3>1, <2>2, <2>7, <2>9, LogStill
  <2>10. CASE /\ PrevMatches(m, log[i]) /\ m.term >= term[i]
              /\ log' = [log EXCEPT ![i] = Spliced(m, log[i])]
    <3>1. role'[i] # "Leader"
      BY <2>4, <2>6, <2>10, <1>0 DEF BecomeFollower
    <3> QED BY <2>1, <2>2, <2>3, <2>6, <2>8, <2>10, <3>1, LogAccepted
  <2> QED BY <2>5, <2>9, <2>10
<1>7. ASSUME NEW i \in Server, NEW j \in Peers(i), HandleAppendReply(i, j) PROVE LogInv'
  <2>1. /\ j \in Server /\ i # j /\ link[j][i] # <<>>
        /\ link' = [link EXCEPT ![j][i] = Tail(@)] /\ UNCHANGED <<unsent, elections, log>>
    BY <1>7 DEF HandleAppendReply, Incoming, Peers
  <2>2. Pieces(log', link', unsent') \subseteq Pieces(log, link, unsent)
    BY <2>1, SentReceived DEF Pieces
  <2>3. BecomeFollower(i, Head(link[j][i]).term) \/ UNCHANGED <<role, term>>
    BY <1>7 DEF HandleAppendReply
  <2>4. \A k \in Server : role'[k] = "Leader" => role[k] = "Leader" /\ term'[k] = term[k]
    BY <2>3, <1>0 DEF BecomeFollower
  <2> QED BY <2>1, <2>2, <2>4, LogStill
<1>8. ASSUME NEW i \in Server, NEW th \in Thread, Publish(i, th) PROVE LogInv'
  <2>1. UNCHANGED <<role, term, log, elections>>
    BY <1>8 DEF Publish, nodeVars, history
  <2>2. Pieces(log', link', unsent') \subseteq Pieces(log, link, unsent)
    BY <1>8, <2>1, SentPublished DEF Pieces
  <2> QED BY <2>1, <2>2, LogStill
<1>9. ASSUME NEW i \in Server, NEW j \in Peers(i), Lose(i, j) PROVE LogInv'
  <2>1. /\ UNCHANGED <<role, term, log, elections, unsent>> /\ j \in Server /\ i # j
        /\ link' = [link EXCEPT ![i][j] = Tail(@)] /\ link[i][j] # <<>>
    BY <1>9 DEF Lose, nodeVars, history, Peers
  <2>2. Pieces(log', link', unsent') \subseteq Pieces(log, link, unsent)
    BY <2>1, SentReceived DEF Pieces
  <2> QED BY <2>1, <2>2, LogStill
<1>10. CASE UNCHANGED vars
  <2>1. UNCHANGED <<role, term, log, link, unsent, elections>>
    BY <1>10 DEF vars, nodeVars, netVars, history
  <2> QED BY <2>1, LogStill
<1> QED BY <1>1, <1>2, <1>3, <1>4, <1>5, <1>6, <1>7, <1>8, <1>9, <1>10 DEF Next, Tick, Receive

\* Two logs that agree as pieces match in the sense of Log Matching.
LEMMA WholesMatch ==
    ASSUME NEW a \in Seq(LogEntry), NEW b \in Seq(LogEntry), Agree(Whole(a), Whole(b)),
           NEW n \in DOMAIN a \cap DOMAIN b, a[n].term = b[n].term
    PROVE  SubSeq(a, 1, n) = SubSeq(b, 1, n)
<1>1. n \in 1 .. Len(a) /\ n \in 1 .. Len(b) /\ Len(a) \in Nat /\ Len(b) \in Nat
  OBVIOUS
<1>2. /\ Span(Whole(a)) = 0 .. Len(a) /\ Whole(a).prevIndex = 0
      /\ \A k \in 1 .. Len(a) : EntryAt(Whole(a), k) = a[k] /\ TermAt(Whole(a), k) = a[k].term
  BY WholeFacts
<1>3. /\ Span(Whole(b)) = 0 .. Len(b) /\ Whole(b).prevIndex = 0
      /\ \A k \in 1 .. Len(b) : EntryAt(Whole(b), k) = b[k] /\ TermAt(Whole(b), k) = b[k].term
  BY WholeFacts
<1>4. n \in Span(Whole(a)) \cap Span(Whole(b)) /\ TermAt(Whole(a), n) = TermAt(Whole(b), n)
  BY <1>1, <1>2, <1>3
<1>5. ASSUME NEW k \in 1 .. n PROVE a[k] = b[k]
  <2>1. k \in 1 .. Len(a) /\ k \in 1 .. Len(b) /\ k <= n /\ k > 0
    BY <1>1
  <2>2. k \in Span(Whole(a)) \cap Span(Whole(b))
    BY <2>1, <1>1, <1>2, <1>3
  <2>3. SameAt(Whole(a), Whole(b), k)
    BY <2>1, <2>2, <1>4 DEF Agree
  <2> QED BY <2>1, <2>3, <1>2, <1>3 DEF SameAt
<1>6. /\ SubSeq(a, 1, n) \in Seq(LogEntry) /\ Len(SubSeq(a, 1, n)) = n
      /\ SubSeq(b, 1, n) \in Seq(LogEntry) /\ Len(SubSeq(b, 1, n)) = n
      /\ \A k \in 1 .. n : SubSeq(a, 1, n)[k] = a[k] /\ SubSeq(b, 1, n)[k] = b[k]
  BY <1>1
<1> QED BY <1>5, <1>6, SeqEqual

\* Any two pieces of logs, kept by a node or on their way, agree as far as
\* they can be compared, and a leader has every entry of its term.
THEOREM LogInvariant == Spec => []LogInv
<1>1. Init => LogInv
  <2> SUFFICES ASSUME Init PROVE LogInv
    OBVIOUS
  <2>1. /\ \A i \in Server : log[i] = <<>> /\ role[i] # "Leader"
        /\ \A i, j \in Server : link[i][j] = <<>>
        /\ \A i \in Server : \A th \in Thread : unsent[i][th] = {}
    BY DEF Init
  <2>2. ASSUME NEW m PROVE m \notin Sent(link, unsent)
    BY <2>1, SentWhere, EmptySeq DEF Carried
  <2>3. \A P \in Pieces(log, link, unsent) : P = Whole(<<>>)
    BY <2>1, <2>2 DEF Pieces
  <2>4. <<>> \in Seq(LogEntry) /\ Len(<<>>) = 0
    OBVIOUS
  <2>5. IsPiece(Whole(<<>>)) /\ Span(Whole(<<>>)) = 0 .. 0
    BY <2>4, WholeFacts
  <2>6. Agree(Whole(<<>>), Whole(<<>>))
    BY DEF Agree, SameAt
  <2>7. Sound(Pieces(log, link, unsent), elections)
    BY <2>3, <2>5, <2>6 DEF Sound
  <2> QED BY <2>1, <2>7 DEF LogInv
<1> QED BY <1>1, LogStep, ElectionInvariant, TypeCorrect, PTL DEF Spec

\* Log Matching for every cluster, in RaftDriver's overlapping threads as in
\* the single-threaded node, and whatever the transport loses: truncating at
\* prev_index and extending never leaves two logs that disagree below an entry
\* of the same index and term.
THEOREM LogsMatch == Spec => []LogMatching
<1>1. TypeOK /\ LogInv => LogMatching
  <2> SUFFICES ASSUME TypeOK, LogInv, NEW i \in Server, NEW j \in Server,
                      NEW n \in DOMAIN log[i] \cap DOMAIN log[j], log[i][n].term = log[j][n].term
               PROVE  SubSeq(log[i], 1, n) = SubSeq(log[j], 1, n)
    BY DEF LogMatching
  <2>1. Agree(Whole(log[i]), Whole(log[j]))
    BY DEF LogInv, Sound, Pieces
  <2>2. log[i] \in Seq(LogEntry) /\ log[j] \in Seq(LogEntry)
    BY DEF TypeOK
  <2> QED BY <2>1, <2>2, WholesMatch
<1> QED BY <1>1, LogInvariant, TypeCorrect, PTL
===========================================================================
