------------------------------- MODULE Raft -------------------------------
(***************************************************************************)
(* The Raft core of sigil-cluster: RaftNode (tick, step, propose) and the  *)
(* RaftDriver that pumps it over a Transport.                              *)
(*                                                                         *)
(* One action is one critical section of the driver's mutex: a tick that   *)
(* starts an election or a heartbeat, one received message, one proposal.  *)
(* Ticks are abstracted to "the timer may fire": quiet_ticks only decides  *)
(* when, never what.  The code persists nothing and has no restart path:   *)
(* a node that stops never comes back here.                                *)
(*                                                                         *)
(* The transports deliver a message at most once and may lose it.  The     *)
(* RequestVote broadcast topic and the per-node topics are separate        *)
(* channels read by one select!, so ballots are an unordered set, and a    *)
(* lost ballot is one that is never handled; appends and their replies are *)
(* FIFO per sender and receiver.                                           *)
(*                                                                         *)
(* Overlap = TRUE is RaftDriver: tick and propose compute their appends    *)
(* under the mutex and publish them after releasing it, so a caller's      *)
(* thread and the pump can publish in the other order; with Caller =       *)
(* {"pump"} one thread does both, and the receivers see its publishes one  *)
(* by one.  Overlap = FALSE is RaftNode driven by one thread, as its unit  *)
(* tests do.                                                               *)
(***************************************************************************)
EXTENDS Integers, Sequences, FiniteSets

CONSTANTS
    Server,     \* the node ids: one node's id plus its peers
    Value,      \* opaque catalog bytes
    Nil,        \* Option::None
    Caller,     \* threads that call RaftDriver::propose; "pump" is the pump's own
    Overlap,    \* may a thread be preempted between unlocking and publishing?
    MaxTerm,    \* bound: no election starts a term above this one
    MaxLog,     \* bound: no proposal makes a log longer than this
    MaxElections, \* bound: elections started in all
    MaxLost,    \* bound: appends and replies lost in all
    QueueCap    \* capacity of a transport queue (1024 in the code)

ASSUME ServerAssumption == IsFiniteSet(Server) /\ Server # {}
ASSUME NilAssumption == Nil \notin Server
ASSUME BoundAssumption ==
    /\ MaxTerm \in Nat
    /\ MaxLog \in Nat
    /\ MaxElections \in Nat
    /\ MaxLost \in Nat
    /\ QueueCap \in Nat
    /\ Overlap \in BOOLEAN

VARIABLES
    role,       \* RaftState's variant
    term,
    votedFor,   \* voted_for
    votes,      \* Candidate { votes }, 0 in the other variants
    log,
    commit,
    nextIndex,  \* Leader { next_index }, all 1 in the other variants
    matchIndex, \* Leader { match_index }, all 0 in the other variants
    hint,       \* leader_hint
    ballots,    \* RequestVote and VoteReply messages in flight
    link,       \* link[i][j]: appends and replies in flight from i to j
    unsent,     \* unsent[i][t]: what thread t of i has yet to publish
    started,    \* elections started, for MaxElections
    lost,       \* messages lost, for MaxLost
    \* History, read by no guard:
    grants,     \* votes given to another node, as <<voter, candidate, term>>
    counted,    \* the peers whose vote a candidate or leader has counted
    elections,  \* the elections won
    ledger,     \* ledger[t]: the log of the leader of term t, while it led
    held        \* held[i][t]: how much of ledger[t] node i has had in its log in term t

nodeVars == <<role, term, votedFor, votes, log, commit, nextIndex, matchIndex, hint>>
netVars  == <<ballots, link, unsent>>
history  == <<grants, counted, elections>>
trail    == <<ledger, held>>
bounds   == <<started, lost>>
vars     == <<nodeVars, netVars, bounds, history, trail>>

Term == 0 .. MaxTerm
Thread == Caller \cup {"pump"}
Peers(i) == Server \ {i}

LogEntry == [term : Nat, data : Value]

RequestVote == [type : {"RequestVote"}, term : Nat, from : Server, to : Server,
                lastIndex : Nat, lastTerm : Nat]
VoteReply == [type : {"VoteReply"}, term : Nat, from : Server, to : Server,
              granted : BOOLEAN]
AppendEntries == [type : {"AppendEntries"}, term : Nat, prevIndex : Nat, prevTerm : Nat,
                  entries : Seq(LogEntry), leaderCommit : Nat]
AppendReply == [type : {"AppendReply"}, term : Nat, success : BOOLEAN, matchIndex : Nat]
AppendMsg == AppendEntries \cup AppendReply
Envelope == [to : Server, msg : AppendEntries]

\* The state machine's fields and the messages have their types.
TypeOK ==
    /\ role \in [Server -> {"Follower", "Candidate", "Leader"}]
    /\ term \in [Server -> Nat]
    /\ votedFor \in [Server -> Server \cup {Nil}]
    /\ votes \in [Server -> Nat]
    /\ log \in [Server -> Seq(LogEntry)]
    /\ commit \in [Server -> Nat]
    /\ nextIndex \in [Server -> [Server -> Nat \ {0}]]
    /\ matchIndex \in [Server -> [Server -> Nat]]
    /\ hint \in [Server -> Server \cup {Nil}]
    /\ ballots \in SUBSET (RequestVote \cup VoteReply)
    /\ link \in [Server -> [Server -> Seq(AppendMsg)]]
    /\ unsent \in [Server -> [Thread -> SUBSET Envelope]]
    /\ started \in Nat
    /\ lost \in Nat
    /\ grants \in SUBSET (Server \X Server \X Nat)
    /\ counted \in [Server -> SUBSET Server]
    /\ elections \in SUBSET [leader : Server, term : Nat, voters : SUBSET Server]

---------------------------------------------------------------------------
(* RaftNode: helpers                                                       *)

LastTerm(l) == IF l = <<>> THEN 0 ELSE l[Len(l)].term

\* peers.len().div_ceil(2) + 1
Majority ==
    LET peers == Cardinality(Server) - 1
    IN  (peers + 1) \div 2 + 1

NoNext == [j \in Server |-> 1]
NoMatch == [j \in Server |-> 0]

\* A message is queued unless the queue is full; then it is dropped.
Offer(queue, m) == IF Len(queue) < QueueCap THEN Append(queue, m) ELSE queue

\* The index of the entry before the ones peer j is sent exists in the log
\* l.  Otherwise broadcast_appends indexes past the end and the thread
\* panics: it takes no step.
CanBroadcast(i, l, next) == \A j \in Peers(i) : next[j] - 1 <= Len(l)

AppendsFor(t, l, next, c) ==
    [type |-> "AppendEntries", term |-> t, prevIndex |-> next - 1,
     prevTerm |-> IF next = 1 THEN 0 ELSE l[next - 1].term,
     entries |-> SubSeq(l, next, Len(l)), leaderCommit |-> c]

\* broadcast_appends, then RaftDriver::send by thread th.
BroadcastAppends(i, th, l, next, c) ==
    LET app == [j \in Peers(i) |-> AppendsFor(term'[i], l, next[j], c)]
    IN  /\ CanBroadcast(i, l, next)
        /\ IF Overlap
           THEN /\ unsent' = [unsent EXCEPT ![i][th] =
                                 {[to |-> j, msg |-> app[j]] : j \in Peers(i)}]
                /\ UNCHANGED link
           ELSE /\ link' = [link EXCEPT ![i] =
                               [j \in Server |-> IF j \in Peers(i) THEN Offer(link[i][j], app[j])
                                                                   ELSE link[i][j]]]
                /\ UNCHANGED unsent

\* The pump handles the next tick or message once it has published.
PumpIdle(i) == unsent[i]["pump"] = {}

\* ReplicasTwice is a mutant: it counts the leader itself twice.
\* advance_commit walks down from the end of the log l to the highest index
\* n of the current term that a majority holds; without one commit stays.
ReplicasTwice(match, n) == 2 + Cardinality({j \in Server : match[j] >= n})
Replicas(match, n) == 1 + Cardinality({j \in Server : match[j] >= n})
Committable(i, l, match, n) == l[n].term = term[i] /\ Replicas(match, n) >= Majority
CommitCandidates(i, l) == {commit[i]} \cup (commit[i] + 1 .. Len(l))
AdvanceCommit(i, l, match, n) ==
    /\ n # commit[i] => Committable(i, l, match, n)
    /\ \A k \in commit[i] + 1 .. Len(l) : k > n => ~Committable(i, l, match, k)

\* become_follower
BecomeFollower(i, t) ==
    /\ term' = [term EXCEPT ![i] = t]
    /\ role' = [role EXCEPT ![i] = "Follower"]
    /\ votedFor' = [votedFor EXCEPT ![i] = Nil]
    /\ votes' = [votes EXCEPT ![i] = 0]
    /\ nextIndex' = [nextIndex EXCEPT ![i] = NoNext]
    /\ matchIndex' = [matchIndex EXCEPT ![i] = NoMatch]
    /\ counted' = [counted EXCEPT ![i] = {}]

\* A leader's log is l.
LeadsWith(i, l) ==
    /\ ledger' = [ledger EXCEPT ![term'[i]] = l]
    /\ held' = [held EXCEPT ![i][term'[i]] = Len(l)]

\* become_leader, at the term and with the voters the caller fixes.
BecomeLeader(i, voters) ==
    LET next == [j \in Server |-> IF j = i THEN 1 ELSE Len(log[i]) + 1]
    IN  /\ role' = [role EXCEPT ![i] = "Leader"]
        /\ votes' = [votes EXCEPT ![i] = 0]
        /\ nextIndex' = [nextIndex EXCEPT ![i] = next]
        /\ matchIndex' = [matchIndex EXCEPT ![i] = NoMatch]
        /\ hint' = [hint EXCEPT ![i] = Nil]
        /\ counted' = [counted EXCEPT ![i] = voters \ {i}]
        /\ elections' = elections \cup {[leader |-> i, term |-> term'[i], voters |-> voters]}
        /\ LeadsWith(i, log[i])
        /\ BroadcastAppends(i, "pump", log[i], next, commit[i])

---------------------------------------------------------------------------
(* RaftNode: tick                                                          *)

\* tick past election_after: start_election.
StartElection(i) ==
    /\ PumpIdle(i)
    /\ role[i] # "Leader"
    /\ term[i] < MaxTerm
    /\ started < MaxElections
    /\ started' = started + 1
    /\ term' = [term EXCEPT ![i] = @ + 1]
    /\ votedFor' = [votedFor EXCEPT ![i] = i]
    /\ IF Peers(i) = {}
       THEN BecomeLeader(i, {i}) /\ UNCHANGED ballots
       ELSE /\ role' = [role EXCEPT ![i] = "Candidate"]
            /\ votes' = [votes EXCEPT ![i] = 1]
            /\ counted' = [counted EXCEPT ![i] = {}]
            /\ ballots' = ballots \cup
                   {[type |-> "RequestVote", term |-> term[i] + 1, from |-> i, to |-> j,
                     lastIndex |-> Len(log[i]), lastTerm |-> LastTerm(log[i])] : j \in Peers(i)}
            /\ UNCHANGED <<nextIndex, matchIndex, hint, elections, link, unsent, trail>>
    /\ UNCHANGED <<log, commit, grants, lost>>

\* tick past heartbeat_every.
Heartbeat(i) ==
    /\ PumpIdle(i)
    /\ role[i] = "Leader"
    /\ UNCHANGED <<nodeVars, ballots, bounds, history, trail>>
    /\ BroadcastAppends(i, "pump", log[i], nextIndex[i], commit[i])

---------------------------------------------------------------------------
(* RaftNode: propose, called through RaftDriver::propose by thread c       *)

Propose(i, c, v) ==
    LET l == Append(log[i], [term |-> term[i], data |-> v])
    IN  /\ role[i] = "Leader"
        /\ Len(log[i]) < MaxLog
        /\ unsent[i][c] = {}
        /\ log' = [log EXCEPT ![i] = l]
        /\ UNCHANGED <<role, term, votedFor, votes, nextIndex, matchIndex, hint, ballots>>
        /\ UNCHANGED <<bounds, history>>
        /\ LeadsWith(i, l)
        /\ \E n \in CommitCandidates(i, l) :
               /\ AdvanceCommit(i, l, matchIndex[i], n)
               /\ commit' = [commit EXCEPT ![i] = n]
               /\ BroadcastAppends(i, c, l, nextIndex[i], n)

---------------------------------------------------------------------------
(* RaftNode: step                                                          *)

\* Mutant: compares the candidate's term with the last entry's.
UpToDateByTerm(m, l) == m.term >= LastTerm(l)

UpToDate(m, l) ==
    \/ m.lastTerm > LastTerm(l)
    \/ m.lastTerm = LastTerm(l) /\ m.lastIndex >= Len(l)

\* Mutant: votes for whoever asks.
CanVoteTwice(vote, from) == TRUE

CanVote(vote, from) == vote \in {Nil, from}

HandleRequestVote(i, m) ==
    LET newer == m.term > term[i]
        t     == IF newer THEN m.term ELSE term[i]
        vote  == IF newer THEN Nil ELSE votedFor[i]
        grant == m.term = t /\ UpToDate(m, log[i]) /\ CanVote(vote, m.from)
    IN  /\ PumpIdle(i)
        /\ m \in ballots /\ m.type = "RequestVote" /\ m.to = i
        /\ IF newer
           THEN /\ term' = [term EXCEPT ![i] = t]
                /\ role' = [role EXCEPT ![i] = "Follower"]
                /\ votes' = [votes EXCEPT ![i] = 0]
                /\ nextIndex' = [nextIndex EXCEPT ![i] = NoNext]
                /\ matchIndex' = [matchIndex EXCEPT ![i] = NoMatch]
                /\ counted' = [counted EXCEPT ![i] = {}]
           ELSE UNCHANGED <<term, role, votes, nextIndex, matchIndex, counted>>
        /\ votedFor' = [votedFor EXCEPT ![i] = IF grant THEN m.from ELSE vote]
        /\ ballots' = (ballots \ {m}) \cup
               {[type |-> "VoteReply", term |-> t, from |-> i, to |-> m.from, granted |-> grant]}
        /\ grants' = IF grant THEN grants \cup {<<i, m.from, t>>} ELSE grants
        /\ UNCHANGED <<log, commit, hint, link, unsent, bounds, elections, trail>>

HandleVoteReply(i, m) ==
    /\ PumpIdle(i)
    /\ m \in ballots /\ m.type = "VoteReply" /\ m.to = i
    /\ ballots' = ballots \ {m}
    /\ UNCHANGED bounds
    /\ \/ /\ m.term > term[i]
          /\ BecomeFollower(i, m.term)
          /\ UNCHANGED <<log, commit, hint, link, unsent, grants, elections, trail>>
       \/ /\ m.term = term[i] /\ m.granted /\ role[i] = "Candidate"
          /\ IF votes[i] + 1 >= Majority
             THEN /\ UNCHANGED <<term, votedFor, log, commit, grants>>
                  /\ BecomeLeader(i, counted[i] \cup {m.from, i})
             ELSE /\ votes' = [votes EXCEPT ![i] = @ + 1]
                  /\ counted' = [counted EXCEPT ![i] = @ \cup {m.from}]
                  /\ UNCHANGED <<role, term, votedFor, log, commit, nextIndex, matchIndex,
                                 hint, link, unsent, grants, elections, trail>>
       \/ /\ m.term <= term[i]
          /\ ~(m.term = term[i] /\ m.granted /\ role[i] = "Candidate")
          /\ UNCHANGED <<nodeVars, link, unsent, history, trail>>

\* The oldest message of link[j][i] has the given type.
Incoming(j, i, type) == link[j][i] # <<>> /\ Head(link[j][i]).type = type

\* i takes the oldest message of link[j][i] and answers with m.
ReplyTo(j, i, m) ==
    link' = [link EXCEPT ![j][i] = Tail(@), ![i][j] = Offer(@, m)]

\* Mutant: looks at the index of the previous entry only.
PrevIndexOnly(m, l) == m.prevIndex = 0 \/ m.prevIndex \in DOMAIN l

\* The consistency check on the entry before the ones sent.
PrevMatches(m, l) ==
    \/ m.prevIndex = 0
    \/ m.prevIndex \in DOMAIN l /\ l[m.prevIndex].term = m.prevTerm

\* Mutant: never truncates.
SplicedAtEnd(m, l) == l \o m.entries

\* log.truncate(prev_index), then extend.
Spliced(m, l) == SubSeq(l, 1, m.prevIndex) \o m.entries

HandleAppendEntries(i, j) ==
    LET m == Head(link[j][i])
        stepDown == \/ m.term > term[i]
                    \/ m.term = term[i] /\ role[i] # "Follower"
        ok == PrevMatches(m, log[i])
        l == Spliced(m, log[i])
        known == IF m.leaderCommit < Len(l) THEN m.leaderCommit ELSE Len(l)
    IN  /\ PumpIdle(i)
        /\ Incoming(j, i, "AppendEntries")
        /\ IF stepDown THEN BecomeFollower(i, m.term)
                       ELSE UNCHANGED <<term, role, votedFor, votes, nextIndex, matchIndex, counted>>
        /\ UNCHANGED <<ballots, unsent, bounds, grants, elections>>
        /\ \/ /\ m.term < term[i]
              /\ ReplyTo(j, i, [type |-> "AppendReply", term |-> term[i],
                                success |-> FALSE, matchIndex |-> 0])
              /\ UNCHANGED <<log, commit, hint, trail>>
           \/ /\ m.term >= term[i]
              /\ hint' = [hint EXCEPT ![i] = j]
              /\ \/ /\ ~ok
                    /\ ReplyTo(j, i, [type |-> "AppendReply", term |-> m.term,
                                      success |-> FALSE, matchIndex |-> 0])
                    /\ UNCHANGED <<log, commit, trail>>
                 \/ /\ ok
                    /\ log' = [log EXCEPT ![i] = l]
                    /\ commit' = [commit EXCEPT ![i] = IF m.leaderCommit > @ THEN known ELSE @]
                    /\ held' = [held EXCEPT ![i][m.term] = IF Len(l) > @ THEN Len(l) ELSE @]
                    /\ UNCHANGED ledger
                    /\ ReplyTo(j, i, [type |-> "AppendReply", term |-> m.term,
                                      success |-> TRUE, matchIndex |-> Len(l)])

\* Mutants: next_index skips an entry; has no floor; is not moved back.
NextPast(m, n) == IF m.success THEN m.matchIndex + 2 ELSE IF n > 1 THEN n - 1 ELSE 1
NextNoFloor(m, n) == IF m.success THEN m.matchIndex + 1 ELSE n - 1
NextStuck(m, n) == IF m.success THEN m.matchIndex + 1 ELSE n

\* The next_index n of a peer after its reply m.
NextFor(m, n) == IF m.success THEN m.matchIndex + 1 ELSE IF n > 1 THEN n - 1 ELSE 1

HandleAppendReply(i, j) ==
    LET m == Head(link[j][i])
        next == NextFor(m, nextIndex[i][j])
        match == [matchIndex[i] EXCEPT ![j] = m.matchIndex]
    IN  /\ PumpIdle(i)
        /\ Incoming(j, i, "AppendReply")
        /\ link' = [link EXCEPT ![j][i] = Tail(@)]
        /\ UNCHANGED <<ballots, unsent, bounds, grants, elections, log, hint, trail>>
        /\ \/ /\ m.term > term[i]
              /\ BecomeFollower(i, m.term)
              /\ UNCHANGED commit
           \/ /\ m.term <= term[i] /\ role[i] = "Leader"
              /\ nextIndex' = [nextIndex EXCEPT ![i][j] = next]
              /\ IF m.success
                 THEN /\ matchIndex' = [matchIndex EXCEPT ![i] = match]
                      /\ \E n \in CommitCandidates(i, log[i]) :
                             /\ AdvanceCommit(i, log[i], match, n)
                             /\ commit' = [commit EXCEPT ![i] = n]
                 ELSE UNCHANGED <<matchIndex, commit>>
              /\ UNCHANGED <<role, term, votedFor, votes, counted>>
           \/ /\ m.term <= term[i] /\ role[i] # "Leader"
              /\ UNCHANGED <<role, term, votedFor, votes, commit, nextIndex, matchIndex, counted>>

---------------------------------------------------------------------------
(* The transport                                                           *)

\* RaftDriver::send of one envelope, by a thread that holds no lock.
Publish(i, th) ==
    \E e \in unsent[i][th] :
        /\ unsent' = [unsent EXCEPT ![i][th] = @ \ {e}]
        /\ link' = [link EXCEPT ![i][e.to] = Offer(@, e.msg)]
        /\ UNCHANGED <<nodeVars, ballots, bounds, history, trail>>

\* A lagging receiver or a broken connection loses the oldest message.
Lose(i, j) ==
    /\ link[i][j] # <<>>
    /\ lost < MaxLost
    /\ lost' = lost + 1
    /\ link' = [link EXCEPT ![i][j] = Tail(@)]
    /\ UNCHANGED <<nodeVars, ballots, unsent, started, history, trail>>

---------------------------------------------------------------------------
Init ==
    /\ role = [i \in Server |-> "Follower"]
    /\ term = [i \in Server |-> 0]
    /\ votedFor = [i \in Server |-> Nil]
    /\ votes = [i \in Server |-> 0]
    /\ log = [i \in Server |-> <<>>]
    /\ commit = [i \in Server |-> 0]
    /\ nextIndex = [i \in Server |-> NoNext]
    /\ matchIndex = [i \in Server |-> NoMatch]
    /\ hint = [i \in Server |-> Nil]
    /\ ballots = {}
    /\ link = [i \in Server |-> [j \in Server |-> <<>>]]
    /\ unsent = [i \in Server |-> [th \in Thread |-> {}]]
    /\ started = 0
    /\ lost = 0
    /\ grants = {}
    /\ counted = [i \in Server |-> {}]
    /\ elections = {}
    /\ ledger = [t \in Term |-> <<>>]
    /\ held = [i \in Server |-> [t \in Term |-> 0]]

Tick(i) == StartElection(i) \/ Heartbeat(i)

Receive(i) ==
    \/ \E m \in ballots : HandleRequestVote(i, m) \/ HandleVoteReply(i, m)
    \/ \E j \in Peers(i) : HandleAppendEntries(i, j) \/ HandleAppendReply(i, j)

Next ==
    \/ \E i \in Server : Tick(i) \/ Receive(i)
    \/ \E i \in Server, c \in Caller, v \in Value : Propose(i, c, v)
    \/ \E i \in Server, th \in Thread : Publish(i, th)
    \/ \E i \in Server : \E j \in Peers(i) : Lose(i, j)

Spec == Init /\ [][Next]_vars

\* The pump runs for ever: its timer keeps firing, and what a link carries
\* is handled unless it is lost first (Lose spends a finite budget).
Fairness ==
    \A i \in Server :
        /\ WF_vars(Heartbeat(i))
        /\ WF_vars(\E th \in Thread : Publish(i, th))
        /\ \A j \in Peers(i) : WF_vars(HandleAppendEntries(i, j) \/ HandleAppendReply(i, j))

FairSpec == Spec /\ Fairness

---------------------------------------------------------------------------
(* Properties                                                              *)

\* Election Safety: no two nodes ever win the same term, even though a
\* candidate that hears the winner forgets, in that same term, that it had
\* voted for itself (become_follower clears voted_for) and may vote again.
ElectionSafety ==
    \A e, f \in elections : e.term = f.term => e.leader = f.leader

\* What Election Safety rests on, as an inductive invariant.
\* A vote for another node binds its voter for the rest of the term: it is a
\* follower that still remembers the vote.
GrantsBind ==
    \A g \in grants :
        /\ g[1] # g[2] /\ g[3] <= term[g[1]]
        /\ g[3] = term[g[1]] => role[g[1]] = "Follower" /\ votedFor[g[1]] = g[2]
        /\ \A h \in grants : g[1] = h[1] /\ g[3] = h[3] => g[2] = h[2]

\* A candidate's and a leader's vote is its own.
SelfVote == \A i \in Server : role[i] # "Follower" => votedFor[i] = i

\* A request is answered once: while it is in flight no answer exists.
AnsweredOnce ==
    \A m \in ballots : m.type = "RequestVote" =>
        /\ m.from # m.to /\ m.term <= term[m.from]
        /\ m.term = term[m.from] => m.to \notin counted[m.from]
        /\ \A r \in ballots :
               /\ r.from = m.from /\ r.to = m.to /\ r.term = m.term /\ r.type = m.type => r = m
               /\ ~(r.type = "VoteReply" /\ r.granted /\ r.from = m.to /\ r.to = m.from
                    /\ r.term = m.term)

\* A granted reply in flight stands for a vote that was given and that its
\* receiver has not counted.
RepliesUncounted ==
    \A r \in ballots : r.type = "VoteReply" /\ r.granted =>
        /\ <<r.from, r.to, r.term>> \in grants
        /\ r.term <= term[r.to]
        /\ r.term = term[r.to] => r.from \notin counted[r.to]

\* The integer a candidate keeps is the number of distinct nodes for it.
VotesAreVoters ==
    \A i \in Server :
        /\ \A v \in counted[i] : v # i /\ <<v, i, term[i]>> \in grants
        /\ role[i] = "Candidate" => votes[i] = Cardinality(counted[i]) + 1

\* A won election had a majority behind it, and its winner leads for as long
\* as it stays in that term.
WinnersLead ==
    \A e \in elections :
        /\ e.term <= term[e.leader]
        /\ e.term = term[e.leader] => role[e.leader] = "Leader"
        /\ e.leader \in e.voters /\ Cardinality(e.voters) >= Majority
        /\ \A v \in e.voters \ {e.leader} : <<v, e.leader, e.term>> \in grants
        /\ \A c \in Server : <<e.leader, c, e.term>> \notin grants

Won(i, t) == \E e \in elections : e.leader = i /\ e.term = t

\* Only winners lead, and only winners send appends.
LeadersWon == \A i \in Server : role[i] = "Leader" => Won(i, term[i])
Carried(q) == {q[k] : k \in DOMAIN q}
AppendsWon ==
    \A i \in Server :
        /\ \A th \in Thread : \A e \in unsent[i][th] : Won(i, e.msg.term)
        /\ \A j \in Server : \A m \in Carried(link[i][j]) :
               m.type = "AppendEntries" => Won(i, m.term)

ElectionInv ==
    /\ GrantsBind
    /\ SelfVote
    /\ AnsweredOnce
    /\ RepliesUncounted
    /\ VotesAreVoters
    /\ WinnersLead
    /\ LeadersWon
    /\ AppendsWon
    /\ ElectionSafety

\* Log Matching: two logs with an entry of the same index and term agree up
\* to that index.
LogMatching ==
    \A i, j \in Server : \A n \in DOMAIN log[i] \cap DOMAIN log[j] :
        log[i][n].term = log[j][n].term => SubSeq(log[i], 1, n) = SubSeq(log[j], 1, n)

\* The two places that index the log must not panic, however it is cut and
\* spliced: committed() slices log[..commit], and broadcast_appends looks at the
\* entry before next_index.
IndexesWithinLog ==
    \A i \in Server :
        /\ commit[i] <= Len(log[i])
        /\ role[i] = "Leader" => CanBroadcast(i, log[i], nextIndex[i])

\* State Machine Safety: what two nodes have committed is the same sequence,
\* up to the shorter one.
CommittedAgree ==
    \A i, j \in Server :
        commit[i] <= commit[j] => SubSeq(log[i], 1, commit[i]) = SubSeq(log[j], 1, commit[i])

\* Commit indexes may be trusted: no thread panics on one, and no two nodes
\* ever apply different entries at the same place.
CommitsHold == IndexesWithinLog /\ CommittedAgree

\* Leader Completeness: a leader's log holds everything committed by a node
\* that is in its term or an older one.
LeaderCompleteness ==
    \A i, j \in Server :
        role[j] = "Leader" /\ term[i] <= term[j] =>
            /\ commit[i] <= Len(log[j])
            /\ SubSeq(log[i], 1, commit[i]) = SubSeq(log[j], 1, commit[i])

\* A node never gives up an entry that it has committed, and no term goes
\* back.
CommittedStable ==
    [][\A i \in Server :
          /\ term'[i] >= term[i]
          /\ commit'[i] >= commit[i]
          /\ commit[i] <= Len(log'[i])
          /\ SubSeq(log'[i], 1, commit[i]) = SubSeq(log[i], 1, commit[i])]_vars

\* What a leader marks committed is replicated on a majority, as the comment
\* on advance_commit says: the nodes it counts hold its log up to there.
HoldsUpTo(l, k, n) == Len(l) >= n /\ SubSeq(l, 1, n) = SubSeq(k, 1, n)
CommitsReplicated ==
    [][\A i \in Server : role'[i] = "Leader" /\ commit'[i] > commit[i] =>
          Cardinality({j \in Server : HoldsUpTo(log'[j], log'[i], commit'[i])}) >= Majority]_vars

\* A follower drops entries only because they conflict with the append it
\* accepts, as the comment on the truncation says.
TruncatesOnlyConflicts ==
    [][\A i \in Server : Len(log'[i]) < Len(log[i]) =>
          \E n \in DOMAIN log'[i] : log'[i][n] # log[i][n]]_vars

\* Once the leader of the last term has an entry of its own and no more
\* proposals come, every log becomes its log, whatever an earlier leader left
\* there, and every node learns that all of it is committed.
Settled(i) ==
    /\ role[i] = "Leader" /\ term[i] = MaxTerm
    /\ Len(log[i]) = MaxLog /\ LastTerm(log[i]) = MaxTerm
Converged(i) ==
    \A j \in Server : log[j] = log[i] /\ commit[j] = Len(log[i])
ReplicationConverges == \A i \in Server : Settled(i) ~> Converged(i)
===========================================================================
