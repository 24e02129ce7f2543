------------------------------ MODULE MCRaft ------------------------------
(***************************************************************************)
(* Small instances of Raft for TLC: three nodes, from states they reach,   *)
(* so that there is room for what comes after: in the middle of a first    *)
(* election with two candidates; behind it, with its heartbeats lost;      *)
(* behind three elections that left two leaders with diverging logs; and   *)
(* behind three elections of which one node has won two, with an answer to *)
(* its appends still on the way.                                           *)
(*                                                                         *)
(* The view leaves out what no later step and no property of its run can   *)
(* tell apart: the history variables but elections, the hint, which        *)
(* no step reads, and replies to a ballot that is over, which their        *)
(* receiver ignores for good (its term only grows and it never becomes a   *)
(* candidate of the same term again).                                      *)
(***************************************************************************)
EXTENDS Raft, TLC

CONSTANTS
    First,      \* the leader of term 1, or a candidate
    Second      \* another node: the other candidate, or the leader of term 3

BallotOver(m) ==
    /\ m.type = "VoteReply"
    /\ \/ m.term < term[m.to]
       \/ m.term = term[m.to] /\ (role[m.to] # "Candidate" \/ ~m.granted)

View == <<role, term, votedFor, votes, log, commit, nextIndex, matchIndex,
          {m \in ballots : ~BallotOver(m)}, link, unsent, bounds,
          {<<e.leader, e.term>> : e \in elections}>>

\* First is told apart from the others by the initial state.
Electorate == Permutations(Server \ {First})

\* Nobody has committed or is a candidate, and no ballot is under way.
Calm ==
    /\ votes = [i \in Server |-> 0]
    /\ commit = [i \in Server |-> 0]
    /\ matchIndex = [i \in Server |-> NoMatch]
    /\ ballots = {}
    /\ unsent = [i \in Server |-> [th \in Thread |-> {}]]
    /\ lost = 0

\* Nobody has led with an entry.
NothingLed ==
    /\ ledger = [t \in Term |-> <<>>]
    /\ held = [i \in Server |-> [t \in Term |-> 0]]

\* The queues are empty too, and nobody has heard of a leader since it last
\* led.
Quiet ==
    /\ Calm
    /\ link = [i \in Server |-> [j \in Server |-> <<>>]]
    /\ hint = [i \in Server |-> Nil]

InitElected ==
    /\ Quiet /\ NothingLed
    /\ role = [i \in Server |-> IF i = First THEN "Leader" ELSE "Follower"]
    /\ term = [i \in Server |-> 1]
    /\ votedFor = [i \in Server |-> First]
    /\ log = [i \in Server |-> <<>>]
    /\ nextIndex = [i \in Server |-> NoNext]
    /\ started = 1
    /\ grants = {<<i, First, 1>> : i \in Server \ {First}}
    /\ \E q \in SUBSET (Server \ {First}) :
           /\ Cardinality(q) + 1 = Majority
           /\ counted = [i \in Server |-> IF i = First THEN q ELSE {}]
           /\ elections = {[leader |-> First, term |-> 1, voters |-> q \cup {First}]}

SpecElected == InitElected /\ [][Next]_vars

\* First and Second have both started an election in term 1.  The third node
\* has heard of First and given it its vote, which is on the way; the other
\* requests are too.
InitContested ==
    LET third == Server \ {First, Second}
        request(i, j) == [type |-> "RequestVote", term |-> 1, from |-> i, to |-> j,
                          lastIndex |-> 0, lastTerm |-> 0]
        vote(j) == [type |-> "VoteReply", term |-> 1, from |-> j, to |-> First, granted |-> TRUE]
    IN  /\ role = [i \in Server |-> IF i \in third THEN "Follower" ELSE "Candidate"]
        /\ term = [i \in Server |-> 1]
        /\ votedFor = [i \in Server |-> IF i = Second THEN Second ELSE First]
        /\ votes = [i \in Server |-> IF i \in third THEN 0 ELSE 1]
        /\ log = [i \in Server |-> <<>>]
        /\ commit = [i \in Server |-> 0]
        /\ nextIndex = [i \in Server |-> NoNext]
        /\ matchIndex = [i \in Server |-> NoMatch]
        /\ hint = [i \in Server |-> Nil]
        /\ ballots = {request(First, Second)} \cup {vote(i) : i \in third}
                         \cup {request(Second, i) : i \in Server \ {Second}}
        /\ link = [i \in Server |-> [j \in Server |-> <<>>]]
        /\ unsent = [i \in Server |-> [th \in Thread |-> {}]]
        /\ started = 2
        /\ lost = 0
        /\ NothingLed
        /\ grants = {<<i, First, 1>> : i \in third}
        /\ counted = [i \in Server |-> {}]
        /\ elections = {}

SpecEarly == (InitElected \/ InitContested) /\ [][Next]_vars

\* First has then proposed an entry that reached nobody.  The third node won
\* term 2 with Second's vote and replicated an entry to Second, whose answer
\* was lost; Second has won term 3 with the third node's vote.  First has not
\* heard of any of it.
InitDeposed ==
    LET third == Server \ {First, Second}
        entry(t, v) == <<[term |-> t, data |-> v]>>
    IN  /\ Quiet
        /\ role = [i \in Server |-> IF i \in third THEN "Follower" ELSE "Leader"]
        /\ term = [i \in Server |-> IF i = First THEN 1 ELSE 3]
        /\ votedFor = [i \in Server |-> IF i = First THEN First ELSE Second]
        /\ \E v, w \in Value : log = [i \in Server |-> IF i = First THEN entry(1, v) ELSE entry(2, w)]
        /\ ledger = [t \in Term |-> IF t = 1 THEN log[First] ELSE IF t \in {2, 3} THEN log[Second] ELSE <<>>]
        /\ held = [i \in Server |-> [t \in Term |->
               IF (i = First /\ t = 1) \/ (i # First /\ t = 2) \/ (i = Second /\ t = 3) THEN 1 ELSE 0]]
        /\ nextIndex = [i \in Server |->
               IF i = Second THEN [j \in Server |-> IF j = i THEN 1 ELSE 2] ELSE NoNext]
        /\ started = 3
        /\ grants = UNION {{<<i, First, 1>>, <<Second, i, 2>>, <<i, Second, 3>>} : i \in third}
        /\ counted = [i \in Server |-> IF i \in third THEN {} ELSE third]
        /\ elections = UNION {{[leader |-> First, term |-> 1, voters |-> {First, i}],
                               [leader |-> i, term |-> 2, voters |-> {Second, i}],
                               [leader |-> Second, term |-> 3, voters |-> {Second, i}]} : i \in third}

SpecDeposed == InitDeposed /\ [][Next]_vars
FairSpecDeposed == SpecDeposed /\ Fairness

\* First has led term 1 and proposed two entries that reached nobody.  The
\* third node won term 2 with Second's vote and proposed an entry that reached
\* nobody either.  First has then won term 3, also with Second's vote (the
\* third node refused and stepped down), and Second has accepted First's log;
\* its answer is on the way.  Everything else that was sent is lost.
InitRestored ==
    LET third == Server \ {First, Second}
        entry(t, v) == [term |-> t, data |-> v]
        answer == [type |-> "AppendReply", term |-> 3, success |-> TRUE, matchIndex |-> 2]
    IN  /\ Calm
        /\ link = [i \in Server |-> [j \in Server |->
               IF i = Second /\ j = First THEN <<answer>> ELSE <<>>]]
        /\ hint = [i \in Server |-> IF i = Second THEN First ELSE Nil]
        /\ role = [i \in Server |-> IF i = First THEN "Leader" ELSE "Follower"]
        /\ term = [i \in Server |-> 3]
        /\ votedFor = [i \in Server |-> IF i \in third THEN Nil ELSE First]
        /\ \E v, w \in Value : log = [i \in Server |->
               IF i \in third THEN <<entry(2, w)>> ELSE <<entry(1, v), entry(1, v)>>]
        /\ ledger = [t \in Term |-> IF t \in {1, 3} THEN log[First]
                                   ELSE IF t = 2 THEN log[CHOOSE i \in third : TRUE] ELSE <<>>]
        /\ held = [i \in Server |-> [t \in Term |->
               IF (i = First /\ t \in {1, 3}) \/ (i = Second /\ t = 3) THEN 2
               ELSE IF i \in third /\ t = 2 THEN 1 ELSE 0]]
        /\ nextIndex = [i \in Server |->
               IF i = First THEN [j \in Server |-> IF j \in third THEN 3 ELSE 1] ELSE NoNext]
        /\ started = 3
        /\ grants = UNION {{<<Second, First, 1>>, <<Second, i, 2>>, <<Second, First, 3>>} : i \in third}
        /\ counted = [i \in Server |-> IF i = First THEN {Second} ELSE {}]
        /\ elections = UNION {{[leader |-> First, term |-> 1, voters |-> {First, Second}],
                               [leader |-> i, term |-> 2, voters |-> {Second, i}],
                               [leader |-> First, term |-> 3, voters |-> {First, Second}]} : i \in third}

SpecRestored == InitRestored /\ [][Next]_vars
===========================================================================
