------------------------- MODULE RaftCommitProofs -------------------------
(***************************************************************************)
(* Commit safety of Raft: what a node has committed stays, is in the log   *)
(* of every later leader, and is the same on every node, for every cluster *)
(* size and every bound.                                                   *)
(*                                                                         *)
(* Without conditions this is not true of the code, as the runs            *)
(* raft_stale_append and raft_stale_reply show.  The theorems name the two *)
(* conditions under which it is: appends are published in the order in     *)
(* which they were computed (PublishesInOrder), and a leader takes no      *)
(* successful reply to an append of an earlier term (FreshReplies).        *)
(*                                                                         *)
(* The history variable ledger has the log of each term's leader, which    *)
(* only grows, and held how much of it each node had in that term.  The    *)
(* invariant comes in four layers, each proved on the ones below:          *)
(*   LedgerInv   every log and every append is a part of the ledger;       *)
(*   OrderInv    the appends of a term arrive with growing ends, so that   *)
(*               nobody gives up what it held in its own term;             *)
(*   VoteInv     what a voter held, the candidate has, or else a leader    *)
(*               between the two terms did not have it;                    *)
(*   CommitInv   what is committed was held by a majority in one term.     *)
(***************************************************************************)
EXTENDS RaftProofs, WellFoundedInduction

\* One thread of a node ticks, steps, proposes and publishes: RaftNode driven
\* by one thread, or a RaftDriver whose pump is its only caller.
PublishesInOrder == Overlap => Caller \subseteq {"pump"}

\* No leader takes a successful reply to an append of an earlier term.
TakesFresh ==
    \A i \in Server : \A j \in Peers(i) :
        HandleAppendReply(i, j) /\ role[i] = "Leader" /\ Head(link[j][i]).success =>
            Head(link[j][i]).term >= term[i]
FreshReplies == [][TakesFresh]_vars

---------------------------------------------------------------------------
(* The invariant                                                           *)

\* Some node has won the term t.
TermWon(t) == \E e \in elections : e.term = t

\* The first n entries of two logs are there and the same.
SameUpTo(a, b, n) == n <= Len(a) /\ n <= Len(b) /\ \A k \in 1 .. n : a[k] = b[k]

\* Every entry of l, with all before it, is in the ledger of its term.
Traced(l, L) == \A n \in 1 .. Len(l) : l[n].term \in Term /\ SameUpTo(l, L[l[n].term], n)

Rising(l) == \A k, n \in 1 .. Len(l) : k <= n => l[k].term <= l[n].term

\* No entry of l has a term above t.
UpToTerm(l, t) == \A n \in 1 .. Len(l) : l[n].term <= t

\* The append m carries a part of the log l of the leader of term t, which ends
\* behind everything the leader had when it was elected.
EndOf(m) == m.prevIndex + Len(m.entries)
CutFrom(m, l, t) ==
    /\ EndOf(m) <= Len(l)
    /\ m.prevTerm = IF m.prevIndex = 0 THEN 0 ELSE l[m.prevIndex].term
    /\ \A k \in 1 .. Len(m.entries) : m.entries[k] = l[m.prevIndex + k]
    /\ \A n \in EndOf(m) + 1 .. Len(l) : l[n].term = t

TrailTypes == ledger \in [Term -> Seq(LogEntry)] /\ held \in [Server -> [Term -> Nat]]

\* No term is above the bound.
TermsBounded ==
    /\ \A i \in Server : term[i] \in Term
    /\ \A m \in ballots : m.term \in Term
    /\ \A i, j \in Server : \A m \in Carried(link[i][j]) : m.term \in Term
    /\ \A i \in Server : \A th \in Thread : \A e \in unsent[i][th] : e.msg.term \in Term

LeadersWrite ==
    \A i \in Server : role[i] = "Leader" =>
        log[i] = ledger[term[i]] /\ held[i][term[i]] = Len(log[i])
LogsTraced == \A i \in Server : Traced(log[i], ledger) /\ UpToTerm(log[i], term[i])
LedgerTraced ==
    \A t \in Term :
        /\ Traced(ledger[t], ledger) /\ Rising(ledger[t]) /\ UpToTerm(ledger[t], t)
        /\ ~TermWon(t) => ledger[t] = <<>>
AppendsCut == \A m \in Sent(link, unsent) : TermWon(m.term) /\ CutFrom(m, ledger[m.term], m.term)
HeldWritten ==
    \A i \in Server : \A t \in Term : held[i][t] <= Len(ledger[t]) /\ (held[i][t] > 0 => t <= term[i])

Written == TrailTypes /\ LeadersWrite /\ LogsTraced /\ LedgerTraced /\ AppendsCut /\ HeldWritten
LedgerInv == TermsBounded /\ Written

\* What is yet to be published is all that the leader has; on a link the ends
\* of a term's appends do not go back, nor behind what the receiver holds.
UnsentWhole ==
    \A i \in Server : \A th \in Thread :
        /\ ~Overlap => unsent[i][th] = {}
        /\ \A e \in unsent[i][th] : EndOf(e.msg) = Len(ledger[e.msg.term])
InOrder(q) ==
    \A k, n \in 1 .. Len(q) :
        k <= n /\ q[k].type = "AppendEntries" /\ q[n].type = "AppendEntries" /\ q[k].term = q[n].term =>
            EndOf(q[k]) <= EndOf(q[n])
LinksInOrder == \A i, j \in Server : InOrder(link[i][j])
AppendsBehindHeld ==
    \A i \in Server : \A j \in Peers(i) : \A m \in Carried(link[i][j]) :
        m.type = "AppendEntries" => held[j][m.term] <= EndOf(m)
StillHeld == \A i \in Server : SameUpTo(log[i], ledger[term[i]], held[i][term[i]])

OrderInv == UnsentWhole /\ LinksInOrder /\ AppendsBehindHeld /\ StillHeld

\* The n-th entry of the leader of term t is its own.
Own(t, n) == n \in 1 .. Len(ledger[t]) /\ ledger[t][n].term = t

\* Every leader of a term after t, up to u, has the first n entries of t's.
Kept(t, n, u) ==
    \A s \in Term : t < s /\ s <= u /\ TermWon(s) => SameUpTo(ledger[s], ledger[t], n)

\* Node i has held the entry n of the leader of term t, in that term.
Holds(i, t, n) == Own(t, n) /\ n <= held[i][t]

\* What a node has held it has, unless a later leader did not.
HoldersKeep ==
    \A i \in Server : \A t \in Term : \A n \in Nat :
        Holds(i, t, n) /\ Kept(t, n, term[i]) => SameUpTo(log[i], ledger[t], n)
RequestsCurrent ==
    \A m \in ballots :
        m.type = "RequestVote" /\ role[m.from] = "Candidate" /\ term[m.from] = m.term =>
            m.lastIndex = Len(log[m.from]) /\ m.lastTerm = LastTerm(log[m.from])
GrantsAsked == \A g \in grants : g[3] <= term[g[2]]
CandidatesHave ==
    \A g \in grants : role[g[2]] = "Candidate" /\ term[g[2]] = g[3] /\ ~TermWon(g[3]) =>
        \A t \in Term : \A n \in Nat :
            t < g[3] /\ Holds(g[1], t, n) /\ Kept(t, n, g[3] - 1) => SameUpTo(log[g[2]], ledger[t], n)
WinnersHave ==
    \A e \in elections : \A i \in e.voters : \A t \in Term : \A n \in Nat :
        t < e.term /\ Holds(i, t, n) /\ Kept(t, n, e.term - 1) => SameUpTo(ledger[e.term], ledger[t], n)

VoteInv == HoldersKeep /\ RequestsCurrent /\ GrantsAsked /\ CandidatesHave /\ WinnersHave

\* A majority has held the leader's own entry n of term t.
Chosen(t, n) ==
    /\ Own(t, n)
    /\ \E Q \in SUBSET Server : Cardinality(Q) >= Majority /\ \A i \in Q : n <= held[i][t]

\* The first c entries of l are entries of term t's leader that were chosen in it.
Backed(l, c, t) == \E n \in Nat : c <= n /\ Chosen(t, n) /\ SameUpTo(l, ledger[t], c)

CommitsBacked ==
    \A i \in Server : commit[i] > 0 =>
        \E t \in Term : t <= term[i] /\ Backed(log[i], commit[i], t) /\ (t = term[i] => commit[i] <= held[i][t])
AppendsBacked ==
    \A m \in Sent(link, unsent) : m.leaderCommit > 0 =>
        \E t \in Term : t <= m.term /\ Backed(ledger[m.term], m.leaderCommit, t)
MatchHeld ==
    \A i \in Server : role[i] = "Leader" =>
        /\ matchIndex[i][i] = 0
        /\ \A j \in Server : matchIndex[i][j] <= held[j][term[i]] /\ nextIndex[i][j] - 1 <= Len(log[i])
RepliesHeld ==
    \A i, j \in Server : \A m \in Carried(link[i][j]) :
        m.type = "AppendReply" /\ m.success => m.matchIndex <= held[i][m.term]

CommitInv == CommitsBacked /\ AppendsBacked /\ MatchHeld /\ RepliesHeld

---------------------------------------------------------------------------
(* Parts of logs                                                           *)

LEMMA EntryTerm ==
    ASSUME NEW l \in Seq(LogEntry), NEW n \in 1 .. Len(l)
    PROVE  l[n] \in LogEntry /\ l[n].term \in Nat
<1>1. l[n] \in LogEntry
  BY ElementOfSeq
<1> QED BY <1>1 DEF LogEntry

LEMMA SameLess ==
    ASSUME NEW a \in Seq(LogEntry), NEW b \in Seq(LogEntry), NEW n \in Nat, NEW m \in Nat,
           SameUpTo(a, b, n), m <= n
    PROVE  SameUpTo(a, b, m)
BY DEF SameUpTo

LEMMA SameBack ==
    ASSUME NEW a, NEW b, NEW n, SameUpTo(a, b, n)
    PROVE  SameUpTo(b, a, n)
BY DEF SameUpTo

LEMMA SameTrans ==
    ASSUME NEW a, NEW b, NEW c, NEW n, SameUpTo(a, b, n), SameUpTo(b, c, n)
    PROVE  SameUpTo(a, c, n)
BY DEF SameUpTo

\* The same part of two logs is the same sequence.
LEMMA SameSub ==
    ASSUME NEW a \in Seq(LogEntry), NEW b \in Seq(LogEntry), NEW n \in Nat, SameUpTo(a, b, n)
    PROVE  SubSeq(a, 1, n) = SubSeq(b, 1, n)
<1>1. /\ SubSeq(a, 1, n) \in Seq(LogEntry) /\ Len(SubSeq(a, 1, n)) = n
      /\ SubSeq(b, 1, n) \in Seq(LogEntry) /\ Len(SubSeq(b, 1, n)) = n
      /\ \A k \in 1 .. n : SubSeq(a, 1, n)[k] = a[k] /\ SubSeq(b, 1, n)[k] = b[k]
  BY DEF SameUpTo
<1>2. \A k \in 1 .. n : a[k] = b[k]
  BY DEF SameUpTo
<1> QED BY <1>1, <1>2, SeqEqual

\* A ledger that grows still has every log that was in it.
LEMMA TracedGrows ==
    ASSUME NEW l \in Seq(LogEntry), NEW L \in [Term -> Seq(LogEntry)],
           NEW M \in [Term -> Seq(LogEntry)], Traced(l, L),
           \A t \in Term : SameUpTo(M[t], L[t], Len(L[t]))
    PROVE  Traced(l, M)
<1> SUFFICES ASSUME NEW n \in 1 .. Len(l) PROVE l[n].term \in Term /\ SameUpTo(l, M[l[n].term], n)
  BY DEF Traced
<1> DEFINE t == l[n].term
<1>1. t \in Term /\ SameUpTo(l, L[t], n) /\ n \in Nat
  BY DEF Traced
<1> HIDE DEF t
<1>2. L[t] \in Seq(LogEntry) /\ M[t] \in Seq(LogEntry) /\ n <= Len(L[t]) /\ Len(L[t]) \in Nat
  BY <1>1 DEF SameUpTo
<1>3. SameUpTo(L[t], M[t], n)
  BY <1>1, <1>2, SameLess, SameBack
<1>4. SameUpTo(l, M[t], n)
  BY <1>1, <1>3, SameTrans
<1> QED BY <1>1, <1>4 DEF t

\* The front of a traced log is traced.
LEMMA TracedFront ==
    ASSUME NEW l \in Seq(LogEntry), NEW k \in Seq(LogEntry), NEW L \in [Term -> Seq(LogEntry)],
           SameUpTo(l, k, Len(l)), Traced(k, L)
    PROVE  Traced(l, L)
<1> SUFFICES ASSUME NEW n \in 1 .. Len(l) PROVE l[n].term \in Term /\ SameUpTo(l, L[l[n].term], n)
  BY DEF Traced
<1>1. l[n] = k[n] /\ n \in 1 .. Len(k) /\ n \in Nat /\ n <= Len(l) /\ Len(l) \in Nat
  BY DEF SameUpTo
<1>2. SameUpTo(l, k, n)
  BY <1>1, SameLess
<1>3. k[n].term \in Term /\ SameUpTo(k, L[k[n].term], n)
  BY <1>1 DEF Traced
<1> QED BY <1>1, <1>2, <1>3, SameTrans

\* Terms only rise in a traced log.
LEMMA TracedRising ==
    ASSUME NEW l \in Seq(LogEntry), NEW L \in [Term -> Seq(LogEntry)], Traced(l, L),
           \A t \in Term : Rising(L[t])
    PROVE  Rising(l)
<1> SUFFICES ASSUME NEW k \in 1 .. Len(l), NEW n \in 1 .. Len(l), k <= n
             PROVE  l[k].term <= l[n].term
  BY DEF Rising
<1> DEFINE t == l[n].term
<1>1. t \in Term /\ SameUpTo(l, L[t], n)
  BY DEF Traced
<1>2. L[t] \in Seq(LogEntry) /\ Rising(L[t])
  BY <1>1
<1> HIDE DEF t
<1>3. l[k] = L[t][k] /\ l[n] = L[t][n] /\ k \in 1 .. Len(L[t]) /\ n \in 1 .. Len(L[t])
  BY <1>1, <1>2 DEF SameUpTo
<1> QED BY <1>2, <1>3 DEF Rising

\* Two traced logs with an entry of the same index and term agree up to it.
LEMMA TracedAgree ==
    ASSUME NEW a \in Seq(LogEntry), NEW b \in Seq(LogEntry), NEW L, Traced(a, L), Traced(b, L),
           NEW n \in Nat, n \in 1 .. Len(a), n \in 1 .. Len(b), a[n].term = b[n].term
    PROVE  SameUpTo(a, b, n)
<1>1. SameUpTo(a, L[a[n].term], n) /\ SameUpTo(b, L[a[n].term], n)
  BY DEF Traced
<1> QED BY <1>1, SameBack, SameTrans

---------------------------------------------------------------------------
(* What appends are cut from, and what accepting one leaves                *)

LEMMA AppendsForCut ==
    ASSUME NEW t \in Nat, NEW l \in Seq(LogEntry), NEW next \in Nat \ {0}, NEW c \in Nat,
           next - 1 <= Len(l)
    PROVE  /\ CutFrom(AppendsFor(t, l, next, c), l, t)
           /\ EndOf(AppendsFor(t, l, next, c)) = Len(l)
<1> DEFINE m == AppendsFor(t, l, next, c)
<1>1. /\ m.prevIndex = next - 1 /\ m.entries = SubSeq(l, next, Len(l)) /\ m.term = t /\ m.leaderCommit = c
      /\ m.prevTerm = IF next = 1 THEN 0 ELSE l[next - 1].term
  BY DEF AppendsFor
<1>2. /\ Len(l) \in Nat /\ Len(SubSeq(l, next, Len(l))) = Len(l) - (next - 1)
      /\ \A k \in 1 .. Len(l) - (next - 1) : SubSeq(l, next, Len(l))[k] = l[next - 1 + k]
  OBVIOUS
<1> HIDE DEF m
<1>3. EndOf(m) = Len(l) /\ Len(m.entries) = Len(l) - m.prevIndex
  BY <1>1, <1>2 DEF EndOf
<1>4. \A n \in EndOf(m) + 1 .. Len(l) : l[n].term = t
  BY <1>2, <1>3
<1>5. \A k \in 1 .. Len(m.entries) : m.entries[k] = l[m.prevIndex + k]
  BY <1>1, <1>2, <1>3
<1>6. m.prevTerm = IF m.prevIndex = 0 THEN 0 ELSE l[m.prevIndex].term
  BY <1>1
<1>7. CutFrom(m, l, t)
  BY <1>2, <1>3, <1>4, <1>5, <1>6 DEF CutFrom
<1> QED BY <1>1, <1>3, <1>7 DEF m

\* An accepted append makes the follower's log the front of the leader's, up
\* to the end of the append.
LEMMA SplicedCut ==
    ASSUME NEW m \in AppendEntries, NEW l \in Seq(LogEntry), NEW k \in Seq(LogEntry),
           NEW L \in [Term -> Seq(LogEntry)], NEW t, Traced(l, L), Traced(k, L), CutFrom(m, k, t),
           PrevMatches(m, l)
    PROVE  /\ Spliced(m, l) \in Seq(LogEntry) /\ Len(Spliced(m, l)) = EndOf(m)
           /\ SameUpTo(Spliced(m, l), k, EndOf(m)) /\ EndOf(m) \in Nat
<1> DEFINE p == m.prevIndex
<1>1. /\ p \in Nat /\ m.entries \in Seq(LogEntry) /\ Len(m.entries) \in Nat
      /\ EndOf(m) = p + Len(m.entries) /\ EndOf(m) <= Len(k) /\ Len(k) \in Nat /\ Len(l) \in Nat
  BY DEF AppendEntries, EndOf, CutFrom
<1>2. p <= Len(l)
  BY <1>1 DEF PrevMatches
<1>3. SameUpTo(l, k, p)
  <2>1. CASE p = 0
    BY <2>1, <1>1 DEF SameUpTo
  <2>2. CASE p # 0
    <3>1. p \in 1 .. Len(l) /\ p \in 1 .. Len(k) /\ l[p].term = k[p].term
      BY <2>2, <1>1 DEF PrevMatches, CutFrom
    <3> QED BY <3>1, <1>1, TracedAgree
  <2> QED BY <2>1, <2>2
<1>4. /\ SubSeq(l, 1, p) \in Seq(LogEntry) /\ Len(SubSeq(l, 1, p)) = p
      /\ \A n \in 1 .. p : SubSeq(l, 1, p)[n] = l[n]
  BY <1>1, <1>2
<1>5. /\ Spliced(m, l) \in Seq(LogEntry) /\ Len(Spliced(m, l)) = EndOf(m)
      /\ \A n \in 1 .. EndOf(m) : Spliced(m, l)[n] = IF n <= p THEN l[n] ELSE m.entries[n - p]
  <2> DEFINE a == SubSeq(l, 1, p)  b == m.entries
  <2>1. Spliced(m, l) = a \o b
    BY DEF Spliced
  <2>2. a \in Seq(LogEntry) /\ Len(a) = p /\ b \in Seq(LogEntry) /\ \A n \in 1 .. p : a[n] = l[n]
    BY <1>1, <1>4
  <2>3. Len(b) \in Nat /\ EndOf(m) = p + Len(b) /\ p \in Nat
    BY <1>1
  <2> HIDE DEF a, b, p
  <2>4. /\ a \o b \in Seq(LogEntry) /\ Len(a \o b) = p + Len(b)
        /\ \A n \in 1 .. p + Len(b) : (a \o b)[n] = IF n <= p THEN a[n] ELSE b[n - p]
    BY <2>2, <2>3
  <2> QED BY <2>1, <2>2, <2>3, <2>4 DEF b
<1>6. ASSUME NEW n \in 1 .. EndOf(m) PROVE Spliced(m, l)[n] = k[n]
  <2>1. CASE n <= p
    <3>1. Spliced(m, l)[n] = l[n]
      BY <2>1, <1>5
    <3>2. n \in 1 .. p
      BY <2>1, <1>1
    <3>3. \A h \in 1 .. p : l[h] = k[h]
      BY <1>3 DEF SameUpTo
    <3> QED BY <3>1, <3>2, <3>3
  <2>2. CASE ~(n <= p)
    <3>1. n - p \in 1 .. Len(m.entries) /\ p + (n - p) = n
      BY <2>2, <1>1
    <3>2. m.entries[n - p] = k[p + (n - p)]
      BY <3>1 DEF CutFrom
    <3> QED BY <3>1, <3>2, <2>2, <1>5
  <2> QED BY <2>1, <2>2
<1>7. SameUpTo(Spliced(m, l), k, EndOf(m))
  BY <1>1, <1>5, <1>6 DEF SameUpTo
<1> QED BY <1>1, <1>5, <1>7

---------------------------------------------------------------------------
(* The steps, by what they do to the logs                                  *)

\* become_follower, or not.
Follows(i, m) ==
    \/ /\ m.term > term[i] \/ (m.term = term[i] /\ role[i] # "Follower")
       /\ BecomeFollower(i, m.term)
    \/ /\ m.term < term[i] \/ (m.term = term[i] /\ role[i] = "Follower")
       /\ UNCHANGED <<term, role, votedFor, votes, nextIndex, matchIndex, counted>>

Rejects(i, j, m) ==
    /\ UNCHANGED <<log, commit, ledger, held>>
    /\ \E r \in AppendReply : ReplyTo(j, i, r) /\ ~r.success /\ r.term \in {term[i], m.term}

Accepts(i, j, m) ==
    LET l == Spliced(m, log[i])
    IN  /\ m.term >= term[i] /\ PrevMatches(m, log[i])
        /\ log' = [log EXCEPT ![i] = l]
        /\ commit' = [commit EXCEPT ![i] = IF m.leaderCommit > @
                                           THEN IF m.leaderCommit < Len(l) THEN m.leaderCommit ELSE Len(l)
                                           ELSE @]
        /\ held' = [held EXCEPT ![i][m.term] = IF Len(l) > @ THEN Len(l) ELSE @]
        /\ ledger' = ledger
        /\ \E r \in AppendReply :
               ReplyTo(j, i, r) /\ r.success /\ r.term = m.term /\ r.matchIndex = Len(l)

\* A handled append is taken from its link, and rejected or accepted.
LEMMA AppendOutcome ==
    ASSUME TypeOK, NEW i \in Server, NEW j \in Peers(i), HandleAppendEntries(i, j)
    PROVE  /\ j \in Server /\ i # j /\ link[j][i] # <<>> /\ PumpIdle(i)
           /\ Head(link[j][i]) \in AppendEntries /\ Head(link[j][i]) \in Carried(link[j][i])
           /\ Head(link[j][i]) \in Sent(link, unsent)
           /\ UNCHANGED <<ballots, unsent, elections, grants>>
           /\ Follows(i, Head(link[j][i]))
           /\ Rejects(i, j, Head(link[j][i])) \/ Accepts(i, j, Head(link[j][i]))
<1> DEFINE m == Head(link[j][i])  l == Spliced(m, log[i])
<1>1. j \in Server /\ i # j /\ link[j][i] # <<>> /\ m \in AppendEntries /\ m \in Carried(link[j][i])
  BY AppendTaken
<1>2. m.term \in Nat /\ term[i] \in Nat /\ m.type = "AppendEntries"
  <2> HIDE DEF m
  <2> QED BY <1>1 DEF AppendEntries, TypeOK
<1>3. m \in Sent(link, unsent)
  <2> HIDE DEF m
  <2> QED BY <1>1, <1>2, SentWhere
<1>4. PumpIdle(i) /\ UNCHANGED <<ballots, unsent, elections, grants>>
  BY DEF HandleAppendEntries
<1>5. Follows(i, m)
  <2>1. IF m.term > term[i] \/ (m.term = term[i] /\ role[i] # "Follower")
        THEN BecomeFollower(i, m.term)
        ELSE UNCHANGED <<term, role, votedFor, votes, nextIndex, matchIndex, counted>>
    BY DEF HandleAppendEntries
  <2> HIDE DEF m
  <2> QED BY <2>1, <1>2 DEF Follows
<1>6. Len(l) \in Nat
  <2>1. m.entries \in Seq(LogEntry) /\ m.prevIndex \in Nat /\ log[i] \in Seq(LogEntry)
    BY <1>1 DEF AppendEntries, TypeOK
  <2> HIDE DEF m
  <2>2. Len(SubSeq(log[i], 1, m.prevIndex)) \in Nat
    BY <2>1
  <2> QED BY <2>1, <2>2 DEF Spliced
<1>7. \/ /\ ReplyTo(j, i, [type |-> "AppendReply", term |-> term[i], success |-> FALSE, matchIndex |-> 0])
         /\ UNCHANGED <<log, commit, trail>>
      \/ /\ ReplyTo(j, i, [type |-> "AppendReply", term |-> m.term, success |-> FALSE, matchIndex |-> 0])
         /\ UNCHANGED <<log, commit, trail>>
      \/ /\ m.term >= term[i] /\ PrevMatches(m, log[i])
         /\ log' = [log EXCEPT ![i] = l]
         /\ commit' = [commit EXCEPT ![i] = IF m.leaderCommit > @
                                            THEN IF m.leaderCommit < Len(l) THEN m.leaderCommit ELSE Len(l)
                                            ELSE @]
         /\ held' = [held EXCEPT ![i][m.term] = IF Len(l) > @ THEN Len(l) ELSE @]
         /\ UNCHANGED ledger
         /\ ReplyTo(j, i, [type |-> "AppendReply", term |-> m.term, success |-> TRUE, matchIndex |-> Len(l)])
  BY DEF HandleAppendEntries
<1>8. CASE /\ ReplyTo(j, i, [type |-> "AppendReply", term |-> term[i], success |-> FALSE, matchIndex |-> 0])
           /\ UNCHANGED <<log, commit, trail>>
  <2> DEFINE r == [type |-> "AppendReply", term |-> term[i], success |-> FALSE, matchIndex |-> 0]
  <2>1. r \in AppendReply /\ ~r.success /\ r.term = term[i]
    BY <1>2 DEF AppendReply
  <2> HIDE DEF m, r
  <2> QED BY <2>1, <1>8, <1>1, <1>3, <1>4, <1>5 DEF Rejects, trail, r, m
<1>9. CASE /\ ReplyTo(j, i, [type |-> "AppendReply", term |-> m.term, success |-> FALSE, matchIndex |-> 0])
           /\ UNCHANGED <<log, commit, trail>>
  <2> DEFINE r == [type |-> "AppendReply", term |-> m.term, success |-> FALSE, matchIndex |-> 0]
  <2>1. r \in AppendReply /\ ~r.success /\ r.term = m.term
    <3> HIDE DEF m
    <3> QED BY <1>2 DEF AppendReply
  <2> HIDE DEF m, r
  <2> QED BY <2>1, <1>9, <1>1, <1>3, <1>4, <1>5 DEF Rejects, trail, r, m
<1>10. CASE /\ m.term >= term[i] /\ PrevMatches(m, log[i])
            /\ log' = [log EXCEPT ![i] = l]
            /\ commit' = [commit EXCEPT ![i] = IF m.leaderCommit > @
                                               THEN IF m.leaderCommit < Len(l) THEN m.leaderCommit ELSE Len(l)
                                               ELSE @]
            /\ held' = [held EXCEPT ![i][m.term] = IF Len(l) > @ THEN Len(l) ELSE @]
            /\ UNCHANGED ledger
            /\ ReplyTo(j, i, [type |-> "AppendReply", term |-> m.term, success |-> TRUE, matchIndex |-> Len(l)])
  <2> DEFINE r == [type |-> "AppendReply", term |-> m.term, success |-> TRUE, matchIndex |-> Len(l)]
  <2>1. r \in AppendReply /\ r.success /\ r.term = m.term /\ r.matchIndex = Len(l)
    <3> HIDE DEF m, l
    <3> QED BY <1>2, <1>6 DEF AppendReply
  <2> HIDE DEF r
  <2>2. Accepts(i, j, m)
    BY <2>1, <1>10 DEF Accepts, r
  <2> HIDE DEF m
  <2> QED BY <2>2, <1>1, <1>3, <1>4, <1>5 DEF m
<1> QED BY <1>7, <1>8, <1>9, <1>10

\* What a step does to each link and each batch.
LEMMA RowsTaken ==
    ASSUME TypeOK, NEW i \in Server, NEW j \in Server, link' = [link EXCEPT ![j][i] = Tail(@)]
    PROVE  \A k, n \in Server :
               \/ link'[k][n] = link[k][n]
               \/ k = j /\ n = i /\ link'[k][n] = Tail(link[j][i])
<1>1. link \in [Server -> [Server -> Seq(AppendMsg)]]
  BY DEF TypeOK
<1> QED BY <1>1

LEMMA RowsAnswered ==
    ASSUME TypeOK, NEW i \in Server, NEW j \in Server, i # j, NEW r, ReplyTo(j, i, r)
    PROVE  /\ \A k, n \in Server :
                  \/ ~(k = j /\ n = i) /\ link'[k][n] = link[k][n]
                  \/ k = j /\ n = i /\ link'[k][n] = Tail(link[j][i])
                  \/ k = i /\ n = j /\ link'[k][n] = Offer(link[i][j], r)
           /\ link'[j][i] = Tail(link[j][i])
<1>1. link \in [Server -> [Server -> Seq(AppendMsg)]]
  BY DEF TypeOK
<1> QED BY <1>1 DEF ReplyTo

LEMMA RowsBroadcast ==
    ASSUME TypeOK, NEW i \in Server, NEW th \in Thread, NEW l, NEW next, NEW c,
           BroadcastAppends(i, th, l, next, c)
    PROVE  /\ \A k, n \in Server :
                  \/ link'[k][n] = link[k][n]
                  \/ /\ ~Overlap /\ k = i /\ n \in Peers(i)
                     /\ link'[k][n] = Offer(link[i][n], AppendsFor(term'[i], l, next[n], c))
           /\ \A k \in Server : \A h \in Thread :
                  \/ unsent'[k][h] = unsent[k][h]
                  \/ /\ Overlap /\ k = i /\ h = th
                     /\ \A e \in unsent'[k][h] : e.to \in Peers(i) /\ e.msg = AppendsFor(term'[i], l, next[e.to], c)
           /\ ~Overlap => unsent' = unsent
<1> DEFINE app == [j \in Peers(i) |-> AppendsFor(term'[i], l, next[j], c)]
           row == [j \in Server |-> IF j \in Peers(i) THEN Offer(link[i][j], app[j]) ELSE link[i][j]]
           batch == {[to |-> j, msg |-> app[j]] : j \in Peers(i)}
<1>0. /\ link \in [Server -> [Server -> Seq(AppendMsg)]]
      /\ unsent \in [Server -> [Thread -> SUBSET Envelope]]
  BY DEF TypeOK
<1>1. IF Overlap THEN unsent' = [unsent EXCEPT ![i][th] = batch] /\ link' = link
                 ELSE link' = [link EXCEPT ![i] = row] /\ unsent' = unsent
  BY DEF BroadcastAppends
<1>2. \A j \in Peers(i) : app[j] = AppendsFor(term'[i], l, next[j], c)
  OBVIOUS
<1> HIDE DEF app
<1>3. \A n \in Server : row[n] = IF n \in Peers(i) THEN Offer(link[i][n], app[n]) ELSE link[i][n]
  OBVIOUS
<1>4. \A e \in batch : e.to \in Peers(i) /\ e.msg = app[e.to]
  OBVIOUS
<1> HIDE DEF row, batch
<1>5. CASE Overlap
  <2>1. unsent' = [unsent EXCEPT ![i][th] = batch] /\ link' = link
    BY <1>1, <1>5
  <2>2. \A k \in Server : \A h \in Thread :
            unsent'[k][h] = unsent[k][h] \/ (k = i /\ h = th /\ unsent'[k][h] = batch)
    BY <2>1, <1>0
  <2> QED BY <2>1, <2>2, <1>2, <1>4, <1>5
<1>6. CASE ~Overlap
  <2>1. link' = [link EXCEPT ![i] = row] /\ unsent' = unsent
    BY <1>1, <1>6
  <2>2. \A k, n \in Server : link'[k][n] = link[k][n] \/ (k = i /\ link'[k][n] = row[n])
    BY <2>1, <1>0
  <2> QED BY <2>1, <2>2, <1>2, <1>3, <1>6
<1> QED BY <1>5, <1>6

LEMMA RowsPublished ==
    ASSUME TypeOK, NEW i \in Server, NEW th \in Thread, Publish(i, th)
    PROVE  /\ \E e \in unsent[i][th] :
                  /\ e.to \in Server /\ e.msg \in AppendEntries
                  /\ \A k, n \in Server :
                         \/ link'[k][n] = link[k][n]
                         \/ k = i /\ n = e.to /\ link'[k][n] = Offer(link[i][n], e.msg)
           /\ \A k \in Server : \A h \in Thread : unsent'[k][h] \subseteq unsent[k][h]
<1>1. PICK e \in unsent[i][th] :
          /\ unsent' = [unsent EXCEPT ![i][th] = @ \ {e}]
          /\ link' = [link EXCEPT ![i][e.to] = Offer(@, e.msg)]
  BY DEF Publish
<1>2. /\ link \in [Server -> [Server -> Seq(AppendMsg)]]
      /\ unsent \in [Server -> [Thread -> SUBSET Envelope]]
  BY DEF TypeOK
<1>3. e.to \in Server /\ e.msg \in AppendEntries
  BY <1>2 DEF Envelope
<1>4. \A k, n \in Server : \/ link'[k][n] = link[k][n]
                           \/ k = i /\ n = e.to /\ link'[k][n] = Offer(link[i][n], e.msg)
  BY <1>1, <1>2, <1>3
<1>5. \A k \in Server : \A h \in Thread : unsent'[k][h] \subseteq unsent[k][h]
  BY <1>1, <1>2
<1> QED BY <1>3, <1>4, <1>5

\* A link loses its oldest message, or gets a rejection or a published append.
QuietRow(k, n) ==
    \/ link'[k][n] = link[k][n]
    \/ link[k][n] # <<>> /\ link'[k][n] = Tail(link[k][n])
    \/ \E r \in AppendReply : ~r.success /\ link'[k][n] = Offer(link[k][n], r)
    \/ \E h \in Thread : \E e \in unsent[k][h] :
           e.to = n /\ e.msg \in AppendEntries /\ link'[k][n] = Offer(link[k][n], e.msg)
QuietRows ==
    /\ \A k, n \in Server : QuietRow(k, n)
    /\ \A k \in Server : \A h \in Thread : unsent'[k][h] \subseteq unsent[k][h]

LEMMA QuietUntouched == ASSUME UNCHANGED <<link, unsent>> PROVE QuietRows
BY DEF QuietRows, QuietRow

LEMMA QuietTaken ==
    ASSUME TypeOK, unsent' = unsent, NEW i \in Server, NEW j \in Server, link[j][i] # <<>>,
           link' = [link EXCEPT ![j][i] = Tail(@)]
    PROVE  QuietRows
BY RowsTaken DEF QuietRows, QuietRow

LEMMA QuietAnswered ==
    ASSUME TypeOK, unsent' = unsent, NEW i \in Server, NEW j \in Server, i # j, link[j][i] # <<>>,
           NEW r \in AppendReply, ~r.success, ReplyTo(j, i, r)
    PROVE  QuietRows
BY RowsAnswered DEF QuietRows, QuietRow

LEMMA QuietPublished ==
    ASSUME TypeOK, NEW i \in Server, NEW th \in Thread, Publish(i, th)
    PROVE  QuietRows
<1>1. PICK e \in unsent[i][th] :
          /\ e.to \in Server /\ e.msg \in AppendEntries
          /\ \A k, n \in Server : \/ link'[k][n] = link[k][n]
                                  \/ k = i /\ n = e.to /\ link'[k][n] = Offer(link[i][n], e.msg)
  BY RowsPublished
<1>2. \A k \in Server : \A h \in Thread : unsent'[k][h] \subseteq unsent[k][h]
  BY RowsPublished
<1> QED BY <1>1, <1>2 DEF QuietRows, QuietRow

\* No log changes and no append or leader is new.
Quiet ==
    /\ UNCHANGED <<log, ledger, held, elections>>
    /\ QuietRows /\ Sent(link', unsent') \subseteq Sent(link, unsent)
    /\ \A k \in Server : /\ term'[k] >= term[k]
                         /\ role'[k] = "Leader" => role[k] = "Leader" /\ term'[k] = term[k]

\* Node i wins its term, which nobody had won.
Elects(i, voters) ==
    /\ BecomeLeader(i, voters)
    /\ log' = log /\ ~TermWon(term'[i]) /\ role[i] # "Leader" /\ term'[i] >= term[i]
    /\ \A k \in Server \ {i} : role'[k] = role[k] /\ term'[k] = term[k]
    /\ grants' = grants /\ commit' = commit
    /\ voters = {i} \/ (role[i] = "Candidate" /\ term'[i] = term[i])

\* become_follower goes to a later term, or stays in its own, and leads nothing.
LEMMA FollowQuiet ==
    ASSUME TypeOK, NEW i \in Server, NEW t \in Nat, t >= term[i], BecomeFollower(i, t)
    PROVE  /\ \A k \in Server :
                  /\ term'[k] >= term[k]
                  /\ role'[k] = "Leader" => role[k] = "Leader" /\ term'[k] = term[k]
           /\ term'[i] = t /\ role'[i] = "Follower"
           /\ \A k \in Server \ {i} : role'[k] = role[k] /\ term'[k] = term[k]
<1>1. term \in [Server -> Nat] /\ role \in [Server -> {"Follower", "Candidate", "Leader"}]
  BY DEF TypeOK
<1>2. term' = [term EXCEPT ![i] = t] /\ role' = [role EXCEPT ![i] = "Follower"]
  BY DEF BecomeFollower
<1> QED BY <1>1, <1>2

LEMMA FollowsQuiet ==
    ASSUME TypeOK, NEW i \in Server, NEW m, m.term \in Nat, Follows(i, m)
    PROVE  /\ \A k \in Server :
                  /\ term'[k] >= term[k]
                  /\ role'[k] = "Leader" => role[k] = "Leader" /\ term'[k] = term[k]
           /\ m.term >= term[i] => term'[i] = m.term /\ role'[i] = "Follower"
           /\ \A k \in Server \ {i} : role'[k] = role[k] /\ term'[k] = term[k]
<1>0. term \in [Server -> Nat] /\ role \in [Server -> {"Follower", "Candidate", "Leader"}]
  BY DEF TypeOK
<1>1. CASE /\ m.term > term[i] \/ (m.term = term[i] /\ role[i] # "Follower")
           /\ BecomeFollower(i, m.term)
  <2>1. m.term >= term[i]
    BY <1>0, <1>1
  <2> QED BY <2>1, <1>1, FollowQuiet
<1>2. CASE /\ m.term < term[i] \/ (m.term = term[i] /\ role[i] = "Follower")
           /\ UNCHANGED <<term, role, votedFor, votes, nextIndex, matchIndex, counted>>
  BY <1>0, <1>2
<1> QED BY <1>1, <1>2 DEF Follows

\* Every step is quiet, or broadcasts, elects, proposes or accepts.
LEMMA StepKinds ==
    ASSUME TypeOK, TypeOK', ElectionInv, ElectionInv', [Next]_vars
    PROVE  \/ Quiet
           \/ \E i \in Server : Heartbeat(i)
           \/ \E i \in Server : \E V \in SUBSET Server : Elects(i, V)
           \/ \E i \in Server, c \in Caller, v \in Value : Propose(i, c, v)
           \/ \E i \in Server : \E j \in Peers(i) :
                  HandleAppendEntries(i, j) /\ Accepts(i, j, Head(link[j][i]))
<1>0. role \in [Server -> {"Follower", "Candidate", "Leader"}] /\ term \in [Server -> Nat]
  BY DEF TypeOK
<1>1. ASSUME NEW i \in Server, NEW V \in SUBSET Server, BecomeLeader(i, V), log' = log,
             ~Won(i, term'[i]), role[i] # "Leader", term'[i] >= term[i],
             \A k \in Server \ {i} : term'[k] = term[k], UNCHANGED <<grants, commit>>,
             V = {i} \/ (role[i] = "Candidate" /\ term'[i] = term[i])
      PROVE  Elects(i, V)
  <2>1. \A k \in Server \ {i} : role'[k] = role[k]
    BY <1>0, <1>1 DEF BecomeLeader
  <2> DEFINE won == [leader |-> i, term |-> term'[i], voters |-> V]
  <2>2. elections' = elections \cup {won} /\ won.leader = i /\ won.term = term'[i]
    BY <1>1 DEF BecomeLeader
  <2> HIDE DEF won
  <2>3. ASSUME NEW e \in elections, e.term = term'[i] PROVE FALSE
    <3>1. e \in elections' /\ won \in elections'
      BY <2>2
    <3>2. e.leader = i
      BY <2>2, <2>3, <3>1 DEF ElectionInv, ElectionSafety
    <3> QED BY <3>2, <2>3, <1>1 DEF Won
  <2> QED BY <1>1, <2>1, <2>3 DEF Elects, TermWon
<1>2. CASE \E i \in Server : StartElection(i)
  <2>1. PICK i \in Server : StartElection(i)
    BY <1>2
  <2>2. /\ term' = [term EXCEPT ![i] = @ + 1] /\ role[i] # "Leader"
        /\ UNCHANGED <<log, grants, commit>>
    BY <2>1 DEF StartElection
  <2>3. CASE Peers(i) = {}
    <3>1. BecomeLeader(i, {i})
      BY <2>1, <2>3 DEF StartElection
    <3>2. ~Won(i, term'[i])
      <4> SUFFICES ASSUME NEW e \in elections, e.leader = i, e.term = term[i] + 1 PROVE FALSE
        BY <2>2, <1>0 DEF Won
      <4>1. e.term <= term[i]
        BY DEF ElectionInv, WinnersLead
      <4> QED BY <4>1, <1>0
    <3>3. term'[i] >= term[i] /\ \A k \in Server \ {i} : term'[k] = term[k]
      BY <2>2, <1>0
    <3>4. {i} \in SUBSET Server
      OBVIOUS
    <3>5. Elects(i, {i})
      BY <2>2, <3>1, <3>2, <3>3, <3>4, <1>1
    <3> QED BY <3>4, <3>5
  <2>4. CASE Peers(i) # {}
    <3>1. UNCHANGED <<elections, link, unsent, trail>> /\ role' = [role EXCEPT ![i] = "Candidate"]
      BY <2>1, <2>4 DEF StartElection
    <3>2. \A k \in Server : term'[k] >= term[k] /\ (role'[k] = "Leader" => role[k] = "Leader" /\ term'[k] = term[k])
      BY <2>2, <3>1, <1>0
    <3> QED BY <2>2, <3>1, <3>2, QuietUntouched DEF Quiet, trail
  <2> QED BY <2>3, <2>4
<1>3. CASE \E i \in Server, m \in ballots : HandleRequestVote(i, m)
  <2>1. PICK i \in Server, m \in ballots : HandleRequestVote(i, m)
    BY <1>3
  <2>2. /\ UNCHANGED <<log, elections, link, unsent, trail>>
        /\ \/ role' = [role EXCEPT ![i] = "Follower"] /\ term' = [term EXCEPT ![i] = m.term] /\ m.term > term[i]
           \/ UNCHANGED <<role, term>>
    BY <2>1 DEF HandleRequestVote
  <2>3. m.term \in Nat
    BY BallotTyped
  <2>4. \A k \in Server : term'[k] >= term[k] /\ (role'[k] = "Leader" => role[k] = "Leader" /\ term'[k] = term[k])
    BY <2>2, <2>3, <1>0
  <2> QED BY <2>2, <2>4, QuietUntouched DEF Quiet, trail
<1>4. CASE \E i \in Server, m \in ballots : HandleVoteReply(i, m)
  <2>1. PICK i \in Server, m \in ballots : HandleVoteReply(i, m)
    BY <1>4
  <2>2. m.term \in Nat
    BY BallotTyped
  <2>3. \/ m.term > term[i] /\ BecomeFollower(i, m.term) /\ UNCHANGED <<log, link, unsent, elections, trail>>
        \/ /\ role[i] = "Candidate" /\ UNCHANGED <<term, log, grants, commit>>
           /\ BecomeLeader(i, counted[i] \cup {m.from, i})
        \/ UNCHANGED <<role, term, log, link, unsent, elections, trail>>
    BY <2>1 DEF HandleVoteReply, nodeVars, history
  <2>4. CASE m.term > term[i] /\ BecomeFollower(i, m.term) /\ UNCHANGED <<log, link, unsent, elections, trail>>
    <3>1. m.term >= term[i]
      BY <2>2, <2>4, <1>0
    <3> QED BY <3>1, <2>2, <2>4, FollowQuiet, QuietUntouched DEF Quiet, trail
  <2>5. CASE /\ role[i] = "Candidate" /\ UNCHANGED <<term, log, grants, commit>>
             /\ BecomeLeader(i, counted[i] \cup {m.from, i})
    <3>1. ~Won(i, term'[i])
      BY <2>5 DEF Won, ElectionInv, WinnersLead
    <3>2. counted[i] \cup {m.from, i} \in SUBSET Server
      <4>1. m.from \in Server /\ counted[i] \in SUBSET Server
        BY BallotTyped DEF TypeOK
      <4> QED BY <4>1
    <3>3. role[i] # "Leader" /\ term'[i] >= term[i] /\ \A k \in Server \ {i} : term'[k] = term[k]
      BY <2>5, <1>0
    <3>4. Elects(i, counted[i] \cup {m.from, i})
      BY <2>5, <3>1, <3>2, <3>3, <1>1
    <3> QED BY <3>2, <3>4
  <2>6. CASE UNCHANGED <<role, term, log, link, unsent, elections, trail>>
    BY <2>6, <1>0, QuietUntouched DEF Quiet, trail
  <2> QED BY <2>3, <2>4, <2>5, <2>6
<1>5. CASE \E i \in Server : \E j \in Peers(i) : HandleAppendEntries(i, j)
  <2>0. PICK i \in Server : \E j \in Peers(i) : HandleAppendEntries(i, j)
    BY <1>5
  <2>1. PICK j \in Peers(i) : HandleAppendEntries(i, j)
    BY <2>0
  <2> DEFINE m == Head(link[j][i])
  <2>2. /\ j \in Server /\ i # j /\ link[j][i] # <<>> /\ m \in AppendEntries
        /\ UNCHANGED <<ballots, unsent, elections, grants>> /\ Follows(i, m)
        /\ Rejects(i, j, m) \/ Accepts(i, j, m)
    BY <2>1, AppendOutcome
  <2> HIDE DEF m
  <2>3. m.term \in Nat
    BY <2>2 DEF AppendEntries
  <2>4. CASE Rejects(i, j, m)
    <3>1. Sent(link', unsent') \subseteq Sent(link, unsent)
      BY <2>2, <2>4, SentReceived DEF Rejects
    <3>2. QuietRows
      BY <2>2, <2>4, QuietAnswered DEF Rejects
    <3> QED BY <3>1, <3>2, <2>2, <2>3, <2>4, FollowsQuiet DEF Quiet, Rejects
  <2> QED BY <2>1, <2>2, <2>4 DEF m
<1>6. CASE \E i \in Server : \E j \in Peers(i) : HandleAppendReply(i, j)
  <2>0. PICK i \in Server : \E j \in Peers(i) : HandleAppendReply(i, j)
    BY <1>6
  <2>1. PICK j \in Peers(i) : HandleAppendReply(i, j)
    BY <2>0
  <2> DEFINE m == Head(link[j][i])
  <2>2. /\ j \in Server /\ i # j /\ link[j][i] # <<>>
        /\ link' = [link EXCEPT ![j][i] = Tail(@)] /\ UNCHANGED <<unsent, elections, log, trail>>
    BY <2>1 DEF HandleAppendReply, Incoming, Peers
  <2>3. m.term \in Nat
    <3>1. m \in AppendMsg
      BY <2>2, ReceiveType
    <3> HIDE DEF m
    <3> QED BY <3>1 DEF AppendMsg, AppendEntries, AppendReply
  <2>4. (m.term > term[i] /\ BecomeFollower(i, m.term)) \/ UNCHANGED <<role, term>>
    BY <2>1 DEF HandleAppendReply
  <2> HIDE DEF m
  <2>5. \A k \in Server : term'[k] >= term[k] /\ (role'[k] = "Leader" => role[k] = "Leader" /\ term'[k] = term[k])
    <3>1. CASE UNCHANGED <<role, term>>
      BY <3>1, <1>0
    <3>2. CASE m.term > term[i] /\ BecomeFollower(i, m.term)
      <4>1. m.term >= term[i]
        BY <2>3, <3>2, <1>0
      <4> QED BY <4>1, <2>3, <3>2, FollowQuiet
    <3> QED BY <3>1, <3>2, <2>4
  <2>6. QuietRows
    BY <2>2, QuietTaken
  <2> QED BY <2>2, <2>5, <2>6, SentReceived DEF Quiet, trail
<1>7. CASE \E i \in Server, th \in Thread : Publish(i, th)
  <2>1. PICK i \in Server, th \in Thread : Publish(i, th)
    BY <1>7
  <2>2. UNCHANGED <<role, term, log, elections, trail>>
    BY <2>1 DEF Publish, nodeVars, history
  <2> QED BY <2>1, <2>2, <1>0, SentPublished, QuietPublished DEF Quiet, trail
<1>8. CASE \E i \in Server : \E j \in Peers(i) : Lose(i, j)
  <2>0. PICK i \in Server : \E j \in Peers(i) : Lose(i, j)
    BY <1>8
  <2>1. PICK j \in Peers(i) : Lose(i, j)
    BY <2>0
  <2>2. /\ UNCHANGED <<role, term, log, elections, unsent, trail>> /\ j \in Server /\ i # j
        /\ link' = [link EXCEPT ![i][j] = Tail(@)] /\ link[i][j] # <<>>
    BY <2>1 DEF Lose, nodeVars, history, Peers
  <2>3. Sent(link', unsent') \subseteq Sent(link, unsent)
    BY <2>2, SentReceived
  <2>4. \A k \in Server : term'[k] >= term[k] /\ (role'[k] = "Leader" => role[k] = "Leader" /\ term'[k] = term[k])
    BY <2>2, <1>0
  <2>5. QuietRows
    BY <2>2, QuietTaken
  <2>6. Quiet
    BY <2>2, <2>3, <2>4, <2>5 DEF Quiet, trail
  <2> QED BY <2>6
<1>9. CASE UNCHANGED vars
  <2>1. UNCHANGED <<role, term, log, link, unsent, elections, trail>>
    BY <1>9 DEF vars, nodeVars, netVars, history
  <2> QED BY <2>1, <1>0, QuietUntouched DEF Quiet, trail
<1> QED BY <1>2, <1>3, <1>4, <1>5, <1>6, <1>7, <1>8, <1>9 DEF Next, Tick, Receive

---------------------------------------------------------------------------
(* No term is above the bound                                              *)

LEMMA TermsKept ==
    ASSUME TermsBounded, \A k \in Server : term'[k] \in Term,
           \A m \in ballots' : m \in ballots \/ m.term \in Term,
           \A k, n \in Server : \A m \in Carried(link'[k][n]) : m \in Carried(link[k][n]) \/ m.term \in Term,
           \A k \in Server : \A h \in Thread : \A e \in unsent'[k][h] :
               e \in unsent[k][h] \/ e.msg.term \in Term
    PROVE  TermsBounded'
<1>1. ASSUME NEW k \in Server, NEW n \in Server PROVE Carried(link[k][n])' = Carried(link'[k][n])
  BY DEF Carried
<1> QED BY <1>1 DEF TermsBounded

\* Taking a message, and answering it in a term that is within the bound.
LEMMA TermsReceived ==
    ASSUME TypeOK, TermsBounded, \A k \in Server : term'[k] \in Term, UNCHANGED <<ballots, unsent>>,
           NEW i \in Server, NEW j \in Server, i # j, link[j][i] # <<>>,
           \/ link' = [link EXCEPT ![j][i] = Tail(@)]
           \/ \E r \in AppendReply : ReplyTo(j, i, r) /\ r.term \in Term
    PROVE  TermsBounded'
<1>0. link \in [Server -> [Server -> Seq(AppendMsg)]]
  BY DEF TypeOK
<1>1. Carried(Tail(link[j][i])) \subseteq Carried(link[j][i])
  BY <1>0, CarriedTaken
<1>2. ASSUME NEW k \in Server, NEW n \in Server, NEW m \in Carried(link'[k][n])
      PROVE  m \in Carried(link[k][n]) \/ m.term \in Term
  <2>1. CASE link' = [link EXCEPT ![j][i] = Tail(@)]
    BY <2>1, <1>1, <1>2, RowsTaken
  <2>2. ASSUME NEW r \in AppendReply, ReplyTo(j, i, r), r.term \in Term
        PROVE  m \in Carried(link[k][n]) \/ m.term \in Term
    <3>1. Carried(Offer(link[i][j], r)) \subseteq Carried(link[i][j]) \cup {r}
      BY <1>0, CarriedOffer
    <3>2. \/ link'[k][n] = link[k][n]
          \/ k = j /\ n = i /\ link'[k][n] = Tail(link[j][i])
          \/ k = i /\ n = j /\ link'[k][n] = Offer(link[i][j], r)
      BY <2>2, RowsAnswered
    <3> QED BY <1>1, <1>2, <2>2, <3>1, <3>2
  <2> QED BY <2>1, <2>2
<1> QED BY <1>2, TermsKept

\* A broadcast is in the broadcaster's term.
LEMMA TermsBroadcast ==
    ASSUME TypeOK, TermsBounded, \A k \in Server : term'[k] \in Term,
           ballots' \subseteq ballots,
           NEW i \in Server, NEW th \in Thread, NEW l, NEW next, NEW c,
           BroadcastAppends(i, th, l, next, c)
    PROVE  TermsBounded'
<1>0. link \in [Server -> [Server -> Seq(AppendMsg)]]
  BY DEF TypeOK
<1>1. ASSUME NEW n PROVE AppendsFor(term'[i], l, n, c).term \in Term
  BY DEF AppendsFor
<1>2. ASSUME NEW k \in Server, NEW n \in Server, NEW m \in Carried(link'[k][n])
      PROVE  m \in Carried(link[k][n]) \/ m.term \in Term
  <2>1. CASE link'[k][n] = link[k][n]
    BY <2>1, <1>2
  <2>2. CASE k = i /\ link'[k][n] = Offer(link[i][n], AppendsFor(term'[i], l, next[n], c))
    <3>1. Carried(Offer(link[i][n], AppendsFor(term'[i], l, next[n], c)))
              \subseteq Carried(link[i][n]) \cup {AppendsFor(term'[i], l, next[n], c)}
      BY <1>0, CarriedOffer
    <3> QED BY <3>1, <2>2, <1>1, <1>2
  <2> QED BY <2>1, <2>2, RowsBroadcast
<1>3. ASSUME NEW k \in Server, NEW h \in Thread, NEW e \in unsent'[k][h]
      PROVE  e \in unsent[k][h] \/ e.msg.term \in Term
  BY <1>1, <1>3, RowsBroadcast
<1> QED BY <1>2, <1>3, TermsKept

LEMMA TermsStep == TypeOK /\ TypeOK' /\ TermsBounded /\ [Next]_vars => TermsBounded'
<1> SUFFICES ASSUME TypeOK, TypeOK', TermsBounded, [Next]_vars PROVE TermsBounded'
  OBVIOUS
<1>0. /\ term \in [Server -> Nat] /\ \A k \in Server : term[k] \in Term
      /\ MaxTerm \in Nat /\ Term = 0 .. MaxTerm /\ "pump" \in Thread
  BY BoundAssumption DEF TypeOK, TermsBounded, Term, Thread
<1>1. ASSUME NEW i \in Server, StartElection(i) PROVE TermsBounded'
  <2>1. term' = [term EXCEPT ![i] = @ + 1] /\ term[i] < MaxTerm
    BY <1>1 DEF StartElection
  <2>2. term[i] + 1 \in Term /\ \A k \in Server : term'[k] \in Term
    BY <1>0, <2>1
  <2>3. CASE Peers(i) = {}
    <3>1. (\E l, next, c : BroadcastAppends(i, "pump", l, next, c)) /\ ballots' = ballots
      BY <1>1, <2>3 DEF StartElection, BecomeLeader
    <3> QED BY <3>1, <2>2, <1>0, TermsBroadcast
  <2>4. CASE Peers(i) # {}
    <3>1. /\ UNCHANGED <<link, unsent>>
          /\ \A m \in ballots' : m \in ballots \/ m.term = term[i] + 1
      BY <1>1, <2>4 DEF StartElection
    <3> QED BY <3>1, <2>2, TermsKept
  <2> QED BY <2>3, <2>4
<1>2. ASSUME NEW i \in Server, Heartbeat(i) PROVE TermsBounded'
  <2>1. /\ UNCHANGED <<term, ballots>> /\ \E l, next, c : BroadcastAppends(i, "pump", l, next, c)
    BY <1>2 DEF Heartbeat, nodeVars
  <2> QED BY <2>1, <1>0, TermsBroadcast
<1>3. ASSUME NEW i \in Server, NEW c \in Caller, NEW v \in Value, Propose(i, c, v) PROVE TermsBounded'
  <2>1. /\ UNCHANGED <<term, ballots>> /\ \E l, next, b : BroadcastAppends(i, c, l, next, b)
    BY <1>3 DEF Propose
  <2>2. c \in Thread
    BY DEF Thread
  <2> QED BY <2>1, <2>2, <1>0, TermsBroadcast
<1>4. ASSUME NEW i \in Server, NEW m \in ballots, HandleRequestVote(i, m) PROVE TermsBounded'
  <2>1. m.term \in Term
    BY DEF TermsBounded
  <2>2. UNCHANGED <<link, unsent>> /\ (term' = [term EXCEPT ![i] = m.term] \/ term' = term)
    BY <1>4 DEF HandleRequestVote
  <2>3. \A k \in Server : term'[k] \in Term
    BY <2>1, <2>2, <1>0
  <2>4. \A r \in ballots' : r \in ballots \/ r.term \in {m.term, term[i]}
    BY <1>4 DEF HandleRequestVote
  <2> QED BY <2>1, <2>2, <2>3, <2>4, <1>0, TermsKept
<1>5. ASSUME NEW i \in Server, NEW m \in ballots, HandleVoteReply(i, m) PROVE TermsBounded'
  <2>1. m.term \in Term /\ ballots' \subseteq ballots
    BY <1>5 DEF TermsBounded, HandleVoteReply
  <2>2. \/ term' = [term EXCEPT ![i] = m.term] /\ UNCHANGED <<link, unsent>>
        \/ term' = term /\ UNCHANGED <<link, unsent>>
        \/ term' = term /\ \E l, next, c : BroadcastAppends(i, "pump", l, next, c)
    BY <1>5 DEF HandleVoteReply, BecomeFollower, BecomeLeader, nodeVars
  <2>3. \A k \in Server : term'[k] \in Term
    BY <2>1, <2>2, <1>0
  <2> QED BY <2>1, <2>2, <2>3, <1>0, TermsKept, TermsBroadcast
<1>6. ASSUME NEW i \in Server, NEW j \in Peers(i), HandleAppendEntries(i, j) PROVE TermsBounded'
  <2> DEFINE m == Head(link[j][i])
  <2>1. /\ j \in Server /\ i # j /\ link[j][i] # <<>> /\ m \in Carried(link[j][i])
        /\ UNCHANGED <<ballots, unsent>> /\ Follows(i, m)
        /\ Rejects(i, j, m) \/ Accepts(i, j, m)
    BY <1>6, AppendOutcome
  <2> HIDE DEF m
  <2>2. m.term \in Term
    BY <2>1 DEF TermsBounded
  <2>3. \A k \in Server : term'[k] \in Term
    BY <2>1, <2>2, <1>0 DEF Follows, BecomeFollower
  <2>4. \E r \in AppendReply : ReplyTo(j, i, r) /\ r.term \in Term
    BY <2>1, <2>2, <1>0 DEF Rejects, Accepts
  <2> QED BY <2>1, <2>3, <2>4, TermsReceived
<1>7. ASSUME NEW i \in Server, NEW j \in Peers(i), HandleAppendReply(i, j) PROVE TermsBounded'
  <2> DEFINE m == Head(link[j][i])
  <2>1. /\ j \in Server /\ i # j /\ link[j][i] # <<>>
        /\ link' = [link EXCEPT ![j][i] = Tail(@)] /\ UNCHANGED <<ballots, unsent>>
        /\ BecomeFollower(i, m.term) \/ UNCHANGED term
    BY <1>7 DEF HandleAppendReply, Incoming, Peers
  <2>2. m \in Carried(link[j][i])
    BY <2>1, CarriedTaken DEF TypeOK
  <2> HIDE DEF m
  <2>3. m.term \in Term
    BY <2>1, <2>2 DEF TermsBounded
  <2>4. \A k \in Server : term'[k] \in Term
    BY <2>1, <2>3, <1>0 DEF BecomeFollower
  <2> QED BY <2>1, <2>4, TermsReceived
<1>8. ASSUME NEW i \in Server, NEW th \in Thread, Publish(i, th) PROVE TermsBounded'
  <2>1. UNCHANGED <<term, ballots>>
    BY <1>8 DEF Publish, nodeVars
  <2>2. PICK e \in unsent[i][th] : \A k, n \in Server :
            \/ link'[k][n] = link[k][n]
            \/ k = i /\ n = e.to /\ link'[k][n] = Offer(link[i][n], e.msg)
    BY <1>8, RowsPublished
  <2>3. \A k \in Server : \A h \in Thread : unsent'[k][h] \subseteq unsent[k][h]
    BY <1>8, RowsPublished
  <2>4. e.msg.term \in Term
    BY DEF TermsBounded
  <2>5. ASSUME NEW k \in Server, NEW n \in Server, NEW m \in Carried(link'[k][n])
        PROVE  m \in Carried(link[k][n]) \/ m.term \in Term
    <3>0. link[i][n] \in Seq(AppendMsg)
      BY DEF TypeOK
    <3>1. Carried(Offer(link[i][n], e.msg)) \subseteq Carried(link[i][n]) \cup {e.msg}
      BY <3>0, CarriedOffer
    <3> QED BY <3>1, <2>2, <2>4, <2>5
  <2> QED BY <2>1, <2>3, <2>5, <1>0, TermsKept
<1>9. ASSUME NEW i \in Server, NEW j \in Peers(i), Lose(i, j) PROVE TermsBounded'
  <2>1. /\ UNCHANGED <<term, ballots, unsent>> /\ j \in Server /\ i # j
        /\ link' = [link EXCEPT ![i][j] = Tail(@)] /\ link[i][j] # <<>>
    BY <1>9 DEF Lose, nodeVars, Peers
  <2> QED BY <2>1, <1>0, TermsReceived
<1>10. CASE UNCHANGED vars
  <2>1. UNCHANGED <<term, ballots, link, unsent>>
    BY <1>10 DEF vars, nodeVars, netVars
  <2> QED BY <2>1, <1>0, TermsKept
<1> QED BY <1>1, <1>2, <1>3, <1>4, <1>5, <1>6, <1>7, <1>8, <1>9, <1>10 DEF Next, Tick, Receive

---------------------------------------------------------------------------
(* Every log and every append is a part of the ledger                      *)

LEMMA WrittenNext ==
    ASSUME ledger' \in [Term -> Seq(LogEntry)], held' \in [Server -> [Term -> Nat]],
           \A k \in Server : role'[k] = "Leader" =>
               log'[k] = ledger'[term'[k]] /\ held'[k][term'[k]] = Len(log'[k]),
           \A k \in Server : Traced(log'[k], ledger') /\ UpToTerm(log'[k], term'[k]),
           \A t \in Term : /\ Traced(ledger'[t], ledger') /\ Rising(ledger'[t]) /\ UpToTerm(ledger'[t], t)
                           /\ (\A e \in elections' : e.term # t) => ledger'[t] = <<>>,
           \A m \in Sent(link', unsent') :
               (\E e \in elections' : e.term = m.term) /\ CutFrom(m, ledger'[m.term], m.term),
           \A k \in Server : \A t \in Term :
               held'[k][t] <= Len(ledger'[t]) /\ (held'[k][t] > 0 => t <= term'[k])
    PROVE  Written'
<1>1. Sent(link, unsent)' = Sent(link', unsent')
  BY DEF Sent, Queued, Unpublished, Carried
<1>2. TrailTypes' /\ LeadersWrite' /\ HeldWritten'
  BY DEF TrailTypes, LeadersWrite, HeldWritten
<1>3. LogsTraced'
  BY DEF LogsTraced, Traced, UpToTerm, SameUpTo
<1>4. LedgerTraced'
  BY DEF LedgerTraced, Traced, UpToTerm, SameUpTo, Rising, TermWon
<1>5. AppendsCut'
  BY <1>1 DEF AppendsCut, CutFrom, EndOf, TermWon
<1> QED BY <1>2, <1>3, <1>4, <1>5 DEF Written

LEMMA WrittenQuiet ==
    ASSUME TypeOK, TypeOK', Written, Quiet
    PROVE  Written'
<1>0. term \in [Server -> Nat] /\ term' \in [Server -> Nat] /\ log \in [Server -> Seq(LogEntry)]
  BY DEF TypeOK
<1>1. UNCHANGED <<log, ledger, held, elections>> /\ Sent(link', unsent') \subseteq Sent(link, unsent)
  BY DEF Quiet
<1>2. \A k \in Server : term'[k] >= term[k] /\ (role'[k] = "Leader" => role[k] = "Leader" /\ term'[k] = term[k])
  BY DEF Quiet
<1>3. TrailTypes /\ LeadersWrite /\ LogsTraced /\ LedgerTraced /\ AppendsCut /\ HeldWritten
  BY DEF Written
<1>4. ASSUME NEW k \in Server PROVE UpToTerm(log[k], term'[k])
  <2>1. UpToTerm(log[k], term[k]) /\ log[k] \in Seq(LogEntry) /\ term'[k] >= term[k]
    BY <1>0, <1>2, <1>3 DEF LogsTraced
  <2>2. \A n \in 1 .. Len(log[k]) : log[k][n].term \in Nat
    BY <2>1, EntryTerm
  <2> QED BY <2>1, <2>2, <1>0 DEF UpToTerm
<1>5. \A k \in Server : \A t \in Term : held[k][t] > 0 => t <= term'[k]
  BY <1>0, <1>2, <1>3 DEF HeldWritten, Term
<1>6. \A t \in Term : /\ Traced(ledger[t], ledger) /\ Rising(ledger[t]) /\ UpToTerm(ledger[t], t)
                      /\ (\A e \in elections : e.term # t) => ledger[t] = <<>>
  BY <1>3 DEF LedgerTraced, TermWon
<1>7. \A m \in Sent(link', unsent') :
          (\E e \in elections : e.term = m.term) /\ CutFrom(m, ledger[m.term], m.term)
  BY <1>1, <1>3 DEF AppendsCut, TermWon
<1>8. \A k \in Server : role'[k] = "Leader" => log[k] = ledger[term'[k]] /\ held[k][term'[k]] = Len(log[k])
  BY <1>2, <1>3 DEF LeadersWrite
<1>9. ledger \in [Term -> Seq(LogEntry)] /\ held \in [Server -> [Term -> Nat]]
  BY <1>3 DEF TrailTypes
<1>10. \A k \in Server : Traced(log[k], ledger)
  BY <1>3 DEF LogsTraced
<1>11. \A k \in Server : \A t \in Term : held[k][t] <= Len(ledger[t])
  BY <1>3 DEF HeldWritten
<1> QED BY <1>1, <1>4, <1>5, <1>6, <1>7, <1>8, <1>9, <1>10, <1>11, WrittenNext

\* What a broadcast adds is cut from the log that is broadcast.
LEMMA BroadcastCut ==
    ASSUME TypeOK, NEW i \in Server, NEW th \in Thread, NEW l \in Seq(LogEntry),
           NEW next \in [Server -> Nat \ {0}], NEW c \in Nat, term'[i] \in Nat,
           BroadcastAppends(i, th, l, next, c)
    PROVE  \A m \in Sent(link', unsent') :
               \/ m \in Sent(link, unsent)
               \/ m.term = term'[i] /\ CutFrom(m, l, term'[i]) /\ EndOf(m) = Len(l) /\ m.leaderCommit = c
<1>1. ASSUME NEW j \in Peers(i), NEW m, m = AppendsFor(term'[i], l, next[j], c)
      PROVE  m.term = term'[i] /\ CutFrom(m, l, term'[i]) /\ EndOf(m) = Len(l) /\ m.leaderCommit = c
  <2>1. next[j] \in Nat \ {0} /\ next[j] - 1 <= Len(l)
    BY DEF BroadcastAppends, CanBroadcast, Peers
  <2>2. /\ CutFrom(AppendsFor(term'[i], l, next[j], c), l, term'[i])
        /\ EndOf(AppendsFor(term'[i], l, next[j], c)) = Len(l)
    BY <2>1, AppendsForCut
  <2>3. m.term = term'[i] /\ m.leaderCommit = c
    BY <1>1 DEF AppendsFor
  <2> QED BY <2>2, <2>3, <1>1
<1> QED BY <1>1, SentBroadcast

LEMMA WrittenHeartbeat ==
    ASSUME TypeOK, ElectionInv, Written, NEW i \in Server, Heartbeat(i)
    PROVE  Written'
<1>1. UNCHANGED <<role, term, log, elections, ledger, held>> /\ role[i] = "Leader"
      /\ BroadcastAppends(i, "pump", log[i], nextIndex[i], commit[i])
  BY DEF Heartbeat, nodeVars, history, trail
<1>2. /\ log[i] \in Seq(LogEntry) /\ nextIndex[i] \in [Server -> Nat \ {0}] /\ commit[i] \in Nat
      /\ term'[i] = term[i] /\ term[i] \in Nat /\ "pump" \in Thread
  BY <1>1 DEF TypeOK, Thread
<1>3. log[i] = ledger[term[i]] /\ \E e \in elections : e.term = term[i]
  BY <1>1 DEF Written, LeadersWrite, ElectionInv, LeadersWon, Won
<1>4. ASSUME NEW m \in Sent(link', unsent')
      PROVE  (\E e \in elections : e.term = m.term) /\ CutFrom(m, ledger[m.term], m.term)
  <2>1. \/ m \in Sent(link, unsent)
        \/ m.term = term'[i] /\ CutFrom(m, log[i], term'[i])
    BY <1>1, <1>2, BroadcastCut
  <2>2. CASE m \in Sent(link, unsent)
    BY <2>2 DEF Written, AppendsCut, TermWon
  <2>3. CASE m.term = term'[i] /\ CutFrom(m, log[i], term'[i])
    BY <2>3, <1>2, <1>3
  <2> QED BY <2>1, <2>2, <2>3
<1>5. TrailTypes /\ LeadersWrite /\ LogsTraced /\ LedgerTraced /\ HeldWritten
  BY DEF Written
<1> QED BY <1>1, <1>4, <1>5, WrittenNext
     DEF TrailTypes, LeadersWrite, LogsTraced, LedgerTraced, HeldWritten, TermWon

\* A new leader: nothing is written for its term yet.
LEMMA WrittenElected ==
    ASSUME TypeOK, TypeOK', ElectionInv, LedgerInv, TermsBounded', NEW i \in Server, NEW V, Elects(i, V)
    PROVE  Written'
<1> DEFINE T == term'[i]
           next == [j \in Server |-> IF j = i THEN 1 ELSE Len(log[i]) + 1]
           won == [leader |-> i, term |-> T, voters |-> V]
<1>1. /\ BroadcastAppends(i, "pump", log[i], next, commit[i])
      /\ elections' = elections \cup {won} /\ won.term = T
      /\ ledger' = [ledger EXCEPT ![T] = log[i]]
      /\ held' = [held EXCEPT ![i][T] = Len(log[i])]
      /\ role' = [role EXCEPT ![i] = "Leader"]
  BY DEF Elects, BecomeLeader, LeadsWith
<1>2. /\ log' = log /\ T >= term[i] /\ (\A e \in elections : e.term # T)
      /\ \A k \in Server \ {i} : role'[k] = role[k] /\ term'[k] = term[k]
  BY DEF Elects, TermWon
<1>3. /\ log[i] \in Seq(LogEntry) /\ Len(log[i]) \in Nat /\ commit[i] \in Nat
      /\ term \in [Server -> Nat] /\ term' \in [Server -> Nat] /\ log \in [Server -> Seq(LogEntry)]
      /\ role \in [Server -> {"Follower", "Candidate", "Leader"}] /\ "pump" \in Thread
  <2>1. /\ term \in [Server -> Nat] /\ log \in [Server -> Seq(LogEntry)] /\ commit \in [Server -> Nat]
        /\ role \in [Server -> {"Follower", "Candidate", "Leader"}]
    BY DEF TypeOK
  <2>2. term' \in [Server -> Nat]
    BY DEF TypeOK
  <2>3. "pump" \in Thread
    BY DEF Thread
  <2> QED BY <2>1, <2>2, <2>3
<1>4. next \in [Server -> Nat \ {0}]
  BY <1>3
<1>5. T \in Term /\ T \in Nat
  BY <1>3 DEF TermsBounded
<1> HIDE DEF T, next, won
<1>6. /\ TrailTypes /\ LeadersWrite /\ LogsTraced /\ LedgerTraced /\ AppendsCut /\ HeldWritten
      /\ ledger \in [Term -> Seq(LogEntry)] /\ held \in [Server -> [Term -> Nat]]
  BY DEF LedgerInv, Written, TrailTypes
<1>7. ledger' \in [Term -> Seq(LogEntry)] /\ held' \in [Server -> [Term -> Nat]]
  BY <1>1, <1>3, <1>5, <1>6
<1>8. ledger[T] = <<>> /\ ledger'[T] = log[i] /\ \A t \in Term : t # T => ledger'[t] = ledger[t]
  BY <1>1, <1>2, <1>5, <1>6 DEF LedgerTraced, TermWon
<1>9. ASSUME NEW t \in Term PROVE SameUpTo(ledger'[t], ledger[t], Len(ledger[t]))
  <2>1. ledger[t] \in Seq(LogEntry) /\ ledger'[t] \in Seq(LogEntry)
    BY <1>6, <1>7
  <2>2. ledger[t] = <<>> \/ ledger'[t] = ledger[t]
    BY <1>8
  <2> QED BY <2>1, <2>2 DEF SameUpTo
<1>10. \A k \in Server : Traced(log[k], ledger')
  BY <1>3, <1>6, <1>7, <1>9, TracedGrows DEF LogsTraced
<1>11. \A t \in Term : Traced(ledger[t], ledger')
  BY <1>6, <1>7, <1>9, TracedGrows DEF LedgerTraced
<1>18. \A k \in Server : term'[k] >= term[k]
  <2>1. term'[i] >= term[i]
    BY <1>2 DEF T
  <2>2. \A k \in Server \ {i} : term'[k] = term[k] /\ term[k] \in Nat
    BY <1>2, <1>3
  <2>3. ASSUME NEW k \in Server, k # i PROVE term'[k] >= term[k]
    BY <2>2, <2>3
  <2> QED BY <2>1, <2>3
<1>12. ASSUME NEW k \in Server PROVE UpToTerm(log[k], term'[k])
  <2>1. UpToTerm(log[k], term[k]) /\ term'[k] >= term[k] /\ log[k] \in Seq(LogEntry)
    BY <1>18, <1>3, <1>6 DEF LogsTraced
  <2>2. \A n \in 1 .. Len(log[k]) : log[k][n].term \in Nat
    BY <2>1, EntryTerm
  <2> QED BY <2>1, <2>2, <1>3 DEF UpToTerm
<1>13. Rising(log[i])
  BY <1>3, <1>6, TracedRising DEF LogsTraced, LedgerTraced
<1>14. ASSUME NEW t \in Term
       PROVE  /\ Traced(ledger'[t], ledger') /\ Rising(ledger'[t]) /\ UpToTerm(ledger'[t], t)
              /\ (\A e \in elections' : e.term # t) => ledger'[t] = <<>>
  <2>1. CASE t = T
    <3>1. UpToTerm(log[i], T)
      BY <1>12 DEF T
    <3>2. \E e \in elections' : e.term = T
      BY <1>1
    <3> QED BY <2>1, <3>1, <3>2, <1>8, <1>10, <1>13
  <2>2. CASE t # T
    <3>1. (\A e \in elections' : e.term # t) => (\A e \in elections : e.term # t)
      BY <1>1
    <3> QED BY <2>2, <3>1, <1>6, <1>8, <1>11 DEF LedgerTraced, TermWon
  <2> QED BY <2>1, <2>2
<1>15. ASSUME NEW m \in Sent(link', unsent')
       PROVE  (\E e \in elections' : e.term = m.term) /\ CutFrom(m, ledger'[m.term], m.term)
  <2>1. m \in Sent(link, unsent) \/ (m.term = T /\ CutFrom(m, log[i], T))
    BY <1>1, <1>3, <1>4, <1>5, BroadcastCut DEF T
  <2>2. CASE m \in Sent(link, unsent)
    <3>1. PICK e \in elections : e.term = m.term
      BY <2>2, <1>6 DEF AppendsCut, TermWon
    <3>2. m.term # T /\ e \in elections' /\ CutFrom(m, ledger[m.term], m.term)
      BY <2>2, <3>1, <1>1, <1>2, <1>6 DEF AppendsCut
    <3>3. m.term \in Term
      <4>1. \/ \E k, j \in Server : m \in Carried(link[k][j]) /\ m.type = "AppendEntries"
            \/ \E k \in Server, th \in Thread : \E f \in unsent[k][th] : m = f.msg
        BY <2>2, SentWhere
      <4> QED BY <4>1 DEF LedgerInv, TermsBounded
    <3> QED BY <3>1, <3>2, <3>3, <1>8
  <2>3. CASE m.term = T /\ CutFrom(m, log[i], T)
    BY <2>3, <1>1, <1>8
  <2> QED BY <2>1, <2>2, <2>3
<1>16. ASSUME NEW k \in Server, role'[k] = "Leader"
       PROVE  log'[k] = ledger'[term'[k]] /\ held'[k][term'[k]] = Len(log'[k])
  <2>1. CASE k = i
    BY <2>1, <1>1, <1>2, <1>5, <1>6, <1>8 DEF T
  <2>2. CASE k # i
    <3>1. role[k] = "Leader" /\ term'[k] = term[k]
      BY <2>2, <1>2, <1>16
    <3>2. term[k] # T /\ term[k] \in Term
      BY <3>1, <1>2 DEF ElectionInv, LeadersWon, Won, LedgerInv, TermsBounded
    <3>3. ledger'[term[k]] = ledger[term[k]] /\ held'[k] = held[k]
      BY <2>2, <3>2, <1>1, <1>6, <1>8
    <3> QED BY <3>1, <3>3, <1>2, <1>6 DEF LeadersWrite
  <2> QED BY <2>1, <2>2
<1>17. ASSUME NEW k \in Server, NEW t \in Term
       PROVE  held'[k][t] <= Len(ledger'[t]) /\ (held'[k][t] > 0 => t <= term'[k])
  <2>1. CASE k = i /\ t = T
    BY <2>1, <1>1, <1>3, <1>5, <1>6, <1>8 DEF T
  <2>2. CASE ~(k = i /\ t = T)
    <3>1. held'[k][t] = held[k][t] /\ held[k][t] \in Nat
      BY <2>2, <1>1, <1>5, <1>6
    <3>2. held[k][t] <= Len(ledger[t]) /\ (held[k][t] > 0 => t <= term[k]) /\ t \in Nat
      BY <1>6 DEF HeldWritten, Term
    <3>3. Len(ledger[t]) <= Len(ledger'[t]) /\ Len(ledger[t]) \in Nat /\ Len(ledger'[t]) \in Nat
      BY <1>6, <1>7, <1>9 DEF SameUpTo
    <3> QED BY <3>1, <3>2, <3>3, <1>3, <1>18
  <2> QED BY <2>1, <2>2
<1> QED BY <1>2, <1>7, <1>10, <1>12, <1>14, <1>15, <1>16, <1>17, WrittenNext

\* An append is in a term within the bound.
LEMMA SentTerm ==
    ASSUME TypeOK, TermsBounded, NEW m \in Sent(link, unsent)
    PROVE  m.term \in Term /\ m \in AppendEntries
<1>1. \/ \E k, j \in Server : m \in Carried(link[k][j]) /\ m.type = "AppendEntries"
      \/ \E k \in Server, th \in Thread : \E f \in unsent[k][th] : m = f.msg
  BY SentWhere
<1>2. CASE \E k, j \in Server : m \in Carried(link[k][j]) /\ m.type = "AppendEntries"
  <2>1. PICK k \in Server, j \in Server : m \in Carried(link[k][j]) /\ m.type = "AppendEntries"
    BY <1>2
  <2>2. link[k][j] \in Seq(AppendMsg)
    BY DEF TypeOK
  <2>3. m \in AppendMsg
    BY <2>1, <2>2, ElementOfSeq DEF Carried
  <2> QED BY <2>1, <2>3 DEF TermsBounded, AppendMsg, AppendEntries, AppendReply
<1>3. CASE \E k \in Server, th \in Thread : \E f \in unsent[k][th] : m = f.msg
  BY <1>3 DEF TermsBounded, TypeOK, Envelope
<1> QED BY <1>1, <1>2, <1>3

\* A proposal, seen from the log that is longer by it.
LEMMA ProposeFacts ==
    ASSUME TypeOK, TypeOK', NEW i \in Server, NEW c \in Caller, NEW v \in Value, Propose(i, c, v)
    PROVE  LET l == Append(log[i], [term |-> term[i], data |-> v])
           IN  /\ role[i] = "Leader" /\ c \in Thread /\ unsent[i][c] = {}
               /\ UNCHANGED <<role, term, elections, ballots, grants, matchIndex, nextIndex>>
               /\ log' = [log EXCEPT ![i] = l]
               /\ ledger' = [ledger EXCEPT ![term[i]] = l]
               /\ held' = [held EXCEPT ![i][term[i]] = Len(l)]
               /\ l \in Seq(LogEntry) /\ log[i] \in Seq(LogEntry) /\ Len(l) = Len(log[i]) + 1
               /\ l[Len(log[i]) + 1].term = term[i] /\ \A n \in 1 .. Len(log[i]) : l[n] = log[i][n]
               /\ nextIndex[i] \in [Server -> Nat \ {0}] /\ term[i] \in Nat
               /\ \E n \in CommitCandidates(i, l) :
                      /\ n \in Nat /\ AdvanceCommit(i, l, matchIndex[i], n)
                      /\ commit' = [commit EXCEPT ![i] = n]
                      /\ BroadcastAppends(i, c, l, nextIndex[i], n)
<1> DEFINE x == [term |-> term[i], data |-> v]
           l == Append(log[i], x)
<1>1. /\ role[i] = "Leader" /\ log' = [log EXCEPT ![i] = l] /\ unsent[i][c] = {}
      /\ UNCHANGED <<role, term, ballots, matchIndex, nextIndex, history>>
      /\ LeadsWith(i, l)
      /\ \E n \in CommitCandidates(i, l) :
             /\ AdvanceCommit(i, l, matchIndex[i], n)
             /\ commit' = [commit EXCEPT ![i] = n]
             /\ BroadcastAppends(i, c, l, nextIndex[i], n)
  BY DEF Propose
<1>2. ledger' = [ledger EXCEPT ![term[i]] = l] /\ held' = [held EXCEPT ![i][term[i]] = Len(l)]
  BY <1>1 DEF LeadsWith
<1>3. /\ x \in LogEntry /\ x.term = term[i] /\ log[i] \in Seq(LogEntry) /\ term[i] \in Nat
      /\ nextIndex[i] \in [Server -> Nat \ {0}] /\ commit' \in [Server -> Nat] /\ commit[i] \in Nat
  BY DEF TypeOK, LogEntry
<1> HIDE DEF x
<1>4. /\ l \in Seq(LogEntry) /\ Len(l) = Len(log[i]) + 1 /\ l[Len(log[i]) + 1] = x
      /\ \A n \in 1 .. Len(log[i]) : l[n] = log[i][n]
  BY <1>3
<1>5. \A n \in CommitCandidates(i, l) : n \in Nat
  <2>1. Len(l) \in Nat
    BY <1>4
  <2> HIDE DEF l
  <2> QED BY <2>1, <1>3 DEF CommitCandidates
<1> HIDE DEF l
<1>6. UNCHANGED <<elections, grants>> /\ c \in Thread
  BY <1>1 DEF history, Thread
<1> QED BY <1>1, <1>2, <1>3, <1>4, <1>5, <1>6 DEF l, x

\* Nobody else leads the term of a leader.
LEMMA LeaderAlone ==
    ASSUME ElectionInv, NEW i \in Server, NEW k \in Server, role[i] = "Leader", role[k] = "Leader",
           term[i] = term[k]
    PROVE  i = k
BY DEF ElectionInv, LeadersWon, Won, ElectionSafety

LEMMA WrittenProposed ==
    ASSUME TypeOK, TypeOK', ElectionInv, LedgerInv,
           NEW i \in Server, NEW c \in Caller, NEW v \in Value, Propose(i, c, v)
    PROVE  Written'
<1> DEFINE T == term[i]
           l == Append(log[i], [term |-> term[i], data |-> v])
<1>1. /\ role[i] = "Leader" /\ c \in Thread /\ UNCHANGED <<role, term, elections>>
      /\ log' = [log EXCEPT ![i] = l]
      /\ ledger' = [ledger EXCEPT ![T] = l]
      /\ held' = [held EXCEPT ![i][T] = Len(l)]
      /\ l \in Seq(LogEntry) /\ log[i] \in Seq(LogEntry) /\ Len(l) = Len(log[i]) + 1
      /\ l[Len(log[i]) + 1].term = T /\ \A n \in 1 .. Len(log[i]) : l[n] = log[i][n]
      /\ nextIndex[i] \in [Server -> Nat \ {0}] /\ T \in Nat
  BY ProposeFacts
<1>2. PICK b \in Nat : BroadcastAppends(i, c, l, nextIndex[i], b)
  BY ProposeFacts
<1>3. /\ term \in [Server -> Nat] /\ log \in [Server -> Seq(LogEntry)]
      /\ T \in Term /\ \E e \in elections : e.term = T
  BY <1>1 DEF TypeOK, LedgerInv, TermsBounded, ElectionInv, LeadersWon, Won
<1> HIDE DEF T, l
<1>4. /\ TrailTypes /\ LeadersWrite /\ LogsTraced /\ LedgerTraced /\ AppendsCut /\ HeldWritten
      /\ ledger \in [Term -> Seq(LogEntry)] /\ held \in [Server -> [Term -> Nat]]
  BY DEF LedgerInv, Written, TrailTypes
<1>5. log[i] = ledger[T] /\ held[i][T] = Len(log[i])
  BY <1>1, <1>4 DEF LeadersWrite, T
<1>6. Len(l) \in Nat /\ Len(log[i]) \in Nat
  BY <1>1
<1>7. ledger' \in [Term -> Seq(LogEntry)] /\ held' \in [Server -> [Term -> Nat]]
  BY <1>1, <1>3, <1>4, <1>6
<1>8. ledger'[T] = l /\ \A t \in Term : t # T => ledger'[t] = ledger[t]
  BY <1>1, <1>3, <1>4
<1>9. ASSUME NEW t \in Term PROVE SameUpTo(ledger'[t], ledger[t], Len(ledger[t]))
  <2>1. ledger[t] \in Seq(LogEntry) /\ ledger'[t] \in Seq(LogEntry)
    BY <1>4, <1>7
  <2>2. CASE t = T
    BY <2>1, <2>2, <1>1, <1>5, <1>6, <1>8 DEF SameUpTo
  <2>3. CASE t # T
    BY <2>1, <2>3, <1>8 DEF SameUpTo
  <2> QED BY <2>2, <2>3
<1>10. \A k \in Server : Traced(log[k], ledger')
  BY <1>3, <1>4, <1>7, <1>9, TracedGrows DEF LogsTraced
<1>11. \A t \in Term : Traced(ledger[t], ledger')
  BY <1>4, <1>7, <1>9, TracedGrows DEF LedgerTraced
<1>12. UpToTerm(log[i], T) /\ Rising(log[i])
  <2>1. UpToTerm(log[i], T)
    BY <1>4 DEF LogsTraced, T
  <2> QED BY <2>1, <1>3, <1>4, <1>5 DEF LedgerTraced
<1>13. Traced(l, ledger')
  <2> SUFFICES ASSUME NEW n \in 1 .. Len(l) PROVE l[n].term \in Term /\ SameUpTo(l, ledger'[l[n].term], n)
    BY DEF Traced
  <2>1. CASE n \in 1 .. Len(log[i])
    <3>1. log[i][n].term \in Term /\ SameUpTo(log[i], ledger'[log[i][n].term], n)
      BY <2>1, <1>10 DEF Traced
    <3>2. SameUpTo(l, log[i], n) /\ l[n] = log[i][n]
      BY <2>1, <1>1, <1>6 DEF SameUpTo
    <3> QED BY <3>1, <3>2, SameTrans
  <2>2. CASE n = Len(log[i]) + 1
    BY <2>2, <1>1, <1>3, <1>8 DEF SameUpTo
  <2> QED BY <2>1, <2>2, <1>1, <1>6
<1>14. UpToTerm(l, T)
  BY <1>1, <1>6, <1>12 DEF UpToTerm
<1>15. Rising(l)
  <2> SUFFICES ASSUME NEW k \in 1 .. Len(l), NEW n \in 1 .. Len(l), k <= n PROVE l[k].term <= l[n].term
    BY DEF Rising
  <2>1. CASE n = Len(log[i]) + 1
    BY <2>1, <1>1, <1>14 DEF UpToTerm
  <2>2. CASE n \in 1 .. Len(log[i])
    <3>1. k \in 1 .. Len(log[i])
      BY <2>2, <1>6
    <3> QED BY <2>2, <3>1, <1>1, <1>12 DEF Rising
  <2> QED BY <2>1, <2>2, <1>1, <1>6
<1>16. ASSUME NEW t \in Term
       PROVE  /\ Traced(ledger'[t], ledger') /\ Rising(ledger'[t]) /\ UpToTerm(ledger'[t], t)
              /\ (\A e \in elections' : e.term # t) => ledger'[t] = <<>>
  <2>1. CASE t = T
    BY <2>1, <1>1, <1>3, <1>8, <1>13, <1>14, <1>15
  <2>2. CASE t # T
    BY <2>2, <1>1, <1>4, <1>8, <1>11 DEF LedgerTraced, TermWon
  <2> QED BY <2>1, <2>2
<1>17. ASSUME NEW m \in Sent(link', unsent')
       PROVE  (\E e \in elections' : e.term = m.term) /\ CutFrom(m, ledger'[m.term], m.term)
  <2>0. term'[i] = T
    BY <1>1 DEF T
  <2>1. m \in Sent(link, unsent) \/ (m.term = T /\ CutFrom(m, l, T))
    BY <2>0, <1>1, <1>2, BroadcastCut
  <2>2. CASE m \in Sent(link, unsent)
    <3>1. m.term \in Term /\ m \in AppendEntries /\ CutFrom(m, ledger[m.term], m.term)
          /\ \E e \in elections : e.term = m.term
      BY <2>2, <1>4, SentTerm DEF LedgerInv, AppendsCut, TermWon
    <3>2. CASE m.term # T
      BY <3>1, <3>2, <1>1, <1>8
    <3>3. CASE m.term = T
      <4>1. CutFrom(m, log[i], T)
        BY <3>1, <3>3, <1>5
      <4>2. m.prevIndex \in Nat /\ Len(m.entries) \in Nat /\ EndOf(m) \in Nat /\ m.prevIndex <= EndOf(m)
        BY <3>1 DEF AppendEntries, EndOf
      <4>3. /\ EndOf(m) <= Len(log[i])
            /\ m.prevTerm = IF m.prevIndex = 0 THEN 0 ELSE log[i][m.prevIndex].term
            /\ \A k \in 1 .. Len(m.entries) : m.entries[k] = log[i][m.prevIndex + k]
            /\ \A n \in EndOf(m) + 1 .. Len(log[i]) : log[i][n].term = T
        BY <4>1 DEF CutFrom
      <4>4. m.prevIndex # 0 => l[m.prevIndex] = log[i][m.prevIndex]
        <5>1. m.prevIndex # 0 => m.prevIndex \in 1 .. Len(log[i])
          BY <4>2, <4>3, <1>6
        <5> QED BY <5>1, <1>1
      <4>5. \A k \in 1 .. Len(m.entries) : l[m.prevIndex + k] = log[i][m.prevIndex + k]
        <5>1. \A k \in 1 .. Len(m.entries) : m.prevIndex + k \in 1 .. Len(log[i])
          BY <4>2, <4>3, <1>6 DEF EndOf
        <5> QED BY <5>1, <1>1
      <4>6. ASSUME NEW n \in EndOf(m) + 1 .. Len(l) PROVE l[n].term = T
        <5>1. n \in 1 .. Len(l) /\ n \in Nat
          BY <4>2, <1>6
        <5>2. CASE n \in 1 .. Len(log[i])
          <6>1. l[n] = log[i][n]
            BY <5>2, <1>1
          <6>2. n \in EndOf(m) + 1 .. Len(log[i])
            BY <5>2, <4>2
          <6> QED BY <6>1, <6>2, <4>3
        <5>3. CASE n \notin 1 .. Len(log[i])
          BY <5>1, <5>3, <1>1, <1>6
        <5> QED BY <5>2, <5>3
      <4>7. EndOf(m) <= Len(l)
        BY <4>2, <4>3, <1>1, <1>6
      <4>8. CutFrom(m, l, T)
        BY <4>3, <4>4, <4>5, <4>6, <4>7 DEF CutFrom
      <4> QED BY <4>8, <3>1, <3>3, <1>1, <1>8
    <3> QED BY <3>2, <3>3
  <2>3. CASE m.term = T /\ CutFrom(m, l, T)
    BY <2>3, <1>1, <1>3, <1>8
  <2> QED BY <2>1, <2>2, <2>3
<1>18. ASSUME NEW k \in Server, role'[k] = "Leader"
       PROVE  log'[k] = ledger'[term'[k]] /\ held'[k][term'[k]] = Len(log'[k])
  <2>0. term'[k] = term[k] /\ role[k] = "Leader" /\ term[k] \in Term
    BY <1>1, <1>18 DEF LedgerInv, TermsBounded
  <2>1. CASE k = i
    <3>1. term[k] = T
      BY <2>1 DEF T
    <3> QED BY <2>0, <2>1, <3>1, <1>1, <1>3, <1>4, <1>8
  <2>2. CASE k # i
    <3>1. term[k] # T
      BY <2>0, <2>2, <1>1, LeaderAlone DEF T
    <3>2. ledger'[term[k]] = ledger[term[k]] /\ held'[k] = held[k] /\ log'[k] = log[k]
      BY <2>0, <2>2, <3>1, <1>1, <1>3, <1>4, <1>8
    <3> QED BY <2>0, <3>2, <1>4 DEF LeadersWrite
  <2> QED BY <2>1, <2>2
<1>19. ASSUME NEW k \in Server, NEW t \in Term
       PROVE  held'[k][t] <= Len(ledger'[t]) /\ (held'[k][t] > 0 => t <= term'[k])
  <2>1. CASE k = i /\ t = T
    <3>1. held'[k][t] = Len(l) /\ term'[k] = T
      BY <2>1, <1>1, <1>3, <1>4 DEF T
    <3> QED BY <2>1, <3>1, <1>1, <1>6, <1>8
  <2>2. CASE ~(k = i /\ t = T)
    <3>1. held'[k][t] = held[k][t] /\ held[k][t] \in Nat
      BY <2>2, <1>1, <1>3, <1>4
    <3>2. held[k][t] <= Len(ledger[t]) /\ (held[k][t] > 0 => t <= term[k]) /\ t \in Nat
      BY <1>4 DEF HeldWritten, Term
    <3>3. Len(ledger[t]) <= Len(ledger'[t]) /\ Len(ledger[t]) \in Nat /\ Len(ledger'[t]) \in Nat
      BY <1>4, <1>7, <1>9 DEF SameUpTo
    <3> QED BY <3>1, <3>2, <3>3, <1>1, <1>3
  <2> QED BY <2>1, <2>2
<1>20. ASSUME NEW k \in Server PROVE Traced(log'[k], ledger') /\ UpToTerm(log'[k], term'[k])
  <2>1. CASE k = i
    <3>1. log'[k] = l /\ term'[k] = T
      BY <2>1, <1>1, <1>3 DEF T
    <3> QED BY <3>1, <1>13, <1>14
  <2>2. CASE k # i
    <3>1. log'[k] = log[k] /\ term'[k] = term[k]
      BY <2>2, <1>1, <1>3
    <3> QED BY <3>1, <1>4, <1>10 DEF LogsTraced
  <2> QED BY <2>1, <2>2
<1> QED BY <1>7, <1>16, <1>17, <1>18, <1>19, <1>20, WrittenNext

\* What an accepting node's log is, in terms of the ledger.
LEMMA AcceptFacts ==
    ASSUME TypeOK, TypeOK', ElectionInv, LedgerInv,
           NEW i \in Server, NEW j \in Peers(i), NEW m, m = Head(link[j][i]),
           HandleAppendEntries(i, j), Accepts(i, j, m)
    PROVE  /\ j \in Server /\ i # j /\ link[j][i] # <<>> /\ PumpIdle(i)
           /\ m \in AppendEntries /\ m \in Carried(link[j][i]) /\ m \in Sent(link, unsent)
           /\ UNCHANGED <<ballots, unsent, elections, grants, ledger>>
           /\ m.term \in Term /\ m.term \in Nat /\ m.term >= term[i]
           /\ term'[i] = m.term /\ role'[i] = "Follower"
           /\ \A k \in Server \ {i} : role'[k] = role[k] /\ term'[k] = term[k] /\ log'[k] = log[k]
           /\ log'[i] \in Seq(LogEntry) /\ Len(log'[i]) = EndOf(m) /\ EndOf(m) \in Nat
           /\ SameUpTo(log'[i], ledger[m.term], EndOf(m))
           /\ TermWon(m.term) /\ CutFrom(m, ledger[m.term], m.term)
           /\ held' \in [Server -> [Term -> Nat]]
           /\ held'[i][m.term] = IF EndOf(m) > held[i][m.term] THEN EndOf(m) ELSE held[i][m.term]
           /\ \A k \in Server : \A t \in Term : ~(k = i /\ t = m.term) => held'[k][t] = held[k][t]
<1>1. /\ j \in Server /\ i # j /\ link[j][i] # <<>> /\ PumpIdle(i)
      /\ m \in AppendEntries /\ m \in Carried(link[j][i]) /\ m \in Sent(link, unsent)
      /\ UNCHANGED <<ballots, unsent, elections, grants>> /\ Follows(i, m)
  BY AppendOutcome
<1>2. /\ m.term >= term[i] /\ PrevMatches(m, log[i]) /\ ledger' = ledger
      /\ log' = [log EXCEPT ![i] = Spliced(m, log[i])]
      /\ held' = [held EXCEPT ![i][m.term] = IF Len(Spliced(m, log[i])) > @ THEN Len(Spliced(m, log[i])) ELSE @]
  BY DEF Accepts
<1>3. /\ term \in [Server -> Nat] /\ log \in [Server -> Seq(LogEntry)]
      /\ role \in [Server -> {"Follower", "Candidate", "Leader"}]
      /\ ledger \in [Term -> Seq(LogEntry)] /\ held \in [Server -> [Term -> Nat]]
  BY DEF TypeOK, LedgerInv, Written, TrailTypes
<1>4. m.term \in Term /\ m.term \in Nat
  BY <1>1, SentTerm DEF LedgerInv, Term
<1>5. TermWon(m.term) /\ CutFrom(m, ledger[m.term], m.term)
  BY <1>1 DEF LedgerInv, Written, AppendsCut
<1>6. Traced(log[i], ledger) /\ Traced(ledger[m.term], ledger)
  BY <1>4 DEF LedgerInv, Written, LogsTraced, LedgerTraced
<1>7. log[i] \in Seq(LogEntry) /\ ledger[m.term] \in Seq(LogEntry)
  BY <1>3, <1>4
<1>8. /\ Spliced(m, log[i]) \in Seq(LogEntry) /\ Len(Spliced(m, log[i])) = EndOf(m) /\ EndOf(m) \in Nat
      /\ SameUpTo(Spliced(m, log[i]), ledger[m.term], EndOf(m))
  BY <1>1, <1>2, <1>3, <1>5, <1>6, <1>7, SplicedCut
<1>9. log'[i] = Spliced(m, log[i]) /\ \A k \in Server \ {i} : log'[k] = log[k]
  BY <1>2, <1>3
<1>10. /\ term'[i] = m.term /\ role'[i] = "Follower"
       /\ \A k \in Server \ {i} : role'[k] = role[k] /\ term'[k] = term[k]
  BY <1>1, <1>2, <1>4, FollowsQuiet
<1>11. held' = [held EXCEPT ![i][m.term] = IF EndOf(m) > held[i][m.term] THEN EndOf(m) ELSE held[i][m.term]]
  BY <1>2, <1>8
<1>12. /\ held' \in [Server -> [Term -> Nat]]
       /\ held'[i][m.term] = IF EndOf(m) > held[i][m.term] THEN EndOf(m) ELSE held[i][m.term]
       /\ \A k \in Server : \A t \in Term : ~(k = i /\ t = m.term) => held'[k][t] = held[k][t]
  <2> DEFINE x == IF EndOf(m) > held[i][m.term] THEN EndOf(m) ELSE held[i][m.term]
             T == m.term
  <2>1. x \in Nat /\ T \in Term /\ held' = [held EXCEPT ![i][T] = x]
    BY <1>3, <1>4, <1>8, <1>11
  <2> HIDE DEF x, T
  <2>2. /\ held' \in [Server -> [Term -> Nat]] /\ held'[i][T] = x
        /\ \A k \in Server : \A t \in Term : ~(k = i /\ t = T) => held'[k][t] = held[k][t]
    BY <2>1, <1>3
  <2> QED BY <2>2, SMTT(20) DEF x, T
<1> QED BY <1>1, <1>2, <1>4, <1>5, <1>8, <1>9, <1>10, <1>12, ZenonT(40)

LEMMA WrittenAccepted ==
    ASSUME TypeOK, TypeOK', ElectionInv, LedgerInv,
           NEW i \in Server, NEW j \in Peers(i), HandleAppendEntries(i, j), Accepts(i, j, Head(link[j][i]))
    PROVE  Written'
<1> DEFINE m == Head(link[j][i])
<1>1. /\ j \in Server /\ i # j /\ link[j][i] # <<>>
      /\ m \in Sent(link, unsent) /\ UNCHANGED <<unsent, elections, ledger>>
      /\ m.term \in Term /\ m.term \in Nat /\ m.term >= term[i]
      /\ term'[i] = m.term /\ role'[i] = "Follower"
      /\ \A k \in Server \ {i} : role'[k] = role[k] /\ term'[k] = term[k] /\ log'[k] = log[k]
      /\ log'[i] \in Seq(LogEntry) /\ Len(log'[i]) = EndOf(m) /\ EndOf(m) \in Nat
      /\ SameUpTo(log'[i], ledger[m.term], EndOf(m))
      /\ held' \in [Server -> [Term -> Nat]]
      /\ held'[i][m.term] = IF EndOf(m) > held[i][m.term] THEN EndOf(m) ELSE held[i][m.term]
      /\ \A k \in Server : \A t \in Term : ~(k = i /\ t = m.term) => held'[k][t] = held[k][t]
  BY AcceptFacts
<1>2. \E r \in AppendReply : ReplyTo(j, i, r)
  BY DEF Accepts
<1> HIDE DEF m
<1>3. Sent(link', unsent') \subseteq Sent(link, unsent)
  BY <1>1, <1>2, SentReceived
<1>4. /\ TrailTypes /\ LeadersWrite /\ LogsTraced /\ LedgerTraced /\ AppendsCut /\ HeldWritten
      /\ ledger \in [Term -> Seq(LogEntry)] /\ held \in [Server -> [Term -> Nat]]
  BY DEF LedgerInv, Written, TrailTypes
<1>5. /\ Traced(ledger[m.term], ledger) /\ UpToTerm(ledger[m.term], m.term)
      /\ ledger[m.term] \in Seq(LogEntry) /\ EndOf(m) <= Len(ledger[m.term])
  BY <1>1, <1>4 DEF LedgerTraced, SameUpTo
<1>6. ASSUME NEW k \in Server PROVE Traced(log'[k], ledger) /\ UpToTerm(log'[k], term'[k])
  <2>1. CASE k = i
    <3>1. Traced(log'[i], ledger)
      BY <1>1, <1>4, <1>5, TracedFront
    <3>2. UpToTerm(log'[i], m.term)
      <4> SUFFICES ASSUME NEW n \in 1 .. EndOf(m) PROVE log'[i][n].term <= m.term
        BY <1>1 DEF UpToTerm
      <4>1. n \in 1 .. Len(ledger[m.term]) /\ log'[i][n] = ledger[m.term][n]
        BY <1>1, <1>5 DEF SameUpTo
      <4> QED BY <4>1, <1>5 DEF UpToTerm
    <3> QED BY <2>1, <3>1, <3>2, <1>1
  <2>2. CASE k # i
    BY <2>2, <1>1, <1>4 DEF LogsTraced
  <2> QED BY <2>1, <2>2
<1>7. ASSUME NEW k \in Server, role'[k] = "Leader"
      PROVE  log'[k] = ledger[term'[k]] /\ held'[k][term'[k]] = Len(log'[k])
  <2>1. k # i
    BY <1>1, <1>7
  <2>2. role[k] = "Leader" /\ term'[k] = term[k] /\ log'[k] = log[k] /\ term[k] \in Term
    BY <2>1, <1>1, <1>7 DEF LedgerInv, TermsBounded
  <2> QED BY <2>1, <2>2, <1>1, <1>4 DEF LeadersWrite
<1>8. ASSUME NEW k \in Server, NEW t \in Term
      PROVE  held'[k][t] <= Len(ledger[t]) /\ (held'[k][t] > 0 => t <= term'[k])
  <2>0. held[k][t] <= Len(ledger[t]) /\ (held[k][t] > 0 => t <= term[k]) /\ t \in Nat /\ held[k][t] \in Nat
    <3>1. held[k][t] \in Nat
      BY <1>4
    <3> QED BY <3>1, <1>4 DEF HeldWritten, Term
  <2>1. CASE k = i /\ t = m.term
    BY <2>0, <2>1, <1>1, <1>5
  <2>2. CASE ~(k = i /\ t = m.term)
    <3>1. held'[k][t] = held[k][t]
      BY <2>2, <1>1
    <3>2. term[k] \in Nat /\ term'[k] \in Nat
      BY DEF TypeOK
    <3>3. term'[k] >= term[k]
      <4>1. CASE k = i
        BY <4>1, <1>1
      <4>2. CASE k # i
        BY <4>2, <3>2, <1>1
      <4> QED BY <4>1, <4>2
    <3> QED BY <2>0, <3>1, <3>2, <3>3
  <2> QED BY <2>1, <2>2
<1>9. \A t \in Term : /\ Traced(ledger[t], ledger) /\ Rising(ledger[t]) /\ UpToTerm(ledger[t], t)
                      /\ (\A e \in elections : e.term # t) => ledger[t] = <<>>
  BY <1>4 DEF LedgerTraced, TermWon
<1>10. \A n \in Sent(link', unsent') :
          (\E e \in elections : e.term = n.term) /\ CutFrom(n, ledger[n.term], n.term)
  BY <1>3, <1>4 DEF AppendsCut, TermWon
<1> QED BY <1>1, <1>4, <1>6, <1>7, <1>8, <1>9, <1>10, WrittenNext

LEMMA LedgerStep ==
    TypeOK /\ TypeOK' /\ ElectionInv /\ ElectionInv' /\ LedgerInv /\ [Next]_vars => LedgerInv'
<1> SUFFICES ASSUME TypeOK, TypeOK', ElectionInv, ElectionInv', LedgerInv, [Next]_vars PROVE LedgerInv'
  OBVIOUS
<1>1. TermsBounded'
  BY TermsStep DEF LedgerInv
<1>2. CASE Quiet
  BY <1>1, <1>2, WrittenQuiet DEF LedgerInv
<1>3. ASSUME NEW i \in Server, Heartbeat(i) PROVE LedgerInv'
  BY <1>1, <1>3, WrittenHeartbeat DEF LedgerInv
<1>4. ASSUME NEW i \in Server, NEW V \in SUBSET Server, Elects(i, V) PROVE LedgerInv'
  BY <1>1, <1>4, WrittenElected DEF LedgerInv
<1>5. ASSUME NEW i \in Server, NEW c \in Caller, NEW v \in Value, Propose(i, c, v) PROVE LedgerInv'
  BY <1>1, <1>5, WrittenProposed DEF LedgerInv
<1>6. ASSUME NEW i \in Server, NEW j \in Peers(i), HandleAppendEntries(i, j), Accepts(i, j, Head(link[j][i]))
      PROVE  LedgerInv'
  BY <1>1, <1>6, WrittenAccepted DEF LedgerInv
<1> QED BY <1>2, <1>3, <1>4, <1>5, <1>6, StepKinds

\* Every log and every append, kept by a node or on its way, is a part of the
\* log that the leader of its last entry's term had: whatever a follower
\* truncates and extends, and whatever is lost or published late.
THEOREM LedgerInvariant == Spec => []LedgerInv
<1>1. Init => LedgerInv
  <2> SUFFICES ASSUME Init PROVE LedgerInv
    OBVIOUS
  <2>1. /\ \A i \in Server : log[i] = <<>> /\ role[i] # "Leader" /\ term[i] = 0
        /\ \A i, j \in Server : link[i][j] = <<>>
        /\ \A i \in Server : \A th \in Thread : unsent[i][th] = {}
        /\ ballots = {} /\ elections = {}
        /\ ledger = [t \in Term |-> <<>>] /\ held = [i \in Server |-> [t \in Term |-> 0]]
    BY DEF Init
  <2>2. ASSUME NEW m PROVE m \notin Sent(link, unsent)
    BY <2>1, SentWhere, EmptySeq DEF Carried
  <2>3. TermsBounded
    BY <2>1, EmptySeq, BoundAssumption DEF TermsBounded, Carried, Term
  <2>4. <<>> \in Seq(LogEntry) /\ Len(<<>>) = 0
    OBVIOUS
  <2>5. ASSUME NEW t, NEW L PROVE Traced(<<>>, L) /\ UpToTerm(<<>>, t) /\ Rising(<<>>)
    BY <2>4 DEF Traced, UpToTerm, Rising
  <2>6. TrailTypes /\ LeadersWrite
    BY <2>1, <2>4 DEF TrailTypes, LeadersWrite
  <2>7. LogsTraced /\ LedgerTraced
    BY <2>1, <2>5 DEF LogsTraced, LedgerTraced
  <2>8. HeldWritten
    BY <2>1, <2>4 DEF HeldWritten
  <2>9. AppendsCut
    BY <2>2 DEF AppendsCut
  <2> QED BY <2>3, <2>6, <2>7, <2>8, <2>9 DEF LedgerInv, Written
<1> QED BY <1>1, LedgerStep, ElectionInvariant, TypeCorrect, PTL DEF Spec

---------------------------------------------------------------------------
(* The ledger and what is held of it only grow                             *)

Grows ==
    /\ \A t \in Term : SameUpTo(ledger'[t], ledger[t], Len(ledger[t]))
    /\ \A k \in Server : \A t \in Term : held'[k][t] >= held[k][t]
    /\ elections \subseteq elections'

LEMMA GrowsStep ==
    ASSUME TypeOK, TypeOK', ElectionInv, ElectionInv', LedgerInv, LedgerInv', [Next]_vars
    PROVE  Grows
<1>0. /\ ledger \in [Term -> Seq(LogEntry)] /\ held \in [Server -> [Term -> Nat]]
      /\ ledger' \in [Term -> Seq(LogEntry)] /\ held' \in [Server -> [Term -> Nat]]
  BY DEF LedgerInv, Written, TrailTypes
<1>1. \A t \in Term : SameUpTo(ledger[t], ledger[t], Len(ledger[t]))
  BY <1>0 DEF SameUpTo
<1>2. \A k \in Server : \A t \in Term : held[k][t] \in Nat /\ held[k][t] >= held[k][t]
  BY <1>0
<1>3. CASE UNCHANGED <<ledger, held, elections>>
  BY <1>1, <1>2, <1>3 DEF Grows
<1>4. CASE Quiet
  BY <1>3, <1>4 DEF Quiet
<1>5. ASSUME NEW i \in Server, Heartbeat(i) PROVE Grows
  BY <1>3, <1>5 DEF Heartbeat, trail, history
<1>6. ASSUME NEW i \in Server, NEW V \in SUBSET Server, Elects(i, V) PROVE Grows
  <2> DEFINE T == term'[i]
  <2>1. /\ ledger' = [ledger EXCEPT ![T] = log[i]] /\ held' = [held EXCEPT ![i][T] = Len(log[i])]
        /\ elections \subseteq elections' /\ ~TermWon(T)
    BY <1>6 DEF Elects, BecomeLeader, LeadsWith
  <2>2. T \in Term /\ log[i] \in Seq(LogEntry)
    BY DEF LedgerInv, TermsBounded, TypeOK
  <2> HIDE DEF T
  <2>3. ledger[T] = <<>> /\ held[i][T] = 0
    <3>1. ledger[T] = <<>>
      BY <2>1, <2>2 DEF LedgerInv, Written, LedgerTraced
    <3>2. held[i][T] <= Len(ledger[T]) /\ held[i][T] \in Nat
      BY <2>2, <1>0 DEF LedgerInv, Written, HeldWritten
    <3> QED BY <3>1, <3>2
  <2>4. ASSUME NEW t \in Term PROVE SameUpTo(ledger'[t], ledger[t], Len(ledger[t]))
    <3>1. ledger[t] = <<>> \/ ledger'[t] = ledger[t]
      BY <2>1, <2>2, <2>3, <1>0
    <3>2. ledger[t] \in Seq(LogEntry) /\ ledger'[t] \in Seq(LogEntry)
      BY <1>0
    <3> QED BY <3>1, <3>2 DEF SameUpTo
  <2>5. ASSUME NEW k \in Server, NEW t \in Term PROVE held'[k][t] >= held[k][t]
    <3>1. held'[k][t] \in Nat /\ held[k][t] \in Nat
      BY <1>0
    <3>2. held'[k][t] = held[k][t] \/ held[k][t] = 0
      BY <2>1, <2>2, <2>3, <1>0
    <3> QED BY <3>1, <3>2
  <2> QED BY <2>1, <2>4, <2>5 DEF Grows
<1>7. ASSUME NEW i \in Server, NEW c \in Caller, NEW v \in Value, Propose(i, c, v) PROVE Grows
  <2> DEFINE T == term[i]  l == Append(log[i], [term |-> term[i], data |-> v])
  <2>1. /\ role[i] = "Leader" /\ elections' = elections
        /\ ledger' = [ledger EXCEPT ![T] = l] /\ held' = [held EXCEPT ![i][T] = Len(l)]
        /\ l \in Seq(LogEntry) /\ Len(l) = Len(log[i]) + 1 /\ \A n \in 1 .. Len(log[i]) : l[n] = log[i][n]
        /\ log[i] \in Seq(LogEntry)
    BY <1>7, ProposeFacts
  <2>2. T \in Term /\ log[i] = ledger[T] /\ held[i][T] = Len(log[i])
    BY <2>1 DEF LedgerInv, TermsBounded, Written, LeadersWrite
  <2> HIDE DEF T, l
  <2>4. ASSUME NEW t \in Term PROVE SameUpTo(ledger'[t], ledger[t], Len(ledger[t]))
    <3>1. ledger[t] \in Seq(LogEntry) /\ ledger'[t] \in Seq(LogEntry)
      BY <1>0
    <3>2. CASE t = T
      <4>1. ledger'[t] = l
        BY <3>2, <2>1, <2>2, <1>0
      <4> QED BY <3>1, <3>2, <4>1, <2>1, <2>2 DEF SameUpTo
    <3>3. CASE t # T
      <4>1. ledger'[t] = ledger[t]
        BY <3>3, <2>1, <1>0
      <4> QED BY <4>1, <1>1
    <3> QED BY <3>2, <3>3
  <2>5. ASSUME NEW k \in Server, NEW t \in Term PROVE held'[k][t] >= held[k][t]
    <3>1. held'[k][t] \in Nat /\ held[k][t] \in Nat /\ Len(l) \in Nat /\ Len(log[i]) \in Nat
      BY <2>1, <1>0
    <3>2. held'[k][t] = held[k][t] \/ (held'[k][t] = Len(l) /\ held[k][t] = Len(log[i]))
      BY <2>1, <2>2, <1>0
    <3> QED BY <3>1, <3>2, <2>1
  <2> QED BY <2>1, <2>4, <2>5 DEF Grows
<1>8. ASSUME NEW i \in Server, NEW j \in Peers(i), HandleAppendEntries(i, j), Accepts(i, j, Head(link[j][i]))
      PROVE  Grows
  <2> DEFINE m == Head(link[j][i])
  <2>1. /\ UNCHANGED <<elections, ledger>> /\ m.term \in Term /\ EndOf(m) \in Nat
        /\ held'[i][m.term] = IF EndOf(m) > held[i][m.term] THEN EndOf(m) ELSE held[i][m.term]
        /\ \A k \in Server : \A t \in Term : ~(k = i /\ t = m.term) => held'[k][t] = held[k][t]
    BY <1>8, AcceptFacts
  <2> HIDE DEF m
  <2>2. ASSUME NEW k \in Server, NEW t \in Term PROVE held'[k][t] >= held[k][t]
    <3>1. held'[k][t] \in Nat /\ held[k][t] \in Nat
      BY <1>0
    <3> QED BY <3>1, <2>1
  <2> QED BY <2>1, <2>2, <1>1 DEF Grows
<1> QED BY <1>4, <1>5, <1>6, <1>7, <1>8, StepKinds

---------------------------------------------------------------------------
(* The appends of a term arrive with growing ends                          *)

\* A link loses its oldest message, or gets a reply or an append that ends
\* where its leader's log does.
OrderlyRow(k, n) ==
    \/ link'[k][n] = link[k][n]
    \/ link[k][n] # <<>> /\ link'[k][n] = Tail(link[k][n])
    \/ \E r \in AppendReply : link'[k][n] = Offer(link[k][n], r)
    \/ \E m \in AppendEntries : /\ m.term \in Term /\ EndOf(m) = Len(ledger'[m.term])
                                /\ link'[k][n] = Offer(link[k][n], m)

LEMMA OrderTail ==
    ASSUME NEW q \in Seq(AppendMsg), q # <<>>, InOrder(q)
    PROVE  InOrder(Tail(q))
<1>1. /\ Len(q) \in Nat /\ Len(q) >= 1 /\ Len(Tail(q)) = Len(q) - 1
      /\ \A k \in 1 .. Len(q) - 1 : Tail(q)[k] = q[k + 1]
  BY EmptySeq, LenProperties, HeadTailProperties
<1>2. ASSUME NEW k \in 1 .. Len(Tail(q)), NEW n \in 1 .. Len(Tail(q)), k <= n,
             Tail(q)[k].type = "AppendEntries", Tail(q)[n].type = "AppendEntries",
             Tail(q)[k].term = Tail(q)[n].term
      PROVE  EndOf(Tail(q)[k]) <= EndOf(Tail(q)[n])
  <2>1. k + 1 \in 1 .. Len(q) /\ n + 1 \in 1 .. Len(q) /\ k + 1 <= n + 1
    BY <1>1, <1>2
  <2>2. Tail(q)[k] = q[k + 1] /\ Tail(q)[n] = q[n + 1]
    BY <1>1
  <2> QED BY <2>1, <2>2, <1>2 DEF InOrder
<1> QED BY <1>2 DEF InOrder

LEMMA OrderOffer ==
    ASSUME NEW q \in Seq(AppendMsg), NEW m \in AppendMsg, InOrder(q),
           m.type = "AppendEntries" =>
               /\ EndOf(m) \in Nat
               /\ \A a \in Carried(q) : a.type = "AppendEntries" /\ a.term = m.term => EndOf(a) <= EndOf(m)
    PROVE  InOrder(Offer(q, m))
<1>1. CASE Offer(q, m) = q
  BY <1>1
<1>2. CASE Offer(q, m) = Append(q, m)
  <2> DEFINE p == Append(q, m)
  <2>1. /\ Len(q) \in Nat /\ Len(p) = Len(q) + 1 /\ p[Len(q) + 1] = m
        /\ \A k \in 1 .. Len(q) : p[k] = q[k]
    OBVIOUS
  <2> HIDE DEF p
  <2>2. ASSUME NEW k \in 1 .. Len(p), NEW n \in 1 .. Len(p), k <= n,
               p[k].type = "AppendEntries", p[n].type = "AppendEntries", p[k].term = p[n].term
        PROVE  EndOf(p[k]) <= EndOf(p[n])
    <3>1. CASE n \in 1 .. Len(q)
      <4>1. k \in 1 .. Len(q) /\ p[k] = q[k] /\ p[n] = q[n]
        BY <3>1, <2>1, <2>2
      <4> QED BY <4>1, <3>1, <2>2 DEF InOrder
    <3>2. CASE n = Len(q) + 1 /\ k \in 1 .. Len(q)
      <4>1. p[n] = m /\ p[k] = q[k] /\ q[k] \in Carried(q)
        BY <3>2, <2>1 DEF Carried
      <4> QED BY <4>1, <2>2
    <3>3. CASE n = Len(q) + 1 /\ k = Len(q) + 1
      <4>1. p[n] = m /\ p[k] = m /\ EndOf(m) \in Nat
        BY <3>3, <2>1, <2>2
      <4> QED BY <4>1
    <3> QED BY <3>1, <3>2, <3>3, <2>1
  <2> QED BY <2>2, <1>2 DEF InOrder, p
<1> QED BY <1>1, <1>2 DEF Offer

\* The ends of the appends on a link are within their leaders' logs.
LEMMA EndsWritten ==
    ASSUME TypeOK, LedgerInv, NEW k \in Server, NEW n \in Server, NEW a \in Carried(link[k][n]),
           a.type = "AppendEntries"
    PROVE  /\ a \in AppendEntries /\ a.term \in Term /\ EndOf(a) \in Nat
           /\ EndOf(a) <= Len(ledger[a.term]) /\ TermWon(a.term)
<1>1. a \in Sent(link, unsent)
  BY SentWhere
<1>2. a \in AppendEntries /\ a.term \in Term
  BY <1>1, SentTerm DEF LedgerInv
<1>3. EndOf(a) \in Nat
  BY <1>2 DEF AppendEntries, EndOf
<1> QED BY <1>1, <1>2, <1>3 DEF LedgerInv, Written, AppendsCut, CutFrom

LEMMA OrderNext ==
    ASSUME TypeOK, TypeOK', LedgerInv, LedgerInv', OrderInv, Grows,
           \A k, n \in Server : OrderlyRow(k, n),
           \A k \in Server : \A h \in Thread :
               /\ ~Overlap => unsent'[k][h] = {}
               /\ \A e \in unsent'[k][h] : EndOf(e.msg) = Len(ledger'[e.msg.term]),
           \A k \in Server : \A n \in Peers(k) : \A a \in Carried(link[k][n]) :
               a \in Carried(link'[k][n]) /\ a.type = "AppendEntries" => held'[n][a.term] <= EndOf(a),
           \A k \in Server : SameUpTo(log'[k], ledger'[term'[k]], held'[k][term'[k]])
    PROVE  OrderInv'
<1>0. /\ link \in [Server -> [Server -> Seq(AppendMsg)]]
      /\ ledger \in [Term -> Seq(LogEntry)] /\ ledger' \in [Term -> Seq(LogEntry)]
  BY DEF TypeOK, LedgerInv, Written, TrailTypes
<1>1. UnsentWhole'
  BY DEF UnsentWhole, EndOf
<1>2. StillHeld'
  BY DEF StillHeld, SameUpTo
<1>3. ASSUME NEW k \in Server, NEW n \in Server PROVE InOrder(link'[k][n])
  <2>0. InOrder(link[k][n]) /\ link[k][n] \in Seq(AppendMsg)
    BY <1>0 DEF OrderInv, LinksInOrder
  <2>1. CASE link'[k][n] = link[k][n]
    BY <2>0, <2>1
  <2>2. CASE link[k][n] # <<>> /\ link'[k][n] = Tail(link[k][n])
    BY <2>0, <2>2, OrderTail
  <2>3. ASSUME NEW r \in AppendReply, link'[k][n] = Offer(link[k][n], r) PROVE InOrder(link'[k][n])
    <3>1. r \in AppendMsg /\ r.type # "AppendEntries"
      BY DEF AppendMsg, AppendReply
    <3> QED BY <2>0, <2>3, <3>1, OrderOffer
  <2>4. ASSUME NEW m \in AppendEntries, m.term \in Term, EndOf(m) = Len(ledger'[m.term]),
               link'[k][n] = Offer(link[k][n], m)
        PROVE  InOrder(link'[k][n])
    <3>1. m \in AppendMsg
      BY DEF AppendMsg
    <3>2. EndOf(m) \in Nat
      BY DEF AppendEntries, EndOf
    <3>3. ASSUME NEW a \in Carried(link[k][n]), a.type = "AppendEntries", a.term = m.term
          PROVE  EndOf(a) <= EndOf(m)
      <4>1. EndOf(a) \in Nat /\ EndOf(a) <= Len(ledger[m.term])
        BY <3>3, EndsWritten
      <4>2. Len(ledger[m.term]) <= Len(ledger'[m.term]) /\ Len(ledger[m.term]) \in Nat
        BY <2>4, <1>0 DEF Grows, SameUpTo
      <4> QED BY <4>1, <4>2, <3>2, <2>4
    <3> QED BY <2>0, <2>4, <3>1, <3>2, <3>3, OrderOffer
  <2> QED BY <2>1, <2>2, <2>3, <2>4 DEF OrderlyRow
<1>4. LinksInOrder'
  <2>1. \A k, n \in Server : InOrder(link[k][n])'
    BY <1>3 DEF InOrder, EndOf
  <2> QED BY <2>1 DEF LinksInOrder
<1>5. ASSUME NEW k \in Server, NEW n \in Peers(k), NEW a \in Carried(link'[k][n]), a.type = "AppendEntries"
      PROVE  held'[n][a.term] <= EndOf(a)
  <2>0. n \in Server /\ link[k][n] \in Seq(AppendMsg)
    BY <1>0 DEF Peers
  <2>1. CASE a \in Carried(link[k][n])
    BY <2>1, <1>5
  <2>2. CASE a \notin Carried(link[k][n])
    <3>1. \E m \in AppendEntries : m.term \in Term /\ EndOf(m) = Len(ledger'[m.term]) /\ a = m
      <4>1. CASE link'[k][n] = link[k][n]
        BY <4>1, <2>2, <1>5
      <4>2. CASE link[k][n] # <<>> /\ link'[k][n] = Tail(link[k][n])
        BY <4>2, <2>0, <2>2, <1>5, CarriedTaken
      <4>3. ASSUME NEW r \in AppendReply, link'[k][n] = Offer(link[k][n], r) PROVE FALSE
        <5>1. a = r
          BY <4>3, <2>0, <2>2, <1>5, CarriedOffer
        <5> QED BY <5>1, <1>5 DEF AppendReply
      <4>4. ASSUME NEW m \in AppendEntries, m.term \in Term, EndOf(m) = Len(ledger'[m.term]),
                   link'[k][n] = Offer(link[k][n], m)
            PROVE  a = m
        BY <4>4, <2>0, <2>2, <1>5, CarriedOffer
      <4>5. OrderlyRow(k, n)
        BY <2>0
      <4> QED BY <4>1, <4>2, <4>3, <4>4, <4>5 DEF OrderlyRow
    <3>2. a.term \in Term /\ EndOf(a) = Len(ledger'[a.term])
      BY <3>1
    <3> QED BY <2>0, <3>2 DEF LedgerInv, Written, HeldWritten
  <2> QED BY <2>1, <2>2
<1>6. AppendsBehindHeld'
  <2>1. ASSUME NEW k \in Server, NEW n \in Server PROVE Carried(link[k][n])' = Carried(link'[k][n])
    BY DEF Carried
  <2> QED BY <2>1, <1>5 DEF AppendsBehindHeld, EndOf, Peers
<1> QED BY <1>1, <1>2, <1>4, <1>6 DEF OrderInv

\* A broadcast of the whole log that the ledger has.
LEMMA OrderBroadcast ==
    ASSUME TypeOK, NEW i \in Server, NEW th \in Thread, NEW l \in Seq(LogEntry),
           NEW next \in [Server -> Nat \ {0}], NEW c \in Nat, term'[i] \in Term,
           BroadcastAppends(i, th, l, next, c), ledger'[term'[i]] = l
    PROVE  /\ \A k, n \in Server : OrderlyRow(k, n)
           /\ \A k \in Server : \A h \in Thread :
                  \/ unsent'[k][h] = unsent[k][h]
                  \/ /\ Overlap /\ k = i /\ h = th
                     /\ \A e \in unsent'[k][h] : EndOf(e.msg) = Len(ledger'[e.msg.term])
           /\ ~Overlap => unsent' = unsent
<1>0. term'[i] \in Nat
  BY DEF Term
<1>1. ASSUME NEW n \in Peers(i), NEW m, m = AppendsFor(term'[i], l, next[n], c)
      PROVE  m \in AppendEntries /\ m.term \in Term /\ EndOf(m) = Len(ledger'[m.term])
  <2>1. next[n] \in Nat \ {0} /\ next[n] - 1 <= Len(l)
    BY DEF BroadcastAppends, CanBroadcast, Peers
  <2>2. m \in AppendEntries
    BY <1>0, <1>1, <2>1, AppendsForType
  <2>3. EndOf(AppendsFor(term'[i], l, next[n], c)) = Len(l)
    BY <1>0, <2>1, AppendsForCut
  <2>4. m.term = term'[i]
    BY <1>1 DEF AppendsFor
  <2> QED BY <1>1, <2>2, <2>3, <2>4
<1>2. ASSUME NEW k \in Server, NEW n \in Server PROVE OrderlyRow(k, n)
  <2>1. CASE link'[k][n] = link[k][n]
    BY <2>1 DEF OrderlyRow
  <2>2. CASE k = i /\ n \in Peers(i) /\ link'[k][n] = Offer(link[i][n], AppendsFor(term'[i], l, next[n], c))
    BY <1>1, <2>2 DEF OrderlyRow
  <2> QED BY <2>1, <2>2, RowsBroadcast
<1>3. ASSUME NEW k \in Server, NEW h \in Thread
      PROVE  \/ unsent'[k][h] = unsent[k][h]
             \/ /\ Overlap /\ k = i /\ h = th
                /\ \A e \in unsent'[k][h] : EndOf(e.msg) = Len(ledger'[e.msg.term])
  BY <1>1, RowsBroadcast
<1> QED BY <1>2, <1>3, RowsBroadcast

LEMMA OrderQuiet ==
    ASSUME TypeOK, TypeOK', LedgerInv, LedgerInv', OrderInv, Grows, Quiet
    PROVE  OrderInv'
<1>1. /\ UNCHANGED <<log, ledger, held>> /\ QuietRows
      /\ \A k \in Server : term'[k] >= term[k]
  BY DEF Quiet
<1>2. UnsentWhole /\ AppendsBehindHeld /\ StillHeld /\ HeldWritten /\ TermsBounded
  BY DEF OrderInv, LedgerInv, Written
<1>3. ASSUME NEW k \in Server, NEW n \in Server PROVE OrderlyRow(k, n)
  <2>1. ASSUME NEW h \in Thread, NEW e \in unsent[k][h], e.msg \in AppendEntries,
               link'[k][n] = Offer(link[k][n], e.msg)
        PROVE  OrderlyRow(k, n)
    <3>1. e.msg.term \in Term /\ EndOf(e.msg) = Len(ledger'[e.msg.term])
      BY <1>1, <1>2 DEF TermsBounded, UnsentWhole
    <3> QED BY <2>1, <3>1 DEF OrderlyRow
  <2>2. QuietRow(k, n)
    BY <1>1 DEF QuietRows
  <2> QED BY <2>1, <2>2 DEF QuietRow, OrderlyRow
<1>4. \A k \in Server : \A h \in Thread :
          /\ ~Overlap => unsent'[k][h] = {}
          /\ \A e \in unsent'[k][h] : EndOf(e.msg) = Len(ledger'[e.msg.term])
  BY <1>1, <1>2 DEF QuietRows, UnsentWhole
<1>5. \A k \in Server : \A n \in Peers(k) : \A a \in Carried(link[k][n]) :
          a.type = "AppendEntries" => held'[n][a.term] <= EndOf(a)
  BY <1>1, <1>2 DEF AppendsBehindHeld
<1>6. ASSUME NEW k \in Server PROVE SameUpTo(log'[k], ledger'[term'[k]], held'[k][term'[k]])
  <2>0. /\ term[k] \in Nat /\ term'[k] \in Term /\ log[k] \in Seq(LogEntry) /\ held[k][term'[k]] \in Nat
        /\ ledger[term'[k]] \in Seq(LogEntry) /\ term'[k] \in Nat
    <3>1. term[k] \in Nat /\ log[k] \in Seq(LogEntry) /\ term'[k] \in Nat
      BY DEF TypeOK
    <3>2. term'[k] \in Term
      BY DEF LedgerInv, TermsBounded
    <3> QED BY <3>1, <3>2 DEF LedgerInv, Written, TrailTypes
  <2>1. CASE term'[k] = term[k]
    BY <2>1, <1>1, <1>2 DEF StillHeld
  <2>2. CASE term'[k] # term[k]
    <3>1. held[k][term'[k]] = 0
      BY <2>0, <2>2, <1>1, <1>2 DEF HeldWritten
    <3> QED BY <2>0, <3>1, <1>1 DEF SameUpTo
  <2> QED BY <2>1, <2>2
<1> QED BY <1>3, <1>4, <1>5, <1>6, OrderNext

LEMMA OrderHeartbeat ==
    ASSUME TypeOK, TypeOK', LedgerInv, LedgerInv', OrderInv, Grows, NEW i \in Server, Heartbeat(i)
    PROVE  OrderInv'
<1>1. UNCHANGED <<role, term, log, ledger, held>> /\ role[i] = "Leader"
      /\ BroadcastAppends(i, "pump", log[i], nextIndex[i], commit[i])
  BY DEF Heartbeat, nodeVars, trail
<1>2. /\ log[i] \in Seq(LogEntry) /\ nextIndex[i] \in [Server -> Nat \ {0}] /\ commit[i] \in Nat
      /\ "pump" \in Thread
  BY DEF TypeOK, Thread
<1>3. UnsentWhole /\ AppendsBehindHeld /\ StillHeld
  BY DEF OrderInv
<1>4. term'[i] \in Term /\ ledger'[term'[i]] = log[i]
  BY <1>1 DEF LedgerInv, TermsBounded, Written, LeadersWrite
<1>5. /\ \A k, n \in Server : OrderlyRow(k, n)
      /\ \A k \in Server : \A h \in Thread :
             \/ unsent'[k][h] = unsent[k][h]
             \/ Overlap /\ \A e \in unsent'[k][h] : EndOf(e.msg) = Len(ledger'[e.msg.term])
  BY <1>1, <1>2, <1>4, OrderBroadcast
<1>6. \A k \in Server : \A h \in Thread :
          /\ ~Overlap => unsent'[k][h] = {}
          /\ \A e \in unsent'[k][h] : EndOf(e.msg) = Len(ledger'[e.msg.term])
  BY <1>1, <1>3, <1>5 DEF UnsentWhole
<1>7. \A k \in Server : \A n \in Peers(k) : \A a \in Carried(link[k][n]) :
          a.type = "AppendEntries" => held'[n][a.term] <= EndOf(a)
  BY <1>1, <1>3 DEF AppendsBehindHeld
<1>8. \A k \in Server : SameUpTo(log'[k], ledger'[term'[k]], held'[k][term'[k]])
  BY <1>1, <1>3 DEF StillHeld
<1> QED BY <1>5, <1>6, <1>7, <1>8, OrderNext

LEMMA OrderElected ==
    ASSUME TypeOK, TypeOK', LedgerInv, LedgerInv', OrderInv, Grows, NEW i \in Server, NEW V, Elects(i, V)
    PROVE  OrderInv'
<1> DEFINE T == term'[i]
           next == [j \in Server |-> IF j = i THEN 1 ELSE Len(log[i]) + 1]
<1>1. /\ BroadcastAppends(i, "pump", log[i], next, commit[i])
      /\ ledger' = [ledger EXCEPT ![T] = log[i]]
      /\ held' = [held EXCEPT ![i][T] = Len(log[i])]
      /\ log' = log /\ ~TermWon(T)
      /\ \A k \in Server \ {i} : term'[k] = term[k]
  BY DEF Elects, BecomeLeader, LeadsWith
<1>2. /\ log[i] \in Seq(LogEntry) /\ Len(log[i]) \in Nat /\ commit[i] \in Nat /\ "pump" \in Thread
      /\ log \in [Server -> Seq(LogEntry)] /\ \A k \in Server : term[k] \in Term
      /\ ledger \in [Term -> Seq(LogEntry)] /\ held \in [Server -> [Term -> Nat]]
  <2>1. /\ log[i] \in Seq(LogEntry) /\ commit[i] \in Nat /\ log \in [Server -> Seq(LogEntry)]
        /\ \A k \in Server : term[k] \in Term
        /\ ledger \in [Term -> Seq(LogEntry)] /\ held \in [Server -> [Term -> Nat]]
    BY DEF TypeOK, LedgerInv, TermsBounded, Written, TrailTypes
  <2> QED BY <2>1 DEF Thread
<1>3. next \in [Server -> Nat \ {0}] /\ T \in Term
  BY <1>2 DEF LedgerInv, TermsBounded
<1>4. UnsentWhole /\ AppendsBehindHeld /\ StillHeld
  BY DEF OrderInv
<1>5. ledger'[T] = log[i] /\ \A t \in Term : t # T => ledger'[t] = ledger[t]
  BY <1>1, <1>2, <1>3
<1>6. ledger[T] = <<>> /\ \A k \in Server : held[k][T] = 0
  <2>1. ledger[T] = <<>>
    BY <1>1, <1>3 DEF LedgerInv, Written, LedgerTraced
  <2>2. \A k \in Server : held[k][T] <= Len(ledger[T]) /\ held[k][T] \in Nat
    BY <1>2, <1>3 DEF LedgerInv, Written, HeldWritten
  <2> QED BY <2>1, <2>2
<1> HIDE DEF next
<1>7. /\ \A k, n \in Server : OrderlyRow(k, n)
      /\ \A k \in Server : \A h \in Thread :
             \/ unsent'[k][h] = unsent[k][h]
             \/ Overlap /\ \A e \in unsent'[k][h] : EndOf(e.msg) = Len(ledger'[e.msg.term])
  <2>1. term'[i] \in Term /\ ledger'[term'[i]] = log[i]
    BY <1>3, <1>5
  <2>2. BroadcastAppends(i, "pump", log[i], next, commit[i])
    BY <1>1
  <2>3. /\ log[i] \in Seq(LogEntry) /\ commit[i] \in Nat /\ "pump" \in Thread
        /\ next \in [Server -> Nat \ {0}]
    BY <1>2, <1>3
  <2>4. /\ \A k, n \in Server : OrderlyRow(k, n)
        /\ \A k \in Server : \A h \in Thread :
               \/ unsent'[k][h] = unsent[k][h]
               \/ /\ Overlap /\ k = i /\ h = "pump"
                  /\ \A e \in unsent'[k][h] : EndOf(e.msg) = Len(ledger'[e.msg.term])
    BY <2>1, <2>2, <2>3, OrderBroadcast
  <2> QED BY <2>4
<1> HIDE DEF T
<1>8. ASSUME NEW k \in Server, NEW h \in Thread
      PROVE  /\ ~Overlap => unsent'[k][h] = {}
             /\ \A e \in unsent'[k][h] : EndOf(e.msg) = Len(ledger'[e.msg.term])
  <2>1. ASSUME NEW e \in unsent[k][h] PROVE EndOf(e.msg) = Len(ledger'[e.msg.term])
    <3>1. e.msg \in Sent(link, unsent)
      BY SentWhere
    <3>2. e.msg.term # T /\ e.msg.term \in Term
      BY <3>1, <1>1, SentTerm DEF LedgerInv, Written, AppendsCut
    <3> QED BY <3>2, <1>4, <1>5 DEF UnsentWhole
  <2> QED BY <2>1, <1>4, <1>7 DEF UnsentWhole
<1>9. ASSUME NEW k \in Server, NEW n \in Peers(k), NEW a \in Carried(link[k][n]), a.type = "AppendEntries"
      PROVE  held'[n][a.term] <= EndOf(a)
  <2>1. n \in Server /\ a.term # T /\ a.term \in Term
    BY <1>1, <1>9, EndsWritten DEF Peers
  <2>2. held'[n][a.term] = held[n][a.term]
    BY <2>1, <1>1, <1>2, <1>3
  <2> QED BY <2>2, <1>4, <1>9 DEF AppendsBehindHeld
<1>10. ASSUME NEW k \in Server PROVE SameUpTo(log'[k], ledger'[term'[k]], held'[k][term'[k]])
  <2>1. CASE k = i
    <3>1. term'[k] = T /\ held'[i][T] = Len(log[i])
      BY <2>1, <1>1, <1>2, <1>3 DEF T
    <3> QED BY <2>1, <3>1, <1>1, <1>2, <1>5 DEF SameUpTo
  <2>2. CASE k # i
    <3>1. term'[k] = term[k] /\ held'[k] = held[k] /\ log'[k] = log[k] /\ log[k] \in Seq(LogEntry)
      BY <2>2, <1>1, <1>2, <1>3
    <3>2. CASE term[k] # T
      BY <3>1, <3>2, <1>2, <1>4, <1>5 DEF StillHeld
    <3>3. CASE term[k] = T
      <4>1. held'[k][term'[k]] = 0
        BY <3>1, <3>3, <1>6
      <4> QED BY <4>1, <3>1, <3>3, <1>2, <1>5 DEF SameUpTo
    <3> QED BY <3>2, <3>3
  <2> QED BY <2>1, <2>2
<1> QED BY <1>7, <1>8, <1>9, <1>10, OrderNext

\* A proposal publishes behind whatever its node has published before.
LEMMA OrderProposed ==
    ASSUME PublishesInOrder, TypeOK, TypeOK', ElectionInv, LedgerInv, LedgerInv', OrderInv, Grows,
           NEW i \in Server, NEW c \in Caller, NEW v \in Value, Propose(i, c, v)
    PROVE  OrderInv'
<1> DEFINE T == term[i]
           l == Append(log[i], [term |-> term[i], data |-> v])
<1>1. /\ role[i] = "Leader" /\ c \in Thread /\ unsent[i][c] = {} /\ UNCHANGED <<role, term>>
      /\ log' = [log EXCEPT ![i] = l]
      /\ ledger' = [ledger EXCEPT ![T] = l]
      /\ held' = [held EXCEPT ![i][T] = Len(l)]
      /\ l \in Seq(LogEntry) /\ nextIndex[i] \in [Server -> Nat \ {0}]
  BY ProposeFacts
<1>2. PICK b \in Nat : BroadcastAppends(i, c, l, nextIndex[i], b)
  BY ProposeFacts
<1>3. /\ log \in [Server -> Seq(LogEntry)] /\ \A k \in Server : term[k] \in Term
      /\ ledger \in [Term -> Seq(LogEntry)] /\ held \in [Server -> [Term -> Nat]]
      /\ ledger' \in [Term -> Seq(LogEntry)]
  BY DEF TypeOK, LedgerInv, TermsBounded, Written, TrailTypes
<1>4. T \in Term /\ term'[i] = T /\ Won(i, T)
  BY <1>1, <1>3 DEF ElectionInv, LeadersWon
<1> HIDE DEF l
<1>5. ledger'[T] = l /\ \A t \in Term : t # T => ledger'[t] = ledger[t]
  BY <1>1, <1>3, <1>4
<1>6. UnsentWhole /\ AppendsBehindHeld /\ StillHeld
  BY DEF OrderInv
<1>7. /\ \A k, n \in Server : OrderlyRow(k, n)
      /\ \A k \in Server : \A h \in Thread :
             \/ unsent'[k][h] = unsent[k][h]
             \/ /\ Overlap /\ k = i /\ h = c
                /\ \A e \in unsent'[k][h] : EndOf(e.msg) = Len(ledger'[e.msg.term])
  <2>1. term'[i] \in Term /\ ledger'[term'[i]] = l
    BY <1>4, <1>5
  <2> HIDE DEF T
  <2> QED BY <2>1, <1>1, <1>2, OrderBroadcast
<1> HIDE DEF T
<1>8. ASSUME NEW k \in Server, NEW h \in Thread
      PROVE  /\ ~Overlap => unsent'[k][h] = {}
             /\ \A e \in unsent'[k][h] : EndOf(e.msg) = Len(ledger'[e.msg.term])
  <2>1. ASSUME NEW e \in unsent[k][h] PROVE EndOf(e.msg) = Len(ledger'[e.msg.term])
    <3>1. e.msg.term \in Term
      BY DEF LedgerInv, TermsBounded
    <3>2. CASE e.msg.term # T
      BY <3>1, <3>2, <1>5, <1>6 DEF UnsentWhole
    <3>3. CASE e.msg.term = T
      <4>1. k = i
        BY <3>3, <1>4 DEF ElectionInv, AppendsWon, Won, ElectionSafety
      <4>2. Overlap
        BY <1>6 DEF UnsentWhole
      <4>3. h = c
        BY <4>2 DEF PublishesInOrder, Thread
      <4> QED BY <4>1, <4>3, <1>1
    <3> QED BY <3>2, <3>3
  <2> QED BY <2>1, <1>6, <1>7 DEF UnsentWhole
<1>9. ASSUME NEW k \in Server, NEW n \in Peers(k), NEW a \in Carried(link[k][n]), a.type = "AppendEntries"
      PROVE  held'[n][a.term] <= EndOf(a)
  <2>0. n \in Server /\ n # k /\ a.term \in Term
    BY <1>9, EndsWritten DEF Peers
  <2>1. ~(n = i /\ a.term = T)
    <3> SUFFICES ASSUME n = i, a.term = T PROVE FALSE
      OBVIOUS
    <3>1. Won(k, T)
      BY <2>0, <1>9 DEF ElectionInv, AppendsWon
    <3>2. k = i
      BY <3>1, <1>4 DEF ElectionInv, ElectionSafety, Won
    <3> QED BY <3>2, <2>0
  <2>2. held'[n][a.term] = held[n][a.term]
    BY <2>0, <2>1, <1>1, <1>3, <1>4
  <2> QED BY <2>2, <1>6, <1>9 DEF AppendsBehindHeld
<1>10. ASSUME NEW k \in Server PROVE SameUpTo(log'[k], ledger'[term'[k]], held'[k][term'[k]])
  <2>1. CASE k = i
    <3>1. log'[k] = l /\ held'[k][term'[k]] = Len(l) /\ ledger'[term'[k]] = l
      BY <2>1, <1>1, <1>3, <1>4, <1>5
    <3> QED BY <3>1, <1>1 DEF SameUpTo
  <2>2. CASE k # i
    <3> DEFINE n == held[k][term[k]]
    <3>1. log'[k] = log[k] /\ held'[k] = held[k] /\ term'[k] = term[k] /\ n \in Nat /\ term[k] \in Term
      BY <2>2, <1>1, <1>3, <1>4
    <3>2. SameUpTo(log[k], ledger[term[k]], n)
      BY <1>6 DEF StillHeld
    <3>3. ledger[term[k]] \in Seq(LogEntry) /\ ledger'[term[k]] \in Seq(LogEntry) /\ n <= Len(ledger[term[k]])
      BY <3>1, <3>2, <1>3 DEF SameUpTo
    <3> HIDE DEF n
    <3>4. SameUpTo(ledger'[term[k]], ledger[term[k]], Len(ledger[term[k]])) /\ Len(ledger[term[k]]) \in Nat
      BY <3>1, <3>3 DEF Grows
    <3>5. SameUpTo(ledger[term[k]], ledger'[term[k]], n)
      BY <3>1, <3>3, <3>4, SameLess, SameBack
    <3>6. SameUpTo(log[k], ledger'[term[k]], n)
      BY <3>2, <3>5, SameTrans
    <3> QED BY <3>1, <3>6 DEF n
  <2> QED BY <2>1, <2>2
<1> QED BY <1>7, <1>8, <1>9, <1>10, OrderNext

\* An accepted append ends behind what its node holds, and those of the same
\* term behind it end later.
LEMMA AcceptHolds ==
    ASSUME TypeOK, TypeOK', ElectionInv, LedgerInv, OrderInv,
           NEW i \in Server, NEW j \in Peers(i), NEW m, m = Head(link[j][i]),
           HandleAppendEntries(i, j), Accepts(i, j, m)
    PROVE  held[i][m.term] <= EndOf(m) /\ held'[i][m.term] = EndOf(m)
<1>1. /\ j \in Server /\ i # j /\ m \in AppendEntries /\ m \in Carried(link[j][i]) /\ m.term \in Term
      /\ EndOf(m) \in Nat
      /\ held'[i][m.term] = IF EndOf(m) > held[i][m.term] THEN EndOf(m) ELSE held[i][m.term]
  BY AcceptFacts
<1>2. m.type = "AppendEntries"
  BY <1>1 DEF AppendEntries
<1>3. held[i][m.term] <= EndOf(m)
  BY <1>1, <1>2 DEF OrderInv, AppendsBehindHeld, Peers
<1>4. held[i][m.term] \in Nat
  BY <1>1 DEF LedgerInv, Written, TrailTypes
<1> QED BY <1>1, <1>3, <1>4

LEMMA OrderAccepted ==
    ASSUME TypeOK, TypeOK', ElectionInv, LedgerInv, LedgerInv', OrderInv, Grows,
           NEW i \in Server, NEW j \in Peers(i), HandleAppendEntries(i, j), Accepts(i, j, Head(link[j][i]))
    PROVE  OrderInv'
<1> DEFINE m == Head(link[j][i])
<1>1. /\ j \in Server /\ i # j /\ link[j][i] # <<>> /\ m \in AppendEntries /\ m \in Carried(link[j][i])
      /\ UNCHANGED <<unsent, ledger>> /\ m.term \in Term
      /\ term'[i] = m.term /\ EndOf(m) \in Nat
      /\ \A k \in Server \ {i} : term'[k] = term[k] /\ log'[k] = log[k]
      /\ SameUpTo(log'[i], ledger[m.term], EndOf(m))
      /\ \A k \in Server : \A t \in Term : ~(k = i /\ t = m.term) => held'[k][t] = held[k][t]
  BY AcceptFacts
<1>2. held'[i][m.term] = EndOf(m)
  BY AcceptHolds
<1>3. PICK r \in AppendReply : ReplyTo(j, i, r)
  BY DEF Accepts
<1>4. UnsentWhole /\ AppendsBehindHeld /\ StillHeld /\ LinksInOrder
  BY DEF OrderInv
<1>5. link[j][i] \in Seq(AppendMsg) /\ \A k \in Server : term[k] \in Term
  BY <1>1 DEF TypeOK, LedgerInv, TermsBounded
<1>6. /\ \A k, n \in Server :
             \/ ~(k = j /\ n = i) /\ link'[k][n] = link[k][n]
             \/ k = j /\ n = i /\ link'[k][n] = Tail(link[j][i])
             \/ k = i /\ n = j /\ link'[k][n] = Offer(link[i][j], r)
      /\ link'[j][i] = Tail(link[j][i])
  BY <1>1, <1>3, RowsAnswered
<1>7. \A k, n \in Server : OrderlyRow(k, n)
  BY <1>1, <1>6 DEF OrderlyRow
<1>8. m.type = "AppendEntries" /\ m = link[j][i][1]
  BY <1>1, <1>5 DEF AppendEntries
<1> HIDE DEF m
<1>9. \A k \in Server : \A h \in Thread :
          /\ ~Overlap => unsent'[k][h] = {}
          /\ \A e \in unsent'[k][h] : EndOf(e.msg) = Len(ledger'[e.msg.term])
  BY <1>1, <1>4 DEF UnsentWhole
<1>10. ASSUME NEW k \in Server, NEW n \in Peers(k), NEW a \in Carried(link[k][n]),
              a \in Carried(link'[k][n]), a.type = "AppendEntries"
       PROVE  held'[n][a.term] <= EndOf(a)
  <2>0. n \in Server /\ n # k /\ a.term \in Term
    BY <1>10, EndsWritten DEF Peers
  <2>1. CASE ~(n = i /\ a.term = m.term)
    <3>1. held'[n][a.term] = held[n][a.term]
      BY <2>0, <2>1, <1>1
    <3> QED BY <3>1, <1>4, <1>10 DEF AppendsBehindHeld
  <2>2. CASE n = i /\ a.term = m.term
    <3>1. Won(k, m.term) /\ Won(j, m.term)
      BY <2>0, <2>2, <1>1, <1>8, <1>10 DEF ElectionInv, AppendsWon
    <3>2. k = j
      BY <3>1 DEF ElectionInv, ElectionSafety, Won
    <3>3. PICK p \in DOMAIN link[j][i] : a = link[j][i][p]
      BY <2>2, <3>2, <1>10 DEF Carried
    <3>4. p \in 1 .. Len(link[j][i]) /\ 1 \in 1 .. Len(link[j][i]) /\ 1 <= p
      BY <3>3, <1>5
    <3>5. EndOf(m) <= EndOf(a)
      BY <3>3, <3>4, <2>2, <1>1, <1>4, <1>8, <1>10 DEF LinksInOrder, InOrder
    <3> QED BY <3>5, <2>2, <1>2
  <2> QED BY <2>1, <2>2
<1>11. ASSUME NEW k \in Server PROVE SameUpTo(log'[k], ledger'[term'[k]], held'[k][term'[k]])
  <2>1. CASE k = i
    BY <2>1, <1>1, <1>2
  <2>2. CASE k # i
    <3>1. held'[k][term[k]] = held[k][term[k]] /\ term'[k] = term[k] /\ log'[k] = log[k]
      BY <2>2, <1>1, <1>5
    <3> QED BY <3>1, <1>1, <1>4 DEF StillHeld
  <2> QED BY <2>1, <2>2
<1> QED BY <1>7, <1>9, <1>10, <1>11, OrderNext

LEMMA OrderStep ==
    ASSUME PublishesInOrder, TypeOK, TypeOK', ElectionInv, ElectionInv', LedgerInv, LedgerInv', OrderInv,
           [Next]_vars
    PROVE  OrderInv'
<1>1. Grows
  BY GrowsStep
<1>2. CASE Quiet
  BY <1>1, <1>2, OrderQuiet
<1>3. ASSUME NEW i \in Server, Heartbeat(i) PROVE OrderInv'
  BY <1>1, <1>3, OrderHeartbeat
<1>4. ASSUME NEW i \in Server, NEW V \in SUBSET Server, Elects(i, V) PROVE OrderInv'
  BY <1>1, <1>4, OrderElected
<1>5. ASSUME NEW i \in Server, NEW c \in Caller, NEW v \in Value, Propose(i, c, v) PROVE OrderInv'
  BY <1>1, <1>5, OrderProposed
<1>6. ASSUME NEW i \in Server, NEW j \in Peers(i), HandleAppendEntries(i, j), Accepts(i, j, Head(link[j][i]))
      PROVE  OrderInv'
  BY <1>1, <1>6, OrderAccepted
<1> QED BY <1>2, <1>3, <1>4, <1>5, <1>6, StepKinds

\* When one thread of a node publishes, a node never gives up, within a term,
\* what it has taken from that term's leader: the appends of a term reach it
\* with growing ends.
THEOREM OrderInvariant == ASSUME PublishesInOrder PROVE Spec => []OrderInv
<1>1. Init => OrderInv
  <2> SUFFICES ASSUME Init PROVE OrderInv
    OBVIOUS
  <2>1. /\ \A i \in Server : log[i] = <<>> /\ term[i] = 0
        /\ \A i, j \in Server : link[i][j] = <<>>
        /\ \A i \in Server : \A th \in Thread : unsent[i][th] = {}
        /\ ledger = [t \in Term |-> <<>>] /\ held = [i \in Server |-> [t \in Term |-> 0]]
        /\ 0 \in Term
    BY BoundAssumption DEF Init, Term
  <2>2. UnsentWhole /\ LinksInOrder /\ AppendsBehindHeld
    BY <2>1, EmptySeq DEF UnsentWhole, LinksInOrder, AppendsBehindHeld, InOrder, Carried, Peers
  <2>3. StillHeld
    BY <2>1 DEF StillHeld, SameUpTo
  <2> QED BY <2>2, <2>3 DEF OrderInv
<1>2. TypeOK /\ TypeOK' /\ ElectionInv /\ ElectionInv' /\ LedgerInv /\ LedgerInv' /\ OrderInv /\ [Next]_vars
          => OrderInv'
  BY OrderStep
<1> QED BY <1>1, <1>2, LedgerInvariant, ElectionInvariant, TypeCorrect, PTL DEF Spec

---------------------------------------------------------------------------
(* Votes and what the voters held                                          *)

\* Node i gives its vote to the sender of the request m.
GrantsTo(i, m) ==
    /\ m \in ballots /\ m.type = "RequestVote" /\ i # m.from
    /\ m.term >= term[i] /\ UpToDate(m, log[i])
    /\ grants' = grants \cup {<<i, m.from, m.term>>}
    /\ UNCHANGED <<log, ledger, held, elections>>
    /\ term'[i] = m.term
    /\ \A k \in Server \ {i} : role'[k] = role[k] /\ term'[k] = term[k]

\* A candidate's log is the one it asks with; it asks when its term begins.
Asks ==
    /\ \A k \in Server : role'[k] = "Candidate" =>
           /\ log'[k] = log[k]
           /\ (role[k] = "Candidate" /\ term'[k] = term[k]) \/ term'[k] > term[k]
    /\ \A m \in ballots' : m.type = "RequestVote" /\ m \notin ballots =>
           /\ m.from \in Server /\ term'[m.from] > term[m.from] /\ log'[m.from] = log[m.from]
           /\ m.lastIndex = Len(log[m.from]) /\ m.lastTerm = LastTerm(log[m.from])

LEMMA AsksStep ==
    ASSUME TypeOK, TypeOK', ElectionInv, [Next]_vars
    PROVE  Asks /\ (grants' = grants \/ \E i \in Server, m \in ballots : GrantsTo(i, m))
<1>0. role \in [Server -> {"Follower", "Candidate", "Leader"}] /\ term \in [Server -> Nat]
  BY DEF TypeOK
<1>1. ASSUME NEW i \in Server, StartElection(i)
      PROVE  Asks /\ grants' = grants
  <2>1. /\ term' = [term EXCEPT ![i] = @ + 1] /\ UNCHANGED <<log, grants>>
    BY <1>1 DEF StartElection
  <2>2. \/ role' = [role EXCEPT ![i] = "Leader"] /\ ballots' = ballots
        \/ /\ role' = [role EXCEPT ![i] = "Candidate"]
           /\ ballots' = ballots \cup
                  {[type |-> "RequestVote", term |-> term[i] + 1, from |-> i, to |-> j,
                    lastIndex |-> Len(log[i]), lastTerm |-> LastTerm(log[i])] : j \in Peers(i)}
    BY <1>1 DEF StartElection, BecomeLeader
  <2>3. \A m \in ballots' : m \in ballots \/
            (m.from = i /\ m.lastIndex = Len(log[i]) /\ m.lastTerm = LastTerm(log[i]))
    BY <2>2
  <2>4. term'[i] > term[i] /\ \A k \in Server \ {i} : role'[k] = role[k] /\ term'[k] = term[k]
    BY <2>1, <2>2, <1>0
  <2> QED BY <2>1, <2>3, <2>4 DEF Asks
<1>2. ASSUME NEW i \in Server, NEW m \in ballots, HandleRequestVote(i, m)
      PROVE  Asks /\ (grants' = grants \/ GrantsTo(i, m))
  <2> DEFINE t == IF m.term > term[i] THEN m.term ELSE term[i]
             vote == IF m.term > term[i] THEN Nil ELSE votedFor[i]
             grant == m.term = t /\ UpToDate(m, log[i]) /\ CanVote(vote, m.from)
             reply == [type |-> "VoteReply", term |-> t, from |-> i, to |-> m.from, granted |-> grant]
  <2>1. /\ m.type = "RequestVote" /\ m.to = i
        /\ \/ m.term > term[i] /\ term' = [term EXCEPT ![i] = m.term] /\ role' = [role EXCEPT ![i] = "Follower"]
           \/ ~(m.term > term[i]) /\ UNCHANGED <<role, term>>
        /\ ballots' = (ballots \ {m}) \cup {reply}
        /\ grants' = IF grant THEN grants \cup {<<i, m.from, t>>} ELSE grants
        /\ UNCHANGED <<log, elections, trail>>
    BY <1>2 DEF HandleRequestVote
  <2>2. reply.type = "VoteReply" /\ (grant => m.term = t /\ UpToDate(m, log[i]))
    OBVIOUS
  <2>3. m.term \in Nat /\ i # m.from /\ m.from \in Server
    BY <2>1, BallotTyped DEF ElectionInv, AnsweredOnce
  <2>4. t = m.term => m.term >= term[i]
    BY <2>3, <1>0
  <2> HIDE DEF grant, reply, vote
  <2>5. \A k \in Server \ {i} : role'[k] = role[k] /\ term'[k] = term[k]
    BY <2>1, <1>0
  <2>6. t = m.term => term'[i] = m.term
    BY <2>1, <2>3, <1>0
  <2>7. role'[i] = "Candidate" => role[i] = "Candidate" /\ term'[i] = term[i]
    BY <2>1, <1>0
  <2>8. Asks
    BY <2>1, <2>2, <2>5, <2>7 DEF Asks
  <2> HIDE DEF t
  <2>9. grant => GrantsTo(i, m)
    BY <2>1, <2>2, <2>3, <2>4, <2>5, <2>6 DEF GrantsTo, trail
  <2> QED BY <2>1, <2>8, <2>9
<1>3. ASSUME NEW i \in Server, NEW m \in ballots, HandleVoteReply(i, m)
      PROVE  Asks /\ grants' = grants
  <2>1. /\ ballots' = ballots \ {m} /\ UNCHANGED <<log, grants>>
        /\ \/ role' = [role EXCEPT ![i] = "Follower"] /\ term' = [term EXCEPT ![i] = m.term]
           \/ role' = [role EXCEPT ![i] = "Leader"] /\ term' = term
           \/ UNCHANGED <<role, term>>
    BY <1>3 DEF HandleVoteReply, BecomeFollower, BecomeLeader, nodeVars, history
  <2>2. \A k \in Server : role'[k] = "Candidate" => role[k] = "Candidate" /\ term'[k] = term[k]
    BY <2>1, <1>0
  <2> QED BY <2>1, <2>2 DEF Asks
<1>4. ASSUME NEW i \in Server, NEW j \in Peers(i), HandleAppendEntries(i, j)
      PROVE  Asks /\ grants' = grants
  <2> DEFINE m == Head(link[j][i])
  <2>1. UNCHANGED <<ballots, grants>> /\ Follows(i, m) /\ (Rejects(i, j, m) \/ Accepts(i, j, m))
        /\ m \in AppendEntries
    BY <1>4, AppendOutcome
  <2> HIDE DEF m
  <2>2. m.term \in Nat
    BY <2>1 DEF AppendEntries
  <2>3. \/ UNCHANGED <<role, term>> /\ (m.term < term[i] \/ role[i] = "Follower")
        \/ role' = [role EXCEPT ![i] = "Follower"] /\ term' = [term EXCEPT ![i] = m.term]
    BY <2>1 DEF Follows, BecomeFollower
  <2>4. log' = log \/ (m.term >= term[i] /\ \A k \in Server \ {i} : log'[k] = log[k])
    BY <2>1 DEF Rejects, Accepts, TypeOK
  <2>5. \A k \in Server : role'[k] = "Candidate" =>
            log'[k] = log[k] /\ role[k] = "Candidate" /\ term'[k] = term[k]
    BY <2>2, <2>3, <2>4, <1>0
  <2> QED BY <2>1, <2>5 DEF Asks
<1>5. ASSUME NEW i \in Server, NEW j \in Peers(i), HandleAppendReply(i, j)
      PROVE  Asks /\ grants' = grants
  <2> DEFINE m == Head(link[j][i])
  <2>1. /\ UNCHANGED <<ballots, grants, log>>
        /\ \/ UNCHANGED <<role, term>>
           \/ role' = [role EXCEPT ![i] = "Follower"] /\ term' = [term EXCEPT ![i] = m.term]
    BY <1>5 DEF HandleAppendReply, BecomeFollower
  <2> HIDE DEF m
  <2>2. \A k \in Server : role'[k] = "Candidate" => role[k] = "Candidate" /\ term'[k] = term[k]
    BY <2>1, <1>0
  <2> QED BY <2>1, <2>2 DEF Asks
<1>6. ASSUME NEW i \in Server, NEW c \in Caller, NEW v \in Value, Propose(i, c, v)
      PROVE  Asks /\ grants' = grants
  <2>1. /\ role[i] = "Leader" /\ UNCHANGED <<role, term, ballots, grants>>
        /\ \A k \in Server \ {i} : log'[k] = log[k]
    BY <1>6 DEF Propose, history, TypeOK
  <2> QED BY <2>1 DEF Asks
<1>7. CASE UNCHANGED <<role, term, log, ballots, grants>>
  BY <1>7 DEF Asks
<1>8. ASSUME \/ UNCHANGED vars \/ \E i \in Server : Heartbeat(i)
             \/ \E i \in Server, th \in Thread : Publish(i, th)
             \/ \E i \in Server : \E j \in Peers(i) : Lose(i, j)
      PROVE  UNCHANGED <<role, term, log, ballots, grants>>
  BY <1>8 DEF vars, Heartbeat, Publish, Lose, nodeVars, netVars, history
<1> QED BY <1>1, <1>2, <1>3, <1>4, <1>5, <1>6, <1>7, <1>8 DEF Next, Tick, Receive

\* A ledger grows by its leader's own entries, and nobody takes entries of a
\* term that it has left.
GrowsOwn ==
    /\ \A t \in Term : TermWon(t) =>
           \A n \in Len(ledger[t]) + 1 .. Len(ledger'[t]) : ledger'[t][n].term = t
    /\ \A k \in Server : \A t \in Term : t < term[k] => held'[k][t] = held[k][t]
    /\ \A k \in Server : term'[k] >= term[k]

LEMMA GrowsOwnStep ==
    ASSUME TypeOK, TypeOK', ElectionInv, ElectionInv', LedgerInv, LedgerInv', [Next]_vars
    PROVE  GrowsOwn
<1>0. /\ ledger \in [Term -> Seq(LogEntry)] /\ held \in [Server -> [Term -> Nat]]
      /\ term \in [Server -> Nat] /\ \A k \in Server : term[k] \in Term /\ term'[k] \in Term
      /\ \A t \in Term : t \in Nat /\ Len(ledger[t]) \in Nat
  <2>1. ledger \in [Term -> Seq(LogEntry)]
    BY DEF LedgerInv, Written, TrailTypes
  <2> QED BY <2>1 DEF LedgerInv, Written, TrailTypes, TermsBounded, TypeOK, Term
<1>1. CASE UNCHANGED <<ledger, held>> /\ \A k \in Server : term'[k] >= term[k]
  BY <1>0, <1>1 DEF GrowsOwn
<1>2. CASE Quiet
  BY <1>1, <1>2 DEF Quiet
<1>3. ASSUME NEW i \in Server, Heartbeat(i) PROVE GrowsOwn
  <2>1. UNCHANGED <<ledger, held, term>>
    BY <1>3 DEF Heartbeat, nodeVars, trail
  <2> QED BY <2>1, <1>0, <1>1
<1>4. ASSUME NEW i \in Server, NEW V \in SUBSET Server, Elects(i, V) PROVE GrowsOwn
  <2> DEFINE T == term'[i]
  <2>1. /\ ledger' = [ledger EXCEPT ![T] = log[i]] /\ held' = [held EXCEPT ![i][T] = Len(log[i])]
        /\ ~TermWon(T) /\ T >= term[i] /\ \A k \in Server \ {i} : term'[k] = term[k]
    BY <1>4 DEF Elects, BecomeLeader, LeadsWith
  <2>2. T \in Term /\ T \in Nat
    BY <1>0
  <2>3. ASSUME NEW k \in Server PROVE term'[k] >= term[k]
    <3>1. term[k] \in Nat
      BY <1>0
    <3>2. CASE k = i
      BY <3>2, <2>1
    <3>3. CASE k # i
      BY <3>1, <3>3, <2>1
    <3> QED BY <3>2, <3>3
  <2> HIDE DEF T
  <2>4. \A t \in Term : TermWon(t) => ledger'[t] = ledger[t]
    BY <2>1, <2>2, <1>0
  <2>5. \A k \in Server : \A t \in Term : t < term[k] => held'[k][t] = held[k][t]
    BY <2>1, <2>2, <1>0
  <2>6. \A t \in Term : TermWon(t) =>
            \A n \in Len(ledger[t]) + 1 .. Len(ledger'[t]) : ledger'[t][n].term = t
    BY <2>4, <1>0
  <2> QED BY <2>3, <2>5, <2>6 DEF GrowsOwn
<1>5. ASSUME NEW i \in Server, NEW c \in Caller, NEW v \in Value, Propose(i, c, v) PROVE GrowsOwn
  <2> DEFINE T == term[i]
             l == Append(log[i], [term |-> term[i], data |-> v])
  <2>1. /\ role[i] = "Leader" /\ UNCHANGED <<role, term>>
        /\ ledger' = [ledger EXCEPT ![T] = l] /\ held' = [held EXCEPT ![i][T] = Len(l)]
        /\ Len(l) = Len(log[i]) + 1 /\ l[Len(log[i]) + 1].term = T /\ log[i] \in Seq(LogEntry)
    BY <1>5, ProposeFacts
  <2>2. log[i] = ledger[T]
    BY <2>1 DEF LedgerInv, Written, LeadersWrite
  <2>3. T \in Term /\ T \in Nat
    BY <1>0
  <2> HIDE DEF l
  <2>4. \A t \in Term : t # T => ledger'[t] = ledger[t]
    BY <2>1, <2>3, <1>0
  <2>5. \A n \in Len(ledger[T]) + 1 .. Len(ledger'[T]) : ledger'[T][n].term = T
    <3>1. ledger'[T] = l /\ Len(ledger[T]) \in Nat
      BY <2>1, <2>3, <1>0
    <3> HIDE DEF T
    <3>2. \A n \in Len(ledger[T]) + 1 .. Len(l) : n = Len(log[i]) + 1
      BY <3>1, <2>1, <2>2
    <3> QED BY <3>1, <3>2, <2>1
  <2>6. \A k \in Server : \A t \in Term : t < term[k] => held'[k][t] = held[k][t]
    <3> SUFFICES ASSUME NEW k \in Server, NEW t \in Term, t < term[k] PROVE held'[k][t] = held[k][t]
      OBVIOUS
    <3>1. ~(k = i /\ t = T)
      BY <1>0
    <3> HIDE DEF T
    <3> QED BY <3>1, <2>1, <2>3, <1>0
  <2> HIDE DEF T
  <2>7. ASSUME NEW t \in Term
        PROVE  \A n \in Len(ledger[t]) + 1 .. Len(ledger'[t]) : ledger'[t][n].term = t
    <3>1. CASE t = T
      BY <3>1, <2>5
    <3>2. CASE t # T
      <4>1. ledger'[t] = ledger[t] /\ Len(ledger[t]) \in Nat
        BY <3>2, <2>4, <1>0
      <4> QED BY <4>1
    <3> QED BY <3>1, <3>2
  <2> QED BY <2>1, <2>6, <2>7, <1>0 DEF GrowsOwn
<1>6. ASSUME NEW i \in Server, NEW j \in Peers(i), HandleAppendEntries(i, j), Accepts(i, j, Head(link[j][i]))
      PROVE  GrowsOwn
  <2> DEFINE m == Head(link[j][i])
  <2>1. /\ ledger' = ledger /\ term'[i] = m.term /\ m.term >= term[i] /\ m.term \in Nat
        /\ \A k \in Server \ {i} : term'[k] = term[k]
        /\ \A k \in Server : \A t \in Term : ~(k = i /\ t = m.term) => held'[k][t] = held[k][t]
    BY <1>6, AcceptFacts
  <2> HIDE DEF m
  <2>2. ASSUME NEW k \in Server PROVE term'[k] >= term[k]
    <3>1. term[k] \in Nat
      BY <1>0
    <3>2. CASE k = i
      BY <3>2, <2>1
    <3>3. CASE k # i
      BY <3>1, <3>3, <2>1
    <3> QED BY <3>2, <3>3
  <2>3. \A k \in Server : \A t \in Term : t < term[k] => held'[k][t] = held[k][t]
    BY <2>1, <1>0
  <2> QED BY <2>1, <2>2, <2>3, <1>0 DEF GrowsOwn
<1> QED BY <1>2, <1>3, <1>4, <1>5, <1>6, StepKinds

\* Own, Holds and Kept after a step.
OwnNext(t, n) == n \in 1 .. Len(ledger'[t]) /\ ledger'[t][n].term = t
HoldsNext(i, t, n) == OwnNext(t, n) /\ n <= held'[i][t]
KeptNext(t, n, u) ==
    \A s \in Term : t < s /\ s <= u /\ (\E e \in elections' : e.term = s) =>
        SameUpTo(ledger'[s], ledger'[t], n)

LEMMA VoteNext ==
    ASSUME \A i \in Server : \A t \in Term : \A n \in Nat :
               HoldsNext(i, t, n) /\ KeptNext(t, n, term'[i]) => SameUpTo(log'[i], ledger'[t], n),
           \A m \in ballots' :
               m.type = "RequestVote" /\ role'[m.from] = "Candidate" /\ term'[m.from] = m.term =>
                   m.lastIndex = Len(log'[m.from]) /\ m.lastTerm = LastTerm(log'[m.from]),
           \A g \in grants' : g[3] <= term'[g[2]],
           \A g \in grants' :
               role'[g[2]] = "Candidate" /\ term'[g[2]] = g[3] /\ (\A e \in elections' : e.term # g[3]) =>
                   \A t \in Term : \A n \in Nat :
                       t < g[3] /\ HoldsNext(g[1], t, n) /\ KeptNext(t, n, g[3] - 1) =>
                           SameUpTo(log'[g[2]], ledger'[t], n),
           \A e \in elections' : \A i \in e.voters : \A t \in Term : \A n \in Nat :
               t < e.term /\ HoldsNext(i, t, n) /\ KeptNext(t, n, e.term - 1) =>
                   SameUpTo(ledger'[e.term], ledger'[t], n)
    PROVE  VoteInv'
<1>1. HoldersKeep'
  BY DEF HoldersKeep, Holds, Own, Kept, TermWon, HoldsNext, OwnNext, KeptNext
<1>2. RequestsCurrent' /\ GrantsAsked'
  BY DEF RequestsCurrent, GrantsAsked
<1>3. CandidatesHave'
  BY DEF CandidatesHave, Holds, Own, Kept, TermWon, HoldsNext, OwnNext, KeptNext
<1>4. WinnersHave'
  BY DEF WinnersHave, Holds, Own, Kept, TermWon, HoldsNext, OwnNext, KeptNext
<1> QED BY <1>1, <1>2, <1>3, <1>4 DEF VoteInv

\* What a step tells of the state before it.
LEMMA LedgerTypes ==
    ASSUME LedgerInv
    PROVE  /\ ledger \in [Term -> Seq(LogEntry)] /\ held \in [Server -> [Term -> Nat]]
           /\ \A t \in Term : t \in Nat /\ ledger[t] \in Seq(LogEntry) /\ Len(ledger[t]) \in Nat
           /\ \A i \in Server : term[i] \in Term /\ term[i] \in Nat
<1>1. ledger \in [Term -> Seq(LogEntry)] /\ held \in [Server -> [Term -> Nat]] /\ \A i \in Server : term[i] \in Term
  BY DEF LedgerInv, Written, TrailTypes, TermsBounded
<1>2. \A t \in Term : t \in Nat
  BY DEF Term
<1> QED BY <1>1, <1>2

LEMMA OwnBack ==
    ASSUME LedgerInv, LedgerInv', Grows, NEW t \in Term, NEW n \in Nat, n <= Len(ledger[t]), OwnNext(t, n)
    PROVE  Own(t, n)
<1>1. Len(ledger[t]) \in Nat
  BY LedgerTypes
<1>2. SameUpTo(ledger'[t], ledger[t], Len(ledger[t]))
  BY DEF Grows
<1> QED BY <1>1, <1>2 DEF OwnNext, Own, SameUpTo

LEMMA SameAfter ==
    ASSUME LedgerInv, LedgerInv', Grows, NEW l, NEW t \in Term, NEW n \in Nat,
           SameUpTo(l, ledger[t], n)
    PROVE  SameUpTo(l, ledger'[t], n)
<1>1. /\ ledger[t] \in Seq(LogEntry) /\ Len(ledger[t]) \in Nat /\ ledger'[t] \in Seq(LogEntry)
      /\ n <= Len(ledger[t])
  BY LedgerTypes DEF LedgerInv, Written, TrailTypes, SameUpTo
<1>2. SameUpTo(ledger'[t], ledger[t], Len(ledger[t]))
  BY DEF Grows
<1>3. SameUpTo(ledger[t], ledger'[t], n)
  BY <1>1, <1>2, SameLess, SameBack
<1> QED BY <1>3, SameTrans

\* A leader that has the entries after a step had them before: what is new in
\* its log is of its own term.
LEMMA KeptBack ==
    ASSUME LedgerInv, LedgerInv', Grows, GrowsOwn, NEW t \in Term, NEW n \in Nat, Own(t, n),
           NEW u \in Int, NEW w \in Int, u <= w, KeptNext(t, n, w)
    PROVE  Kept(t, n, u)
<1> SUFFICES ASSUME NEW s \in Term, t < s, s <= u, TermWon(s) PROVE SameUpTo(ledger[s], ledger[t], n)
  BY DEF Kept
<1>0. /\ s \in Nat /\ t \in Nat /\ Len(ledger[s]) \in Nat /\ Len(ledger[t]) \in Nat
      /\ ledger[s] \in Seq(LogEntry) /\ ledger[t] \in Seq(LogEntry)
      /\ ledger'[s] \in Seq(LogEntry) /\ ledger'[t] \in Seq(LogEntry)
  BY LedgerTypes DEF LedgerInv, Written, TrailTypes
<1>1. \E e \in elections' : e.term = s
  BY DEF TermWon, Grows
<1>2. s <= w
  BY <1>0
<1>3. SameUpTo(ledger'[s], ledger'[t], n)
  BY <1>1, <1>2 DEF KeptNext
<1>4. SameUpTo(ledger'[t], ledger[t], Len(ledger[t])) /\ SameUpTo(ledger'[s], ledger[s], Len(ledger[s]))
  BY DEF Grows
<1>5. n \in 1 .. Len(ledger[t]) /\ n <= Len(ledger[t]) /\ ledger[t][n].term = t
  BY <1>0 DEF Own
<1>6. SameUpTo(ledger'[t], ledger[t], n)
  BY <1>0, <1>4, <1>5, SameLess
<1>7. ledger'[s][n].term = t /\ n \in 1 .. Len(ledger'[s])
  BY <1>0, <1>3, <1>5, <1>6 DEF SameUpTo
<1>8. n <= Len(ledger[s])
  <2> SUFFICES ASSUME ~(n <= Len(ledger[s])) PROVE FALSE
    OBVIOUS
  <2>1. n \in Len(ledger[s]) + 1 .. Len(ledger'[s])
    BY <1>0, <1>7
  <2>2. ledger'[s][n].term = s
    BY <2>1 DEF GrowsOwn
  <2> QED BY <2>2, <1>0, <1>7
<1>9. SameUpTo(ledger[s], ledger'[s], n)
  BY <1>0, <1>4, <1>8, SameLess, SameBack
<1> QED BY <1>3, <1>6, <1>9, SameTrans

\* What a node holds of a term that it has left, it held before.
LEMMA HoldsBack ==
    ASSUME LedgerInv, LedgerInv', Grows, GrowsOwn, NEW i \in Server, NEW t \in Term, NEW n \in Nat,
           held'[i][t] = held[i][t], HoldsNext(i, t, n)
    PROVE  Holds(i, t, n)
<1>1. OwnNext(t, n) /\ n <= held[i][t]
  BY DEF HoldsNext
<1>2. held[i][t] <= Len(ledger[t]) /\ held[i][t] \in Nat /\ Len(ledger[t]) \in Nat
  BY LedgerTypes DEF LedgerInv, Written, HeldWritten
<1>3. n <= Len(ledger[t])
  BY <1>1, <1>2
<1> QED BY <1>1, <1>3, OwnBack DEF Holds

\* What a node has held it keeps through a step that does not cut its log.
LEMMA KeeperKept ==
    ASSUME LedgerInv, LedgerInv', Grows, GrowsOwn, HoldersKeep,
           NEW i \in Server, NEW t \in Term, NEW n \in Nat,
           held'[i][t] = held[i][t], \A k \in Nat : k <= Len(log[i]) => SameUpTo(log'[i], log[i], k),
           HoldsNext(i, t, n), KeptNext(t, n, term'[i])
    PROVE  SameUpTo(log'[i], ledger'[t], n)
<1>1. Holds(i, t, n) /\ Own(t, n)
  BY HoldsBack DEF Holds
<1>2. term[i] \in Int /\ term'[i] \in Int /\ term[i] <= term'[i]
  <2>1. term[i] \in Nat
    BY LedgerTypes
  <2>2. term'[i] \in Nat
    BY DEF LedgerInv, TermsBounded, Term
  <2> QED BY <2>1, <2>2 DEF GrowsOwn
<1>3. Kept(t, n, term[i])
  BY <1>1, <1>2, KeptBack
<1>4. SameUpTo(log[i], ledger[t], n)
  BY <1>1, <1>3 DEF HoldersKeep
<1>5. SameUpTo(log'[i], log[i], n)
  BY <1>4 DEF SameUpTo
<1>6. SameUpTo(log'[i], ledger[t], n)
  BY <1>4, <1>5, SameTrans
<1> QED BY <1>6, SameAfter

---------------------------------------------------------------------------
(* What a node has held it has                                             *)

\* The entries that an append of a later term carries include every entry that
\* the later leader has kept.
LEMMA CutKeeps ==
    ASSUME LedgerInv, NEW m, NEW t \in Term, NEW n \in Nat, Own(t, n), m.term \in Term, t # m.term,
           EndOf(m) \in Nat, CutFrom(m, ledger[m.term], m.term), SameUpTo(ledger[m.term], ledger[t], n)
    PROVE  n <= EndOf(m)
<1> DEFINE L == ledger[m.term]
<1>1. Len(L) \in Nat /\ n \in 1 .. Len(ledger[t]) /\ ledger[t][n].term = t
  BY LedgerTypes DEF Own
<1>2. n <= Len(L) /\ L[n].term = t
  BY <1>1 DEF SameUpTo
<1>3. \A k \in EndOf(m) + 1 .. Len(L) : L[k].term = m.term
  BY DEF CutFrom
<1> HIDE DEF L
<1> QED BY <1>1, <1>2, <1>3

LEMMA KeepersAccepted ==
    ASSUME TypeOK, TypeOK', ElectionInv, LedgerInv, LedgerInv', OrderInv, HoldersKeep, Grows, GrowsOwn,
           NEW i \in Server, NEW j \in Peers(i), HandleAppendEntries(i, j), Accepts(i, j, Head(link[j][i])),
           NEW k \in Server, NEW t \in Term, NEW n \in Nat, HoldsNext(k, t, n), KeptNext(t, n, term'[k])
    PROVE  SameUpTo(log'[k], ledger'[t], n)
<1> DEFINE m == Head(link[j][i])
<1>0. m = Head(link[j][i]) /\ Accepts(i, j, m)
  OBVIOUS
<1>2. held'[i][m.term] = EndOf(m)
  BY AcceptHolds
<1> HIDE DEF m
<1>1. /\ UNCHANGED <<elections, ledger>> /\ m.term \in Term /\ m.term \in Nat /\ m.term >= term[i]
      /\ term'[i] = m.term
      /\ \A h \in Server \ {i} : term'[h] = term[h] /\ log'[h] = log[h]
      /\ log'[i] \in Seq(LogEntry) /\ Len(log'[i]) = EndOf(m) /\ EndOf(m) \in Nat
      /\ SameUpTo(log'[i], ledger[m.term], EndOf(m))
      /\ TermWon(m.term) /\ CutFrom(m, ledger[m.term], m.term)
      /\ \A h \in Server : \A s \in Term : ~(h = i /\ s = m.term) => held'[h][s] = held[h][s]
  BY <1>0, AcceptFacts, SMTT(20)
<1>3. /\ ledger \in [Term -> Seq(LogEntry)] /\ held \in [Server -> [Term -> Nat]] /\ t \in Nat
      /\ \A s \in Term : s \in Nat /\ ledger[s] \in Seq(LogEntry) /\ Len(ledger[s]) \in Nat
      /\ term[i] \in Nat
  BY LedgerTypes
<1>4. log \in [Server -> Seq(LogEntry)]
  BY DEF TypeOK
<1>5. CASE k # i
  <2>1. log'[k] = log[k] /\ held'[k][t] = held[k][t] /\ log[k] \in Seq(LogEntry)
    BY <1>1, <1>4, <1>5
  <2>2. \A h \in Nat : h <= Len(log[k]) => SameUpTo(log'[k], log[k], h)
    BY <2>1 DEF SameUpTo
  <2> QED BY <2>1, <2>2, KeeperKept
<1>6. CASE k = i /\ t = m.term
  <2>1. n <= EndOf(m)
    BY <1>2, <1>6 DEF HoldsNext
  <2>2. SameUpTo(log'[i], ledger[m.term], n)
    BY <2>1, <1>1, <1>3, SameLess
  <2> QED BY <2>2, <1>1, <1>6
<1>7. CASE k = i /\ t # m.term
  <2>1. held'[i][t] = held[i][t]
    BY <1>1, <1>7
  <2>2. Holds(i, t, n) /\ Own(t, n)
    BY <2>1, <1>7, HoldsBack DEF Holds
  <2>3. t < m.term
    <3>1. n >= 1 /\ n <= held[i][t]
      BY <2>2, <1>3 DEF Holds, Own
    <3>2. held[i][t] > 0
      BY <3>1, <1>3
    <3>3. t <= term[i]
      BY <3>2 DEF LedgerInv, Written, HeldWritten
    <3> QED BY <3>3, <1>1, <1>3, <1>7
  <2>4. m.term <= term'[i] /\ \E e \in elections' : e.term = m.term
    BY <1>1 DEF TermWon
  <2>5. SameUpTo(ledger[m.term], ledger[t], n)
    <3>1. SameUpTo(ledger'[m.term], ledger'[t], n)
      BY <2>3, <2>4, <1>1, <1>7 DEF KeptNext
    <3> QED BY <3>1, <1>1
  <2>6. n <= EndOf(m)
    BY <2>2, <2>5, <1>1, <1>7, CutKeeps
  <2>7. SameUpTo(log'[i], ledger[m.term], n)
    BY <2>6, <1>1, <1>3, SameLess
  <2>8. SameUpTo(log'[i], ledger[t], n)
    BY <2>5, <2>7, SameTrans
  <2> QED BY <2>8, <1>1, <1>7
<1> QED BY <1>5, <1>6, <1>7

LEMMA KeepersProposed ==
    ASSUME TypeOK, TypeOK', ElectionInv, LedgerInv, LedgerInv', HoldersKeep, Grows, GrowsOwn,
           NEW i \in Server, NEW c \in Caller, NEW v \in Value, Propose(i, c, v),
           NEW k \in Server, NEW t \in Term, NEW n \in Nat, HoldsNext(k, t, n), KeptNext(t, n, term'[k])
    PROVE  SameUpTo(log'[k], ledger'[t], n)
<1> DEFINE T == term[i]
           l == Append(log[i], [term |-> term[i], data |-> v])
<1>1. /\ log' = [log EXCEPT ![i] = l] /\ ledger' = [ledger EXCEPT ![T] = l]
      /\ held' = [held EXCEPT ![i][T] = Len(l)]
      /\ l \in Seq(LogEntry) /\ log[i] \in Seq(LogEntry) /\ Len(l) = Len(log[i]) + 1
      /\ \A h \in 1 .. Len(log[i]) : l[h] = log[i][h]
  BY ProposeFacts
<1>2. /\ ledger \in [Term -> Seq(LogEntry)] /\ held \in [Server -> [Term -> Nat]] /\ T \in Term
      /\ log \in [Server -> Seq(LogEntry)] /\ log[k] \in Seq(LogEntry)
  BY LedgerTypes DEF TypeOK
<1> HIDE DEF T, l
<1>3. CASE k = i /\ t = T
  <2>1. log'[k] = l /\ ledger'[t] = l
    BY <1>1, <1>2, <1>3
  <2>2. n <= Len(l)
    BY <2>1, <1>1 DEF HoldsNext, OwnNext
  <2> QED BY <2>1, <2>2 DEF SameUpTo
<1>4. CASE ~(k = i /\ t = T)
  <2>1. held'[k][t] = held[k][t]
    BY <1>1, <1>2, <1>4
  <2>2. ASSUME NEW h \in Nat, h <= Len(log[k]) PROVE SameUpTo(log'[k], log[k], h)
    <3>1. CASE k = i
      BY <2>2, <3>1, <1>1, <1>2 DEF SameUpTo
    <3>2. CASE k # i
      <4>1. log'[k] = log[k]
        BY <3>2, <1>1, <1>2
      <4> QED BY <4>1, <2>2, <1>2 DEF SameUpTo
    <3> QED BY <3>1, <3>2
  <2> QED BY <2>1, <2>2, KeeperKept
<1> QED BY <1>3, <1>4

LEMMA KeepersElected ==
    ASSUME TypeOK, TypeOK', ElectionInv, LedgerInv, LedgerInv', HoldersKeep, Grows, GrowsOwn,
           NEW i \in Server, NEW V, Elects(i, V),
           NEW k \in Server, NEW t \in Term, NEW n \in Nat, HoldsNext(k, t, n), KeptNext(t, n, term'[k])
    PROVE  SameUpTo(log'[k], ledger'[t], n)
<1> DEFINE T == term'[i]
<1>1. /\ ledger' = [ledger EXCEPT ![T] = log[i]] /\ held' = [held EXCEPT ![i][T] = Len(log[i])]
      /\ log' = log /\ ~TermWon(T)
  BY DEF Elects, BecomeLeader, LeadsWith
<1>2. /\ ledger \in [Term -> Seq(LogEntry)] /\ held \in [Server -> [Term -> Nat]] /\ T \in Term
      /\ log[k] \in Seq(LogEntry) /\ log[i] \in Seq(LogEntry)
  BY LedgerTypes DEF TypeOK, LedgerInv, TermsBounded
<1> HIDE DEF T
<1>3. t # T
  <2> SUFFICES ASSUME t = T PROVE FALSE
    OBVIOUS
  <2>1. n \in 1 .. Len(log[i]) /\ log[i][n].term = T
    BY <1>1, <1>2 DEF HoldsNext, OwnNext
  <2>2. SameUpTo(log[i], ledger[T], n)
    BY <2>1 DEF LedgerInv, Written, LogsTraced, Traced
  <2>3. ledger[T] = <<>>
    BY <1>1, <1>2 DEF LedgerInv, Written, LedgerTraced
  <2> QED BY <2>1, <2>2, <2>3 DEF SameUpTo
<1>4. held'[k][t] = held[k][t]
  BY <1>1, <1>2, <1>3
<1>5. \A h \in Nat : h <= Len(log[k]) => SameUpTo(log'[k], log[k], h)
  BY <1>1, <1>2 DEF SameUpTo
<1> QED BY <1>4, <1>5, KeeperKept

LEMMA KeepersStep ==
    ASSUME TypeOK, TypeOK', ElectionInv, ElectionInv', LedgerInv, LedgerInv', OrderInv, HoldersKeep,
           Grows, GrowsOwn, [Next]_vars,
           NEW k \in Server, NEW t \in Term, NEW n \in Nat, HoldsNext(k, t, n), KeptNext(t, n, term'[k])
    PROVE  SameUpTo(log'[k], ledger'[t], n)
<1>1. CASE UNCHANGED <<log, held>>
  <2>1. log[k] \in Seq(LogEntry)
    BY DEF TypeOK
  <2>2. \A h \in Nat : h <= Len(log[k]) => SameUpTo(log'[k], log[k], h)
    BY <2>1, <1>1 DEF SameUpTo
  <2> QED BY <2>2, <1>1, KeeperKept
<1>2. CASE Quiet
  BY <1>1, <1>2 DEF Quiet
<1>3. ASSUME NEW i \in Server, Heartbeat(i) PROVE UNCHANGED <<log, held>>
  BY <1>3 DEF Heartbeat, nodeVars, trail
<1>4. ASSUME NEW i \in Server, NEW V \in SUBSET Server, Elects(i, V)
      PROVE  SameUpTo(log'[k], ledger'[t], n)
  BY <1>4, KeepersElected
<1>5. ASSUME NEW i \in Server, NEW c \in Caller, NEW v \in Value, Propose(i, c, v)
      PROVE  SameUpTo(log'[k], ledger'[t], n)
  BY <1>5, KeepersProposed
<1>6. ASSUME NEW i \in Server, NEW j \in Peers(i), HandleAppendEntries(i, j), Accepts(i, j, Head(link[j][i]))
      PROVE  SameUpTo(log'[k], ledger'[t], n)
  BY <1>6, KeepersAccepted
<1> QED BY <1>1, <1>2, <1>3, <1>4, <1>5, <1>6, StepKinds

---------------------------------------------------------------------------
(* What a voter has held its candidate has                                 *)

\* The end of a log with entries is in the ledger of its last term.
LEMMA LogEnd ==
    ASSUME LedgerInv, NEW i \in Server, NEW l \in Seq(LogEntry), l = log[i], l # <<>>
    PROVE  /\ Len(l) \in Nat \ {0} /\ LastTerm(l) = l[Len(l)].term /\ LastTerm(l) \in Term
           /\ SameUpTo(l, ledger[LastTerm(l)], Len(l)) /\ LastTerm(l) <= term[i]
           /\ \A n \in 1 .. Len(l) : l[n].term \in Nat /\ l[n].term <= LastTerm(l)
<1>1. Len(l) \in Nat \ {0} /\ LastTerm(l) = l[Len(l)].term
  BY DEF LastTerm
<1>2. Traced(l, ledger) /\ UpToTerm(l, term[i])
  BY DEF LedgerInv, Written, LogsTraced
<1>3. Len(l) \in 1 .. Len(l)
  BY <1>1
<1>4. LastTerm(l) \in Term /\ SameUpTo(l, ledger[LastTerm(l)], Len(l)) /\ LastTerm(l) <= term[i]
  BY <1>1, <1>2, <1>3 DEF Traced, UpToTerm
<1>5. \A t \in Term : Rising(ledger[t])
  BY DEF LedgerInv, Written, LedgerTraced
<1>6. Rising(l)
  BY <1>2, <1>5, LedgerTypes, TracedRising
<1>7. \A n \in 1 .. Len(l) : l[n].term \in Nat /\ l[n].term <= LastTerm(l)
  BY <1>1, <1>3, <1>6, EntryTerm DEF Rising
<1> QED BY <1>1, <1>4, <1>7

\* A candidate c whose log is up to date for i has what i has of a term t, if
\* the leaders between t and the candidate's term have it.
LEMMA UpToDateHas ==
    ASSUME TypeOK, LedgerInv, NEW i \in Server, NEW c \in Server, ~TermWon(term[c]),
           \/ LastTerm(log[c]) > LastTerm(log[i])
           \/ LastTerm(log[c]) = LastTerm(log[i]) /\ Len(log[c]) >= Len(log[i]),
           NEW t \in Term, NEW n \in Nat, Own(t, n), SameUpTo(log[i], ledger[t], n),
           Kept(t, n, term[c] - 1)
    PROVE  SameUpTo(log[c], ledger[t], n)
<1> DEFINE a == log[c]  b == log[i]
<1>1. /\ a \in Seq(LogEntry) /\ b \in Seq(LogEntry) /\ Len(a) \in Nat /\ Len(b) \in Nat
      /\ t \in Nat /\ term[c] \in Nat /\ term[c] \in Term
      /\ \A s \in Term : s \in Nat /\ ledger[s] \in Seq(LogEntry) /\ Len(ledger[s]) \in Nat
  <2>1. a \in Seq(LogEntry) /\ b \in Seq(LogEntry)
    BY DEF TypeOK
  <2>2. /\ \A s \in Term : s \in Nat /\ ledger[s] \in Seq(LogEntry) /\ Len(ledger[s]) \in Nat
        /\ \A h \in Server : term[h] \in Term /\ term[h] \in Nat
    BY LedgerTypes
  <2> HIDE DEF a, b
  <2> QED BY <2>1, <2>2
<1>2. n \in 1 .. Len(b) /\ b[n].term = t /\ SameUpTo(b, ledger[t], n)
  BY <1>1 DEF Own, SameUpTo
<1>3. b # <<>>
  BY <1>2
<1>4. /\ LastTerm(b) \in Term /\ SameUpTo(b, ledger[LastTerm(b)], Len(b)) /\ t <= LastTerm(b)
      /\ LastTerm(b) \in Nat
  BY <1>1, <1>2, <1>3, LogEnd
<1>5. a # <<>>
  <2> SUFFICES ASSUME a = <<>> PROVE FALSE
    OBVIOUS
  <2>1. Len(a) = 0 /\ LastTerm(a) = 0
    BY DEF LastTerm
  <2>2. \/ LastTerm(a) > LastTerm(b) \/ Len(a) >= Len(b)
    OBVIOUS
  <2> HIDE DEF a, b
  <2> QED BY <2>1, <2>2, <1>1, <1>2, <1>4
<1>6. /\ Len(a) \in Nat \ {0} /\ LastTerm(a) = a[Len(a)].term /\ LastTerm(a) \in Term
      /\ SameUpTo(a, ledger[LastTerm(a)], Len(a)) /\ LastTerm(a) <= term[c] /\ LastTerm(a) \in Nat
  BY <1>1, <1>5, LogEnd
<1>7. LastTerm(a) > LastTerm(b) \/ (LastTerm(a) = LastTerm(b) /\ Len(a) >= Len(b))
  OBVIOUS
<1>8. \A s \in Term : Rising(ledger[s]) /\ (~TermWon(s) => ledger[s] = <<>>)
  BY DEF LedgerInv, Written, LedgerTraced
<1> HIDE DEF a, b
<1>9. CASE LastTerm(a) = LastTerm(b) /\ Len(a) >= Len(b)
  <2>1. n <= Len(b) /\ n <= Len(a)
    BY <1>1, <1>2, <1>9
  <2>2. SameUpTo(a, ledger[LastTerm(b)], n) /\ SameUpTo(b, ledger[LastTerm(b)], n)
    BY <2>1, <1>1, <1>4, <1>6, <1>9, SameLess
  <2>3. SameUpTo(a, b, n)
    BY <2>2, SameBack, SameTrans
  <2> QED BY <2>3, <1>2, SameTrans DEF a
<1>10. CASE LastTerm(a) > LastTerm(b)
  <2> DEFINE s == LastTerm(a)
  <2>1. s \in Term /\ s \in Nat /\ t < s /\ SameUpTo(a, ledger[s], Len(a)) /\ s <= term[c]
        /\ ledger[s] \in Seq(LogEntry) /\ Len(ledger[s]) \in Nat /\ s = a[Len(a)].term
    BY <1>1, <1>4, <1>6, <1>10
  <2> HIDE DEF s
  <2>2. Len(a) \in 1 .. Len(ledger[s]) /\ ledger[s][Len(a)] = a[Len(a)]
    BY <2>1, <1>6 DEF SameUpTo
  <2>3. TermWon(s)
    BY <2>1, <2>2, <1>8
  <2>4. s <= term[c] - 1
    <3>1. s # term[c]
      BY <2>3
    <3>2. s \in Nat /\ term[c] \in Nat /\ s <= term[c]
      BY <2>1, <1>1
    <3> QED BY <3>1, <3>2
  <2>5. SameUpTo(ledger[s], ledger[t], n)
    BY <2>1, <2>3, <2>4 DEF Kept
  <2>6. n \in 1 .. Len(ledger[s]) /\ ledger[s][n].term = t
    BY <2>1, <2>5, <1>2 DEF Own, SameUpTo
  <2>7. n <= Len(a)
    <3> SUFFICES ASSUME ~(n <= Len(a)) PROVE FALSE
      OBVIOUS
    <3>1. Len(a) <= n
      BY <1>6
    <3>2. ledger[s][Len(a)].term <= ledger[s][n].term
      BY <3>1, <2>1, <2>2, <2>6, <1>8 DEF Rising
    <3> QED BY <3>2, <2>1, <2>2, <2>6, <1>1
  <2>8. SameUpTo(a, ledger[s], n)
    BY <2>1, <2>7, <1>1, <1>6, SameLess
  <2> QED BY <2>5, <2>8, SameTrans DEF a
<1> QED BY <1>7, <1>9, <1>10

LEMMA CandidatesStep ==
    ASSUME TypeOK, TypeOK', ElectionInv, ElectionInv', LedgerInv, LedgerInv', VoteInv,
           Grows, GrowsOwn, Asks, grants' = grants \/ \E i \in Server, m \in ballots : GrantsTo(i, m),
           NEW g \in grants', role'[g[2]] = "Candidate", term'[g[2]] = g[3],
           \A e \in elections' : e.term # g[3],
           NEW t \in Term, NEW n \in Nat, t < g[3], HoldsNext(g[1], t, n), KeptNext(t, n, g[3] - 1)
    PROVE  SameUpTo(log'[g[2]], ledger'[t], n)
<1>0. /\ g[1] \in Server /\ g[2] \in Server /\ g[3] \in Nat /\ ~TermWon(g[3])
      /\ t \in Nat /\ \A k \in Server : term[k] \in Nat
  BY LedgerTypes DEF TypeOK, TermWon, Grows
<1>1. CASE g \in grants
  <2>1. g[3] <= term[g[1]] /\ g[3] <= term[g[2]]
    BY <1>1 DEF ElectionInv, GrantsBind, VoteInv, GrantsAsked
  <2>2. log'[g[2]] = log[g[2]] /\ role[g[2]] = "Candidate" /\ term[g[2]] = g[3]
    BY <2>1, <1>0 DEF Asks
  <2>3. held'[g[1]][t] = held[g[1]][t]
    BY <2>1, <1>0 DEF GrowsOwn
  <2>4. Holds(g[1], t, n) /\ Own(t, n)
    BY <2>3, <1>0, HoldsBack DEF Holds
  <2>5. g[3] - 1 \in Int /\ g[3] - 1 <= g[3] - 1
    BY <1>0
  <2>6. Kept(t, n, g[3] - 1)
    BY <2>4, <2>5, KeptBack
  <2>7. SameUpTo(log[g[2]], ledger[t], n)
    BY <2>2, <2>4, <2>6, <1>0, <1>1 DEF VoteInv, CandidatesHave
  <2> QED BY <2>2, <2>7, SameAfter
<1>2. CASE g \notin grants
  <2>1. PICK i \in Server, m \in ballots : GrantsTo(i, m)
    BY <1>2
  <2>2. /\ m.type = "RequestVote" /\ i # m.from /\ m.term >= term[i] /\ UpToDate(m, log[i])
        /\ g = <<i, m.from, m.term>> /\ UNCHANGED <<log, ledger, held, elections>>
        /\ \A k \in Server \ {i} : role'[k] = role[k] /\ term'[k] = term[k]
    BY <2>1, <1>2 DEF GrantsTo
  <2>3. g[1] = i /\ g[2] = m.from /\ g[3] = m.term
    BY <2>2
  <2>4. m.from \in Server /\ m.term \in Nat
    BY BallotTyped
  <2>5. role[m.from] = "Candidate" /\ term[m.from] = m.term /\ ~TermWon(term[m.from])
    BY <2>2, <2>3, <2>4, <1>0
  <2>6. m.lastIndex = Len(log[m.from]) /\ m.lastTerm = LastTerm(log[m.from])
    BY <2>2, <2>5 DEF VoteInv, RequestsCurrent
  <2>7. \/ LastTerm(log[m.from]) > LastTerm(log[i])
        \/ LastTerm(log[m.from]) = LastTerm(log[i]) /\ Len(log[m.from]) >= Len(log[i])
    BY <2>2, <2>6 DEF UpToDate
  <2>8. Holds(i, t, n) /\ Own(t, n)
    BY <2>2, <2>3, HoldsBack DEF Holds
  <2>9. term[i] <= m.term /\ m.term - 1 \in Int /\ m.term - 1 <= m.term - 1 /\ KeptNext(t, n, m.term - 1)
    BY <2>2, <2>3, <2>4, <1>0
  <2>10. Kept(t, n, m.term - 1)
    BY <2>8, <2>9, KeptBack
  <2>11. Kept(t, n, term[i])
    <3> SUFFICES ASSUME NEW s \in Term, t < s, s <= term[i], TermWon(s) PROVE SameUpTo(ledger[s], ledger[t], n)
      BY DEF Kept
    <3>1. s # m.term /\ s \in Nat
      BY <2>5, LedgerTypes
    <3>2. s <= m.term - 1
      BY <3>1, <2>4, <2>9, <1>0
    <3> QED BY <3>2, <2>10 DEF Kept
  <2>12. SameUpTo(log[i], ledger[t], n)
    BY <2>8, <2>11 DEF VoteInv, HoldersKeep
  <2>13. Kept(t, n, term[m.from] - 1)
    BY <2>5, <2>10
  <2>14. SameUpTo(log[m.from], ledger[t], n)
    BY <2>4, <2>5, <2>7, <2>8, <2>12, <2>13, UpToDateHas
  <2> QED BY <2>2, <2>3, <2>14
<1> QED BY <1>1, <1>2

\* A winner of a new term has what its voters had.
LEMMA WinnersElected ==
    ASSUME TypeOK, TypeOK', ElectionInv, ElectionInv', LedgerInv, LedgerInv', VoteInv,
           Grows, GrowsOwn, NEW i \in Server, NEW V \in SUBSET Server, Elects(i, V),
           NEW k \in V, NEW t \in Term, NEW n \in Nat, t < term'[i], HoldsNext(k, t, n),
           KeptNext(t, n, term'[i] - 1)
    PROVE  SameUpTo(ledger'[term'[i]], ledger'[t], n)
<1> DEFINE T == term'[i]
           won == [leader |-> i, term |-> T, voters |-> V]
<1>1. /\ ledger' = [ledger EXCEPT ![T] = log[i]] /\ held' = [held EXCEPT ![i][T] = Len(log[i])]
      /\ elections' = elections \cup {won} /\ grants' = grants
      /\ log' = log /\ ~TermWon(T) /\ T >= term[i]
      /\ V = {i} \/ (role[i] = "Candidate" /\ T = term[i])
  BY DEF Elects, BecomeLeader, LeadsWith
<1>2. /\ ledger \in [Term -> Seq(LogEntry)] /\ held \in [Server -> [Term -> Nat]] /\ T \in Term /\ T \in Nat
      /\ t \in Nat /\ term[i] \in Nat /\ k \in Server
  <2>1. T \in Term
    BY DEF LedgerInv, TermsBounded
  <2> QED BY <2>1, LedgerTypes
<1>3. won \in elections' /\ won.leader = i /\ won.term = T /\ won.voters = V
  BY <1>1
<1> HIDE DEF T, won
<1>4. t < T /\ KeptNext(t, n, T - 1) /\ T - 1 \in Int /\ T - 1 <= T - 1 /\ t # T
  <2>1. t < T /\ KeptNext(t, n, T - 1)
    BY DEF T
  <2>2. T - 1 \in Int /\ T - 1 <= T - 1
    BY <1>2
  <2>3. t # T
    BY <2>1, <1>2
  <2> QED BY <2>1, <2>2, <2>3
<1>5. held'[k][t] = held[k][t]
  BY <1>1, <1>2, <1>4
<1>6. Holds(k, t, n) /\ Own(t, n)
  BY <1>2, <1>5, HoldsBack DEF Holds
<1>7. Kept(t, n, T - 1)
  BY <1>4, <1>6, KeptBack
<1>8. SameUpTo(log[i], ledger[t], n)
  <2>1. CASE k = i
    <3>1. Kept(t, n, term[i])
      <4> SUFFICES ASSUME NEW s \in Term, t < s, s <= term[i], TermWon(s) PROVE SameUpTo(ledger[s], ledger[t], n)
        BY DEF Kept
      <4>1. s # T /\ s \in Nat
        BY <1>1, LedgerTypes
      <4>2. s <= T - 1
        <5>1. s <= term[i] /\ term[i] <= T /\ s # T /\ s \in Nat /\ term[i] \in Nat /\ T \in Nat
          BY <4>1, <1>1, <1>2
        <5> QED BY <5>1
      <4> QED BY <4>2, <1>7 DEF Kept
    <3> QED BY <2>1, <3>1, <1>6 DEF VoteInv, HoldersKeep
  <2>2. CASE k # i
    <3>1. role[i] = "Candidate" /\ T = term[i]
      BY <2>2, <1>1
    <3>2. <<k, i, T>> \in grants
      <4>1. \A v \in won.voters \ {won.leader} : <<v, won.leader, won.term>> \in grants'
        BY <1>3 DEF ElectionInv, WinnersLead
      <4> QED BY <4>1, <2>2, <1>1, <1>3
    <3> DEFINE g == <<k, i, T>>
    <3>3. g \in grants /\ g[1] = k /\ g[2] = i /\ g[3] = T
      BY <3>2
    <3> HIDE DEF g
    <3> QED BY <3>1, <3>3, <1>1, <1>4, <1>6, <1>7 DEF VoteInv, CandidatesHave
  <2> QED BY <2>1, <2>2
<1>9. ledger'[T] = log[i] /\ ledger'[t] = ledger[t]
  BY <1>1, <1>2, <1>4
<1> QED BY <1>8, <1>9 DEF T

LEMMA WinnersStep ==
    ASSUME TypeOK, TypeOK', ElectionInv, ElectionInv', LedgerInv, LedgerInv', VoteInv,
           Grows, GrowsOwn, [Next]_vars,
           NEW e \in elections', NEW i \in e.voters, NEW t \in Term, NEW n \in Nat,
           t < e.term, HoldsNext(i, t, n), KeptNext(t, n, e.term - 1)
    PROVE  SameUpTo(ledger'[e.term], ledger'[t], n)
<1>0. e.leader \in Server /\ e.term \in Nat /\ e.voters \in SUBSET Server /\ i \in Server /\ t \in Nat
  BY LedgerTypes DEF TypeOK
<1>1. CASE e \in elections
  <2>1. e.term <= term[i]
    <3>1. CASE i = e.leader
      BY <3>1, <1>1 DEF ElectionInv, WinnersLead
    <3>2. CASE i # e.leader
      <4> DEFINE g == <<i, e.leader, e.term>>
      <4>1. g \in grants
        BY <3>2, <1>1 DEF ElectionInv, WinnersLead
      <4>2. g[1] = i /\ g[3] = e.term
        OBVIOUS
      <4> HIDE DEF g
      <4> QED BY <4>1, <4>2 DEF ElectionInv, GrantsBind
    <3> QED BY <3>1, <3>2
  <2>2. t < term[i]
    BY <2>1, <1>0, LedgerTypes
  <2>3. held'[i][t] = held[i][t]
    BY <2>2, <1>0 DEF GrowsOwn
  <2>4. Holds(i, t, n) /\ Own(t, n)
    BY <2>3, <1>0, HoldsBack DEF Holds
  <2>5. e.term - 1 \in Int /\ e.term - 1 <= e.term - 1
    BY <1>0
  <2>6. Kept(t, n, e.term - 1)
    BY <2>4, <2>5, KeptBack
  <2>7. SameUpTo(ledger[e.term], ledger[t], n)
    BY <2>4, <2>6, <1>1 DEF VoteInv, WinnersHave
  <2>8. e.term \in Term
    <3>1. term[e.leader] \in Term /\ e.term <= term[e.leader]
      BY <1>0, <1>1, LedgerTypes DEF ElectionInv, WinnersLead
    <3> QED BY <3>1, <1>0, BoundAssumption DEF Term
  <2>9. SameUpTo(ledger[t], ledger'[e.term], n)
    BY <2>7, <2>8, SameBack, SameAfter
  <2>10. SameUpTo(ledger'[e.term], ledger'[t], n)
    BY <2>9, SameBack, SameAfter
  <2> QED BY <2>10
<1>2. CASE e \notin elections
  <2>1. ASSUME NEW c \in Server, NEW V \in SUBSET Server, Elects(c, V)
        PROVE  SameUpTo(ledger'[e.term], ledger'[t], n)
    <3>1. e = [leader |-> c, term |-> term'[c], voters |-> V]
      BY <1>2, <2>1 DEF Elects, BecomeLeader
    <3>2. e.term = term'[c] /\ e.voters = V
      BY <3>1
    <3> QED BY <3>2, <2>1, WinnersElected
  <2>2. ASSUME NEW c \in Server, Heartbeat(c) PROVE elections' = elections
    BY <2>2 DEF Heartbeat, history
  <2>3. ASSUME NEW c \in Server, NEW h \in Caller, NEW v \in Value, Propose(c, h, v) PROVE elections' = elections
    BY <2>3 DEF Propose, history
  <2>4. ASSUME NEW c \in Server, NEW j \in Peers(c), HandleAppendEntries(c, j) PROVE elections' = elections
    BY <2>4 DEF HandleAppendEntries
  <2>5. Quiet => elections' = elections
    BY DEF Quiet
  <2> QED BY <1>2, <2>1, <2>2, <2>3, <2>4, <2>5, StepKinds
<1> QED BY <1>1, <1>2

LEMMA VoteStep ==
    ASSUME TypeOK, TypeOK', ElectionInv, ElectionInv', LedgerInv, LedgerInv', OrderInv, VoteInv, [Next]_vars
    PROVE  VoteInv'
<1>1. Grows /\ GrowsOwn /\ Asks /\ (grants' = grants \/ \E i \in Server, m \in ballots : GrantsTo(i, m))
  BY GrowsStep, GrowsOwnStep, AsksStep
<1>2. /\ HoldersKeep /\ RequestsCurrent /\ GrantsAsked
      /\ \A k \in Server : term[k] \in Nat /\ term'[k] \in Nat
  BY LedgerTypes DEF VoteInv, TypeOK
<1>3. \A i \in Server : \A t \in Term : \A n \in Nat :
          HoldsNext(i, t, n) /\ KeptNext(t, n, term'[i]) => SameUpTo(log'[i], ledger'[t], n)
  BY <1>1, <1>2, KeepersStep
<1>4. ASSUME NEW m \in ballots', m.type = "RequestVote", role'[m.from] = "Candidate", term'[m.from] = m.term
      PROVE  m.lastIndex = Len(log'[m.from]) /\ m.lastTerm = LastTerm(log'[m.from])
  <2>1. CASE m \notin ballots
    BY <2>1, <1>1, <1>4 DEF Asks
  <2>2. CASE m \in ballots
    <3>1. m.from \in Server /\ m.term \in Nat /\ m.term <= term[m.from]
      BY <2>2, <1>4, BallotTyped DEF ElectionInv, AnsweredOnce
    <3>2. log'[m.from] = log[m.from] /\ role[m.from] = "Candidate" /\ term[m.from] = m.term
      BY <3>1, <1>1, <1>2, <1>4 DEF Asks
    <3> QED BY <2>2, <3>2, <1>2, <1>4 DEF RequestsCurrent
  <2> QED BY <2>1, <2>2
<1>5. ASSUME NEW g \in grants' PROVE g[3] <= term'[g[2]]
  <2>0. g[2] \in Server /\ g[3] \in Nat
    BY DEF TypeOK
  <2>1. g[3] <= term[g[2]]
    <3>1. CASE g \in grants
      BY <3>1, <1>2 DEF GrantsAsked
    <3>2. CASE g \notin grants
      <4>1. PICK i \in Server, m \in ballots : GrantsTo(i, m)
        BY <3>2, <1>1
      <4>2. g = <<i, m.from, m.term>> /\ m.type = "RequestVote"
        BY <4>1, <3>2 DEF GrantsTo
      <4>3. g[2] = m.from /\ g[3] = m.term
        BY <4>2
      <4> QED BY <4>2, <4>3 DEF ElectionInv, AnsweredOnce
    <3> QED BY <3>1, <3>2
  <2>2. term'[g[2]] >= term[g[2]]
    BY <2>0, <1>1 DEF GrowsOwn
  <2> QED BY <2>0, <2>1, <2>2, <1>2
<1>6. \A g \in grants' :
          role'[g[2]] = "Candidate" /\ term'[g[2]] = g[3] /\ (\A e \in elections' : e.term # g[3]) =>
              \A t \in Term : \A n \in Nat :
                  t < g[3] /\ HoldsNext(g[1], t, n) /\ KeptNext(t, n, g[3] - 1) =>
                      SameUpTo(log'[g[2]], ledger'[t], n)
  BY <1>1, CandidatesStep
<1>7. \A e \in elections' : \A i \in e.voters : \A t \in Term : \A n \in Nat :
          t < e.term /\ HoldsNext(i, t, n) /\ KeptNext(t, n, e.term - 1) =>
              SameUpTo(ledger'[e.term], ledger'[t], n)
  BY <1>1, WinnersStep
<1> QED BY <1>3, <1>4, <1>5, <1>6, <1>7, VoteNext

\* What a node has held of a leader's own entries, every candidate that it
\* votes for has, as long as all leaders in between have: a vote compares the
\* ends of two logs only (last term, then length), and this is why it suffices.
THEOREM VoteInvariant == ASSUME PublishesInOrder PROVE Spec => []VoteInv
<1>1. Init => VoteInv
  <2> SUFFICES ASSUME Init PROVE VoteInv
    OBVIOUS
  <2>1. grants = {} /\ elections = {} /\ ballots = {}
    BY DEF Init
  <2>2. ledger = [t \in Term |-> <<>>]
    BY DEF Init
  <2>3. ASSUME NEW t \in Term, NEW n \in Nat PROVE ~Own(t, n)
    BY <2>2 DEF Own
  <2>4. HoldersKeep
    BY <2>3 DEF HoldersKeep, Holds
  <2> QED BY <2>1, <2>4 DEF VoteInv, RequestsCurrent, GrantsAsked, CandidatesHave, WinnersHave
<1>2. TypeOK /\ TypeOK' /\ ElectionInv /\ ElectionInv' /\ LedgerInv /\ LedgerInv' /\ OrderInv /\ VoteInv
          /\ [Next]_vars => VoteInv'
  BY VoteStep
<1> QED BY <1>1, <1>2, OrderInvariant, LedgerInvariant, ElectionInvariant, TypeCorrect, PTL DEF Spec

---------------------------------------------------------------------------
(* What a majority held every later leader has                             *)

\* A set of terms has a least one.
LEMMA LeastTerm ==
    ASSUME NEW S \in SUBSET Nat, S # {}
    PROVE  \E u \in S : \A s \in S : ~(s < u)
<1> DEFINE R == {p \in Nat \X Nat : p[1] < p[2]}
<1>1. \E u \in S : \A s \in S : <<s, u>> \notin R
  <2>1. IsWellFoundedOn(R, Nat)
    BY NatLessThanWellFounded DEF OpToRel
  <2> HIDE DEF R
  <2> QED BY <2>1, WFMin
<1> QED BY <1>1

\* An entry that a majority held in its term is in the log of every later leader.
LEMMA ChosenKept ==
    ASSUME TypeOK, ElectionInv, LedgerInv, VoteInv, NEW t \in Term, NEW n \in Nat, Chosen(t, n),
           NEW u \in Term, t < u, TermWon(u)
    PROVE  SameUpTo(ledger[u], ledger[t], n)
<1> DEFINE S == {s \in Term : t < s /\ TermWon(s) /\ ~SameUpTo(ledger[s], ledger[t], n)}
<1> SUFFICES ASSUME S # {} PROVE FALSE
  OBVIOUS
<1>0. S \in SUBSET Nat /\ \A s \in Term : s \in Nat
  BY DEF Term
<1>1. PICK s \in S : \A r \in S : ~(r < s)
  BY <1>0, LeastTerm
<1>2. s \in Term /\ t < s /\ TermWon(s) /\ ~SameUpTo(ledger[s], ledger[t], n)
  OBVIOUS
<1>3. Kept(t, n, s - 1)
  <2> SUFFICES ASSUME NEW r \in Term, t < r, r <= s - 1, TermWon(r) PROVE SameUpTo(ledger[r], ledger[t], n)
    BY DEF Kept
  <2>1. r < s
    BY <1>0, <1>2
  <2> QED BY <2>1, <1>1
<1>4. PICK Q \in SUBSET Server : Cardinality(Q) >= Majority /\ \A i \in Q : n <= held[i][t]
  BY DEF Chosen
<1>5. PICK e \in elections : e.term = s
  BY <1>2 DEF TermWon
<1>6. e.voters \in SUBSET Server /\ Cardinality(e.voters) >= Majority
  BY DEF TypeOK, ElectionInv, WinnersLead
<1>7. PICK i \in Server : i \in Q /\ i \in e.voters
  BY <1>4, <1>6, MajoritiesMeet
<1>8. Holds(i, t, n)
  BY <1>4, <1>7 DEF Holds, Chosen
<1> QED BY <1>2, <1>3, <1>5, <1>7, <1>8 DEF VoteInv, WinnersHave

---------------------------------------------------------------------------
(* The steps, by what they do to the commit indexes                        *)

\* No commit index changes, and no leader's record of its peers.
IndexStill ==
    /\ commit' = commit
    /\ \A k \in Server : role'[k] = "Leader" =>
           role[k] = "Leader" /\ matchIndex'[k] = matchIndex[k] /\ nextIndex'[k] = nextIndex[k]

\* The leader i handles a reply of its peer j.
Counts(i, j) ==
    HandleAppendReply(i, j) /\ role[i] = "Leader" /\ Head(link[j][i]).term <= term[i]

LEMMA IndexKinds ==
    ASSUME TypeOK, TypeOK', Quiet, [Next]_vars
    PROVE  \/ IndexStill
           \/ \E i \in Server : \E j \in Peers(i) : Counts(i, j)
           \/ \E i \in Server : \E j \in Peers(i) :
                  HandleAppendEntries(i, j) /\ Accepts(i, j, Head(link[j][i]))
<1>0. /\ role \in [Server -> {"Follower", "Candidate", "Leader"}]
      /\ matchIndex \in [Server -> [Server -> Nat]] /\ nextIndex \in [Server -> [Server -> Nat \ {0}]]
      /\ log \in [Server -> Seq(LogEntry)] /\ log' = log
      /\ \A k \in Server : role'[k] = "Leader" => role[k] = "Leader"
  BY DEF TypeOK, Quiet
<1>1. ASSUME NEW i \in Server, commit' = commit, role' = [role EXCEPT ![i] = "Follower"],
             matchIndex' = [matchIndex EXCEPT ![i] = NoMatch], nextIndex' = [nextIndex EXCEPT ![i] = NoNext]
      PROVE  IndexStill
  BY <1>0, <1>1 DEF IndexStill
<1>2. ASSUME UNCHANGED <<commit, matchIndex, nextIndex>> PROVE IndexStill
  BY <1>0, <1>2 DEF IndexStill
<1>3. ASSUME NEW i \in Server, NEW V, BecomeLeader(i, V), role[i] # "Leader" PROVE FALSE
  BY <1>0, <1>3 DEF BecomeLeader
<1>4. ASSUME NEW i \in Server, StartElection(i) PROVE IndexStill
  <2>1. role[i] # "Leader" /\ (BecomeLeader(i, {i}) \/ UNCHANGED <<commit, matchIndex, nextIndex>>)
    BY <1>4 DEF StartElection
  <2> QED BY <2>1, <1>2, <1>3
<1>5. ASSUME NEW i \in Server, NEW m \in ballots, HandleRequestVote(i, m) PROVE IndexStill
  <2>1. /\ commit' = commit
        /\ \/ UNCHANGED <<matchIndex, nextIndex>>
           \/ /\ role' = [role EXCEPT ![i] = "Follower"]
              /\ matchIndex' = [matchIndex EXCEPT ![i] = NoMatch] /\ nextIndex' = [nextIndex EXCEPT ![i] = NoNext]
    BY <1>5 DEF HandleRequestVote
  <2> QED BY <2>1, <1>1, <1>2
<1>6. ASSUME NEW i \in Server, NEW m \in ballots, HandleVoteReply(i, m) PROVE IndexStill
  <2>1. \/ commit' = commit /\ BecomeFollower(i, m.term)
        \/ role[i] = "Candidate" /\ BecomeLeader(i, counted[i] \cup {m.from, i})
        \/ UNCHANGED <<commit, matchIndex, nextIndex>>
    BY <1>6 DEF HandleVoteReply, nodeVars
  <2> QED BY <2>1, <1>1, <1>2, <1>3 DEF BecomeFollower
<1>7. ASSUME NEW i \in Server, NEW j \in Peers(i), HandleAppendEntries(i, j)
      PROVE  IndexStill \/ Accepts(i, j, Head(link[j][i]))
  <2>1. CASE Rejects(i, j, Head(link[j][i]))
    <3>1. /\ commit' = commit
          /\ BecomeFollower(i, Head(link[j][i]).term) \/ UNCHANGED <<matchIndex, nextIndex>>
      BY <2>1, <1>7 DEF Rejects, HandleAppendEntries
    <3> QED BY <3>1, <1>1, <1>2 DEF BecomeFollower
  <2> QED BY <2>1, <1>7, AppendOutcome
<1>8. ASSUME NEW i \in Server, NEW j \in Peers(i), HandleAppendReply(i, j) PROVE IndexStill \/ Counts(i, j)
  <2>1. \/ commit' = commit /\ BecomeFollower(i, Head(link[j][i]).term)
        \/ Head(link[j][i]).term <= term[i] /\ role[i] = "Leader"
        \/ UNCHANGED <<commit, matchIndex, nextIndex>>
    BY <1>8 DEF HandleAppendReply
  <2> QED BY <2>1, <1>1, <1>2, <1>8 DEF BecomeFollower, Counts
<1>9. ASSUME NEW i \in Server, NEW c \in Caller, NEW v \in Value, Propose(i, c, v) PROVE FALSE
  <2> DEFINE l == Append(log[i], [term |-> term[i], data |-> v])
  <2>1. log' = [log EXCEPT ![i] = l] /\ Len(l) = Len(log[i]) + 1 /\ log[i] \in Seq(LogEntry)
    BY <1>9, ProposeFacts
  <2> HIDE DEF l
  <2>2. log[i] = l /\ Len(log[i]) \in Nat
    BY <2>1, <1>0
  <2> QED BY <2>1, <2>2
<1>10. ASSUME \/ UNCHANGED vars \/ \E i \in Server : Heartbeat(i)
              \/ \E i \in Server, th \in Thread : Publish(i, th)
              \/ \E i \in Server : \E j \in Peers(i) : Lose(i, j)
       PROVE  UNCHANGED <<commit, matchIndex, nextIndex>>
  BY <1>10 DEF vars, Heartbeat, Publish, Lose, nodeVars
<1> QED BY <1>2, <1>4, <1>5, <1>6, <1>7, <1>8, <1>9, <1>10 DEF Next, Tick, Receive

---------------------------------------------------------------------------
(* What is committed was held by a majority                                *)

ChosenNext(t, n) ==
    /\ OwnNext(t, n)
    /\ \E Q \in SUBSET Server : Cardinality(Q) >= Majority /\ \A i \in Q : n <= held'[i][t]
BackedNext(l, c, t) == \E n \in Nat : c <= n /\ ChosenNext(t, n) /\ SameUpTo(l, ledger'[t], c)

\* CommitsBacked, AppendsBacked, MatchHeld and RepliesHeld after a step.
CommitNext(i) ==
    commit'[i] > 0 =>
        \E t \in Term : /\ t <= term'[i] /\ BackedNext(log'[i], commit'[i], t)
                        /\ t = term'[i] => commit'[i] <= held'[i][t]
AppendNext(m) ==
    m.leaderCommit > 0 => \E t \in Term : t <= m.term /\ BackedNext(ledger'[m.term], m.leaderCommit, t)
MatchNext(i) ==
    role'[i] = "Leader" =>
        /\ matchIndex'[i][i] = 0
        /\ \A j \in Server : matchIndex'[i][j] <= held'[j][term'[i]] /\ nextIndex'[i][j] - 1 <= Len(log'[i])
ReplyNext(i, m) == m.type = "AppendReply" /\ m.success => m.matchIndex <= held'[i][m.term]

LEMMA CommitInvNext ==
    ASSUME \A i \in Server : CommitNext(i) /\ MatchNext(i),
           \A m \in Sent(link', unsent') : AppendNext(m),
           \A i, j \in Server : \A m \in Carried(link'[i][j]) : ReplyNext(i, m)
    PROVE  CommitInv'
<1>1. CommitsBacked'
  BY DEF CommitsBacked, CommitNext, Backed, BackedNext, Chosen, ChosenNext, Own, OwnNext
<1>2. AppendsBacked'
  <2>1. Sent(link, unsent)' = Sent(link', unsent')
    BY DEF Sent, Queued, Unpublished, Carried
  <2> QED BY <2>1 DEF AppendsBacked, AppendNext, Backed, BackedNext, Chosen, ChosenNext, Own, OwnNext
<1>3. MatchHeld'
  BY DEF MatchHeld, MatchNext
<1>4. RepliesHeld'
  <2>1. ASSUME NEW k \in Server, NEW n \in Server PROVE Carried(link[k][n])' = Carried(link'[k][n])
    BY DEF Carried
  <2> QED BY <2>1 DEF RepliesHeld, ReplyNext
<1> QED BY <1>1, <1>2, <1>3, <1>4 DEF CommitInv

LEMMA ChosenGrows ==
    ASSUME LedgerInv, LedgerInv', Grows, NEW t \in Term, NEW n \in Nat, Chosen(t, n)
    PROVE  ChosenNext(t, n)
<1>1. /\ n \in 1 .. Len(ledger[t]) /\ ledger[t][n].term = t /\ Len(ledger[t]) \in Nat
      /\ held \in [Server -> [Term -> Nat]] /\ held' \in [Server -> [Term -> Nat]]
      /\ ledger'[t] \in Seq(LogEntry) /\ Len(ledger'[t]) \in Nat
  <2>1. ledger'[t] \in Seq(LogEntry)
    BY DEF LedgerInv, Written, TrailTypes
  <2> QED BY <2>1, LedgerTypes DEF Chosen, Own, LedgerInv, Written, TrailTypes
<1>2. SameUpTo(ledger'[t], ledger[t], Len(ledger[t]))
  BY DEF Grows
<1>3. OwnNext(t, n)
  BY <1>1, <1>2 DEF OwnNext, SameUpTo
<1>4. PICK Q \in SUBSET Server : Cardinality(Q) >= Majority /\ \A i \in Q : n <= held[i][t]
  BY DEF Chosen
<1>5. ASSUME NEW i \in Q PROVE n <= held'[i][t]
  <2>1. i \in Server /\ held[i][t] \in Nat /\ held'[i][t] \in Nat
    BY <1>1
  <2>2. n <= held[i][t] /\ held'[i][t] >= held[i][t]
    BY <2>1, <1>4 DEF Grows
  <2> QED BY <2>1, <2>2
<1> QED BY <1>3, <1>4, <1>5 DEF ChosenNext

LEMMA BackedGrows ==
    ASSUME LedgerInv, LedgerInv', Grows, NEW l, NEW c \in Nat, NEW t \in Term, Backed(l, c, t)
    PROVE  BackedNext(l, c, t)
<1>1. PICK n \in Nat : c <= n /\ Chosen(t, n) /\ SameUpTo(l, ledger[t], c)
  BY DEF Backed
<1>2. ChosenNext(t, n) /\ SameUpTo(l, ledger'[t], c)
  BY <1>1, ChosenGrows, SameAfter
<1> QED BY <1>1, <1>2 DEF BackedNext

LEMMA CommitWithin ==
    ASSUME TypeOK, CommitsBacked, NEW i \in Server
    PROVE  commit[i] \in Nat /\ log[i] \in Seq(LogEntry) /\ commit[i] <= Len(log[i])
<1>1. commit[i] \in Nat /\ log[i] \in Seq(LogEntry) /\ Len(log[i]) \in Nat
  <2>1. commit[i] \in Nat /\ log[i] \in Seq(LogEntry)
    BY DEF TypeOK
  <2> QED BY <2>1
<1>2. commit[i] > 0 => commit[i] <= Len(log[i])
  BY DEF CommitsBacked, Backed, SameUpTo
<1> QED BY <1>1, <1>2

LEMMA CommitKept ==
    ASSUME TypeOK, LedgerInv, LedgerInv', Grows, GrowsOwn, CommitsBacked, NEW i \in Server,
           commit'[i] = commit[i], SameUpTo(log'[i], log[i], commit[i])
    PROVE  CommitNext(i)
<1> SUFFICES ASSUME commit[i] > 0
             PROVE  \E t \in Term : /\ t <= term'[i] /\ BackedNext(log'[i], commit[i], t)
                                    /\ t = term'[i] => commit[i] <= held'[i][t]
  BY DEF CommitNext
<1>0. /\ commit[i] \in Nat /\ held \in [Server -> [Term -> Nat]] /\ held' \in [Server -> [Term -> Nat]]
      /\ term[i] \in Nat /\ term'[i] \in Nat /\ term'[i] >= term[i]
  <2>1. term'[i] \in Nat
    BY DEF LedgerInv, TermsBounded, Term
  <2> QED BY <2>1, LedgerTypes DEF TypeOK, LedgerInv, Written, TrailTypes, GrowsOwn
<1>1. PICK t \in Term : /\ t <= term[i] /\ Backed(log[i], commit[i], t)
                        /\ t = term[i] => commit[i] <= held[i][t]
  BY DEF CommitsBacked
<1>2. PICK n \in Nat : commit[i] <= n /\ Chosen(t, n) /\ SameUpTo(log[i], ledger[t], commit[i])
  BY <1>1 DEF Backed
<1>3. SameUpTo(log'[i], ledger[t], commit[i])
  BY <1>2, SameTrans
<1>4. Backed(log'[i], commit[i], t)
  BY <1>2, <1>3 DEF Backed
<1>5. BackedNext(log'[i], commit[i], t)
  BY <1>0, <1>4, BackedGrows
<1>6. t \in Nat /\ held[i][t] \in Nat /\ held'[i][t] \in Nat /\ held'[i][t] >= held[i][t]
  BY <1>0, LedgerTypes DEF Grows
<1>7. t <= term'[i]
  BY <1>0, <1>1, <1>6
<1>8. t = term'[i] => commit[i] <= held'[i][t]
  <2> SUFFICES ASSUME t = term'[i] PROVE commit[i] <= held'[i][t]
    OBVIOUS
  <2>1. t = term[i]
    <3>1. t <= term[i] /\ t >= term[i] /\ t \in Nat /\ term[i] \in Nat
      BY <1>0, <1>1, <1>6
    <3> QED BY <3>1
  <2>2. commit[i] <= held[i][t]
    BY <2>1, <1>1
  <2> QED BY <2>2, <1>0, <1>6
<1> QED BY <1>5, <1>7, <1>8

LEMMA AppendKept ==
    ASSUME TypeOK, LedgerInv, LedgerInv', Grows, AppendsBacked, NEW m \in Sent(link, unsent)
    PROVE  AppendNext(m)
<1> SUFFICES ASSUME m.leaderCommit > 0
             PROVE  \E t \in Term : t <= m.term /\ BackedNext(ledger'[m.term], m.leaderCommit, t)
  BY DEF AppendNext
<1>0. m.term \in Term /\ m \in AppendEntries
  BY SentTerm DEF LedgerInv
<1>1. m.leaderCommit \in Nat
  BY <1>0 DEF AppendEntries
<1>2. PICK t \in Term : t <= m.term /\ Backed(ledger[m.term], m.leaderCommit, t)
  BY DEF AppendsBacked
<1>3. PICK n \in Nat : /\ m.leaderCommit <= n /\ Chosen(t, n)
                       /\ SameUpTo(ledger[m.term], ledger[t], m.leaderCommit)
  BY <1>2 DEF Backed
<1>4. SameUpTo(ledger[t], ledger'[m.term], m.leaderCommit)
  BY <1>0, <1>1, <1>3, SameBack, SameAfter
<1>5. SameUpTo(ledger'[m.term], ledger[t], m.leaderCommit)
  BY <1>4, SameBack
<1>6. Backed(ledger'[m.term], m.leaderCommit, t)
  BY <1>3, <1>5 DEF Backed
<1> QED BY <1>1, <1>2, <1>6, BackedGrows

\* What a broadcast announces as committed is.
LEMMA AppendNew ==
    ASSUME NEW i \in Server, NEW m, CommitNext(i), m.term = term'[i], m.leaderCommit = commit'[i],
           log'[i] = ledger'[term'[i]]
    PROVE  AppendNext(m)
BY DEF CommitNext, AppendNext

LEMMA ReplyKept ==
    ASSUME TypeOK, LedgerInv, LedgerInv', Grows, RepliesHeld, NEW i \in Server, NEW j \in Server,
           NEW m \in Carried(link[i][j])
    PROVE  ReplyNext(i, m)
<1> SUFFICES ASSUME m.type = "AppendReply", m.success PROVE m.matchIndex <= held'[i][m.term]
  BY DEF ReplyNext
<1>1. m.term \in Term
  BY DEF LedgerInv, TermsBounded
<1>2. m.matchIndex \in Nat
  <2>1. link[i][j] \in Seq(AppendMsg)
    BY DEF TypeOK
  <2>2. m \in AppendMsg
    BY <2>1, ElementOfSeq DEF Carried
  <2> QED BY <2>2 DEF AppendMsg, AppendReply, AppendEntries
<1>3. m.matchIndex <= held[i][m.term]
  BY DEF RepliesHeld
<1>4. held[i][m.term] \in Nat /\ held'[i][m.term] \in Nat /\ held'[i][m.term] >= held[i][m.term]
  BY <1>1 DEF LedgerInv, Written, TrailTypes, Grows
<1> QED BY <1>2, <1>3, <1>4

LEMMA MatchKept ==
    ASSUME TypeOK, TypeOK', LedgerInv, LedgerInv', Grows, MatchHeld, NEW i \in Server,
           role'[i] = "Leader" => /\ role[i] = "Leader" /\ term'[i] = term[i]
                                  /\ matchIndex'[i] = matchIndex[i] /\ nextIndex'[i] = nextIndex[i]
                                  /\ Len(log'[i]) >= Len(log[i])
    PROVE  MatchNext(i)
<1> SUFFICES ASSUME role'[i] = "Leader", NEW j \in Server
             PROVE  /\ matchIndex'[i][i] = 0
                    /\ matchIndex'[i][j] <= held'[j][term'[i]] /\ nextIndex'[i][j] - 1 <= Len(log'[i])
  BY DEF MatchNext
<1>1. /\ matchIndex[i][i] = 0 /\ matchIndex[i][j] <= held[j][term[i]] /\ nextIndex[i][j] - 1 <= Len(log[i])
  BY DEF MatchHeld
<1>2. /\ matchIndex[i][j] \in Nat /\ nextIndex[i][j] \in Nat
      /\ held[j][term[i]] \in Nat /\ held'[j][term[i]] \in Nat /\ held'[j][term[i]] >= held[j][term[i]]
  <2>1. term[i] \in Term
    BY LedgerTypes
  <2> QED BY <2>1 DEF TypeOK, LedgerInv, Written, TrailTypes, Grows
<1>3. Len(log[i]) \in Nat /\ Len(log'[i]) \in Nat /\ Len(log'[i]) >= Len(log[i])
  <2>1. log[i] \in Seq(LogEntry) /\ log'[i] \in Seq(LogEntry)
    BY DEF TypeOK
  <2> QED BY <2>1
<1>4. matchIndex'[i] = matchIndex[i] /\ nextIndex'[i] = nextIndex[i] /\ term'[i] = term[i]
  OBVIOUS
<1>5. matchIndex[i][j] <= held'[j][term[i]]
  BY <1>1, <1>2
<1>6. nextIndex[i][j] - 1 <= Len(log'[i])
  <2>1. \A x, y, z \in Nat : x - 1 <= y /\ z >= y => x - 1 <= z
    OBVIOUS
  <2> QED BY <2>1, <1>1, <1>2, <1>3
<1> QED BY <1>1, <1>4, <1>5, <1>6

\* The entries that a leader counts a majority for were held by one: itself and
\* the peers whose match_index says so.
LEMMA LeaderChooses ==
    ASSUME NEW T \in Term, NEW i \in Server, NEW n \in Nat \ {0}, NEW match \in [Server -> Nat],
           held' \in [Server -> [Term -> Nat]],
           match[i] = 0, \A j \in Server : match[j] <= held'[j][T], n <= held'[i][T],
           OwnNext(T, n), Replicas(match, n) >= Majority
    PROVE  ChosenNext(T, n)
<1> DEFINE P == {j \in Server : match[j] >= n}
<1>1. IsFiniteSet(P) /\ i \notin P
  BY ServerAssumption, FS_Subset
<1>2. Cardinality(P \cup {i}) = Cardinality(P) + 1 /\ Cardinality(P) \in Nat
  BY <1>1, OneMore
<1>3. Replicas(match, n) = 1 + Cardinality(P)
  BY DEF Replicas
<1>4. Cardinality(P \cup {i}) >= Majority
  <2> HIDE DEF P
  <2> QED BY <1>2, <1>3
<1>5. ASSUME NEW j \in P \cup {i} PROVE n <= held'[j][T]
  <2>1. CASE j = i
    BY <2>1
  <2>2. CASE j \in P
    <3>1. j \in Server /\ match[j] >= n /\ match[j] \in Nat /\ match[j] <= held'[j][T] /\ held'[j][T] \in Nat
      BY <2>2
    <3> QED BY <3>1
  <2> QED BY <2>1, <2>2
<1>6. P \cup {i} \in SUBSET Server
  OBVIOUS
<1> HIDE DEF P
<1> QED BY <1>4, <1>5, <1>6 DEF ChosenNext

\* advance_commit commits what a majority has held in the leader's term.
LEMMA Advanced ==
    ASSUME TypeOK, TypeOK', LedgerInv, LedgerInv', Grows, GrowsOwn, CommitsBacked,
           NEW i \in Server, role'[i] = "Leader", term'[i] = term[i],
           SameUpTo(log'[i], log[i], commit[i]),
           NEW match \in [Server -> Nat], match[i] = 0, \A j \in Server : match[j] <= held'[j][term[i]],
           NEW n \in CommitCandidates(i, log'[i]), AdvanceCommit(i, log'[i], match, n), commit'[i] = n
    PROVE  CommitNext(i) /\ commit'[i] >= commit[i]
<1>0. /\ commit[i] \in Nat /\ Len(log'[i]) \in Nat /\ log'[i] \in Seq(LogEntry) /\ term[i] \in Term
      /\ held' \in [Server -> [Term -> Nat]] /\ log'[i] = ledger'[term[i]] /\ held'[i][term[i]] = Len(log'[i])
  <2>1. commit[i] \in Nat /\ log'[i] \in Seq(LogEntry)
    BY DEF TypeOK
  <2>2. term[i] \in Term
    BY LedgerTypes
  <2>3. log'[i] = ledger'[term'[i]] /\ held'[i][term'[i]] = Len(log'[i]) /\ held' \in [Server -> [Term -> Nat]]
    BY DEF LedgerInv, Written, LeadersWrite, TrailTypes
  <2> QED BY <2>1, <2>2, <2>3
<1>1. CASE n = commit[i]
  BY <1>0, <1>1, CommitKept
<1>2. CASE n # commit[i]
  <2>1. n \in Nat \ {0} /\ n \in 1 .. Len(log'[i]) /\ n > commit[i]
    BY <1>0, <1>2 DEF CommitCandidates
  <2>2. log'[i][n].term = term[i] /\ Replicas(match, n) >= Majority
    BY <1>2 DEF AdvanceCommit, Committable
  <2>3. n <= held'[i][term[i]] /\ OwnNext(term[i], n)
    BY <2>1, <2>2, <1>0 DEF OwnNext
  <2>4. ChosenNext(term[i], n)
    BY <2>1, <2>2, <2>3, <1>0, LeaderChooses
  <2>5. SameUpTo(log'[i], ledger'[term[i]], n)
    BY <2>1, <1>0 DEF SameUpTo
  <2>6. BackedNext(log'[i], n, term[i])
    BY <2>1, <2>4, <2>5 DEF BackedNext
  <2>7. term[i] <= term'[i]
    BY LedgerTypes
  <2>8. CommitNext(i)
    BY <2>3, <2>6, <2>7, <1>0 DEF CommitNext
  <2> QED BY <2>1, <2>8, <1>0
<1> QED BY <1>1, <1>2

\* No commit index goes back, and what it covers stays.
Stable == \A i \in Server : commit'[i] >= commit[i] /\ SameUpTo(log'[i], log[i], commit[i])

LEMMA StableSame ==
    ASSUME TypeOK, CommitsBacked, NEW i \in Server, \A k \in 1 .. Len(log[i]) : log'[i][k] = log[i][k],
           Len(log'[i]) >= Len(log[i]), Len(log'[i]) \in Nat
    PROVE  SameUpTo(log'[i], log[i], commit[i])
<1>1. commit[i] \in Nat /\ log[i] \in Seq(LogEntry) /\ commit[i] <= Len(log[i])
  BY CommitWithin
<1> QED BY <1>1 DEF SameUpTo

LEMMA RepliesQuiet ==
    ASSUME TypeOK, LedgerInv, LedgerInv', Grows, RepliesHeld, QuietRows,
           NEW i \in Server, NEW j \in Server, NEW m \in Carried(link'[i][j])
    PROVE  ReplyNext(i, m)
<1>0. link[i][j] \in Seq(AppendMsg)
  BY DEF TypeOK
<1>1. CASE link'[i][j] = link[i][j]
  BY <1>1, ReplyKept
<1>2. CASE link[i][j] # <<>> /\ link'[i][j] = Tail(link[i][j])
  <2>1. m \in Carried(link[i][j])
    BY <1>0, <1>2, CarriedTaken
  <2> QED BY <2>1, ReplyKept
<1>3. ASSUME NEW r, ~(r.type = "AppendReply" /\ r.success), link'[i][j] = Offer(link[i][j], r)
      PROVE  ReplyNext(i, m)
  <2>1. m \in Carried(link[i][j]) \/ m = r
    BY <1>0, <1>3, CarriedOffer
  <2>2. CASE m \in Carried(link[i][j])
    BY <2>2, ReplyKept
  <2>3. CASE m = r
    BY <2>3, <1>3 DEF ReplyNext
  <2> QED BY <2>1, <2>2, <2>3
<1>4. ASSUME NEW r \in AppendReply, ~r.success, link'[i][j] = Offer(link[i][j], r)
      PROVE  ReplyNext(i, m)
  BY <1>3, <1>4
<1>5. ASSUME NEW r \in AppendEntries, link'[i][j] = Offer(link[i][j], r)
      PROVE  ReplyNext(i, m)
  <2>1. r.type # "AppendReply"
    BY DEF AppendEntries
  <2> QED BY <2>1, <1>3, <1>5
<1>6. QuietRow(i, j)
  BY DEF QuietRows
<1> QED BY <1>1, <1>2, <1>4, <1>5, <1>6 DEF QuietRow

LEMMA RepliesBroadcast ==
    ASSUME TypeOK, LedgerInv, LedgerInv', Grows, RepliesHeld,
           NEW i \in Server, NEW th \in Thread, NEW l, NEW next, NEW c, BroadcastAppends(i, th, l, next, c),
           NEW k \in Server, NEW n \in Server, NEW m \in Carried(link'[k][n])
    PROVE  ReplyNext(k, m)
<1>0. link[k][n] \in Seq(AppendMsg)
  BY DEF TypeOK
<1>1. CASE link'[k][n] = link[k][n]
  BY <1>1, ReplyKept
<1>2. CASE k = i /\ link'[k][n] = Offer(link[i][n], AppendsFor(term'[i], l, next[n], c))
  <2> DEFINE r == AppendsFor(term'[i], l, next[n], c)
  <2>1. r.type # "AppendReply"
    BY DEF AppendsFor
  <2>2. m \in Carried(link[k][n]) \/ m = r
    BY <1>0, <1>2, CarriedOffer
  <2> HIDE DEF r
  <2> QED BY <2>1, <2>2, ReplyKept DEF ReplyNext
<1> QED BY <1>1, <1>2, RowsBroadcast

LEMMA CommitQuiet ==
    ASSUME TypeOK, TypeOK', LedgerInv, LedgerInv', Grows, GrowsOwn, CommitInv, Quiet, IndexStill
    PROVE  CommitInv' /\ Stable
<1>1. /\ log' = log /\ QuietRows /\ Sent(link', unsent') \subseteq Sent(link, unsent)
      /\ \A k \in Server : role'[k] = "Leader" => role[k] = "Leader" /\ term'[k] = term[k]
      /\ commit' = commit
      /\ \A k \in Server : role'[k] = "Leader" => matchIndex'[k] = matchIndex[k] /\ nextIndex'[k] = nextIndex[k]
  BY DEF Quiet, IndexStill
<1>2. CommitsBacked /\ AppendsBacked /\ MatchHeld /\ RepliesHeld
  BY DEF CommitInv
<1>3. ASSUME NEW i \in Server
      PROVE  /\ CommitNext(i) /\ MatchNext(i)
             /\ commit'[i] >= commit[i] /\ SameUpTo(log'[i], log[i], commit[i])
  <2>1. log'[i] = log[i] /\ log[i] \in Seq(LogEntry) /\ Len(log[i]) \in Nat /\ commit[i] \in Nat
    <3>1. log[i] \in Seq(LogEntry) /\ commit[i] \in Nat
      BY DEF TypeOK
    <3> QED BY <3>1, <1>1
  <2>2. SameUpTo(log'[i], log[i], commit[i])
    BY <2>1, <1>2, StableSame
  <2>3. CommitNext(i)
    BY <2>2, <1>1, <1>2, CommitKept
  <2>4. Len(log'[i]) >= Len(log[i])
    BY <2>1
  <2>5. MatchNext(i)
    BY <2>4, <1>1, <1>2, MatchKept
  <2> QED BY <2>1, <2>2, <2>3, <2>5, <1>1
<1>4. \A m \in Sent(link', unsent') : AppendNext(m)
  BY <1>1, <1>2, AppendKept
<1>5. \A i, j \in Server : \A m \in Carried(link'[i][j]) : ReplyNext(i, m)
  BY <1>1, <1>2, RepliesQuiet
<1> QED BY <1>3, <1>4, <1>5, CommitInvNext DEF Stable

LEMMA CommitCounted ==
    ASSUME TypeOK, TypeOK', LedgerInv, LedgerInv', Grows, GrowsOwn, CommitInv, Quiet,
           NEW i \in Server, NEW j \in Peers(i), Counts(i, j),
           Head(link[j][i]).success => Head(link[j][i]).term >= term[i]
    PROVE  CommitInv' /\ Stable
<1> DEFINE m == Head(link[j][i])
           match == [matchIndex[i] EXCEPT ![j] = m.matchIndex]
<1>1. /\ log' = log /\ QuietRows /\ Sent(link', unsent') \subseteq Sent(link, unsent)
      /\ \A k \in Server : role'[k] = "Leader" => role[k] = "Leader" /\ term'[k] = term[k]
  BY DEF Quiet
<1>2. CommitsBacked /\ AppendsBacked /\ MatchHeld /\ RepliesHeld
  BY DEF CommitInv
<1>3. j \in Server /\ i # j /\ link[j][i] # <<>> /\ m.type = "AppendReply" /\ m.term <= term[i] /\ role[i] = "Leader"
  BY DEF Counts, HandleAppendReply, Incoming, Peers
<1>4. /\ term[i] \in Term /\ term[i] \in Nat /\ held \in [Server -> [Term -> Nat]]
      /\ held' \in [Server -> [Term -> Nat]]
      /\ matchIndex \in [Server -> [Server -> Nat]] /\ nextIndex \in [Server -> [Server -> Nat \ {0}]]
      /\ commit \in [Server -> Nat] /\ log \in [Server -> Seq(LogEntry)]
  BY LedgerTypes DEF TypeOK, LedgerInv, Written, TrailTypes
<1>5. m \in AppendReply /\ m.term \in Nat /\ m.matchIndex \in Nat /\ m \in Carried(link[j][i])
  <2>1. m \in AppendMsg
    BY <1>3, ReceiveType
  <2>2. m \in Carried(link[j][i])
    BY <1>3, CarriedTaken DEF TypeOK
  <2>3. m.type = "AppendReply"
    BY <1>3
  <2> HIDE DEF m
  <2>4. m \in AppendReply
    BY <2>1, <2>3 DEF AppendMsg, AppendEntries, AppendReply
  <2> QED BY <2>2, <2>4 DEF AppendReply
<1>6. /\ nextIndex' = [nextIndex EXCEPT ![i][j] = NextFor(m, nextIndex[i][j])]
      /\ IF m.success
         THEN /\ matchIndex' = [matchIndex EXCEPT ![i] = match]
              /\ \E n \in CommitCandidates(i, log[i]) :
                     AdvanceCommit(i, log[i], match, n) /\ commit' = [commit EXCEPT ![i] = n]
         ELSE UNCHANGED <<matchIndex, commit>>
      /\ UNCHANGED <<role, term>>
  <2>1. ~(m.term > term[i])
    <3>1. m.term \in Nat /\ m.term <= term[i]
      BY <1>3, <1>5
    <3> HIDE DEF m
    <3> QED BY <3>1, <1>4
  <2> QED BY <2>1, <1>3 DEF Counts, HandleAppendReply
<1>7. m.success => m.term = term[i]
  <2>1. m.term \in Nat /\ m.term <= term[i] /\ (m.success => m.term >= term[i])
    BY <1>3, <1>5
  <2> HIDE DEF m
  <2> QED BY <2>1, <1>4
<1>8. m.success => m.matchIndex <= held[j][m.term]
  BY <1>3, <1>5, <1>2 DEF RepliesHeld
<1> HIDE DEF m
<1>9. matchIndex[i][i] = 0 /\ \A k \in Server : matchIndex[i][k] <= held[k][term[i]] /\ nextIndex[i][k] - 1 <= Len(log[i])
  BY <1>2, <1>3 DEF MatchHeld
<1>10. match \in [Server -> Nat] /\ match[i] = 0 /\ (m.success => \A k \in Server : match[k] <= held'[k][term[i]])
  <2>1. match \in [Server -> Nat] /\ match[i] = 0
    BY <1>3, <1>4, <1>5, <1>9
  <2>2. ASSUME m.success, NEW k \in Server PROVE match[k] <= held'[k][term[i]]
    <3>1. match[k] <= held[k][term[i]]
      BY <2>2, <1>3, <1>4, <1>5, <1>7, <1>8, <1>9
    <3> HIDE DEF match
    <3>2. /\ match[k] \in Nat /\ held[k][term[i]] \in Nat /\ held'[k][term[i]] \in Nat
          /\ held'[k][term[i]] >= held[k][term[i]]
      BY <2>1, <1>4 DEF Grows
    <3> QED BY <3>1, <3>2
  <2> QED BY <2>1, <2>2
<1>11. \A k \in Server : k # i => commit'[k] = commit[k] /\ matchIndex'[k] = matchIndex[k] /\ nextIndex'[k] = nextIndex[k]
  BY <1>4, <1>6
<1>12. ASSUME NEW k \in Server
       PROVE  /\ log'[k] = log[k] /\ log[k] \in Seq(LogEntry) /\ Len(log[k]) \in Nat
              /\ SameUpTo(log'[k], log[k], commit[k]) /\ commit[k] \in Nat
  <2>1. log'[k] = log[k] /\ log[k] \in Seq(LogEntry) /\ commit[k] \in Nat
    BY <1>1, <1>4
  <2>2. Len(log[k]) \in Nat
    BY <2>1
  <2> QED BY <2>1, <2>2, <1>2, StableSame
<1>13. CommitNext(i) /\ commit'[i] >= commit[i]
  <2>1. CASE m.success
    <3>1. PICK n \in CommitCandidates(i, log[i]) :
              AdvanceCommit(i, log[i], match, n) /\ commit' = [commit EXCEPT ![i] = n]
      BY <2>1, <1>6
    <3>2. commit'[i] = n /\ role'[i] = "Leader" /\ term'[i] = term[i] /\ log'[i] = log[i]
      BY <3>1, <1>3, <1>4, <1>6, <1>12
    <3> HIDE DEF match
    <3> QED BY <2>1, <3>1, <3>2, <1>2, <1>10, <1>12, Advanced
  <2>2. CASE ~m.success
    <3>1. commit'[i] = commit[i]
      BY <2>2, <1>6
    <3> QED BY <3>1, <1>2, <1>12, CommitKept
  <2> QED BY <2>1, <2>2
<1>14. MatchNext(i)
  <2> SUFFICES ASSUME NEW k \in Server
               PROVE  /\ matchIndex'[i][i] = 0
                      /\ matchIndex'[i][k] <= held'[k][term[i]] /\ nextIndex'[i][k] - 1 <= Len(log[i])
    BY <1>6, <1>12 DEF MatchNext
  <2>1. matchIndex'[i][i] = 0 /\ matchIndex'[i][k] <= held'[k][term[i]]
    <3>1. CASE m.success
      <4>1. matchIndex'[i] = match
        BY <3>1, <1>4, <1>6
      <4> HIDE DEF match
      <4> QED BY <3>1, <4>1, <1>10
    <3>2. CASE ~m.success
      <4>1. matchIndex'[i] = matchIndex[i]
        BY <3>2, <1>6
      <4>2. /\ matchIndex[i][k] \in Nat /\ held[k][term[i]] \in Nat /\ held'[k][term[i]] \in Nat
            /\ held'[k][term[i]] >= held[k][term[i]] /\ matchIndex[i][k] <= held[k][term[i]]
        BY <1>4, <1>9 DEF Grows
      <4>3. matchIndex[i][k] <= held'[k][term[i]]
        BY <4>2
      <4> QED BY <4>1, <4>3, <1>9
    <3> QED BY <3>1, <3>2
  <2>2. nextIndex'[i][k] - 1 <= Len(log[i])
    <3>1. nextIndex'[i][k] = IF k = j THEN NextFor(m, nextIndex[i][j]) ELSE nextIndex[i][k]
      BY <1>3, <1>4, <1>6
    <3>2. CASE k # j
      BY <3>1, <3>2, <1>9
    <3>3. CASE k = j /\ m.success
      <4>0. m.matchIndex <= held[j][term[i]]
        BY <3>3, <1>7, <1>8
      <4>1. /\ m.matchIndex <= held[j][term[i]] /\ held[j][term[i]] <= Len(ledger[term[i]])
            /\ held[j][term[i]] \in Nat /\ ledger[term[i]] = log[i]
        <5> HIDE DEF match
        <5> QED BY <4>0, <1>3, <1>4 DEF LedgerInv, Written, HeldWritten, LeadersWrite
      <4>2. m.matchIndex <= Len(log[i])
        BY <4>1, <1>5, <1>12
      <4>3. nextIndex'[i][k] = m.matchIndex + 1
        BY <3>1, <3>3 DEF NextFor
      <4> QED BY <4>2, <4>3, <1>5, <1>12
    <3>4. CASE k = j /\ ~m.success
      <4>1. nextIndex'[i][k] = IF nextIndex[i][j] > 1 THEN nextIndex[i][j] - 1 ELSE 1
        BY <3>1, <3>4 DEF NextFor
      <4>2. nextIndex[i][j] \in Nat /\ nextIndex[i][j] - 1 <= Len(log[i]) /\ Len(log[i]) \in Nat
        BY <1>3, <1>4, <1>9, <1>12
      <4> QED BY <4>1, <4>2
    <3> QED BY <3>2, <3>3, <3>4
  <2> QED BY <2>1, <2>2
<1>15. ASSUME NEW k \in Server
       PROVE  /\ CommitNext(k) /\ MatchNext(k) /\ commit'[k] >= commit[k] /\ SameUpTo(log'[k], log[k], commit[k])
  <2>1. CASE k = i
    BY <2>1, <1>12, <1>13, <1>14
  <2>2. CASE k # i
    <3>1. commit'[k] = commit[k] /\ matchIndex'[k] = matchIndex[k] /\ nextIndex'[k] = nextIndex[k]
      BY <2>2, <1>11
    <3>2. Len(log'[k]) >= Len(log[k])
      BY <1>12
    <3>3. MatchNext(k)
      BY <3>1, <3>2, <1>1, <1>2, MatchKept
    <3> QED BY <3>1, <3>3, <1>2, <1>12, CommitKept
  <2> QED BY <2>1, <2>2
<1>16. \A a \in Sent(link', unsent') : AppendNext(a)
  BY <1>1, <1>2, AppendKept
<1>17. \A k, n \in Server : \A a \in Carried(link'[k][n]) : ReplyNext(k, a)
  BY <1>1, <1>2, RepliesQuiet
<1> QED BY <1>15, <1>16, <1>17, CommitInvNext DEF Stable

\* A leader broadcasts its log and its commit index.
LEMMA CommitBroadcast ==
    ASSUME TypeOK, TypeOK', LedgerInv, LedgerInv', Grows, CommitInv, \A k \in Server : CommitNext(k) /\ MatchNext(k),
           NEW i \in Server, NEW th \in Thread, NEW next \in [Server -> Nat \ {0}], role'[i] = "Leader",
           BroadcastAppends(i, th, log'[i], next, commit'[i])
    PROVE  CommitInv'
<1>1. AppendsBacked /\ RepliesHeld
  BY DEF CommitInv
<1>2. log'[i] \in Seq(LogEntry) /\ commit'[i] \in Nat /\ term'[i] \in Nat
  BY DEF TypeOK
<1>3. log'[i] = ledger'[term'[i]]
  BY DEF LedgerInv, Written, LeadersWrite
<1>4. ASSUME NEW m \in Sent(link', unsent') PROVE AppendNext(m)
  <2>1. m \in Sent(link, unsent) \/ (m.term = term'[i] /\ m.leaderCommit = commit'[i])
    BY <1>2, BroadcastCut
  <2>2. CASE m \in Sent(link, unsent)
    BY <2>2, <1>1, AppendKept
  <2>3. CASE m.term = term'[i] /\ m.leaderCommit = commit'[i]
    BY <2>3, <1>3, AppendNew
  <2> QED BY <2>1, <2>2, <2>3
<1>5. \A k, n \in Server : \A m \in Carried(link'[k][n]) : ReplyNext(k, m)
  BY <1>1, RepliesBroadcast
<1> QED BY <1>4, <1>5, CommitInvNext

LEMMA CommitHeartbeat ==
    ASSUME TypeOK, TypeOK', LedgerInv, LedgerInv', Grows, GrowsOwn, CommitInv, NEW i \in Server, Heartbeat(i)
    PROVE  CommitInv' /\ Stable
<1>1. /\ role[i] = "Leader" /\ UNCHANGED <<role, term, log, commit, matchIndex, nextIndex>>
      /\ BroadcastAppends(i, "pump", log[i], nextIndex[i], commit[i])
  BY DEF Heartbeat, nodeVars
<1>2. CommitsBacked /\ MatchHeld
  BY DEF CommitInv
<1>3. ASSUME NEW k \in Server
      PROVE  CommitNext(k) /\ MatchNext(k) /\ commit'[k] >= commit[k] /\ SameUpTo(log'[k], log[k], commit[k])
  <2>1. log'[k] = log[k] /\ log[k] \in Seq(LogEntry) /\ Len(log[k]) \in Nat /\ commit[k] \in Nat
    <3>1. log[k] \in Seq(LogEntry) /\ commit[k] \in Nat
      BY DEF TypeOK
    <3> QED BY <3>1, <1>1
  <2>2. SameUpTo(log'[k], log[k], commit[k]) /\ Len(log'[k]) >= Len(log[k])
    BY <2>1, <1>2, StableSame
  <2>3. MatchNext(k)
    BY <2>2, <1>1, <1>2, MatchKept
  <2> QED BY <2>1, <2>2, <2>3, <1>1, <1>2, CommitKept
<1>4. nextIndex[i] \in [Server -> Nat \ {0}] /\ "pump" \in Thread /\ role'[i] = "Leader"
      /\ log'[i] = log[i] /\ commit'[i] = commit[i]
  BY <1>1 DEF TypeOK, Thread
<1> QED BY <1>1, <1>3, <1>4, CommitBroadcast DEF Stable

LEMMA CommitElected ==
    ASSUME TypeOK, TypeOK', LedgerInv, LedgerInv', Grows, GrowsOwn, CommitInv,
           NEW i \in Server, NEW V, Elects(i, V)
    PROVE  CommitInv' /\ Stable
<1> DEFINE next == [j \in Server |-> IF j = i THEN 1 ELSE Len(log[i]) + 1]
<1>1. /\ BroadcastAppends(i, "pump", log[i], next, commit[i])
      /\ role' = [role EXCEPT ![i] = "Leader"] /\ UNCHANGED <<log, commit>>
      /\ matchIndex' = [matchIndex EXCEPT ![i] = NoMatch] /\ nextIndex' = [nextIndex EXCEPT ![i] = next]
      /\ \A k \in Server \ {i} : role'[k] = role[k] /\ term'[k] = term[k]
  BY DEF Elects, BecomeLeader
<1>2. CommitsBacked /\ MatchHeld
  BY DEF CommitInv
<1>3. /\ matchIndex \in [Server -> [Server -> Nat]] /\ nextIndex \in [Server -> [Server -> Nat \ {0}]]
      /\ role \in [Server -> {"Follower", "Candidate", "Leader"}] /\ "pump" \in Thread
  BY DEF TypeOK, Thread
<1>4. ASSUME NEW k \in Server
      PROVE  /\ log'[k] = log[k] /\ log[k] \in Seq(LogEntry) /\ Len(log[k]) \in Nat /\ commit[k] \in Nat
             /\ commit'[k] = commit[k] /\ SameUpTo(log'[k], log[k], commit[k]) /\ Len(log'[k]) >= Len(log[k])
  <2>1. log'[k] = log[k] /\ log[k] \in Seq(LogEntry) /\ Len(log[k]) \in Nat /\ commit[k] \in Nat
    <3>1. log[k] \in Seq(LogEntry) /\ commit[k] \in Nat
      BY DEF TypeOK
    <3> QED BY <3>1, <1>1
  <2> QED BY <2>1, <1>1, <1>2, StableSame
<1>5. next \in [Server -> Nat \ {0}] /\ \A j \in Server : next[j] - 1 <= Len(log[i])
  BY <1>4
<1> HIDE DEF next
<1>6. MatchNext(i)
  <2>1. matchIndex'[i] = NoMatch /\ nextIndex'[i] = next /\ log'[i] = log[i]
    BY <1>1, <1>3
  <2>2. ASSUME NEW j \in Server PROVE 0 <= held'[j][term'[i]]
    <3>1. term'[i] \in Term /\ held' \in [Server -> [Term -> Nat]]
      BY DEF LedgerInv, TermsBounded, Written, TrailTypes
    <3>2. held'[j][term'[i]] \in Nat
      BY <3>1
    <3> QED BY <3>2
  <2> QED BY <2>1, <2>2, <1>5 DEF MatchNext, NoMatch
<1>7. ASSUME NEW k \in Server, k # i PROVE MatchNext(k)
  <2>1. role'[k] = role[k] /\ term'[k] = term[k] /\ matchIndex'[k] = matchIndex[k] /\ nextIndex'[k] = nextIndex[k]
    BY <1>1, <1>3, <1>7
  <2> QED BY <2>1, <1>2, <1>4, MatchKept
<1>8. ASSUME NEW k \in Server PROVE CommitNext(k) /\ commit'[k] >= commit[k]
  BY <1>2, <1>4, CommitKept
<1>9. role'[i] = "Leader" /\ log'[i] = log[i] /\ commit'[i] = commit[i]
  BY <1>1, <1>3
<1>10. \A k \in Server : CommitNext(k) /\ MatchNext(k)
  BY <1>6, <1>7, <1>8
<1>11. CommitInv'
  BY <1>1, <1>3, <1>5, <1>9, <1>10, CommitBroadcast
<1> QED BY <1>4, <1>8, <1>11 DEF Stable

LEMMA CommitProposed ==
    ASSUME TypeOK, TypeOK', LedgerInv, LedgerInv', Grows, GrowsOwn, CommitInv,
           NEW i \in Server, NEW c \in Caller, NEW v \in Value, Propose(i, c, v)
    PROVE  CommitInv' /\ Stable
<1> DEFINE l == Append(log[i], [term |-> term[i], data |-> v])
<1>1. /\ role[i] = "Leader" /\ c \in Thread /\ UNCHANGED <<role, term, matchIndex, nextIndex>>
      /\ log' = [log EXCEPT ![i] = l]
      /\ l \in Seq(LogEntry) /\ log[i] \in Seq(LogEntry) /\ Len(l) = Len(log[i]) + 1
      /\ \A n \in 1 .. Len(log[i]) : l[n] = log[i][n]
      /\ nextIndex[i] \in [Server -> Nat \ {0}]
  BY ProposeFacts
<1>2. PICK n \in CommitCandidates(i, l) :
          /\ n \in Nat /\ AdvanceCommit(i, l, matchIndex[i], n)
          /\ commit' = [commit EXCEPT ![i] = n]
          /\ BroadcastAppends(i, c, l, nextIndex[i], n)
  BY ProposeFacts
<1>3. CommitsBacked /\ MatchHeld
  BY DEF CommitInv
<1>4. /\ log \in [Server -> Seq(LogEntry)] /\ commit \in [Server -> Nat] /\ matchIndex[i] \in [Server -> Nat]
      /\ term[i] \in Term /\ held \in [Server -> [Term -> Nat]] /\ held' \in [Server -> [Term -> Nat]]
  BY LedgerTypes DEF TypeOK, LedgerInv, Written, TrailTypes
<1> HIDE DEF l
<1>5. /\ log'[i] = l /\ commit'[i] = n /\ role'[i] = "Leader" /\ term'[i] = term[i]
      /\ \A k \in Server : k # i => log'[k] = log[k] /\ commit'[k] = commit[k]
  BY <1>1, <1>2, <1>4
<1>6. ASSUME NEW k \in Server PROVE SameUpTo(log'[k], log[k], commit[k]) /\ Len(log'[k]) >= Len(log[k])
  <2>1. log[k] \in Seq(LogEntry) /\ Len(log[k]) \in Nat
    <3>1. log[k] \in Seq(LogEntry)
      BY <1>4
    <3> QED BY <3>1
  <2>2. /\ \A h \in 1 .. Len(log[k]) : log'[k][h] = log[k][h]
        /\ Len(log'[k]) >= Len(log[k]) /\ Len(log'[k]) \in Nat
    <3>1. CASE k = i
      BY <3>1, <2>1, <1>1, <1>5
    <3>2. CASE k # i
      BY <3>2, <2>1, <1>5
    <3> QED BY <3>1, <3>2
  <2> QED BY <2>2, <1>3, StableSame
<1>7. matchIndex[i][i] = 0 /\ \A j \in Server : matchIndex[i][j] <= held'[j][term[i]]
  <2>1. matchIndex[i][i] = 0 /\ \A j \in Server : matchIndex[i][j] <= held[j][term[i]]
    BY <1>1, <1>3 DEF MatchHeld
  <2>2. ASSUME NEW j \in Server PROVE matchIndex[i][j] <= held'[j][term[i]]
    <3>1. /\ matchIndex[i][j] \in Nat /\ held[j][term[i]] \in Nat /\ held'[j][term[i]] \in Nat
          /\ held'[j][term[i]] >= held[j][term[i]] /\ matchIndex[i][j] <= held[j][term[i]]
      BY <2>1, <1>4 DEF Grows
    <3> QED BY <3>1
  <2> QED BY <2>1, <2>2
<1>8. CommitNext(i) /\ commit'[i] >= commit[i]
  BY <1>2, <1>3, <1>4, <1>5, <1>6, <1>7, Advanced
<1>9. ASSUME NEW k \in Server PROVE CommitNext(k) /\ MatchNext(k) /\ commit'[k] >= commit[k]
  <2>1. MatchNext(k)
    BY <1>1, <1>3, <1>6, MatchKept
  <2>2. CASE k = i
    BY <2>1, <2>2, <1>8
  <2>3. CASE k # i
    <3>1. commit'[k] = commit[k] /\ commit[k] \in Nat
      BY <2>3, <1>4, <1>5
    <3> QED BY <2>1, <3>1, <1>3, <1>6, CommitKept
  <2> QED BY <2>2, <2>3
<1>10. CommitInv'
  BY <1>1, <1>2, <1>5, <1>9, CommitBroadcast
<1> QED BY <1>6, <1>9, <1>10 DEF Stable

\* A node that accepts an append keeps what it has committed.
LEMMA AcceptStable ==
    ASSUME TypeOK, TypeOK', ElectionInv, LedgerInv, LedgerInv', OrderInv, VoteInv, CommitInv,
           NEW i \in Server, NEW j \in Peers(i), NEW m, m = Head(link[j][i]),
           HandleAppendEntries(i, j), Accepts(i, j, m)
    PROVE  commit[i] <= EndOf(m) /\ SameUpTo(log'[i], log[i], commit[i])
<1>1. /\ m.term \in Term /\ m.term \in Nat /\ m.term >= term[i]
      /\ log'[i] \in Seq(LogEntry) /\ Len(log'[i]) = EndOf(m) /\ EndOf(m) \in Nat
      /\ SameUpTo(log'[i], ledger[m.term], EndOf(m))
      /\ TermWon(m.term) /\ CutFrom(m, ledger[m.term], m.term)
  BY AcceptFacts
<1>2. held[i][m.term] <= EndOf(m)
  BY AcceptHolds
<1>3. commit[i] \in Nat /\ log[i] \in Seq(LogEntry) /\ commit[i] <= Len(log[i])
  BY CommitWithin DEF CommitInv
<1>4. /\ term[i] \in Nat /\ held \in [Server -> [Term -> Nat]]
      /\ \A t \in Term : t \in Nat /\ ledger[t] \in Seq(LogEntry) /\ Len(ledger[t]) \in Nat
  BY LedgerTypes
<1>5. CASE commit[i] = 0
  <2>1. SameUpTo(log'[i], log[i], 0)
    BY <1>1, <1>3 DEF SameUpTo
  <2> QED BY <2>1, <1>1, <1>5
<1>6. CASE commit[i] > 0
  <2>1. PICK t \in Term : /\ t <= term[i] /\ Backed(log[i], commit[i], t)
                          /\ t = term[i] => commit[i] <= held[i][t]
    BY <1>6 DEF CommitInv, CommitsBacked
  <2>2. PICK n \in Nat : commit[i] <= n /\ Chosen(t, n) /\ SameUpTo(log[i], ledger[t], commit[i])
    BY <2>1 DEF Backed
  <2>3. commit[i] <= EndOf(m) /\ SameUpTo(log'[i], ledger[t], commit[i])
    <3>1. CASE t < m.term
      <4>1. SameUpTo(ledger[m.term], ledger[t], n)
        BY <2>2, <3>1, <1>1, ChosenKept
      <4>2. Own(t, n) /\ t # m.term
        BY <2>2, <3>1, <1>1, <1>4 DEF Chosen
      <4>3. n <= EndOf(m)
        BY <4>1, <4>2, <1>1, CutKeeps
      <4>4. commit[i] <= EndOf(m)
        BY <4>3, <2>2, <1>1, <1>3
      <4>5. SameUpTo(ledger[m.term], ledger[t], commit[i])
        BY <4>1, <2>2, <1>1, <1>3, <1>4, SameLess
      <4>6. SameUpTo(log'[i], ledger[m.term], commit[i])
        BY <4>4, <1>1, <1>3, <1>4, SameLess
      <4> QED BY <4>4, <4>5, <4>6, SameTrans
    <3>2. CASE ~(t < m.term)
      <4>1. t = m.term /\ t = term[i]
        <5>1. t \in Nat /\ t <= term[i] /\ term[i] <= m.term /\ ~(t < m.term)
          BY <3>2, <2>1, <1>1, <1>4
        <5> QED BY <5>1, <1>1, <1>4
      <4>2. commit[i] <= held[i][m.term] /\ held[i][m.term] \in Nat
        BY <4>1, <2>1, <1>4
      <4>3. commit[i] <= EndOf(m)
        BY <4>2, <1>1, <1>2, <1>3
      <4>4. SameUpTo(log'[i], ledger[m.term], commit[i])
        BY <4>3, <1>1, <1>3, <1>4, SameLess
      <4> QED BY <4>1, <4>3, <4>4
    <3> QED BY <3>1, <3>2
  <2> QED BY <2>2, <2>3, SameBack, SameTrans
<1> QED BY <1>3, <1>5, <1>6

LEMMA CommitAccepted ==
    ASSUME TypeOK, TypeOK', ElectionInv, LedgerInv, LedgerInv', OrderInv, VoteInv, CommitInv, Grows, GrowsOwn,
           NEW i \in Server, NEW j \in Peers(i), HandleAppendEntries(i, j), Accepts(i, j, Head(link[j][i]))
    PROVE  CommitInv' /\ Stable
<1> DEFINE m == Head(link[j][i])
           known == IF m.leaderCommit < EndOf(m) THEN m.leaderCommit ELSE EndOf(m)
<1>1. /\ j \in Server /\ i # j /\ link[j][i] # <<>>
      /\ m \in AppendEntries /\ m \in Sent(link, unsent) /\ UNCHANGED <<unsent, ledger>>
      /\ m.term \in Term /\ m.term \in Nat /\ m.term >= term[i]
      /\ term'[i] = m.term /\ role'[i] = "Follower"
      /\ \A k \in Server \ {i} : role'[k] = role[k] /\ term'[k] = term[k] /\ log'[k] = log[k]
      /\ log'[i] \in Seq(LogEntry) /\ Len(log'[i]) = EndOf(m) /\ EndOf(m) \in Nat
      /\ SameUpTo(log'[i], ledger[m.term], EndOf(m))
      /\ held' \in [Server -> [Term -> Nat]]
  BY AcceptFacts
<1>2. held'[i][m.term] = EndOf(m)
  BY AcceptHolds
<1>3. commit[i] <= EndOf(m) /\ SameUpTo(log'[i], log[i], commit[i])
  BY AcceptStable
<1>4. PICK r \in AppendReply : ReplyTo(j, i, r) /\ r.success /\ r.term = m.term /\ r.matchIndex = Len(Spliced(m, log[i]))
  BY DEF Accepts
<1>5. /\ log' = [log EXCEPT ![i] = Spliced(m, log[i])]
      /\ commit' = [commit EXCEPT ![i] = IF m.leaderCommit > @
                                         THEN IF m.leaderCommit < Len(Spliced(m, log[i])) THEN m.leaderCommit
                                              ELSE Len(Spliced(m, log[i]))
                                         ELSE @]
  BY DEF Accepts
<1>6. /\ commit \in [Server -> Nat] /\ log \in [Server -> Seq(LogEntry)] /\ m.leaderCommit \in Nat
      /\ matchIndex \in [Server -> [Server -> Nat]] /\ nextIndex \in [Server -> [Server -> Nat \ {0}]]
      /\ \A t \in Term : t \in Nat /\ ledger[t] \in Seq(LogEntry) /\ Len(ledger[t]) \in Nat
  BY <1>1, LedgerTypes DEF AppendEntries, TypeOK
<1> HIDE DEF m
<1>7. log'[i] = Spliced(m, log[i]) /\ Len(Spliced(m, log[i])) = EndOf(m) /\ r.matchIndex = EndOf(m)
  BY <1>1, <1>4, <1>5, <1>6
<1>8. /\ commit'[i] = IF m.leaderCommit > commit[i] THEN known ELSE commit[i]
      /\ \A k \in Server : k # i => commit'[k] = commit[k]
  BY <1>5, <1>6, <1>7
<1>9. CommitsBacked /\ AppendsBacked /\ MatchHeld /\ RepliesHeld
  BY DEF CommitInv
<1>10. known \in Nat /\ known <= m.leaderCommit /\ known <= EndOf(m)
  <2>1. m.leaderCommit \in Nat /\ EndOf(m) \in Nat
    BY <1>1, <1>6
  <2>2. \A x, y \in Nat : LET z == IF x < y THEN x ELSE y IN z \in Nat /\ z <= x /\ z <= y
    OBVIOUS
  <2> QED BY <2>1, <2>2
<1>11. m.leaderCommit > commit[i] => known >= commit[i]
  <2>1. m.leaderCommit \in Nat /\ EndOf(m) \in Nat /\ commit[i] \in Nat
    BY <1>1, <1>6
  <2>2. \A x, y, c \in Nat : c <= y => (x > c => (IF x < y THEN x ELSE y) >= c)
    OBVIOUS
  <2> QED BY <2>1, <2>2, <1>3
<1> HIDE DEF known
<1>12. CommitNext(i)
  <2>1. CASE m.leaderCommit > commit[i]
    <3>1. commit'[i] = known
      BY <2>1, <1>8
    <3>2. m.leaderCommit > 0
      BY <2>1, <1>6
    <3>3. PICK t \in Term : t <= m.term /\ Backed(ledger[m.term], m.leaderCommit, t)
      BY <3>2, <1>1, <1>9 DEF AppendsBacked
    <3>4. PICK n \in Nat : /\ m.leaderCommit <= n /\ Chosen(t, n)
                           /\ SameUpTo(ledger[m.term], ledger[t], m.leaderCommit)
      BY <3>3 DEF Backed
    <3>5. SameUpTo(ledger[m.term], ledger[t], known)
      BY <3>4, <1>1, <1>6, <1>10, SameLess
    <3>6. SameUpTo(log'[i], ledger[m.term], known)
      BY <1>1, <1>6, <1>10, SameLess
    <3>7. SameUpTo(log'[i], ledger[t], known) /\ known <= n
      BY <3>4, <3>5, <3>6, <1>6, <1>10, SameTrans
    <3>8. Backed(log'[i], known, t)
      BY <3>4, <3>7 DEF Backed
    <3>9. BackedNext(log'[i], known, t)
      BY <3>8, <1>10, BackedGrows
    <3>10. t = m.term => known <= held'[i][t]
      BY <1>2, <1>10
    <3> QED BY <3>1, <3>3, <3>9, <3>10, <1>1 DEF CommitNext
  <2>2. CASE ~(m.leaderCommit > commit[i])
    BY <2>2, <1>3, <1>8, <1>9, CommitKept
  <2> QED BY <2>1, <2>2
<1>13. commit'[i] >= commit[i]
  <2>1. commit[i] \in Nat
    BY <1>6
  <2> QED BY <2>1, <1>8, <1>11
<1>14. ASSUME NEW k \in Server, k # i
       PROVE  CommitNext(k) /\ MatchNext(k) /\ commit'[k] >= commit[k] /\ SameUpTo(log'[k], log[k], commit[k])
  <2>1. log'[k] = log[k] /\ role'[k] = role[k] /\ term'[k] = term[k] /\ commit'[k] = commit[k] /\ commit[k] \in Nat
    BY <1>1, <1>6, <1>8, <1>14
  <2>2. log[k] \in Seq(LogEntry) /\ Len(log[k]) \in Nat
    <3>1. log[k] \in Seq(LogEntry)
      BY <1>6
    <3> QED BY <3>1
  <2>3. SameUpTo(log'[k], log[k], commit[k]) /\ Len(log'[k]) >= Len(log[k])
    BY <2>1, <2>2, <1>9, StableSame
  <2>4. matchIndex'[k] = matchIndex[k] /\ nextIndex'[k] = nextIndex[k]
    <3>1. BecomeFollower(i, Head(link[j][i]).term) \/ UNCHANGED <<matchIndex, nextIndex>>
      BY DEF HandleAppendEntries
    <3> QED BY <3>1, <1>6, <1>14 DEF BecomeFollower
  <2>5. MatchNext(k)
    BY <2>1, <2>3, <2>4, <1>9, MatchKept
  <2> QED BY <2>1, <2>3, <2>5, <1>9, CommitKept
<1>15. MatchNext(i)
  BY <1>1 DEF MatchNext
<1>16. ASSUME NEW a \in Sent(link', unsent') PROVE AppendNext(a)
  <2>1. a \in Sent(link, unsent)
    BY <1>1, <1>4, SentReceived
  <2> QED BY <2>1, <1>9, AppendKept
<1>17. ASSUME NEW k \in Server, NEW n \in Server, NEW a \in Carried(link'[k][n]) PROVE ReplyNext(k, a)
  <2>0. link[k][n] \in Seq(AppendMsg)
    BY DEF TypeOK
  <2>1. \/ link'[k][n] = link[k][n]
        \/ k = j /\ n = i /\ link'[k][n] = Tail(link[j][i])
        \/ k = i /\ n = j /\ link'[k][n] = Offer(link[i][j], r)
    BY <1>1, <1>4, RowsAnswered
  <2>2. a \in Carried(link[k][n]) \/ (k = i /\ a = r)
    <3>1. CASE link'[k][n] = link[k][n]
      BY <3>1, <1>17
    <3>2. CASE k = j /\ n = i /\ link'[k][n] = Tail(link[j][i])
      BY <3>2, <2>0, <1>1, <1>17, CarriedTaken
    <3>3. CASE k = i /\ n = j /\ link'[k][n] = Offer(link[i][j], r)
      BY <3>3, <2>0, <1>17, CarriedOffer
    <3> QED BY <2>1, <3>1, <3>2, <3>3
  <2>3. CASE a \in Carried(link[k][n])
    BY <2>3, <1>9, ReplyKept
  <2>4. CASE k = i /\ a = r
    <3>1. r.matchIndex <= held'[i][r.term]
      BY <1>1, <1>2, <1>4, <1>7
    <3> QED BY <2>4, <3>1 DEF ReplyNext
  <2> QED BY <2>2, <2>3, <2>4
<1>18. \A k \in Server : /\ CommitNext(k) /\ MatchNext(k) /\ commit'[k] >= commit[k]
                         /\ SameUpTo(log'[k], log[k], commit[k])
  BY <1>3, <1>12, <1>13, <1>14, <1>15
<1> QED BY <1>16, <1>17, <1>18, CommitInvNext DEF Stable

LEMMA CommitStep ==
    ASSUME TypeOK, TypeOK', ElectionInv, ElectionInv', LedgerInv, LedgerInv', OrderInv, VoteInv, CommitInv,
           [Next]_vars, [TakesFresh]_vars
    PROVE  CommitInv' /\ Stable
<1>1. Grows /\ GrowsOwn
  BY GrowsStep, GrowsOwnStep
<1>2. ASSUME NEW i \in Server, Heartbeat(i) PROVE CommitInv' /\ Stable
  BY <1>1, <1>2, CommitHeartbeat
<1>3. ASSUME NEW i \in Server, NEW V \in SUBSET Server, Elects(i, V) PROVE CommitInv' /\ Stable
  BY <1>1, <1>3, CommitElected
<1>4. ASSUME NEW i \in Server, NEW c \in Caller, NEW v \in Value, Propose(i, c, v) PROVE CommitInv' /\ Stable
  BY <1>1, <1>4, CommitProposed
<1>5. ASSUME NEW i \in Server, NEW j \in Peers(i), HandleAppendEntries(i, j), Accepts(i, j, Head(link[j][i]))
      PROVE  CommitInv' /\ Stable
  BY <1>1, <1>5, CommitAccepted
<1>6. CASE Quiet
  <2>1. CASE IndexStill
    BY <1>1, <1>6, <2>1, CommitQuiet
  <2>2. ASSUME NEW i \in Server, NEW j \in Peers(i), Counts(i, j) PROVE CommitInv' /\ Stable
    <3>1. Head(link[j][i]).success => Head(link[j][i]).term >= term[i]
      <4>1. CASE UNCHANGED vars
        <5>1. link' = link
          BY <4>1 DEF vars, netVars
        <5>2. link' = [link EXCEPT ![j][i] = Tail(@)] /\ link[j][i] # <<>> /\ j \in Server
          BY <2>2 DEF Counts, HandleAppendReply, Incoming, Peers
        <5>3. link \in [Server -> [Server -> Seq(AppendMsg)]]
          BY DEF TypeOK
        <5>4. link[j][i] = Tail(link[j][i]) /\ link[j][i] \in Seq(AppendMsg)
          BY <5>1, <5>2, <5>3
        <5>5. Len(Tail(link[j][i])) = Len(link[j][i]) - 1 /\ Len(link[j][i]) \in Nat
          BY <5>2, <5>4
        <5>6. Len(Tail(link[j][i])) = Len(link[j][i])
          BY <5>4
        <5>7. \A x \in Nat : x # x - 1
          OBVIOUS
        <5>8. FALSE
          BY <5>5, <5>6, <5>7
        <5> QED BY <5>8
      <4>2. CASE TakesFresh
        BY <2>2, <4>2 DEF TakesFresh, Counts
      <4> QED BY <4>1, <4>2
    <3> QED BY <1>1, <1>6, <2>2, <3>1, CommitCounted
  <2> QED BY <1>5, <1>6, <2>1, <2>2, IndexKinds
<1> QED BY <1>2, <1>3, <1>4, <1>5, <1>6, StepKinds

\* What a node commits was chosen in a term, and stays: the inductive invariant
\* of commit safety holds in every state, if appends are published in the order
\* in which they were computed (RaftDriver::send after the node lock is given up
\* does not see to it) and no leader takes a successful reply to an append of an
\* earlier term (handle_append_reply does not look).
THEOREM CommitInvariant == ASSUME PublishesInOrder PROVE Spec /\ FreshReplies => []CommitInv
<1>1. Init => CommitInv
  <2> SUFFICES ASSUME Init PROVE CommitInv
    OBVIOUS
  <2>1. /\ \A i \in Server : commit[i] = 0 /\ role[i] # "Leader"
        /\ \A i, j \in Server : link[i][j] = <<>>
        /\ \A i \in Server : \A th \in Thread : unsent[i][th] = {}
    BY DEF Init
  <2>2. ASSUME NEW m PROVE m \notin Sent(link, unsent)
    BY <2>1, SentWhere, EmptySeq DEF Carried
  <2>3. CommitsBacked
    BY <2>1 DEF CommitsBacked
  <2>4. AppendsBacked
    BY <2>2 DEF AppendsBacked
  <2>5. MatchHeld
    BY <2>1 DEF MatchHeld
  <2>6. RepliesHeld
    BY <2>1, EmptySeq DEF RepliesHeld, Carried
  <2> QED BY <2>3, <2>4, <2>5, <2>6 DEF CommitInv
<1>2. TypeOK /\ TypeOK' /\ ElectionInv /\ ElectionInv' /\ LedgerInv /\ LedgerInv' /\ OrderInv /\ VoteInv
          /\ CommitInv /\ [Next]_vars /\ [TakesFresh]_vars => CommitInv'
  BY CommitStep
<1> QED BY <1>1, <1>2, VoteInvariant, OrderInvariant, LedgerInvariant, ElectionInvariant, TypeCorrect, PTL
        DEF Spec, FreshReplies

---------------------------------------------------------------------------
(* The properties of the runs                                              *)

LEMMA ChosenWon ==
    ASSUME LedgerInv, NEW t \in Term, NEW n, Chosen(t, n)
    PROVE  TermWon(t)
<1>1. n \in 1 .. Len(ledger[t])
  BY DEF Chosen, Own
<1>2. ~TermWon(t) => ledger[t] = <<>>
  BY DEF LedgerInv, Written, LedgerTraced
<1>3. 1 .. Len(<<>>) = {}
  OBVIOUS
<1> QED BY <1>1, <1>2, <1>3

\* What a majority held in one term agrees with what one held in another.
LEMMA BackedAgree ==
    ASSUME TypeOK, ElectionInv, LedgerInv, VoteInv, NEW a \in Seq(LogEntry), NEW b \in Seq(LogEntry),
           NEW c \in Nat, NEW d \in Nat, c <= d, NEW t \in Term, NEW u \in Term,
           Backed(a, c, t), Backed(b, d, u)
    PROVE  SameUpTo(a, b, c)
<1>1. PICK n \in Nat : c <= n /\ Chosen(t, n) /\ SameUpTo(a, ledger[t], c)
  BY DEF Backed
<1>2. PICK k \in Nat : d <= k /\ Chosen(u, k) /\ SameUpTo(b, ledger[u], d)
  BY DEF Backed
<1>3. t \in Nat /\ u \in Nat /\ ledger[t] \in Seq(LogEntry) /\ ledger[u] \in Seq(LogEntry)
  BY LedgerTypes
<1>4. SameUpTo(ledger[u], b, c)
  BY <1>2, <1>3, SameLess, SameBack
<1>5. SameUpTo(ledger[t], ledger[u], c)
  <2>1. CASE t = u
    BY <2>1, <1>1, <1>4 DEF SameUpTo
  <2>2. CASE t < u
    <3>1. SameUpTo(ledger[u], ledger[t], n)
      BY <2>2, <1>1, <1>2, ChosenWon, ChosenKept
    <3> QED BY <3>1, <1>1, <1>3, SameLess, SameBack
  <2>3. CASE u < t
    <3>1. SameUpTo(ledger[t], ledger[u], k)
      BY <2>3, <1>1, <1>2, ChosenWon, ChosenKept
    <3>2. c <= k
      BY <1>2
    <3> QED BY <3>1, <3>2, <1>3, SameLess
  <2>4. t = u \/ t < u \/ u < t
    BY <1>3
  <2> QED BY <2>1, <2>2, <2>3, <2>4
<1> QED BY <1>1, <1>4, <1>5, SameTrans

\* A leader has what was chosen in its term or before.
LEMMA LeaderHas ==
    ASSUME TypeOK, ElectionInv, LedgerInv, VoteInv, NEW a \in Seq(LogEntry), NEW c \in Nat,
           NEW j \in Server, role[j] = "Leader", NEW t \in Term, t <= term[j], Backed(a, c, t)
    PROVE  SameUpTo(a, log[j], c)
<1>1. PICK n \in Nat : c <= n /\ Chosen(t, n) /\ SameUpTo(a, ledger[t], c)
  BY DEF Backed
<1>2. /\ t \in Nat /\ term[j] \in Term /\ term[j] \in Nat
      /\ ledger[t] \in Seq(LogEntry) /\ ledger[term[j]] \in Seq(LogEntry)
  BY LedgerTypes
<1>3. log[j] = ledger[term[j]]
  BY DEF LedgerInv, Written, LeadersWrite
<1>4. CASE t = term[j]
  BY <1>1, <1>3, <1>4
<1>5. CASE t < term[j]
  <2>1. TermWon(term[j])
    BY DEF ElectionInv, LeadersWon, Won, TermWon
  <2>2. SameUpTo(ledger[term[j]], ledger[t], n)
    BY <2>1, <1>1, <1>2, <1>5, ChosenKept
  <2>3. SameUpTo(ledger[t], log[j], c)
    BY <2>2, <1>1, <1>2, <1>3, SameLess, SameBack
  <2> QED BY <2>3, <1>1, SameTrans
<1> QED BY <1>2, <1>4, <1>5

\* Leader Completeness, under the conditions of CommitInvariant: whoever leads
\* has in its log everything that a node of its term or an older one has
\* committed, in the same place.
THEOREM LeadersComplete == ASSUME PublishesInOrder PROVE Spec /\ FreshReplies => []LeaderCompleteness
<1>1. ASSUME TypeOK, ElectionInv, LedgerInv, VoteInv, CommitInv PROVE LeaderCompleteness
  <2> SUFFICES ASSUME NEW i \in Server, NEW j \in Server, role[j] = "Leader", term[i] <= term[j]
               PROVE  /\ commit[i] <= Len(log[j])
                      /\ SubSeq(log[i], 1, commit[i]) = SubSeq(log[j], 1, commit[i])
    BY DEF LeaderCompleteness
  <2>1. commit[i] \in Nat /\ log[i] \in Seq(LogEntry) /\ log[j] \in Seq(LogEntry)
    BY <1>1 DEF TypeOK
  <2>2. SameUpTo(log[i], log[j], commit[i])
    <3>1. CASE commit[i] = 0
      <4>1. Len(log[i]) \in Nat /\ Len(log[j]) \in Nat
        BY <2>1
      <4> QED BY <3>1, <4>1 DEF SameUpTo
    <3>2. CASE commit[i] > 0
      <4>1. PICK t \in Term : t <= term[i] /\ Backed(log[i], commit[i], t)
        BY <1>1, <3>2 DEF CommitInv, CommitsBacked
      <4>2. t \in Nat /\ term[i] \in Nat /\ term[j] \in Nat
        BY <1>1, LedgerTypes
      <4>3. t <= term[j]
        BY <4>1, <4>2
      <4> QED BY <1>1, <2>1, <4>1, <4>3, LeaderHas
    <3> QED BY <2>1, <3>1, <3>2
  <2>3. commit[i] <= Len(log[j])
    BY <2>2 DEF SameUpTo
  <2> QED BY <2>1, <2>2, <2>3, SameSub
<1> QED BY <1>1, CommitInvariant, VoteInvariant, LedgerInvariant, ElectionInvariant, TypeCorrect, PTL

\* State Machine Safety, under the same conditions: no node indexes its log out
\* of bounds (committed(), broadcast_appends), and what any two nodes have
\* committed is the same, up to the shorter of the two.
THEOREM CommitsAgree == ASSUME PublishesInOrder PROVE Spec /\ FreshReplies => []CommitsHold
<1>1. ASSUME TypeOK, CommitInv PROVE IndexesWithinLog
  <2>1. CommitsBacked /\ MatchHeld
    BY <1>1 DEF CommitInv
  <2>2. ASSUME NEW i \in Server PROVE commit[i] <= Len(log[i])
    BY <1>1, <2>1, CommitWithin
  <2>3. ASSUME NEW i \in Server, role[i] = "Leader" PROVE CanBroadcast(i, log[i], nextIndex[i])
    BY <2>1, <2>3 DEF MatchHeld, CanBroadcast, Peers
  <2> QED BY <2>2, <2>3 DEF IndexesWithinLog
<1>2. ASSUME TypeOK, ElectionInv, LedgerInv, VoteInv, CommitInv PROVE CommittedAgree
  <2> SUFFICES ASSUME NEW i \in Server, NEW j \in Server, commit[i] <= commit[j]
               PROVE  SubSeq(log[i], 1, commit[i]) = SubSeq(log[j], 1, commit[i])
    BY DEF CommittedAgree
  <2>1. commit[i] \in Nat /\ commit[j] \in Nat /\ log[i] \in Seq(LogEntry) /\ log[j] \in Seq(LogEntry)
    BY <1>2 DEF TypeOK
  <2>2. SameUpTo(log[i], log[j], commit[i])
    <3>1. CASE commit[i] = 0
      <4>1. Len(log[i]) \in Nat /\ Len(log[j]) \in Nat
        BY <2>1
      <4> QED BY <3>1, <4>1 DEF SameUpTo
    <3>2. CASE commit[i] > 0
      <4>1. CommitsBacked /\ commit[j] > 0
        BY <1>2, <2>1, <3>2 DEF CommitInv
      <4>2. PICK t \in Term : Backed(log[i], commit[i], t)
        BY <3>2, <4>1 DEF CommitsBacked
      <4>3. PICK u \in Term : Backed(log[j], commit[j], u)
        BY <4>1 DEF CommitsBacked
      <4> QED BY <1>2, <2>1, <4>2, <4>3, BackedAgree
    <3> QED BY <2>1, <3>1, <3>2
  <2> QED BY <2>1, <2>2, SameSub
<1>3. TypeOK /\ ElectionInv /\ LedgerInv /\ VoteInv /\ CommitInv => CommitsHold
  BY <1>1, <1>2 DEF CommitsHold
<1> QED BY <1>3, CommitInvariant, VoteInvariant, LedgerInvariant, ElectionInvariant, TypeCorrect, PTL

\* Under the same conditions no step takes back what was committed: no node's
\* term or commit index goes down, and no append that handle_append_entries
\* splices in, however late, cuts or changes a committed entry.
THEOREM CommitsStay == ASSUME PublishesInOrder PROVE Spec /\ FreshReplies => CommittedStable
<1> DEFINE Keeps == \A i \in Server :
                       /\ term'[i] >= term[i]
                       /\ commit'[i] >= commit[i]
                       /\ commit[i] <= Len(log'[i])
                       /\ SubSeq(log'[i], 1, commit[i]) = SubSeq(log[i], 1, commit[i])
<1>1. ASSUME TypeOK, TypeOK', ElectionInv, ElectionInv', LedgerInv, LedgerInv', OrderInv, VoteInv, CommitInv,
             [Next]_vars, [TakesFresh]_vars
      PROVE  Keeps
  <2>1. Stable
    BY <1>1, CommitStep
  <2>2. GrowsOwn
    BY <1>1, GrowsOwnStep
  <2> SUFFICES ASSUME NEW i \in Server
               PROVE  /\ term'[i] >= term[i]
                      /\ commit'[i] >= commit[i]
                      /\ commit[i] <= Len(log'[i])
                      /\ SubSeq(log'[i], 1, commit[i]) = SubSeq(log[i], 1, commit[i])
    OBVIOUS
  <2>3. commit[i] \in Nat /\ log[i] \in Seq(LogEntry) /\ log'[i] \in Seq(LogEntry)
    BY <1>1 DEF TypeOK
  <2>4. commit'[i] >= commit[i] /\ SameUpTo(log'[i], log[i], commit[i])
    BY <2>1 DEF Stable
  <2>5. commit[i] <= Len(log'[i])
    BY <2>4 DEF SameUpTo
  <2>6. SubSeq(log'[i], 1, commit[i]) = SubSeq(log[i], 1, commit[i])
    BY <2>3, <2>4, SameSub
  <2>7. term'[i] >= term[i]
    BY <2>2 DEF GrowsOwn
  <2> QED BY <2>4, <2>5, <2>6, <2>7
<1>2. TypeOK /\ TypeOK' /\ ElectionInv /\ ElectionInv' /\ LedgerInv /\ LedgerInv' /\ OrderInv /\ VoteInv
          /\ CommitInv /\ [Next]_vars /\ [TakesFresh]_vars => [Keeps]_vars
  BY <1>1
<1> HIDE DEF Keeps
<1>3. Spec /\ FreshReplies => [][Keeps]_vars
  BY <1>2, CommitInvariant, VoteInvariant, OrderInvariant, LedgerInvariant, ElectionInvariant, TypeCorrect, PTL
     DEF Spec, FreshReplies
<1> QED BY <1>3 DEF CommittedStable, Keeps
===========================================================================
