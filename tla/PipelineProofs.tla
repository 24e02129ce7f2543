--------------------------- MODULE PipelineProofs ---------------------------
(***************************************************************************)
(* Proofs about Pipeline, for every log, capacity and number of ends.      *)
(*                                                                         *)
(* TiersAgree: the two tiers, each with what it still holds in memory,     *)
(* grow by the same event in the one step that consumes a frame; a commit  *)
(* and a rollover each move events from memory to disk, at their own pace. *)
(* A clean stop commits first and rolls last, so when memory goes there is *)
(* nothing left in it that the other tier has.  Nothing is assumed of what *)
(* an event is.                                                            *)
(*                                                                         *)
(* LinesHold and Accounted: the file is a piece of the log, and all that   *)
(* is behind the offset and the checkpoint is of later lines than what was *)
(* read; after a rotation so is all of the file.  A poll cuts at the       *)
(* newlines behind the offset, in their order, and behind a line's end it  *)
(* leaves out only blank lines.                                            *)
(***************************************************************************)
EXTENDS Pipeline, SequenceTheorems, FiniteSetTheorems, WellFoundedInduction, TLAPS

---------------------------------------------------------------------------
(* Tiers                                                                   *)

\* The tiers, their memory and the channel are sequences of events.
TierTypes == \E E : /\ hot \in Seq(E) /\ fresh \in Seq(E)
                    /\ cold \in Seq(E) /\ buffer \in Seq(E)
                    /\ chan \in Seq(E)

Counts == crashes \in Nat /\ torn \in Nat

\* What is in memory when the loop has left, and when the process has ended.
StoppedEmpty ==
    /\ node = "stopping" => fresh = <<>>
    /\ node = "down" => fresh = <<>> /\ buffer = <<>>

SameEvents == crashes + torn = 0 => hot \o fresh = cold \o buffer

\* The inductive invariant.
TierInv == TierTypes /\ Counts /\ StoppedEmpty /\ SameEvents

---------------------------------------------------------------------------
(* Sequences whose elements are not known                                  *)

\* A sequence over E is one over any larger set.
LEMMA SeqGrows == ASSUME NEW E, NEW F, E \subseteq F, NEW s \in Seq(E) PROVE s \in Seq(F)
  OBVIOUS

\* Adding an event to memory adds it to the tier with its memory.
LEMMA AddedBehind ==
    ASSUME NEW E, NEW s \in Seq(E), NEW t \in Seq(E), NEW x \in E
    PROVE  s \o Append(t, x) = Append(s \o t, x)
  OBVIOUS

\* Moving all of memory to disk leaves the tier with its memory as it was.
LEMMA Moved ==
    ASSUME NEW E, NEW s \in Seq(E), NEW t \in Seq(E)
    PROVE  /\ (s \o t) \o <<>> = s \o t
           /\ s \o t \in Seq(E) /\ <<>> \in Seq(E) /\ s \o <<>> = s
  BY ConcatEmptySeq
---------------------------------------------------------------------------
(* The invariant                                                           *)

\* A new node has nothing anywhere.
LEMMA TierInitial == Init => TierInv
<1> SUFFICES ASSUME Init PROVE TierInv
  OBVIOUS
<1>1. TierTypes
  <2>1. hot \in Seq({}) /\ fresh \in Seq({}) /\ cold \in Seq({}) /\ buffer \in Seq({}) /\ chan \in Seq({})
    BY DEF Init
  <2> QED
    BY <2>1 DEF TierTypes
<1> QED
  BY <1>1 DEF Init, TierInv, Counts, StoppedEmpty, SameEvents

\* The writer and the tailer do not touch the tiers, and a start finds their
\* memory empty.
LEMMA TierOutside ==
    ASSUME TierInv, Write \/ Rotate \/ Poll \/ Send \/ Start
    PROVE  TierInv'
<1>1. UNCHANGED <<hot, fresh, cold, buffer, crashes, torn>> /\ (node' = node \/ node' = "up")
  BY DEF Write, Rotate, Poll, Send, Start, disk, memory, counters
<1>2. TierTypes'
  <2> PICK E : hot \in Seq(E) /\ fresh \in Seq(E) /\ cold \in Seq(E) /\ buffer \in Seq(E) /\ chan \in Seq(E)
    BY DEF TierInv, TierTypes
  <2> DEFINE x == Head(batch)  F == E \cup {x}
  <2>1. chan' = chan \/ chan' = Append(chan, x)
    BY DEF Write, Rotate, Poll, Send, Start, disk, memory, counters
  <2>2. E \subseteq F /\ x \in F
    OBVIOUS
  <2> HIDE DEF x, F
  <2>3. hot \in Seq(F) /\ fresh \in Seq(F) /\ cold \in Seq(F) /\ buffer \in Seq(F) /\ chan \in Seq(F)
    BY <2>2, SeqGrows
  <2>4. Append(chan, x) \in Seq(F)
    BY <2>2, <2>3
  <2>5. chan' \in Seq(F)
    BY <2>1, <2>3, <2>4
  <2> QED
    BY <2>3, <2>5, <1>1 DEF TierTypes
<1>3. CASE node' = node
  BY <1>1, <1>2, <1>3 DEF TierInv, Counts, StoppedEmpty, SameEvents
<1>4. CASE node' = "up"
  BY <1>1, <1>2, <1>4 DEF TierInv, Counts, StoppedEmpty, SameEvents
<1> QED
  BY <1>1, <1>3, <1>4

\* A frame's event is added to the memory of both tiers, and a full buffer
\* moves to the cold one.
LEMMA TierConsume == ASSUME TierInv, Consume PROVE TierInv'
<1> PICK E : hot \in Seq(E) /\ fresh \in Seq(E) /\ cold \in Seq(E) /\ buffer \in Seq(E) /\ chan \in Seq(E)
  BY DEF TierInv, TierTypes
<1> DEFINE x == Head(chan)  full == Append(buffer, x)
<1>1. /\ node = "up" /\ chan # <<>> /\ chan' = Tail(chan) /\ fresh' = Append(fresh, x)
      /\ \/ cold' = cold \o full /\ buffer' = <<>>
         \/ buffer' = full /\ cold' = cold
      /\ UNCHANGED <<hot, node, crashes, torn>>
  BY DEF Consume, Push, counters
<1>2. x \in E /\ Tail(chan) \in Seq(E)
  BY <1>1
<1>3. full \in Seq(E) /\ fresh' \in Seq(E) /\ <<>> \in Seq(E)
  BY <1>1, <1>2
<1> HIDE DEF x
<1>4. hot \o Append(fresh, x) = Append(hot \o fresh, x) /\ cold \o Append(buffer, x) = Append(cold \o buffer, x)
  <2>1. hot \o Append(fresh, x) = Append(hot \o fresh, x)
    BY <1>2, AddedBehind
  <2>2. cold \o Append(buffer, x) = Append(cold \o buffer, x)
    BY <1>2, AddedBehind
  <2> QED
    BY <2>1, <2>2
<1>5. hot \o fresh' = Append(hot \o fresh, x) /\ cold \o full = Append(cold \o buffer, x)
  BY <1>1, <1>4
<1> HIDE DEF full
<1>6. cold' \o buffer' = cold \o full /\ cold' \in Seq(E) /\ buffer' \in Seq(E)
  <2>1. (cold \o full) \o <<>> = cold \o full /\ cold \o full \in Seq(E)
    BY <1>3, Moved
  <2> QED
    BY <2>1, <1>1, <1>3
<1>7. TierTypes'
  BY <1>1, <1>2, <1>3, <1>6 DEF TierTypes
<1>8. SameEvents'
  BY <1>1, <1>5, <1>6 DEF TierInv, SameEvents
<1> QED
  BY <1>1, <1>7, <1>8 DEF TierInv, Counts, StoppedEmpty

\* A commit moves the uncommitted events into the hot index; Ctrl-C does so
\* when it leaves the loop.
LEMMA TierCommit == ASSUME TierInv, Commit \/ Interrupt PROVE TierInv'
<1> PICK E : hot \in Seq(E) /\ fresh \in Seq(E) /\ cold \in Seq(E) /\ buffer \in Seq(E) /\ chan \in Seq(E)
  BY DEF TierInv, TierTypes
<1>1. /\ hot' = hot \o fresh /\ fresh' = <<>> /\ node = "up" /\ node' \in {"up", "stopping"}
      /\ UNCHANGED <<cold, buffer, chan, crashes, torn>>
  BY DEF Commit, Interrupt, counters
<1>2. hot' \o fresh' = hot \o fresh /\ hot' \in Seq(E) /\ fresh' \in Seq(E)
  BY <1>1, Moved
<1>3. TierTypes'
  BY <1>1, <1>2 DEF TierTypes
<1>4. SameEvents'
  BY <1>1, <1>2 DEF TierInv, SameEvents
<1> QED
  BY <1>1, <1>3, <1>4 DEF TierInv, Counts, StoppedEmpty

\* A rollover moves the buffer into a segment.
LEMMA TierRoll == ASSUME TierInv, Roll PROVE TierInv'
<1> PICK E : hot \in Seq(E) /\ fresh \in Seq(E) /\ cold \in Seq(E) /\ buffer \in Seq(E) /\ chan \in Seq(E)
  BY DEF TierInv, TierTypes
<1>1. /\ cold' = cold \o buffer /\ buffer' = <<>> /\ node = "up"
      /\ UNCHANGED <<hot, fresh, chan, node, crashes, torn>>
  BY DEF Roll, counters
<1>2. cold' \o buffer' = cold \o buffer /\ cold' \in Seq(E) /\ buffer' \in Seq(E)
  BY <1>1, Moved
<1>3. TierTypes'
  BY <1>1, <1>2 DEF TierTypes
<1>4. SameEvents'
  BY <1>1, <1>2 DEF TierInv, SameEvents
<1> QED
  BY <1>1, <1>3, <1>4 DEF TierInv, Counts, StoppedEmpty

\* The last roll of a clean stop leaves memory with nothing to lose.
LEMMA TierExit == ASSUME TierInv, Exit PROVE TierInv'
<1> PICK E : hot \in Seq(E) /\ fresh \in Seq(E) /\ cold \in Seq(E) /\ buffer \in Seq(E) /\ chan \in Seq(E)
  BY DEF TierInv, TierTypes
<1>1. /\ cold' = cold \o buffer /\ buffer' = <<>> /\ fresh' = <<>> /\ chan' = <<>>
      /\ fresh = <<>> /\ node' = "down" /\ UNCHANGED <<hot, crashes, torn>>
  BY DEF Exit, LoseMemory, TierInv, StoppedEmpty, counters
<1>2. /\ cold' \o buffer' = cold \o buffer /\ hot' \o fresh' = hot \o fresh
      /\ cold' \in Seq(E) /\ <<>> \in Seq(E)
  BY <1>1, Moved
<1>3. TierTypes'
  BY <1>1, <1>2 DEF TierTypes
<1>4. SameEvents'
  BY <1>1, <1>2 DEF TierInv, SameEvents
<1> QED
  BY <1>1, <1>3, <1>4 DEF TierInv, Counts, StoppedEmpty

\* After a crash nothing more is claimed of the tiers than their types.
LEMMA TierCrash == ASSUME TierInv, Crash \/ Tear PROVE TierInv'
<1> PICK E : hot \in Seq(E) /\ fresh \in Seq(E) /\ cold \in Seq(E) /\ buffer \in Seq(E) /\ chan \in Seq(E)
  BY DEF TierInv, TierTypes
<1>1. /\ buffer' = <<>> /\ fresh' = <<>> /\ chan' = <<>> /\ UNCHANGED <<hot, cold>>
      /\ node' = "down"
      /\ \/ crashes' = crashes + 1 /\ torn' = torn
         \/ torn' = torn + 1 /\ crashes' = crashes
  BY DEF Crash, Tear, LoseMemory, disk
<1>2. Counts' /\ crashes' + torn' # 0
  BY <1>1 DEF TierInv, Counts
<1>3. <<>> \in Seq(E)
  OBVIOUS
<1>4. TierTypes'
  BY <1>1, <1>3 DEF TierTypes
<1> QED
  BY <1>1, <1>2, <1>4 DEF TierInv, StoppedEmpty, SameEvents

\* Every step keeps the invariant.
LEMMA TierStep == TierInv /\ [Next]_vars => TierInv'
<1> SUFFICES ASSUME TierInv, [Next]_vars PROVE TierInv'
  OBVIOUS
<1>1. CASE Write \/ Rotate \/ Poll \/ Send \/ Start
  BY <1>1, TierOutside
<1>2. CASE Consume
  BY <1>2, TierConsume
<1>3. CASE Commit \/ Interrupt
  BY <1>3, TierCommit
<1>4. CASE Roll
  BY <1>4, TierRoll
<1>5. CASE Exit
  BY <1>5, TierExit
<1>6. CASE Crash \/ Tear
  BY <1>6, TierCrash
<1>7. CASE UNCHANGED vars
  BY <1>7 DEF vars, disk, memory, counters, TierInv, TierTypes, Counts, StoppedEmpty, SameEvents
<1> QED
  BY <1>1, <1>2, <1>3, <1>4, <1>5, <1>6, <1>7 DEF Next

\* In every state without a crash behind it the hot index with its uncommitted
\* events is the segments with the buffer, and a node that ended has lost
\* nothing of either.
THEOREM TierInvariant == Spec => []TierInv
  BY TierInitial, TierStep, PTL DEF Spec

\* The run loop's tiers: a node that only ever stops by Ctrl-C has every event
\* in both of them, in the same order, whatever the ticks did.
THEOREM TiersAlways == Spec => []TiersAgree
<1>1. TierInv => TiersAgree
  <2> SUFFICES ASSUME TierInv, crashes + torn = 0
               PROVE  hot \o fresh = cold \o buffer /\ (node = "down" => hot = cold)
    BY DEF TiersAgree
  <2> PICK E : hot \in Seq(E) /\ fresh \in Seq(E) /\ cold \in Seq(E) /\ buffer \in Seq(E) /\ chan \in Seq(E)
    BY DEF TierInv, TierTypes
  <2>1. hot \o fresh = cold \o buffer
    BY DEF TierInv, SameEvents
  <2>2. hot \o <<>> = hot /\ cold \o <<>> = cold
    BY Moved
  <2> QED
    BY <2>1, <2>2 DEF TierInv, StoppedEmpty
<1> QED
  BY <1>1, TierInvariant, PTL

---------------------------------------------------------------------------
(* Lines                                                                   *)

Byte == {b \in Line \X (Nat \ {0}) : b[2] <= Size[b[1]]}
Frame == [line : Line, from : Nat]
Frames == hot \o InFlight

LineTypes ==
    /\ file \in Seq(Byte)
    /\ next \in (Nat \ {0}) \X (Nat \ {0})
    /\ next[1] \in Line => next \in Byte
    /\ node \in {"up", "stopping", "down"}
    /\ ckpt \in Nat /\ offset \in Nat
    /\ hot \in Seq(Frame) /\ fresh \in Seq(Frame) /\ chan \in Seq(Frame) /\ batch \in Seq(Frame)
    /\ stops \in Nat /\ crashes \in Nat /\ torn \in Nat /\ unsaved \in Nat /\ rotations \in Nat

\* The byte a comes before b in the log, and directly before it.
Before(x, y) == x[1] < y[1] \/ (x[1] = y[1] /\ x[2] < y[2])
Follows(x, y) == IF y[2] = 1 THEN IsNewline(x) ELSE x = <<y[1], y[2] - 1>>

\* The file is a piece of the log that begins with a line and ends before the
\* next byte.
FileIsLog ==
    /\ \A i, j \in 1 .. Len(file) : i < j => Before(file[i], file[j])
    /\ \A i \in 1 .. Len(file) : Before(file[i], next)
    /\ \A i \in 1 .. Len(file) : i > 1 => Follows(file[i - 1], file[i])
    /\ IF file = <<>> THEN next[2] = 1 ELSE file[1][2] = 1 /\ Follows(file[Len(file)], next)

\* Without rotations an offset is behind a newline, and a frame a whole line.
Boundary(off) == off <= Len(file) /\ (off > 0 => IsNewline(file[off]))
Whole == rotations = 0 =>
    Boundary(ckpt) /\ Boundary(offset) /\ \A f \in Range(Frames) : f.from = 1

\* What a poll at the offset off will read comes after all that was read.
Floor(off) == IF Len(file) < off THEN 0 ELSE off
Ahead(off) == \A f \in Range(Frames) : \A i \in Floor(off) + 1 .. Len(file) : f.line < file[i][1]
FramesWritten == \A f \in Range(Frames) : f.line < next[1]

Saved == unsaved + torn = 0
Unended == stops + crashes + torn = 0

Sequenced ==
    /\ Saved \/ Unended => InSequence(Frames) /\ (node # "down" => Ahead(offset))
    /\ Saved => Ahead(ckpt)
    /\ Unended => node = "up"

AllRead == Unended /\ rotations = 0 =>
    /\ Range(Frames) = {[line |-> l, from |-> 1] : l \in LinesWithin(offset)}
    /\ unsaved = 0 => ckpt = offset

\* The inductive invariant.
LineInv == LineTypes /\ FileIsLog /\ Whole /\ FramesWritten /\ Sequenced /\ AllRead

---------------------------------------------------------------------------
(* Sets of numbers and their order                                         *)

LEMMA LeastNumber ==
    ASSUME NEW S \in SUBSET Nat, S # {}
    PROVE  \E u \in S : \A s \in S : ~(s < u)
<1> DEFINE R == {p \in Nat \X Nat : p[1] < p[2]}
<1>1. \E u \in S : \A s \in S : <<s, u>> \notin R
  <2>1. IsWellFoundedOn(R, Nat)
    BY NatLessThanWellFounded DEF OpToRel
  <2> HIDE DEF R
  <2> QED BY <2>1, WFMin
<1> QED BY <1>1

\* The least bound of a set is its greatest element.
LEMMA GreatestNumber ==
    ASSUME NEW n \in Nat, NEW S \in SUBSET (0 .. n), S # {}
    PROVE  \E x \in S : \A y \in S : x >= y
<1> DEFINE B == {k \in Nat : \A y \in S : y <= k}
<1>1. n \in B /\ B \in SUBSET Nat
  OBVIOUS
<1>2. PICK u \in B : \A k \in B : ~(k < u)
  BY <1>1, LeastNumber
<1>3. u \in Nat /\ \A y \in S : y \in Nat /\ y <= u
  OBVIOUS
<1>4. u \in S
  <2> SUFFICES ASSUME u \notin S PROVE FALSE
    OBVIOUS
  <2>1. \A y \in S : y <= u - 1 /\ y \in Nat
    BY <1>3
  <2>2. u - 1 \in Nat
    <3>1. PICK y \in S : TRUE
      OBVIOUS
    <3>2. y \in Nat /\ y <= u - 1 /\ u \in Nat
      BY <2>1, <1>3
    <3> QED BY <3>2
  <2>3. u - 1 \in B
    BY <2>1, <2>2
  <2> QED BY <2>3, <1>2, <1>3
<1> QED BY <1>3, <1>4

LEMMA MaxOf ==
    ASSUME NEW n \in Nat, NEW S \in SUBSET (0 .. n), S # {}
    PROVE  Max(S) \in S /\ \A y \in S : Max(S) >= y
BY GreatestNumber DEF Max

LEMMA SmallSet ==
    ASSUME NEW n \in Nat, NEW S \in SUBSET (0 .. n)
    PROVE  IsFiniteSet(S) /\ Cardinality(S) \in Nat /\ \A x \in S : x \in Nat
<1>1. IsFiniteSet(0 .. n)
  BY FS_Interval
<1>2. IsFiniteSet(S)
  BY <1>1, FS_Subset
<1> QED BY <1>2, FS_CardinalityType

\* The sequence s has the elements of S in their order.
Rises(s, S) == s \in [1 .. Cardinality(S) -> S] /\ \A i, j \in DOMAIN s : i < j => s[i] < s[j]

\* Every finite set of numbers has such a sequence: a smallest one that had none
\* would have one without its greatest element.
LEMMA RisingExists ==
    ASSUME NEW n \in Nat, NEW S \in SUBSET (0 .. n)
    PROVE  \E s : Rises(s, S)
<1> DEFINE N == {k \in Nat : \E T \in SUBSET (0 .. n) : IsFiniteSet(T) /\ Cardinality(T) = k /\ ~\E s : Rises(s, T)}
<1>1. \A T \in SUBSET (0 .. n) : IsFiniteSet(T) /\ Cardinality(T) \in Nat
  BY SmallSet
<1> SUFFICES ASSUME N # {} PROVE FALSE
  BY <1>1
<1>2. N \in SUBSET Nat
  OBVIOUS
<1>3. PICK k \in N : \A m \in N : ~(m < k)
  BY <1>2, LeastNumber
<1>4. PICK T \in SUBSET (0 .. n) : IsFiniteSet(T) /\ Cardinality(T) = k /\ ~\E s : Rises(s, T)
  OBVIOUS
<1>5. T # {}
  <2> SUFFICES ASSUME T = {} PROVE FALSE
    OBVIOUS
  <2>1. Cardinality(T) = 0
    BY FS_EmptySet
  <2>2. Rises([i \in 1 .. 0 |-> 0], T)
    BY <2>1 DEF Rises
  <2> QED BY <2>2, <1>4
<1>6. PICK x \in T : \A y \in T : x >= y
  BY <1>5, GreatestNumber
<1> DEFINE U == T \ {x}
<1>7. U \in SUBSET (0 .. n) /\ IsFiniteSet(U) /\ Cardinality(U) = k - 1 /\ k \in Nat /\ k - 1 \in Nat
  <2>1. Cardinality(U) = k - 1 /\ IsFiniteSet(U)
    BY <1>4, <1>6, FS_RemoveElement
  <2>2. Cardinality(U) \in Nat
    BY <2>1, FS_CardinalityType
  <2> QED BY <2>1, <2>2
<1>8. \E s : Rises(s, U)
  <2>1. k - 1 \notin N
    BY <1>3, <1>7
  <2> HIDE DEF U
  <2> QED BY <2>1, <1>7
<1>9. PICK s : Rises(s, U)
  BY <1>8
<1> DEFINE r == [i \in 1 .. k |-> IF i = k THEN x ELSE s[i]]
<1>10. s \in [1 .. k - 1 -> U] /\ \A i, j \in 1 .. k - 1 : i < j => s[i] < s[j]
  BY <1>7, <1>9 DEF Rises
<1>11. \A i \in 1 .. k : i # k => i \in 1 .. k - 1
  BY <1>7
<1>12. r \in [1 .. k -> T]
  BY <1>6, <1>10, <1>11
<1>13. ASSUME NEW i \in 1 .. k, NEW j \in 1 .. k, i < j PROVE r[i] < r[j]
  <2>1. i \in 1 .. k - 1 /\ r[i] = s[i] /\ s[i] \in U
    BY <1>7, <1>10, <1>13
  <2>2. CASE j = k
    <3>1. s[i] # x /\ x >= s[i] /\ s[i] \in Nat /\ x \in Nat
      BY <2>1, <1>4, <1>6, SmallSet
    <3> QED BY <2>1, <2>2, <3>1
  <2>3. CASE j # k
    BY <2>1, <2>3, <1>10, <1>11, <1>13
  <2> QED BY <2>2, <2>3
<1>14. Rises(r, T)
  BY <1>4, <1>12, <1>13 DEF Rises
<1> QED BY <1>4, <1>14

\* Ascending is that sequence, and leaves nothing out.
LEMMA AscendingRises ==
    ASSUME NEW n \in Nat, NEW S \in SUBSET (0 .. n)
    PROVE  /\ DOMAIN Ascending(S) = 1 .. Cardinality(S) /\ Cardinality(S) \in Nat
           /\ \A k \in DOMAIN Ascending(S) : Ascending(S)[k] \in S
           /\ \A i, j \in DOMAIN Ascending(S) : i < j => Ascending(S)[i] < Ascending(S)[j]
           /\ \A x \in S : \E k \in DOMAIN Ascending(S) : Ascending(S)[k] = x
<1> DEFINE s == Ascending(S)
           D == 1 .. Cardinality(S)
<1>1. IsFiniteSet(S) /\ Cardinality(S) \in Nat
  BY SmallSet
<1>2. s \in [D -> S] /\ \A i, j \in DOMAIN s : i < j => s[i] < s[j]
  <2>1. \E t \in [D -> S] : \A i, j \in DOMAIN t : i < j => t[i] < t[j]
    BY RisingExists DEF Rises
  <2> QED BY <2>1 DEF Ascending
<1>3. s \in Injection(D, S)
  <2> SUFFICES ASSUME NEW i \in D, NEW j \in D, s[i] = s[j] PROVE i = j
    BY <1>2 DEF Injection, IsInjective
  <2>1. i \in Nat /\ j \in Nat /\ s[i] \in Nat /\ s[j] \in Nat
    <3>1. s[i] \in S /\ s[j] \in S
      BY <1>2
    <3>2. \A x \in S : x \in Nat
      BY SmallSet
    <3>3. s[i] \in Nat /\ s[j] \in Nat
      BY <3>1, <3>2
    <3>4. i \in Nat /\ j \in Nat
      BY <1>1
    <3> QED BY <3>3, <3>4
  <2>2. (i < j => s[i] < s[j]) /\ (j < i => s[j] < s[i])
    BY <1>2
  <2> HIDE DEF s, D
  <2> QED BY <2>1, <2>2
<1>4. s \in Surjection(D, S)
  <2>1. Cardinality(D) = Cardinality(S)
    BY <1>1, FS_Interval
  <2> HIDE DEF s, D
  <2> QED BY <1>1, <1>3, <2>1, FS_Injection
<1>5. \A x \in S : \E k \in D : s[k] = x
  BY <1>4 DEF Surjection
<1> HIDE DEF s
<1> QED BY <1>1, <1>2, <1>5 DEF s

---------------------------------------------------------------------------
(* The bytes of the file                                                   *)

LEMMA FileByte ==
    ASSUME LineTypes, NEW i \in 1 .. Len(file)
    PROVE  /\ file[i] \in Byte /\ file[i] = <<file[i][1], file[i][2]>>
           /\ file[i][1] \in Line /\ file[i][1] \in Nat \ {0} /\ file[i][2] \in Nat \ {0}
           /\ Size[file[i][1]] \in Nat \ {0} /\ file[i][2] <= Size[file[i][1]]
<1>1. file[i] \in Byte
  BY ElementOfSeq DEF LineTypes
<1>2. file[i] \in Line \X (Nat \ {0}) /\ file[i][2] <= Size[file[i][1]]
  BY <1>1 DEF Byte
<1>3. file[i] = <<file[i][1], file[i][2]>> /\ file[i][1] \in Line /\ file[i][2] \in Nat \ {0}
  BY <1>2
<1>4. Size \in [1 .. Len(Size) -> Nat \ {0}] /\ Line = 1 .. Len(Size) /\ Len(Size) \in Nat
  BY PipelineAssumption, LenProperties DEF Line
<1> QED BY <1>1, <1>2, <1>3, <1>4

\* What comes after a newline is of a later line.
LEMMA AfterNewline ==
    ASSUME LineTypes, FileIsLog, NEW i \in 1 .. Len(file), NEW j \in 1 .. Len(file), i < j, IsNewline(file[i])
    PROVE  file[i][1] < file[j][1]
<1>1. Before(file[i], file[j])
  BY DEF FileIsLog
<1>2. file[i][2] = Size[file[i][1]]
  BY DEF IsNewline
<1>3. file[j][2] <= Size[file[j][1]] /\ file[j][2] \in Nat /\ Size[file[j][1]] \in Nat
  BY FileByte
<1>4. CASE file[i][1] = file[j][1] /\ file[i][2] < file[j][2]
  BY <1>2, <1>3, <1>4
<1> QED BY <1>1, <1>4 DEF Before

\* A line begins at the front of the file and behind a newline, and nowhere else.
LEMMA LineBegins ==
    ASSUME LineTypes, FileIsLog, NEW i \in 1 .. Len(file)
    PROVE  file[i][2] = 1 <=> i = 1 \/ IsNewline(file[i - 1])
<1>0. file # <<>> /\ Len(file) \in Nat
  BY LenProperties, EmptySeq DEF LineTypes
<1>1. CASE i = 1
  BY <1>0, <1>1 DEF FileIsLog
<1>2. CASE i > 1
  <2>1. Follows(file[i - 1], file[i]) /\ i - 1 \in 1 .. Len(file)
    BY <1>0, <1>2 DEF FileIsLog
  <2>2. CASE file[i][2] # 1
    <3>1. file[i - 1] = <<file[i][1], file[i][2] - 1>>
      BY <2>1, <2>2 DEF Follows
    <3>2. file[i - 1][1] = file[i][1] /\ file[i - 1][2] = file[i][2] - 1
      BY <3>1
    <3>3. file[i][2] <= Size[file[i][1]] /\ file[i][2] \in Nat /\ Size[file[i][1]] \in Nat
      BY FileByte
    <3>4. file[i][2] - 1 # Size[file[i][1]]
      BY <3>3
    <3>5. ~IsNewline(file[i - 1])
      BY <3>2, <3>4 DEF IsNewline
    <3> QED BY <3>5, <2>2, <1>2
  <2>3. CASE file[i][2] = 1
    BY <2>1, <2>3 DEF Follows
  <2> QED BY <2>2, <2>3
<1> QED BY <1>0, <1>1, <1>2

---------------------------------------------------------------------------
(* The lines of a poll                                                     *)

\* Where the line that ends at e starts, and the ends of lines that are not blank.
Starts(off, e) == {off + 1} \cup {i + 1 : i \in {j \in Ends(off) : j < e}}
StartOf(off, e) == Max(Starts(off, e))
FullEnds(off) == {e \in Ends(off) : StartOf(off, e) < e}

LEMMA LinesAre ==
    ASSUME NEW off
    PROVE  LinesFrom(off) = [k \in DOMAIN Ascending(FullEnds(off)) |->
               [line |-> file[Ascending(FullEnds(off))[k]][1],
                from |-> file[StartOf(off, Ascending(FullEnds(off))[k])][2]]]
BY DEF LinesFrom, FullEnds, StartOf, Starts

LEMMA EndIsNewline ==
    ASSUME LineTypes, NEW off \in 0 .. Len(file), NEW e \in Ends(off)
    PROVE  e \in 1 .. Len(file) /\ off < e /\ IsNewline(file[e]) /\ e \in Nat /\ off \in Nat /\ Len(file) \in Nat
<1>1. Len(file) \in Nat
  BY LenProperties DEF LineTypes
<1> QED BY <1>1 DEF Ends

LEMMA StartIs ==
    ASSUME LineTypes, NEW off \in 0 .. Len(file), NEW e \in Ends(off)
    PROVE  /\ StartOf(off, e) \in 1 .. e
           /\ StartOf(off, e) >= off + 1 /\ \A i \in Ends(off) : i < e => StartOf(off, e) >= i + 1
           /\ StartOf(off, e) = off + 1 \/ IsNewline(file[StartOf(off, e) - 1])
<1>1. e \in 1 .. Len(file) /\ off < e /\ Len(file) \in Nat /\ off \in Nat /\ e \in Nat
  BY EndIsNewline
<1>2. \A i \in Ends(off) : i \in Nat /\ off < i /\ IsNewline(file[i])
  BY EndIsNewline
<1>3. \A x \in Starts(off, e) : x \in 1 .. e
  BY <1>1, <1>2 DEF Starts
<1>4. Starts(off, e) \in SUBSET (0 .. e) /\ off + 1 \in Starts(off, e)
  BY <1>1, <1>3 DEF Starts
<1>5. StartOf(off, e) \in Starts(off, e) /\ \A y \in Starts(off, e) : StartOf(off, e) >= y
  BY <1>1, <1>4, MaxOf DEF StartOf
<1>6. \A i \in Ends(off) : i < e => StartOf(off, e) >= i + 1
  BY <1>5 DEF Starts
<1>7. StartOf(off, e) = off + 1 \/ \E i \in Ends(off) : StartOf(off, e) = i + 1
  BY <1>5 DEF Starts
<1>8. ASSUME NEW i \in Ends(off), StartOf(off, e) = i + 1 PROVE IsNewline(file[StartOf(off, e) - 1])
  <2>1. StartOf(off, e) - 1 = i
    BY <1>2, <1>8
  <2> QED BY <2>1, <1>2
<1> QED BY <1>3, <1>4, <1>5, <1>6, <1>7, <1>8

LEMMA ConsumedIs ==
    ASSUME LineTypes, NEW off \in 0 .. Len(file)
    PROVE  /\ Consumed(off) \in off .. Len(file) /\ Consumed(off) \in Nat
           /\ \A e \in Ends(off) : e <= Consumed(off)
           /\ Consumed(off) = off \/ Consumed(off) \in Ends(off)
<1>1. Len(file) \in Nat /\ off \in Nat
  BY LenProperties DEF LineTypes
<1>2. \A e \in Ends(off) : e \in 1 .. Len(file) /\ off < e
  BY EndIsNewline
<1> DEFINE S == {off} \cup Ends(off)
<1>3. S \in SUBSET (0 .. Len(file)) /\ off \in S
  BY <1>1, <1>2
<1>4. Max(S) \in S /\ \A y \in S : Max(S) >= y
  BY <1>1, <1>3, MaxOf
<1>5. Consumed(off) = Max(S)
  BY DEF Consumed
<1>6. \A y \in S : y \in Nat
  BY <1>1, <1>2
<1> HIDE DEF S
<1>7. Consumed(off) \in S /\ Consumed(off) \in Nat /\ \A y \in S : y <= Consumed(off)
  BY <1>4, <1>5, <1>6
<1> QED BY <1>1, <1>3, <1>7 DEF S

\* A line is whole where the offset is behind a line, and blank if it starts
\* where it ends.
LEMMA WholeLine ==
    ASSUME LineTypes, FileIsLog, NEW off \in 0 .. Len(file), Boundary(off), NEW e \in Ends(off)
    PROVE  /\ file[StartOf(off, e)][2] = 1
           /\ StartOf(off, e) < e <=> Size[file[e][1]] > 1
<1> DEFINE s == StartOf(off, e)
<1>1. e \in 1 .. Len(file) /\ off < e /\ IsNewline(file[e]) /\ e \in Nat /\ off \in Nat /\ Len(file) \in Nat
  BY EndIsNewline
<1>2. s \in 1 .. e /\ s >= off + 1 /\ (s = off + 1 \/ IsNewline(file[s - 1]))
      /\ \A i \in Ends(off) : i < e => s >= i + 1
  BY StartIs
<1> HIDE DEF s
<1>3. s \in 1 .. Len(file)
  BY <1>1, <1>2
<1>4. s = 1 \/ IsNewline(file[s - 1])
  <2>1. CASE s = off + 1
    <3>1. off = s - 1 /\ (off > 0 \/ s = 1)
      BY <2>1, <1>1
    <3> QED BY <3>1 DEF Boundary
  <2> QED BY <2>1, <1>2
<1>5. file[s][2] = 1
  BY <1>3, <1>4, LineBegins
<1>6. file[e][2] = Size[file[e][1]] /\ Size[file[e][1]] \in Nat \ {0}
  BY <1>1, FileByte DEF IsNewline
<1>7. CASE Size[file[e][1]] = 1
  <2>1. e = 1 \/ IsNewline(file[e - 1])
    BY <1>1, <1>6, <1>7, LineBegins
  <2>2. e = off + 1 \/ e - 1 \in Ends(off)
    BY <2>1, <1>1 DEF Ends
  <2>3. s >= e
    BY <2>2, <1>1, <1>2
  <2>4. ~(s < e)
    BY <2>3, <1>1, <1>2
  <2> QED BY <2>4, <1>5, <1>7 DEF s
<1>8. CASE Size[file[e][1]] > 1
  <2>1. ~(e = 1 \/ IsNewline(file[e - 1]))
    BY <1>1, <1>6, <1>8, LineBegins
  <2>2. s # e
    BY <2>1, <1>4
  <2>3. s < e
    BY <2>2, <1>1, <1>2
  <2> QED BY <2>3, <1>5, <1>8 DEF s
<1> QED BY <1>6, <1>7, <1>8

\* The frames of a poll: each is the line of an end behind the offset, in the
\* order of the file; behind a line they are all the lines that are not blank.
LEMMA PollLines ==
    ASSUME LineTypes, FileIsLog, NEW off \in 0 .. Len(file)
    PROVE  /\ LinesFrom(off) \in Seq(Frame)
           /\ \A f \in Range(LinesFrom(off)) : \E e \in Ends(off) : f.line = file[e][1]
           /\ InSequence(LinesFrom(off))
           /\ Boundary(off) =>
                  Range(LinesFrom(off)) =
                      {[line |-> l, from |-> 1] : l \in {file[e][1] : e \in {n \in Ends(off) : Size[file[n][1]] > 1}}}
<1> DEFINE F == FullEnds(off)
           s == Ascending(F)
           n == Cardinality(F)
           Cut(e) == [line |-> file[e][1], from |-> file[StartOf(off, e)][2]]
           q == LinesFrom(off)
<1>1. Len(file) \in Nat /\ F \in SUBSET (0 .. Len(file)) /\ \A e \in F : e \in Ends(off)
  <2>1. Len(file) \in Nat
    BY LenProperties DEF LineTypes
  <2>2. \A e \in Ends(off) : e \in 0 .. Len(file)
    BY <2>1, EndIsNewline
  <2> QED BY <2>1, <2>2 DEF FullEnds
<1>2. /\ DOMAIN s = 1 .. n /\ n \in Nat
      /\ \A k \in DOMAIN s : s[k] \in F
      /\ \A i, j \in DOMAIN s : i < j => s[i] < s[j]
      /\ \A x \in F : \E k \in DOMAIN s : s[k] = x
  <2> HIDE DEF F
  <2> QED BY <1>1, AscendingRises
<1>3. q = [k \in DOMAIN s |-> Cut(s[k])]
  BY LinesAre
<1>4. ASSUME NEW e \in F PROVE Cut(e) \in Frame
  <2>1. e \in Ends(off) /\ e \in 1 .. Len(file) /\ StartOf(off, e) \in 1 .. e /\ e \in Nat
    BY <1>1, <1>4, EndIsNewline, StartIs
  <2>2. StartOf(off, e) \in 1 .. Len(file)
    BY <1>1, <2>1
  <2>3. file[e][1] \in Line /\ file[StartOf(off, e)][2] \in Nat
    BY <2>1, <2>2, FileByte
  <2> QED BY <2>3 DEF Frame
<1> HIDE DEF s, n, q, F
<1>5. q \in Seq(Frame) /\ DOMAIN q = 1 .. n
  <2>1. q \in [1 .. n -> Frame]
    BY <1>2, <1>3, <1>4
  <2>2. [1 .. n -> Frame] \subseteq Seq(Frame)
    BY <1>2
  <2> QED BY <2>1, <2>2
<1>6. \A k \in 1 .. n : q[k] = Cut(s[k]) /\ s[k] \in F /\ q[k].line = file[s[k]][1]
  BY <1>2, <1>3
<1>7. Range(q) = {Cut(e) : e \in F}
  <2> HIDE DEF Cut
  <2>1. ASSUME NEW k \in DOMAIN q PROVE \E e \in F : q[k] = Cut(e)
    BY <1>5, <1>6
  <2>2. ASSUME NEW e \in F PROVE \E k \in DOMAIN q : q[k] = Cut(e)
    <3>1. PICK k \in DOMAIN s : s[k] = e
      BY <1>2
    <3> QED BY <1>2, <1>5, <1>6, <3>1
  <2>3. Range(q) \subseteq {Cut(e) : e \in F}
    BY <2>1 DEF Range
  <2>4. {Cut(e) : e \in F} \subseteq Range(q)
    BY <2>2 DEF Range
  <2> QED BY <2>3, <2>4
<1>8. \A f \in Range(q) : \E e \in Ends(off) : f.line = file[e][1]
  BY <1>1, <1>7
<1>9. ASSUME NEW i \in 1 .. n, NEW j \in 1 .. n, i < j PROVE q[i].line < q[j].line
  <2>1. s[i] < s[j] /\ s[i] \in Ends(off) /\ s[j] \in Ends(off)
    BY <1>1, <1>2, <1>9
  <2>2. s[i] \in 1 .. Len(file) /\ s[j] \in 1 .. Len(file) /\ IsNewline(file[s[i]])
    BY <2>1, EndIsNewline
  <2> QED BY <2>1, <2>2, <1>6, AfterNewline
<1>10. ASSUME Boundary(off)
       PROVE  Range(q) = {[line |-> l, from |-> 1] : l \in {file[e][1] : e \in {m \in Ends(off) : Size[file[m][1]] > 1}}}
  <2>1. F = {m \in Ends(off) : Size[file[m][1]] > 1}
    BY <1>10, WholeLine DEF F, FullEnds
  <2>2. \A e \in F : Cut(e) = [line |-> file[e][1], from |-> 1]
    BY <1>1, <1>10, WholeLine
  <2> QED BY <2>1, <2>2, <1>7
<1> QED BY <1>5, <1>8, <1>9, <1>10 DEF q, InSequence

---------------------------------------------------------------------------
(* The frames on their way                                                 *)

LEMMA FramesAre ==
    ASSUME LineTypes
    PROVE  /\ fresh \o chan \in Seq(Frame) /\ InFlight \in Seq(Frame) /\ Frames \in Seq(Frame)
           /\ Frames = hot \o ((fresh \o chan) \o batch)
<1>1. fresh \o chan \in Seq(Frame)
  BY ConcatProperties DEF LineTypes
<1>2. InFlight \in Seq(Frame) /\ InFlight = (fresh \o chan) \o batch
  BY <1>1, ConcatProperties DEF InFlight, LineTypes
<1>3. Frames \in Seq(Frame)
  BY <1>2, ConcatProperties DEF Frames, LineTypes
<1> QED BY <1>1, <1>2, <1>3 DEF Frames

LEMMA FrameIs ==
    ASSUME LineTypes, NEW f \in Range(Frames)
    PROVE  f \in Frame /\ f.line \in Line /\ f.line \in Nat
<1>1. Frames \in Seq(Frame)
  BY FramesAre
<1>2. f \in Frame
  <2>1. PICK k \in DOMAIN Frames : f = Frames[k]
    BY DEF Range
  <2> HIDE DEF Frames
  <2> QED BY <1>1, <2>1, LenProperties, ElementOfSeq
<1>3. Line \subseteq Nat
  BY PipelineAssumption, LenProperties DEF Line
<1> QED BY <1>2, <1>3 DEF Frame

\* Queues of frames may be joined in either order.
LEMMA Regrouped == \A a, b, d \in Seq(Frame) : (a \o b) \o d = a \o (b \o d)
BY ConcatAssociative

\* What goes from the front of one queue to the end of the one before it.
LEMMA MovedOn ==
    ASSUME NEW E, NEW s \in Seq(E), NEW t \in Seq(E), t # <<>>
    PROVE  Append(s, Head(t)) \o Tail(t) = s \o t /\ Append(s, Head(t)) \in Seq(E) /\ Tail(t) \in Seq(E)
<1>1. /\ Head(t) \in E /\ Head(t) = t[1] /\ Tail(t) \in Seq(E) /\ Len(t) \in Nat /\ Len(t) > 0 /\ Len(Tail(t)) = Len(t) - 1
      /\ \A i \in 1 .. Len(t) - 1 : Tail(t)[i] = t[i + 1]
  BY HeadTailProperties, EmptySeq, LenProperties
<1> DEFINE a == Append(s, Head(t))
           u == Tail(t)
<1>2. /\ a \in Seq(E) /\ Len(a) = Len(s) + 1 /\ Len(s) \in Nat
      /\ \A i \in 1 .. Len(s) : a[i] = s[i]
      /\ a[Len(s) + 1] = t[1]
  BY <1>1, AppendProperties, LenProperties
<1> HIDE DEF a, u
<1>3. u \in Seq(E) /\ Len(u) = Len(t) - 1 /\ \A i \in 1 .. Len(t) - 1 : u[i] = t[i + 1]
  BY <1>1 DEF u
<1>4. /\ a \o u \in Seq(E) /\ s \o t \in Seq(E) /\ Len(a \o u) = Len(s) + Len(t) /\ Len(s \o t) = Len(s) + Len(t)
      /\ \A i \in 1 .. Len(s) + Len(t) : (a \o u)[i] = IF i <= Len(s) + 1 THEN a[i] ELSE u[i - (Len(s) + 1)]
      /\ \A i \in 1 .. Len(s) + Len(t) : (s \o t)[i] = IF i <= Len(s) THEN s[i] ELSE t[i - Len(s)]
  <2>1. Len(a) + Len(u) = Len(s) + Len(t)
    BY <1>1, <1>2, <1>3
  <2>2. /\ a \o u \in Seq(E) /\ Len(a \o u) = Len(a) + Len(u)
        /\ \A i \in 1 .. Len(a) + Len(u) : (a \o u)[i] = IF i <= Len(a) THEN a[i] ELSE u[i - Len(a)]
    BY <1>2, <1>3, ConcatProperties
  <2>3. /\ s \o t \in Seq(E) /\ Len(s \o t) = Len(s) + Len(t)
        /\ \A i \in 1 .. Len(s) + Len(t) : (s \o t)[i] = IF i <= Len(s) THEN s[i] ELSE t[i - Len(s)]
    BY ConcatProperties
  <2> QED BY <1>2, <2>1, <2>2, <2>3
<1>5. ASSUME NEW i \in 1 .. Len(s) + Len(t) PROVE (a \o u)[i] = (s \o t)[i]
  <2>1. CASE i <= Len(s)
    BY <2>1, <1>1, <1>2, <1>4
  <2>2. CASE i = Len(s) + 1
    <3>1. i - Len(s) = 1 /\ ~(i <= Len(s)) /\ i <= Len(s) + 1
      BY <2>2, <1>2
    <3> QED BY <2>2, <3>1, <1>2, <1>4
  <2>3. CASE i > Len(s) + 1
    <3>1. /\ i - (Len(s) + 1) \in 1 .. Len(t) - 1 /\ i - (Len(s) + 1) + 1 = i - Len(s)
          /\ ~(i <= Len(s)) /\ ~(i <= Len(s) + 1)
      BY <2>3, <1>1, <1>2
    <3>2. u[i - (Len(s) + 1)] = t[i - Len(s)]
      BY <3>1, <1>3
    <3> QED BY <3>1, <3>2, <1>4
  <2>4. i <= Len(s) \/ i = Len(s) + 1 \/ i > Len(s) + 1
    BY <1>1, <1>2
  <2> QED BY <2>1, <2>2, <2>3, <2>4
<1>6. a \o u = s \o t
  BY <1>4, <1>5, SeqEqual
<1> QED BY <1>1, <1>2, <1>6 DEF a, u

LEMMA InSequenceConcat ==
    ASSUME NEW s \in Seq(Frame), NEW t \in Seq(Frame), InSequence(s), InSequence(t),
           \A f \in Range(s) : \A g \in Range(t) : f.line < g.line
    PROVE  InSequence(s \o t)
<1>1. /\ DOMAIN (s \o t) = 1 .. Len(s) + Len(t) /\ Len(s) \in Nat /\ Len(t) \in Nat
      /\ DOMAIN s = 1 .. Len(s) /\ DOMAIN t = 1 .. Len(t)
      /\ \A i \in 1 .. Len(s) + Len(t) : (s \o t)[i] = IF i <= Len(s) THEN s[i] ELSE t[i - Len(s)]
  BY ConcatProperties, LenProperties
<1> SUFFICES ASSUME NEW i \in 1 .. Len(s) + Len(t), NEW j \in 1 .. Len(s) + Len(t), i < j
             PROVE  (s \o t)[i].line < (s \o t)[j].line
  BY <1>1 DEF InSequence
<1>2. CASE j <= Len(s)
  BY <1>1, <1>2 DEF InSequence
<1>3. CASE i <= Len(s) /\ ~(j <= Len(s))
  <2>1. i \in 1 .. Len(s) /\ j - Len(s) \in 1 .. Len(t)
    BY <1>1, <1>3
  <2>2. s[i] \in Range(s) /\ t[j - Len(s)] \in Range(t)
    BY <1>1, <2>1 DEF Range
  <2> QED BY <1>1, <1>3, <2>2
<1>4. CASE ~(i <= Len(s))
  <2>1. i - Len(s) \in 1 .. Len(t) /\ j - Len(s) \in 1 .. Len(t) /\ i - Len(s) < j - Len(s) /\ ~(j <= Len(s))
    BY <1>1, <1>4
  <2> QED BY <1>1, <1>4, <2>1 DEF InSequence
<1> QED BY <1>1, <1>2, <1>3, <1>4

\* The front of what is in sequence is in sequence.
LEMMA InSequenceFront ==
    ASSUME NEW s \in Seq(Frame), NEW t \in Seq(Frame), InSequence(s \o t)
    PROVE  InSequence(s)
<1>1. /\ DOMAIN (s \o t) = 1 .. Len(s) + Len(t) /\ Len(s) \in Nat /\ Len(t) \in Nat
      /\ DOMAIN s = 1 .. Len(s)
      /\ \A i \in 1 .. Len(s) + Len(t) : (s \o t)[i] = IF i <= Len(s) THEN s[i] ELSE t[i - Len(s)]
  BY ConcatProperties, LenProperties
<1> SUFFICES ASSUME NEW i \in 1 .. Len(s), NEW j \in 1 .. Len(s), i < j PROVE s[i].line < s[j].line
  BY <1>1 DEF InSequence
<1>2. /\ i \in 1 .. Len(s) + Len(t) /\ j \in 1 .. Len(s) + Len(t)
      /\ (s \o t)[i] = s[i] /\ (s \o t)[j] = s[j]
  BY <1>1
<1> QED BY <1>1, <1>2 DEF InSequence

---------------------------------------------------------------------------
(* The steps                                                               *)

\* A step that only passes frames on: Send, Consume, Commit and Roll, and
\* Interrupt, which leaves the loop.
Passes ==
    /\ UNCHANGED <<file, next, ckpt, offset, crashes, torn, unsaved, rotations>>
    /\ Frames' = Frames
    /\ hot' \in Seq(Frame) /\ fresh' \in Seq(Frame) /\ chan' \in Seq(Frame) /\ batch' \in Seq(Frame)
    /\ node # "down"
    /\ (node' = node /\ stops' = stops) \/ (node' = "stopping" /\ stops' = stops + 1)

LEMMA PassesSteps ==
    ASSUME LineTypes, Send \/ Consume \/ Commit \/ Roll \/ Interrupt
    PROVE  Passes
<1>0. hot \in Seq(Frame) /\ fresh \in Seq(Frame) /\ chan \in Seq(Frame) /\ batch \in Seq(Frame)
  BY DEF LineTypes
<1>1. fresh \o chan \in Seq(Frame) /\ Frames = hot \o ((fresh \o chan) \o batch)
  BY FramesAre
<1>2. Frames' = hot' \o ((fresh' \o chan') \o batch')
  BY DEF Frames, InFlight
<1>3. CASE Send
  <2>1. /\ chan' = Append(chan, Head(batch)) /\ batch' = Tail(batch) /\ batch # <<>> /\ UNCHANGED <<hot, fresh>>
        /\ UNCHANGED <<file, next, ckpt, offset, crashes, torn, unsaved, rotations, node, stops>> /\ node # "down"
    BY <1>3 DEF Send, disk, counters
  <2>2. Head(batch) \in Frame /\ Tail(batch) \in Seq(Frame)
    BY <1>0, <2>1, HeadTailProperties
  <2>3. fresh \o Append(chan, Head(batch)) = Append(fresh \o chan, Head(batch)) /\ Append(chan, Head(batch)) \in Seq(Frame)
    BY <1>0, <2>2, AddedBehind, AppendProperties
  <2>4. Append(fresh \o chan, Head(batch)) \o Tail(batch) = (fresh \o chan) \o batch
    <3> DEFINE h == fresh \o chan
    <3>1. h \in Seq(Frame)
      BY <1>1
    <3> HIDE DEF h
    <3>2. Append(h, Head(batch)) \o Tail(batch) = h \o batch
      BY <1>0, <2>1, <3>1, MovedOn
    <3> QED BY <3>2 DEF h
  <2>5. Frames' = Frames
    BY <1>1, <1>2, <2>1, <2>3, <2>4
  <2> QED BY <1>0, <2>1, <2>2, <2>3, <2>5 DEF Passes
<1>4. CASE Consume
  <2>1. /\ fresh' = Append(fresh, Head(chan)) /\ chan' = Tail(chan) /\ chan # <<>> /\ UNCHANGED <<hot, batch>>
        /\ UNCHANGED <<file, next, ckpt, offset, crashes, torn, unsaved, rotations, node, stops>> /\ node # "down"
    BY <1>4 DEF Consume, counters
  <2>2. /\ Append(fresh, Head(chan)) \o Tail(chan) = fresh \o chan
        /\ Append(fresh, Head(chan)) \in Seq(Frame) /\ Tail(chan) \in Seq(Frame)
    BY <1>0, <2>1, MovedOn
  <2>3. Frames' = Frames
    BY <1>1, <1>2, <2>1, <2>2
  <2> QED BY <1>0, <2>1, <2>2, <2>3 DEF Passes
<1>5. CASE Commit \/ Interrupt
  <2>1. /\ hot' = hot \o fresh /\ fresh' = <<>> /\ UNCHANGED <<chan, batch>>
        /\ UNCHANGED <<file, next, ckpt, offset, crashes, torn, unsaved, rotations>> /\ node # "down"
        /\ (node' = node /\ stops' = stops) \/ (node' = "stopping" /\ stops' = stops + 1)
    BY <1>5 DEF Commit, Interrupt, counters
  <2>2. hot \o fresh \in Seq(Frame) /\ <<>> \in Seq(Frame) /\ <<>> \o chan = chan /\ chan \o batch \in Seq(Frame)
    BY <1>0, ConcatProperties, EmptySeq, ConcatEmptySeq
  <2>3. (fresh \o chan) \o batch = fresh \o (chan \o batch)
    BY <1>0, Regrouped
  <2>4. hot \o (fresh \o (chan \o batch)) = (hot \o fresh) \o (chan \o batch)
    <3> DEFINE h == chan \o batch
    <3>1. h \in Seq(Frame)
      BY <2>2
    <3> HIDE DEF h
    <3>2. hot \in Seq(Frame) /\ fresh \in Seq(Frame)
      BY <1>0
    <3>3. (hot \o fresh) \o h = hot \o (fresh \o h)
      BY <3>1, <3>2, Regrouped
    <3> QED BY <3>3 DEF h
  <2>5. Frames' = Frames
    BY <1>1, <1>2, <2>1, <2>2, <2>3, <2>4
  <2> QED BY <1>0, <2>1, <2>2, <2>5 DEF Passes
<1>6. CASE Roll
  <2>1. /\ UNCHANGED <<hot, fresh, chan, batch>> /\ node # "down"
        /\ UNCHANGED <<file, next, ckpt, offset, crashes, torn, unsaved, rotations, node, stops>>
    BY <1>6 DEF Roll, counters
  <2>2. Frames' = Frames
    BY <1>1, <1>2, <2>1
  <2> QED BY <1>0, <2>1, <2>2 DEF Passes
<1> QED BY <1>3, <1>4, <1>5, <1>6

LEMMA LinesPass == ASSUME LineInv, Passes PROVE LineInv'
<1> USE DEF Passes
<1>1. LineTypes /\ FileIsLog /\ Whole /\ FramesWritten /\ Sequenced /\ AllRead
  BY DEF LineInv
<1>2. LineTypes'
  BY <1>1 DEF LineTypes
<1>3. FileIsLog'
  BY <1>1 DEF FileIsLog
<1>4. Whole'
  BY <1>1 DEF Whole, Boundary
<1>5. FramesWritten'
  BY <1>1 DEF FramesWritten
<1>6. (Unended' => Unended /\ node' = node) /\ (Saved' <=> Saved)
  <2>1. stops \in Nat /\ crashes \in Nat /\ torn \in Nat /\ crashes' = crashes /\ torn' = torn
    BY <1>1 DEF LineTypes
  <2>2. CASE node' = node /\ stops' = stops
    BY <2>2 DEF Unended, Saved
  <2>3. CASE node' = "stopping" /\ stops' = stops + 1
    <3>1. ~Unended'
      BY <2>1, <2>3 DEF Unended
    <3> QED BY <3>1 DEF Saved
  <2> QED BY <2>2, <2>3
<1>7. Ahead(offset)' <=> Ahead(offset)
  BY DEF Ahead, Floor
<1>8. Ahead(ckpt)' <=> Ahead(ckpt)
  BY DEF Ahead, Floor
<1>9. InSequence(Frames)' <=> InSequence(Frames)
  BY DEF InSequence
<1>10. Sequenced'
  BY <1>1, <1>6, <1>7, <1>8, <1>9 DEF Sequenced
<1>11. AllRead'
  BY <1>1, <1>6 DEF AllRead, LinesWithin
<1> QED BY <1>2, <1>3, <1>4, <1>5, <1>10, <1>11 DEF LineInv

\* The writer adds the next byte, which is of a later line than all frames.
LEMMA LinesWrite == ASSUME LineInv, Write PROVE LineInv'
<1>1. LineTypes /\ FileIsLog /\ Whole /\ FramesWritten /\ Sequenced /\ AllRead
  BY DEF LineInv
<1>2. /\ next[1] \in Line /\ file' = Append(file, next)
      /\ next' = IF IsNewline(next) THEN <<next[1] + 1, 1>> ELSE <<next[1], next[2] + 1>>
      /\ UNCHANGED <<ckpt, hot, node, offset, batch, chan, fresh, stops, crashes, torn, unsaved, rotations>>
  BY DEF Write, memory, counters
<1>3. /\ next \in Byte /\ file \in Seq(Byte) /\ Len(file) \in Nat /\ next[1] \in Nat \ {0} /\ next[2] \in Nat \ {0}
      /\ next = <<next[1], next[2]>> /\ next[2] <= Size[next[1]] /\ Size[next[1]] \in Nat \ {0}
  <2>1. next \in Byte /\ next \in (Nat \ {0}) \X (Nat \ {0}) /\ file \in Seq(Byte)
    BY <1>1, <1>2 DEF LineTypes
  <2>2. next[2] <= Size[next[1]]
    BY <2>1 DEF Byte
  <2>3. Size \in [Line -> Nat \ {0}]
    BY PipelineAssumption, LenProperties DEF Line
  <2>4. Len(file) \in Nat
    BY <2>1, LenProperties
  <2> QED BY <2>1, <2>2, <2>3, <2>4, <1>2
<1>4. /\ file' \in Seq(Byte) /\ file' # <<>> /\ Len(file') = Len(file) + 1
      /\ \A i \in 1 .. Len(file) : file'[i] = file[i]
      /\ file'[Len(file) + 1] = next
  BY <1>2, <1>3, AppendProperties
<1>5. Frames' = Frames
  BY <1>2 DEF Frames, InFlight
<1>6. /\ next' \in (Nat \ {0}) \X (Nat \ {0}) /\ (next'[1] \in Line => next'[2] <= Size[next'[1]])
      /\ Before(next, next') /\ Follows(next, next') /\ next'[1] \in Nat /\ next'[1] >= next[1]
      /\ next' = <<next'[1], next'[2]>>
  <2>1. CASE IsNewline(next)
    <3>1. next' = <<next[1] + 1, 1>> /\ next'[1] = next[1] + 1 /\ next'[2] = 1
      BY <1>2, <2>1
    <3>2. \A l \in Line : 1 <= Size[l]
      BY PipelineAssumption, LenProperties DEF Line
    <3> QED BY <3>1, <3>2, <2>1, <1>3 DEF Before, Follows
  <2>2. CASE ~IsNewline(next)
    <3>1. next' = <<next[1], next[2] + 1>> /\ next'[1] = next[1] /\ next'[2] = next[2] + 1
      BY <1>2, <2>2
    <3>2. next[2] # Size[next[1]] /\ next[2] + 1 # 1 /\ (next[2] + 1) - 1 = next[2]
      BY <1>3, <2>2 DEF IsNewline
    <3>3. next[2] + 1 <= Size[next[1]]
      BY <1>3, <3>2
    <3>4. Follows(next, next')
      BY <3>1, <3>2, <1>3 DEF Follows
    <3> QED BY <3>1, <3>3, <3>4, <1>3 DEF Before
  <2> QED BY <2>1, <2>2
<1>7. LineTypes'
  <2>1. next'[1] \in Line => next' \in Byte
    BY <1>6 DEF Byte
  <2> QED BY <1>1, <1>2, <1>4, <1>6, <2>1 DEF LineTypes
<1>8. \A i \in 1 .. Len(file) + 1 : (i \in 1 .. Len(file) /\ file'[i] = file[i]) \/ (i = Len(file) + 1 /\ file'[i] = next)
  BY <1>3, <1>4
<1>9. FileIsLog'
  <2>1. \A i \in 1 .. Len(file) : Before(file[i], next)
    BY <1>1 DEF FileIsLog
  <2>2. ASSUME NEW i \in 1 .. Len(file) + 1, NEW j \in 1 .. Len(file) + 1, i < j PROVE Before(file'[i], file'[j])
    <3>1. i \in 1 .. Len(file) /\ file'[i] = file[i]
      BY <2>2, <1>3, <1>8
    <3>2. CASE j \in 1 .. Len(file) /\ file'[j] = file[j]
      BY <2>2, <3>1, <3>2, <1>1 DEF FileIsLog
    <3>3. CASE file'[j] = next
      BY <3>1, <3>3, <2>1
    <3> QED BY <3>2, <3>3, <1>8
  <2>3. ASSUME NEW i \in 1 .. Len(file) + 1 PROVE Before(file'[i], next')
    <3>1. CASE i \in 1 .. Len(file) /\ file'[i] = file[i]
      <4>1. Before(file[i], next) /\ file[i][1] \in Nat /\ file[i][2] \in Nat
        BY <2>1, <3>1, <1>1, FileByte
      <4> DEFINE b == file[i]
      <4>2. Before(b, next) /\ b[1] \in Nat /\ b[2] \in Nat /\ file'[i] = b
        BY <4>1, <3>1
      <4> HIDE DEF b
      <4>3. CASE IsNewline(next)
        <5>1. next'[1] = next[1] + 1
          BY <1>2, <4>3
        <5> QED BY <5>1, <4>2, <1>3 DEF Before
      <4>4. CASE ~IsNewline(next)
        <5>1. next'[1] = next[1] /\ next'[2] = next[2] + 1
          BY <1>2, <4>4
        <5>2. b[2] < next[2] => b[2] < next[2] + 1
          BY <4>2, <1>3
        <5> QED BY <5>1, <5>2, <4>2 DEF Before
      <4> QED BY <4>3, <4>4
    <3>2. CASE file'[i] = next
      BY <3>2, <1>6
    <3> QED BY <3>1, <3>2, <1>8
  <2>4. IF file = <<>> THEN next[2] = 1 ELSE file[1][2] = 1 /\ Follows(file[Len(file)], next)
    BY <1>1 DEF FileIsLog
  <2>5. file = <<>> <=> Len(file) = 0
    BY <1>3, EmptySeq
  <2>6. ASSUME NEW i \in 1 .. Len(file) + 1, i > 1 PROVE Follows(file'[i - 1], file'[i])
    <3>1. i - 1 \in 1 .. Len(file) /\ file'[i - 1] = file[i - 1]
      BY <2>6, <1>3, <1>4
    <3>2. CASE i \in 1 .. Len(file) /\ file'[i] = file[i]
      BY <2>6, <3>1, <3>2, <1>1 DEF FileIsLog
    <3>3. CASE i = Len(file) + 1 /\ file'[i] = next
      <4>1. i - 1 = Len(file) /\ file # <<>>
        BY <3>1, <3>3, <1>3, <2>5
      <4> QED BY <4>1, <3>1, <3>3, <2>4
    <3> QED BY <3>2, <3>3, <1>8
  <2>7. file'[1][2] = 1
    <3>1. CASE file = <<>>
      BY <3>1, <2>4, <2>5, <1>4
    <3>2. CASE file # <<>>
      <4>1. 1 \in 1 .. Len(file)
        BY <3>2, <2>5, <1>3
      <4> QED BY <4>1, <3>2, <2>4, <1>4
    <3> QED BY <3>1, <3>2
  <2>8. Follows(file'[Len(file')], next')
    BY <1>4, <1>6
  <2>9. \A i, j \in 1 .. Len(file') : i < j => Before(file'[i], file'[j])
    BY <2>2, <1>4
  <2>10. \A i \in 1 .. Len(file') : Before(file'[i], next')
    BY <2>3, <1>4
  <2>11. \A i \in 1 .. Len(file') : i > 1 => Follows(file'[i - 1], file'[i])
    BY <2>6, <1>4
  <2> QED BY <2>7, <2>8, <2>9, <2>10, <2>11, <1>4 DEF FileIsLog, Before, Follows, IsNewline
<1>10. ASSUME NEW off \in Nat, Boundary(off)
       PROVE  /\ off <= Len(file') /\ (off > 0 => IsNewline(file'[off]))
              /\ \A i \in 1 .. off : file'[i] = file[i]
  <2>1. off <= Len(file) /\ (off > 0 => IsNewline(file[off]))
    BY <1>10 DEF Boundary
  <2>2. off > 0 => file'[off] = file[off]
    BY <2>1, <1>3, <1>4
  <2> QED BY <2>1, <2>2, <1>3, <1>4 DEF IsNewline
<1>11. Whole'
  <2> SUFFICES ASSUME rotations = 0
               PROVE  Boundary(ckpt)' /\ Boundary(offset)' /\ \A f \in Range(Frames) : f.from = 1
    BY <1>2, <1>5 DEF Whole
  <2>1. ckpt \in Nat /\ offset \in Nat /\ Boundary(ckpt) /\ Boundary(offset) /\ \A f \in Range(Frames) : f.from = 1
    BY <1>1 DEF Whole, LineTypes
  <2> QED BY <2>1, <1>2, <1>10 DEF Boundary, IsNewline
<1>12. FramesWritten'
  <2> SUFFICES ASSUME NEW f \in Range(Frames) PROVE f.line < next'[1]
    BY <1>5 DEF FramesWritten
  <2>1. f.line < next[1] /\ f.line \in Nat
    BY <1>1, FrameIs DEF FramesWritten
  <2> QED BY <2>1, <1>3, <1>6
<1>13. ASSUME NEW off \in Nat, Ahead(off)
       PROVE  \A f \in Range(Frames) : \A i \in (IF Len(file') < off THEN 0 ELSE off) + 1 .. Len(file') : f.line < file'[i][1]
  <2> SUFFICES ASSUME NEW f \in Range(Frames), NEW i \in (IF Len(file') < off THEN 0 ELSE off) + 1 .. Len(file')
               PROVE  f.line < file'[i][1]
    OBVIOUS
  <2>1. i \in 1 .. Len(file) + 1 /\ (i \in 1 .. Len(file) => i \in (IF Len(file) < off THEN 0 ELSE off) + 1 .. Len(file))
    BY <1>3, <1>4
  <2>2. CASE i \in 1 .. Len(file) /\ file'[i] = file[i]
    BY <2>1, <2>2, <1>13 DEF Ahead, Floor
  <2>3. CASE file'[i] = next
    BY <2>3, <1>1 DEF FramesWritten
  <2> QED BY <2>1, <2>2, <2>3, <1>8
<1>14. Sequenced'
  <2>1. (Ahead(offset) => Ahead(offset)') /\ (Ahead(ckpt) => Ahead(ckpt)')
    <3>1. offset \in Nat /\ ckpt \in Nat
      BY <1>1 DEF LineTypes
    <3>2. Ahead(offset) => Ahead(offset)'
      BY <3>1, <1>2, <1>5, <1>13 DEF Ahead, Floor
    <3>3. Ahead(ckpt) => Ahead(ckpt)'
      BY <3>1, <1>2, <1>5, <1>13 DEF Ahead, Floor
    <3> QED BY <3>2, <3>3
  <2>2. InSequence(Frames)' <=> InSequence(Frames)
    BY <1>5 DEF InSequence
  <2>3. (Saved' <=> Saved) /\ (Unended' <=> Unended) /\ node' = node
    BY <1>2 DEF Saved, Unended
  <2> QED BY <2>1, <2>2, <2>3, <1>1 DEF Sequenced
<1>15. AllRead'
  <2> SUFFICES ASSUME Unended, rotations = 0
               PROVE  /\ Range(Frames) = {[line |-> l, from |-> 1] : l \in LinesWithin(offset)'}
                      /\ unsaved = 0 => ckpt = offset
    BY <1>2, <1>5 DEF AllRead, Unended
  <2>1. offset \in Nat /\ Boundary(offset)
    BY <1>1 DEF Whole, LineTypes
  <2>2. \A i \in 1 .. offset : file'[i] = file[i]
    BY <2>1, <1>10
  <2>3. LinesWithin(offset)' = LinesWithin(offset)
    BY <2>2, <1>2 DEF LinesWithin
  <2> QED BY <2>3, <1>1 DEF AllRead
<1> QED BY <1>7, <1>9, <1>11, <1>12, <1>14, <1>15 DEF LineInv

\* A rotation leaves no byte behind any offset.
LEMMA LinesRotate == ASSUME LineInv, Rotate PROVE LineInv'
<1>1. LineTypes /\ FileIsLog /\ Whole /\ FramesWritten /\ Sequenced /\ AllRead
  BY DEF LineInv
<1>2. /\ file' = <<>> /\ next[2] = 1 /\ rotations' = rotations + 1
      /\ UNCHANGED <<next, ckpt, hot, node, offset, batch, chan, fresh, stops, crashes, torn, unsaved>>
  BY DEF Rotate, memory
<1>3. <<>> \in Seq(Byte) /\ Len(<<>>) = 0
  OBVIOUS
<1>4. rotations' \in Nat /\ rotations' # 0
  BY <1>1, <1>2 DEF LineTypes
<1>5. Frames' = Frames
  BY <1>2 DEF Frames, InFlight
<1>6. LineTypes'
  BY <1>1, <1>2, <1>3, <1>4 DEF LineTypes
<1>7. FileIsLog'
  BY <1>2, <1>3 DEF FileIsLog
<1>8. Whole' /\ AllRead'
  BY <1>4 DEF Whole, AllRead
<1>9. FramesWritten'
  BY <1>1, <1>2, <1>5 DEF FramesWritten
<1>10. ASSUME NEW off \in Nat, NEW i \in (IF Len(file') < off THEN 0 ELSE off) + 1 .. Len(file') PROVE FALSE
  BY <1>2, <1>3
<1>11. Ahead(offset)' /\ Ahead(ckpt)'
  <2>1. offset' \in Nat /\ ckpt' \in Nat
    BY <1>6 DEF LineTypes
  <2> QED BY <2>1, <1>10 DEF Ahead, Floor
<1>12. Sequenced'
  <2>1. InSequence(Frames)' <=> InSequence(Frames)
    BY <1>5 DEF InSequence
  <2>2. (Saved' <=> Saved) /\ (Unended' <=> Unended) /\ node' = node
    BY <1>2 DEF Saved, Unended
  <2> QED BY <2>1, <2>2, <1>1, <1>11 DEF Sequenced
<1> QED BY <1>6, <1>7, <1>8, <1>9, <1>12 DEF LineInv

\* The process ends: what was committed is what is left.
LEMMA LinesLost == ASSUME LineInv, Exit \/ Crash \/ Tear PROVE LineInv'
<1>1. LineTypes /\ FileIsLog /\ Whole /\ FramesWritten /\ Sequenced /\ AllRead
  BY DEF LineInv
<1>2. /\ node' = "down" /\ offset' = 0 /\ batch' = <<>> /\ chan' = <<>> /\ fresh' = <<>>
      /\ UNCHANGED <<file, next, hot, unsaved, rotations, stops>>
      /\ \/ ckpt' = ckpt /\ torn' = torn /\ crashes' = crashes /\ node = "stopping"
         \/ ckpt' = ckpt /\ torn' = torn /\ crashes' = crashes + 1
         \/ ckpt' = 0 /\ torn' = torn + 1 /\ crashes' = crashes
  BY DEF Exit, Crash, Tear, LoseMemory, disk, counters
<1>3. stops \in Nat /\ crashes \in Nat /\ torn \in Nat /\ unsaved \in Nat /\ hot \in Seq(Frame) /\ <<>> \in Seq(Frame)
  BY <1>1 DEF LineTypes
<1>4. ~Unended'
  <2>1. CASE torn' = torn /\ crashes' = crashes /\ node = "stopping"
    <3>1. ~Unended
      BY <1>1, <2>1 DEF Sequenced
    <3> QED BY <3>1, <2>1, <1>2 DEF Unended
  <2>2. CASE crashes' = crashes + 1 /\ torn' = torn
    BY <2>2, <1>2, <1>3 DEF Unended
  <2>3. CASE torn' = torn + 1 /\ crashes' = crashes
    BY <2>3, <1>2, <1>3 DEF Unended
  <2> QED BY <2>1, <2>2, <2>3, <1>2
<1>5. Saved' => Saved /\ ckpt' = ckpt
  <2>1. CASE torn' = torn /\ ckpt' = ckpt
    BY <2>1, <1>2 DEF Saved
  <2>2. CASE torn' = torn + 1
    <3>1. ~Saved'
      BY <2>2, <1>2, <1>3 DEF Saved
    <3> QED BY <3>1
  <2> QED BY <2>1, <2>2, <1>2
<1>6. Frames' = hot
  <2>1. (<<>> \o <<>>) \o <<>> = <<>>
    BY <1>3, ConcatEmptySeq
  <2>2. hot \o <<>> = hot
    BY <1>3, ConcatEmptySeq
  <2> QED BY <2>1, <2>2, <1>2 DEF Frames, InFlight
<1>7. \A f \in Range(hot) : f \in Range(Frames)
  <2>1. Range(hot \o InFlight) = Range(hot) \cup Range(InFlight)
    BY <1>1, <1>3, FramesAre, RangeConcatenation
  <2> QED BY <2>1 DEF Frames
<1>8. InSequence(Frames) => InSequence(hot)
  BY <1>1, <1>3, FramesAre, InSequenceFront DEF Frames
<1>9. LineTypes'
  <2>1. /\ file \in Seq(Byte) /\ next \in (Nat \ {0}) \X (Nat \ {0}) /\ (next[1] \in Line => next \in Byte)
        /\ ckpt \in Nat /\ rotations \in Nat
    BY <1>1 DEF LineTypes
  <2>2. node' \in {"up", "stopping", "down"} /\ offset' \in Nat /\ ckpt' \in Nat
    BY <2>1, <1>2
  <2>3. /\ file' \in Seq(Byte) /\ next' \in (Nat \ {0}) \X (Nat \ {0}) /\ (next'[1] \in Line => next' \in Byte)
    BY <2>1, <1>2
  <2>4. hot' \in Seq(Frame) /\ fresh' \in Seq(Frame) /\ chan' \in Seq(Frame) /\ batch' \in Seq(Frame)
    BY <1>2, <1>3
  <2>5. stops' \in Nat /\ crashes' \in Nat /\ torn' \in Nat /\ unsaved' \in Nat /\ rotations' \in Nat
    BY <2>1, <1>2, <1>3
  <2> QED BY <2>2, <2>3, <2>4, <2>5 DEF LineTypes
<1>10. FileIsLog'
  BY <1>1, <1>2 DEF FileIsLog
<1>11. Whole'
  <2> SUFFICES ASSUME rotations = 0
               PROVE  Boundary(ckpt)' /\ Boundary(offset)' /\ \A f \in Range(hot) : f.from = 1
    BY <1>2, <1>6 DEF Whole
  <2>1. Boundary(ckpt) /\ \A f \in Range(Frames) : f.from = 1
    BY <1>1 DEF Whole
  <2>2. 0 <= Len(file) /\ Len(file) \in Nat
    BY <1>1, LenProperties DEF LineTypes
  <2>3. Boundary(0)
    BY <2>2 DEF Boundary
  <2>4. Boundary(offset)' /\ Boundary(ckpt)'
    BY <2>1, <2>3, <1>2 DEF Boundary
  <2> QED BY <2>1, <2>4, <1>7
<1>12. FramesWritten'
  BY <1>1, <1>2, <1>6, <1>7 DEF FramesWritten
<1>13. Sequenced'
  <2>1. ASSUME Saved' PROVE InSequence(Frames)' /\ Ahead(ckpt)'
    <3>1. Saved /\ ckpt' = ckpt /\ InSequence(Frames) /\ Ahead(ckpt)
      BY <2>1, <1>1, <1>5 DEF Sequenced
    <3>2. InSequence(Frames)'
      BY <3>1, <1>6, <1>8 DEF InSequence
    <3>3. Ahead(ckpt)'
      BY <3>1, <1>2, <1>6, <1>7 DEF Ahead, Floor
    <3> QED BY <3>2, <3>3
  <2> QED BY <2>1, <1>2, <1>4 DEF Sequenced
<1>14. AllRead'
  BY <1>4 DEF AllRead
<1> QED BY <1>9, <1>10, <1>11, <1>12, <1>13, <1>14 DEF LineInv

\* A start reads on from the checkpoint.
LEMMA LinesStart == ASSUME LineInv, Start PROVE LineInv'
<1>1. LineTypes /\ FileIsLog /\ Whole /\ FramesWritten /\ Sequenced /\ AllRead
  BY DEF LineInv
<1>2. /\ node = "down" /\ node' = "up" /\ offset' = ckpt
      /\ UNCHANGED <<file, next, ckpt, hot, batch, chan, fresh, stops, crashes, torn, unsaved, rotations>>
  BY DEF Start, disk, counters
<1>3. Frames' = Frames
  BY <1>2 DEF Frames, InFlight
<1>4. ~Unended /\ ~Unended' /\ (Saved' <=> Saved)
  <2>1. ~Unended
    BY <1>1, <1>2 DEF Sequenced
  <2> QED BY <2>1, <1>2 DEF Unended, Saved
<1>5. LineTypes'
  BY <1>1, <1>2 DEF LineTypes
<1>6. FileIsLog'
  BY <1>1, <1>2 DEF FileIsLog
<1>7. Whole'
  BY <1>1, <1>2, <1>3 DEF Whole, Boundary
<1>8. FramesWritten'
  BY <1>1, <1>2, <1>3 DEF FramesWritten
<1>9. Sequenced'
  <2>1. ASSUME Saved' PROVE InSequence(Frames)' /\ Ahead(ckpt)' /\ Ahead(offset)'
    <3>1. InSequence(Frames) /\ Ahead(ckpt)
      BY <2>1, <1>1, <1>4 DEF Sequenced
    <3>2. InSequence(Frames)'
      BY <3>1, <1>3 DEF InSequence
    <3>3. Ahead(ckpt)' /\ Ahead(offset)'
      BY <3>1, <1>2, <1>3 DEF Ahead, Floor
    <3> QED BY <3>2, <3>3
  <2> QED BY <2>1, <1>2, <1>4 DEF Sequenced
<1>10. AllRead'
  BY <1>4 DEF AllRead
<1> QED BY <1>5, <1>6, <1>7, <1>8, <1>9, <1>10 DEF LineInv

\* The next byte is of a later line than every newline of the file.
LEMMA NewlineBehind ==
    ASSUME LineTypes, FileIsLog, NEW i \in 1 .. Len(file), IsNewline(file[i])
    PROVE  file[i][1] < next[1]
<1>1. Before(file[i], next)
  BY DEF FileIsLog
<1>2. file[i][2] = Size[file[i][1]] /\ file[i][1] \in Line /\ Size[file[i][1]] \in Nat
  BY FileByte DEF IsNewline
<1>3. next[2] \in Nat /\ (next[1] \in Line => next[2] <= Size[next[1]])
  BY DEF LineTypes, Byte
<1>4. CASE file[i][1] = next[1] /\ file[i][2] < next[2]
  BY <1>2, <1>3, <1>4
<1> QED BY <1>1, <1>4 DEF Before

\* A poll adds the lines behind the offset, all of them.
LEMMA LinesPoll == ASSUME LineInv, Poll PROVE LineInv'
<1> DEFINE off == Seek
           new == LinesFrom(off)
           c == Consumed(off)
<1>1. LineTypes /\ FileIsLog /\ Whole /\ FramesWritten /\ Sequenced /\ AllRead
  BY DEF LineInv
<1>2. /\ node # "down" /\ batch = <<>> /\ batch' = new /\ offset' = c
      /\ UNCHANGED <<file, next, hot, node, chan, fresh, stops, crashes, torn, rotations>>
      /\ \/ ckpt' = (IF c # off THEN c ELSE ckpt) /\ unsaved' = unsaved
         \/ ckpt' = ckpt /\ unsaved' = unsaved + 1
  BY DEF Poll
<1>3. /\ off = Floor(offset) /\ off \in 0 .. Len(file) /\ off \in Nat /\ Len(file) \in Nat /\ offset \in Nat /\ ckpt \in Nat
      /\ hot \in Seq(Frame) /\ fresh \in Seq(Frame) /\ chan \in Seq(Frame)
  <2>1. Len(file) \in Nat /\ offset \in Nat
    BY <1>1, LenProperties DEF LineTypes
  <2> QED BY <2>1, <1>1 DEF Seek, Floor, LineTypes
<1> HIDE DEF off
<1>4. /\ new \in Seq(Frame) /\ InSequence(new)
      /\ \A g \in Range(new) : \E e \in Ends(off) : g.line = file[e][1]
      /\ Boundary(off) =>
             Range(new) = {[line |-> l, from |-> 1] : l \in {file[e][1] : e \in {n \in Ends(off) : Size[file[n][1]] > 1}}}
  BY <1>1, <1>3, PollLines
<1>5. /\ c \in off .. Len(file) /\ c \in Nat /\ \A e \in Ends(off) : e <= c
      /\ c = off \/ c \in Ends(off)
  BY <1>1, <1>3, ConsumedIs
<1>6. \A e \in Ends(off) : e \in 1 .. Len(file) /\ off < e /\ IsNewline(file[e]) /\ e \in Nat
  BY <1>1, <1>3, EndIsNewline
<1> HIDE DEF new, c
<1>7. Frames' = Frames \o new /\ Frames \in Seq(Frame) /\ Range(Frames') = Range(Frames) \cup Range(new)
  <2> DEFINE h == fresh \o chan
  <2>1. h \in Seq(Frame) /\ Frames \in Seq(Frame) /\ Frames = hot \o (h \o batch)
    BY <1>1, FramesAre
  <2>2. Frames' = hot \o (h \o new)
    BY <1>2 DEF Frames, InFlight
  <2> HIDE DEF h
  <2>3. Frames = hot \o h
    <3>1. h \o <<>> = h
      BY <2>1, ConcatEmptySeq
    <3> QED BY <3>1, <2>1, <1>2
  <2>0. h \in Seq(Frame) /\ hot \in Seq(Frame) /\ new \in Seq(Frame) /\ Frames \in Seq(Frame)
    BY <2>1, <1>3, <1>4
  <2>4. (hot \o h) \o new = hot \o (h \o new)
    BY <2>0, Regrouped
  <2>5. Frames' = Frames \o new
    BY <2>2, <2>3, <2>4
  <2>6. Range(Frames \o new) = Range(Frames) \cup Range(new)
    BY <2>0, RangeConcatenation
  <2> QED BY <2>1, <2>5, <2>6
<1>8. LineTypes'
  <2>1. unsaved' \in Nat /\ ckpt' \in Nat
    BY <1>1, <1>2, <1>5 DEF LineTypes
  <2> QED BY <2>1, <1>1, <1>2, <1>4, <1>5 DEF LineTypes
<1>9. FileIsLog'
  BY <1>1, <1>2 DEF FileIsLog
<1>10. FramesWritten'
  <2>1. \A g \in Range(new) : g.line < next[1]
    BY <1>1, <1>4, <1>6, NewlineBehind
  <2> QED BY <2>1, <1>1, <1>2, <1>7 DEF FramesWritten
<1>11. ASSUME rotations = 0 PROVE off = offset /\ Boundary(off) /\ Boundary(c) /\ Boundary(ckpt)
  <2>1. Boundary(offset) /\ Boundary(ckpt)
    BY <1>1, <1>11 DEF Whole
  <2>2. off = offset
    BY <2>1, <1>3 DEF Boundary, Floor
  <2>3. Boundary(c)
    <3>1. CASE c = off
      BY <3>1, <2>1, <2>2
    <3>2. CASE c \in Ends(off)
      BY <3>2, <1>5, <1>6 DEF Boundary
    <3> QED BY <3>1, <3>2, <1>5
  <2> QED BY <2>1, <2>2, <2>3
<1>12. Whole'
  <2> SUFFICES ASSUME rotations = 0
               PROVE  Boundary(ckpt)' /\ Boundary(offset)' /\ \A f \in Range(Frames') : f.from = 1
    BY <1>2 DEF Whole
  <2>1. Boundary(ckpt)' /\ Boundary(offset)'
    BY <1>2, <1>11 DEF Boundary, IsNewline
  <2>2. \A f \in Range(new) : f.from = 1
    BY <1>4, <1>11
  <2>3. \A f \in Range(Frames) : f.from = 1
    BY <1>1 DEF Whole
  <2> QED BY <2>1, <2>2, <2>3, <1>7
<1>13. ASSUME Ahead(offset), InSequence(Frames)
       PROVE  /\ InSequence(Frames')
              /\ \A f \in Range(Frames') : \A i \in c + 1 .. Len(file) : f.line < file[i][1]
  <2>1. ASSUME NEW f \in Range(Frames), NEW i \in off + 1 .. Len(file) PROVE f.line < file[i][1]
    BY <1>3, <1>13 DEF Ahead
  <2>2. ASSUME NEW f \in Range(Frames), NEW g \in Range(new) PROVE f.line < g.line
    <3>1. PICK e \in Ends(off) : g.line = file[e][1]
      BY <1>4
    <3>2. e \in off + 1 .. Len(file)
      BY <1>3, <1>6
    <3> QED BY <3>1, <3>2, <2>1
  <2>3. InSequence(Frames \o new)
    BY <2>2, <1>4, <1>7, <1>13, InSequenceConcat
  <2>4. ASSUME NEW f \in Range(Frames), NEW i \in c + 1 .. Len(file) PROVE f.line < file[i][1]
    <3>1. i \in off + 1 .. Len(file)
      BY <1>3, <1>5
    <3> QED BY <3>1, <2>1
  <2>5. ASSUME NEW g \in Range(new), NEW i \in c + 1 .. Len(file) PROVE g.line < file[i][1]
    <3>1. PICK e \in Ends(off) : g.line = file[e][1]
      BY <1>4
    <3>2. e \in 1 .. Len(file) /\ IsNewline(file[e]) /\ i \in 1 .. Len(file) /\ e < i
      BY <1>3, <1>5, <1>6
    <3> QED BY <3>1, <3>2, <1>1, AfterNewline
  <2> QED BY <2>3, <2>4, <2>5, <1>7
<1>14. (Saved' => Saved /\ ckpt' = IF c # off THEN c ELSE ckpt) /\ (Unended' <=> Unended)
  <2>1. unsaved \in Nat /\ torn \in Nat /\ torn' = torn
    BY <1>1, <1>2 DEF LineTypes
  <2>2. unsaved' = unsaved + 1 => ~Saved'
    BY <2>1 DEF Saved
  <2>3. unsaved' = unsaved => (Saved' <=> Saved)
    BY <2>1 DEF Saved
  <2>4. Unended' <=> Unended
    BY <1>2 DEF Unended
  <2> QED BY <2>2, <2>3, <2>4, <1>2
<1>15. Sequenced'
  <2>1. ASSUME Saved' \/ Unended' PROVE InSequence(Frames)' /\ Ahead(offset)'
    <3>1. InSequence(Frames) /\ Ahead(offset)
      BY <2>1, <1>1, <1>2, <1>14 DEF Sequenced
    <3>2. InSequence(Frames') /\ \A f \in Range(Frames') : \A i \in c + 1 .. Len(file) : f.line < file[i][1]
      BY <3>1, <1>13
    <3>3. InSequence(Frames)'
      BY <3>2 DEF InSequence
    <3>4. (IF Len(file) < c THEN 0 ELSE c) = c
      BY <1>3, <1>5
    <3>5. Ahead(offset)'
      BY <3>2, <3>4, <1>2 DEF Ahead, Floor
    <3> QED BY <3>3, <3>5
  <2>2. ASSUME Saved' PROVE Ahead(ckpt)'
    <3>1. CASE c # off
      <4>1. ckpt' = offset'
        BY <3>1, <2>2, <1>2, <1>14
      <4> QED BY <4>1, <2>1, <2>2 DEF Ahead, Floor
    <3>2. CASE c = off
      <4>1. Ends(off) = {}
        BY <3>2, <1>3, <1>5, <1>6
      <4>2. Range(Frames') = Range(Frames)
        BY <4>1, <1>4, <1>7
      <4>3. ckpt' = ckpt /\ Ahead(ckpt)
        BY <3>2, <2>2, <1>1, <1>14 DEF Sequenced
      <4> QED BY <4>2, <4>3, <1>2 DEF Ahead, Floor
    <3> QED BY <3>1, <3>2
  <2>3. Unended' => node' = "up"
    BY <1>1, <1>2, <1>14 DEF Sequenced
  <2> QED BY <2>1, <2>2, <2>3 DEF Sequenced
<1>16. AllRead'
  <2> SUFFICES ASSUME Unended, rotations = 0
               PROVE  /\ Range(Frames') = {[line |-> l, from |-> 1] : l \in LinesWithin(offset)'}
                      /\ unsaved' = 0 => ckpt' = c
    BY <1>2, <1>14 DEF AllRead
  <2>1. off = offset /\ Boundary(off)
    BY <1>11
  <2> DEFINE L == {file[e][1] : e \in {n \in Ends(off) : Size[file[n][1]] > 1}}
  <2>2. LinesWithin(offset)' = LinesWithin(off) \cup L
    <3>1. LinesWithin(offset)' = LinesWithin(c)
      BY <1>2 DEF LinesWithin
    <3>2. ASSUME NEW l \in LinesWithin(c) PROVE l \in LinesWithin(off) \cup L
      <4>1. PICK i \in 1 .. c : file[i] = <<l, Size[l]>>
        BY <3>2 DEF LinesWithin
      <4>2. l \in Line /\ Size[l] > 1 /\ file[i][1] = l /\ IsNewline(file[i])
        BY <3>2, <4>1 DEF LinesWithin, IsNewline
      <4>3. CASE i \in 1 .. off
        BY <4>1, <4>2, <4>3 DEF LinesWithin
      <4>4. CASE i \notin 1 .. off
        <5>1. i \in off + 1 .. Len(file)
          BY <4>4, <1>3, <1>5
        <5>2. i \in Ends(off)
          BY <5>1, <4>2 DEF Ends
        <5> QED BY <5>2, <4>2
      <4> QED BY <4>3, <4>4
    <3>3. ASSUME NEW l \in LinesWithin(off) PROVE l \in LinesWithin(c)
      BY <3>3, <1>3, <1>5 DEF LinesWithin
    <3>4. ASSUME NEW e \in Ends(off), Size[file[e][1]] > 1 PROVE file[e][1] \in LinesWithin(c)
      <4>1. e \in 1 .. c /\ e \in 1 .. Len(file) /\ file[e][2] = Size[file[e][1]]
        BY <1>5, <1>6 DEF IsNewline
      <4>2. file[e] = <<file[e][1], Size[file[e][1]]>> /\ file[e][1] \in Line
        BY <4>1, <1>1, FileByte
      <4> QED BY <4>1, <4>2, <3>4 DEF LinesWithin
    <3> QED BY <3>1, <3>2, <3>3, <3>4
  <2>3. Range(new) = {[line |-> l, from |-> 1] : l \in L}
    BY <2>1, <1>4
  <2>4. Range(Frames) = {[line |-> l, from |-> 1] : l \in LinesWithin(off)} /\ (unsaved = 0 => ckpt = off)
    BY <2>1, <1>1 DEF AllRead
  <2> HIDE DEF L
  <2>5. Range(Frames') = {[line |-> l, from |-> 1] : l \in LinesWithin(offset)'}
    BY <2>2, <2>3, <2>4, <1>7
  <2>6. unsaved' = 0 => ckpt' = c
    <3>1. unsaved \in Nat
      BY <1>1 DEF LineTypes
    <3> QED BY <3>1, <2>4, <1>2
  <2> QED BY <2>5, <2>6
<1> QED BY <1>8, <1>9, <1>10, <1>12, <1>15, <1>16 DEF LineInv

LEMMA LineInitial == Init => LineInv
<1> SUFFICES ASSUME Init PROVE LineInv
  OBVIOUS
<1>1. /\ file = <<>> /\ ckpt = 0 /\ hot = <<>> /\ node = "up" /\ offset = 0
      /\ batch = <<>> /\ chan = <<>> /\ fresh = <<>> /\ next = <<1, 1>>
      /\ stops = 0 /\ crashes = 0 /\ torn = 0 /\ unsaved = 0 /\ rotations = 0
  BY DEF Init
<1>2. <<>> \in Seq(Byte) /\ <<>> \in Seq(Frame) /\ Len(<<>>) = 0
  OBVIOUS
<1>3. Frames = <<>> /\ Range(Frames) = {} /\ DOMAIN Frames = {}
  <2>1. Frames = <<>>
    BY <1>1, <1>2, ConcatEmptySeq DEF Frames, InFlight
  <2> QED BY <2>1 DEF Range
<1>4. next[1] = 1 /\ next[2] = 1 /\ next \in (Nat \ {0}) \X (Nat \ {0})
  BY <1>1
<1>5. next[1] \in Line => next \in Byte
  <2>1. \A l \in Line : 1 <= Size[l]
    BY PipelineAssumption, LenProperties DEF Line
  <2> QED BY <2>1, <1>1, <1>4 DEF Byte
<1>6. LineTypes
  BY <1>1, <1>2, <1>4, <1>5 DEF LineTypes
<1>7. FileIsLog
  BY <1>1, <1>2, <1>4 DEF FileIsLog
<1>8. Whole /\ FramesWritten
  BY <1>1, <1>2, <1>3 DEF Whole, FramesWritten, Boundary
<1>9. Sequenced
  BY <1>1, <1>3 DEF Sequenced, Ahead, InSequence
<1>10. AllRead
  <2>1. LinesWithin(0) = {}
    BY DEF LinesWithin
  <2> QED BY <2>1, <1>1, <1>3 DEF AllRead
<1> QED BY <1>6, <1>7, <1>8, <1>9, <1>10 DEF LineInv

LEMMA LineStep == LineInv /\ [Next]_vars => LineInv'
<1> SUFFICES ASSUME LineInv, [Next]_vars PROVE LineInv'
  OBVIOUS
<1>1. CASE Send \/ Consume \/ Commit \/ Roll \/ Interrupt
  <2>1. LineTypes
    BY DEF LineInv
  <2> QED BY <1>1, <2>1, PassesSteps, LinesPass
<1>2. CASE Write
  BY <1>2, LinesWrite
<1>3. CASE Rotate
  BY <1>3, LinesRotate
<1>4. CASE Poll
  BY <1>4, LinesPoll
<1>5. CASE Exit \/ Crash \/ Tear
  BY <1>5, LinesLost
<1>6. CASE Start
  BY <1>6, LinesStart
<1>7. CASE UNCHANGED vars
  <2>1. UNCHANGED <<file, ckpt, hot, node, offset, batch, chan, fresh, next, stops, crashes, torn, unsaved, rotations>>
    BY <1>7 DEF vars, disk, memory, counters
  <2>2. Frames' = Frames
    BY <2>1 DEF Frames, InFlight
  <2>3. Whole'
    BY <2>1, <2>2 DEF LineInv, Whole, Boundary
  <2>4. Sequenced'
    BY <2>1, <2>2 DEF LineInv, Sequenced, Saved, Unended, InSequence, Ahead, Floor
  <2>5. AllRead'
    BY <2>1, <2>2 DEF LineInv, AllRead, Unended, LinesWithin
  <2> QED BY <2>1, <2>2, <2>3, <2>4, <2>5 DEF LineInv, LineTypes, FileIsLog, FramesWritten
<1> QED BY <1>1, <1>2, <1>3, <1>4, <1>5, <1>6, <1>7 DEF Next

\* The file is a piece of the log; the offset and the checkpoint are behind all
\* that was read, and behind a line as long as the log is not rotated; until the
\* node first ends, all lines behind the offset were read.
THEOREM LineInvariant == Spec => []LineInv
  BY LineInitial, LineStep, PTL DEF Spec

\* The tailer hands on whole lines as long as the log is not rotated, and no
\* line twice or out of order, over stops, crashes and rotations, as long as
\* write_checkpoint succeeds: for every log, channel and number of restarts.
THEOREM LinesAlways == Spec => []LinesHold
<1>1. LineInv => LinesHold
  BY DEF LineInv, Whole, Sequenced, LinesHold, WholeLines, InOrder, Frames, Saved
<1> QED BY <1>1, LineInvariant, PTL

\* Until the node first ends, the hot index with the frames on their way has
\* every complete line behind the offset, once and in order, whatever polls,
\* sends, commits and checkpoint writes that fail do.
THEOREM AllAccounted == Spec => []Accounted
<1>1. LineInv => Accounted
  <2> SUFFICES ASSUME LineInv, stops + crashes + torn + rotations = 0 PROVE
                   /\ Range(Frames) = {[line |-> l, from |-> 1] : l \in LinesWithin(offset)}
                   /\ InSequence(Frames)
                   /\ unsaved = 0 => ckpt = offset
    BY DEF Accounted, Frames
  <2>1. Unended /\ rotations = 0
    <3>1. stops \in Nat /\ crashes \in Nat /\ torn \in Nat /\ rotations \in Nat
      BY DEF LineInv, LineTypes
    <3> QED BY <3>1 DEF Unended
  <2> QED BY <2>1 DEF LineInv, AllRead, Sequenced
<1> QED BY <1>1, LineInvariant, PTL
===========================================================================
