----------------------------- MODULE NodeProofs -----------------------------
(***************************************************************************)
(* Proofs about modules Detection and Telemetry: the way of an event from  *)
(* the host to the hot index, and of its alerts to the sinks.              *)
(***************************************************************************)
EXTENDS Telemetry, SequenceTheorems, FiniteSetTheorems, TLAPS

---------------------------------------------------------------------------
(* AtPositions                                                             *)

\* The number of i among the positions I.
Nth(I, i) == Cardinality({j \in I : j <= i})

\* Positions are numbered from one, in their order.
LEMMA Numbered ==
    ASSUME NEW n \in Nat, NEW I \in SUBSET (1 .. n)
    PROVE  /\ IsFiniteSet(I) /\ Cardinality(I) \in Nat
           /\ \A i \in I : Nth(I, i) \in 1 .. Cardinality(I)
           /\ \A i, j \in I : i < j => Nth(I, i) < Nth(I, j)
           /\ \A k \in 1 .. Cardinality(I) : \E i \in I : Nth(I, i) = k
<1> DEFINE c == Cardinality(I)
           f == [i \in I |-> Nth(I, i)]
<1>1. IsFiniteSet(I) /\ c \in Nat
  <2>1. IsFiniteSet(1 .. n)
    BY FS_Interval
  <2>2. IsFiniteSet(I)
    BY <2>1, FS_Subset
  <2> QED BY <2>2, FS_CardinalityType
<1>2. ASSUME NEW i \in I
      PROVE  IsFiniteSet({j \in I : j <= i}) /\ Nth(I, i) \in Nat /\ Nth(I, i) <= c /\ Nth(I, i) # 0
  <2> DEFINE J == {j \in I : j <= i}
  <2>1. J \in SUBSET I /\ i \in J
    OBVIOUS
  <2> HIDE DEF J
  <2>2. IsFiniteSet(J) /\ Cardinality(J) <= c
    BY <1>1, <2>1, FS_Subset
  <2>3. Cardinality(J) \in Nat
    BY <2>2, FS_CardinalityType
  <2>4. Cardinality(J) # 0
    BY <2>1, <2>2, FS_EmptySet
  <2> QED BY <2>2, <2>3, <2>4 DEF Nth, J
<1>3. ASSUME NEW i \in I PROVE Nth(I, i) \in 1 .. c
  <2>1. Nth(I, i) \in Nat /\ Nth(I, i) <= c /\ Nth(I, i) # 0 /\ c \in Nat
    BY <1>1, <1>2
  <2> HIDE DEF c
  <2> QED BY <2>1
<1>n. \A i \in I : i \in Nat
  OBVIOUS
<1>4. ASSUME NEW i \in I, NEW j \in I, i < j PROVE Nth(I, i) < Nth(I, j)
  <2> DEFINE J == {h \in I : h <= i}
             K == {h \in I : h <= j}
  <2>1. J \in SUBSET K /\ j \in K /\ j \notin J
    <3>1. i \in Nat /\ j \in Nat /\ i < j
      BY <1>4, <1>n
    <3>2. \A h \in I : h <= i => h <= j
      BY <3>1, <1>n
    <3>3. j <= j /\ ~(j <= i)
      BY <3>1
    <3> QED BY <3>2, <3>3, Zenon
  <2>2. IsFiniteSet(K) /\ Nth(I, i) \in Nat /\ Nth(I, j) \in Nat
    BY <1>2
  <2>3. Cardinality(J) = Nth(I, i) /\ Cardinality(K) = Nth(I, j)
    BY DEF Nth
  <2> HIDE DEF J, K
  <2>4. Cardinality(J) <= Cardinality(K) /\ Cardinality(J) # Cardinality(K)
    BY <2>1, <2>2, FS_Subset
  <2> QED BY <2>2, <2>3, <2>4
<1>5. f \in Injection(I, 1 .. c)
  <2>1. f \in [I -> 1 .. c]
    BY <1>3
  <2> SUFFICES ASSUME NEW i \in I, NEW j \in I, f[i] = f[j] PROVE i = j
    BY <2>1 DEF Injection, IsInjective
  <2>2. i \in Nat /\ j \in Nat /\ Nth(I, i) = Nth(I, j) /\ Nth(I, i) \in Nat
    <3>1. f[i] = Nth(I, i) /\ f[j] = Nth(I, j)
      OBVIOUS
    <3> HIDE DEF f
    <3> QED BY <1>2, <1>n, <3>1
  <2>3. ~(i < j) /\ ~(j < i)
    BY <1>4, <2>2
  <2> QED BY <2>2, <2>3
<1>6. f \in Surjection(I, 1 .. c)
  <2>1. IsFiniteSet(1 .. c) /\ Cardinality(1 .. c) = c
    BY <1>1, FS_Interval
  <2> HIDE DEF f
  <2> QED BY <1>5, <2>1, FS_Injection
<1>7. \A k \in 1 .. c : \E i \in I : Nth(I, i) = k
  BY <1>6 DEF Surjection
<1> QED BY <1>1, <1>3, <1>4, <1>7

\* What AtPositions takes, it takes in their order.
LEMMA Taken ==
    ASSUME NEW X, NEW s \in Seq(X), NEW I \in SUBSET (1 .. Len(s))
    PROVE  /\ AtPositions(s, I) \in Seq(X) /\ Len(AtPositions(s, I)) = Cardinality(I) /\ Cardinality(I) \in Nat
           /\ \A i \in I : Nth(I, i) \in 1 .. Cardinality(I) /\ AtPositions(s, I)[Nth(I, i)] = s[i]
           /\ \A k \in 1 .. Cardinality(I) : \E i \in I : Nth(I, i) = k
<1> DEFINE c == Cardinality(I)
           t == AtPositions(s, I)
<1>1. /\ c \in Nat
      /\ \A i \in I : Nth(I, i) \in 1 .. c
      /\ \A i, j \in I : i < j => Nth(I, i) < Nth(I, j)
      /\ \A k \in 1 .. c : \E i \in I : Nth(I, i) = k
  <2>1. Len(s) \in Nat
    OBVIOUS
  <2> QED BY <2>1, Numbered
<1>2. \A k \in 1 .. c : (CHOOSE i \in I : Nth(I, i) = k) \in I /\ Nth(I, CHOOSE i \in I : Nth(I, i) = k) = k
  BY <1>1
<1>3. \A i, j \in I : Nth(I, i) = Nth(I, j) => i = j
  <2>1. \A i \in I : i \in Nat
    OBVIOUS
  <2>2. \A i \in I : Nth(I, i) \in Nat
    BY <1>1
  <2> HIDE DEF c
  <2> QED BY <1>1, <2>1, <2>2
<1>4. t = [k \in 1 .. c |-> s[CHOOSE i \in I : Nth(I, i) = k]]
  BY DEF AtPositions, Nth
<1>5. ASSUME NEW k \in 1 .. c PROVE t[k] \in X
  <2> DEFINE h == CHOOSE i \in I : Nth(I, i) = k
  <2>1. h \in I /\ t[k] = s[h]
    BY <1>2, <1>4
  <2> HIDE DEF h, t
  <2>2. h \in 1 .. Len(s)
    BY <2>1
  <2> QED BY <2>1, <2>2
<1>6. t \in [1 .. c -> X]
  BY <1>4, <1>5
<1>7. t \in Seq(X) /\ Len(t) = c
  BY <1>1, <1>6
<1>8. ASSUME NEW i \in I PROVE t[Nth(I, i)] = s[i]
  <2> DEFINE k == Nth(I, i)
             h == CHOOSE j \in I : Nth(I, j) = k
  <2>1. k \in 1 .. c
    BY <1>1
  <2>2. h \in I /\ Nth(I, h) = k
    BY <1>2, <2>1
  <2>3. t[k] = s[h]
    BY <1>4, <2>1
  <2> HIDE DEF h, t
  <2>4. h = i
    BY <1>3, <2>2
  <2> QED BY <2>3, <2>4
<1> QED BY <1>1, <1>7, <1>8

\* What is added to a sequence is taken if its position is.
LEMMA TakenMore ==
    ASSUME NEW X, NEW s \in Seq(X), NEW x \in X, NEW I \in SUBSET (1 .. Len(s))
    PROVE  /\ AtPositions(Append(s, x), I) = AtPositions(s, I)
           /\ AtPositions(Append(s, x), I \cup {Len(s) + 1}) = Append(AtPositions(s, I), x)
<1> DEFINE n == Len(s)
           r == Append(s, x)
           J == I \cup {n + 1}
           c == Cardinality(I)
           t == AtPositions(s, I)
           u == AtPositions(r, J)
<1>1. n \in Nat /\ r \in Seq(X) /\ Len(r) = n + 1 /\ r[n + 1] = x /\ \A i \in 1 .. n : r[i] = s[i]
  OBVIOUS
<1>2. /\ t \in Seq(X) /\ Len(t) = c /\ c \in Nat
      /\ \A i \in I : Nth(I, i) \in 1 .. c /\ t[Nth(I, i)] = s[i]
      /\ \A k \in 1 .. c : \E i \in I : Nth(I, i) = k
  BY Taken
<1>3. AtPositions(r, I) = t
  <2> DEFINE w == AtPositions(r, I)
  <2>1. I \in SUBSET (1 .. Len(r))
    BY <1>1
  <2> HIDE DEF r
  <2>2. w \in Seq(X) /\ Len(w) = c /\ \A i \in I : w[Nth(I, i)] = r[i]
    BY <1>1, <2>1, Taken
  <2>3. \A k \in 1 .. c : w[k] = t[k]
    <3> SUFFICES ASSUME NEW k \in 1 .. c PROVE w[k] = t[k]
      OBVIOUS
    <3>1. PICK i \in I : Nth(I, i) = k
      BY <1>2
    <3>2. i \in 1 .. n
      OBVIOUS
    <3> HIDE DEF w, t
    <3> QED BY <1>1, <1>2, <2>2, <3>1, <3>2
  <2> HIDE DEF w, t
  <2> QED BY <1>2, <2>2, <2>3, SeqEqual DEF w
<1>4. Cardinality(J) = c + 1 /\ J \in SUBSET (1 .. Len(r))
  <2>1. n + 1 \notin I
    BY <1>1
  <2>2. IsFiniteSet(I)
    BY <1>1, Numbered
  <2>3. Cardinality(J) = c + 1
    BY <2>1, <2>2, FS_AddElement
  <2>4. n + 1 \in 1 .. Len(r) /\ 1 .. n \subseteq 1 .. Len(r)
    BY <1>1
  <2> HIDE DEF r
  <2> QED BY <2>3, <2>4
<1>5. u \in Seq(X) /\ Len(u) = c + 1 /\ \A i \in J : u[Nth(J, i)] = r[i]
  <2> HIDE DEF r, J
  <2> QED BY <1>1, <1>4, Taken
<1>6. \A i \in I : Nth(J, i) = Nth(I, i)
  <2> SUFFICES ASSUME NEW i \in I PROVE Nth(J, i) = Nth(I, i)
    OBVIOUS
  <2>1. {j \in J : j <= i} = {j \in I : j <= i}
    BY <1>1
  <2> QED BY <2>1 DEF Nth
<1>7. Nth(J, n + 1) = c + 1
  <2>1. \A j \in J : j <= n + 1
    BY <1>1
  <2> QED BY <1>4, <2>1 DEF Nth
<1> HIDE DEF u, t, r, J
<1>8. \A k \in 1 .. c + 1 : u[k] = Append(t, x)[k]
  <2> SUFFICES ASSUME NEW k \in 1 .. c + 1 PROVE u[k] = Append(t, x)[k]
    OBVIOUS
  <2>1. CASE k = c + 1
    <3>1. u[c + 1] = x
      BY <1>1, <1>5, <1>7 DEF J
    <3>2. Append(t, x)[c + 1] = x
      BY <1>2
    <3> QED BY <2>1, <3>1, <3>2
  <2>2. CASE k # c + 1
    <3>1. k \in 1 .. c
      BY <1>2, <2>2
    <3>2. PICK i \in I : Nth(I, i) = k
      BY <1>2, <3>1
    <3>3. u[k] = s[i] /\ t[k] = s[i]
      BY <1>1, <1>2, <1>5, <1>6, <3>2 DEF J
    <3>4. Append(t, x)[k] = t[k]
      BY <1>2, <3>1
    <3> QED BY <3>3, <3>4
  <2> QED BY <2>1, <2>2
<1>9. u = Append(t, x)
  <2>1. Append(t, x) \in Seq(X) /\ Len(Append(t, x)) = c + 1
    BY <1>2
  <2> DEFINE v == Append(t, x)
  <2> HIDE DEF v
  <2>2. \A k \in 1 .. c + 1 : u[k] = v[k]
    BY <1>8 DEF v
  <2>3. v \in Seq(X) /\ Len(v) = c + 1
    BY <2>1 DEF v
  <2>4. u = v
    BY <1>5, <2>2, <2>3, SeqEqual
  <2> QED BY <2>4 DEF v
<1> QED BY <1>3, <1>9 DEF u, t, r, J


---------------------------------------------------------------------------
(* The run loop's state                                                    *)

AlertRec == [rule : Rule \cup {Meta}, event : Int]
AgentEvent == Nat \ {0}
InputEvent == {e \in Int : e < 0}
LoopRec ==
    [pc : {"select", "detect", "push", "emit", "index"}, event : Int, alerts : Seq(AlertRec), sink : Nat,
     index : BOOLEAN, sigma : BOOLEAN, rest : Seq(InputEvent)]

\* Alerts wait only while they are pushed and emitted, which follows detect; an
\* event of an agent is alone and is indexed.
LoopShape(l) ==
    /\ l.pc = "select" => l = Select
    /\ l.pc \in {"push", "emit"} <=> l.alerts # <<>>
    /\ l.pc = "emit" => l.sink \in 1 .. Len(Sinks)
    /\ l.pc \in {"detect", "push", "emit"} => l.sigma
    /\ l.pc # "select" => l.event \in AgentEvent \cup InputEvent
    /\ l.pc # "select" /\ l.event \in AgentEvent => l.index /\ l.sigma = SigmaActive /\ l.rest = <<>>

LoopTypes ==
    /\ node \in {"up", "down"} /\ rx \in Seq(Frame) /\ inputsOpen \in BOOLEAN
    /\ inbox \in Seq(AgentEvent) /\ fresh \in Seq(Int) /\ hot \in Seq(Int)
    /\ loop \in LoopRec /\ LoopShape(loop)
    /\ stored \in Seq(AlertRec) /\ filed \in Seq(AlertRec) /\ told \in [Range(Sinks) -> Seq(AlertRec)]
    /\ ends \in Nat

LEMMA SelectFacts ==
    /\ Select \in LoopRec /\ LoopShape(Select)
    /\ Select.pc = "select" /\ Select.alerts = <<>> /\ Select.rest = <<>> /\ Select.event = 0
<1>1. \A q \in Seq(AlertRec), r \in Seq(InputEvent) :
          [pc |-> "select", event |-> 0, alerts |-> q, sink |-> 0, index |-> FALSE, sigma |-> FALSE, rest |-> r] \in LoopRec
  BY DEF LoopRec
<1>2. <<>> \in Seq(AlertRec) /\ <<>> \in Seq(InputEvent)
  OBVIOUS
<1>3. Select \in LoopRec
  BY <1>1, <1>2, Zenon DEF Select
<1>4. Select.pc = "select" /\ Select.alerts = <<>> /\ Select.rest = <<>> /\ Select.event = 0
  BY DEF Select
<1> QED BY <1>3, <1>4 DEF LoopShape

\* The loop takes up the next event of a frame.
LEMMA NextEventFacts ==
    ASSUME NEW l \in LoopRec, l.alerts = <<>>, NEW rest \in Seq(InputEvent)
    PROVE  /\ NextEvent(l, rest) \in LoopRec /\ LoopShape(NextEvent(l, rest))
           /\ rest = <<>> => NextEvent(l, rest) = Select
           /\ rest # <<>> =>
                  /\ NextEvent(l, rest).pc = (IF l.sigma THEN "detect" ELSE "index")
                  /\ NextEvent(l, rest).event = Head(rest) /\ NextEvent(l, rest).rest = Tail(rest)
                  /\ NextEvent(l, rest).sigma = l.sigma /\ NextEvent(l, rest).index = l.index
                  /\ NextEvent(l, rest).alerts = <<>>
<1>1. CASE rest = <<>>
  BY <1>1, SelectFacts DEF NextEvent
<1>2. CASE rest # <<>>
  <2> DEFINE k == NextEvent(l, rest)
             h == Head(rest)
             u == Tail(rest)
             c == IF l.sigma THEN "detect" ELSE "index"
  <2>1. h \in InputEvent /\ u \in Seq(InputEvent) /\ h \in Int /\ h \notin AgentEvent
    <3>1. h \in InputEvent /\ u \in Seq(InputEvent)
      BY <1>2, HeadTailProperties
    <3> QED BY <3>1 DEF InputEvent, AgentEvent
  <2>2. k = [l EXCEPT !.pc = c, !.event = h, !.rest = u]
    BY <1>2 DEF NextEvent
  <2>3. c \in {"detect", "index"} /\ (c = "detect" => l.sigma)
    OBVIOUS
  <2> HIDE DEF k, h, u, c
  <2>4. /\ k.pc = c /\ k.event = h /\ k.rest = u /\ k.alerts = <<>> /\ k.sigma = l.sigma /\ k.index = l.index
        /\ k \in LoopRec
    BY <2>1, <2>2, <2>3 DEF LoopRec
  <2>5. LoopShape(k)
    BY <2>1, <2>3, <2>4 DEF LoopShape
  <2> QED BY <1>2, <2>4, <2>5 DEF k, h, u, c
<1> QED BY <1>1, <1>2

\* The rules that fire on an event.
LEMMA RulesFacts ==
    ASSUME NEW e
    PROVE  /\ Matched(e) \in Seq(Rule) /\ Detected(e) \in Seq(Rule \ Suppressed)
           /\ Kept(e) \in Seq(Rule \ Suppressed)
           /\ IsInjective(Matched(e)) /\ IsInjective(Detected(e)) /\ IsInjective(Kept(e))
           /\ Range(Kept(e)) \cap Range(Detected(e)) = {}
           /\ Meta \notin Rule \cup Suppressed
<1> DEFINE b == Matched(e)
           I == {i \in DOMAIN b : b[i] \notin Suppressed}
           S == Rule \ Suppressed
<1>0. Meta \notin Rule \cup Suppressed
  BY DetectionAssumption
<1>1. b \in Seq(Rule) /\ IsInjective(b)
  <2>1. CASE e \in DOMAIN Base
    BY <2>1, DetectionAssumption DEF Matched
  <2>2. CASE e \notin DOMAIN Base
    BY <2>2 DEF Matched, IsInjective
  <2> QED BY <2>1, <2>2
<1>2. Detected(e) \in Seq(S) /\ IsInjective(Detected(e))
  <2>1. CASE e \in DOMAIN Custom
    BY <2>1, DetectionAssumption DEF Detected
  <2>2. CASE e \notin DOMAIN Custom
    BY <2>2 DEF Detected, IsInjective
  <2> QED BY <2>1, <2>2
<1>3. Range(b) \cap Range(Detected(e)) = {}
  <2>1. CASE e \in DOMAIN Base /\ e \in DOMAIN Custom
    BY <2>1, DetectionAssumption DEF Detected, Matched
  <2>2. CASE e \notin DOMAIN Base
    BY <2>2 DEF Matched, Range
  <2>3. CASE e \notin DOMAIN Custom
    BY <2>3 DEF Detected, Range
  <2> QED BY <2>1, <2>2, <2>3
<1> DEFINE t == Kept(e)
           c == Cardinality(I)
<1>4. I \in SUBSET (1 .. Len(b)) /\ Len(b) \in Nat
  <2>1. DOMAIN b = 1 .. Len(b) /\ Len(b) \in Nat
    BY <1>1
  <2> HIDE DEF b
  <2> QED BY <2>1
<1>5. t = AtPositions(b, I)
  BY DEF Kept
<1> HIDE DEF t, I, b
<1>6. /\ t \in Seq(Rule) /\ Len(t) = c /\ c \in Nat
      /\ \A i \in I : t[Nth(I, i)] = b[i]
      /\ \A k \in 1 .. c : \E i \in I : Nth(I, i) = k
  BY <1>1, <1>4, <1>5, Taken
<1>7. \A k \in 1 .. c : \E i \in I : t[k] = b[i] /\ Nth(I, i) = k
  BY <1>6
<1>8. \A i \in I : i \in DOMAIN b /\ b[i] \in Rule \ Suppressed
  <2>1. \A i \in I : i \in DOMAIN b /\ b[i] \notin Suppressed
    BY DEF I
  <2>2. \A i \in DOMAIN b : b[i] \in Rule
    BY <1>1
  <2> QED BY <2>1, <2>2
<1>9. t \in Seq(S)
  <2>1. \A k \in 1 .. c : t[k] \in S
    BY <1>7, <1>8
  <2>2. t \in [1 .. c -> S]
    BY <1>6, <2>1
  <2> HIDE DEF c, S
  <2> QED BY <1>6, <2>2
<1>10. DOMAIN t = 1 .. c
  BY <1>6
<1>11. IsInjective(t)
  <2> SUFFICES ASSUME NEW j \in 1 .. c, NEW k \in 1 .. c, t[j] = t[k] PROVE j = k
    BY <1>10 DEF IsInjective
  <2>1. PICK p \in I : t[j] = b[p] /\ Nth(I, p) = j
    BY <1>7
  <2>2. PICK q \in I : t[k] = b[q] /\ Nth(I, q) = k
    BY <1>7
  <2>3. p = q
    BY <1>1, <1>8, <2>1, <2>2 DEF IsInjective
  <2> QED BY <2>1, <2>2, <2>3
<1>12. Range(t) \cap Range(Detected(e)) = {}
  <2>1. \A r \in Range(t) : r \in Range(b)
    BY <1>7, <1>8, <1>10 DEF Range
  <2> QED BY <1>3, <2>1 DEF b
<1> QED BY <1>0, <1>1, <1>2, <1>9, <1>11, <1>12 DEF t, b


\* The alerts of an event: those of the rules kept, of a correlation that
\* fires, and of the custom detectors.
LEMMA DetectFacts ==
    ASSUME LoopTypes, Detect
    PROVE  \E fired \in {<<>>, <<Meta>>} :
               LET rules == Kept(loop.event) \o fired \o Detected(loop.event)
               IN  /\ rules \in Seq((Rule \cup {Meta}) \ Suppressed)
                   /\ loop'.alerts \in Seq(AlertRec)
                   /\ Len(loop'.alerts) = Len(rules)
                   /\ \A i \in 1 .. Len(rules) : loop'.alerts[i] = Alert(loop.event, rules[i])
                   /\ loop'.pc = (IF loop'.alerts = <<>> THEN "index" ELSE "push")
                   /\ loop' = [loop EXCEPT !.alerts = loop'.alerts, !.pc = loop'.pc]
                   /\ loop' \in LoopRec /\ LoopShape(loop')
<1> DEFINE S == (Rule \cup {Meta}) \ Suppressed
           e == loop.event
<1>1. PICK fired \in {<<>>, <<Meta>>} :
          LET rules == Kept(e) \o fired \o Detected(e)
              alerts == [i \in DOMAIN rules |-> Alert(e, rules[i])]
          IN  loop' = [loop EXCEPT !.alerts = alerts, !.pc = IF alerts = <<>> THEN "index" ELSE "push"]
  BY DEF Detect
<1> DEFINE rules == Kept(e) \o fired \o Detected(e)
           alerts == [i \in DOMAIN rules |-> Alert(e, rules[i])]
           c == IF alerts = <<>> THEN "index" ELSE "push"
<1>2. rules \in Seq(S)
  <2>1. Kept(e) \in Seq(S) /\ Detected(e) \in Seq(S) /\ Meta \in S
    <3>1. Kept(e) \in Seq(Rule \ Suppressed) /\ Detected(e) \in Seq(Rule \ Suppressed) /\ Meta \in S
      BY RulesFacts
    <3>2. \A q \in Seq(Rule \ Suppressed) : q \in Seq(S)
      OBVIOUS
    <3> QED BY <3>1, <3>2
  <2> HIDE DEF S
  <2>2. <<>> \in Seq(S) /\ <<Meta>> \in Seq(S)
    BY <2>1
  <2>3. fired \in Seq(S)
    BY <2>2
  <2> QED BY <2>1, <2>3
<1>3. loop \in LoopRec /\ e \in Int /\ loop.pc = "detect" /\ LoopShape(loop)
  BY DEF LoopTypes, LoopRec, Detect
<1> HIDE DEF rules
<1>4. Len(rules) \in Nat /\ DOMAIN rules = 1 .. Len(rules) /\ \A i \in 1 .. Len(rules) : rules[i] \in Rule \cup {Meta}
  BY <1>2
<1>5. alerts \in Seq(AlertRec) /\ Len(alerts) = Len(rules) /\ \A i \in 1 .. Len(rules) : alerts[i] = Alert(e, rules[i])
  <2>1. \A i \in 1 .. Len(rules) : Alert(e, rules[i]) \in AlertRec
    BY <1>3, <1>4 DEF Alert, AlertRec
  <2>2. alerts \in [1 .. Len(rules) -> AlertRec] /\ \A i \in 1 .. Len(rules) : alerts[i] = Alert(e, rules[i])
    BY <1>4, <2>1
  <2> HIDE DEF alerts
  <2> QED BY <1>4, <2>2
<1>6. loop' = [loop EXCEPT !.alerts = alerts, !.pc = c]
  BY <1>1 DEF rules
<1>7. c \in {"index", "push"} /\ (c = "push" <=> alerts # <<>>)
  OBVIOUS
<1> HIDE DEF alerts, c
<1>8. /\ loop'.alerts = alerts /\ loop'.pc = c /\ loop'.sigma = loop.sigma /\ loop'.event = e
      /\ loop'.index = loop.index /\ loop'.rest = loop.rest /\ loop' \in LoopRec
  BY <1>3, <1>5, <1>6, <1>7 DEF LoopRec
<1>9. LoopShape(loop')
  BY <1>3, <1>7, <1>8 DEF LoopShape
<1>10. c = (IF alerts = <<>> THEN "index" ELSE "push")
  BY DEF c
<1> QED BY <1>2, <1>5, <1>6, <1>8, <1>9, <1>10 DEF rules

\* The loop after a sink.
LEMMA AfterSinkFacts ==
    ASSUME LoopTypes, loop.pc \in {"push", "emit"}, NEW k \in 0 .. Len(Sinks)
    PROVE  /\ AfterSink(k) \in LoopRec /\ LoopShape(AfterSink(k))
           /\ AfterSink(k).event = loop.event /\ AfterSink(k).sigma = loop.sigma
           /\ AfterSink(k).index = loop.index /\ AfterSink(k).rest = loop.rest
           /\ AfterSink(k).pc \in {"push", "emit", "index"}
           /\ k < Len(Sinks) => AfterSink(k).pc = "emit" /\ AfterSink(k).sink = k + 1 /\ AfterSink(k).alerts = loop.alerts
           /\ ~(k < Len(Sinks)) => AfterSink(k).pc # "emit" /\ AfterSink(k).alerts = Tail(loop.alerts)
<1>1. loop \in LoopRec /\ LoopShape(loop) /\ loop.alerts \in Seq(AlertRec) /\ loop.alerts # <<>> /\ Len(Sinks) \in Nat
  <2>1. Len(Sinks) \in Nat
    BY DetectionAssumption
  <2> QED BY <2>1 DEF LoopTypes, LoopRec, LoopShape
<1>2. CASE k < Len(Sinks)
  <2>1. AfterSink(k) = [loop EXCEPT !.pc = "emit", !.sink = k + 1]
    BY <1>2 DEF AfterSink
  <2>2. k + 1 \in Nat /\ k + 1 \in 1 .. Len(Sinks)
    BY <1>1, <1>2
  <2> DEFINE l == AfterSink(k)
  <2> HIDE DEF l
  <2>3. /\ l \in LoopRec /\ l.pc = "emit" /\ l.sink = k + 1 /\ l.alerts = loop.alerts /\ l.event = loop.event
        /\ l.sigma = loop.sigma /\ l.index = loop.index /\ l.rest = loop.rest
    BY <1>1, <2>1, <2>2 DEF l, LoopRec
  <2>4. LoopShape(l)
    BY <1>1, <2>2, <2>3 DEF LoopShape
  <2> QED BY <1>2, <2>3, <2>4 DEF l
<1>3. CASE ~(k < Len(Sinks)) /\ Len(loop.alerts) > 1
  <2> DEFINE l == AfterSink(k)
             t == Tail(loop.alerts)
  <2>1. l = [loop EXCEPT !.pc = "push", !.alerts = t]
    BY <1>3 DEF AfterSink
  <2>2. t \in Seq(AlertRec) /\ t # <<>>
    <3>1. t \in Seq(AlertRec) /\ Len(t) = Len(loop.alerts) - 1
      BY <1>1, HeadTailProperties
    <3>2. Len(loop.alerts) \in Nat
      BY <1>1
    <3> HIDE DEF t
    <3>3. Len(t) # 0
      <4> DEFINE n == Len(loop.alerts)
      <4>1. n > 1 /\ n \in Nat /\ Len(t) = n - 1
        BY <1>3, <3>1, <3>2, Zenon
      <4> HIDE DEF n
      <4> QED BY <4>1
    <3>4. Len(<<>>) = 0
      OBVIOUS
    <3> QED BY <3>1, <3>3, <3>4
  <2> HIDE DEF l, t
  <2>3. /\ l \in LoopRec /\ l.pc = "push" /\ l.alerts = t /\ l.event = loop.event
        /\ l.sigma = loop.sigma /\ l.index = loop.index /\ l.rest = loop.rest
    BY <1>1, <2>1, <2>2 DEF LoopRec
  <2>4. LoopShape(l)
    BY <1>1, <2>2, <2>3 DEF LoopShape
  <2> QED BY <1>3, <2>3, <2>4 DEF l, t
<1>4. CASE ~(k < Len(Sinks)) /\ ~(Len(loop.alerts) > 1)
  <2> DEFINE l == AfterSink(k)
  <2>1. l = [loop EXCEPT !.pc = "index", !.alerts = <<>>]
    BY <1>4 DEF AfterSink
  <2>2. Tail(loop.alerts) = <<>> /\ <<>> \in Seq(AlertRec)
    BY <1>1, <1>4
  <2> HIDE DEF l
  <2>3. /\ l \in LoopRec /\ l.pc = "index" /\ l.alerts = <<>> /\ l.event = loop.event
        /\ l.sigma = loop.sigma /\ l.index = loop.index /\ l.rest = loop.rest
    <3>1. \A q \in Seq(AlertRec) : [loop EXCEPT !.pc = "index", !.alerts = q] \in LoopRec
      BY <1>1 DEF LoopRec
    <3>2. l \in LoopRec
      BY <2>1, <2>2, <3>1, Zenon
    <3> QED BY <1>1, <2>1, <3>2 DEF LoopRec
  <2>4. LoopShape(l)
    BY <1>1, <2>3 DEF LoopShape
  <2> QED BY <1>4, <2>2, <2>3, <2>4 DEF l
<1> QED BY <1>2, <1>3, <1>4

\* The events of the frame at the head of the channel.
LEMMA FrameFacts ==
    ASSUME LoopTypes, rx # <<>>
    PROVE  /\ Head(rx) \in Frame /\ Tail(rx) \in Seq(Frame) /\ Head(rx).events \in Seq(InputEvent)
           /\ Head(rx).sigma \in BOOLEAN /\ Head(rx).index \in BOOLEAN
           /\ [Select EXCEPT !.sigma = Head(rx).sigma, !.index = Head(rx).index] \in LoopRec
           /\ [Select EXCEPT !.sigma = Head(rx).sigma, !.index = Head(rx).index].alerts = <<>>
           /\ [Select EXCEPT !.sigma = Head(rx).sigma, !.index = Head(rx).index].sigma = Head(rx).sigma
           /\ [Select EXCEPT !.sigma = Head(rx).sigma, !.index = Head(rx).index].index = Head(rx).index
<1>1. Head(rx) \in Frame /\ Tail(rx) \in Seq(Frame)
  BY HeadTailProperties DEF LoopTypes
<1>2. Head(rx).events \in Seq(InputEvent) /\ Head(rx).sigma \in BOOLEAN /\ Head(rx).index \in BOOLEAN
  BY <1>1 DEF Frame, InputEvent
<1> DEFINE s == Head(rx).sigma
           i == Head(rx).index
<1>3. s \in BOOLEAN /\ i \in BOOLEAN
  BY <1>2
<1> HIDE DEF s, i
<1>4. /\ [Select EXCEPT !.sigma = s, !.index = i] \in LoopRec
      /\ [Select EXCEPT !.sigma = s, !.index = i].alerts = <<>>
      /\ [Select EXCEPT !.sigma = s, !.index = i].sigma = s
      /\ [Select EXCEPT !.sigma = s, !.index = i].index = i
  BY <1>3, SelectFacts DEF LoopRec
<1> QED BY <1>1, <1>2, <1>4 DEF s, i

\* An event of the gateway's channel is taken up on its own.
LEMMA TakenEventFacts ==
    ASSUME LoopTypes, TakeEvent
    PROVE  /\ Head(inbox) \in AgentEvent /\ inbox' = Tail(inbox) /\ inbox' \in Seq(AgentEvent)
           /\ loop' \in LoopRec /\ LoopShape(loop')
           /\ loop'.event = Head(inbox) /\ loop'.pc = (IF SigmaActive THEN "detect" ELSE "index")
           /\ loop'.alerts = <<>> /\ loop'.rest = <<>>
<1> DEFINE h == Head(inbox)
           l == [Select EXCEPT !.sigma = SigmaActive, !.index = TRUE]
           c == IF SigmaActive THEN "detect" ELSE "index"
<1>1. h \in AgentEvent /\ inbox' = Tail(inbox) /\ Tail(inbox) \in Seq(AgentEvent)
  BY HeadTailProperties DEF LoopTypes, TakeEvent
<1>2. SigmaActive \in BOOLEAN
  BY DetectionAssumption
<1>3. l \in LoopRec /\ l.alerts = <<>> /\ l.sigma = SigmaActive /\ l.index = TRUE /\ l.rest = <<>>
  BY <1>2, SelectFacts DEF LoopRec
<1>4. loop' = [l EXCEPT !.pc = IF l.sigma THEN "detect" ELSE "index", !.event = Head(<<h>>), !.rest = Tail(<<h>>)]
  <2>1. <<h>> # <<>>
    OBVIOUS
  <2>2. loop' = NextEvent(l, <<h>>)
    BY DEF TakeEvent
  <2> HIDE DEF l, h
  <2> QED BY <2>1, <2>2 DEF NextEvent
<1>5. Head(<<h>>) = h /\ Tail(<<h>>) = <<>>
  OBVIOUS
<1> HIDE DEF h, l
<1>6. loop' = [l EXCEPT !.pc = c, !.event = h, !.rest = <<>>]
  BY <1>3, <1>4, <1>5
<1>7. c \in {"detect", "index"} /\ (c = "detect" => SigmaActive) /\ h \in Int /\ <<>> \in Seq(InputEvent)
  BY <1>1 DEF AgentEvent
<1> HIDE DEF c
<1>8. /\ loop'.pc = c /\ loop'.event = h /\ loop'.rest = <<>> /\ loop'.alerts = <<>> /\ loop'.sigma = SigmaActive
      /\ loop'.index = TRUE
  BY <1>3, <1>6 DEF LoopRec
<1>9. loop' \in LoopRec
  <2>1. \A q \in Seq(InputEvent) : [l EXCEPT !.pc = c, !.event = h, !.rest = q] \in LoopRec
    BY <1>3, <1>7 DEF LoopRec
  <2> QED BY <1>6, <1>7, <2>1, Zenon
<1>10. LoopShape(loop')
  BY <1>1, <1>2, <1>7, <1>8 DEF LoopShape
<1> QED BY <1>1, <1>8, <1>9, <1>10 DEF h, c


LoopStep ==
    \/ TakeFrame \/ TakeEvent \/ CommitHot \/ Drained \/ Detect \/ PushAlert \/ Emit \/ IndexAdd \/ NodeStart
    \/ CtrlC \/ NodeCrash

\* Every step of the run loop keeps the shape of its state.
LEMMA LoopTypesStep == ASSUME LoopTypes, LoopStep PROVE LoopTypes'
<1>0. /\ loop \in LoopRec /\ LoopShape(loop) /\ loop.event \in Int /\ loop.alerts \in Seq(AlertRec) /\ loop.rest \in Seq(InputEvent)
      /\ inbox \in Seq(AgentEvent) /\ fresh \in Seq(Int) /\ hot \in Seq(Int)
  BY DEF LoopTypes, LoopRec
<1>1. CASE TakeFrame
  <2> DEFINE l == [Select EXCEPT !.sigma = Head(rx).sigma, !.index = Head(rx).index]
  <2>1. rx # <<>> /\ rx' = Tail(rx) /\ loop' = NextEvent(l, Head(rx).events)
    BY <1>1 DEF TakeFrame
  <2>2. Tail(rx) \in Seq(Frame) /\ l \in LoopRec /\ l.alerts = <<>> /\ Head(rx).events \in Seq(InputEvent)
    BY <2>1, FrameFacts
  <2> HIDE DEF l
  <2>3. loop' \in LoopRec /\ LoopShape(loop')
    BY <2>1, <2>2, NextEventFacts
  <2>4. rx' \in Seq(Frame)
    BY <2>1, <2>2
  <2> QED BY <1>1, <2>3, <2>4 DEF LoopTypes, TakeFrame
<1>2. CASE TakeEvent
  BY <1>2, TakenEventFacts DEF LoopTypes, TakeEvent
<1>3. CASE CommitHot
  <2>1. hot' \in Seq(Int) /\ fresh' \in Seq(Int)
    BY <1>0, <1>3 DEF CommitHot
  <2> QED BY <1>3, <2>1 DEF LoopTypes, CommitHot
<1>4. ASSUME Finish PROVE hot' \in Seq(Int) /\ fresh' \in Seq(Int) /\ inbox' \in Seq(AgentEvent) /\ node' = "down"
  BY <1>0, <1>4 DEF Finish
<1>5. CASE Drained
  <2>1. hot' \in Seq(Int) /\ fresh' \in Seq(Int) /\ inbox' \in Seq(AgentEvent) /\ node' \in {"up", "down"}
    BY <1>0, <1>4, <1>5 DEF LoopTypes, Drained
  <2> QED BY <1>5, <2>1 DEF LoopTypes, Drained
<1>6. CASE Detect
  <2>1. loop' \in LoopRec /\ LoopShape(loop')
    BY <1>6, DetectFacts
  <2> QED BY <1>6, <2>1 DEF LoopTypes, Detect
<1>7. CASE PushAlert
  <2>1. loop.pc = "push" /\ loop.alerts # <<>> /\ Head(loop.alerts) \in AlertRec
    BY <1>0, <1>7, HeadTailProperties DEF LoopShape, PushAlert
  <2>2. loop' \in LoopRec /\ LoopShape(loop')
    <3>1. Len(Sinks) \in Nat
      BY DetectionAssumption
    <3>2. 0 \in 0 .. Len(Sinks)
      BY <3>1
    <3> QED BY <1>7, <2>1, <3>2, AfterSinkFacts DEF PushAlert
  <2>3. stored' \in Seq(AlertRec) /\ filed' \in Seq(AlertRec)
    <3> DEFINE h == Head(loop.alerts)
    <3>1. stored' = Append(stored, h) /\ (filed' = filed \/ filed' = Append(filed, h)) /\ h \in AlertRec
      BY <1>7, <2>1 DEF PushAlert
    <3>2. stored \in Seq(AlertRec) /\ filed \in Seq(AlertRec)
      BY DEF LoopTypes
    <3> HIDE DEF h
    <3>3. Append(stored, h) \in Seq(AlertRec) /\ Append(filed, h) \in Seq(AlertRec)
      BY <3>1, <3>2, AppendProperties
    <3> QED BY <3>1, <3>2, <3>3, Zenon
  <2> QED BY <1>7, <2>2, <2>3 DEF LoopTypes, PushAlert
<1>8. CASE Emit
  <2> DEFINE s == Sinks[loop.sink]
             alert == Head(loop.alerts)
  <2>1. loop.pc = "emit" /\ alert \in AlertRec /\ loop.sink \in 1 .. Len(Sinks)
    BY <1>0, <1>8, HeadTailProperties DEF LoopShape, Emit
  <2>2. Len(Sinks) \in Nat /\ s \in Range(Sinks)
    BY <2>1, DetectionAssumption DEF Range
  <2>3. loop.sink \in 0 .. Len(Sinks)
    BY <2>1, <2>2
  <2>4. loop' \in LoopRec /\ LoopShape(loop')
    BY <1>8, <2>1, <2>3, AfterSinkFacts DEF Emit
  <2>5. told' = told \/ told' = [told EXCEPT ![s] = Append(@, alert)]
    BY <1>8 DEF Emit
  <2> HIDE DEF s, alert
  <2>6. told' \in [Range(Sinks) -> Seq(AlertRec)]
    <3>1. told \in [Range(Sinks) -> Seq(AlertRec)]
      BY DEF LoopTypes
    <3>2. Append(told[s], alert) \in Seq(AlertRec)
      BY <2>1, <2>2, <3>1
    <3> QED BY <2>5, <3>1, <3>2
  <2> QED BY <1>8, <2>4, <2>6 DEF LoopTypes, Emit
<1>9. CASE IndexAdd
  <2>1. loop.alerts = <<>> /\ loop' = NextEvent(loop, loop.rest)
    BY <1>0, <1>9 DEF IndexAdd, LoopShape
  <2>2. loop' \in LoopRec /\ LoopShape(loop')
    BY <1>0, <2>1, NextEventFacts
  <2>3. fresh' \in Seq(Int)
    BY <1>0, <1>9 DEF IndexAdd
  <2> QED BY <1>9, <2>2, <2>3 DEF LoopTypes, IndexAdd
<1>10. CASE NodeStart
  BY <1>10 DEF LoopTypes, NodeStart
<1>11. CASE CtrlC
  <2>1. hot' \in Seq(Int) /\ fresh' \in Seq(Int) /\ inbox' \in Seq(AgentEvent) /\ node' = "down" /\ ends' \in Nat
    BY <1>4, <1>11 DEF LoopTypes, CtrlC
  <2> QED BY <1>11, <2>1 DEF LoopTypes, CtrlC
<1>12. CASE NodeCrash
  <2>1. inbox' \in Seq(AgentEvent) /\ fresh' \in Seq(Int) /\ ends' \in Nat /\ loop' = Select
    BY <1>12 DEF LoopTypes, NodeCrash
  <2> QED BY <1>12, <2>1, SelectFacts DEF LoopTypes, NodeCrash
<1> QED BY <1>1, <1>2, <1>3, <1>5, <1>6, <1>7, <1>8, <1>9, <1>10, <1>11, <1>12 DEF LoopStep

LEMMA LoopTypesInit == DetectionInit => LoopTypes
<1> SUFFICES ASSUME DetectionInit PROVE LoopTypes
  OBVIOUS
<1>1. rx \in Seq(Frame) /\ ends \in Nat
  BY DetectionAssumption DEF DetectionInit
<1>2. /\ <<>> \in Seq(AgentEvent) /\ <<>> \in Seq(Int) /\ <<>> \in Seq(AlertRec)
      /\ [s \in Range(Sinks) |-> <<>>] \in [Range(Sinks) -> Seq(AlertRec)]
  OBVIOUS
<1> QED BY <1>1, <1>2, SelectFacts DEF DetectionInit, LoopTypes

---------------------------------------------------------------------------
(* The agent's state and the sessions                                      *)

Message ==
    {NoMessage, BeatMessage} \cup {[is |-> "telemetry", events |-> q] : q \in Seq(AgentEvent) \ {<<>>}}
EventRec == [kind : {"start", "stop", "add"}, of : Pid \cup Entry]

AgentTypes ==
    /\ procs \in SUBSET Pid /\ known \in SUBSET Pid /\ baseline \in SUBSET Pid
    /\ autoruns \in SUBSET Entry /\ seen \in SUBSET Entry
    /\ emitted \in Seq(EventRec)
    /\ todo \in Seq(AgentEvent) /\ tele \in Seq(AgentEvent) /\ batch \in Seq(AgentEvent)
    /\ sending \in Message
    /\ opened \in Nat /\ opened <= MaxBreaks + MaxNodeStops + 1 /\ sess \in 0 .. opened
    /\ gw \in [Session -> Message] /\ up \in [Session -> Seq(Message)]
    /\ \A s \in Session : Len(up[s]) <= UpCap
    /\ sess = 0 => batch = <<>> /\ sending = NoMessage
    /\ \A s \in Session : s > opened => up[s] = <<>> /\ gw[s] = NoMessage

LEMMA MessageFacts ==
    /\ NoMessage \in Message /\ BeatMessage \in Message
    /\ NoMessage.is = "none" /\ NoMessage.events = <<>> /\ BeatMessage.is = "beat" /\ BeatMessage.events = <<>>
    /\ \A m \in Message : /\ m.events \in Seq(AgentEvent)
                          /\ m.is = "telemetry" <=> m.events # <<>>
                          /\ m.is = "none" <=> m = NoMessage
    /\ \A q \in Seq(AgentEvent) : q # <<>> =>
           /\ [is |-> "telemetry", events |-> q] \in Message
           /\ [is |-> "telemetry", events |-> q].events = q
<1>1. NoMessage.is = "none" /\ NoMessage.events = <<>> /\ BeatMessage.is = "beat" /\ BeatMessage.events = <<>>
  BY DEF NoMessage, BeatMessage
<1>2. NoMessage \in Message /\ BeatMessage \in Message
  BY DEF Message
<1>3. \A q \in Seq(AgentEvent) : q # <<>> =>
           /\ [is |-> "telemetry", events |-> q] \in Message
           /\ [is |-> "telemetry", events |-> q].events = q
  BY DEF Message
<1>4. ASSUME NEW m \in Message
      PROVE  m.events \in Seq(AgentEvent) /\ (m.is = "telemetry" <=> m.events # <<>>) /\ (m.is = "none" <=> m = NoMessage)
  <2>0. <<>> \in Seq(AgentEvent)
    OBVIOUS
  <2>1. CASE m = NoMessage
    BY <1>1, <2>0, <2>1, Zenon
  <2>2. CASE m = BeatMessage
    BY <1>1, <2>0, <2>2, Zenon
  <2>3. ASSUME NEW q \in Seq(AgentEvent) \ {<<>>}, m = [is |-> "telemetry", events |-> q]
        PROVE  m.events \in Seq(AgentEvent) /\ (m.is = "telemetry" <=> m.events # <<>>) /\ (m.is = "none" <=> m = NoMessage)
    BY <1>1, <2>3
  <2> QED BY <2>1, <2>2, <2>3 DEF Message
<1> QED BY <1>1, <1>2, <1>3, <1>4


\* What is left of a batch when its first event is handed on.
LEMMA HandedOnFacts ==
    ASSUME NEW m \in Message, m.is = "telemetry"
    PROVE  /\ HandedOn(m) \in Message /\ HandedOn(m).events = Tail(m.events)
           /\ m.events \in Seq(AgentEvent) /\ m.events # <<>> /\ Head(m.events) \in AgentEvent
<1>1. m.events \in Seq(AgentEvent) /\ m.events # <<>>
  BY MessageFacts
<1>2. PICK q \in Seq(AgentEvent) : m = [is |-> "telemetry", events |-> q] /\ m.events = q
  <2>1. m # NoMessage /\ m # BeatMessage
    BY MessageFacts
  <2> QED BY <2>1 DEF Message
<1>3. /\ Head(q) \in AgentEvent /\ Tail(q) \in Seq(AgentEvent) /\ Len(Tail(q)) = Len(q) - 1 /\ Len(q) \in Nat
  BY <1>1, <1>2, HeadTailProperties
<1>4. CASE Len(q) > 1
  <2>1. HandedOn(m) = [is |-> "telemetry", events |-> Tail(q)]
    BY <1>2, <1>4 DEF HandedOn
  <2> DEFINE t == Tail(q)
  <2>2. t \in Seq(AgentEvent) /\ Len(t) # 0
    BY <1>3, <1>4
  <2> HIDE DEF t
  <2>3. t # <<>>
    BY <2>2, EmptySeq
  <2>4. HandedOn(m) \in Message /\ HandedOn(m).events = t
    BY <2>1, <2>2, <2>3, MessageFacts DEF t
  <2> QED BY <1>1, <1>2, <1>3, <2>4 DEF t
<1>5. CASE ~(Len(q) > 1)
  <2>1. HandedOn(m) = NoMessage
    BY <1>2, <1>5 DEF HandedOn
  <2> DEFINE t == Tail(q)
  <2>2. t \in Seq(AgentEvent) /\ Len(t) = 0
    <3>1. Len(q) # 0
      BY <1>1, <1>2
    <3> QED BY <1>3, <1>5, <3>1
  <2> HIDE DEF t
  <2>3. t = <<>>
    BY <2>2, EmptySeq
  <2> QED BY <1>1, <1>2, <1>3, <2>1, <2>3, MessageFacts DEF t
<1> QED BY <1>4, <1>5

\* The events q of a kind are one about each of S.
About(q, kind, S) ==
    /\ \A i \in 1 .. Len(q) : q[i] = [kind |-> kind, of |-> q[i].of] /\ q[i].kind = kind /\ q[i].of \in S
    /\ \A i, j \in 1 .. Len(q) : q[i].of = q[j].of => i = j
    /\ \A x \in S : \E i \in 1 .. Len(q) : q[i].of = x

LEMMA EventsFacts ==
    ASSUME NEW S, IsFiniteSet(S), NEW kind
    PROVE  Events(kind, S) \in Seq([kind : {kind}, of : S]) /\ About(Events(kind, S), kind, S)
<1> DEFINE c == Cardinality(S)
           f == SetToSeq(S)
           q == Events(kind, S)
<1>1. c \in Nat /\ ExistsBijection(1 .. c, S)
  BY FS_CardinalityType
<1>2. PICK b \in Bijection(1 .. c, S) : TRUE
  BY <1>1 DEF ExistsBijection
<1>3. b \in [1 .. c -> S] /\ IsInjective(b)
  BY <1>2 DEF Bijection, Injection
<1>4. f \in [1 .. c -> S] /\ IsInjective(f)
  BY <1>3 DEF SetToSeq
<1> HIDE DEF f, c
<1>5. f \in Surjection(1 .. c, S)
  <2>1. f \in Injection(1 .. c, S)
    BY <1>4 DEF Injection
  <2>2. Cardinality(1 .. c) = c
    BY <1>1, FS_Interval
  <2> QED BY <2>1, <2>2, FS_Injection DEF c
<1>6. \A x \in S : \E i \in 1 .. c : f[i] = x
  BY <1>5 DEF Surjection
<1>7. q = [i \in 1 .. c |-> [kind |-> kind, of |-> f[i]]]
  BY <1>4 DEF Events, f
<1> DEFINE E == [kind : {kind}, of : S]
<1>8. q \in [1 .. c -> E]
  BY <1>4, <1>7
<1> HIDE DEF q, E
<1>9. q \in Seq(E) /\ Len(q) = c
  BY <1>1, <1>8
<1>10. \A i \in 1 .. c : q[i] = [kind |-> kind, of |-> f[i]] /\ q[i].kind = kind /\ q[i].of = f[i] /\ f[i] \in S
  BY <1>4, <1>7
<1>11. \A i, j \in 1 .. c : q[i].of = q[j].of => i = j
  BY <1>4, <1>10 DEF IsInjective
<1>12. /\ \A i \in 1 .. c : q[i] = [kind |-> kind, of |-> q[i].of] /\ q[i].kind = kind /\ q[i].of \in S
       /\ \A x \in S : \E i \in 1 .. c : q[i].of = x
  <2>1. ASSUME NEW i \in 1 .. c PROVE q[i] = [kind |-> kind, of |-> q[i].of] /\ q[i].kind = kind /\ q[i].of \in S
    <3>1. q[i].of = f[i]
      BY <1>10
    <3>2. q[i] = [kind |-> kind, of |-> f[i]] /\ q[i].kind = kind /\ f[i] \in S
      BY <1>10
    <3> QED BY <3>1, <3>2, Zenon
  <2>2. \A x \in S : \E i \in 1 .. c : q[i].of = x
    <3>1. \A i \in 1 .. c : q[i].of = f[i]
      BY <1>10
    <3> QED BY <1>6, <3>1, Zenon
  <2> QED BY <2>1, <2>2
<1>13. About(q, kind, S)
  BY <1>9, <1>11, <1>12, Zenon DEF About
<1> QED BY <1>9, <1>13, Zenon DEF q, E

\* What a poll found, appended.
LEMMA CollectedFacts ==
    ASSUME AgentTypes, NEW found \in Seq(EventRec), Collected(found)
    PROVE  /\ emitted' \in Seq(EventRec) /\ Len(emitted') = Len(emitted) + Len(found)
           /\ \A i \in 1 .. Len(emitted) : emitted'[i] = emitted[i]
           /\ \A i \in 1 .. Len(found) : emitted'[Len(emitted) + i] = found[i]
           /\ todo' \in Seq(AgentEvent) /\ Len(todo') = Len(found)
           /\ \A i \in 1 .. Len(found) : todo'[i] = Len(emitted) + i
           /\ Len(emitted) \in Nat /\ Len(found) \in Nat
<1> DEFINE n == Len(emitted)
           k == Len(found)
<1>1. emitted \in Seq(EventRec) /\ n \in Nat /\ k \in Nat /\ DOMAIN found = 1 .. k
  BY DEF AgentTypes
<1>2. todo' = [i \in 1 .. k |-> n + i] /\ emitted' = emitted \o found
  BY <1>1 DEF Collected
<1>3. /\ emitted \o found \in Seq(EventRec) /\ Len(emitted \o found) = n + k
      /\ \A i \in 1 .. n + k : (emitted \o found)[i] = IF i <= n THEN emitted[i] ELSE found[i - n]
  BY <1>1, ConcatProperties
<1> HIDE DEF n, k
<1>4. /\ \A i \in 1 .. n : i \in 1 .. n + k /\ i <= n
      /\ \A i \in 1 .. k : n + i \in 1 .. n + k /\ ~(n + i <= n) /\ (n + i) - n = i
      /\ \A i \in 1 .. k : n + i \in AgentEvent
  BY <1>1 DEF AgentEvent
<1>5. todo' \in [1 .. k -> AgentEvent]
  BY <1>2, <1>4
<1>6. todo' \in Seq(AgentEvent) /\ Len(todo') = k
  BY <1>1, <1>5
<1> QED BY <1>1, <1>2, <1>3, <1>4, <1>6 DEF n, k


\* A sequence of events of a kind is a sequence of events.
LEMMA EventsType ==
    ASSUME NEW kind \in {"start", "stop", "add"}, NEW S \in SUBSET (Pid \cup Entry), IsFiniteSet(S)
    PROVE  Events(kind, S) \in Seq(EventRec)
<1>1. Events(kind, S) \in Seq([kind : {kind}, of : S])
  BY EventsFacts
<1>2. [kind : {kind}, of : S] \subseteq EventRec
  BY DEF EventRec
<1> QED BY <1>1, <1>2, SeqMonotonic

\* What ProcessCollector::poll returns after its first time.
Polled == Events("start", procs \ known) \o Events("stop", known \ procs)

LEMMA PolledType ==
    ASSUME AgentTypes
    PROVE  /\ Polled \in Seq(EventRec) /\ Events("start", procs \ known) \in Seq(EventRec)
           /\ Events("stop", known \ procs) \in Seq(EventRec)
           /\ IsFiniteSet(procs \ known) /\ IsFiniteSet(known \ procs)
<1>1. procs \ known \in SUBSET Pid /\ known \ procs \in SUBSET Pid /\ IsFiniteSet(Pid)
  BY TelemetryAssumption DEF AgentTypes
<1>2. IsFiniteSet(procs \ known) /\ IsFiniteSet(known \ procs)
  BY <1>1, FS_Subset
<1>3. Events("start", procs \ known) \in Seq(EventRec) /\ Events("stop", known \ procs) \in Seq(EventRec)
  BY <1>1, <1>2, EventsType
<1> QED BY <1>2, <1>3, ConcatProperties DEF Polled

AddedNow == (IF readable THEN autoruns ELSE {}) \ seen

LEMMA AddedType ==
    ASSUME AgentTypes
    PROVE  Events("add", AddedNow) \in Seq(EventRec)
<1>1. AddedNow \in SUBSET Entry /\ IsFiniteSet(Entry)
  BY TelemetryAssumption DEF AgentTypes, AddedNow
<1>2. IsFiniteSet(AddedNow)
  BY <1>1, FS_Subset
<1> QED BY <1>1, <1>2, EventsType

\* The agent's session is one of those opened.
LEMMA SessionFacts ==
    ASSUME AgentTypes
    PROVE  /\ sess # 0 => sess \in Session /\ sess <= opened
           /\ MaxBreaks + MaxNodeStops + 1 \in Nat /\ \A s \in Session : s \in Nat /\ s >= 1
<1>1. MaxBreaks \in Nat /\ MaxNodeStops \in Nat
  BY TelemetryAssumption, DetectionAssumption
<1>2. opened \in Nat /\ sess \in 0 .. opened /\ opened <= MaxBreaks + MaxNodeStops + 1
  BY DEF AgentTypes
<1> QED BY <1>1, <1>2 DEF Session

\* The host's and the collectors' steps keep the types.
LEMMA CollectorTypes ==
    ASSUME AgentTypes, HostChange \/ ProcessPoll \/ PersistencePoll \/ Collect
    PROVE  AgentTypes'
<1>1. CASE HostChange
  <2>1. procs' \in SUBSET Pid /\ autoruns' \in SUBSET Entry
    BY <1>1 DEF HostChange, AgentTypes
  <2> QED BY <1>1, <2>1 DEF HostChange, AgentTypes, collectorVars, sessionVars
<1>2. CASE ProcessPoll
  <2>1. UNCHANGED <<procs, autoruns, seen, tele, batch, sending, opened, sess, gw, up>> /\ known' = procs
    BY <1>2 DEF ProcessPoll, Snapshot, hostVars, sessionVars
  <2>2. emitted' \in Seq(EventRec) /\ todo' \in Seq(AgentEvent) /\ baseline' \in SUBSET Pid
    <3>1. CASE "process" \in primed
      <4>1. Collected(Polled) /\ baseline' = baseline
        BY <1>2, <3>1 DEF ProcessPoll, Polled
      <4> QED BY <4>1, PolledType, CollectedFacts DEF AgentTypes
    <3>2. CASE "process" \notin primed
      BY <1>2, <3>2 DEF ProcessPoll, AgentTypes
    <3> QED BY <3>1, <3>2
  <2> QED BY <2>1, <2>2 DEF AgentTypes
<1>3. CASE PersistencePoll
  <2>1. UNCHANGED <<procs, autoruns, known, baseline, tele, batch, sending, opened, sess, gw, up>> /\ seen' \in SUBSET Entry
    BY <1>3 DEF PersistencePoll, hostVars, sessionVars, AgentTypes
  <2>2. emitted' \in Seq(EventRec) /\ todo' \in Seq(AgentEvent)
    <3>1. CASE "persistence" \in primed
      <4>1. Collected(Events("add", AddedNow))
        BY <1>3, <3>1 DEF PersistencePoll, AddedNow
      <4> QED BY <4>1, AddedType, CollectedFacts
    <3>2. CASE "persistence" \notin primed
      BY <1>3, <3>2 DEF PersistencePoll, AgentTypes
    <3> QED BY <3>1, <3>2
  <2> QED BY <2>1, <2>2 DEF AgentTypes
<1>4. CASE Collect
  <2>1. Head(todo) \in AgentEvent /\ Tail(todo) \in Seq(AgentEvent)
    BY <1>4, HeadTailProperties DEF Collect, AgentTypes
  <2>2. tele' = Append(tele, Head(todo)) /\ todo' = Tail(todo) /\ tele \in Seq(AgentEvent)
    BY <1>4 DEF Collect, AgentTypes
  <2>3. tele' \in Seq(AgentEvent) /\ todo' \in Seq(AgentEvent)
    BY <2>1, <2>2, AppendProperties
  <2> QED BY <1>4, <2>3 DEF Collect, AgentTypes, hostVars
<1> QED BY <1>1, <1>2, <1>3, <1>4

\* So do the steps of session_once.
LEMMA SessionTypes ==
    ASSUME AgentTypes, ConnectGateway \/ Receive \/ Flush \/ Beat \/ ReadAck \/ SendUp \/ Break
    PROVE  AgentTypes'
<1>0. /\ batch \in Seq(AgentEvent) /\ tele \in Seq(AgentEvent) /\ sending \in Message /\ <<>> \in Seq(AgentEvent)
      /\ NoMessage \in Message /\ BeatMessage \in Message
      /\ opened \in Nat /\ sess \in 0 .. opened /\ opened <= MaxBreaks + MaxNodeStops + 1
      /\ gw \in [Session -> Message] /\ up \in [Session -> Seq(Message)] /\ MaxBreaks + MaxNodeStops + 1 \in Nat
      /\ sess # 0 => sess \in Session
  BY MessageFacts, SessionFacts DEF AgentTypes
<1>1. CASE ConnectGateway
  <2>1. opened' = opened + 1 /\ sess' = opened + 1 /\ batch' = <<>> /\ sending' = NoMessage
        /\ opened < MaxBreaks + MaxNodeStops + 1 /\ UNCHANGED <<tele, up, gw, hostVars, collectorVars>>
    BY <1>1 DEF ConnectGateway
  <2>2. opened' \in Nat /\ opened' <= MaxBreaks + MaxNodeStops + 1 /\ sess' \in 0 .. opened' /\ sess' # 0
    BY <1>0, <2>1
  <2>3. \A s \in Session : s > opened' => s > opened
    BY <1>0, <2>1, SessionFacts
  <2> QED BY <1>0, <2>1, <2>2, <2>3 DEF AgentTypes, hostVars, collectorVars
<1>2. ASSUME NEW b \in Seq(AgentEvent), b # <<>>, SendBatch(b)
      PROVE  sending' \in Message /\ batch' \in Seq(AgentEvent)
  BY <1>0, <1>2, MessageFacts DEF SendBatch
<1>3. CASE Receive
  <2> DEFINE h == Head(tele)
             b == Append(batch, h)
  <2>1. h \in AgentEvent /\ tele' = Tail(tele) /\ Tail(tele) \in Seq(AgentEvent)
    BY <1>0, <1>3, HeadTailProperties DEF Receive
  <2>2. SendBatch(b) \/ (batch' = b /\ sending' = sending)
    BY <1>3 DEF Receive
  <2> HIDE DEF h
  <2>3. b \in Seq(AgentEvent) /\ b # <<>>
    BY <1>0, <2>1, AppendProperties
  <2> HIDE DEF b
  <2>4. sending' \in Message /\ batch' \in Seq(AgentEvent)
    BY <1>0, <1>2, <2>2, <2>3
  <2> QED BY <1>3, <2>1, <2>4 DEF AgentTypes, Receive, Ready, hostVars, collectorVars
<1>4. CASE Flush
  <2>1. sending' \in Message /\ batch' \in Seq(AgentEvent)
    BY <1>0, <1>2, <1>4 DEF Flush
  <2> QED BY <1>4, <2>1 DEF AgentTypes, Flush, Ready, hostVars, collectorVars
<1>5. CASE Beat \/ ReadAck
  BY <1>0, <1>5 DEF AgentTypes, Beat, ReadAck, Ready, hostVars, collectorVars
<1>6. CASE SendUp
  <2>1. /\ sess \in Session /\ up' = [up EXCEPT ![sess] = Append(up[sess], sending)] /\ sending' = NoMessage
        /\ Len(up[sess]) < UpCap /\ UNCHANGED <<tele, sess, opened, batch, gw, hostVars, collectorVars>>
    BY <1>0, <1>6 DEF SendUp
  <2>2. /\ Append(up[sess], sending) \in Seq(Message) /\ Len(Append(up[sess], sending)) = Len(up[sess]) + 1
        /\ Len(up[sess]) \in Nat
    <3>1. up[sess] \in Seq(Message)
      BY <1>0, <2>1
    <3> QED BY <1>0, <3>1, AppendProperties
  <2>3. \A s \in Session : up'[s] = IF s = sess THEN Append(up[sess], sending) ELSE up[s]
    BY <1>0, <2>1
  <2>4. up' \in [Session -> Seq(Message)]
    BY <1>0, <2>1, <2>2
  <2>5. UpCap \in Nat
    BY TelemetryAssumption
  <2>6. \A s \in Session : Len(up'[s]) <= UpCap
    BY <2>1, <2>2, <2>3, <2>5 DEF AgentTypes
  <2>7. \A s \in Session : s > opened => up'[s] = <<>> /\ gw[s] = NoMessage
    <3>1. ~(sess > opened)
      BY <1>0
    <3> QED BY <2>3, <3>1 DEF AgentTypes
  <2> QED BY <1>0, <2>1, <2>4, <2>6, <2>7 DEF AgentTypes, hostVars, collectorVars
<1>7. CASE Break
  <2>1. PICK n \in 0 .. Len(up[sess]) : up' = [up EXCEPT ![sess] = SubSeq(up[sess], 1, n)]
    BY <1>7 DEF Break
  <2>2. /\ sess \in Session /\ sess' = 0 /\ batch' = <<>> /\ sending' = NoMessage
        /\ UNCHANGED <<tele, opened, gw, hostVars, collectorVars>>
    BY <1>0, <1>7 DEF Break
  <2>3. up[sess] \in Seq(Message) /\ Len(up[sess]) \in Nat /\ \A i \in 1 .. Len(up[sess]) : up[sess][i] \in Message
    BY <1>0, <2>2
  <2>4. SubSeq(up[sess], 1, n) \in Seq(Message) /\ Len(SubSeq(up[sess], 1, n)) = n /\ n \in Nat
    <3>1. \A i \in 1 .. n : up[sess][i] \in Message
      BY <2>3
    <3>2. 1 \in Int /\ n \in Int /\ n \in Nat
      BY <2>3
    <3>3. SubSeq(up[sess], 1, n) \in Seq(Message) /\ Len(SubSeq(up[sess], 1, n)) = IF 1 <= n THEN n - 1 + 1 ELSE 0
      BY <3>1, <3>2, SubSeqProperties
    <3> QED BY <3>2, <3>3
  <2>5. \A s \in Session : up'[s] = IF s = sess THEN SubSeq(up[sess], 1, n) ELSE up[s]
    BY <1>0, <2>1
  <2>6. up' \in [Session -> Seq(Message)]
    BY <1>0, <2>1, <2>4
  <2>7. \A s \in Session : Len(up'[s]) <= UpCap
    <3>1. UpCap \in Nat
      BY TelemetryAssumption
    <3>2. Len(up[sess]) <= UpCap
      BY <2>2 DEF AgentTypes
    <3>3. n <= UpCap
      BY <2>3, <2>4, <3>1, <3>2
    <3> QED BY <2>4, <2>5, <3>3 DEF AgentTypes
  <2>8. \A s \in Session : s > opened => up'[s] = <<>> /\ gw[s] = NoMessage
    <3>1. ~(sess > opened)
      BY <1>0
    <3> QED BY <2>5, <3>1 DEF AgentTypes
  <2>9. sess' \in 0 .. opened
    BY <1>0, <2>2
  <2> QED BY <1>0, <2>2, <2>6, <2>7, <2>8, <2>9 DEF AgentTypes, hostVars, collectorVars
<1> QED BY <1>1, <1>3, <1>4, <1>5, <1>6, <1>7

\* And those of the session task, and the end of the node.
LEMMA GatewayTypes ==
    ASSUME AgentTypes, LoopTypes,
           (\E s \in Session : GatewayTakes(s) \/ GatewayHandsOn(s) \/ GatewayAcks(s)) \/ SessionsEnd
    PROVE  AgentTypes' /\ ((\E s \in Session : GatewayHandsOn(s)) => LoopTypes')
<1>0. /\ gw \in [Session -> Message] /\ up \in [Session -> Seq(Message)] /\ NoMessage \in Message
      /\ <<>> \in Seq(AgentEvent) /\ <<>> \in Seq(Message) /\ UpCap \in Nat /\ opened \in Nat
  BY MessageFacts, TelemetryAssumption DEF AgentTypes
<1>1. ASSUME NEW s \in Session, GatewayTakes(s) PROVE AgentTypes'
  <2>1. /\ up[s] # <<>> /\ gw' = [gw EXCEPT ![s] = Head(up[s])] /\ up' = [up EXCEPT ![s] = Tail(up[s])]
        /\ UNCHANGED <<tele, sess, opened, batch, sending, hostVars, collectorVars>>
    BY <1>1 DEF GatewayTakes
  <2>2. /\ Head(up[s]) \in Message /\ Tail(up[s]) \in Seq(Message) /\ Len(Tail(up[s])) = Len(up[s]) - 1
        /\ Len(up[s]) \in Nat
    <3>1. up[s] \in Seq(Message)
      BY <1>0
    <3> QED BY <2>1, <3>1, HeadTailProperties
  <2>3. \A q \in Session : gw'[q] = (IF q = s THEN Head(up[s]) ELSE gw[q]) /\ up'[q] = (IF q = s THEN Tail(up[s]) ELSE up[q])
    BY <1>0, <2>1
  <2>4. gw' \in [Session -> Message] /\ up' \in [Session -> Seq(Message)]
    BY <1>0, <2>1, <2>2
  <2>5. ~(s > opened)
    BY <2>1 DEF AgentTypes
  <2>6. \A q \in Session : Len(up'[q]) <= UpCap
    <3>1. Len(up[s]) <= UpCap
      BY DEF AgentTypes
    <3>2. Len(up[s]) - 1 <= UpCap
      BY <1>0, <2>2, <3>1
    <3> QED BY <2>2, <2>3, <3>2 DEF AgentTypes
  <2>7. \A q \in Session : q > opened => up'[q] = <<>> /\ gw'[q] = NoMessage
    BY <2>3, <2>5 DEF AgentTypes
  <2> QED BY <2>1, <2>4, <2>6, <2>7 DEF AgentTypes, hostVars, collectorVars
<1>2. ASSUME NEW s \in Session, NEW m \in Message, gw' = [gw EXCEPT ![s] = m], gw[s] # NoMessage,
             UNCHANGED <<tele, sess, opened, batch, sending, up, hostVars, collectorVars>>
      PROVE  AgentTypes'
  <2>1. gw' \in [Session -> Message] /\ \A q \in Session : gw'[q] = IF q = s THEN m ELSE gw[q]
    BY <1>0, <1>2
  <2>2. ~(s > opened)
    BY <1>2 DEF AgentTypes
  <2>3. \A q \in Session : q > opened => up'[q] = <<>> /\ gw'[q] = NoMessage
    BY <1>2, <2>1, <2>2 DEF AgentTypes
  <2> QED BY <1>2, <2>1, <2>3 DEF AgentTypes, hostVars, collectorVars
<1>3. ASSUME NEW s \in Session, GatewayHandsOn(s) PROVE AgentTypes' /\ LoopTypes'
  <2>1. gw[s] \in Message /\ gw[s].is = "telemetry"
    BY <1>0, <1>3 DEF GatewayHandsOn
  <2>2. HandedOn(gw[s]) \in Message /\ Head(gw[s].events) \in AgentEvent /\ gw[s] # NoMessage
    BY <2>1, HandedOnFacts, MessageFacts
  <2>3. AgentTypes'
    BY <1>2, <1>3, <2>2 DEF GatewayHandsOn
  <2>4. inbox' \in Seq(AgentEvent)
    <3>1. inbox \in Seq(AgentEvent) /\ inbox' = Append(inbox, Head(gw[s].events))
      BY <1>3 DEF LoopTypes, GatewayHandsOn
    <3> QED BY <2>2, <3>1, AppendProperties
  <2> QED BY <1>3, <2>3, <2>4 DEF LoopTypes, GatewayHandsOn
<1>4. ASSUME NEW s \in Session, GatewayAcks(s) PROVE AgentTypes'
  <2>1. gw[s] # NoMessage
    BY <1>4, MessageFacts DEF GatewayAcks
  <2> QED BY <1>0, <1>2, <1>4, <2>1 DEF GatewayAcks
<1>5. ASSUME SessionsEnd PROVE AgentTypes'
  <2>1. /\ up' = [s \in Session |-> <<>>] /\ gw' = [s \in Session |-> NoMessage] /\ sess' = 0 /\ batch' = <<>>
        /\ sending' = NoMessage /\ UNCHANGED <<tele, opened, hostVars, collectorVars>>
    BY <1>5 DEF SessionsEnd
  <2>2. up' \in [Session -> Seq(Message)] /\ gw' \in [Session -> Message]
    BY <1>0, <2>1
  <2>3. \A s \in Session : up'[s] = <<>> /\ gw'[s] = NoMessage /\ Len(up'[s]) = 0
    BY <2>1
  <2>4. \A s \in Session : Len(up'[s]) <= UpCap
    BY <1>0, <2>3
  <2>5. sess' \in 0 .. opened
    BY <1>0, <2>1
  <2> QED BY <1>0, <2>1, <2>2, <2>3, <2>4, <2>5 DEF AgentTypes, hostVars, collectorVars
<1> QED BY <1>1, <1>3, <1>4, <1>5


---------------------------------------------------------------------------
(* The steps, by whose they are                                            *)

CollectorStep == (HostChange \/ ProcessPoll \/ PersistencePoll \/ Collect) /\ UNCHANGED loopVars
SessionStep == (ConnectGateway \/ Receive \/ Flush \/ Beat \/ ReadAck \/ SendUp \/ Break) /\ UNCHANGED loopVars
StreamStep == (\E s \in Session : GatewayTakes(s) \/ GatewayAcks(s)) /\ UNCHANGED loopVars
RunStep ==
    /\ TakeFrame \/ TakeEvent \/ CommitHot \/ Drained \/ Detect \/ PushAlert \/ Emit \/ IndexAdd \/ NodeStart
    /\ UNCHANGED telemetryVars

LEMMA StepCases ==
    ASSUME [TelemetryNext]_nodeVars
    PROVE  \/ CollectorStep \/ SessionStep \/ StreamStep \/ (\E s \in Session : GatewayHandsOn(s))
           \/ RunStep \/ (CtrlC /\ SessionsEnd) \/ (NodeCrash /\ SessionsEnd) \/ UNCHANGED <<telemetryVars, loopVars>>
<1>1. CASE HostChange
  BY <1>1 DEF HostChange, CollectorStep
<1>2. CASE ProcessPoll \/ PersistencePoll \/ Collect
  BY <1>2 DEF ProcessPoll, PersistencePoll, Collect, CollectorStep
<1>3. CASE ConnectGateway \/ Receive \/ Flush \/ Beat
  BY <1>3 DEF ConnectGateway, Receive, Flush, Beat, SessionStep
<1>4. CASE ReadAck \/ SendUp \/ Break
  BY <1>4 DEF ReadAck, SendUp, Break, SessionStep
<1>5. CASE Gateway
  BY <1>5 DEF Gateway, GatewayTakes, GatewayAcks, StreamStep
<1>6. CASE NodeEnds
  BY <1>6 DEF NodeEnds
<1>7. CASE NodeRuns
  BY <1>7 DEF NodeRuns, RunStep
<1>8. CASE UNCHANGED nodeVars
  BY <1>8 DEF nodeVars
<1> QED BY <1>1, <1>2, <1>3, <1>4, <1>5, <1>6, <1>7, <1>8 DEF TelemetryNext, Agent

NodeTypes == LoopTypes /\ AgentTypes

LEMMA LoopTypesSame == ASSUME LoopTypes, UNCHANGED loopVars PROVE LoopTypes'
BY DEF LoopTypes, loopVars

LEMMA AgentTypesSame == ASSUME AgentTypes, UNCHANGED telemetryVars PROVE AgentTypes'
BY DEF AgentTypes, telemetryVars, hostVars, collectorVars, sessionVars

LEMMA NodeTypesStep == NodeTypes /\ [TelemetryNext]_nodeVars => NodeTypes'
<1> SUFFICES ASSUME NodeTypes, [TelemetryNext]_nodeVars PROVE NodeTypes'
  OBVIOUS
<1>0. LoopTypes /\ AgentTypes
  BY DEF NodeTypes
<1>1. CASE CollectorStep
  BY <1>0, <1>1, LoopTypesSame, CollectorTypes DEF CollectorStep, NodeTypes
<1>2. CASE SessionStep
  BY <1>0, <1>2, LoopTypesSame, SessionTypes DEF SessionStep, NodeTypes
<1>3. CASE StreamStep
  BY <1>0, <1>3, LoopTypesSame, GatewayTypes DEF StreamStep, NodeTypes
<1>4. CASE \E s \in Session : GatewayHandsOn(s)
  BY <1>0, <1>4, GatewayTypes DEF NodeTypes
<1>5. CASE RunStep
  BY <1>0, <1>5, LoopTypesStep, AgentTypesSame DEF RunStep, LoopStep, NodeTypes
<1>6. CASE (CtrlC \/ NodeCrash) /\ SessionsEnd
  BY <1>0, <1>6, LoopTypesStep, GatewayTypes DEF LoopStep, NodeTypes
<1>7. CASE UNCHANGED <<telemetryVars, loopVars>>
  BY <1>0, <1>7, LoopTypesSame, AgentTypesSame DEF NodeTypes
<1> QED BY <1>1, <1>2, <1>3, <1>4, <1>5, <1>6, <1>7, StepCases

LEMMA NodeTypesInit == TelemetrySpecInit => NodeTypes
<1> SUFFICES ASSUME TelemetrySpecInit PROVE NodeTypes
  OBVIOUS
<1>1. LoopTypes
  BY LoopTypesInit DEF TelemetrySpecInit
<1>2. /\ <<>> \in Seq(AgentEvent) /\ <<>> \in Seq(EventRec) /\ <<>> \in Seq(Message) /\ Len(<<>>) = 0
      /\ NoMessage \in Message /\ UpCap \in Nat /\ MaxBreaks + MaxNodeStops + 1 \in Nat
  BY MessageFacts, TelemetryAssumption, DetectionAssumption
<1>3. /\ up = [s \in Session |-> <<>>] /\ gw = [s \in Session |-> NoMessage] /\ sess = 0 /\ opened = 0
      /\ batch = <<>> /\ sending = NoMessage /\ tele = <<>> /\ todo = <<>> /\ emitted = <<>>
      /\ procs \in SUBSET Pid /\ known = {} /\ baseline = {} /\ autoruns = {} /\ seen = {}
  BY DEF TelemetrySpecInit, TelemetryInit
<1>4. up \in [Session -> Seq(Message)] /\ gw \in [Session -> Message]
  BY <1>2, <1>3
<1>5. \A s \in Session : up[s] = <<>> /\ gw[s] = NoMessage /\ Len(up[s]) <= UpCap
  BY <1>2, <1>3
<1>6. opened \in Nat /\ opened <= MaxBreaks + MaxNodeStops + 1 /\ sess \in 0 .. opened
  BY <1>2, <1>3
<1>7. AgentTypes
  BY <1>2, <1>3, <1>4, <1>5, <1>6 DEF AgentTypes
<1> QED BY <1>1, <1>7 DEF NodeTypes

\* The node and the agent keep the shape of their state: what waits in a
\* session is there only while it lasts, alerts wait only while they are
\* emitted, and an agent's event is alone in the loop.
THEOREM NodeTypesInvariant == TelemetrySpec => []NodeTypes
  BY NodeTypesInit, NodeTypesStep, PTL DEF TelemetrySpec


---------------------------------------------------------------------------
(* The sinks                                                               *)
(*                                                                         *)
(* The argument: while the loop emits an alert, the sinks before the       *)
(* present one have been asked for every stored alert, and those from it   *)
(* on for every one but the last; Jira's memory is the rules of the alerts *)
(* it has been through.                                                    *)

\* What a sink has been asked for, and Jira remembers, after the alerts st.
ToldOf(s, st) == IF s = "jira" THEN AtPositions(st, Firsts(st)) ELSE st
RulesOf(st) == {st[i].rule : i \in DOMAIN st}
AskedFor(k, st) == told[Sinks[k]] = ToldOf(Sinks[k], st) /\ (Sinks[k] = "jira" => ticketed = RulesOf(st))

SinkInv ==
    /\ \E I \in SUBSET DOMAIN stored : filed = AtPositions(stored, I)
    /\ ends = 0 /\ ServesLong => node = "up"
    /\ ends = 0 /\ loop.pc # "emit" => \A k \in 1 .. Len(Sinks) : AskedFor(k, stored)
    /\ ends = 0 /\ loop.pc = "emit" =>
           \E st \in Seq(AlertRec) :
               /\ stored = Append(st, Head(loop.alerts))
               /\ \A k \in 1 .. Len(Sinks) : AskedFor(k, IF k < loop.sink THEN stored ELSE st)

\* One more alert.
LEMMA OneMore ==
    ASSUME NEW st \in Seq(AlertRec), NEW a \in AlertRec
    PROVE  /\ RulesOf(Append(st, a)) = RulesOf(st) \cup {a.rule}
           /\ ToldOf("jira", Append(st, a)) =
                  IF a.rule \in RulesOf(st) THEN ToldOf("jira", st) ELSE Append(ToldOf("jira", st), a)
<1> DEFINE n == Len(st)
           r == Append(st, a)
<1>1. n \in Nat /\ DOMAIN st = 1 .. n /\ DOMAIN r = 1 .. n + 1 /\ r[n + 1] = a /\ \A i \in 1 .. n : r[i] = st[i]
  OBVIOUS
<1> HIDE DEF r, n
<1>2. RulesOf(r) = RulesOf(st) \cup {a.rule}
  <2>1. \A i \in 1 .. n + 1 : i \in 1 .. n \/ i = n + 1
    BY <1>1
  <2>2. n + 1 \in 1 .. n + 1 /\ \A i \in 1 .. n : i \in 1 .. n + 1
    BY <1>1
  <2> QED BY <1>1, <2>1, <2>2 DEF RulesOf
<1>3. Firsts(st) \in SUBSET (1 .. n)
  BY <1>1 DEF Firsts
<1>4. ASSUME NEW i \in 1 .. n PROVE i \in Firsts(r) <=> i \in Firsts(st)
  <2>1. \A j \in 1 .. i - 1 : j \in 1 .. n
    BY <1>1
  <2>2. i \in 1 .. n + 1
    BY <1>1
  <2> QED BY <1>1, <2>1, <2>2 DEF Firsts
<1>5. n + 1 \in Firsts(r) <=> a.rule \notin RulesOf(st)
  <2>1. n + 1 \in 1 .. n + 1 /\ (n + 1) - 1 = n
    BY <1>1
  <2>2. n + 1 \in Firsts(r) <=> \A j \in 1 .. n : r[j].rule # r[n + 1].rule
    BY <1>1, <2>1 DEF Firsts
  <2> QED BY <1>1, <2>2 DEF RulesOf
<1>6. Firsts(r) = IF a.rule \in RulesOf(st) THEN Firsts(st) ELSE Firsts(st) \cup {n + 1}
  <2>1. Firsts(r) \in SUBSET (1 .. n + 1) /\ \A i \in 1 .. n + 1 : i \in 1 .. n \/ i = n + 1
    BY <1>1 DEF Firsts
  <2> DEFINE F == Firsts(st)
             G == Firsts(r)
  <2>2. F \in SUBSET (1 .. n) /\ \A i \in 1 .. n : i \in G <=> i \in F
    BY <1>3, <1>4
  <2>3. G \in SUBSET (1 .. n + 1) /\ (n + 1 \in G <=> a.rule \notin RulesOf(st))
    BY <1>5, <2>1
  <2>4. \A x \in G : x \in 1 .. n \/ x = n + 1
    BY <2>1
  <2> HIDE DEF F, G
  <2>5. CASE a.rule \in RulesOf(st)
    <3>1. G = F
      BY <2>2, <2>3, <2>4, <2>5, Zenon
    <3> QED BY <2>5, <3>1 DEF F, G
  <2>6. CASE a.rule \notin RulesOf(st)
    <3>1. G = F \cup {n + 1}
      BY <2>2, <2>3, <2>4, <2>6, Zenon
    <3> QED BY <2>6, <3>1 DEF F, G
  <2> QED BY <2>5, <2>6
<1>7. /\ AtPositions(r, Firsts(st)) = AtPositions(st, Firsts(st))
      /\ AtPositions(r, Firsts(st) \cup {n + 1}) = Append(AtPositions(st, Firsts(st)), a)
  <2> DEFINE F == Firsts(st)
  <2>1. F \in SUBSET (1 .. Len(st))
    BY <1>3 DEF n
  <2> HIDE DEF F
  <2>2. /\ AtPositions(Append(st, a), F) = AtPositions(st, F)
        /\ AtPositions(Append(st, a), F \cup {Len(st) + 1}) = Append(AtPositions(st, F), a)
    BY <2>1, TakenMore
  <2> QED BY <2>2 DEF F, r, n
<1> QED BY <1>2, <1>6, <1>7 DEF ToldOf, r

\* The alert that is pushed is first the file sink's.
LEMMA SinkPushStep == ASSUME LoopTypes, SinkInv, PushAlert PROVE SinkInv'
<1> DEFINE a == Head(loop.alerts)
<1>1. /\ loop.pc = "push" /\ a \in AlertRec /\ stored \in Seq(AlertRec) /\ filed \in Seq(AlertRec)
      /\ Len(Sinks) \in Nat
  <2>1. loop.pc = "push" /\ loop.alerts # <<>> /\ loop.alerts \in Seq(AlertRec)
    BY DEF PushAlert, LoopTypes, LoopRec, LoopShape
  <2>2. Head(loop.alerts) \in AlertRec
    BY <2>1, HeadTailProperties
  <2>3. Len(Sinks) \in Nat
    BY DetectionAssumption
  <2> QED BY <2>1, <2>2, <2>3 DEF LoopTypes
<1>2. /\ stored' = Append(stored, a) /\ (filed' = filed \/ filed' = Append(filed, a)) /\ loop' = AfterSink(0)
      /\ UNCHANGED <<told, ticketed, ends, node>>
  BY DEF PushAlert
<1> HIDE DEF a
<1>3. /\ 0 < Len(Sinks) => loop'.pc = "emit" /\ loop'.sink = 1 /\ loop'.alerts = loop.alerts
      /\ ~(0 < Len(Sinks)) => loop'.pc # "emit"
  <2>1. 0 \in 0 .. Len(Sinks)
    BY <1>1
  <2>2. loop.pc \in {"push", "emit"}
    BY <1>1
  <2>3. 0 + 1 = 1
    OBVIOUS
  <2> QED BY <1>2, <2>1, <2>2, <2>3, AfterSinkFacts
<1>4. \E I \in SUBSET DOMAIN stored' : filed' = AtPositions(stored', I)
  <2>1. DOMAIN stored = 1 .. Len(stored) /\ DOMAIN stored' = 1 .. Len(stored) + 1 /\ Len(stored) \in Nat
    BY <1>1, <1>2
  <2>2. PICK I \in SUBSET (1 .. Len(stored)) : filed = AtPositions(stored, I)
    <3>1. \E I \in SUBSET DOMAIN stored : filed = AtPositions(stored, I)
      BY DEF SinkInv
    <3> QED BY <2>1, <3>1, Zenon
  <2>3. /\ AtPositions(stored', I) = filed
        /\ AtPositions(stored', I \cup {Len(stored) + 1}) = Append(filed, a)
    <3>1. /\ AtPositions(Append(stored, a), I) = AtPositions(stored, I)
          /\ AtPositions(Append(stored, a), I \cup {Len(stored) + 1}) = Append(AtPositions(stored, I), a)
      <4>1. stored \in Seq(AlertRec) /\ a \in AlertRec /\ I \in SUBSET (1 .. Len(stored))
        BY <1>1, <2>2
      <4>2. ASSUME NEW s \in Seq(AlertRec), NEW x \in AlertRec, NEW J \in SUBSET (1 .. Len(s))
            PROVE  /\ AtPositions(Append(s, x), J) = AtPositions(s, J)
                   /\ AtPositions(Append(s, x), J \cup {Len(s) + 1}) = Append(AtPositions(s, J), x)
        BY TakenMore, SMTT(20)
      <4> QED BY <4>1, <4>2, Zenon
    <3> QED BY <1>2, <2>2, <3>1, Zenon
  <2>4. I \in SUBSET DOMAIN stored' /\ I \cup {Len(stored) + 1} \in SUBSET DOMAIN stored'
    <3>1. \A i \in 1 .. Len(stored) : i \in 1 .. Len(stored) + 1
      BY <2>1
    <3>2. Len(stored) + 1 \in 1 .. Len(stored) + 1
      BY <2>1
    <3> QED BY <2>1, <3>1, <3>2
  <2> QED BY <1>2, <2>3, <2>4
<1>5. ASSUME ends = 0 PROVE \A k \in 1 .. Len(Sinks) : AskedFor(k, stored)
  BY <1>1, <1>5 DEF SinkInv
<1>6. CASE 0 < Len(Sinks)
  <2>1. \A k \in 1 .. Len(Sinks) : ~(k < 1)
    BY <1>1
  <2>2. ends' = 0 => \E st \in Seq(AlertRec) :
               /\ stored' = Append(st, Head(loop'.alerts))
               /\ \A k \in 1 .. Len(Sinks) : told'[Sinks[k]] = ToldOf(Sinks[k], IF k < loop'.sink THEN stored' ELSE st)
                       /\ (Sinks[k] = "jira" => ticketed' = RulesOf(IF k < loop'.sink THEN stored' ELSE st))
    <3>1. ASSUME ends = 0
          PROVE  \A k \in 1 .. Len(Sinks) : told'[Sinks[k]] = ToldOf(Sinks[k], IF k < loop'.sink THEN stored' ELSE stored)
                       /\ (Sinks[k] = "jira" => ticketed' = RulesOf(IF k < loop'.sink THEN stored' ELSE stored))
      <4>1. \A k \in 1 .. Len(Sinks) : told'[Sinks[k]] = ToldOf(Sinks[k], stored) /\ (Sinks[k] = "jira" => ticketed' = RulesOf(stored))
        BY <1>2, <1>5, <3>1 DEF AskedFor
      <4> QED BY <1>3, <1>6, <2>1, <4>1
    <3> QED BY <1>1, <1>2, <1>3, <1>6, <3>1 DEF a
  <2> QED BY <1>2, <1>3, <1>4, <1>6, <2>2 DEF SinkInv, AskedFor
<1>7. CASE ~(0 < Len(Sinks))
  <2>1. 1 .. Len(Sinks) = {}
    BY <1>1, <1>7
  <2> QED BY <1>2, <1>3, <1>4, <1>7, <2>1 DEF SinkInv
<1> QED BY <1>6, <1>7


\* A sink is asked for the alert, and the others are left alone.
LEMMA SinkEmitStep == ASSUME LoopTypes, SinkInv, Emit PROVE SinkInv'
<1> DEFINE a == Head(loop.alerts)
           m == loop.sink
           s == Sinks[m]
<1>1. /\ loop.pc = "emit" /\ a \in AlertRec /\ m \in 1 .. Len(Sinks) /\ Len(Sinks) \in Nat
      /\ told \in [Range(Sinks) -> Seq(AlertRec)]
  <2>1. loop.pc = "emit" /\ loop.alerts # <<>> /\ loop.alerts \in Seq(AlertRec) /\ m \in 1 .. Len(Sinks)
    BY DEF Emit, LoopTypes, LoopRec, LoopShape
  <2>2. Head(loop.alerts) \in AlertRec
    BY <2>1, HeadTailProperties
  <2>3. Len(Sinks) \in Nat
    BY DetectionAssumption
  <2> QED BY <2>1, <2>2, <2>3 DEF LoopTypes
<1>2. /\ told' = (IF FirstForRule(s, a.rule) THEN [told EXCEPT ![s] = Append(@, a)] ELSE told)
      /\ ticketed' = (IF s = "jira" THEN ticketed \cup {a.rule} ELSE ticketed)
      /\ loop' = AfterSink(m) /\ UNCHANGED <<stored, filed, ends, node>>
  BY DEF Emit
<1>3. /\ \A j \in 1 .. Len(Sinks) : Sinks[j] \in Range(Sinks)
      /\ \A j, k \in 1 .. Len(Sinks) : Sinks[j] = Sinks[k] => j = k
  <2>1. DOMAIN Sinks = 1 .. Len(Sinks) /\ IsInjective(Sinks)
    BY DetectionAssumption
  <2> QED BY <2>1 DEF IsInjective, Range
<1>4. /\ m < Len(Sinks) => loop'.pc = "emit" /\ loop'.sink = m + 1 /\ loop'.alerts = loop.alerts
      /\ ~(m < Len(Sinks)) => loop'.pc # "emit"
  <2>1. m \in 0 .. Len(Sinks) /\ loop.pc \in {"push", "emit"}
    BY <1>1
  <2> HIDE DEF m
  <2> QED BY <1>2, <2>1, AfterSinkFacts
<1> HIDE DEF a, m
<1>5. ASSUME ends = 0
      PROVE  \E st \in Seq(AlertRec) :
                 /\ stored = Append(st, a)
                 /\ \A k \in 1 .. Len(Sinks) : AskedFor(k, IF k < m THEN stored ELSE st)
  BY <1>1, <1>5 DEF SinkInv, a, m
<1>6. ASSUME ends = 0, NEW st \in Seq(AlertRec), stored = Append(st, a),
             \A k \in 1 .. Len(Sinks) : AskedFor(k, IF k < m THEN stored ELSE st),
             NEW k \in 1 .. Len(Sinks)
      PROVE  told'[Sinks[k]] = ToldOf(Sinks[k], IF k < m + 1 THEN stored ELSE st) /\ (Sinks[k] = "jira" => ticketed' = RulesOf(IF k < m + 1 THEN stored ELSE st))
  <2>1. CASE k = m
    <3>1. k < m + 1 /\ ~(k < m)
      BY <1>1, <2>1
    <3>2. told[s] = ToldOf(s, st) /\ (s = "jira" => ticketed = RulesOf(st))
      BY <1>6, <2>1, <3>1 DEF AskedFor
    <3>3. told'[s] = ToldOf(s, stored) /\ (s = "jira" => ticketed' = RulesOf(stored))
      <4>1. s \in Range(Sinks)
        BY <1>1, <1>3
      <4>2. [told EXCEPT ![s] = Append(@, a)][s] = Append(told[s], a)
        BY <1>1, <4>1
      <4>3. RulesOf(stored) = RulesOf(st) \cup {a.rule} /\ ToldOf("jira", stored) =
                  IF a.rule \in RulesOf(st) THEN ToldOf("jira", st) ELSE Append(ToldOf("jira", st), a)
        BY <1>1, <1>6, OneMore
      <4>4. CASE s = "jira"
        BY <1>2, <3>2, <4>2, <4>3, <4>4 DEF FirstForRule
      <4>5. CASE s # "jira"
        BY <1>2, <1>6, <3>2, <4>2, <4>5 DEF FirstForRule, ToldOf
      <4> QED BY <4>4, <4>5
    <3> QED BY <2>1, <3>1, <3>3
  <2>2. CASE k # m
    <3>1. k < m + 1 <=> k < m
      BY <1>1, <2>2
    <3>2. Sinks[k] # s /\ Sinks[k] \in Range(Sinks)
      BY <1>1, <1>3, <2>2
    <3>3. told'[Sinks[k]] = told[Sinks[k]] /\ (Sinks[k] = "jira" => ticketed' = ticketed)
      BY <1>1, <1>2, <3>2
    <3>4. AskedFor(k, IF k < m THEN stored ELSE st)
      BY <1>6
    <3> DEFINE v == IF k < m THEN stored ELSE st
    <3>5. told[Sinks[k]] = ToldOf(Sinks[k], v) /\ (Sinks[k] = "jira" => ticketed = RulesOf(v))
      BY <3>4 DEF AskedFor
    <3>6. (IF k < m + 1 THEN stored ELSE st) = v
      BY <3>1 DEF v
    <3> HIDE DEF v
    <3> QED BY <3>3, <3>5, <3>6
  <2> QED BY <2>1, <2>2
<1>7. (\E I \in SUBSET DOMAIN stored' : filed' = AtPositions(stored', I)) /\ (ends' = 0 /\ ServesLong => node' = "up")
  BY <1>2 DEF SinkInv
<1>8. CASE m < Len(Sinks)
  <2>1. ASSUME ends' = 0
        PROVE  \E st \in Seq(AlertRec) :
                   /\ stored' = Append(st, Head(loop'.alerts))
                   /\ \A k \in 1 .. Len(Sinks) : AskedFor(k, IF k < loop.sink THEN stored ELSE st)'
    <3>1. PICK st \in Seq(AlertRec) :
                 /\ stored = Append(st, a)
                 /\ \A k \in 1 .. Len(Sinks) : AskedFor(k, IF k < m THEN stored ELSE st)
      BY <1>2, <1>5, <2>1
    <3>2. stored' = Append(st, Head(loop'.alerts)) /\ loop'.sink = m + 1
      BY <1>2, <1>4, <1>8, <3>1 DEF a
    <3>3. \A k \in 1 .. Len(Sinks) : told'[Sinks[k]] = ToldOf(Sinks[k], IF k < m + 1 THEN stored ELSE st) /\ (Sinks[k] = "jira" => ticketed' = RulesOf(IF k < m + 1 THEN stored ELSE st))
      BY <1>2, <1>6, <2>1, <3>1
    <3> QED BY <1>2, <3>2, <3>3 DEF AskedFor
  <2> QED BY <1>4, <1>7, <1>8, <2>1 DEF SinkInv
<1>9. CASE ~(m < Len(Sinks))
  <2>1. ASSUME ends' = 0, NEW k \in 1 .. Len(Sinks) PROVE AskedFor(k, stored)'
    <3>1. PICK st \in Seq(AlertRec) :
                 /\ stored = Append(st, a)
                 /\ \A j \in 1 .. Len(Sinks) : AskedFor(j, IF j < m THEN stored ELSE st)
      BY <1>2, <1>5, <2>1
    <3>2. k < m + 1
      BY <1>1, <1>9
    <3>3. told'[Sinks[k]] = ToldOf(Sinks[k], IF k < m + 1 THEN stored ELSE st) /\ (Sinks[k] = "jira" => ticketed' = RulesOf(IF k < m + 1 THEN stored ELSE st))
      BY <1>2, <1>6, <2>1, <3>1
    <3> QED BY <1>2, <3>2, <3>3 DEF AskedFor
  <2> QED BY <1>4, <1>7, <1>9, <2>1 DEF SinkInv
<1> QED BY <1>8, <1>9


\* The other steps: between emissions nothing of it changes, and a step that
\* ends the node counts the end.
LEMMA SinkQuietStep ==
    ASSUME SinkInv, UNCHANGED <<stored, told, filed>>, ends' = 0 => ends = 0 /\ ticketed' = ticketed,
           ends' = 0 /\ ServesLong => node' = "up",
           loop' = loop \/ (loop.pc # "emit" /\ loop'.pc # "emit") \/ ends' # 0
    PROVE  SinkInv'
<1>1. \E I \in SUBSET DOMAIN stored' : filed' = AtPositions(stored', I)
  BY DEF SinkInv
<1>2. CASE ends' # 0
  BY <1>1, <1>2 DEF SinkInv
<1>3. CASE ends' = 0 /\ loop' = loop
  <2>1. ends = 0 /\ UNCHANGED <<stored, told, ticketed>>
    BY <1>3
  <2>2. loop'.pc # "emit" => \A k \in 1 .. Len(Sinks) : AskedFor(k, stored)'
    BY <1>3, <2>1 DEF SinkInv, AskedFor
  <2>3. loop'.pc = "emit" => \E st \in Seq(AlertRec) :
               /\ stored' = Append(st, Head(loop'.alerts))
               /\ \A k \in 1 .. Len(Sinks) : AskedFor(k, IF k < loop.sink THEN stored ELSE st)'
    BY <1>3, <2>1 DEF SinkInv, AskedFor
  <2> QED BY <1>1, <1>3, <2>2, <2>3 DEF SinkInv
<1>4. CASE ends' = 0 /\ loop.pc # "emit" /\ loop'.pc # "emit"
  <2>1. ends = 0 /\ UNCHANGED <<stored, told, ticketed>>
    BY <1>4
  <2>2. \A k \in 1 .. Len(Sinks) : AskedFor(k, stored)'
    BY <1>4, <2>1 DEF SinkInv, AskedFor
  <2> QED BY <1>1, <1>4, <2>2 DEF SinkInv
<1> QED BY <1>2, <1>3, <1>4

LEMMA SinkInvStep == ASSUME LoopTypes, SinkInv, [TelemetryNext]_nodeVars PROVE SinkInv'
<1>0. loop \in LoopRec /\ LoopShape(loop) /\ ends \in Nat /\ loop.rest \in Seq(InputEvent)
  BY DEF LoopTypes, LoopRec
<1>1. CASE UNCHANGED loopVars \/ (\E s \in Session : GatewayHandsOn(s))
  <2>1. UNCHANGED <<node, loop, stored, told, filed, ticketed, ends>>
    BY <1>1 DEF loopVars, GatewayHandsOn
  <2>2. ends' = 0 /\ ServesLong => node' = "up"
    BY <2>1 DEF SinkInv
  <2> QED BY <2>1, <2>2, SinkQuietStep
<1>2. CASE PushAlert
  BY <1>2, SinkPushStep
<1>3. CASE Emit
  BY <1>3, SinkEmitStep
<1>4. CASE CtrlC \/ NodeCrash
  <2>1. UNCHANGED <<stored, told, filed>> /\ ends' = ends + 1
    BY <1>4 DEF CtrlC, NodeCrash
  <2>2. ends' # 0
    BY <1>0, <2>1
  <2> QED BY <2>1, <2>2, SinkQuietStep
<1>5. CASE CommitHot \/ Drained
  <2>1. UNCHANGED <<stored, told, filed, ticketed, ends, loop>> /\ (ServesLong => node' = node)
    BY <1>5 DEF CommitHot, Drained
  <2>2. ends' = 0 /\ ServesLong => node' = "up"
    BY <2>1 DEF SinkInv
  <2> QED BY <2>1, <2>2, SinkQuietStep
<1>6. CASE NodeStart
  <2>1. UNCHANGED <<stored, told, filed, ends, loop>> /\ node' = "up" /\ node = "down" /\ ServesLong
    BY <1>6 DEF NodeStart
  <2>2. ends # 0
    BY <2>1 DEF SinkInv
  <2> QED BY <2>1, <2>2, SinkQuietStep
<1>7. CASE TakeFrame \/ TakeEvent \/ Detect \/ IndexAdd
  <2>1. UNCHANGED <<node, stored, told, filed, ticketed, ends>>
    <3>1. CASE TakeFrame \/ TakeEvent
      BY <3>1, Zenon DEF TakeFrame, TakeEvent
    <3>2. CASE Detect \/ IndexAdd
      BY <3>2, Zenon DEF Detect, IndexAdd
    <3> QED BY <1>7, <3>1, <3>2
  <2>2. loop.pc # "emit" /\ loop'.pc # "emit"
    <3>1. CASE TakeFrame
      <4> DEFINE l == [Select EXCEPT !.sigma = Head(rx).sigma, !.index = Head(rx).index]
      <4>1. rx # <<>> /\ loop.pc = "select" /\ loop' = NextEvent(l, Head(rx).events)
        BY <3>1 DEF TakeFrame
      <4>2. l \in LoopRec /\ l.alerts = <<>> /\ Head(rx).events \in Seq(InputEvent)
        BY <4>1, FrameFacts
      <4> HIDE DEF l
      <4>3. loop'.pc \in {"select", "detect", "index"}
        BY <4>1, <4>2, NextEventFacts, SelectFacts
      <4> QED BY <4>1, <4>3
    <3>2. CASE TakeEvent
      BY <3>2, TakenEventFacts DEF TakeEvent
    <3>3. CASE Detect
      <4>1. loop.pc = "detect" /\ loop'.pc \in {"index", "push"}
        BY <1>0, <3>3 DEF Detect, LoopRec
      <4> QED BY <4>1
    <3>4. CASE IndexAdd
      <4>1. loop.pc = "index" /\ loop' = NextEvent(loop, loop.rest) /\ loop.alerts = <<>>
        BY <1>0, <3>4 DEF IndexAdd, LoopShape
      <4>2. loop'.pc \in {"select", "detect", "index"}
        BY <1>0, <4>1, NextEventFacts, SelectFacts
      <4> QED BY <4>1, <4>2
    <3> QED BY <1>7, <3>1, <3>2, <3>3, <3>4
  <2>3. ends' = 0 /\ ServesLong => node' = "up"
    BY <2>1 DEF SinkInv
  <2> QED BY <2>1, <2>2, <2>3, SinkQuietStep
<1> QED BY <1>1, <1>2, <1>3, <1>4, <1>5, <1>6, <1>7, StepCases
      DEF CollectorStep, SessionStep, StreamStep, RunStep

LEMMA SinkInit == TelemetrySpecInit => SinkInv
<1> SUFFICES ASSUME TelemetrySpecInit PROVE SinkInv
  OBVIOUS
<1>1. node = "up" /\ loop = Select /\ stored = <<>> /\ told = [s \in Range(Sinks) |-> <<>>] /\ filed = <<>> /\ ticketed = {}
  BY DEF TelemetrySpecInit, DetectionInit
<1>2. DOMAIN stored = {} /\ Cardinality({}) = 0
  BY <1>1, FS_EmptySet
<1>3. AtPositions(stored, {}) = <<>>
  BY <1>2 DEF AtPositions
<1>4. Firsts(stored) = {} /\ RulesOf(stored) = {}
  BY <1>2 DEF Firsts, RulesOf
<1>5. \A j \in 1 .. Len(Sinks) : Sinks[j] \in Range(Sinks)
  <2>1. DOMAIN Sinks = 1 .. Len(Sinks)
    BY DetectionAssumption
  <2> QED BY <2>1 DEF Range
<1>6. \A k \in 1 .. Len(Sinks) : AskedFor(k, stored)
  BY <1>1, <1>3, <1>4, <1>5 DEF AskedFor, ToldOf
<1>7. loop.pc = "select"
  BY <1>1, SelectFacts
<1> QED BY <1>1, <1>2, <1>3, <1>6, <1>7 DEF SinkInv

\* While the loop emits an alert, the sinks before the present one were asked
\* for every stored alert and those from it on for all but the last, whatever
\* the answers were, as long as the node has not ended.
THEOREM SinkInvariant == TelemetrySpec => []SinkInv
<1>1. SinkInv /\ LoopTypes /\ [TelemetryNext]_nodeVars => SinkInv'
  BY SinkInvStep
<1>2. TelemetrySpec => []LoopTypes
  BY NodeTypesInvariant, PTL DEF NodeTypes
<1> QED BY <1>1, <1>2, SinkInit, PTL DEF TelemetrySpec

LEMMA SinkInvTold == SinkInv => SinksTold
<1> SUFFICES ASSUME SinkInv, loop.pc = "select", ends = 0
             PROVE  /\ \A s \in Range(Sinks) \ {"jira"} : told[s] = stored
                    /\ "jira" \in Range(Sinks) => told["jira"] = AtPositions(stored, Firsts(stored))
                    /\ \E I \in SUBSET DOMAIN stored : filed = AtPositions(stored, I)
  BY DEF SinksTold
<1>1. \A s \in Range(Sinks) : \E k \in 1 .. Len(Sinks) : s = Sinks[k]
  <2>1. DOMAIN Sinks = 1 .. Len(Sinks)
    BY DetectionAssumption
  <2> QED BY <2>1 DEF Range
<1>2. \A k \in 1 .. Len(Sinks) : told[Sinks[k]] = ToldOf(Sinks[k], stored)
  BY DEF SinkInv, AskedFor
<1>3. \A s \in Range(Sinks) : told[s] = ToldOf(s, stored)
  BY <1>1, <1>2
<1> QED BY <1>3 DEF SinkInv, ToldOf

\* On a node that has not ended every network sink was asked once for every
\* stored alert, in their order, whichever other sinks failed (Outputs::emit),
\* and Jira for the first of each rule (JiraSink::first_for_rule).
THEOREM SinksAlways == TelemetrySpec => []SinksTold
  BY SinkInvariant, SinkInvTold, PTL


---------------------------------------------------------------------------
(* The process collector                                                   *)
(*                                                                         *)
(* The argument: what a sequence of events tells of a process is decided   *)
(* by the last event about it, and a poll tells of each process at most    *)
(* once.                                                                   *)

\* Untold and Running, of any events after any first snapshot.
UntoldIn(e, p, m, n) == \A i \in m .. n : e[i].kind \in {"start", "stop"} => e[i].of # p
RunningIn(b, e, p, n) ==
    \/ p \in b /\ UntoldIn(e, p, 1, n)
    \/ \E i \in 1 .. n : e[i] = [kind |-> "start", of |-> p] /\ UntoldIn(e, p, i + 1, n)

LEMMA RunningIs == \A p, n : Running(p, n) <=> RunningIn(baseline, emitted, p, n)
BY DEF Running, RunningIn, Untold, UntoldIn

LEMMA RunningThen == \A p, n : Running(p, n)' <=> RunningIn(baseline', emitted', p, n)
BY DEF Running, RunningIn, Untold, UntoldIn

\* Later events do not matter to what the first n tell.
LEMMA RunningPrefix ==
    ASSUME NEW b, NEW e, NEW f, NEW p, NEW n \in Nat, \A i \in 1 .. n : e[i] = f[i]
    PROVE  RunningIn(b, e, p, n) <=> RunningIn(b, f, p, n)
<1>1. UntoldIn(e, p, 1, n) <=> UntoldIn(f, p, 1, n)
  BY DEF UntoldIn
<1>2. \A i \in 1 .. n : UntoldIn(e, p, i + 1, n) <=> UntoldIn(f, p, i + 1, n)
  BY DEF UntoldIn
<1> QED BY <1>1, <1>2 DEF RunningIn

\* Nor do events about others.
LEMMA RunningOn ==
    ASSUME NEW b, NEW e, NEW p, NEW m \in Nat, NEW n \in Nat, m <= n, UntoldIn(e, p, m + 1, n)
    PROVE  RunningIn(b, e, p, n) <=> RunningIn(b, e, p, m)
<1>1. \A i \in 1 .. m + 1 : UntoldIn(e, p, i, n) <=> UntoldIn(e, p, i, m)
  <2> SUFFICES ASSUME NEW i \in 1 .. m + 1 PROVE UntoldIn(e, p, i, n) <=> UntoldIn(e, p, i, m)
    OBVIOUS
  <2>1. \A j \in i .. m : j \in i .. n
    OBVIOUS
  <2>2. \A j \in i .. n : j \in i .. m \/ j \in m + 1 .. n
    OBVIOUS
  <2> QED BY <2>1, <2>2 DEF UntoldIn
<1>2. UntoldIn(e, p, 1, n) <=> UntoldIn(e, p, 1, m)
  BY <1>1
<1>3. \A i \in 1 .. m : i \in 1 .. n /\ i + 1 \in 1 .. m + 1
  OBVIOUS
<1>4. \A i \in 1 .. n : i \notin 1 .. m => i \in m + 1 .. n
  OBVIOUS
<1>5. \A i \in m + 1 .. n : e[i] # [kind |-> "start", of |-> p]
  BY DEF UntoldIn
<1> QED BY <1>1, <1>2, <1>3, <1>4, <1>5 DEF RunningIn

\* The last event about a process decides.
LEMMA RunningNow ==
    ASSUME NEW b, NEW e, NEW p, NEW n \in Nat, NEW m \in 1 .. n, UntoldIn(e, p, m + 1, n)
    PROVE  /\ e[m] = [kind |-> "start", of |-> p] => RunningIn(b, e, p, n)
           /\ e[m] = [kind |-> "stop", of |-> p] => ~RunningIn(b, e, p, n)
<1>1. e[m] = [kind |-> "start", of |-> p] => RunningIn(b, e, p, n)
  BY DEF RunningIn
<1>2. ASSUME e[m] = [kind |-> "stop", of |-> p] PROVE ~RunningIn(b, e, p, n)
  <2>1. e[m].kind = "stop" /\ e[m].of = p
    BY <1>2
  <2>2. ~UntoldIn(e, p, 1, n)
    BY <2>1 DEF UntoldIn
  <2>3. ASSUME NEW i \in 1 .. n, e[i] = [kind |-> "start", of |-> p], UntoldIn(e, p, i + 1, n) PROVE FALSE
    <3>1. e[i].kind = "start" /\ e[i].of = p
      BY <2>3
    <3>2. i # m
      BY <2>1, <3>1
    <3>3. CASE i < m
      <4>1. m \in i + 1 .. n
        BY <3>3
      <4> QED BY <2>1, <2>3, <4>1 DEF UntoldIn
    <3>4. CASE m < i
      <4>1. i \in m + 1 .. n
        BY <3>4
      <4> QED BY <3>1, <4>1 DEF UntoldIn
    <3> QED BY <3>2, <3>3, <3>4
  <2> QED BY <2>2, <2>3 DEF RunningIn
<1> QED BY <1>1, <1>2

\* A poll tells of each process at most once: of those that appeared and of
\* those that vanished.
LEMMA PolledFacts ==
    ASSUME AgentTypes
    PROVE  /\ Len(Polled) \in Nat
           /\ \A i \in 1 .. Len(Polled) :
                  \/ Polled[i] = [kind |-> "start", of |-> Polled[i].of] /\ Polled[i].kind = "start" /\ Polled[i].of \in procs \ known
                  \/ Polled[i] = [kind |-> "stop", of |-> Polled[i].of] /\ Polled[i].kind = "stop" /\ Polled[i].of \in known \ procs
           /\ \A i, j \in 1 .. Len(Polled) : Polled[i].of = Polled[j].of => i = j
           /\ \A p \in procs \ known : \E i \in 1 .. Len(Polled) : Polled[i] = [kind |-> "start", of |-> p] /\ Polled[i].of = p
           /\ \A p \in known \ procs : \E i \in 1 .. Len(Polled) : Polled[i] = [kind |-> "stop", of |-> p] /\ Polled[i].of = p
<1> DEFINE S == procs \ known
           T == known \ procs
           a == Events("start", S)
           b == Events("stop", T)
           m == Len(a)
           n == Len(b)
           f == Polled
<1>1. a \in Seq(EventRec) /\ b \in Seq(EventRec) /\ IsFiniteSet(S) /\ IsFiniteSet(T)
  BY PolledType
<1>2. f = a \o b
  BY DEF Polled
<1>3. S \cap T = {}
  OBVIOUS
<1> HIDE DEF S, T
<1>4. About(a, "start", S) /\ About(b, "stop", T)
  BY <1>1, EventsFacts
<1> HIDE DEF a, b, f
<1>5. /\ \A i \in 1 .. m : a[i] = [kind |-> "start", of |-> a[i].of] /\ a[i].kind = "start" /\ a[i].of \in S
      /\ \A i, j \in 1 .. m : a[i].of = a[j].of => i = j
      /\ \A x \in S : \E i \in 1 .. m : a[i].of = x
      /\ \A i \in 1 .. n : b[i] = [kind |-> "stop", of |-> b[i].of] /\ b[i].kind = "stop" /\ b[i].of \in T
      /\ \A i, j \in 1 .. n : b[i].of = b[j].of => i = j
      /\ \A x \in T : \E i \in 1 .. n : b[i].of = x
  BY <1>4 DEF About
<1>6. m \in Nat /\ n \in Nat /\ Len(f) = m + n /\ \A i \in 1 .. m + n : f[i] = IF i <= m THEN a[i] ELSE b[i - m]
  BY <1>1, <1>2, ConcatProperties
<1> HIDE DEF m, n
<1>7. \A i \in 1 .. m : i \in 1 .. m + n /\ i <= m
  BY <1>6
<1>8. \A i \in 1 .. n : m + i \in 1 .. m + n /\ ~(m + i <= m) /\ (m + i) - m = i
  BY <1>6
<1>9. \A i \in 1 .. m + n : (i <= m => i \in 1 .. m) /\ (~(i <= m) => i - m \in 1 .. n)
  BY <1>6
<1>10. ASSUME NEW i \in 1 .. m + n
      PROVE  /\ i <= m => f[i] = a[i] /\ f[i] = [kind |-> "start", of |-> f[i].of] /\ f[i].kind = "start" /\ f[i].of \in S
             /\ ~(i <= m) => f[i] = b[i - m] /\ f[i] = [kind |-> "stop", of |-> f[i].of] /\ f[i].kind = "stop" /\ f[i].of \in T
  <2>1. ASSUME i <= m PROVE f[i] = a[i] /\ i \in 1 .. m
    BY <1>6, <1>9, <2>1
  <2>2. ASSUME ~(i <= m) PROVE f[i] = b[i - m] /\ i - m \in 1 .. n
    BY <1>6, <1>9, <2>2
  <2>3. ASSUME i <= m PROVE a[i] = [kind |-> "start", of |-> a[i].of] /\ a[i].kind = "start" /\ a[i].of \in S
    BY <1>5, <2>1, <2>3, Zenon
  <2>4. ASSUME ~(i <= m)
        PROVE  b[i - m] = [kind |-> "stop", of |-> b[i - m].of] /\ b[i - m].kind = "stop" /\ b[i - m].of \in T
    BY <1>5, <2>2, <2>4, Zenon
  <2>5. CASE i <= m
    BY <2>1, <2>3, <2>5, Zenon
  <2>6. CASE ~(i <= m)
    BY <2>2, <2>4, <2>6, Zenon
  <2> QED BY <2>5, <2>6
<1>11. ASSUME NEW i \in 1 .. m + n, NEW j \in 1 .. m + n, f[i].of = f[j].of PROVE i = j
  <2>1. CASE i <= m /\ j <= m
    <3>1. f[i] = a[i] /\ f[j] = a[j] /\ i \in 1 .. m /\ j \in 1 .. m
      BY <1>9, <1>10, <2>1
    <3>2. a[i].of = a[j].of
      BY <1>11, <3>1, Zenon
    <3>3. \A x, y \in 1 .. m : a[x].of = a[y].of => x = y
      BY <1>5, Zenon
    <3> QED BY <3>1, <3>2, <3>3, Zenon
  <2>2. CASE ~(i <= m) /\ ~(j <= m)
    <3>1. f[i] = b[i - m] /\ f[j] = b[j - m] /\ i - m \in 1 .. n /\ j - m \in 1 .. n
      BY <1>9, <1>10, <2>2
    <3>2. b[i - m].of = b[j - m].of
      BY <1>11, <3>1, Zenon
    <3>3. \A x, y \in 1 .. n : b[x].of = b[y].of => x = y
      BY <1>5, Zenon
    <3>4. i - m = j - m
      BY <3>1, <3>2, <3>3, Zenon
    <3> QED BY <1>6, <3>4
  <2>3. (i <= m) <=> (j <= m)
    BY <1>3, <1>10, <1>11
  <2> QED BY <2>1, <2>2, <2>3
<1>12. ASSUME NEW p \in S PROVE \E i \in 1 .. m + n : f[i] = [kind |-> "start", of |-> p] /\ f[i].of = p
  <2>1. PICK i \in 1 .. m : a[i].of = p
    BY <1>5
  <2>2. i \in 1 .. m + n /\ f[i] = a[i]
    BY <1>7, <1>10
  <2>3. f[i] = [kind |-> "start", of |-> p]
    BY <1>5, <2>1, <2>2
  <2> QED BY <2>1, <2>2, <2>3
<1>13. ASSUME NEW p \in T PROVE \E i \in 1 .. m + n : f[i] = [kind |-> "stop", of |-> p] /\ f[i].of = p
  <2>1. PICK i \in 1 .. n : b[i].of = p
    BY <1>5
  <2>2. m + i \in 1 .. m + n /\ f[m + i] = b[i]
    BY <1>6, <1>8
  <2>3. f[m + i] = [kind |-> "stop", of |-> p]
    BY <1>5, <2>1, <2>2
  <2> QED BY <2>1, <2>2, <2>3
<1>14. Len(f) \in Nat /\ 1 .. Len(f) = 1 .. m + n
  BY <1>6
<1> QED BY <1>10, <1>11, <1>12, <1>13, <1>14 DEF f, S, T

\* The invariant: before the first poll there are no process events.
TrackInv ==
    /\ "process" \notin primed => \A i \in 1 .. Len(emitted) : emitted[i].kind = "add"
    /\ ProcessesTracked

\* The conditions of ProcessesTracked, of any events.
TrackedIn(b, e, n, S) ==
    /\ \A i \in 1 .. n : /\ e[i].kind = "start" => ~RunningIn(b, e, e[i].of, i - 1)
                         /\ e[i].kind = "stop" => RunningIn(b, e, e[i].of, i - 1)
    /\ \A p \in Pid : p \in S <=> RunningIn(b, e, p, n)

LEMMA TrackedIs ==
    ASSUME AgentTypes
    PROVE  ProcessesTracked <=> ("process" \in primed => TrackedIn(baseline, emitted, Len(emitted), known))
<1>1. DOMAIN emitted = 1 .. Len(emitted) /\ known \in SUBSET Pid
  BY DEF AgentTypes
<1>2. known = {p \in Pid : Running(p, Len(emitted))} <=> \A p \in Pid : p \in known <=> Running(p, Len(emitted))
  BY <1>1
<1> QED BY <1>1, <1>2, RunningIs DEF ProcessesTracked, TrackedIn

LEMMA TrackedThen ==
    ASSUME AgentTypes'
    PROVE  ProcessesTracked' <=> ("process" \in primed' => TrackedIn(baseline', emitted', Len(emitted'), known'))
<1>1. DOMAIN emitted' = 1 .. Len(emitted') /\ known' \in SUBSET Pid
  BY DEF AgentTypes
<1>2. known' = {p \in Pid : Running(p, Len(emitted))'} <=> \A p \in Pid : p \in known' <=> Running(p, Len(emitted))'
  BY <1>1
<1>3. \A p : Running(p, Len(emitted))' <=> RunningIn(baseline', emitted', p, Len(emitted'))
  BY DEF Running, RunningIn, Untold, UntoldIn
<1>4. \A i : Running(emitted[i].of, i - 1)' <=> RunningIn(baseline', emitted', emitted'[i].of, i - 1)
  BY DEF Running, RunningIn, Untold, UntoldIn
<1> QED BY <1>1, <1>2, <1>3, <1>4 DEF ProcessesTracked, TrackedIn

\* Events after the first n, each of them about another process than the
\* others, that start what did not run and stop what did.
LEMMA TrackedMore ==
    ASSUME NEW b, NEW e, NEW f, NEW n \in Nat, NEW k \in Nat, NEW S, NEW T,
           TrackedIn(b, e, n, S), \A i \in 1 .. n : f[i] = e[i],
           \A i \in 1 .. k : f[n + i].kind \in {"start", "stop"} =>
               /\ f[n + i].of \in Pid
               /\ \A j \in 1 .. k : f[n + j].kind \in {"start", "stop"} /\ f[n + j].of = f[n + i].of => j = i
               /\ f[n + i].kind = "start" => f[n + i].of \notin S
               /\ f[n + i].kind = "stop" => f[n + i].of \in S,
           \A p \in T \ S : \E i \in 1 .. k : f[n + i] = [kind |-> "start", of |-> p],
           \A p \in S \ T : \E i \in 1 .. k : f[n + i] = [kind |-> "stop", of |-> p],
           \A i \in 1 .. k : (f[n + i].kind = "start" => f[n + i].of \in T) /\ (f[n + i].kind = "stop" => f[n + i].of \notin T)
    PROVE  TrackedIn(b, f, n + k, T)
<1>1. \A p, m : m \in 0 .. n => (RunningIn(b, e, p, m) <=> RunningIn(b, f, p, m))
  <2> SUFFICES ASSUME NEW p, NEW m \in 0 .. n PROVE RunningIn(b, e, p, m) <=> RunningIn(b, f, p, m)
    OBVIOUS
  <2>1. m \in Nat /\ \A i \in 1 .. m : e[i] = f[i]
    OBVIOUS
  <2> QED BY <2>1, RunningPrefix
<1>2. \A p \in Pid : p \in S <=> RunningIn(b, f, p, n)
  <2>1. n \in 0 .. n
    OBVIOUS
  <2> QED BY <1>1, <2>1 DEF TrackedIn
<1>3. ASSUME NEW i \in 1 .. n
      PROVE  /\ f[i].kind = "start" => ~RunningIn(b, f, f[i].of, i - 1)
             /\ f[i].kind = "stop" => RunningIn(b, f, f[i].of, i - 1)
  <2>1. i - 1 \in 0 .. n /\ f[i] = e[i]
    OBVIOUS
  <2> QED BY <1>1, <2>1 DEF TrackedIn
<1>4. ASSUME NEW i \in n + 1 .. n + k, f[i].kind \in {"start", "stop"}
      PROVE  /\ f[i].kind = "start" => ~RunningIn(b, f, f[i].of, i - 1)
             /\ f[i].kind = "stop" => RunningIn(b, f, f[i].of, i - 1)
  <2> DEFINE x == i - n
             p == f[i].of
  <2>1. x \in 1 .. k /\ i = n + x /\ i - 1 \in Nat /\ n <= i - 1
    OBVIOUS
  <2> HIDE DEF x
  <2>2. p \in Pid /\ (f[i].kind = "start" => p \notin S) /\ (f[i].kind = "stop" => p \in S)
    BY <1>4, <2>1
  <2>3. UntoldIn(f, p, n + 1, i - 1)
    <3> SUFFICES ASSUME NEW j \in n + 1 .. i - 1, f[j].kind \in {"start", "stop"}, f[j].of = p PROVE FALSE
      BY DEF UntoldIn
    <3> DEFINE y == j - n
    <3>1. y \in 1 .. k /\ j = n + y /\ y # x
      BY <2>1
    <3> HIDE DEF y
    <3> QED BY <1>4, <2>1, <3>1
  <2> HIDE DEF p
  <2>4. RunningIn(b, f, p, i - 1) <=> RunningIn(b, f, p, n)
    BY <2>1, <2>3, RunningOn
  <2> QED BY <1>2, <2>2, <2>4 DEF p
<1>5. ASSUME NEW p \in Pid PROVE p \in T <=> RunningIn(b, f, p, n + k)
  <2>0. n + k \in Nat /\ n <= n + k
    OBVIOUS
  <2>1. ASSUME NEW i \in 1 .. k, f[n + i].kind \in {"start", "stop"}, f[n + i].of = p
        PROVE  UntoldIn(f, p, (n + i) + 1, n + k) /\ n + i \in 1 .. n + k
    <3>1. n + i \in 1 .. n + k
      OBVIOUS
    <3> SUFFICES ASSUME NEW j \in (n + i) + 1 .. n + k, f[j].kind \in {"start", "stop"}, f[j].of = p PROVE FALSE
      BY <3>1 DEF UntoldIn
    <3> DEFINE y == j - n
    <3>2. y \in 1 .. k /\ j = n + y /\ y # i
      OBVIOUS
    <3> HIDE DEF y
    <3> QED BY <2>1, <3>2
  <2>2. CASE p \in T \ S
    <3>1. PICK i \in 1 .. k : f[n + i] = [kind |-> "start", of |-> p]
      BY <2>2
    <3>2. f[n + i].kind = "start" /\ f[n + i].of = p
      BY <3>1
    <3> DEFINE m == n + i
    <3>3. UntoldIn(f, p, m + 1, n + k) /\ m \in 1 .. n + k
      BY <2>1, <3>2
    <3>4. f[m] = [kind |-> "start", of |-> p]
      BY <3>1
    <3> HIDE DEF m
    <3>5. /\ f[m] = [kind |-> "start", of |-> p] => RunningIn(b, f, p, n + k)
          /\ f[m] = [kind |-> "stop", of |-> p] => ~RunningIn(b, f, p, n + k)
      BY <2>0, <3>3, RunningNow
    <3> QED BY <2>2, <3>4, <3>5
  <2>3. CASE p \in S \ T
    <3>1. PICK i \in 1 .. k : f[n + i] = [kind |-> "stop", of |-> p]
      BY <2>3
    <3>2. f[n + i].kind = "stop" /\ f[n + i].of = p
      BY <3>1
    <3> DEFINE m == n + i
    <3>3. UntoldIn(f, p, m + 1, n + k) /\ m \in 1 .. n + k
      BY <2>1, <3>2
    <3>4. f[m] = [kind |-> "stop", of |-> p]
      BY <3>1
    <3> HIDE DEF m
    <3>5. /\ f[m] = [kind |-> "start", of |-> p] => RunningIn(b, f, p, n + k)
          /\ f[m] = [kind |-> "stop", of |-> p] => ~RunningIn(b, f, p, n + k)
      BY <2>0, <3>3, RunningNow
    <3> QED BY <2>3, <3>4, <3>5
  <2>4. CASE p \in S <=> p \in T
    <3>1. UntoldIn(f, p, n + 1, n + k)
      <4> SUFFICES ASSUME NEW j \in n + 1 .. n + k, f[j].kind \in {"start", "stop"}, f[j].of = p PROVE FALSE
        BY DEF UntoldIn
      <4> DEFINE y == j - n
      <4>1. y \in 1 .. k /\ j = n + y
        OBVIOUS
      <4> HIDE DEF y
      <4> QED BY <2>4, <4>1
    <3>2. RunningIn(b, f, p, n + k) <=> RunningIn(b, f, p, n)
      BY <2>0, <3>1, RunningOn
    <3> QED BY <1>2, <2>4, <3>2
  <2> QED BY <2>2, <2>3, <2>4
<1>6. \A i \in 1 .. n + k : i \in 1 .. n \/ i \in n + 1 .. n + k
  OBVIOUS
<1> QED BY <1>3, <1>4, <1>5, <1>6 DEF TrackedIn


LEMMA TrackPollStep ==
    ASSUME AgentTypes, AgentTypes', TrackInv, ProcessPoll
    PROVE  TrackInv'
<1> DEFINE n == Len(emitted)
<1>0. emitted \in Seq(EventRec) /\ n \in Nat /\ known \in SUBSET Pid /\ procs \in SUBSET Pid
  BY DEF AgentTypes
<1>1. known' = procs /\ "process" \in primed'
  BY DEF ProcessPoll, Snapshot
<1>2. CASE "process" \in primed
  <2> DEFINE k == Len(Polled)
  <2>1. baseline' = baseline /\ Collected(Polled)
    BY <1>2 DEF ProcessPoll, Polled
  <2>2. /\ Len(emitted') = n + k /\ \A i \in 1 .. n : emitted'[i] = emitted[i]
        /\ \A i \in 1 .. k : emitted'[n + i] = Polled[i]
    BY <2>1, PolledType, CollectedFacts
  <2>3. /\ k \in Nat
        /\ \A i \in 1 .. k : \/ Polled[i] = [kind |-> "start", of |-> Polled[i].of] /\ Polled[i].kind = "start" /\ Polled[i].of \in procs \ known
                             \/ Polled[i] = [kind |-> "stop", of |-> Polled[i].of] /\ Polled[i].kind = "stop" /\ Polled[i].of \in known \ procs
        /\ \A i, j \in 1 .. k : Polled[i].of = Polled[j].of => i = j
        /\ \A p \in procs \ known : \E i \in 1 .. k : Polled[i] = [kind |-> "start", of |-> p] /\ Polled[i].of = p
        /\ \A p \in known \ procs : \E i \in 1 .. k : Polled[i] = [kind |-> "stop", of |-> p] /\ Polled[i].of = p
    BY PolledFacts
  <2>4. \A i \in 1 .. k : /\ Polled[i].kind \in {"start", "stop"}
                          /\ Polled[i].kind = "start" => Polled[i].of \in procs \ known
                          /\ Polled[i].kind = "stop" => Polled[i].of \in known \ procs
    BY <2>3
  <2>5. TrackedIn(baseline, emitted, n, known)
    BY <1>2, TrackedIs DEF TrackInv
  <2> DEFINE f == emitted'
  <2> HIDE DEF n, k, f
  <2>6. /\ \A i \in 1 .. n : f[i] = emitted[i]
        /\ \A i \in 1 .. k : f[n + i] = Polled[i]
    BY <2>2 DEF f
  <2>7. TrackedIn(baseline, f, n + k, procs)
    <3>1. \A i \in 1 .. k : f[n + i].kind \in {"start", "stop"} =>
               /\ f[n + i].of \in Pid
               /\ \A j \in 1 .. k : f[n + j].kind \in {"start", "stop"} /\ f[n + j].of = f[n + i].of => j = i
               /\ f[n + i].kind = "start" => f[n + i].of \notin known
               /\ f[n + i].kind = "stop" => f[n + i].of \in known
      <4>1. \A i \in 1 .. k : f[n + i].of \in Pid
        BY <1>0, <2>4, <2>6
      <4>2. \A i, j \in 1 .. k : f[n + j].of = f[n + i].of => j = i
        BY <2>3, <2>6
      <4> QED BY <2>4, <2>6, <4>1, <4>2
    <3>2. /\ \A p \in procs \ known : \E i \in 1 .. k : f[n + i] = [kind |-> "start", of |-> p]
          /\ \A p \in known \ procs : \E i \in 1 .. k : f[n + i] = [kind |-> "stop", of |-> p]
      BY <2>3, <2>6
    <3>3. \A i \in 1 .. k : (f[n + i].kind = "start" => f[n + i].of \in procs) /\ (f[n + i].kind = "stop" => f[n + i].of \notin procs)
      BY <2>4, <2>6
    <3>4. n \in Nat /\ k \in Nat
      BY <1>0, <2>3
    <3> QED BY <2>5, <2>6, <3>1, <3>2, <3>3, <3>4, TrackedMore
  <2>8. TrackedIn(baseline', emitted', Len(emitted'), known')
    BY <1>1, <2>1, <2>2, <2>7 DEF f
  <2> QED BY <1>1, <2>8, TrackedThen DEF TrackInv
<1>3. CASE "process" \notin primed
  <2>1. baseline' = procs /\ emitted' = emitted
    BY <1>3 DEF ProcessPoll
  <2>2. \A i \in 1 .. n : emitted[i].kind = "add"
    BY <1>3 DEF TrackInv
  <2>3. \A p : RunningIn(procs, emitted, p, n) <=> p \in procs
    <3>1. \A p : UntoldIn(emitted, p, 1, n)
      BY <2>2 DEF UntoldIn
    <3>2. \A p : \A i \in 1 .. n : emitted[i] # [kind |-> "start", of |-> p]
      BY <2>2
    <3> QED BY <3>1, <3>2 DEF RunningIn
  <2>4. TrackedIn(procs, emitted, n, procs)
    BY <2>2, <2>3 DEF TrackedIn
  <2> QED BY <1>1, <2>1, <2>4, TrackedThen DEF TrackInv
<1> QED BY <1>2, <1>3

LEMMA TrackAddStep ==
    ASSUME AgentTypes, AgentTypes', TrackInv, PersistencePoll
    PROVE  TrackInv'
<1> DEFINE n == Len(emitted)
<1>0. emitted \in Seq(EventRec) /\ n \in Nat
  BY DEF AgentTypes
<1>1. known' = known /\ baseline' = baseline /\ ("process" \in primed' <=> "process" \in primed)
  BY DEF PersistencePoll
<1>2. CASE "persistence" \in primed
  <2> DEFINE q == Events("add", AddedNow)
             k == Len(q)
             f == emitted'
  <2>1. Collected(q)
    BY <1>2 DEF PersistencePoll, AddedNow
  <2>2. /\ Len(emitted') = n + k /\ \A i \in 1 .. n : emitted'[i] = emitted[i]
        /\ \A i \in 1 .. k : emitted'[n + i] = q[i]
        /\ k \in Nat
    BY <2>1, AddedType, CollectedFacts
  <2>3. \A i \in 1 .. k : q[i].kind = "add"
    <3>1. IsFiniteSet(AddedNow)
      <4>1. AddedNow \in SUBSET Entry /\ IsFiniteSet(Entry)
        BY TelemetryAssumption DEF AgentTypes, AddedNow
      <4> QED BY <4>1, FS_Subset
    <3>2. About(q, "add", AddedNow)
      BY <3>1, EventsFacts
    <3> HIDE DEF q
    <3> QED BY <3>2 DEF About
  <2> HIDE DEF n, q, k, f
  <2>4. /\ \A i \in 1 .. n : f[i] = emitted[i]
        /\ \A i \in 1 .. k : f[n + i].kind = "add"
    BY <2>2, <2>3 DEF f
  <2>5. CASE "process" \in primed
    <3>1. TrackedIn(baseline, emitted, n, known)
      BY <2>5, TrackedIs DEF TrackInv, n
    <3>2. TrackedIn(baseline, f, n + k, known)
      BY <1>0, <2>2, <2>4, <3>1, TrackedMore
    <3>3. TrackedIn(baseline', emitted', Len(emitted'), known')
      BY <1>1, <2>2, <3>2 DEF f
    <3> QED BY <1>1, <2>5, <3>3, TrackedThen DEF TrackInv
  <2>6. CASE "process" \notin primed
    <3>1. \A i \in 1 .. n : emitted[i].kind = "add"
      BY <2>6 DEF TrackInv, n
    <3>2. \A i \in 1 .. n + k : i \in 1 .. n \/ (i - n \in 1 .. k /\ n + (i - n) = i)
      BY <1>0, <2>2
    <3>3. \A i \in 1 .. n + k : f[i].kind = "add"
      BY <2>4, <3>1, <3>2
    <3>4. \A i \in 1 .. Len(emitted') : emitted'[i].kind = "add"
      BY <2>2, <3>3 DEF f
    <3> QED BY <1>1, <2>6, <3>4, TrackedThen DEF TrackInv
  <2> QED BY <2>5, <2>6
<1>3. CASE "persistence" \notin primed
  <2>1. emitted' = emitted
    BY <1>3 DEF PersistencePoll
  <2> QED BY <1>1, <2>1, TrackedIs, TrackedThen DEF TrackInv
<1> QED BY <1>2, <1>3

LEMMA TrackInvStep == ASSUME NodeTypes, NodeTypes', TrackInv, [TelemetryNext]_nodeVars PROVE TrackInv'
<1>0. AgentTypes /\ AgentTypes'
  BY DEF NodeTypes
<1>1. CASE ProcessPoll
  BY <1>0, <1>1, TrackPollStep
<1>2. CASE PersistencePoll
  BY <1>0, <1>2, TrackAddStep
<1>3. CASE UNCHANGED <<emitted, baseline, known, primed>>
  BY <1>0, <1>3, TrackedIs, TrackedThen DEF TrackInv
<1>4. CASE HostChange \/ Collect
  BY <1>3, <1>4 DEF HostChange, Collect, collectorVars
<1>5. CASE SessionStep
  <2>1. CASE ConnectGateway \/ Receive \/ Flush \/ Beat
    BY <1>3, <2>1 DEF ConnectGateway, Receive, Flush, Beat, collectorVars
  <2>2. CASE ReadAck \/ SendUp \/ Break
    BY <1>3, <2>2 DEF ReadAck, SendUp, Break, collectorVars
  <2> QED BY <1>5, <2>1, <2>2 DEF SessionStep
<1>6. CASE StreamStep \/ (\E s \in Session : GatewayHandsOn(s))
  BY <1>3, <1>6 DEF StreamStep, GatewayTakes, GatewayAcks, GatewayHandsOn, collectorVars
<1>7. CASE RunStep \/ UNCHANGED <<telemetryVars, loopVars>>
  BY <1>3, <1>7 DEF RunStep, telemetryVars, collectorVars
<1>8. CASE SessionsEnd
  BY <1>3, <1>8 DEF SessionsEnd, collectorVars
<1> QED BY <1>1, <1>2, <1>4, <1>5, <1>6, <1>7, <1>8, StepCases DEF CollectorStep

LEMMA TrackInit == TelemetrySpecInit => TrackInv
<1> SUFFICES ASSUME TelemetrySpecInit PROVE TrackInv
  OBVIOUS
<1>1. emitted = <<>> /\ primed = {}
  BY DEF TelemetrySpecInit, TelemetryInit
<1>2. \A i \in 1 .. Len(emitted) : FALSE
  BY <1>1
<1> QED BY <1>1, <1>2 DEF TrackInv, ProcessesTracked

\* Before ProcessCollector's first poll there are no process events, and from
\* then on the events and the first snapshot replay to its present one.
THEOREM TrackInvariant == TelemetrySpec => []TrackInv
<1>1. TrackInv /\ NodeTypes /\ NodeTypes' /\ [TelemetryNext]_nodeVars => TrackInv'
  BY TrackInvStep
<1> QED BY <1>1, TrackInit, NodeTypesInvariant, PTL DEF TelemetrySpec

\* A start is only ever collected of a process that was not running, a stop of
\* one that was, and what the events tell is the snapshot, however the polls
\* of the two collectors and the host's changes interleave.
THEOREM ProcessesAlways == TelemetrySpec => []ProcessesTracked
<1>1. TrackInv => ProcessesTracked
  BY DEF TrackInv
<1> QED BY <1>1, TrackInvariant, PTL


---------------------------------------------------------------------------
(* The places of the events                                                *)
(*                                                                         *)
(* The argument: a step takes each event it leaves in a place from one     *)
(* spot of the step before, no two from the same, and, in the first        *)
(* session, never past another.  So nothing is repeated and nothing        *)
(* overtakes.                                                              *)

Boxes == [Place -> Seq(Int)]
Hold == [p \in Place |-> Holding(p)]

\* The spots of the agents' events, what is there, and the order of spots.
Spot(H) == {x \in Place \X Nat : x[2] \in 1 .. Len(H[x[1]]) /\ H[x[1]][x[2]] > 0}
In(H, x) == H[x[1]][x[2]]
SpotAhead(x, y) == Ahead(x[1], x[2], y[1], y[2])

Once(H) == \A x, y \in Spot(H) : In(H, x) = In(H, y) => x = y
InOrder(H) == \A x, y \in Spot(H) : SpotAhead(x, y) => In(H, x) < In(H, y)
Content(H) == {In(H, x) : x \in Spot(H)}

AccountInv ==
    /\ Content(Hold) = (1 .. Len(emitted)) \ (lost \cup dropped)
    /\ \A e \in lost \cup dropped : e \in Int /\ e <= Len(emitted)
    /\ Once(Hold)
    /\ opened <= 1 => InOrder(Hold)

LEMMA PlaceShape ==
    /\ \A p \in Place : \/ \E k \in {1, 2, 3, 4, 6, 7, 8, 9} : p = <<k, 0, 0>>
                        \/ \E s \in Session, j \in 0 .. UpCap : p = <<5, s, j>>
    /\ \A k \in {1, 2, 3, 4, 6, 7, 8, 9} : <<k, 0, 0>> \in Place
    /\ \A s \in Session, j \in 0 .. UpCap : <<5, s, j>> \in Place
BY DEF Place

\* The places are in a line.
LEMMA PlaceOrder ==
    /\ \A p, q, r \in Place : Before(p, q) /\ Before(q, r) => Before(p, r)
    /\ \A p, q \in Place : ~(Before(p, q) /\ Before(q, p)) /\ ~Before(p, p)
    /\ \A p, q \in Place : p = q \/ Before(p, q) \/ Before(q, p)
<1>1. \A p \in Place : p[1] \in Int /\ p[2] \in Int /\ p[3] \in Int /\ p = <<p[1], p[2], p[3]>>
  <2>1. MaxBreaks \in Nat /\ MaxNodeStops \in Nat /\ UpCap \in Nat
    BY TelemetryAssumption, DetectionAssumption
  <2>2. Session \subseteq Int
    BY <2>1 DEF Session
  <2>3. \A a, b, c : <<a, b, c>>[1] = a /\ <<a, b, c>>[2] = b /\ <<a, b, c>>[3] = c
    OBVIOUS
  <2>4. \A k \in {1, 2, 3, 4, 6, 7, 8, 9} : k \in Int
    OBVIOUS
  <2>5. \A j \in 0 .. UpCap : j \in Int
    BY <2>1
  <2> QED BY <2>2, <2>3, <2>4, <2>5, PlaceShape
<1>2. \A p, q, r \in Place : Before(p, q) /\ Before(q, r) => Before(p, r)
  BY <1>1 DEF Before
<1>3. \A p, q \in Place : ~(Before(p, q) /\ Before(q, p)) /\ ~Before(p, p)
  BY <1>1 DEF Before
<1>4. \A p, q \in Place : p = q \/ Before(p, q) \/ Before(q, p)
  <2> SUFFICES ASSUME NEW p \in Place, NEW q \in Place, ~Before(p, q), ~Before(q, p) PROVE p = q
    OBVIOUS
  <2>1. p[1] = q[1] /\ p[2] = q[2] /\ p[3] = q[3]
    BY <1>1 DEF Before
  <2>2. p = <<p[1], p[2], p[3]>> /\ q = <<q[1], q[2], q[3]>>
    BY <1>1
  <2> QED BY <2>1, <2>2, Zenon
<1> QED BY <1>2, <1>3, <1>4

\* What was moved comes from where it was.
Moved(H, K, g) == \A x \in Spot(K) : g[x] \in Spot(H) /\ In(K, x) = In(H, g[x])

LEMMA MovedFacts ==
    ASSUME NEW H, NEW K, NEW g, Moved(H, K, g), \A x, y \in Spot(K) : g[x] = g[y] => x = y
    PROVE  /\ Once(H) => Once(K)
           /\ InOrder(H) /\ (\A x, y \in Spot(K) : SpotAhead(x, y) => SpotAhead(g[x], g[y])) => InOrder(K)
           /\ Content(K) \subseteq Content(H)
<1>1. Once(H) => Once(K)
  BY DEF Once, Moved
<1>2. InOrder(H) /\ (\A x, y \in Spot(K) : SpotAhead(x, y) => SpotAhead(g[x], g[y])) => InOrder(K)
  BY DEF InOrder, Moved
<1>3. Content(K) \subseteq Content(H)
  BY DEF Content, Moved
<1> QED BY <1>1, <1>2, <1>3

\* Places that hold the same agents' events.
LEMMA SameSpots ==
    ASSUME NEW H, NEW K, Spot(H) = Spot(K), \A x \in Spot(H) : In(H, x) = In(K, x)
    PROVE  Content(K) = Content(H) /\ (Once(H) => Once(K)) /\ (InOrder(H) => InOrder(K))
BY DEF Content, Once, InOrder

\* Places are emptied.
LEMMA Emptied ==
    ASSUME NEW H \in Boxes, NEW K \in Boxes, NEW D \in SUBSET Place, Once(H),
           \A p \in D : K[p] = <<>>, \A p \in Place \ D : K[p] = H[p]
    PROVE  /\ Content(K) = Content(H) \ UNION {Range(H[p]) : p \in D}
           /\ Once(K) /\ (InOrder(H) => InOrder(K))
<1>1. \A x \in Spot(K) : x \in Spot(H) /\ In(K, x) = In(H, x) /\ x[1] \in Place \ D
  <2> SUFFICES ASSUME NEW x \in Spot(K) PROVE x \in Spot(H) /\ In(K, x) = In(H, x) /\ x[1] \in Place \ D
    OBVIOUS
  <2>1. x \in Place \X Nat /\ x[1] \in Place /\ x[2] \in 1 .. Len(K[x[1]]) /\ K[x[1]][x[2]] > 0
    BY DEF Spot
  <2>2. Len(<<>>) = 0
    OBVIOUS
  <2>3. x[1] \notin D
    BY <2>1, <2>2
  <2>4. K[x[1]] = H[x[1]]
    BY <2>1, <2>3
  <2> QED BY <2>1, <2>3, <2>4 DEF Spot, In
<1>2. \A x \in Spot(H) : x[1] \notin D => x \in Spot(K) /\ In(K, x) = In(H, x)
  BY DEF Spot, In
<1>3. \A x \in Spot(H) : x[1] \in D => In(H, x) \in Range(H[x[1]])
  BY DEF Spot, In, Range, Boxes
<1>4. ASSUME NEW p \in D, NEW i \in DOMAIN H[p], NEW y \in Spot(K), H[p][i] = In(K, y) PROVE FALSE
  <2>1. DOMAIN H[p] = 1 .. Len(H[p]) /\ i \in Nat /\ p \in Place
    BY DEF Boxes
  <2>2. In(K, y) > 0 /\ y \in Spot(H) /\ In(H, y) = In(K, y) /\ y[1] \notin D
    BY <1>1 DEF Spot, In
  <2>3. <<p, i>> \in Spot(H) /\ In(H, <<p, i>>) = H[p][i]
    BY <1>4, <2>1, <2>2 DEF Spot, In
  <2>4. y = <<p, i>>
    BY <1>4, <2>2, <2>3 DEF Once
  <2> QED BY <2>2, <2>4
<1>5. Content(K) = Content(H) \ UNION {Range(H[p]) : p \in D}
  <2>1. ASSUME NEW e \in Content(K) PROVE e \in Content(H) /\ e \notin UNION {Range(H[p]) : p \in D}
    <3>1. PICK y \in Spot(K) : e = In(K, y)
      BY DEF Content
    <3>2. e \in Content(H)
      BY <1>1, <3>1 DEF Content
    <3>3. \A p \in D : e \notin Range(H[p])
      BY <1>4, <3>1 DEF Range
    <3> QED BY <3>2, <3>3
  <2>2. ASSUME NEW e \in Content(H), e \notin UNION {Range(H[p]) : p \in D} PROVE e \in Content(K)
    <3>1. PICK y \in Spot(H) : e = In(H, y)
      BY DEF Content
    <3>2. y[1] \notin D
      BY <1>3, <2>2, <3>1
    <3> QED BY <1>2, <3>1, <3>2 DEF Content
  <2> QED BY <2>1, <2>2
<1>6. Once(K) /\ (InOrder(H) => InOrder(K))
  BY <1>1 DEF Once, InOrder
<1> QED BY <1>5, <1>6

\* From H to K, the place d takes the first k events of the place s.
Passed(H, K, d, s, k) ==
    /\ d \in Place /\ s \in Place /\ d # s /\ k \in 0 .. Len(H[s])
    /\ Len(K[d]) = Len(H[d]) + k
    /\ \A i \in 1 .. Len(H[d]) : K[d][i] = H[d][i]
    /\ \A i \in 1 .. k : K[d][Len(H[d]) + i] = H[s][i]
    /\ Len(K[s]) = Len(H[s]) - k
    /\ \A i \in 1 .. Len(K[s]) : K[s][i] = H[s][i + k]
    /\ \A p \in Place \ {d, s} : K[p] = H[p]

\* There is nothing between the two places.
NextTo(H, d, s) == Before(d, s) /\ \A p \in Place \ {d, s} : H[p] = <<>> \/ Before(p, d) \/ Before(s, p)

LEMMA PassedFacts ==
    ASSUME NEW H \in Boxes, NEW K \in Boxes, NEW d, NEW s, NEW k, Passed(H, K, d, s, k), Once(H)
    PROVE  Content(K) = Content(H) /\ Once(K) /\ (InOrder(H) /\ NextTo(H, d, s) => InOrder(K))
<1> DEFINE n == Len(H[d])
           m == Len(H[s])
           g == [x \in Spot(K) |-> IF x[1] = d /\ x[2] > n THEN <<s, x[2] - n>>
                                   ELSE IF x[1] = s THEN <<s, x[2] + k>> ELSE x]
<1>1. n \in Nat /\ m \in Nat /\ k \in 0 .. m /\ d \in Place /\ s \in Place /\ d # s
  BY DEF Boxes, Passed
<1>2. /\ Len(K[d]) = n + k /\ Len(K[s]) = m - k
      /\ \A i \in 1 .. n : K[d][i] = H[d][i]
      /\ \A i \in 1 .. k : K[d][n + i] = H[s][i]
      /\ \A i \in 1 .. m - k : K[s][i] = H[s][i + k]
      /\ \A p \in Place \ {d, s} : K[p] = H[p]
  BY DEF Passed
<1> HIDE DEF n, m, g
<1>3. \A x \in Spot(K) : /\ x[1] \in Place /\ x[2] \in Nat /\ x = <<x[1], x[2]>>
                         /\ x[2] \in 1 .. Len(K[x[1]]) /\ K[x[1]][x[2]] > 0
  BY DEF Spot
<1>4. \A p \in Place, i \in Nat : i \in 1 .. Len(H[p]) /\ H[p][i] > 0 => <<p, i>> \in Spot(H) /\ In(H, <<p, i>>) = H[p][i]
  BY DEF Spot, In
<1>5. \A p \in Place, i \in Nat : i \in 1 .. Len(K[p]) /\ K[p][i] > 0 => <<p, i>> \in Spot(K) /\ In(K, <<p, i>>) = K[p][i]
  BY DEF Spot, In
<1>6. ASSUME NEW x \in Spot(K), x[1] = d, x[2] > n
      PROVE  /\ g[x] = <<s, x[2] - n>> /\ x[2] - n \in 1 .. k /\ g[x][1] = s /\ g[x][2] = x[2] - n
             /\ g[x] \in Spot(H) /\ In(K, x) = In(H, g[x])
  <2> DEFINE i == x[2] - n
  <2>1. g[x] = <<s, i>>
    BY <1>6 DEF g
  <2>2. x[2] \in Nat /\ x[2] \in 1 .. n + k /\ K[d][x[2]] > 0
    BY <1>2, <1>3, <1>6
  <2>3. i \in 1 .. k /\ i \in Nat /\ x[2] = n + i /\ i \in 1 .. m
    BY <1>1, <1>6, <2>2
  <2> HIDE DEF i
  <2>4. K[d][x[2]] = H[s][i]
    BY <1>2, <2>3
  <2>5. <<s, i>> \in Spot(H) /\ In(H, <<s, i>>) = H[s][i]
    BY <1>1, <1>4, <2>2, <2>3, <2>4 DEF m
  <2> QED BY <1>6, <2>1, <2>3, <2>4, <2>5 DEF In, i
<1>7. ASSUME NEW x \in Spot(K), x[1] = s
      PROVE  /\ g[x] = <<s, x[2] + k>> /\ g[x][1] = s /\ g[x][2] = x[2] + k /\ x[2] >= 1
             /\ g[x] \in Spot(H) /\ In(K, x) = In(H, g[x])
  <2> DEFINE i == x[2] + k
  <2>1. g[x] = <<s, i>>
    BY <1>1, <1>7 DEF g
  <2>2. x[2] \in Nat /\ x[2] \in 1 .. m - k /\ K[s][x[2]] > 0
    BY <1>2, <1>3, <1>7
  <2>3. i \in Nat /\ i \in 1 .. m /\ x[2] >= 1
    BY <1>1, <2>2
  <2>4. K[s][x[2]] = H[s][i]
    BY <1>2, <2>2
  <2> HIDE DEF i
  <2>5. <<s, i>> \in Spot(H) /\ In(H, <<s, i>>) = H[s][i]
    BY <1>1, <1>4, <2>2, <2>3, <2>4 DEF m
  <2> QED BY <1>7, <2>1, <2>3, <2>4, <2>5 DEF In, i
<1>8. ASSUME NEW x \in Spot(K), ~(x[1] = d /\ x[2] > n), x[1] # s
      PROVE  g[x] = x /\ x \in Spot(H) /\ In(K, x) = In(H, x)
  <2>1. g[x] = x
    BY <1>8 DEF g
  <2>2. x[1] \in Place /\ x[2] \in Nat /\ x = <<x[1], x[2]>> /\ x[2] \in 1 .. Len(K[x[1]]) /\ K[x[1]][x[2]] > 0
    BY <1>3
  <2>3. x[2] \in 1 .. Len(H[x[1]]) /\ K[x[1]][x[2]] = H[x[1]][x[2]]
    <3>1. CASE x[1] = d
      <4>1. x[2] \in 1 .. n
        BY <1>1, <1>2, <1>8, <2>2, <3>1
      <4> QED BY <1>2, <3>1, <4>1 DEF n
    <3>2. CASE x[1] # d
      BY <1>2, <1>8, <2>2, <3>2
    <3> QED BY <3>1, <3>2
  <2>4. <<x[1], x[2]>> \in Spot(H)
    BY <1>4, <2>2, <2>3
  <2> QED BY <2>1, <2>2, <2>3, <2>4 DEF In
<1>9. Moved(H, K, g)
  BY <1>6, <1>7, <1>8 DEF Moved
<1>10. ASSUME NEW x \in Spot(K), NEW y \in Spot(K), g[x] = g[y] PROVE x = y
  <2>1. x = <<x[1], x[2]>> /\ y = <<y[1], y[2]>> /\ x[2] \in Nat /\ y[2] \in Nat
    BY <1>3
  <2>2. CASE x[1] = d /\ x[2] > n
    <3>1. g[y][1] = s /\ g[y][2] = x[2] - n /\ x[2] - n <= k
      BY <1>6, <1>10, <2>2
    <3>2. y[1] # s
      BY <1>1, <1>7, <2>1, <3>1
    <3>3. y[1] = d /\ y[2] > n
      BY <1>1, <1>8, <3>1, <3>2
    <3>4. y[2] - n = x[2] - n
      BY <1>6, <3>1, <3>3
    <3>5. x[2] = y[2]
      BY <1>1, <2>1, <3>4
    <3> QED BY <2>1, <2>2, <3>3, <3>5, Zenon
  <2>3. CASE x[1] = s
    <3>1. g[y][1] = s /\ g[y][2] = x[2] + k /\ x[2] >= 1
      BY <1>7, <1>10, <2>3
    <3>2. ~(y[1] = d /\ y[2] > n)
      BY <1>1, <1>6, <2>1, <3>1
    <3>3. y[1] = s
      BY <1>8, <3>1, <3>2
    <3>4. y[2] + k = x[2] + k
      BY <1>7, <3>1, <3>3
    <3>5. x[2] = y[2]
      BY <1>1, <2>1, <3>4
    <3> QED BY <2>1, <2>3, <3>3, <3>5, Zenon
  <2>4. CASE ~(x[1] = d /\ x[2] > n) /\ x[1] # s
    <3>1. g[x] = x /\ g[y][1] # s
      BY <1>8, <1>10, <2>4
    <3>2. ~(y[1] = d /\ y[2] > n) /\ y[1] # s
      BY <1>6, <1>7, <3>1
    <3> QED BY <1>8, <1>10, <3>1, <3>2
  <2> QED BY <2>2, <2>3, <2>4
<1>11. Content(H) \subseteq Content(K)
  <2> SUFFICES ASSUME NEW p \in Place, NEW i \in Nat, i \in 1 .. Len(H[p]), H[p][i] > 0 PROVE H[p][i] \in Content(K)
    BY DEF Content, Spot, In
  <2>1. ASSUME NEW q \in Place, NEW j \in Nat, j \in 1 .. Len(K[q]), K[q][j] = H[p][i] PROVE H[p][i] \in Content(K)
    BY <1>5, <2>1 DEF Content
  <2>2. CASE p = s /\ i <= k
    <3>1. n + i \in Nat /\ n + i \in 1 .. n + k /\ i \in 1 .. k
      BY <1>1, <2>2
    <3> QED BY <1>1, <1>2, <2>1, <2>2, <3>1
  <2>3. CASE p = s /\ ~(i <= k)
    <3>1. i - k \in Nat /\ i - k \in 1 .. m - k /\ (i - k) + k = i
      BY <1>1, <2>3 DEF m
    <3> QED BY <1>1, <1>2, <2>1, <2>3, <3>1
  <2>4. CASE p = d
    <3>1. i \in 1 .. n /\ i \in 1 .. n + k
      BY <1>1, <2>4 DEF n
    <3> QED BY <1>1, <1>2, <2>1, <2>4, <3>1
  <2>5. CASE p # s /\ p # d
    BY <1>2, <2>1, <2>5
  <2> QED BY <2>2, <2>3, <2>4, <2>5
<1>12. ASSUME InOrder(H), NextTo(H, d, s), NEW x \in Spot(K), NEW y \in Spot(K), SpotAhead(x, y)
       PROVE  SpotAhead(g[x], g[y])
  <2>0. /\ x[1] \in Place /\ x[2] \in Nat /\ y[1] \in Place /\ y[2] \in Nat
        /\ Before(x[1], y[1]) \/ (x[1] = y[1] /\ x[2] < y[2])
        /\ Before(d, s) /\ ~Before(s, d) /\ ~Before(d, d) /\ ~Before(s, s)
    BY <1>1, <1>3, <1>12, PlaceOrder DEF SpotAhead, Ahead, NextTo
  <2>1. ASSUME NEW z \in Spot(K), z[1] # d, z[1] # s PROVE Before(z[1], d) \/ Before(s, z[1])
    <3>1. z[1] \in Place /\ H[z[1]] = K[z[1]] /\ z[2] \in 1 .. Len(K[z[1]])
      BY <1>2, <1>3, <2>1
    <3>2. Len(<<>>) = 0 /\ 1 .. 0 = {}
      OBVIOUS
    <3>3. H[z[1]] # <<>>
      BY <3>1, <3>2
    <3> QED BY <1>12, <2>1, <3>1, <3>3 DEF NextTo
  <2>2. CASE x[1] = d /\ x[2] > n
    <3>1. g[x][1] = s /\ g[x][2] = x[2] - n /\ g[x][2] <= k
      BY <1>6, <2>2
    <3>2. CASE y[1] = d
      <4>1. x[2] < y[2] /\ y[2] > n
        BY <1>1, <2>0, <2>2, <3>2
      <4>2. g[y][1] = s /\ g[y][2] = y[2] - n
        BY <1>6, <3>2, <4>1
      <4>3. g[x][2] < g[y][2]
        BY <1>1, <2>0, <3>1, <4>1, <4>2
      <4> QED BY <3>1, <4>2, <4>3 DEF SpotAhead, Ahead
    <3>3. CASE y[1] = s
      <4>1. g[y][1] = s /\ g[y][2] = y[2] + k /\ y[2] >= 1
        BY <1>7, <3>3
      <4>2. g[x][2] < g[y][2]
        <5>1. x[2] - n \in Int /\ x[2] - n <= k /\ k \in Nat
          BY <1>1, <2>0, <3>1
        <5> QED BY <2>0, <3>1, <4>1, <5>1
      <4> QED BY <3>1, <4>1, <4>2 DEF SpotAhead, Ahead
    <3>4. CASE y[1] # d /\ y[1] # s
      <4>1. g[y] = y
        BY <1>8, <3>4
      <4>2. Before(d, y[1])
        BY <2>0, <2>2, <3>4
      <4>3. Before(s, y[1])
        BY <1>1, <2>0, <2>1, <3>4, <4>2, PlaceOrder
      <4> QED BY <3>1, <4>1, <4>3 DEF SpotAhead, Ahead
    <3> QED BY <3>2, <3>3, <3>4
  <2>3. CASE x[1] = s
    <3>1. g[x][1] = s /\ g[x][2] = x[2] + k
      BY <1>7, <2>3
    <3>2. CASE y[1] = s
      <4>1. x[2] < y[2]
        BY <2>0, <2>3, <3>2
      <4>2. g[y][1] = s /\ g[y][2] = y[2] + k
        BY <1>7, <3>2
      <4>3. g[x][2] < g[y][2]
        BY <1>1, <2>0, <3>1, <4>1, <4>2
      <4> QED BY <3>1, <4>2, <4>3 DEF SpotAhead, Ahead
    <3>3. CASE y[1] # s
      <4>1. Before(s, y[1]) /\ y[1] # d
        BY <2>0, <2>3, <3>3
      <4>2. g[y] = y
        BY <1>8, <3>3, <4>1
      <4> QED BY <3>1, <4>1, <4>2 DEF SpotAhead, Ahead
    <3> QED BY <3>2, <3>3
  <2>4. CASE ~(x[1] = d /\ x[2] > n) /\ x[1] # s
    <3>1. g[x] = x
      BY <1>8, <2>4
    <3>2. CASE y[1] = d /\ y[2] > n
      <4>1. g[y][1] = s
        BY <1>6, <3>2
      <4>2. Before(x[1], s)
        BY <1>1, <2>0, <3>2, PlaceOrder
      <4> QED BY <3>1, <4>1, <4>2 DEF SpotAhead, Ahead
    <3>3. CASE y[1] = s
      <4>1. g[y][1] = s
        BY <1>7, <3>3
      <4>2. Before(x[1], s)
        BY <2>0, <2>4, <3>3
      <4> QED BY <3>1, <4>1, <4>2 DEF SpotAhead, Ahead
    <3>4. CASE ~(y[1] = d /\ y[2] > n) /\ y[1] # s
      <4>1. g[y] = y
        BY <1>8, <3>4
      <4> QED BY <1>12, <3>1, <4>1
    <3> QED BY <3>2, <3>3, <3>4
  <2> QED BY <2>2, <2>3, <2>4
<1>13. Content(K) \subseteq Content(H) /\ Once(K)
  BY <1>9, <1>10, MovedFacts
<1>14. ASSUME InOrder(H), NextTo(H, d, s) PROVE InOrder(K)
  <2>1. \A x, y \in Spot(K) : SpotAhead(x, y) => SpotAhead(g[x], g[y])
    BY <1>12, <1>14
  <2> QED BY <1>9, <1>10, <1>14, <2>1, MovedFacts
<1> QED BY <1>11, <1>13, <1>14

\* A session's line moves up by one.
Shifted(H, K, s) ==
    /\ s \in Session /\ H[<<5, s, 0>>] = <<>> /\ K[<<5, s, UpCap>>] = <<>>
    /\ \A j \in 0 .. UpCap - 1 : K[<<5, s, j>>] = H[<<5, s, j + 1>>]
    /\ \A p \in Place : ~(p[1] = 5 /\ p[2] = s) => K[p] = H[p]

LEMMA ShiftedFacts ==
    ASSUME NEW H \in Boxes, NEW K \in Boxes, NEW s, Shifted(H, K, s), Once(H)
    PROVE  Content(K) = Content(H) /\ Once(K) /\ (InOrder(H) => InOrder(K))
<1> DEFINE Mine(p) == p[1] = 5 /\ p[2] = s
           g == [x \in Spot(K) |-> IF Mine(x[1]) THEN <<<<5, s, x[1][3] + 1>>, x[2]>> ELSE x]
<1>1. s \in Session /\ UpCap \in Nat /\ s \in Int
  BY TelemetryAssumption, DetectionAssumption DEF Shifted, Session
<1>2. \A p \in Place : Mine(p) => p = <<5, s, p[3]>> /\ p[3] \in 0 .. UpCap
  <2> SUFFICES ASSUME NEW p \in Place, Mine(p) PROVE p = <<5, s, p[3]>> /\ p[3] \in 0 .. UpCap
    OBVIOUS
  <2>1. ASSUME NEW k \in {1, 2, 3, 4, 6, 7, 8, 9}, p = <<k, 0, 0>> PROVE FALSE
    BY <2>1
  <2>2. PICK r \in Session, j \in 0 .. UpCap : p = <<5, r, j>>
    BY <2>1, PlaceShape
  <2>3. r = s /\ p[3] = j
    BY <2>2
  <2> QED BY <2>2, <2>3
<1>3. \A j \in 0 .. UpCap : /\ <<5, s, j>> \in Place /\ <<5, s, j>>[1] = 5 /\ <<5, s, j>>[2] = s /\ <<5, s, j>>[3] = j
                            /\ Mine(<<5, s, j>>)
  BY <1>1, PlaceShape
<1>4. Len(<<>>) = 0 /\ 1 .. 0 = {}
  OBVIOUS
<1>5. \A x \in Spot(K) : /\ x[1] \in Place /\ x[2] \in Nat /\ x = <<x[1], x[2]>>
                         /\ x[2] \in 1 .. Len(K[x[1]]) /\ K[x[1]][x[2]] > 0
  BY DEF Spot
<1>6. \A p \in Place, i \in Nat : i \in 1 .. Len(H[p]) /\ H[p][i] > 0 => <<p, i>> \in Spot(H) /\ In(H, <<p, i>>) = H[p][i]
  BY DEF Spot, In
<1>7. \A p \in Place, i \in Nat : i \in 1 .. Len(K[p]) /\ K[p][i] > 0 => <<p, i>> \in Spot(K) /\ In(K, <<p, i>>) = K[p][i]
  BY DEF Spot, In
<1>8. /\ \A p \in Place : ~Mine(p) => K[p] = H[p]
      /\ \A j \in 0 .. UpCap - 1 : K[<<5, s, j>>] = H[<<5, s, j + 1>>]
      /\ H[<<5, s, 0>>] = <<>> /\ K[<<5, s, UpCap>>] = <<>>
  BY DEF Shifted
<1>9. ASSUME NEW x \in Spot(K), Mine(x[1])
      PROVE  /\ g[x] = <<<<5, s, x[1][3] + 1>>, x[2]>> /\ Mine(g[x][1]) /\ g[x][1][3] = x[1][3] + 1 /\ g[x][2] = x[2]
             /\ g[x] \in Spot(H) /\ In(K, x) = In(H, g[x]) /\ x[1] = <<5, s, x[1][3]>> /\ x[1][3] \in Nat
  <2> DEFINE j == x[1][3]
  <2>1. x[1] = <<5, s, j>> /\ j \in 0 .. UpCap
    BY <1>2, <1>5, <1>9
  <2>2. g[x] = <<<<5, s, j + 1>>, x[2]>>
    BY <1>9
  <2> HIDE DEF j, g
  <2>3. j # UpCap
    BY <1>4, <1>5, <1>8, <2>1
  <2>4. j \in 0 .. UpCap - 1 /\ j + 1 \in 0 .. UpCap /\ j \in Nat
    BY <1>1, <2>1, <2>3
  <2>5. K[x[1]] = H[<<5, s, j + 1>>]
    BY <1>8, <2>1, <2>4
  <2>6. <<5, s, j + 1>> \in Place /\ Mine(<<5, s, j + 1>>) /\ <<5, s, j + 1>>[3] = j + 1
    BY <1>3, <2>4
  <2> DEFINE q == <<5, s, j + 1>>
  <2> HIDE DEF q, Mine
  <2>7. <<q, x[2]>> \in Spot(H) /\ In(H, <<q, x[2]>>) = H[q][x[2]]
    BY <1>5, <1>6, <2>5, <2>6 DEF q
  <2>8. g[x] = <<q, x[2]>> /\ g[x][1] = q /\ g[x][2] = x[2]
    BY <2>2 DEF q
  <2>9. In(K, x) = H[q][x[2]]
    BY <2>5 DEF In, q
  <2> QED BY <2>1, <2>2, <2>4, <2>6, <2>7, <2>8, <2>9 DEF j, q
<1>10. ASSUME NEW x \in Spot(K), ~Mine(x[1]) PROVE g[x] = x /\ x \in Spot(H) /\ In(K, x) = In(H, x)
  <2>1. g[x] = x
    BY <1>10
  <2>2. x[1] \in Place /\ x[2] \in Nat /\ x = <<x[1], x[2]>> /\ x[2] \in 1 .. Len(K[x[1]]) /\ K[x[1]][x[2]] > 0
    BY <1>5
  <2>3. K[x[1]] = H[x[1]]
    BY <1>8, <1>10, <2>2
  <2> HIDE DEF g, Mine
  <2>4. <<x[1], x[2]>> \in Spot(H)
    BY <1>6, <2>2, <2>3
  <2> QED BY <2>1, <2>2, <2>3, <2>4 DEF In
<1> HIDE DEF g
<1>11. Moved(H, K, g)
  BY <1>9, <1>10 DEF Moved
<1>12. ASSUME NEW x \in Spot(K), NEW y \in Spot(K), g[x] = g[y] PROVE x = y
  <2>1. x = <<x[1], x[2]>> /\ y = <<y[1], y[2]>>
    BY <1>5
  <2>2. CASE Mine(x[1])
    <3>1. Mine(g[y][1]) /\ g[y][1][3] = x[1][3] + 1 /\ g[y][2] = x[2] /\ x[1] = <<5, s, x[1][3]>> /\ x[1][3] \in Nat
      BY <1>9, <1>12, <2>2
    <3>2. Mine(y[1])
      BY <1>10, <3>1
    <3>3. g[y][1][3] = y[1][3] + 1 /\ g[y][2] = y[2] /\ y[1] = <<5, s, y[1][3]>> /\ y[1][3] \in Nat
      BY <1>9, <3>2
    <3>4. y[1][3] = x[1][3]
      BY <3>1, <3>3
    <3> QED BY <2>1, <3>1, <3>3, <3>4, Zenon
  <2>3. CASE ~Mine(x[1])
    <3>1. g[x] = x
      BY <1>10, <2>3
    <3>2. ~Mine(y[1])
      <4>1. ASSUME Mine(y[1]) PROVE Mine(g[y][1])
        BY <1>9, <4>1
      <4>2. g[y] = x
        BY <1>12, <3>1
      <4> HIDE DEF Mine
      <4> QED BY <2>3, <4>1, <4>2
    <3> QED BY <1>10, <1>12, <3>1, <3>2
  <2> QED BY <2>2, <2>3
<1>13. Content(H) \subseteq Content(K)
  <2> SUFFICES ASSUME NEW p \in Place, NEW i \in Nat, i \in 1 .. Len(H[p]), H[p][i] > 0 PROVE H[p][i] \in Content(K)
    BY DEF Content, Spot, In
  <2>1. ASSUME NEW q \in Place, K[q] = H[p] PROVE H[p][i] \in Content(K)
    BY <1>7, <2>1 DEF Content
  <2>2. CASE Mine(p)
    <3> DEFINE j == p[3]
    <3>1. p = <<5, s, j>> /\ j \in 0 .. UpCap
      BY <1>2, <2>2
    <3> HIDE DEF j
    <3>2. j # 0
      BY <1>4, <1>8, <3>1
    <3>3. j - 1 \in 0 .. UpCap - 1 /\ j - 1 \in 0 .. UpCap /\ (j - 1) + 1 = j
      BY <1>1, <3>1, <3>2
    <3> DEFINE i0 == j - 1
    <3> HIDE DEF i0
    <3>4. <<5, s, i0>> \in Place /\ K[<<5, s, i0>>] = H[<<5, s, i0 + 1>>]
      BY <1>3, <1>8, <3>3 DEF i0
    <3>5. <<5, s, i0 + 1>> = p
      BY <3>1, <3>3 DEF i0
    <3>6. K[<<5, s, i0>>] = H[p]
      BY <3>4, <3>5, Zenon
    <3> QED BY <2>1, <3>4, <3>6, Zenon
  <2>3. CASE ~Mine(p)
    BY <1>8, <2>1, <2>3
  <2> QED BY <2>2, <2>3
<1>14. ASSUME NEW x \in Spot(K), NEW y \in Spot(K), SpotAhead(x, y) PROVE SpotAhead(g[x], g[y])
  <2>1. CASE Mine(x[1]) /\ Mine(y[1])
    <3>1. /\ g[x][1] = <<5, s, x[1][3] + 1>> /\ g[y][1] = <<5, s, y[1][3] + 1>> /\ g[x][2] = x[2] /\ g[y][2] = y[2]
          /\ x[1] = <<5, s, x[1][3]>> /\ y[1] = <<5, s, y[1][3]>> /\ x[1][3] \in Nat /\ y[1][3] \in Nat
      BY <1>9, <2>1
    <3>2. x[1][3] < y[1][3] \/ (x[1][3] = y[1][3] /\ x[2] < y[2])
      BY <1>1, <1>14, <3>1 DEF SpotAhead, Ahead, Before
    <3>3. CASE x[1][3] < y[1][3]
      <4>1. x[1][3] + 1 < y[1][3] + 1
        BY <3>1, <3>3
      <4>2. Before(g[x][1], g[y][1])
        BY <3>1, <4>1 DEF Before
      <4> QED BY <4>2 DEF SpotAhead, Ahead
    <3>4. CASE x[1][3] = y[1][3] /\ x[2] < y[2]
      BY <3>1, <3>4 DEF SpotAhead, Ahead
    <3> QED BY <3>2, <3>3, <3>4
  <2>2. CASE Mine(x[1]) /\ ~Mine(y[1])
    <3>1. Mine(g[x][1]) /\ g[y] = y
      BY <1>9, <1>10, <2>2
    <3>2. Before(x[1], y[1])
      BY <1>14, <2>2 DEF SpotAhead, Ahead
    <3>3. x[1][1] < y[1][1] \/ (x[1][1] = y[1][1] /\ x[1][2] < y[1][2])
      BY <2>2, <3>2 DEF Before
    <3>4. Before(g[x][1], y[1])
      BY <2>2, <3>1, <3>3 DEF Before
    <3> QED BY <3>1, <3>4 DEF SpotAhead, Ahead
  <2>3. CASE ~Mine(x[1]) /\ Mine(y[1])
    <3>1. g[x] = x /\ Mine(g[y][1])
      BY <1>9, <1>10, <2>3
    <3>2. Before(x[1], y[1])
      BY <1>14, <2>3 DEF SpotAhead, Ahead
    <3>3. x[1][1] < y[1][1] \/ (x[1][1] = y[1][1] /\ x[1][2] < y[1][2])
      BY <2>3, <3>2 DEF Before
    <3>4. Before(x[1], g[y][1])
      BY <2>3, <3>1, <3>3 DEF Before
    <3> QED BY <3>1, <3>4 DEF SpotAhead, Ahead
  <2>4. CASE ~Mine(x[1]) /\ ~Mine(y[1])
    BY <1>10, <1>14, <2>4
  <2> QED BY <2>1, <2>2, <2>3, <2>4
<1>15. Content(K) \subseteq Content(H) /\ Once(K)
  BY <1>11, <1>12, MovedFacts
<1>16. ASSUME InOrder(H) PROVE InOrder(K)
  <2>1. \A x, y \in Spot(K) : SpotAhead(x, y) => SpotAhead(g[x], g[y])
    BY <1>14
  <2> QED BY <1>11, <1>12, <1>16, <2>1, MovedFacts
<1> QED BY <1>13, <1>15, <1>16

\* The last place.
LEMMA LastPlace == <<9, 0, 0>> \in Place /\ \A p \in Place : p = <<9, 0, 0>> \/ Before(p, <<9, 0, 0>>)
<1> DEFINE t == <<9, 0, 0>>
<1>1. \A k0 \in {1, 2, 3, 4, 6, 7, 8} : Before(<<k0, 0, 0>>, <<9, 0, 0>>)
  BY DEF Before
<1>2. \A r, j : Before(<<5, r, j>>, <<9, 0, 0>>)
  BY DEF Before
<1>3. t \in Place
  BY PlaceShape
<1>4. ASSUME NEW p \in Place PROVE p = t \/ Before(p, t)
  <2>1. CASE \E r \in Session, j \in 0 .. UpCap : p = <<5, r, j>>
    BY <1>2, <2>1
  <2>2. ASSUME NEW k0 \in {1, 2, 3, 4, 6, 7, 8, 9}, p = <<k0, 0, 0>> PROVE p = t \/ Before(p, t)
    BY <1>1, <2>2
  <2> QED BY <2>1, <2>2, PlaceShape
<1> QED BY <1>3, <1>4

\* A poll's events, numbered on, are in the last place.
Joined(H, K, n, k, t) ==
    /\ t \in Place /\ \A p \in Place : p = t \/ Before(p, t)
    /\ Content(H) \subseteq 1 .. n /\ H[t] = <<>>
    /\ Len(K[t]) = k /\ \A i \in 1 .. k : K[t][i] = n + i
    /\ \A p \in Place \ {t} : K[p] = H[p]

LEMMA JoinedFacts ==
    ASSUME NEW H \in Boxes, NEW K \in Boxes, NEW n \in Nat, NEW k \in Nat, NEW t, Joined(H, K, n, k, t), Once(H)
    PROVE  /\ Content(K) = Content(H) \cup (n + 1 .. n + k)
           /\ Once(K) /\ (InOrder(H) => InOrder(K))
<1>0. Content(H) \subseteq 1 .. n
  BY DEF Joined
<1>1. t \in Place /\ \A p \in Place : p = t \/ Before(p, t)
  BY DEF Joined
<1>2. \A p \in Place \ {t} : ~Before(t, p)
  BY <1>1, PlaceOrder
<1>3. ~Before(t, t)
  BY <1>1, PlaceOrder
<1>4. /\ H[t] = <<>> /\ Len(K[t]) = k /\ \A i \in 1 .. k : K[t][i] = n + i
      /\ \A p \in Place \ {t} : K[p] = H[p]
  BY DEF Joined
<1>5. Len(<<>>) = 0 /\ 1 .. 0 = {}
  OBVIOUS
<1>6. \A x \in Spot(H) : x \in Spot(K) /\ x[1] # t /\ In(K, x) = In(H, x) /\ In(H, x) \in 1 .. n
  <2>1. \A x \in Spot(H) : x[1] # t /\ x[1] \in Place
    BY <1>4, <1>5 DEF Spot
  <2>2. \A x \in Spot(H) : In(H, x) \in 1 .. n
    BY <1>0 DEF Content
  <2> QED BY <1>4, <2>1, <2>2 DEF Spot, In
<1>7. ASSUME NEW x \in Spot(K)
      PROVE  /\ x[1] # t => x \in Spot(H) /\ In(K, x) = In(H, x) /\ In(K, x) \in 1 .. n
             /\ x[1] = t => x[2] \in 1 .. k /\ In(K, x) = n + x[2] /\ x = <<t, x[2]>>
  <2>1. x[1] \in Place /\ x \in Place \X Nat /\ x[2] \in 1 .. Len(K[x[1]]) /\ K[x[1]][x[2]] > 0 /\ x = <<x[1], x[2]>>
    BY DEF Spot
  <2>2. CASE x[1] # t
    <3>1. x \in Spot(H) /\ In(K, x) = In(H, x)
      BY <1>4, <2>1, <2>2 DEF Spot, In
    <3> QED BY <1>6, <2>2, <3>1
  <2>3. CASE x[1] = t
    BY <1>4, <2>1, <2>3 DEF In
  <2> QED BY <2>2, <2>3
<1>8. \A i \in 1 .. k : <<t, i>> \in Spot(K) /\ In(K, <<t, i>>) = n + i
  <2> SUFFICES ASSUME NEW i \in 1 .. k PROVE <<t, i>> \in Spot(K) /\ In(K, <<t, i>>) = n + i
    OBVIOUS
  <2>1. i \in Nat /\ n + i > 0 /\ K[t][i] = n + i /\ i \in 1 .. Len(K[t])
    BY <1>4
  <2> QED BY <1>1, <2>1 DEF Spot, In
<1>9. Content(K) = Content(H) \cup (n + 1 .. n + k)
  <2>1. ASSUME NEW e \in n + 1 .. n + k PROVE e \in Content(K)
    <3>1. e - n \in 1 .. k /\ n + (e - n) = e
      OBVIOUS
    <3> QED BY <1>8, <3>1 DEF Content
  <2>2. \A i \in 1 .. k : n + i \in n + 1 .. n + k
    OBVIOUS
  <2>3. ASSUME NEW e \in Content(K) PROVE e \in Content(H) \cup (n + 1 .. n + k)
    <3>1. PICK x \in Spot(K) : e = In(K, x)
      BY DEF Content
    <3> QED BY <1>7, <2>2, <3>1 DEF Content
  <2>4. \A e \in Content(H) : e \in Content(K)
    BY <1>6 DEF Content
  <2> QED BY <2>1, <2>3, <2>4
<1>10. ASSUME NEW x \in Spot(K), NEW y \in Spot(K), In(K, x) = In(K, y) PROVE x = y
  <2>1. CASE x[1] # t /\ y[1] # t
    BY <1>7, <1>10, <2>1 DEF Once
  <2>2. CASE x[1] = t /\ y[1] = t
    <3>1. x[2] \in 1 .. k /\ y[2] \in 1 .. k /\ n + x[2] = n + y[2] /\ x = <<t, x[2]>> /\ y = <<t, y[2]>>
      BY <1>7, <1>10, <2>2
    <3>2. x[2] = y[2]
      BY <3>1
    <3> QED BY <3>1, <3>2, Zenon
  <2>3. \A i \in 1 .. k : n + i \notin 1 .. n
    OBVIOUS
  <2>4. (x[1] = t) <=> (y[1] = t)
    BY <1>7, <1>10, <2>3
  <2> QED BY <2>1, <2>2, <2>4
<1>11. ASSUME InOrder(H), NEW x \in Spot(K), NEW y \in Spot(K), SpotAhead(x, y) PROVE In(K, x) < In(K, y)
  <2>0. x[1] \in Place /\ y[1] \in Place
    BY DEF Spot
  <2>1. CASE x[1] # t /\ y[1] # t
    BY <1>7, <1>11, <2>1 DEF InOrder
  <2>2. CASE x[1] = t
    <3>1. y[1] = t /\ x[2] < y[2]
      BY <1>2, <1>3, <1>11, <2>0, <2>2 DEF SpotAhead, Ahead
    <3>2. x[2] \in 1 .. k /\ y[2] \in 1 .. k /\ In(K, x) = n + x[2] /\ In(K, y) = n + y[2]
      BY <1>7, <2>2, <3>1
    <3> QED BY <3>1, <3>2
  <2>3. CASE x[1] # t /\ y[1] = t
    <3>1. In(K, x) \in 1 .. n /\ y[2] \in 1 .. k /\ In(K, y) = n + y[2]
      BY <1>7, <2>3
    <3> QED BY <3>1
  <2> QED BY <2>1, <2>2, <2>3
<1>12. Once(K) /\ (InOrder(H) => InOrder(K))
  BY <1>10, <1>11 DEF Once, InOrder
<1> QED BY <1>9, <1>12

\* The first event of a place passes, or all of them do.
LEMMA HeadPassed ==
    ASSUME NEW H \in Boxes, NEW K \in Boxes, NEW d \in Place, NEW s \in Place, d # s, H[s] # <<>>,
           K[d] = Append(H[d], Head(H[s])), K[s] = Tail(H[s]), \A p \in Place \ {d, s} : K[p] = H[p], Once(H)
    PROVE  Content(K) = Content(H) /\ Once(K) /\ (InOrder(H) /\ NextTo(H, d, s) => InOrder(K))
<1> DEFINE a == H[d]
           b == H[s]
<1>1. a \in Seq(Int) /\ b \in Seq(Int) /\ b # <<>>
  BY DEF Boxes
<1>2. K[d] = Append(a, Head(b)) /\ K[s] = Tail(b)
  OBVIOUS
<1> HIDE DEF a, b
<1>3. Head(b) = b[1] /\ Head(b) \in Int /\ Len(b) \in Nat /\ Len(b) >= 1
  BY <1>1
<1>4. /\ Len(Append(a, Head(b))) = Len(a) + 1 /\ Append(a, Head(b))[Len(a) + 1] = Head(b)
      /\ \A i \in 1 .. Len(a) : Append(a, Head(b))[i] = a[i]
      /\ Len(a) \in Nat
  BY <1>1, <1>3, AppendProperties
<1>5. Len(Tail(b)) = Len(b) - 1 /\ \A i \in 1 .. Len(Tail(b)) : Tail(b)[i] = b[i + 1]
  BY <1>1, HeadTailProperties
<1>6. \A i \in 1 .. 1 : i = 1
  OBVIOUS
<1>7. 1 \in 0 .. Len(b)
  BY <1>3
<1>8. Passed(H, K, d, s, 1)
  BY <1>2, <1>3, <1>4, <1>5, <1>6, <1>7 DEF Passed, a, b
<1> QED BY <1>8, PassedFacts

PassesAll(H, K, d, s) ==
    /\ d \in Place /\ s \in Place /\ d # s
    /\ K[d] = H[d] \o H[s] /\ K[s] = <<>> /\ \A p \in Place \ {d, s} : K[p] = H[p]

LEMMA AllPassed ==
    ASSUME NEW H \in Boxes, NEW K \in Boxes, NEW d, NEW s, PassesAll(H, K, d, s), Once(H)
    PROVE  Content(K) = Content(H) /\ Once(K) /\ (InOrder(H) /\ NextTo(H, d, s) => InOrder(K))
<1> DEFINE a == H[d]
           b == H[s]
<1>0. d \in Place /\ s \in Place /\ d # s /\ \A p \in Place \ {d, s} : K[p] = H[p]
  BY DEF PassesAll
<1>1. a \in Seq(Int) /\ b \in Seq(Int)
  BY <1>0 DEF Boxes
<1>2. K[d] = a \o b /\ K[s] = <<>>
  BY DEF PassesAll
<1> HIDE DEF a, b
<1>3. /\ Len(a) \in Nat /\ Len(b) \in Nat /\ Len(a \o b) = Len(a) + Len(b)
      /\ \A i \in 1 .. Len(a) + Len(b) : (a \o b)[i] = IF i <= Len(a) THEN a[i] ELSE b[i - Len(a)]
  BY <1>1, ConcatProperties
<1>4. \A i \in 1 .. Len(a) : (a \o b)[i] = a[i]
  BY <1>3
<1>5. \A i \in 1 .. Len(b) : (a \o b)[Len(a) + i] = b[i]
  <2>1. \A i \in 1 .. Len(b) : Len(a) + i \in 1 .. Len(a) + Len(b) /\ ~(Len(a) + i <= Len(a)) /\ (Len(a) + i) - Len(a) = i
    BY <1>3
  <2> QED BY <1>3, <2>1
<1>6. Len(<<>>) = 0 /\ 1 .. 0 = {} /\ Len(b) - Len(b) = 0 /\ Len(b) \in 0 .. Len(b)
  BY <1>3
<1>7. Passed(H, K, d, s, Len(b))
  BY <1>0, <1>2, <1>3, <1>4, <1>5, <1>6 DEF Passed, a, b
<1> QED BY <1>7, PassedFacts

---------------------------------------------------------------------------
(* What the steps do to the places                                         *)

HoldIs ==
    /\ Hold[<<1, 0, 0>>] = hot /\ Hold[<<2, 0, 0>>] = fresh
    /\ Hold[<<3, 0, 0>>] = (IF loop.pc = "select" THEN <<>> ELSE <<loop.event>>)
    /\ Hold[<<4, 0, 0>>] = inbox
    /\ \A s \in Session : Hold[<<5, s, 0>>] = gw[s].events
    /\ \A s \in Session, j \in 1 .. UpCap : Hold[<<5, s, j>>] = IF j <= Len(up[s]) THEN up[s][j].events ELSE <<>>
    /\ Hold[<<6, 0, 0>>] = sending.events /\ Hold[<<7, 0, 0>>] = batch
    /\ Hold[<<8, 0, 0>>] = tele /\ Hold[<<9, 0, 0>>] = todo

LEMMA HoldNow == HoldIs
<1>1. UpCap \in Nat
  BY TelemetryAssumption
<1>2. \A s \in Session, j \in 0 .. UpCap : Hold[<<5, s, j>>] = Holding(<<5, s, j>>)
  <2>1. \A p \in Place : Hold[p] = Holding(p)
    BY DEF Hold
  <2>2. \A s \in Session, j \in 0 .. UpCap : <<5, s, j>> \in Place
    BY PlaceShape, Zenon
  <2> QED BY <2>1, <2>2, Zenon
<1>3. \A k \in {1, 2, 3, 4, 6, 7, 8, 9} : Hold[<<k, 0, 0>>] = Holding(<<k, 0, 0>>)
  BY PlaceShape DEF Hold
<1>4. \A s : Holding(<<5, s, 0>>) = gw[s].events
  BY DEF Holding
<1>5. \A s, j : j \in 1 .. UpCap => Holding(<<5, s, j>>) = IF j <= Len(up[s]) THEN up[s][j].events ELSE <<>>
  BY <1>1 DEF Holding
<1>6. /\ Holding(<<1, 0, 0>>) = hot /\ Holding(<<2, 0, 0>>) = fresh
      /\ Holding(<<3, 0, 0>>) = (IF loop.pc = "select" THEN <<>> ELSE <<loop.event>>)
      /\ Holding(<<4, 0, 0>>) = inbox
      /\ Holding(<<6, 0, 0>>) = sending.events /\ Holding(<<7, 0, 0>>) = batch
      /\ Holding(<<8, 0, 0>>) = tele /\ Holding(<<9, 0, 0>>) = todo
  BY DEF Holding
<1>7. 0 \in 0 .. UpCap /\ \A j \in 1 .. UpCap : j \in 0 .. UpCap
  BY <1>1
<1> QED BY <1>2, <1>3, <1>4, <1>5, <1>6, <1>7 DEF HoldIs

LEMMA HoldThen == HoldIs'
  BY HoldNow, PTL

LEMMA HoldBoxes == NodeTypes => Hold \in Boxes
<1> SUFFICES ASSUME NodeTypes PROVE Hold \in Boxes
  OBVIOUS
<1>1. UpCap \in Nat /\ <<>> \in Seq(Int) /\ AgentEvent \subseteq Int
  BY TelemetryAssumption DEF AgentEvent
<1>2. \A q \in Seq(AgentEvent) : q \in Seq(Int)
  BY <1>1, SeqMonotonic
<1>3. /\ hot \in Seq(Int) /\ fresh \in Seq(Int) /\ inbox \in Seq(AgentEvent) /\ loop.event \in Int
      /\ batch \in Seq(AgentEvent) /\ tele \in Seq(AgentEvent) /\ todo \in Seq(AgentEvent)
      /\ sending \in Message /\ gw \in [Session -> Message] /\ up \in [Session -> Seq(Message)]
  BY DEF NodeTypes, LoopTypes, AgentTypes, LoopRec
<1>4. \A m \in Message : m.events \in Seq(Int)
  BY <1>2, MessageFacts
<1>5. Hold[<<3, 0, 0>>] \in Seq(Int)
  <2>1. <<loop.event>> \in Seq(Int)
    BY <1>3
  <2> QED BY <1>1, <2>1, HoldNow DEF HoldIs
<1>6. ASSUME NEW s \in Session, NEW j \in 0 .. UpCap PROVE Hold[<<5, s, j>>] \in Seq(Int)
  <2>1. CASE j = 0
    BY <1>3, <1>4, <2>1, HoldNow DEF HoldIs
  <2>2. CASE j # 0
    <3>1. j \in 1 .. UpCap /\ j \in Nat /\ j >= 1
      BY <1>1, <2>2
    <3>2. up[s] \in Seq(Message)
      BY <1>3
    <3>3. j <= Len(up[s]) => up[s][j] \in Message
      BY <3>1, <3>2
    <3>4. Hold[<<5, s, j>>] = IF j <= Len(up[s]) THEN up[s][j].events ELSE <<>>
      BY <3>1, HoldNow DEF HoldIs
    <3> QED BY <1>1, <1>4, <3>3, <3>4
  <2> QED BY <2>1, <2>2
<1>7. ASSUME NEW k \in {1, 2, 3, 4, 6, 7, 8, 9} PROVE Hold[<<k, 0, 0>>] \in Seq(Int)
  <2>1. k \in {1, 2, 4, 6, 7, 8, 9} => Hold[<<k, 0, 0>>] \in Seq(Int)
    BY <1>2, <1>3, <1>4, HoldNow DEF HoldIs
  <2> QED BY <1>5, <2>1
<1>8. \A p \in Place : Hold[p] \in Seq(Int)
  BY <1>6, <1>7, PlaceShape
<1> QED BY <1>8 DEF Hold, Boxes

LEMMA HoldBoxesThen == NodeTypes' => (Hold \in Boxes)'
  BY HoldBoxes, PTL


LEMMA LineSame ==
    ASSUME NEW s \in Session, gw'[s].events = gw[s].events, up'[s] = up[s]
    PROVE  \A j \in 0 .. UpCap : Hold'[<<5, s, j>>] = Hold[<<5, s, j>>]
<1>1. Hold'[<<5, s, 0>>] = Hold[<<5, s, 0>>]
  BY HoldNow, HoldThen DEF HoldIs
<1>2. \A j \in 1 .. UpCap : Hold'[<<5, s, j>>] = Hold[<<5, s, j>>]
  BY HoldNow, HoldThen DEF HoldIs
<1>3. \A j \in 0 .. UpCap : j = 0 \/ j \in 1 .. UpCap
  BY TelemetryAssumption
<1> QED BY <1>1, <1>2, <1>3

\* The loop has the same event before and after, or none.
SameEvent == (loop'.pc = "select" <=> loop.pc = "select") /\ loop'.event = loop.event

\* What a step leaves alone, it leaves in its place.
LEMMA PlacesBut ==
    ASSUME NEW D,
           <<1, 0, 0>> \in D \/ hot' = hot, <<2, 0, 0>> \in D \/ fresh' = fresh,
           <<3, 0, 0>> \in D \/ SameEvent, <<4, 0, 0>> \in D \/ inbox' = inbox,
           \A s \in Session, j \in 0 .. UpCap : <<5, s, j>> \in D \/ Hold'[<<5, s, j>>] = Hold[<<5, s, j>>],
           <<6, 0, 0>> \in D \/ sending'.events = sending.events, <<7, 0, 0>> \in D \/ batch' = batch,
           <<8, 0, 0>> \in D \/ tele' = tele, <<9, 0, 0>> \in D \/ todo' = todo
    PROVE  \A p \in Place \ D : Hold'[p] = Hold[p]
<1>1. SameEvent => Hold'[<<3, 0, 0>>] = Hold[<<3, 0, 0>>]
  BY HoldNow, HoldThen DEF HoldIs, SameEvent
<1>2. /\ hot' = hot => Hold'[<<1, 0, 0>>] = Hold[<<1, 0, 0>>]
      /\ fresh' = fresh => Hold'[<<2, 0, 0>>] = Hold[<<2, 0, 0>>]
      /\ inbox' = inbox => Hold'[<<4, 0, 0>>] = Hold[<<4, 0, 0>>]
  BY HoldNow, HoldThen DEF HoldIs
<1>3. /\ sending'.events = sending.events => Hold'[<<6, 0, 0>>] = Hold[<<6, 0, 0>>]
      /\ batch' = batch => Hold'[<<7, 0, 0>>] = Hold[<<7, 0, 0>>]
      /\ tele' = tele => Hold'[<<8, 0, 0>>] = Hold[<<8, 0, 0>>]
      /\ todo' = todo => Hold'[<<9, 0, 0>>] = Hold[<<9, 0, 0>>]
  BY HoldNow, HoldThen DEF HoldIs
<1>4. ASSUME NEW k \in {1, 2, 3, 4, 6, 7, 8, 9}, <<k, 0, 0>> \notin D PROVE Hold'[<<k, 0, 0>>] = Hold[<<k, 0, 0>>]
  BY <1>1, <1>2, <1>3, <1>4
<1>5. ASSUME NEW p \in Place, p \notin D PROVE Hold'[p] = Hold[p]
  <2>1. ASSUME NEW k \in {1, 2, 3, 4, 6, 7, 8, 9}, p = <<k, 0, 0>> PROVE Hold'[p] = Hold[p]
    BY <1>4, <1>5, <2>1, Zenon
  <2>2. ASSUME NEW s \in Session, NEW j \in 0 .. UpCap, p = <<5, s, j>> PROVE Hold'[p] = Hold[p]
    BY <1>5, <2>2, Zenon
  <2> QED BY <2>1, <2>2, PlaceShape
<1> QED BY <1>5

LEMMA LinesSame ==
    ASSUME UNCHANGED <<gw, up>>
    PROVE  \A s \in Session, j \in 0 .. UpCap : Hold'[<<5, s, j>>] = Hold[<<5, s, j>>]
<1> SUFFICES ASSUME NEW s \in Session PROVE \A j \in 0 .. UpCap : Hold'[<<5, s, j>>] = Hold[<<5, s, j>>]
  BY Zenon
<1> QED BY LineSame

LEMMA HoldSame ==
    ASSUME NodeTypes, NodeTypes', \A p \in Place : Hold'[p] = Hold[p]
    PROVE  Hold' = Hold
<1>1. Hold \in Boxes /\ Hold' \in Boxes
  BY HoldBoxes, HoldBoxesThen
<1> DEFINE H == Hold
           K == Hold'
<1> HIDE DEF H, K
<1>2. H \in [Place -> Seq(Int)] /\ K \in [Place -> Seq(Int)] /\ \A p \in Place : K[p] = H[p]
  BY <1>1 DEF Boxes, H, K
<1>3. K = H
  BY <1>2
<1> QED BY <1>3 DEF H, K

\* A step that moves events on and neither collects nor ends one.
LEMMA AccountKept ==
    ASSUME AccountInv, UNCHANGED <<emitted, lost, dropped>>, opened' <= 1 => opened <= 1,
           Content(Hold)' = Content(Hold), Once(Hold)', opened <= 1 /\ InOrder(Hold) => InOrder(Hold)'
    PROVE  AccountInv'
<1>1. Content(Hold)' = ((1 .. Len(emitted)) \ (lost \cup dropped))'
  BY DEF AccountInv
<1>2. \A e \in (lost \cup dropped)' : e \in Int /\ e <= Len(emitted')
  BY DEF AccountInv
<1>3. opened' <= 1 => InOrder(Hold)'
  BY DEF AccountInv
<1> QED BY <1>1, <1>2, <1>3 DEF AccountInv

\* A step that leaves every event where it is.
LEMMA AccountStill ==
    ASSUME NodeTypes, NodeTypes', AccountInv, UNCHANGED <<emitted, lost, dropped>>, opened' <= 1 => opened <= 1,
           UNCHANGED <<hot, fresh, inbox, batch, tele, todo>>, sending'.events = sending.events, SameEvent,
           \A s \in Session : gw'[s].events = gw[s].events /\ up'[s] = up[s]
    PROVE  AccountInv'
<1>1. \A s \in Session, j \in 0 .. UpCap : Hold'[<<5, s, j>>] = Hold[<<5, s, j>>]
  <2> SUFFICES ASSUME NEW s \in Session PROVE \A j \in 0 .. UpCap : Hold'[<<5, s, j>>] = Hold[<<5, s, j>>]
    BY Zenon
  <2> QED BY LineSame
<1>2. \A p \in Place \ {} : Hold'[p] = Hold[p]
  BY <1>1, PlacesBut
<1>3. Hold' = Hold
  BY <1>2, HoldSame
<1>4. Content(Hold)' = Content(Hold) /\ Once(Hold)' /\ (InOrder(Hold) => InOrder(Hold)')
  BY <1>3 DEF AccountInv, Content, Once, InOrder, Spot, In
<1> QED BY <1>4, AccountKept

LEMMA AccountHead ==
    ASSUME NodeTypes, NodeTypes', AccountInv, UNCHANGED <<emitted, lost, dropped, opened>>,
           NEW d \in Place, NEW s \in Place, d # s, Hold[s] # <<>>,
           Hold'[d] = Append(Hold[d], Head(Hold[s])), Hold'[s] = Tail(Hold[s]),
           \A p \in Place \ {d, s} : Hold'[p] = Hold[p], opened <= 1 => NextTo(Hold, d, s)
    PROVE  AccountInv'
<1>1. Hold \in Boxes /\ Hold' \in Boxes /\ Once(Hold)
  BY HoldBoxes, HoldBoxesThen DEF AccountInv
<1> DEFINE H == Hold
           K == Hold'
<1> HIDE DEF H, K
<1>2. /\ H \in Boxes /\ K \in Boxes /\ Once(H) /\ H[s] # <<>> /\ K[d] = Append(H[d], Head(H[s])) /\ K[s] = Tail(H[s])
      /\ \A p \in Place \ {d, s} : K[p] = H[p]
  BY <1>1 DEF H, K
<1>3. Content(K) = Content(H) /\ Once(K) /\ (InOrder(H) /\ NextTo(H, d, s) => InOrder(K))
  BY <1>2, HeadPassed
<1>4. Content(Hold)' = Content(K) /\ Once(Hold)' = Once(K) /\ InOrder(Hold)' = InOrder(K)
  BY DEF K, Content, Once, InOrder, Spot, In
<1>5. Content(Hold)' = Content(Hold) /\ Once(Hold)' /\ (opened <= 1 /\ InOrder(Hold) => InOrder(Hold)')
  BY <1>3, <1>4 DEF H
<1> QED BY <1>5, AccountKept

LEMMA AccountAll ==
    ASSUME NodeTypes, NodeTypes', AccountInv, UNCHANGED <<emitted, lost, dropped, opened>>,
           NEW d, NEW s, PassesAll(Hold, Hold', d, s), opened <= 1 => NextTo(Hold, d, s)
    PROVE  AccountInv'
<1>1. Hold \in Boxes /\ Hold' \in Boxes /\ Once(Hold)
  BY HoldBoxes, HoldBoxesThen DEF AccountInv
<1> DEFINE H == Hold
           K == Hold'
<1> HIDE DEF H, K
<1>2. H \in Boxes /\ K \in Boxes /\ Once(H) /\ PassesAll(H, K, d, s)
  BY <1>1 DEF H, K
<1>3. Content(K) = Content(H) /\ Once(K) /\ (InOrder(H) /\ NextTo(H, d, s) => InOrder(K))
  BY <1>2, AllPassed
<1>4. Content(Hold)' = Content(K) /\ Once(Hold)' = Once(K) /\ InOrder(Hold)' = InOrder(K)
  BY DEF K, Content, Once, InOrder, Spot, In
<1>5. Content(Hold)' = Content(Hold) /\ Once(Hold)' /\ (opened <= 1 /\ InOrder(Hold) => InOrder(Hold)')
  BY <1>3, <1>4 DEF H
<1> QED BY <1>5, AccountKept

\* The places along the way.
LEMMA Neighbours ==
    ASSUME NEW H
    PROVE  /\ NextTo(H, <<1, 0, 0>>, <<2, 0, 0>>) /\ NextTo(H, <<2, 0, 0>>, <<3, 0, 0>>)
           /\ NextTo(H, <<3, 0, 0>>, <<4, 0, 0>>) /\ NextTo(H, <<6, 0, 0>>, <<7, 0, 0>>)
           /\ NextTo(H, <<7, 0, 0>>, <<8, 0, 0>>) /\ NextTo(H, <<8, 0, 0>>, <<9, 0, 0>>)
<1>1. \A m, n : m \in Int /\ n \in Int => (Before(<<m, 0, 0>>, <<n, 0, 0>>) <=> m < n)
  BY DEF Before
<1>2. ASSUME NEW n \in {1, 2, 3, 6, 7, 8} PROVE NextTo(H, <<n, 0, 0>>, <<n + 1, 0, 0>>)
  <2>1. Before(<<n, 0, 0>>, <<n + 1, 0, 0>>)
    BY <1>1
  <2>2. ASSUME NEW p \in Place, p # <<n, 0, 0>>, p # <<n + 1, 0, 0>>
        PROVE  Before(p, <<n, 0, 0>>) \/ Before(<<n + 1, 0, 0>>, p)
    <3>1. ASSUME NEW k \in {1, 2, 3, 4, 6, 7, 8, 9}, p = <<k, 0, 0>>
          PROVE  Before(p, <<n, 0, 0>>) \/ Before(<<n + 1, 0, 0>>, p)
      <4>1. k # n /\ k # n + 1
        BY <2>2, <3>1
      <4>2. k < n \/ n + 1 < k
        BY <4>1
      <4>3. k \in Int /\ n \in Int /\ n + 1 \in Int
        OBVIOUS
      <4> QED BY <1>1, <3>1, <4>2, <4>3
    <3>2. ASSUME NEW s \in Session, NEW j \in 0 .. UpCap, p = <<5, s, j>>
          PROVE  Before(p, <<n, 0, 0>>) \/ Before(<<n + 1, 0, 0>>, p)
      <4>1. 5 < n \/ n + 1 < 5
        OBVIOUS
      <4>2. n \in Int /\ n + 1 \in Int
        OBVIOUS
      <4>3. Before(<<5, s, j>>, <<n, 0, 0>>) \/ Before(<<n + 1, 0, 0>>, <<5, s, j>>)
        BY <4>1, <4>2 DEF Before
      <4> QED BY <3>2, <4>3, Zenon
    <3> QED BY <3>1, <3>2, PlaceShape
  <2> QED BY <2>1, <2>2 DEF NextTo
<1>3. 1 + 1 = 2 /\ 2 + 1 = 3 /\ 3 + 1 = 4 /\ 6 + 1 = 7 /\ 7 + 1 = 8 /\ 8 + 1 = 9
  OBVIOUS
<1> QED BY <1>2, <1>3

\* The collectors.
LEMMA AccountCollect == ASSUME NodeTypes, NodeTypes', AccountInv, Collect PROVE AccountInv'
<1>1. /\ todo # <<>> /\ tele' = Append(tele, Head(todo)) /\ todo' = Tail(todo)
      /\ UNCHANGED <<emitted, lost, dropped, opened, hot, fresh, loop, inbox, gw, up, sending, batch>>
  BY DEF Collect, loopVars
<1> DEFINE d == <<8, 0, 0>>
           s == <<9, 0, 0>>
<1>2. d \in Place /\ s \in Place /\ d # s
  BY PlaceShape
<1>3. \A p \in Place \ {d, s} : Hold'[p] = Hold[p]
  BY <1>1, LinesSame, PlacesBut DEF SameEvent
<1>4. Hold[d] = tele /\ Hold[s] = todo /\ Hold'[d] = tele' /\ Hold'[s] = todo'
  BY HoldNow, HoldThen DEF HoldIs
<1>5. NextTo(Hold, d, s)
  BY Neighbours
<1> HIDE DEF d, s
<1> QED BY <1>1, <1>2, <1>3, <1>4, <1>5, AccountHead

LEMMA AccountPoll ==
    ASSUME NodeTypes, NodeTypes', AccountInv, todo = <<>>, NEW found \in Seq(EventRec), Collected(found),
           UNCHANGED <<lost, dropped, opened, hot, fresh, loop, inbox, gw, up, sending, batch, tele>>
    PROVE  AccountInv'
<1> DEFINE t == <<9, 0, 0>>
           H == Hold
           K == Hold'
           n == Len(emitted)
           k == Len(found)
<1>1. Len(emitted') = n + k /\ Len(todo') = k /\ (\A i \in 1 .. k : todo'[i] = n + i) /\ n \in Nat /\ k \in Nat
  BY CollectedFacts DEF NodeTypes
<1>2. H \in Boxes /\ K \in Boxes /\ Once(H)
  BY HoldBoxes, HoldBoxesThen DEF AccountInv
<1>3. \A p \in Place \ {t} : K[p] = H[p]
  BY LinesSame, PlacesBut DEF SameEvent
<1>4. H[t] = <<>> /\ K[t] = todo'
  BY HoldNow, HoldThen DEF HoldIs
<1>5. Content(H) = (1 .. n) \ (lost \cup dropped) /\ \A e \in lost \cup dropped : e \in Int /\ e <= n
  BY DEF AccountInv
<1>6. Content(Hold)' = Content(K) /\ Once(Hold)' = Once(K) /\ InOrder(Hold)' = InOrder(K)
  BY DEF Content, Once, InOrder, Spot, In
<1>7. opened <= 1 => InOrder(H)
  BY DEF AccountInv
<1> HIDE DEF H, K, n, k
<1>8. Len(K[t]) = k /\ \A i \in 1 .. k : K[t][i] = n + i
  BY <1>1, <1>4
<1>9. Content(K) = Content(H) \cup (n + 1 .. n + k) /\ Once(K) /\ (InOrder(H) => InOrder(K))
  <2>1. Content(H) \subseteq 1 .. n
    BY <1>5
  <2>2. n \in Nat /\ k \in Nat /\ H[t] = <<>>
    BY <1>1, <1>4
  <2>3. t \in Place /\ \A p \in Place : p = t \/ Before(p, t)
    BY LastPlace
  <2> HIDE DEF t
  <2>4. Joined(H, K, n, k, t)
    BY <1>3, <1>8, <2>1, <2>2, <2>3 DEF Joined
  <2> QED BY <1>2, <2>2, <2>4, JoinedFacts
<1>10. (1 .. n + k) \ (lost \cup dropped) = ((1 .. n) \ (lost \cup dropped)) \cup (n + 1 .. n + k)
  <2>1. \A e \in n + 1 .. n + k : e \notin lost \cup dropped /\ e \in 1 .. n + k
    BY <1>1, <1>5
  <2>2. \A e \in 1 .. n + k : e \in 1 .. n \/ e \in n + 1 .. n + k
    BY <1>1
  <2>3. \A e \in 1 .. n : e \in 1 .. n + k
    BY <1>1
  <2> QED BY <2>1, <2>2, <2>3
<1>11. Content(Hold)' = ((1 .. Len(emitted)) \ (lost \cup dropped))'
  BY <1>1, <1>5, <1>6, <1>9, <1>10
<1>12. \A e \in (lost \cup dropped)' : e \in Int /\ e <= Len(emitted')
  <2>1. \A e \in Int : e <= n => e <= n + k
    BY <1>1
  <2> QED BY <1>1, <1>5, <2>1
<1>13. opened' <= 1 => InOrder(Hold)'
  BY <1>6, <1>7, <1>9
<1> QED BY <1>6, <1>9, <1>11, <1>12, <1>13 DEF AccountInv

LEMMA AccountCollector == ASSUME NodeTypes, NodeTypes', AccountInv, CollectorStep PROVE AccountInv'
<1>1. CASE HostChange
  BY <1>1, AccountStill DEF HostChange, collectorVars, sessionVars, loopVars, SameEvent
<1>2. CASE ProcessPoll
  <2>1. /\ todo = <<>> /\ UNCHANGED <<lost, dropped, opened, hot, fresh, loop, inbox, gw, up, sending, batch, tele>>
    BY <1>2 DEF ProcessPoll, sessionVars, loopVars
  <2>2. CASE "process" \in primed
    <3>1. Collected(Polled)
      BY <1>2, <2>2 DEF ProcessPoll, Polled
    <3>2. Polled \in Seq(EventRec)
      BY PolledType DEF NodeTypes
    <3> QED BY <2>1, <3>1, <3>2, AccountPoll
  <2>3. CASE "process" \notin primed
    <3>1. UNCHANGED <<todo, emitted>>
      BY <1>2, <2>3 DEF ProcessPoll
    <3> QED BY <2>1, <3>1, AccountStill DEF SameEvent
  <2> QED BY <2>2, <2>3
<1>3. CASE PersistencePoll
  <2>1. /\ todo = <<>> /\ UNCHANGED <<lost, dropped, opened, hot, fresh, loop, inbox, gw, up, sending, batch, tele>>
    BY <1>3 DEF PersistencePoll, sessionVars, loopVars
  <2>2. CASE "persistence" \in primed
    <3>1. Collected(Events("add", AddedNow))
      BY <1>3, <2>2 DEF PersistencePoll, AddedNow
    <3>2. Events("add", AddedNow) \in Seq(EventRec)
      BY AddedType DEF NodeTypes
    <3> QED BY <2>1, <3>1, <3>2, AccountPoll
  <2>3. CASE "persistence" \notin primed
    <3>1. UNCHANGED <<todo, emitted>>
      BY <1>3, <2>3 DEF PersistencePoll
    <3> QED BY <2>1, <3>1, AccountStill DEF SameEvent
  <2> QED BY <2>2, <2>3
<1>4. CASE Collect
  BY <1>4, AccountCollect
<1> QED BY <1>1, <1>2, <1>3, <1>4 DEF CollectorStep

\* session_once: an event joins the batch.
LEMMA AccountReceive == ASSUME NodeTypes, NodeTypes', AccountInv, Receive PROVE AccountInv'
<1> DEFINE b == Append(batch, Head(tele))
           p6 == <<6, 0, 0>>
           p7 == <<7, 0, 0>>
           p8 == <<8, 0, 0>>
           H == Hold
           K == Hold'
<1>1. /\ tele # <<>> /\ tele' = Tail(tele) /\ sending = NoMessage
      /\ UNCHANGED <<emitted, lost, dropped, opened, hot, fresh, loop, inbox, gw, up, todo>>
  BY DEF Receive, Ready, loopVars, collectorVars
<1>2. tele \in Seq(AgentEvent) /\ batch \in Seq(AgentEvent)
  BY DEF NodeTypes, AgentTypes
<1>3. /\ p6 \in Place /\ p7 \in Place /\ p8 \in Place
      /\ p6 # p7 /\ p6 # p8 /\ p7 # p8
  BY PlaceShape
<1>4. /\ H[p6] = <<>> /\ H[p7] = batch /\ H[p8] = tele
      /\ K[p6] = sending'.events /\ K[p7] = batch' /\ K[p8] = tele'
  BY <1>1, HoldNow, HoldThen, MessageFacts DEF HoldIs
<1>5. \A p \in Place \ {p6, p7, p8} : K[p] = H[p]
  BY <1>1, LinesSame, PlacesBut DEF SameEvent
<1> HIDE DEF p6, p7, p8
<1>6. CASE Len(b) >= BatchSize
  <2>1. sending' = [is |-> "telemetry", events |-> b] /\ batch' = <<>>
    BY <1>6 DEF Receive, SendBatch
  <2>2. sending'.events = b
    BY <2>1
  <2> DEFINE M == [H EXCEPT ![p7] = b, ![p8] = Tail(tele)]
  <2>3. H \in Boxes /\ K \in Boxes /\ Once(H)
    BY HoldBoxes, HoldBoxesThen DEF AccountInv
  <2>4. opened <= 1 => InOrder(H)
    BY DEF AccountInv
  <2>5. b \in Seq(Int) /\ Tail(tele) \in Seq(Int) /\ b \in Seq(AgentEvent)
    <3>1. Head(tele) \in AgentEvent /\ Tail(tele) \in Seq(AgentEvent)
      BY <1>1, <1>2, HeadTailProperties
    <3>2. b \in Seq(AgentEvent)
      BY <1>2, <3>1, AppendProperties
    <3>3. AgentEvent \subseteq Int
      BY DEF AgentEvent
    <3> QED BY <3>1, <3>2, <3>3, SeqMonotonic
  <2>6. Content(Hold)' = Content(K) /\ Once(Hold)' = Once(K) /\ InOrder(Hold)' = InOrder(K)
    BY DEF Content, Once, InOrder, Spot, In
  <2>7. b = Append(batch, Head(tele))
    OBVIOUS
  <2> HIDE DEF H, K, b
  <2>8. M \in Boxes /\ M[p7] = b /\ M[p8] = Tail(tele) /\ \A p \in Place \ {p7, p8} : M[p] = H[p]
    BY <1>3, <2>3, <2>5 DEF Boxes
  <2> HIDE DEF M
  <2>9. Content(M) = Content(H) /\ Once(M) /\ (InOrder(H) => InOrder(M))
    <3>1. NextTo(H, p7, p8)
      BY Neighbours DEF p6, p7, p8
    <3>2. H[p8] # <<>> /\ M[p7] = Append(H[p7], Head(H[p8])) /\ M[p8] = Tail(H[p8])
      BY <1>1, <1>4, <2>7, <2>8
    <3>3. p7 \in Place /\ p8 \in Place /\ p7 # p8 /\ M \in Boxes /\ \A p \in Place \ {p7, p8} : M[p] = H[p]
      BY <1>3, <2>8
    <3> QED BY <2>3, <3>1, <3>2, <3>3, HeadPassed
  <2>10. Content(K) = Content(M) /\ Once(K) /\ (InOrder(M) => InOrder(K))
    <3>1. NextTo(M, p6, p7)
      BY Neighbours DEF p6, p7, p8
    <3>2. M[p6] = <<>> /\ K[p6] = b /\ K[p7] = <<>>
      BY <1>3, <1>4, <2>1, <2>2, <2>8
    <3>3. <<>> \o b = b
      BY <2>5
    <3>4. \A p \in Place \ {p6, p7} : K[p] = M[p]
      BY <1>1, <1>4, <1>5, <2>8
    <3>5. K[p6] = M[p6] \o M[p7]
      BY <2>8, <3>2, <3>3
    <3>6. p6 \in Place /\ p7 \in Place /\ p6 # p7 /\ M \in Boxes /\ Once(M) /\ K[p7] = <<>>
      BY <1>3, <2>8, <2>9, <3>2
    <3>7. PassesAll(M, K, p6, p7)
      BY <3>4, <3>5, <3>6 DEF PassesAll
    <3> QED BY <2>3, <3>1, <3>6, <3>7, AllPassed
  <2>11. Content(Hold)' = Content(Hold) /\ Once(Hold)' /\ (opened <= 1 /\ InOrder(Hold) => InOrder(Hold)')
    BY <2>6, <2>9, <2>10 DEF H
  <2> QED BY <1>1, <2>11, AccountKept
<1>7. CASE ~(Len(b) >= BatchSize)
  <2>1. batch' = b /\ sending' = sending
    BY <1>7 DEF Receive
  <2>2. \A p \in Place \ {p7, p8} : K[p] = H[p]
    BY <1>1, <2>1, LinesSame, PlacesBut DEF SameEvent, p7, p8
  <2>3. NextTo(H, p7, p8)
    BY Neighbours DEF p6, p7, p8
  <2>4. Hold[p8] # <<>> /\ Hold'[p7] = Append(Hold[p7], Head(Hold[p8])) /\ Hold'[p8] = Tail(Hold[p8])
    BY <1>1, <1>4, <2>1
  <2>5. p7 \in Place /\ p8 \in Place /\ p7 # p8 /\ UNCHANGED <<emitted, lost, dropped, opened>>
    BY <1>1, <1>3
  <2> QED BY <2>2, <2>3, <2>4, <2>5, AccountHead
<1> QED BY <1>6, <1>7

\* A batch is sent.
LEMMA AccountFlush == ASSUME NodeTypes, NodeTypes', AccountInv, Flush PROVE AccountInv'
<1> DEFINE d == <<6, 0, 0>>
           s == <<7, 0, 0>>
<1>1. /\ sending = NoMessage /\ sending' = [is |-> "telemetry", events |-> batch] /\ batch' = <<>>
      /\ UNCHANGED <<emitted, lost, dropped, opened, hot, fresh, loop, inbox, gw, up, tele, todo>>
  BY DEF Flush, SendBatch, Ready, loopVars, collectorVars
<1>2. sending.events = <<>> /\ sending'.events = batch
  BY <1>1, MessageFacts
<1>3. d \in Place /\ s \in Place /\ d # s
  BY PlaceShape
<1>4. \A p \in Place \ {d, s} : Hold'[p] = Hold[p]
  BY <1>1, LinesSame, PlacesBut DEF SameEvent
<1>5. Hold[d] = <<>> /\ Hold[s] = batch /\ Hold'[d] = batch /\ Hold'[s] = <<>>
  BY <1>1, <1>2, HoldNow, HoldThen DEF HoldIs
<1>6. NextTo(Hold, d, s)
  BY Neighbours
<1>7. <<>> \o batch = batch
  BY DEF NodeTypes, AgentTypes
<1> HIDE DEF d, s
<1>8. Hold'[d] = Hold[d] \o Hold[s]
  BY <1>5, <1>7
<1>9. PassesAll(Hold, Hold', d, s)
  BY <1>3, <1>4, <1>5, <1>8 DEF PassesAll
<1> QED BY <1>1, <1>6, <1>9, AccountAll

\* A session that was not opened holds nothing.
LEMMA LineEmpty ==
    ASSUME NodeTypes, NEW s \in Session, s > opened
    PROVE  \A j \in 0 .. UpCap : Hold[<<5, s, j>>] = <<>>
<1>1. up[s] = <<>> /\ gw[s] = NoMessage /\ UpCap \in Nat
  BY TelemetryAssumption DEF NodeTypes, AgentTypes
<1>2. gw[s].events = <<>> /\ Len(up[s]) = 0
  BY <1>1, MessageFacts
<1>3. \A j \in 1 .. UpCap : ~(j <= Len(up[s]))
  BY <1>2
<1>4. \A j \in 0 .. UpCap : j = 0 \/ j \in 1 .. UpCap
  BY <1>1
<1>5. Hold[<<5, s, 0>>] = <<>> /\ \A j \in 1 .. UpCap : Hold[<<5, s, j>>] = <<>>
  BY <1>2, <1>3, HoldNow DEF HoldIs
<1> QED BY <1>4, <1>5

\* The message enters the stream.
LEMMA AccountSendUp == ASSUME NodeTypes, NodeTypes', AccountInv, SendUp PROVE AccountInv'
<1>1. /\ sess # 0 /\ Len(up[sess]) < UpCap /\ up' = [up EXCEPT ![sess] = Append(@, sending)] /\ sending' = NoMessage
      /\ UNCHANGED <<emitted, lost, dropped, opened, hot, fresh, loop, inbox, gw, batch, tele, todo>>
  BY DEF SendUp, loopVars, collectorVars
<1>2. /\ sess \in Session /\ sess <= opened /\ opened \in Nat /\ up \in [Session -> Seq(Message)] /\ sending \in Message
      /\ UpCap \in Nat /\ \A x \in Session : x \in Nat /\ x >= 1
  BY <1>1, SessionFacts, TelemetryAssumption DEF NodeTypes, AgentTypes
<1>3. PICK r \in Session : r = sess
  BY <1>2
<1>4. PICK n \in Nat : n = Len(up[r])
  BY <1>2
<1> DEFINE d == <<5, r, n + 1>>
           s == <<6, 0, 0>>
<1>5. n < UpCap /\ n + 1 \in 1 .. UpCap /\ n + 1 \in 0 .. UpCap /\ r \in Nat /\ r >= 1
  BY <1>1, <1>2, <1>3, <1>4
<1>6. d \in Place /\ s \in Place /\ d # s
  BY <1>5, PlaceShape
<1>7. /\ up'[r] = Append(up[r], sending) /\ \A x \in Session \ {r} : up'[x] = up[x]
  BY <1>1, <1>2, <1>3
<1>8. Len(up'[r]) = n + 1 /\ up'[r][n + 1] = sending /\ \A j \in 1 .. n : up'[r][j] = up[r][j]
  BY <1>2, <1>4, <1>7, AppendProperties
<1>9. \A j \in 1 .. UpCap : j # n + 1 => Hold'[<<5, r, j>>] = Hold[<<5, r, j>>]
  <2> SUFFICES ASSUME NEW j \in 1 .. UpCap, j # n + 1 PROVE Hold'[<<5, r, j>>] = Hold[<<5, r, j>>]
    OBVIOUS
  <2>1. /\ Hold'[<<5, r, j>>] = (IF j <= n + 1 THEN up'[r][j].events ELSE <<>>)
        /\ Hold[<<5, r, j>>] = (IF j <= n THEN up[r][j].events ELSE <<>>)
    BY <1>4, <1>8, HoldNow, HoldThen DEF HoldIs
  <2>2. (j <= n + 1 <=> j <= n) /\ (j <= n => j \in 1 .. n)
    BY <1>5
  <2> QED BY <1>8, <2>1, <2>2
<1>10. ASSUME NEW x \in Session, NEW j \in 0 .. UpCap PROVE <<5, x, j>> \in {d, s} \/ Hold'[<<5, x, j>>] = Hold[<<5, x, j>>]
  <2>1. CASE x # r
    BY <1>1, <1>7, <2>1, LineSame
  <2>2. CASE x = r /\ j = n + 1
    BY <2>2
  <2>3. CASE x = r /\ j = 0
    BY <1>1, <2>3, HoldNow, HoldThen DEF HoldIs
  <2>4. CASE x = r /\ j # 0 /\ j # n + 1
    <3>1. j \in 1 .. UpCap
      BY <1>2, <2>4
    <3> QED BY <1>9, <2>4, <3>1
  <2> QED BY <2>1, <2>2, <2>3, <2>4
<1>11. \A p \in Place \ {d, s} : Hold'[p] = Hold[p]
  BY <1>1, <1>10, PlacesBut DEF SameEvent
<1>12. Hold[d] = <<>> /\ Hold'[d] = sending.events /\ Hold[s] = sending.events /\ Hold'[s] = <<>>
  <2>1. /\ Hold[d] = (IF n + 1 <= n THEN up[r][n + 1].events ELSE <<>>)
        /\ Hold'[d] = (IF n + 1 <= n + 1 THEN up'[r][n + 1].events ELSE <<>>)
    BY <1>4, <1>5, <1>8, HoldNow, HoldThen DEF HoldIs
  <2>2. ~(n + 1 <= n) /\ n + 1 <= n + 1
    OBVIOUS
  <2>3. Hold[s] = sending.events /\ Hold'[s] = <<>>
    BY <1>1, HoldNow, HoldThen, MessageFacts DEF HoldIs
  <2> QED BY <1>8, <2>1, <2>2, <2>3
<1>13. ASSUME opened <= 1 PROVE NextTo(Hold, d, s)
  <2>1. Before(d, s)
    BY DEF Before
  <2>2. ASSUME NEW k \in {1, 2, 3, 4, 6, 7, 8, 9}, <<k, 0, 0>> # s PROVE Before(<<k, 0, 0>>, d) \/ Before(s, <<k, 0, 0>>)
    <3>1. k # 6
      BY <2>2
    <3>2. k < 5 \/ 6 < k
      BY <3>1
    <3> QED BY <3>2 DEF Before
  <2>3. ASSUME NEW x \in Session, NEW j \in 0 .. UpCap, <<5, x, j>> # d PROVE Hold[<<5, x, j>>] = <<>> \/ Before(<<5, x, j>>, d)
    <3>1. CASE x > opened
      BY <3>1, LineEmpty
    <3>2. CASE ~(x > opened)
      <4>1. x = r
        BY <1>2, <1>3, <1>13, <3>2
      <4>2. j # n + 1
        BY <2>3, <4>1
      <4>3. CASE j < n + 1
        BY <4>1, <4>3 DEF Before
      <4>4. CASE n + 1 < j
        <5>1. j \in 1 .. UpCap /\ ~(j <= n)
          BY <1>2, <4>4
        <5> QED BY <1>4, <4>1, <5>1, HoldNow DEF HoldIs
      <4> QED BY <4>2, <4>3, <4>4
    <3> QED BY <3>1, <3>2
  <2>4. ASSUME NEW p \in Place, p # d, p # s PROVE Hold[p] = <<>> \/ Before(p, d) \/ Before(s, p)
    <3>1. ASSUME NEW k \in {1, 2, 3, 4, 6, 7, 8, 9}, p = <<k, 0, 0>> PROVE Before(p, d) \/ Before(s, p)
      BY <2>2, <2>4, <3>1, Zenon
    <3>2. ASSUME NEW x \in Session, NEW j \in 0 .. UpCap, p = <<5, x, j>> PROVE Hold[p] = <<>> \/ Before(p, d)
      BY <2>3, <2>4, <3>2, Zenon
    <3> QED BY <3>1, <3>2, PlaceShape
  <2> QED BY <2>1, <2>4 DEF NextTo
<1>14. <<>> \o sending.events = sending.events
  <2>1. sending.events \in Seq(AgentEvent)
    BY <1>2, MessageFacts
  <2> QED BY <2>1
<1> HIDE DEF d, s
<1>15. PassesAll(Hold, Hold', d, s)
  BY <1>6, <1>11, <1>12, <1>14 DEF PassesAll
<1> QED BY <1>1, <1>13, <1>15, AccountAll

\* The session task takes a message from the stream.
LEMMA AccountTakes ==
    ASSUME NodeTypes, NodeTypes', AccountInv, NEW s \in Session, GatewayTakes(s)
    PROVE  AccountInv'
<1> DEFINE H == Hold
           K == Hold'
<1>1. /\ gw[s] = NoMessage /\ up[s] # <<>> /\ gw' = [gw EXCEPT ![s] = Head(up[s])] /\ up' = [up EXCEPT ![s] = Tail(@)]
      /\ UNCHANGED <<emitted, lost, dropped, opened, hot, fresh, loop, inbox, sending, batch, tele, todo>>
  BY DEF GatewayTakes, loopVars, collectorVars
<1>2. gw \in [Session -> Message] /\ up \in [Session -> Seq(Message)] /\ UpCap \in Nat /\ Len(up[s]) <= UpCap
  BY TelemetryAssumption DEF NodeTypes, AgentTypes
<1>3. PICK n \in Nat : n = Len(up[s])
  BY <1>2
<1>4. n >= 1 /\ n <= UpCap /\ UpCap >= 1
  <2>1. n # 0
    BY <1>1, <1>2, <1>3, EmptySeq
  <2> QED BY <1>2, <1>3, <2>1
<1>5. /\ gw'[s] = up[s][1] /\ Len(up'[s]) = n - 1 /\ \A j \in 1 .. n - 1 : up'[s][j] = up[s][j + 1]
      /\ \A x \in Session \ {s} : gw'[x] = gw[x] /\ up'[x] = up[x]
  <2>1. up[s] \in Seq(Message) /\ up'[s] = Tail(up[s]) /\ gw'[s] = Head(up[s])
    BY <1>1, <1>2
  <2>2. Len(Tail(up[s])) = n - 1 /\ \A j \in 1 .. Len(Tail(up[s])) : Tail(up[s])[j] = up[s][j + 1]
    BY <1>1, <1>3, <2>1, HeadTailProperties
  <2>3. Head(up[s]) = up[s][1]
    OBVIOUS
  <2> QED BY <1>1, <1>2, <2>1, <2>2, <2>3
<1>6. H[<<5, s, 0>>] = <<>>
  BY <1>1, HoldNow, MessageFacts DEF HoldIs
<1>7. K[<<5, s, UpCap>>] = <<>>
  <2>1. UpCap \in 1 .. UpCap /\ ~(UpCap <= n - 1)
    BY <1>2, <1>4
  <2>2. K[<<5, s, UpCap>>] = IF UpCap <= n - 1 THEN up'[s][UpCap].events ELSE <<>>
    BY <1>5, <2>1, HoldThen DEF HoldIs
  <2> QED BY <2>1, <2>2
<1>8. ASSUME NEW j \in 0 .. UpCap - 1 PROVE K[<<5, s, j>>] = H[<<5, s, j + 1>>]
  <2>1. j + 1 \in 1 .. UpCap
    BY <1>2
  <2>2. H[<<5, s, j + 1>>] = IF j + 1 <= n THEN up[s][j + 1].events ELSE <<>>
    BY <1>3, <2>1, HoldNow DEF HoldIs
  <2>3. CASE j = 0
    <3>1. K[<<5, s, 0>>] = up[s][1].events
      BY <1>5, HoldThen DEF HoldIs
    <3>2. j + 1 = 1 /\ j + 1 <= n
      BY <1>4, <2>3
    <3> QED BY <2>2, <2>3, <3>1, <3>2
  <2>4. CASE j # 0
    <3>1. j \in 1 .. UpCap /\ (j <= n - 1 <=> j + 1 <= n) /\ (j <= n - 1 => j \in 1 .. n - 1)
      BY <1>2, <2>4
    <3>2. K[<<5, s, j>>] = IF j <= n - 1 THEN up'[s][j].events ELSE <<>>
      BY <1>5, <3>1, HoldThen DEF HoldIs
    <3> QED BY <1>5, <2>2, <3>1, <3>2
  <2> QED BY <2>3, <2>4
<1>9. \A p \in Place : ~(p[1] = 5 /\ p[2] = s) => K[p] = H[p]
  <2> DEFINE D == {p \in Place : p[1] = 5 /\ p[2] = s}
  <2>1. ASSUME NEW x \in Session, NEW j \in 0 .. UpCap PROVE <<5, x, j>> \in D \/ K[<<5, x, j>>] = H[<<5, x, j>>]
    <3>1. CASE x = s
      <4>1. <<5, x, j>> \in Place
        BY PlaceShape, Zenon
      <4> QED BY <3>1, <4>1
    <3>2. CASE x # s
      BY <1>5, <3>2, LineSame
    <3> QED BY <3>1, <3>2
  <2>2. \A p \in Place \ D : K[p] = H[p]
    <3> HIDE DEF D
    <3> QED BY <1>1, <2>1, PlacesBut DEF SameEvent
  <2> QED BY <2>2
<1>10. H \in Boxes /\ K \in Boxes /\ Once(H)
  BY HoldBoxes, HoldBoxesThen DEF AccountInv
<1>11. Content(Hold)' = Content(K) /\ Once(Hold)' = Once(K) /\ InOrder(Hold)' = InOrder(K)
  BY DEF Content, Once, InOrder, Spot, In
<1> HIDE DEF H, K
<1>12. Shifted(H, K, s)
  BY <1>6, <1>7, <1>8, <1>9 DEF Shifted
<1>13. Content(K) = Content(H) /\ Once(K) /\ (InOrder(H) => InOrder(K))
  BY <1>10, <1>12, ShiftedFacts
<1>14. Content(Hold)' = Content(Hold) /\ Once(Hold)' /\ (opened <= 1 /\ InOrder(Hold) => InOrder(Hold)')
  BY <1>11, <1>13 DEF H
<1> QED BY <1>1, <1>14, AccountKept

\* The session task hands the first event of a batch on.
LEMMA AccountHandsOn ==
    ASSUME NodeTypes, NodeTypes', AccountInv, NEW r \in Session, GatewayHandsOn(r)
    PROVE  AccountInv'
<1> DEFINE d == <<4, 0, 0>>
           s == <<5, r, 0>>
<1>1. /\ gw[r].is = "telemetry" /\ inbox' = Append(inbox, Head(gw[r].events)) /\ gw' = [gw EXCEPT ![r] = HandedOn(@)]
      /\ UNCHANGED <<emitted, lost, dropped, opened, hot, fresh, loop, up, sending, batch, tele, todo>>
  BY DEF GatewayHandsOn, collectorVars
<1>2. gw \in [Session -> Message] /\ gw[r] \in Message /\ UpCap \in Nat /\ opened \in Nat /\ \A x \in Session : x \in Nat /\ x >= 1
  BY SessionFacts, TelemetryAssumption DEF NodeTypes, AgentTypes
<1>3. gw'[r].events = Tail(gw[r].events) /\ gw[r].events # <<>> /\ \A x \in Session \ {r} : gw'[x] = gw[x]
  BY <1>1, <1>2, HandedOnFacts
<1>4. d \in Place /\ s \in Place /\ d # s
  <2>1. 0 \in 0 .. UpCap
    BY <1>2
  <2> QED BY <2>1, PlaceShape
<1>5. Hold[d] = inbox /\ Hold[s] = gw[r].events /\ Hold'[d] = inbox' /\ Hold'[s] = gw'[r].events
  BY HoldNow, HoldThen DEF HoldIs
<1>6. ASSUME NEW x \in Session, NEW j \in 0 .. UpCap PROVE <<5, x, j>> \in {d, s} \/ Hold'[<<5, x, j>>] = Hold[<<5, x, j>>]
  <2>1. CASE x # r
    BY <1>1, <1>3, <2>1, LineSame
  <2>2. CASE x = r /\ j = 0
    BY <2>2
  <2>3. CASE x = r /\ j # 0
    <3>1. j \in 1 .. UpCap
      BY <1>2, <2>3
    <3> QED BY <1>1, <2>3, <3>1, HoldNow, HoldThen DEF HoldIs
  <2> QED BY <2>1, <2>2, <2>3
<1>7. \A p \in Place \ {d, s} : Hold'[p] = Hold[p]
  BY <1>1, <1>6, PlacesBut DEF SameEvent
<1>8. ASSUME opened <= 1 PROVE NextTo(Hold, d, s)
  <2>1. r = 1
    <3>1. ~(r > opened)
      BY <1>1, MessageFacts DEF NodeTypes, AgentTypes
    <3> QED BY <1>2, <1>8, <3>1
  <2>2. Before(d, s)
    BY DEF Before
  <2>3. ASSUME NEW k \in {1, 2, 3, 4, 6, 7, 8, 9}, <<k, 0, 0>> # d PROVE Before(<<k, 0, 0>>, d) \/ Before(s, <<k, 0, 0>>)
    <3>1. k # 4
      BY <2>3
    <3>2. k < 4 \/ 5 < k
      BY <3>1
    <3> QED BY <3>2 DEF Before
  <2>4. ASSUME NEW x \in Session, NEW j \in 0 .. UpCap, <<5, x, j>> # s PROVE Before(s, <<5, x, j>>)
    <3>1. CASE x = r
      <4>1. j # 0
        BY <2>4, <3>1
      <4>2. 0 < j
        BY <1>2, <4>1
      <4> QED BY <3>1, <4>2 DEF Before
    <3>2. CASE x # r
      <4>1. r < x
        BY <1>2, <2>1, <3>2
      <4> QED BY <4>1 DEF Before
    <3> QED BY <3>1, <3>2
  <2>5. ASSUME NEW p \in Place, p # d, p # s PROVE Before(p, d) \/ Before(s, p)
    <3>1. ASSUME NEW k \in {1, 2, 3, 4, 6, 7, 8, 9}, p = <<k, 0, 0>> PROVE Before(p, d) \/ Before(s, p)
      BY <2>3, <2>5, <3>1, Zenon
    <3>2. ASSUME NEW x \in Session, NEW j \in 0 .. UpCap, p = <<5, x, j>> PROVE Before(s, p)
      BY <2>4, <2>5, <3>2, Zenon
    <3> QED BY <3>1, <3>2, PlaceShape
  <2> QED BY <2>2, <2>5 DEF NextTo
<1> HIDE DEF d, s
<1>9. Hold[s] # <<>> /\ Hold'[d] = Append(Hold[d], Head(Hold[s])) /\ Hold'[s] = Tail(Hold[s])
  BY <1>1, <1>3, <1>5
<1> QED BY <1>1, <1>4, <1>7, <1>8, <1>9, AccountHead

\* Places are emptied, and their events noted as ended.
LEMMA AccountEmptied ==
    ASSUME NodeTypes, NodeTypes', AccountInv, UNCHANGED <<emitted, opened>>,
           NEW M \in Boxes, Content(M) = Content(Hold), Once(M), InOrder(Hold) => InOrder(M),
           NEW D \in SUBSET Place, \A p \in D : Hold'[p] = <<>>, \A p \in Place \ D : Hold'[p] = M[p],
           lost' \cup dropped' = (lost \cup dropped) \cup UNION {Range(M[p]) : p \in D}
    PROVE  AccountInv'
<1> DEFINE K == Hold'
           U == UNION {Range(M[p]) : p \in D}
           n == Len(emitted)
<1>1. /\ Content(M) = (1 .. n) \ (lost \cup dropped) /\ n \in Nat
      /\ \A e \in lost \cup dropped : e \in Int /\ e <= n
      /\ opened <= 1 => InOrder(M)
  <2>1. n \in Nat
    BY DEF NodeTypes, AgentTypes
  <2> QED BY <2>1 DEF AccountInv
<1>2. K \in Boxes /\ (\A p \in D : K[p] = <<>>) /\ \A p \in Place \ D : K[p] = M[p]
  BY HoldBoxesThen
<1>3. Content(Hold)' = Content(K) /\ Once(Hold)' = Once(K) /\ InOrder(Hold)' = InOrder(K)
  BY DEF Content, Once, InOrder, Spot, In
<1>4. lost' \cup dropped' = (lost \cup dropped) \cup U
  OBVIOUS
<1> HIDE DEF K, n
<1>5. Content(K) = Content(M) \ U /\ Once(K) /\ (InOrder(M) => InOrder(K))
  BY <1>2, Emptied
<1>6. \A e \in U : e \in Int /\ e <= n
  <2> SUFFICES ASSUME NEW p \in D, NEW i \in DOMAIN M[p] PROVE M[p][i] \in Int /\ M[p][i] <= n
    BY DEF Range
  <2>1. M[p] \in Seq(Int) /\ p \in Place
    BY DEF Boxes
  <2>2. i \in 1 .. Len(M[p]) /\ i \in Nat /\ M[p][i] \in Int
    BY <2>1
  <2>3. ASSUME M[p][i] > 0 PROVE M[p][i] \in Content(M)
    <3>1. <<p, i>> \in Spot(M) /\ In(M, <<p, i>>) = M[p][i]
      BY <2>1, <2>2, <2>3 DEF Spot, In
    <3> QED BY <3>1 DEF Content
  <2>4. CASE M[p][i] > 0
    BY <1>1, <2>2, <2>3, <2>4
  <2>5. CASE ~(M[p][i] > 0)
    BY <1>1, <2>2, <2>5
  <2> QED BY <2>4, <2>5
<1>7. Content(Hold)' = ((1 .. Len(emitted)) \ (lost \cup dropped))'
  <2>1. Content(K) = (1 .. n) \ ((lost \cup dropped) \cup U)
    BY <1>1, <1>5
  <2> HIDE DEF U
  <2> QED BY <1>3, <1>4, <2>1 DEF n
<1>8. \A e \in (lost \cup dropped)' : e \in Int /\ e <= Len(emitted')
  <2> HIDE DEF U
  <2>1. \A e \in lost' \cup dropped' : e \in Int /\ e <= n
    BY <1>1, <1>4, <1>6
  <2> QED BY <2>1 DEF n
<1>9. opened' <= 1 => InOrder(Hold)'
  BY <1>1, <1>3, <1>5
<1> QED BY <1>3, <1>5, <1>7, <1>8, <1>9 DEF AccountInv

\* What a session's line holds.
LEMMA LineEvents ==
    ASSUME NodeTypes, NEW s \in Session
    PROVE  UNION {Range(Hold[<<5, s, j>>]) : j \in 0 .. UpCap} = EventsOf(up[s]) \cup Range(gw[s].events)
<1>1. up[s] \in Seq(Message) /\ Len(up[s]) <= UpCap /\ UpCap \in Nat /\ Len(up[s]) \in Nat /\ DOMAIN up[s] = 1 .. Len(up[s])
  BY TelemetryAssumption DEF NodeTypes, AgentTypes
<1>2. Hold[<<5, s, 0>>] = gw[s].events
  BY HoldNow DEF HoldIs
<1>3. \A j \in 1 .. UpCap : Hold[<<5, s, j>>] = IF j <= Len(up[s]) THEN up[s][j].events ELSE <<>>
  BY HoldNow DEF HoldIs
<1>4. /\ \A j \in 0 .. UpCap : j = 0 \/ j \in 1 .. UpCap
      /\ \A j \in 1 .. UpCap : j <= Len(up[s]) => j \in 1 .. Len(up[s])
      /\ \A j \in 1 .. Len(up[s]) : j \in 1 .. UpCap /\ j \in 0 .. UpCap /\ j <= Len(up[s])
      /\ 0 \in 0 .. UpCap
  BY <1>1
<1>5. Range(<<>>) = {}
  BY DEF Range
<1>6. ASSUME NEW e, NEW j \in 0 .. UpCap, e \in Range(Hold[<<5, s, j>>]) PROVE e \in EventsOf(up[s]) \cup Range(gw[s].events)
  <2>1. CASE j = 0
    BY <1>2, <1>6, <2>1
  <2>2. CASE j \in 1 .. UpCap
    <3>1. j <= Len(up[s]) /\ Hold[<<5, s, j>>] = up[s][j].events
      BY <1>3, <1>5, <1>6, <2>2
    <3>2. j \in DOMAIN up[s]
      BY <1>1, <1>4, <2>2, <3>1
    <3> QED BY <1>6, <3>1, <3>2 DEF EventsOf
  <2> QED BY <1>4, <2>1, <2>2
<1>7. ASSUME NEW e \in EventsOf(up[s]) PROVE \E j \in 0 .. UpCap : e \in Range(Hold[<<5, s, j>>])
  <2>1. PICK j \in DOMAIN up[s] : e \in Range(up[s][j].events)
    BY DEF EventsOf
  <2>2. j \in 0 .. UpCap /\ Hold[<<5, s, j>>] = up[s][j].events
    BY <1>1, <1>3, <1>4
  <2> QED BY <2>1, <2>2
<1>8. ASSUME NEW e \in Range(gw[s].events) PROVE \E j \in 0 .. UpCap : e \in Range(Hold[<<5, s, j>>])
  BY <1>2, <1>4
<1> QED BY <1>6, <1>7, <1>8

\* The stream breaks.
LEMMA AccountBreak == ASSUME NodeTypes, NodeTypes', AccountInv, Break PROVE AccountInv'
<1>1. PICK n \in 0 .. Len(up[sess]) :
           /\ up' = [up EXCEPT ![sess] = SubSeq(@, 1, n)]
           /\ lost' = lost \cup Range(batch) \cup Range(sending.events)
                           \cup EventsOf(SubSeq(up[sess], n + 1, Len(up[sess])))
  BY DEF Break
<1>2. /\ sess # 0 /\ batch' = <<>> /\ sending' = NoMessage
      /\ UNCHANGED <<emitted, dropped, opened, hot, fresh, loop, inbox, gw, tele, todo>>
  BY DEF Break, loopVars, collectorVars
<1>3. sess \in Session /\ up \in [Session -> Seq(Message)] /\ UpCap \in Nat /\ Len(up[sess]) <= UpCap
  BY <1>2, SessionFacts, TelemetryAssumption DEF NodeTypes, AgentTypes
<1>4. PICK r \in Session : r = sess
  BY <1>3
<1>5. PICK u \in Seq(Message) : u = up[r]
  BY <1>3, <1>4
<1>6. Len(u) \in Nat /\ Len(u) <= UpCap /\ n \in 0 .. Len(u) /\ n \in Nat
  BY <1>1, <1>3, <1>4, <1>5
<1> DEFINE D == {<<6, 0, 0>>, <<7, 0, 0>>} \cup {<<5, r, j>> : j \in n + 1 .. UpCap}
           q == SubSeq(u, n + 1, Len(u))
           H == Hold
<1>7. up'[r] = SubSeq(u, 1, n) /\ \A x \in Session \ {r} : up'[x] = up[x]
  BY <1>1, <1>3, <1>4, <1>5
<1>8. Len(up'[r]) = n /\ \A j \in 1 .. n : up'[r][j] = u[j]
  BY <1>6, <1>7
<1>9. \A j \in n + 1 .. UpCap : j \in 0 .. UpCap /\ j \in 1 .. UpCap
  BY <1>3, <1>6
<1>10. D \in SUBSET Place
  <2>1. \A j \in n + 1 .. UpCap : <<5, r, j>> \in Place
    BY <1>9, PlaceShape
  <2>2. <<6, 0, 0>> \in Place /\ <<7, 0, 0>> \in Place
    BY PlaceShape
  <2> QED BY <2>1, <2>2
<1>11. ASSUME NEW p \in D PROVE Hold'[p] = <<>>
  <2>1. Hold'[<<6, 0, 0>>] = <<>> /\ Hold'[<<7, 0, 0>>] = <<>>
    BY <1>2, HoldThen, MessageFacts DEF HoldIs
  <2>2. ASSUME NEW j \in n + 1 .. UpCap PROVE Hold'[<<5, r, j>>] = <<>>
    <3>1. j \in 1 .. UpCap /\ ~(j <= n)
      BY <1>6, <1>9
    <3> QED BY <1>8, <3>1, HoldThen DEF HoldIs
  <2> QED BY <2>1, <2>2
<1>12. ASSUME NEW x \in Session, NEW j \in 0 .. UpCap PROVE <<5, x, j>> \in D \/ Hold'[<<5, x, j>>] = Hold[<<5, x, j>>]
  <2>1. CASE x # r
    BY <1>2, <1>7, <2>1, LineSame
  <2>2. CASE x = r /\ j = 0
    BY <1>2, <2>2, HoldNow, HoldThen DEF HoldIs
  <2>3. CASE x = r /\ j \in 1 .. n
    <3>1. j \in 1 .. UpCap /\ j <= n /\ j <= Len(u)
      BY <1>6, <2>3
    <3>2. Hold'[<<5, r, j>>] = up'[r][j].events /\ Hold[<<5, r, j>>] = u[j].events
      BY <1>5, <1>8, <3>1, HoldNow, HoldThen DEF HoldIs
    <3> QED BY <1>8, <2>3, <3>2
  <2>4. CASE x = r /\ j \in n + 1 .. UpCap
    BY <2>4
  <2>5. j = 0 \/ j \in 1 .. n \/ j \in n + 1 .. UpCap
    BY <1>6
  <2> QED BY <2>1, <2>2, <2>3, <2>4, <2>5
<1>13. \A p \in Place \ D : Hold'[p] = Hold[p]
  <2>1. <<6, 0, 0>> \in D /\ <<7, 0, 0>> \in D
    OBVIOUS
  <2> HIDE DEF D
  <2> QED BY <1>2, <1>12, <2>1, PlacesBut DEF SameEvent
<1>14. EventsOf(q) = UNION {Range(H[<<5, r, j>>]) : j \in n + 1 .. UpCap}
  <2>1. Len(q) = Len(u) - n /\ DOMAIN q = 1 .. Len(u) - n /\ \A i \in 1 .. Len(u) - n : q[i] = u[n + i]
    BY <1>6
  <2>2. ASSUME NEW j \in n + 1 .. UpCap PROVE H[<<5, r, j>>] = IF j <= Len(u) THEN u[j].events ELSE <<>>
    BY <1>5, <1>9, HoldNow DEF HoldIs
  <2> HIDE DEF q, H
  <2>3. ASSUME NEW e \in EventsOf(q) PROVE \E j \in n + 1 .. UpCap : e \in Range(H[<<5, r, j>>])
    <3>1. PICK i \in DOMAIN q : e \in Range(q[i].events)
      BY DEF EventsOf
    <3>2. i \in 1 .. Len(u) - n /\ n + i \in n + 1 .. UpCap /\ n + i <= Len(u)
      BY <1>3, <1>6, <2>1
    <3> DEFINE j == n + i
    <3>3. j \in n + 1 .. UpCap /\ j <= Len(u) /\ q[i] = u[j]
      BY <2>1, <3>2
    <3> HIDE DEF j
    <3>4. H[<<5, r, j>>] = u[j].events
      BY <2>2, <3>3
    <3> QED BY <3>1, <3>3, <3>4
  <2>4. ASSUME NEW j \in n + 1 .. UpCap, NEW e \in Range(H[<<5, r, j>>]) PROVE e \in EventsOf(q)
    <3>1. Range(<<>>) = {}
      BY DEF Range
    <3>2. j <= Len(u) /\ e \in Range(u[j].events)
      BY <2>2, <2>4, <3>1
    <3> DEFINE i == j - n
    <3>3. i \in 1 .. Len(u) - n /\ n + i = j
      BY <1>3, <1>6, <3>2
    <3> HIDE DEF i
    <3>4. i \in DOMAIN q /\ q[i] = u[j]
      BY <2>1, <3>3
    <3> QED BY <3>2, <3>4 DEF EventsOf
  <2> QED BY <2>3, <2>4
<1>15. UNION {Range(H[p]) : p \in D} = Range(batch) \cup Range(sending.events) \cup EventsOf(q)
  <2>1. H[<<6, 0, 0>>] = sending.events /\ H[<<7, 0, 0>>] = batch
    BY HoldNow DEF HoldIs
  <2> HIDE DEF q, H
  <2>2. \A e : e \in UNION {Range(H[p]) : p \in D} <=>
               (e \in Range(H[<<6, 0, 0>>]) \/ e \in Range(H[<<7, 0, 0>>]) \/ \E j \in n + 1 .. UpCap : e \in Range(H[<<5, r, j>>]))
    OBVIOUS
  <2>3. \A e : e \in UNION {Range(H[p]) : p \in D} <=> e \in Range(batch) \cup Range(sending.events) \cup EventsOf(q)
    BY <1>14, <2>1, <2>2
  <2> HIDE DEF D
  <2> QED BY <2>3
<1>16. H \in Boxes /\ Once(H)
  BY HoldBoxes DEF AccountInv
<1>17. lost' \cup dropped' = (lost \cup dropped) \cup UNION {Range(H[p]) : p \in D}
  <2>1. lost' = lost \cup Range(batch) \cup Range(sending.events) \cup EventsOf(q)
    BY <1>1, <1>4, <1>5
  <2> HIDE DEF q, H, D
  <2> QED BY <1>2, <1>15, <2>1
<1> HIDE DEF D
<1> QED BY <1>2, <1>10, <1>11, <1>13, <1>16, <1>17, AccountEmptied

\* The rest of a session's steps and of the streams'.
LEMMA AccountSession == ASSUME NodeTypes, NodeTypes', AccountInv, SessionStep PROVE AccountInv'
<1>1. CASE Receive \/ Flush
  BY <1>1, AccountReceive, AccountFlush
<1>2. CASE SendUp \/ Break
  BY <1>2, AccountSendUp, AccountBreak
<1>3. CASE ConnectGateway
  <2>1. batch = <<>> /\ sending = NoMessage
    BY <1>3 DEF ConnectGateway, NodeTypes, AgentTypes
  <2>2. opened' = opened + 1 /\ opened \in Nat
    BY <1>3 DEF ConnectGateway, NodeTypes, AgentTypes
  <2>3. opened' <= 1 => opened <= 1
    BY <2>2
  <2>4. /\ batch' = batch /\ sending' = sending
        /\ UNCHANGED <<emitted, lost, dropped, hot, fresh, loop, inbox, gw, up, tele, todo>>
    BY <1>3, <2>1 DEF ConnectGateway, loopVars, collectorVars
  <2> QED BY <2>3, <2>4, AccountStill DEF SameEvent
<1>4. CASE Beat
  <2>1. sending = NoMessage /\ sending' = BeatMessage
    BY <1>4 DEF Beat, Ready
  <2>2. sending'.events = sending.events
    BY <2>1, MessageFacts
  <2>3. UNCHANGED <<emitted, lost, dropped, opened, hot, fresh, loop, inbox, gw, up, batch, tele, todo>>
    BY <1>4 DEF Beat, loopVars, collectorVars
  <2> QED BY <2>2, <2>3, AccountStill DEF SameEvent
<1>5. CASE ReadAck
  <2>1. UNCHANGED <<emitted, lost, dropped, opened, hot, fresh, loop, inbox, gw, up, sending, batch, tele, todo>>
    BY <1>5 DEF ReadAck, loopVars, collectorVars
  <2> QED BY <2>1, AccountStill DEF SameEvent
<1> QED BY <1>1, <1>2, <1>3, <1>4, <1>5 DEF SessionStep

LEMMA AccountStream == ASSUME NodeTypes, NodeTypes', AccountInv, StreamStep PROVE AccountInv'
<1>1. ASSUME NEW s \in Session, GatewayTakes(s) PROVE AccountInv'
  BY <1>1, AccountTakes
<1>2. ASSUME NEW s \in Session, GatewayAcks(s) PROVE AccountInv'
  <2>1. /\ gw[s].is = "beat" /\ gw' = [gw EXCEPT ![s] = NoMessage]
        /\ UNCHANGED <<emitted, lost, dropped, opened, hot, fresh, loop, inbox, up, sending, batch, tele, todo>>
    BY <1>2 DEF GatewayAcks, loopVars, collectorVars
  <2>2. gw \in [Session -> Message]
    BY DEF NodeTypes, AgentTypes
  <2>3. gw[s].events = <<>>
    BY <2>1, <2>2, MessageFacts
  <2>4. \A x \in Session : gw'[x].events = gw[x].events
    BY <2>1, <2>2, <2>3, MessageFacts
  <2> QED BY <2>1, <2>4, AccountStill DEF SameEvent
<1> QED BY <1>1, <1>2 DEF StreamStep

\* Places that differ in events of the inputs only.
LEMMA AccountInputs ==
    ASSUME NodeTypes, NodeTypes', AccountInv, UNCHANGED <<emitted, lost, dropped, opened>>,
           Spot(Hold)' = Spot(Hold), \A x \in Spot(Hold) : In(Hold, x)' = In(Hold, x)
    PROVE  AccountInv'
<1> DEFINE H == Hold
           K == Hold'
<1>1. Spot(Hold)' = Spot(K) /\ \A x : In(Hold, x)' = In(K, x)
  BY DEF Spot, In
<1>2. Content(Hold)' = Content(K) /\ Once(Hold)' = Once(K) /\ InOrder(Hold)' = InOrder(K)
  BY DEF Content, Once, InOrder, Spot, In
<1>3. Once(H)
  BY DEF AccountInv
<1>4. Spot(H) = Spot(K) /\ \A x \in Spot(H) : In(H, x) = In(K, x)
  BY <1>1
<1> HIDE DEF H, K
<1>5. Content(K) = Content(H) /\ Once(K) /\ (InOrder(H) => InOrder(K))
  BY <1>3, <1>4, SameSpots
<1>6. Content(Hold)' = Content(Hold) /\ Once(Hold)' /\ (opened <= 1 /\ InOrder(Hold) => InOrder(Hold)')
  BY <1>2, <1>5 DEF H
<1> QED BY <1>6, AccountKept

\* The loop takes an agent's event up.
LEMMA AccountTakeEvent ==
    ASSUME NodeTypes, NodeTypes', AccountInv, TakeEvent, UNCHANGED telemetryVars
    PROVE  AccountInv'
<1> DEFINE d == <<3, 0, 0>>
           s == <<4, 0, 0>>
<1>1. /\ inbox # <<>> /\ inbox' = Tail(inbox) /\ loop.pc = "select"
      /\ UNCHANGED <<emitted, lost, dropped, opened, hot, fresh, gw, up, sending, batch, tele, todo>>
  BY DEF TakeEvent, telemetryVars, collectorVars, sessionVars
<1>2. loop'.pc # "select" /\ loop'.event = Head(inbox)
  BY TakenEventFacts DEF NodeTypes
<1>3. d \in Place /\ s \in Place /\ d # s
  BY PlaceShape
<1>4. \A p \in Place \ {d, s} : Hold'[p] = Hold[p]
  BY <1>1, LinesSame, PlacesBut
<1>5. Hold[d] = <<>> /\ Hold[s] = inbox /\ Hold'[d] = <<Head(inbox)>> /\ Hold'[s] = Tail(inbox)
  BY <1>1, <1>2, HoldNow, HoldThen DEF HoldIs
<1>6. NextTo(Hold, d, s)
  BY Neighbours
<1>7. <<Head(inbox)>> = Append(<<>>, Head(inbox))
  OBVIOUS
<1> HIDE DEF d, s
<1>8. Hold[s] # <<>> /\ Hold'[d] = Append(Hold[d], Head(Hold[s])) /\ Hold'[s] = Tail(Hold[s])
  BY <1>1, <1>5, <1>7
<1> QED BY <1>1, <1>3, <1>4, <1>6, <1>8, AccountHead

\* The commit of the hot index.
LEMMA AccountCommit ==
    ASSUME NodeTypes, NodeTypes', AccountInv, CommitHot, UNCHANGED telemetryVars
    PROVE  AccountInv'
<1> DEFINE d == <<1, 0, 0>>
           s == <<2, 0, 0>>
<1>1. /\ hot' = hot \o fresh /\ fresh' = <<>>
      /\ UNCHANGED <<emitted, lost, dropped, opened, loop, inbox, gw, up, sending, batch, tele, todo>>
  BY DEF CommitHot, telemetryVars, collectorVars, sessionVars
<1>2. d \in Place /\ s \in Place /\ d # s
  BY PlaceShape
<1>3. \A p \in Place \ {d, s} : Hold'[p] = Hold[p]
  BY <1>1, LinesSame, PlacesBut DEF SameEvent
<1>4. Hold[d] = hot /\ Hold[s] = fresh /\ Hold'[d] = hot' /\ Hold'[s] = fresh'
  BY HoldNow, HoldThen DEF HoldIs
<1>5. NextTo(Hold, d, s)
  BY Neighbours
<1> HIDE DEF d, s
<1>6. PassesAll(Hold, Hold', d, s)
  BY <1>1, <1>2, <1>3, <1>4 DEF PassesAll
<1> QED BY <1>1, <1>5, <1>6, AccountAll


\* The same agents' events at the same positions.
SameAgents(a, b) ==
    \A i \in Nat : /\ (i \in 1 .. Len(a) /\ a[i] > 0) <=> (i \in 1 .. Len(b) /\ b[i] > 0)
                   /\ i \in 1 .. Len(a) /\ a[i] > 0 => b[i] = a[i]

LEMMA AccountSame ==
    ASSUME NodeTypes, NodeTypes', AccountInv, UNCHANGED <<emitted, lost, dropped, opened>>,
           \A p \in Place : SameAgents(Hold[p], Hold'[p])
    PROVE  AccountInv'
<1> DEFINE H == Hold
           K == Hold'
<1>1. Spot(Hold)' = Spot(K) /\ \A x : In(Hold, x)' = In(K, x)
  BY DEF Spot, In
<1>2. \A p \in Place : SameAgents(H[p], K[p])
  OBVIOUS
<1> HIDE DEF H, K
<1>3. ASSUME NEW x \in Place \X Nat PROVE (x \in Spot(H) <=> x \in Spot(K)) /\ (x \in Spot(H) => In(K, x) = In(H, x))
  <2>1. SameAgents(H[x[1]], K[x[1]]) /\ x[2] \in Nat
    BY <1>2
  <2> QED BY <2>1 DEF SameAgents, Spot, In
<1>4. Spot(K) = Spot(H) /\ \A x \in Spot(H) : In(K, x) = In(H, x)
  BY <1>3 DEF Spot
<1>5. Spot(Hold)' = Spot(Hold) /\ \A x \in Spot(Hold) : In(Hold, x)' = In(Hold, x)
  BY <1>1, <1>4 DEF H
<1> QED BY <1>5, AccountInputs

LEMMA SameAgentsFacts ==
    /\ \A a : SameAgents(a, a)
    /\ \A a \in Seq(Int), e \in InputEvent : SameAgents(a, Append(a, e))
    /\ \A e \in InputEvent : SameAgents(<<>>, <<e>>) /\ SameAgents(<<e>>, <<>>)
    /\ \A e, f \in InputEvent : SameAgents(<<e>>, <<f>>)
<1>1. \A a : SameAgents(a, a)
  BY DEF SameAgents
<1>2. ASSUME NEW a \in Seq(Int), NEW e \in InputEvent PROVE SameAgents(a, Append(a, e))
  <2> DEFINE b == Append(a, e)
  <2>1. /\ Len(a) \in Nat /\ Len(b) = Len(a) + 1 /\ b[Len(a) + 1] = e /\ e \in Int /\ ~(e > 0)
        /\ \A i \in 1 .. Len(a) : b[i] = a[i]
    BY AppendProperties DEF InputEvent
  <2> HIDE DEF b
  <2>2. \A i \in Nat : i \in 1 .. Len(b) <=> (i \in 1 .. Len(a) \/ i = Len(a) + 1)
    BY <2>1
  <2>3. \A i \in Nat : i \in 1 .. Len(a) => i # Len(a) + 1
    BY <2>1
  <2>4. SameAgents(a, b)
    BY <2>1, <2>2, <2>3 DEF SameAgents
  <2> QED BY <2>4 DEF b
<1>3. \A e \in InputEvent : Len(<<e>>) = 1 /\ <<e>>[1] = e /\ ~(e > 0)
  BY DEF InputEvent
<1>4. Len(<<>>) = 0 /\ 1 .. 0 = {} /\ \A i \in 1 .. 1 : i = 1
  OBVIOUS
<1>5. \A e \in InputEvent : SameAgents(<<>>, <<e>>) /\ SameAgents(<<e>>, <<>>)
  <2> SUFFICES ASSUME NEW e \in InputEvent PROVE SameAgents(<<>>, <<e>>) /\ SameAgents(<<e>>, <<>>)
    BY Zenon
  <2>1. \A i \in Nat : ~(i \in 1 .. Len(<<>>)) /\ ~(i \in 1 .. Len(<<e>>) /\ <<e>>[i] > 0)
    BY <1>3, <1>4
  <2> QED BY <2>1 DEF SameAgents
<1>6. \A e, f \in InputEvent : SameAgents(<<e>>, <<f>>)
  <2> SUFFICES ASSUME NEW e \in InputEvent, NEW f \in InputEvent PROVE SameAgents(<<e>>, <<f>>)
    BY Zenon
  <2>1. \A i \in Nat : ~(i \in 1 .. Len(<<f>>) /\ <<f>>[i] > 0) /\ ~(i \in 1 .. Len(<<e>>) /\ <<e>>[i] > 0)
    BY <1>3, <1>4
  <2> QED BY <2>1 DEF SameAgents
<1> QED BY <1>1, <1>2, <1>5, <1>6

\* A frame of the inputs is taken up.
LEMMA AccountTakeFrame ==
    ASSUME NodeTypes, NodeTypes', AccountInv, TakeFrame, UNCHANGED telemetryVars
    PROVE  AccountInv'
<1> DEFINE d == <<3, 0, 0>>
           l == [Select EXCEPT !.sigma = Head(rx).sigma, !.index = Head(rx).index]
           r == Head(rx).events
<1>1. /\ loop.pc = "select" /\ rx # <<>> /\ loop' = NextEvent(l, r)
      /\ UNCHANGED <<emitted, lost, dropped, opened, hot, fresh, inbox, gw, up, sending, batch, tele, todo>>
  BY DEF TakeFrame, telemetryVars, collectorVars, sessionVars
<1>2. l \in LoopRec /\ l.alerts = <<>> /\ r \in Seq(InputEvent)
  BY <1>1, FrameFacts DEF NodeTypes
<1>3. \A p \in Place \ {d} : Hold'[p] = Hold[p]
  BY <1>1, LinesSame, PlacesBut
<1>4. Hold[d] = <<>> /\ Hold'[d] = IF loop'.pc = "select" THEN <<>> ELSE <<loop'.event>>
  BY <1>1, HoldNow, HoldThen DEF HoldIs
<1> HIDE DEF l, r, d
<1>5. loop'.pc = "select" \/ loop'.event \in InputEvent
  <2>1. CASE r = <<>>
    BY <1>1, <1>2, <2>1, NextEventFacts, SelectFacts
  <2>2. CASE r # <<>>
    <3>1. Head(r) \in InputEvent
      BY <1>2, <2>2, HeadTailProperties
    <3> QED BY <1>1, <1>2, <2>2, <3>1, NextEventFacts
  <2> QED BY <2>1, <2>2
<1>6. SameAgents(Hold[d], Hold'[d])
  BY <1>4, <1>5, SameAgentsFacts
<1>7. \A p \in Place : SameAgents(Hold[p], Hold'[p])
  BY <1>3, <1>6, SameAgentsFacts
<1> QED BY <1>1, <1>7, AccountSame

\* The loop's event is indexed.
LEMMA AccountIndex ==
    ASSUME NodeTypes, NodeTypes', AccountInv, IndexAdd, UNCHANGED telemetryVars
    PROVE  AccountInv'
<1> DEFINE d == <<2, 0, 0>>
           s == <<3, 0, 0>>
<1>1. /\ loop.pc = "index" /\ fresh' = (IF loop.index THEN Append(fresh, loop.event) ELSE fresh)
      /\ loop' = NextEvent(loop, loop.rest)
      /\ UNCHANGED <<emitted, lost, dropped, opened, hot, inbox, gw, up, sending, batch, tele, todo>>
  BY DEF IndexAdd, telemetryVars, collectorVars, sessionVars
<1>2. /\ loop \in LoopRec /\ loop.alerts = <<>> /\ loop.rest \in Seq(InputEvent) /\ fresh \in Seq(Int)
      /\ loop.event \in AgentEvent \cup InputEvent
      /\ loop.event \in AgentEvent => loop.index /\ loop.rest = <<>>
  BY <1>1 DEF NodeTypes, LoopTypes, LoopRec, LoopShape
<1>3. d \in Place /\ s \in Place /\ d # s
  BY PlaceShape
<1>4. \A p \in Place \ {d, s} : Hold'[p] = Hold[p]
  BY <1>1, LinesSame, PlacesBut
<1>5. /\ Hold[d] = fresh /\ Hold'[d] = fresh' /\ Hold[s] = <<loop.event>>
      /\ Hold'[s] = IF loop'.pc = "select" THEN <<>> ELSE <<loop'.event>>
  BY <1>1, HoldNow, HoldThen DEF HoldIs
<1>6. NextTo(Hold, d, s)
  BY Neighbours
<1> HIDE DEF d, s
<1>7. CASE loop.event \in AgentEvent
  <2>1. loop'.pc = "select"
    BY <1>1, <1>2, <1>7, NextEventFacts, SelectFacts
  <2>2. Head(<<loop.event>>) = loop.event /\ Tail(<<loop.event>>) = <<>> /\ <<loop.event>> # <<>>
    OBVIOUS
  <2>3. Hold[s] # <<>> /\ Hold'[d] = Append(Hold[d], Head(Hold[s])) /\ Hold'[s] = Tail(Hold[s])
    BY <1>1, <1>2, <1>5, <1>7, <2>1, <2>2
  <2> QED BY <1>1, <1>3, <1>4, <1>6, <2>3, AccountHead
<1>8. CASE loop.event \in InputEvent
  <2>1. loop'.pc = "select" \/ loop'.event \in InputEvent
    <3>1. CASE loop.rest = <<>>
      BY <1>1, <1>2, <3>1, NextEventFacts, SelectFacts
    <3>2. CASE loop.rest # <<>>
      <4>1. Head(loop.rest) \in InputEvent
        BY <1>2, <3>2, HeadTailProperties
      <4> QED BY <1>1, <1>2, <3>2, <4>1, NextEventFacts
    <3> QED BY <3>1, <3>2
  <2>2. SameAgents(Hold[s], Hold'[s])
    BY <1>5, <1>8, <2>1, SameAgentsFacts
  <2>3. SameAgents(Hold[d], Hold'[d])
    BY <1>1, <1>2, <1>5, <1>8, SameAgentsFacts
  <2>4. \A p \in Place : SameAgents(Hold[p], Hold'[p])
    BY <1>4, <2>2, <2>3, SameAgentsFacts
  <2> QED BY <1>1, <2>4, AccountSame
<1> QED BY <1>2, <1>7, <1>8


\* The detection, the alerts and the start leave the events where they are.
LEMMA AccountDetect ==
    ASSUME NodeTypes, NodeTypes', AccountInv, Detect \/ PushAlert \/ Emit \/ NodeStart, UNCHANGED telemetryVars
    PROVE  AccountInv'
<1>1. LoopTypes /\ loop \in LoopRec /\ Len(Sinks) \in Nat
  BY DetectionAssumption DEF NodeTypes, LoopTypes
<1>2. UNCHANGED <<emitted, lost, opened, gw, up, sending, batch, tele, todo>>
  BY DEF telemetryVars, collectorVars, sessionVars
<1>3. CASE Detect
  <2>1. loop'.pc # "select" /\ loop'.event = loop.event /\ loop.pc # "select"
    <3>1. /\ loop'.pc = (IF loop'.alerts = <<>> THEN "index" ELSE "push") /\ loop.pc = "detect"
          /\ loop' = [loop EXCEPT !.alerts = loop'.alerts, !.pc = loop'.pc]
      <4>1. loop.pc = "detect"
        BY <1>3, Zenon DEF Detect
      <4>2. /\ loop'.pc = (IF loop'.alerts = <<>> THEN "index" ELSE "push")
            /\ loop' = [loop EXCEPT !.alerts = loop'.alerts, !.pc = loop'.pc]
        BY <1>1, <1>3, DetectFacts, Zenon
      <4> QED BY <4>1, <4>2
    <3> QED BY <1>1, <3>1 DEF LoopRec
  <2>2. UNCHANGED <<dropped, hot, fresh, inbox>>
    BY <1>3, Zenon DEF Detect
  <2> QED BY <1>2, <2>1, <2>2, AccountStill DEF SameEvent
<1>4. CASE PushAlert
  <2>1. loop'.pc # "select" /\ loop'.event = loop.event /\ loop.pc # "select"
    <3>1. loop' = AfterSink(0) /\ loop.pc = "push" /\ 0 \in 0 .. Len(Sinks)
      BY <1>1, <1>4 DEF PushAlert
    <3> QED BY <1>1, <3>1, AfterSinkFacts
  <2>2. UNCHANGED <<dropped, hot, fresh, inbox>>
    BY <1>4 DEF PushAlert
  <2> QED BY <1>2, <2>1, <2>2, AccountStill DEF SameEvent
<1>5. CASE Emit
  <2>1. loop'.pc # "select" /\ loop'.event = loop.event /\ loop.pc # "select"
    <3>1. loop' = AfterSink(loop.sink) /\ loop.pc = "emit" /\ loop.sink \in 1 .. Len(Sinks)
      BY <1>5 DEF Emit, NodeTypes, LoopTypes, LoopShape
    <3>2. loop.sink \in 0 .. Len(Sinks)
      BY <1>1, <3>1
    <3> QED BY <1>1, <3>1, <3>2, AfterSinkFacts
  <2>2. UNCHANGED <<dropped, hot, fresh, inbox>>
    BY <1>5 DEF Emit
  <2> QED BY <1>2, <2>1, <2>2, AccountStill DEF SameEvent
<1>6. CASE NodeStart
  <2>1. UNCHANGED <<dropped, hot, fresh, inbox, loop>>
    BY <1>6 DEF NodeStart
  <2> QED BY <1>2, <2>1, AccountStill DEF SameEvent
<1> QED BY <1>3, <1>4, <1>5, <1>6

\* The places that a node's end empties: the ones of the sessions, with what
\* they hold.
Sessions == {p \in Place : p[1] \in {5, 6, 7}}

LEMMA SessionsPlaces ==
    /\ <<6, 0, 0>> \in Sessions /\ <<7, 0, 0>> \in Sessions
    /\ \A s \in Session, j \in 0 .. UpCap : <<5, s, j>> \in Sessions
    /\ \A p \in Sessions : \/ p = <<6, 0, 0>> \/ p = <<7, 0, 0>>
                           \/ \E s \in Session, j \in 0 .. UpCap : p = <<5, s, j>>
<1>1. <<6, 0, 0>> \in Sessions /\ <<7, 0, 0>> \in Sessions
  BY PlaceShape DEF Sessions
<1>2. ASSUME NEW s \in Session, NEW j \in 0 .. UpCap PROVE <<5, s, j>> \in Sessions
  <2>1. <<5, s, j>> \in Place
    BY PlaceShape, Zenon
  <2>2. <<5, s, j>>[1] = 5
    OBVIOUS
  <2> QED BY <2>1, <2>2 DEF Sessions
<1>3. ASSUME NEW p \in Sessions, NEW k \in {1, 2, 3, 4, 6, 7, 8, 9}, p = <<k, 0, 0>>
      PROVE  p = <<6, 0, 0>> \/ p = <<7, 0, 0>>
  <2>1. p[1] = k /\ p[1] \in {5, 6, 7}
    BY <1>3 DEF Sessions
  <2> QED BY <1>3, <2>1
<1>4. ASSUME NEW p \in Sessions
      PROVE  \/ p = <<6, 0, 0>> \/ p = <<7, 0, 0>>
             \/ \E s \in Session, j \in 0 .. UpCap : p = <<5, s, j>>
  <2>1. p \in Place
    BY DEF Sessions
  <2> QED BY <1>3, <2>1, PlaceShape, Zenon
<1> QED BY <1>1, <1>2, <1>4, Zenon

LEMMA SessionsGone ==
    ASSUME NodeTypes, SessionsEnd
    PROVE  /\ Sessions \subseteq Place /\ \A p \in Sessions : Hold'[p] = <<>>
           /\ lost' = lost \cup UNION {Range(Hold[p]) : p \in Sessions}
           /\ UNCHANGED <<emitted, opened, tele, todo>>
<1> DEFINE H == Hold
<1>1. UNCHANGED <<emitted, opened, tele, todo>> /\ batch' = <<>> /\ sending' = NoMessage
  BY DEF SessionsEnd, collectorVars
<1>2. Sessions \subseteq Place
  BY DEF Sessions
<1>3. Hold'[<<6, 0, 0>>] = <<>> /\ Hold'[<<7, 0, 0>>] = <<>>
  BY <1>1, HoldThen, MessageFacts DEF HoldIs
<1>4. ASSUME NEW s \in Session, NEW j \in 0 .. UpCap PROVE Hold'[<<5, s, j>>] = <<>>
  <2>1. up'[s] = <<>> /\ gw'[s] = NoMessage /\ Len(up'[s]) = 0
    BY DEF SessionsEnd
  <2>2. j = 0 \/ (j \in 1 .. UpCap /\ ~(j <= 0))
    BY TelemetryAssumption
  <2>3. CASE j = 0
    BY <2>1, <2>3, HoldThen, MessageFacts DEF HoldIs
  <2>4. CASE j \in 1 .. UpCap /\ ~(j <= 0)
    <3>1. Hold'[<<5, s, j>>] = IF j <= Len(up'[s]) THEN up'[s][j].events ELSE <<>>
      BY <2>4, HoldThen DEF HoldIs
    <3> QED BY <2>1, <2>4, <3>1
  <2> QED BY <2>2, <2>3, <2>4
<1>5. \A p \in Sessions : Hold'[p] = <<>>
  BY <1>3, <1>4, SessionsPlaces, Zenon
<1>6. H[<<6, 0, 0>>] = sending.events /\ H[<<7, 0, 0>>] = batch
  BY HoldNow DEF HoldIs
<1>7. \A s \in Session : UNION {Range(H[<<5, s, j>>]) : j \in 0 .. UpCap} = EventsOf(up[s]) \cup Range(gw[s].events)
  BY LineEvents
<1>8. lost' = lost \cup Range(batch) \cup Range(sending.events)
                    \cup UNION {EventsOf(up[s]) \cup Range(gw[s].events) : s \in Session}
  BY DEF SessionsEnd
<1> HIDE DEF H
<1>9. ASSUME NEW e \in UNION {Range(H[p]) : p \in Sessions} PROVE e \in lost'
  <2>1. PICK p \in Sessions : e \in Range(H[p])
    OBVIOUS
  <2>2. CASE p = <<6, 0, 0>> \/ p = <<7, 0, 0>>
    BY <1>6, <1>8, <2>1, <2>2
  <2>3. ASSUME NEW s \in Session, NEW j \in 0 .. UpCap, p = <<5, s, j>> PROVE e \in lost'
    <3>1. e \in EventsOf(up[s]) \cup Range(gw[s].events)
      BY <1>7, <2>1, <2>3
    <3> QED BY <1>8, <3>1
  <2>4. p = <<6, 0, 0>> \/ p = <<7, 0, 0>> \/ \E s \in Session, j \in 0 .. UpCap : p = <<5, s, j>>
    BY SessionsPlaces, Zenon
  <2> QED BY <2>2, <2>3, <2>4
<1>10. ASSUME NEW e \in lost', e \notin lost PROVE \E p \in Sessions : e \in Range(H[p])
  <2>1. CASE e \in Range(batch) \cup Range(sending.events)
    BY <1>6, <2>1, SessionsPlaces
  <2>2. ASSUME NEW s \in Session, e \in EventsOf(up[s]) \cup Range(gw[s].events) PROVE \E p \in Sessions : e \in Range(H[p])
    <3>1. PICK j \in 0 .. UpCap : e \in Range(H[<<5, s, j>>])
      <4>1. e \in UNION {Range(H[<<5, s, j>>]) : j \in 0 .. UpCap}
        BY <1>7, <2>2, Zenon
      <4> QED BY <4>1
    <3>2. <<5, s, j>> \in Sessions
      BY SessionsPlaces, Zenon
    <3> QED BY <3>1, <3>2
  <2> QED BY <1>8, <1>10, <2>1, <2>2
<1>11. lost' = lost \cup UNION {Range(H[p]) : p \in Sessions}
  BY <1>8, <1>9, <1>10
<1> QED BY <1>1, <1>2, <1>5, <1>11 DEF H

\* The node crashes.
LEMMA AccountCrash ==
    ASSUME NodeTypes, NodeTypes', AccountInv, NodeCrash, SessionsEnd
    PROVE  AccountInv'
<1> DEFINE T == {<<2, 0, 0>>, <<3, 0, 0>>, <<4, 0, 0>>}
           D == Sessions \cup T
           H == Hold
<1>1. /\ Sessions \subseteq Place /\ \A p \in Sessions : Hold'[p] = <<>>
      /\ lost' = lost \cup UNION {Range(H[p]) : p \in Sessions}
      /\ UNCHANGED <<emitted, opened, tele, todo>>
  BY SessionsGone
<1>2. loop' = Select /\ inbox' = <<>> /\ fresh' = <<>> /\ dropped' = dropped \cup Held /\ hot' = hot
  BY DEF NodeCrash
<1>3. T \subseteq Place
  BY PlaceShape
<1>4. \A p \in T : Hold'[p] = <<>>
  BY <1>2, HoldThen, SelectFacts DEF HoldIs
<1>5. Held = UNION {Range(H[p]) : p \in T}
  <2>1. /\ H[<<2, 0, 0>>] = fresh /\ H[<<4, 0, 0>>] = inbox
        /\ H[<<3, 0, 0>>] = IF loop.pc = "select" THEN <<>> ELSE <<loop.event>>
    BY HoldNow DEF HoldIs
  <2>2. Range(<<>>) = {} /\ Range(<<loop.event>>) = {loop.event}
    BY DEF Range
  <2> HIDE DEF H
  <2>3. Range(H[<<3, 0, 0>>]) = IF loop.pc = "select" THEN {} ELSE {loop.event}
    BY <2>1, <2>2
  <2>4. UNION {Range(H[p]) : p \in T} = Range(H[<<2, 0, 0>>]) \cup Range(H[<<3, 0, 0>>]) \cup Range(H[<<4, 0, 0>>])
    OBVIOUS
  <2> HIDE DEF T
  <2>5. Held = Range(fresh) \cup Range(inbox) \cup Range(H[<<3, 0, 0>>])
    BY <2>3 DEF Held
  <2> QED BY <2>1, <2>4, <2>5
<1>6. \A p \in Place \ D : Hold'[p] = Hold[p]
  <2>1. <<2, 0, 0>> \in D /\ <<3, 0, 0>> \in D /\ <<4, 0, 0>> \in D /\ <<6, 0, 0>> \in D /\ <<7, 0, 0>> \in D
    BY SessionsPlaces
  <2>2. \A s \in Session, j \in 0 .. UpCap : <<5, s, j>> \in D
    BY SessionsPlaces, Zenon
  <2> HIDE DEF D
  <2>3. \A s \in Session, j \in 0 .. UpCap : <<5, s, j>> \in D \/ Hold'[<<5, s, j>>] = Hold[<<5, s, j>>]
    BY <2>2, Zenon
  <2> QED BY <1>1, <1>2, <2>1, <2>3, PlacesBut
<1>7. H \in Boxes /\ Once(H) /\ Content(H) = Content(Hold) /\ (InOrder(Hold) => InOrder(H))
  BY HoldBoxes DEF AccountInv
<1> HIDE DEF T, H
<1>8. lost' \cup dropped' = (lost \cup dropped) \cup UNION {Range(H[p]) : p \in D}
  <2>1. UNION {Range(H[p]) : p \in D} = (UNION {Range(H[p]) : p \in Sessions}) \cup (UNION {Range(H[p]) : p \in T})
    OBVIOUS
  <2> HIDE DEF D
  <2> QED BY <1>1, <1>2, <1>5, <2>1
<1>9. D \in SUBSET Place /\ \A p \in D : Hold'[p] = <<>>
  BY <1>1, <1>3, <1>4
<1> HIDE DEF D
<1>10. \A p \in Place \ D : Hold'[p] = H[p]
  BY <1>6 DEF H
<1> QED BY <1>1, <1>7, <1>8, <1>9, <1>10, AccountEmptied


\* The node ends in good order: the index is committed, and what waits in the
\* channel of events ends.
LEMMA AccountFinish ==
    ASSUME NodeTypes, NodeTypes', AccountInv, loop.pc = "select", loop' = loop, Finish, NEW L \in SUBSET Place,
           \/ L = {} /\ UNCHANGED telemetryVars
           \/ L = Sessions /\ SessionsEnd
    PROVE  AccountInv'
<1> DEFINE H == Hold
           a == <<1, 0, 0>>
           b == <<2, 0, 0>>
           c == <<4, 0, 0>>
           M == [p \in Place |-> IF p = a THEN H[a] \o H[b] ELSE IF p = b THEN <<>> ELSE H[p]]
           D == L \cup {c}
<1>1. hot' = hot \o fresh /\ fresh' = <<>> /\ dropped' = dropped \cup Range(inbox) /\ inbox' = <<>>
  BY DEF Finish
<1>2. /\ UNCHANGED <<emitted, opened, tele, todo>>
      /\ lost' = lost \cup UNION {Range(H[p]) : p \in L}
      /\ \A p \in L : Hold'[p] = <<>>
      /\ a \notin L /\ b \notin L /\ c \notin L
  <2>1. CASE L = Sessions /\ SessionsEnd
    <3>1. a \notin Sessions /\ b \notin Sessions /\ c \notin Sessions
      BY DEF Sessions
    <3> QED BY <2>1, <3>1, SessionsGone
  <2>2. CASE L = {} /\ UNCHANGED telemetryVars
    <3>1. UNCHANGED <<emitted, opened, tele, todo, lost>>
      BY <2>2 DEF telemetryVars, collectorVars, sessionVars
    <3> QED BY <2>2, <3>1
  <2> QED BY <2>1, <2>2
<1>3. \A p \in Place \ {a, b, c} : p \notin L => Hold'[p] = H[p]
  <2> DEFINE N == L \cup {a, b, c}
  <2>1. a \in N /\ b \in N /\ c \in N
    OBVIOUS
  <2>2. /\ \A s \in Session, j \in 0 .. UpCap : <<5, s, j>> \in N \/ Hold'[<<5, s, j>>] = Hold[<<5, s, j>>]
        /\ <<6, 0, 0>> \in N \/ sending'.events = sending.events
        /\ <<7, 0, 0>> \in N \/ batch' = batch
    <3>1. CASE L = Sessions
      <4>1. \A x \in Sessions : x \in N
        BY <3>1
      <4> HIDE DEF N
      <4> QED BY <4>1, SessionsPlaces, Zenon
    <3>2. CASE UNCHANGED telemetryVars
      <4>1. UNCHANGED <<gw, up, sending, batch>>
        BY <3>2 DEF telemetryVars, sessionVars
      <4> HIDE DEF N
      <4> QED BY <4>1, LinesSame, Zenon
    <3> QED BY <3>1, <3>2
  <2>3. SameEvent
    BY DEF SameEvent
  <2> HIDE DEF N
  <2>4. \A p \in Place \ N : Hold'[p] = Hold[p]
    BY <1>1, <1>2, <2>1, <2>2, <2>3, PlacesBut
  <2> QED BY <2>4 DEF N
<1>4. H[a] = hot /\ H[b] = fresh /\ H[c] = inbox /\ Hold'[a] = hot' /\ Hold'[b] = fresh' /\ Hold'[c] = inbox'
  BY HoldNow, HoldThen DEF HoldIs
<1>5. a \in Place /\ b \in Place /\ c \in Place /\ a # b /\ a # c /\ b # c
  BY PlaceShape
<1>6. NextTo(H, a, b)
  BY Neighbours
<1>7. H \in Boxes /\ Once(H) /\ hot \in Seq(Int) /\ fresh \in Seq(Int) /\ inbox \in Seq(Int)
  <2>1. H \in Boxes /\ Once(H)
    BY HoldBoxes DEF AccountInv
  <2> HIDE DEF H, a, b, c
  <2> QED BY <1>4, <1>5, <2>1 DEF Boxes
<1> HIDE DEF H, a, b, c
<1>8. M \in Boxes
  <2>1. hot \o fresh \in Seq(Int) /\ <<>> \in Seq(Int)
    BY <1>7
  <2>2. \A p \in Place : M[p] \in Seq(Int)
    BY <1>4, <1>7, <2>1 DEF Boxes
  <2> QED BY <2>2 DEF Boxes
<1>9. M[a] = H[a] \o H[b] /\ M[b] = <<>> /\ \A p \in Place \ {a, b} : M[p] = H[p]
  BY <1>5
<1> HIDE DEF M
<1>10. PassesAll(H, M, a, b)
  BY <1>5, <1>9 DEF PassesAll
<1>11. Content(M) = Content(H) /\ Once(M) /\ (InOrder(H) => InOrder(M))
  BY <1>6, <1>7, <1>8, <1>10, AllPassed
<1>12. D \in SUBSET Place /\ \A p \in D : Hold'[p] = <<>>
  BY <1>1, <1>2, <1>4, <1>5
<1>13. \A p \in Place \ D : Hold'[p] = M[p]
  <2> SUFFICES ASSUME NEW p \in Place, p \notin L, p # c PROVE Hold'[p] = M[p]
    OBVIOUS
  <2>1. CASE p = a
    BY <1>1, <1>4, <1>9, <2>1
  <2>2. CASE p = b
    BY <1>1, <1>4, <1>9, <2>2
  <2>3. CASE p # a /\ p # b
    BY <1>3, <1>9, <2>3
  <2> QED BY <2>1, <2>2, <2>3
<1>14. lost' \cup dropped' = (lost \cup dropped) \cup UNION {Range(M[p]) : p \in D}
  <2>1. \A p \in D : M[p] = H[p]
    BY <1>2, <1>5, <1>9, <1>12
  <2>2. UNION {Range(M[p]) : p \in D} = (UNION {Range(H[p]) : p \in L}) \cup Range(H[c])
    BY <2>1
  <2> HIDE DEF D
  <2> QED BY <1>1, <1>2, <1>4, <2>2
<1> HIDE DEF D
<1>15. Content(M) = Content(Hold) /\ (InOrder(Hold) => InOrder(M))
  BY <1>11 DEF H
<1> QED BY <1>2, <1>8, <1>11, <1>12, <1>13, <1>14, <1>15, AccountEmptied

LEMMA AccountDrained ==
    ASSUME NodeTypes, NodeTypes', AccountInv, Drained, UNCHANGED telemetryVars
    PROVE  AccountInv'
<1>1. loop.pc = "select" /\ loop' = loop
  BY DEF Drained
<1>2. CASE ServesLong
  <2>1. UNCHANGED <<hot, fresh, inbox, dropped>>
    BY <1>2 DEF Drained
  <2>2. UNCHANGED <<emitted, lost, opened, gw, up, sending, batch, tele, todo>>
    BY DEF telemetryVars, collectorVars, sessionVars
  <2> QED BY <1>1, <2>1, <2>2, AccountStill DEF SameEvent
<1>3. CASE ~ServesLong
  <2>1. Finish
    BY <1>3 DEF Drained
  <2>2. {} \in SUBSET Place
    OBVIOUS
  <2> QED BY <1>1, <2>1, <2>2, AccountFinish
<1> QED BY <1>2, <1>3

LEMMA AccountCtrlC ==
    ASSUME NodeTypes, NodeTypes', AccountInv, CtrlC, SessionsEnd
    PROVE  AccountInv'
<1>1. loop.pc = "select" /\ loop' = loop /\ Finish
  BY DEF CtrlC
<1>2. Sessions \in SUBSET Place
  BY DEF Sessions
<1> QED BY <1>1, <1>2, AccountFinish

LEMMA AccountInvStep == ASSUME NodeTypes, NodeTypes', AccountInv, [TelemetryNext]_nodeVars PROVE AccountInv'
<1>1. CASE CollectorStep \/ SessionStep \/ StreamStep
  BY <1>1, AccountCollector, AccountSession, AccountStream
<1>2. ASSUME NEW s \in Session, GatewayHandsOn(s) PROVE AccountInv'
  BY <1>2, AccountHandsOn
<1>3. CASE CtrlC /\ SessionsEnd
  BY <1>3, AccountCtrlC
<1>4. CASE NodeCrash /\ SessionsEnd
  BY <1>4, AccountCrash
<1>5. CASE RunStep
  <2>1. CASE TakeFrame \/ TakeEvent
    BY <1>5, <2>1, AccountTakeFrame, AccountTakeEvent DEF RunStep
  <2>2. CASE CommitHot \/ Drained \/ IndexAdd
    BY <1>5, <2>2, AccountCommit, AccountDrained, AccountIndex DEF RunStep
  <2>3. CASE Detect \/ PushAlert \/ Emit \/ NodeStart
    BY <1>5, <2>3, AccountDetect DEF RunStep
  <2> QED BY <1>5, <2>1, <2>2, <2>3 DEF RunStep
<1>6. CASE UNCHANGED <<telemetryVars, loopVars>>
  <2>1. UNCHANGED <<emitted, lost, opened, gw, up, sending, batch, tele, todo>>
    BY <1>6 DEF telemetryVars, collectorVars, sessionVars
  <2>2. UNCHANGED <<hot, fresh, inbox, dropped, loop>>
    BY <1>6 DEF loopVars
  <2> QED BY <2>1, <2>2, AccountStill DEF SameEvent
<1> QED BY <1>1, <1>2, <1>3, <1>4, <1>5, <1>6, StepCases

LEMMA AccountInit == TelemetrySpecInit => AccountInv
<1> SUFFICES ASSUME TelemetrySpecInit PROVE AccountInv
  OBVIOUS
<1>1. /\ hot = <<>> /\ fresh = <<>> /\ inbox = <<>> /\ loop.pc = "select" /\ batch = <<>> /\ tele = <<>> /\ todo = <<>>
      /\ sending = NoMessage /\ opened = 0 /\ emitted = <<>> /\ lost = {} /\ dropped = {}
  BY SelectFacts DEF TelemetrySpecInit, TelemetryInit, DetectionInit
<1>2. NodeTypes
  BY NodeTypesInit
<1>3. ASSUME NEW s \in Session, NEW j \in 0 .. UpCap PROVE Hold[<<5, s, j>>] = <<>>
  <2>1. MaxBreaks \in Nat /\ MaxNodeStops \in Nat
    BY DetectionAssumption, TelemetryAssumption
  <2>2. s > opened
    BY <1>1, <2>1 DEF Session
  <2> QED BY <1>2, <2>2, LineEmpty
<1>4. ASSUME NEW k \in {1, 2, 3, 4, 6, 7, 8, 9} PROVE Hold[<<k, 0, 0>>] = <<>>
  BY <1>1, HoldNow, MessageFacts DEF HoldIs
<1>5. ASSUME NEW p \in Place PROVE Hold[p] = <<>>
  <2>1. CASE \E k \in {1, 2, 3, 4, 6, 7, 8, 9} : p = <<k, 0, 0>>
    BY <1>4, <2>1
  <2>2. CASE \E s \in Session, j \in 0 .. UpCap : p = <<5, s, j>>
    BY <1>3, <2>2
  <2> QED BY <2>1, <2>2, PlaceShape
<1>6. Spot(Hold) = {}
  <2>1. Len(<<>>) = 0 /\ 1 .. 0 = {}
    OBVIOUS
  <2> QED BY <1>5, <2>1 DEF Spot
<1>7. Content(Hold) = {}
  BY <1>6 DEF Content
<1>8. (1 .. Len(emitted)) \ (lost \cup dropped) = {}
  BY <1>1
<1> QED BY <1>1, <1>6, <1>7, <1>8 DEF AccountInv, Once, InOrder

\* Every collected event is at one spot or ended; in the first session none is
\* behind a later one.
THEOREM AccountInvariant == TelemetrySpec => []AccountInv
<1>1. TelemetrySpecInit => AccountInv
  BY AccountInit
<1>2. NodeTypes /\ NodeTypes' /\ AccountInv /\ [TelemetryNext]_nodeVars => AccountInv'
  BY AccountInvStep
<1> QED BY <1>1, <1>2, NodeTypesInvariant, PTL DEF TelemetrySpec

LEMMA AccountInvAccounted == NodeTypes /\ AccountInv => TelemetryAccounted
<1> SUFFICES ASSUME NodeTypes, AccountInv PROVE TelemetryAccounted
  OBVIOUS
<1>1. Hold \in Boxes /\ \A p \in Place : Hold[p] = Holding(p)
  BY HoldBoxes DEF Hold
<1>2. ASSUME NEW p \in Place
      PROVE  /\ DOMAIN Holding(p) = 1 .. Len(Holding(p))
             /\ \A i \in DOMAIN Holding(p) : i \in Nat /\ Holding(p)[i] \in Int
  <2>1. Holding(p) \in Seq(Int)
    BY <1>1 DEF Boxes
  <2> QED BY <2>1
<1>3. ASSUME NEW p \in Place, NEW i \in DOMAIN Holding(p), Holding(p)[i] > 0
      PROVE  <<p, i>> \in Spot(Hold) /\ In(Hold, <<p, i>>) = Holding(p)[i]
  <2>1. i \in Nat /\ i \in 1 .. Len(Hold[p]) /\ Hold[p][i] = Holding(p)[i]
    BY <1>1, <1>2
  <2>2. <<p, i>>[1] = p /\ <<p, i>>[2] = i
    OBVIOUS
  <2> QED BY <1>3, <2>1, <2>2 DEF Spot, In
<1>4. {n \in UNION {Range(Holding(p)) : p \in Place} : n > 0} = Content(Hold)
  <2>1. ASSUME NEW p \in Place, NEW n \in Range(Holding(p)), n > 0 PROVE n \in Content(Hold)
    <3>1. PICK i \in DOMAIN Holding(p) : n = Holding(p)[i]
      BY DEF Range
    <3> QED BY <1>3, <2>1, <3>1 DEF Content
  <2>2. ASSUME NEW x \in Spot(Hold)
        PROVE  In(Hold, x) > 0 /\ \E p \in Place : In(Hold, x) \in Range(Holding(p))
    <3>1. x[1] \in Place /\ x[2] \in 1 .. Len(Hold[x[1]]) /\ In(Hold, x) > 0
      BY DEF Spot, In
    <3>2. x[2] \in DOMAIN Holding(x[1]) /\ In(Hold, x) = Holding(x[1])[x[2]]
      BY <1>1, <1>2, <3>1 DEF In
    <3> QED BY <3>1, <3>2 DEF Range
  <2> QED BY <2>1, <2>2 DEF Content
<1>5. DOMAIN emitted = 1 .. Len(emitted)
  BY DEF NodeTypes, AgentTypes
<1>6. ASSUME NEW p \in Place, NEW q \in Place, NEW i \in DOMAIN Holding(p), NEW j \in DOMAIN Holding(q),
             Holding(p)[i] > 0, Holding(p)[i] = Holding(q)[j]
      PROVE  p = q /\ i = j
  <2>1. /\ <<p, i>> \in Spot(Hold) /\ In(Hold, <<p, i>>) = Holding(p)[i]
        /\ <<q, j>> \in Spot(Hold) /\ In(Hold, <<q, j>>) = Holding(q)[j]
    BY <1>3, <1>6
  <2>2. <<p, i>> = <<q, j>>
    BY <1>6, <2>1 DEF AccountInv, Once
  <2> QED BY <2>2
<1>7. ASSUME opened <= 1, NEW p \in Place, NEW q \in Place, NEW i \in DOMAIN Holding(p), NEW j \in DOMAIN Holding(q),
             Holding(p)[i] > 0, Holding(q)[j] > 0, Ahead(p, i, q, j)
      PROVE  Holding(p)[i] < Holding(q)[j]
  <2>1. /\ <<p, i>> \in Spot(Hold) /\ In(Hold, <<p, i>>) = Holding(p)[i]
        /\ <<q, j>> \in Spot(Hold) /\ In(Hold, <<q, j>>) = Holding(q)[j]
    BY <1>3, <1>7
  <2>2. SpotAhead(<<p, i>>, <<q, j>>)
    BY <1>7 DEF SpotAhead
  <2>3. In(Hold, <<p, i>>) < In(Hold, <<q, j>>)
    BY <1>7, <2>1, <2>2 DEF AccountInv, InOrder
  <2> QED BY <2>1, <2>3
<1>8. {n \in UNION {Range(Holding(p)) : p \in Place} : n > 0} = DOMAIN emitted \ (lost \cup dropped)
  BY <1>4, <1>5 DEF AccountInv
<1> QED BY <1>6, <1>7, <1>8 DEF TelemetryAccounted

\* Whatever breaks, crashes or is restarted: every event that a collector
\* produced is in one place between the host and the hot index, or ended with a
\* session or with the node, and none overtakes another in the first session.
THEOREM TelemetryAlways == TelemetrySpec => []TelemetryAccounted
BY NodeTypesInvariant, AccountInvariant, AccountInvAccounted, PTL


---------------------------------------------------------------------------
(* The alerts and the index                                                *)
(*                                                                         *)
(* The argument: an event that is yet to be taken up has no alert and is   *)
(* not in the index, since an agent's event is in one place and an input's *)
(* event comes in one frame.  So the alerts that `detect` finds for it are *)
(* its first, they are stored one by one before the event is indexed, and  *)
(* what is stored later is of other events.                                *)

Shown == Range(hot) \cup Range(fresh)
Alerted == {stored[i].event : i \in DOMAIN stored}

\* The events of the inputs that are yet to come: the rest q of a frame and the
\* frames r; each of them comes once.
Late(q, r) == Range(q) \cup UNION {Range(r[m].events) : m \in DOMAIN r}
LateOnce(q, r) ==
    /\ IsInjective(q) /\ \A m \in DOMAIN r : Range(q) \cap Range(r[m].events) = {}
    /\ \A m \in DOMAIN r : IsInjective(r[m].events)
    /\ \A m, n \in DOMAIN r : m # n => Range(r[m].events) \cap Range(r[n].events) = {}

\* An input sends the event without detection.
Plain(e) == \E frames \in Inputs : \E f \in Range(frames) : e \in Range(f.events) /\ ~f.sigma

InputInv ==
    /\ LateOnce(loop.rest, rx)
    /\ (Shown \cup Alerted) \cap Late(loop.rest, rx) = {}
    /\ loop.event \notin Late(loop.rest, rx)
    /\ loop.event < 0 => loop.event \notin Shown /\ (loop.pc = "detect" => loop.event \notin Alerted)
    /\ \A m \in DOMAIN rx : ~rx[m].sigma => \A e \in Range(rx[m].events) : Plain(e)
    /\ loop.event < 0 /\ ~loop.sigma => \A e \in {loop.event} \cup Range(loop.rest) : Plain(e)

\* What is still to be stored of the loop's alerts; the event's alerts in q are
\* those of its rules, each once.
Pending == IF loop.pc = "emit" THEN Tail(loop.alerts) ELSE loop.alerts
AlertedOnce(q, e) ==
    \A r \in Range(Kept(e)) \cup Range(Detected(e)) :
        \E i \in DOMAIN q : \A j \in DOMAIN q : q[j] = Alert(e, r) <=> j = i

AlertInv ==
    /\ \A i \in DOMAIN loop.alerts : loop.alerts[i].event = loop.event /\ loop.alerts[i].rule \notin Suppressed
    /\ \A i \in DOMAIN stored : stored[i].rule \notin Suppressed
    /\ \A e \in Alerted : e > 0 => e \in Shown \cup dropped \/ (loop.pc \in {"push", "emit", "index"} /\ e = loop.event)
    /\ loop.pc \in {"push", "emit", "index"} /\ loop.sigma => AlertedOnce(stored \o Pending, loop.event)
    /\ SigmaActive => \A e \in Shown : Plain(e) \/ AlertedOnce(stored, e)

LEMMA LateNegative ==
    ASSUME NEW q \in Seq(InputEvent), NEW r \in Seq(Frame)
    PROVE  \A e \in Late(q, r) : e \in Int /\ e < 0
<1>1. \A e \in Range(q) : e \in InputEvent
  BY DEF Range
<1>2. ASSUME NEW m \in DOMAIN r PROVE \A e \in Range(r[m].events) : e \in InputEvent
  <2>1. r[m] \in Frame
    OBVIOUS
  <2>2. r[m].events \in Seq(InputEvent)
    BY <2>1 DEF Frame, InputEvent
  <2> QED BY <2>2 DEF Range
<1>3. \A e \in Late(q, r) : e \in InputEvent
  BY <1>1, <1>2 DEF Late
<1> QED BY <1>3 DEF InputEvent

\* A frame is taken up, and an event of it.
LEMMA LateFrame ==
    ASSUME NEW r \in Seq(Frame), r # <<>>, LateOnce(<<>>, r)
    PROVE  LateOnce(Head(r).events, Tail(r)) /\ Late(Head(r).events, Tail(r)) \subseteq Late(<<>>, r)
<1> DEFINE h == Head(r)
           t == Tail(r)
<1>1. h = r[1] /\ 1 \in DOMAIN r /\ t \in Seq(Frame) /\ Len(t) = Len(r) - 1 /\ \A i \in 1 .. Len(t) : t[i] = r[i + 1]
  BY HeadTailProperties
<1>2. \A i \in DOMAIN t : i + 1 \in DOMAIN r /\ i + 1 # 1 /\ t[i] = r[i + 1] /\ i \in Int
  <2>1. DOMAIN t = 1 .. Len(t) /\ DOMAIN r = 1 .. Len(r) /\ Len(r) \in Nat
    BY <1>1
  <2> HIDE DEF t
  <2> QED BY <1>1, <2>1
<1> HIDE DEF h, t
<1>3. IsInjective(h.events) /\ \A m \in DOMAIN t : Range(h.events) \cap Range(t[m].events) = {} /\ IsInjective(t[m].events)
  BY <1>1, <1>2 DEF LateOnce
<1>4. ASSUME NEW m \in DOMAIN t, NEW n \in DOMAIN t, m # n PROVE Range(t[m].events) \cap Range(t[n].events) = {}
  <2>1. m + 1 # n + 1
    BY <1>2, <1>4
  <2> QED BY <1>2, <2>1 DEF LateOnce
<1>5. Late(h.events, t) \subseteq Late(<<>>, r)
  BY <1>1, <1>2 DEF Late
<1> QED BY <1>3, <1>4, <1>5 DEF LateOnce, h, t

LEMMA LateEvent ==
    ASSUME NEW q \in Seq(InputEvent), q # <<>>, NEW r, LateOnce(q, r)
    PROVE  /\ LateOnce(Tail(q), r) /\ Late(Tail(q), r) \subseteq Late(q, r)
           /\ Head(q) \in Late(q, r) /\ Head(q) \notin Late(Tail(q), r)
<1> DEFINE h == Head(q)
           t == Tail(q)
<1>1. h = q[1] /\ 1 \in DOMAIN q /\ t \in Seq(InputEvent) /\ Len(t) = Len(q) - 1 /\ \A i \in 1 .. Len(t) : t[i] = q[i + 1]
  BY HeadTailProperties
<1>2. \A i \in DOMAIN t : i + 1 \in DOMAIN q /\ i + 1 # 1 /\ t[i] = q[i + 1] /\ i \in Int
  <2>1. DOMAIN t = 1 .. Len(t) /\ DOMAIN q = 1 .. Len(q) /\ Len(q) \in Nat
    BY <1>1
  <2> HIDE DEF t
  <2> QED BY <1>1, <2>1
<1> HIDE DEF h, t
<1>3. IsInjective(t)
  <2> SUFFICES ASSUME NEW i \in DOMAIN t, NEW j \in DOMAIN t, t[i] = t[j] PROVE i = j
    BY DEF IsInjective
  <2>1. i + 1 = j + 1
    BY <1>2 DEF LateOnce, IsInjective
  <2> QED BY <1>2, <2>1
<1>4. Range(t) \subseteq Range(q) /\ h \in Range(q) /\ h \notin Range(t)
  <2>1. Range(t) \subseteq Range(q) /\ h \in Range(q)
    BY <1>1, <1>2 DEF Range
  <2>2. ASSUME NEW i \in DOMAIN t, t[i] = h PROVE FALSE
    BY <1>1, <1>2, <2>2 DEF LateOnce, IsInjective
  <2> QED BY <2>1, <2>2 DEF Range
<1>5. \A m \in DOMAIN r : h \notin Range(r[m].events) /\ Range(t) \cap Range(r[m].events) = {}
  BY <1>4 DEF LateOnce
<1>6. LateOnce(t, r)
  BY <1>3, <1>5 DEF LateOnce
<1>7. Late(t, r) \subseteq Late(q, r) /\ h \in Late(q, r) /\ h \notin Late(t, r)
  BY <1>4, <1>5 DEF Late
<1> QED BY <1>6, <1>7 DEF h, t

\* The loop goes on to the next event of a frame, or to none.
LEMMA InputNext ==
    ASSUME LoopTypes', NEW l \in LoopRec, l.alerts = <<>>, NEW q \in Seq(InputEvent), loop' = NextEvent(l, q),
           LateOnce(q, rx'), (Shown \cup Alerted)' \cap Late(q, rx') = {},
           \A m \in DOMAIN rx' : ~rx'[m].sigma => \A e \in Range(rx'[m].events) : Plain(e),
           ~l.sigma => \A e \in Range(q) : Plain(e)
    PROVE  InputInv'
<1>1. rx' \in Seq(Frame)
  BY DEF LoopTypes
<1>2. CASE q = <<>>
  <2>1. loop' = Select
    BY <1>2, NextEventFacts
  <2>2. loop'.rest = <<>> /\ loop'.event = 0
    BY <2>1, SelectFacts
  <2>3. loop'.event \notin Late(loop'.rest, rx')
    <3>1. \A e \in Late(q, rx') : e < 0
      BY <1>1, LateNegative
    <3>2. ~(0 < 0)
      OBVIOUS
    <3> QED BY <1>2, <2>2, <3>1, <3>2
  <2> QED BY <1>2, <2>2, <2>3 DEF InputInv
<1>3. CASE q # <<>>
  <2>1. loop'.rest = Tail(q) /\ loop'.event = Head(q) /\ loop'.sigma = l.sigma
    BY <1>3, NextEventFacts
  <2>2. /\ LateOnce(Tail(q), rx') /\ Late(Tail(q), rx') \subseteq Late(q, rx')
        /\ Head(q) \in Late(q, rx') /\ Head(q) \notin Late(Tail(q), rx')
    BY <1>3, LateEvent
  <2>3. \A e \in {Head(q)} \cup Range(Tail(q)) : e \in Range(q)
    <3>1. Head(q) = q[1] /\ 1 \in DOMAIN q /\ DOMAIN q = 1 .. Len(q) /\ Len(q) \in Nat
      BY <1>3
    <3>2. Tail(q) \in Seq(InputEvent) /\ Len(Tail(q)) = Len(q) - 1 /\ \A i \in 1 .. Len(Tail(q)) : Tail(q)[i] = q[i + 1]
      BY <1>3, HeadTailProperties
    <3>3. DOMAIN Tail(q) = 1 .. Len(q) - 1
      BY <3>2
    <3>4. \A i \in 1 .. Len(q) - 1 : i + 1 \in DOMAIN q
      BY <3>1
    <3> QED BY <3>1, <3>2, <3>3, <3>4 DEF Range
  <2>4. (Shown \cup Alerted)' \cap Late(Tail(q), rx') = {} /\ Head(q) \notin (Shown \cup Alerted)'
    BY <2>2
  <2> QED BY <2>1, <2>2, <2>3, <2>4 DEF InputInv
<1> QED BY <1>2, <1>3


\* A step that takes nothing up: what is shown and alerted is what was, and the
\* loop is where it was or at the select.
LEMMA InputKept ==
    ASSUME LoopTypes', InputInv, rx' = rx, Shown' \subseteq Shown, Alerted' \subseteq Alerted \cup {loop.event},
           loop' = Select \/ (loop'.event = loop.event /\ loop'.rest = loop.rest /\ loop'.sigma = loop.sigma),
           loop'.pc # "detect" \/ (loop'.pc = loop.pc /\ Alerted' \subseteq Alerted)
    PROVE  InputInv'
<1>1. CASE loop'.event = loop.event /\ loop'.rest = loop.rest /\ loop'.sigma = loop.sigma
  <2>1. (Shown \cup Alerted)' \cap Late(loop.rest, rx) = {}
    BY DEF InputInv
  <2>2. loop.event < 0 => loop.event \notin Shown' /\ (loop'.pc = "detect" => loop.event \notin Alerted')
    BY DEF InputInv
  <2> QED BY <1>1, <2>1, <2>2 DEF InputInv
<1>2. CASE loop' = Select
  <2>1. loop'.rest = <<>> /\ loop'.event = 0 /\ ~(0 < 0) /\ <<>> \in Seq(InputEvent)
    BY <1>2, SelectFacts
  <2>2. rx \in Seq(Frame)
    BY DEF LoopTypes
  <2>3. Range(<<>>) = {} /\ IsInjective(<<>>)
    BY DEF Range, IsInjective
  <2>4. Late(<<>>, rx) \subseteq Late(loop.rest, rx) /\ LateOnce(<<>>, rx)
    BY <2>3 DEF Late, LateOnce, InputInv
  <2>5. \A e \in Late(<<>>, rx) : e < 0
    BY <2>1, <2>2, LateNegative, Zenon
  <2>6. 0 \notin Late(<<>>, rx)
    BY <2>1, <2>5
  <2>7. (Shown \cup Alerted)' \cap Late(<<>>, rx) = {}
    BY <2>4 DEF InputInv
  <2> QED BY <2>1, <2>4, <2>6, <2>7 DEF InputInv
<1> QED BY <1>1, <1>2

LEMMA SeqRanges ==
    /\ Range(<<>>) = {}
    /\ \A X, a, b : a \in Seq(X) /\ b \in Seq(X) => Range(a \o b) = Range(a) \cup Range(b)
    /\ \A X, a, e : a \in Seq(X) => Range(Append(a, e)) = Range(a) \cup {e}
<1>1. Range(<<>>) = {}
  BY DEF Range
<1>2. ASSUME NEW X, NEW a \in Seq(X), NEW b \in Seq(X) PROVE Range(a \o b) = Range(a) \cup Range(b)
  <2>1. /\ Len(a) \in Nat /\ Len(b) \in Nat /\ DOMAIN a = 1 .. Len(a) /\ DOMAIN b = 1 .. Len(b)
        /\ DOMAIN (a \o b) = 1 .. Len(a) + Len(b)
        /\ \A i \in 1 .. Len(a) + Len(b) : (a \o b)[i] = IF i <= Len(a) THEN a[i] ELSE b[i - Len(a)]
    BY ConcatProperties
  <2> DEFINE c == a \o b
  <2>2. ASSUME NEW i \in DOMAIN c PROVE c[i] \in Range(a) \cup Range(b)
    <3>1. CASE i <= Len(a)
      BY <2>1, <3>1 DEF Range
    <3>2. CASE ~(i <= Len(a))
      <4>1. i - Len(a) \in DOMAIN b /\ c[i] = b[i - Len(a)]
        BY <2>1, <3>2
      <4> QED BY <4>1 DEF Range
    <3> QED BY <3>1, <3>2
  <2>3. ASSUME NEW i \in DOMAIN a PROVE a[i] \in Range(c)
    <3>1. i \in DOMAIN c /\ c[i] = a[i]
      BY <2>1
    <3> QED BY <3>1 DEF Range
  <2>4. ASSUME NEW i \in DOMAIN b PROVE b[i] \in Range(c)
    <3>1. Len(a) + i \in DOMAIN c /\ c[Len(a) + i] = b[i]
      <4>1. Len(a) + i \in 1 .. Len(a) + Len(b) /\ ~(Len(a) + i <= Len(a)) /\ (Len(a) + i) - Len(a) = i
        BY <2>1
      <4> QED BY <2>1, <4>1
    <3> QED BY <3>1 DEF Range
  <2> HIDE DEF c
  <2>5. \A e \in Range(c) : e \in Range(a) \cup Range(b)
    BY <2>2 DEF Range
  <2>6. \A e \in Range(a) \cup Range(b) : e \in Range(c)
    BY <2>3, <2>4 DEF Range
  <2>7. Range(c) = Range(a) \cup Range(b)
    BY <2>5, <2>6
  <2> QED BY <2>7 DEF c
<1>3. ASSUME NEW X, NEW a \in Seq(X), NEW e PROVE Range(Append(a, e)) = Range(a) \cup {e}
  <2> DEFINE c == Append(a, e)
  <2>1. a \in Seq(X \cup {e})
    OBVIOUS
  <2>2. /\ Len(a) \in Nat /\ DOMAIN a = 1 .. Len(a) /\ DOMAIN c = 1 .. Len(a) + 1 /\ c[Len(a) + 1] = e
        /\ \A i \in 1 .. Len(a) : c[i] = a[i]
    <3>1. e \in X \cup {e}
      OBVIOUS
    <3>2. c \in Seq(X \cup {e}) /\ Len(c) = Len(a) + 1 /\ c[Len(a) + 1] = e /\ \A i \in 1 .. Len(a) : c[i] = a[i]
      BY <2>1, <3>1, AppendProperties
    <3> HIDE DEF c
    <3> QED BY <2>1, <3>2
  <2> HIDE DEF c
  <2>3. \A i \in 1 .. Len(a) + 1 : i \in 1 .. Len(a) \/ i = Len(a) + 1
    BY <2>2
  <2>4. Len(a) + 1 \in 1 .. Len(a) + 1 /\ \A i \in 1 .. Len(a) : i \in 1 .. Len(a) + 1
    BY <2>2
  <2>5. Range(c) = Range(a) \cup {e}
    BY <2>2, <2>3, <2>4 DEF Range
  <2> QED BY <2>5 DEF c
<1> QED BY <1>1, <1>2, <1>3


\* The loop's event is not in the index, and when it is to be detected on it
\* has no alert.
LEMMA Unmet ==
    ASSUME NodeTypes, AccountInv, InputInv, AlertInv, loop.pc # "select"
    PROVE  loop.event \notin Shown /\ (loop.pc = "detect" => loop.event \notin Alerted)
<1> DEFINE e == loop.event
<1>1. e \in AgentEvent \cup InputEvent
  BY DEF NodeTypes, LoopTypes, LoopShape
<1>2. CASE e \in InputEvent
  BY <1>2 DEF InputInv, InputEvent
<1>3. CASE e \in AgentEvent
  <2>1. e \in Int /\ e > 0
    BY <1>3 DEF AgentEvent
  <2>2. Hold[<<3, 0, 0>>] = <<e>> /\ Hold[<<1, 0, 0>>] = hot /\ Hold[<<2, 0, 0>>] = fresh
    BY HoldNow DEF HoldIs
  <2>3. <<1, 0, 0>> \in Place /\ <<2, 0, 0>> \in Place /\ <<3, 0, 0>> \in Place
    BY PlaceShape
  <2>4. hot \in Seq(Int) /\ fresh \in Seq(Int)
    BY DEF NodeTypes, LoopTypes
  <2> DEFINE x == <<<<3, 0, 0>>, 1>>
  <2>5. x \in Spot(Hold) /\ In(Hold, x) = e
    <3>1. Len(<<e>>) = 1 /\ <<e>>[1] = e /\ 1 \in 1 .. 1 /\ 1 \in Nat
      OBVIOUS
    <3> QED BY <2>1, <2>2, <2>3, <3>1 DEF Spot, In
  <2> HIDE DEF e
  <2>6. ASSUME NEW p \in Place, p # <<3, 0, 0>>, Hold[p] \in Seq(Int), e \in Range(Hold[p]) PROVE FALSE
    <3>1. PICK i \in DOMAIN Hold[p] : Hold[p][i] = e
      BY <2>6 DEF Range
    <3>2. i \in Nat /\ i \in 1 .. Len(Hold[p])
      BY <2>6
    <3>3. <<p, i>> \in Spot(Hold) /\ In(Hold, <<p, i>>) = e
      BY <2>1, <3>1, <3>2 DEF Spot, In
    <3>4. x = <<p, i>>
      BY <2>5, <3>3 DEF AccountInv, Once
    <3> QED BY <2>6, <3>4
  <2>7. e \notin Shown
    <3>1. <<1, 0, 0>> # <<3, 0, 0>> /\ <<2, 0, 0>> # <<3, 0, 0>>
      OBVIOUS
    <3> QED BY <2>2, <2>3, <2>4, <2>6, <3>1 DEF Shown
  <2>8. e \notin dropped
    <3>1. e \in Content(Hold)
      BY <2>5 DEF Content
    <3> QED BY <3>1 DEF AccountInv
  <2>9. loop.pc = "detect" => e \notin Alerted
    BY <2>1, <2>7, <2>8 DEF AlertInv
  <2> QED BY <2>7, <2>9 DEF e
<1> QED BY <1>1, <1>2, <1>3

\* Steps that store no alert and take nothing up.
LEMMA AlertKept ==
    ASSUME AlertInv, stored' = stored, Shown' \subseteq Shown, Shown \cup dropped \subseteq (Shown \cup dropped)',
           loop' = loop \/ (loop' = Select /\ (loop.pc # "select" => loop.event \in dropped'))
    PROVE  AlertInv'
<1>1. Alerted' = Alerted
  BY DEF Alerted
<1>2. \A i \in DOMAIN stored' : stored'[i].rule \notin Suppressed
  BY DEF AlertInv
<1>3. SigmaActive => \A e \in Shown' : Plain(e) \/ AlertedOnce(stored', e)
  BY DEF AlertInv
<1>4. CASE loop' = loop
  <2>1. Pending' = Pending
    BY <1>4 DEF Pending
  <2>2. \A e \in Alerted' : e > 0 => e \in (Shown \cup dropped)' \/ (loop.pc \in {"push", "emit", "index"} /\ e = loop.event)
    BY <1>1 DEF AlertInv
  <2>3. loop'.pc \in {"push", "emit", "index"} /\ loop'.sigma => AlertedOnce(stored' \o Pending', loop'.event)
    BY <1>4, <2>1 DEF AlertInv
  <2>4. \A i \in DOMAIN loop'.alerts : loop'.alerts[i].event = loop'.event /\ loop'.alerts[i].rule \notin Suppressed
    BY <1>4 DEF AlertInv
  <2> QED BY <1>2, <1>3, <1>4, <2>2, <2>3, <2>4 DEF AlertInv
<1>5. CASE loop' = Select /\ (loop.pc # "select" => loop.event \in dropped')
  <2>1. loop'.pc = "select" /\ loop'.alerts = <<>>
    BY <1>5, SelectFacts
  <2>2. \A e \in Alerted' : e > 0 => e \in (Shown \cup dropped)'
    BY <1>1, <1>5 DEF AlertInv
  <2>3. \A i \in DOMAIN loop'.alerts : FALSE
    BY <2>1
  <2> QED BY <1>2, <1>3, <2>1, <2>2, <2>3 DEF AlertInv
<1> QED BY <1>4, <1>5

\* The loop goes on to another event; the one it leaves has its alerts.
LEMMA AlertNext ==
    ASSUME AlertInv, stored' = stored, Shown \subseteq Shown', dropped' = dropped, loop.pc \notin {"push", "emit"},
           loop.pc = "index" /\ loop.event > 0 => loop.event \in Shown',
           SigmaActive => \A e \in Shown' : e \in Shown \/ Plain(e) \/ AlertedOnce(stored, e),
           loop'.alerts = <<>>, loop'.pc \in {"select", "detect"} \/ (loop'.pc = "index" /\ ~loop'.sigma)
    PROVE  AlertInv'
<1>1. Alerted' = Alerted
  BY DEF Alerted
<1>2. \A i \in DOMAIN stored' : stored'[i].rule \notin Suppressed
  BY DEF AlertInv
<1>3. SigmaActive => \A e \in Shown' : Plain(e) \/ AlertedOnce(stored', e)
  BY DEF AlertInv
<1>4. \A e \in Alerted' : e > 0 => e \in (Shown \cup dropped)'
  BY <1>1 DEF AlertInv
<1>5. \A i \in DOMAIN loop'.alerts : FALSE
  OBVIOUS
<1>6. ~(loop'.pc \in {"push", "emit", "index"} /\ loop'.sigma)
  OBVIOUS
<1> QED BY <1>2, <1>3, <1>4, <1>5, <1>6 DEF AlertInv

\* What is in one of two lists, and once there, is once in their concatenation
\* with something else between them.
OnceIn(q, r) == \E i \in 1 .. Len(q) : \A j \in 1 .. Len(q) : q[j] = r <=> j = i
Among(S, k, f, d, r) ==
    /\ k \in Seq(S) /\ f \in Seq(S) /\ d \in Seq(S) /\ IsInjective(k) /\ IsInjective(d)
    /\ Range(k) \cap Range(d) = {} /\ r \in Range(k) \cup Range(d) /\ \A i \in 1 .. Len(f) : f[i] # r

LEMMA OnceAmong ==
    ASSUME NEW S, NEW k, NEW f, NEW d, NEW r, Among(S, k, f, d, r)
    PROVE  OnceIn(k \o f \o d, r)
<1>0. /\ k \in Seq(S) /\ f \in Seq(S) /\ d \in Seq(S) /\ IsInjective(k) /\ IsInjective(d)
      /\ Range(k) \cap Range(d) = {} /\ r \in Range(k) \cup Range(d) /\ \A i \in 1 .. Len(f) : f[i] # r
  BY DEF Among
<1> USE <1>0
<1> DEFINE m == k \o f
           w == m \o d
           a == Len(k)
           b == Len(k) + Len(f)
           c == b + Len(d)
<1>1. a \in Nat /\ Len(f) \in Nat /\ Len(d) \in Nat /\ DOMAIN k = 1 .. a /\ DOMAIN d = 1 .. Len(d)
  OBVIOUS
<1>2. m \in Seq(S) /\ Len(m) = b /\ \A i \in 1 .. b : m[i] = IF i <= a THEN k[i] ELSE f[i - a]
  BY ConcatProperties
<1> HIDE DEF m
<1>3. Len(w) = c /\ \A i \in 1 .. c : w[i] = IF i <= b THEN m[i] ELSE d[i - b]
  <2>1. Len(m \o d) = Len(m) + Len(d)
        /\ \A i \in 1 .. Len(m) + Len(d) : (m \o d)[i] = IF i <= Len(m) THEN m[i] ELSE d[i - Len(m)]
    <3>1. m \in Seq(S)
      BY <1>2
    <3> QED BY <3>1, ConcatProperties
  <2>2. Len(m) = b
    BY <1>2
  <2> HIDE DEF b
  <2> QED BY <2>1, <2>2
<1> HIDE DEF w
<1>4. \A i \in 1 .. a : i \in 1 .. c /\ w[i] = k[i]
  <2> SUFFICES ASSUME NEW i \in 1 .. a PROVE i \in 1 .. c /\ w[i] = k[i]
    OBVIOUS
  <2>1. i \in 1 .. b /\ i \in 1 .. c /\ i <= a /\ i <= b
    BY <1>1
  <2> QED BY <1>2, <1>3, <2>1
<1>5. \A i \in a + 1 .. b : w[i] # r
  <2> SUFFICES ASSUME NEW i \in a + 1 .. b PROVE w[i] # r
    OBVIOUS
  <2>1. i \in 1 .. b /\ i \in 1 .. c /\ ~(i <= a) /\ i <= b /\ i - a \in 1 .. Len(f)
    BY <1>1
  <2>2. w[i] = f[i - a]
    BY <1>2, <1>3, <2>1
  <2> QED BY <2>1, <2>2
<1>6. \A i \in b + 1 .. c : i - b \in 1 .. Len(d) /\ w[i] = d[i - b]
  <2> SUFFICES ASSUME NEW i \in b + 1 .. c PROVE i - b \in 1 .. Len(d) /\ w[i] = d[i - b]
    OBVIOUS
  <2>1. i \in 1 .. c /\ ~(i <= b) /\ i - b \in 1 .. Len(d)
    BY <1>1
  <2> QED BY <1>3, <2>1
<1>7. \A j \in 1 .. c : j \in 1 .. a \/ j \in a + 1 .. b \/ j \in b + 1 .. c
  BY <1>1
<1>8. \E i \in 1 .. c : \A j \in 1 .. c : w[j] = r <=> j = i
  <2>1. CASE r \in Range(k)
    <3>1. PICK i \in 1 .. a : k[i] = r
      BY <1>1, <2>1 DEF Range
    <3>2. \A j \in 1 .. Len(d) : d[j] # r
      BY <1>1, <2>1 DEF Range
    <3>3. \A j \in 1 .. a : k[j] = r => j = i
      BY <1>1, <3>1 DEF IsInjective
    <3>4. i \in 1 .. c /\ w[i] = r
      BY <1>4, <3>1
    <3>5. \A j \in 1 .. c : w[j] = r => j = i
      <4> HIDE DEF a, b, c
      <4> QED BY <1>4, <1>5, <1>6, <1>7, <3>2, <3>3
    <3> QED BY <3>4, <3>5
  <2>2. CASE r \in Range(d)
    <3>1. PICK n \in 1 .. Len(d) : d[n] = r
      BY <1>1, <2>2 DEF Range
    <3>2. \A j \in 1 .. a : k[j] # r
      BY <1>1, <2>2 DEF Range
    <3>3. \A j \in 1 .. Len(d) : d[j] = r => j = n
      BY <1>1, <3>1 DEF IsInjective
    <3>4. PICK i \in b + 1 .. c : i - b = n
      <4>1. b + n \in b + 1 .. c /\ (b + n) - b = n
        BY <1>1
      <4> QED BY <4>1
    <3>5. i \in 1 .. c /\ w[i] = r
      BY <1>1, <1>6, <3>1, <3>4
    <3>6. \A j \in b + 1 .. c : j - b = n => j = i
      BY <1>1, <3>4
    <3>7. \A j \in 1 .. c : w[j] = r => j = i
      <4> HIDE DEF a, b, c
      <4> QED BY <1>4, <1>5, <1>6, <1>7, <3>2, <3>3, <3>6
    <3> QED BY <3>5, <3>7
  <2> QED BY <2>1, <2>2
<1> QED BY <1>3, <1>8, SMTT(20) DEF w, m, OnceIn

\* An event's rules fire once each.
LEMMA AlertDetect ==
    ASSUME NodeTypes, AccountInv, InputInv, AlertInv, Detect
    PROVE  AlertInv'
<1> DEFINE e == loop.event
           a == loop'.alerts
<1>1. PICK fired \in {<<>>, <<Meta>>} :
               LET rules == Kept(loop.event) \o fired \o Detected(loop.event)
               IN  /\ rules \in Seq((Rule \cup {Meta}) \ Suppressed)
                   /\ loop'.alerts \in Seq(AlertRec)
                   /\ Len(loop'.alerts) = Len(rules)
                   /\ \A i \in 1 .. Len(rules) : loop'.alerts[i] = Alert(loop.event, rules[i])
                   /\ loop'.pc = (IF loop'.alerts = <<>> THEN "index" ELSE "push")
                   /\ loop' = [loop EXCEPT !.alerts = loop'.alerts, !.pc = loop'.pc]
                   /\ loop' \in LoopRec /\ LoopShape(loop')
  BY DetectFacts DEF NodeTypes
<1> DEFINE k == Kept(e)
           d == Detected(e)
           rules == k \o fired \o d
<1>2. /\ rules \in Seq((Rule \cup {Meta}) \ Suppressed) /\ a \in Seq(AlertRec) /\ Len(a) = Len(rules)
      /\ \A i \in 1 .. Len(rules) : a[i] = Alert(e, rules[i])
      /\ loop'.pc = (IF a = <<>> THEN "index" ELSE "push")
      /\ loop' = [loop EXCEPT !.alerts = loop'.alerts, !.pc = loop'.pc]
  BY <1>1
<1>3. loop'.event = e
  <2>1. loop \in LoopRec
    BY DEF NodeTypes, LoopTypes
  <2> QED BY <1>2, <2>1 DEF LoopRec
<1>4. loop.pc = "detect" /\ UNCHANGED <<stored, hot, fresh, dropped>>
  BY Zenon DEF Detect
<1>5. e \notin Alerted
  BY <1>4, Unmet
<1>6. stored \in Seq(AlertRec)
  BY DEF NodeTypes, LoopTypes
<1>7. /\ k \in Seq(Rule) /\ d \in Seq(Rule) /\ IsInjective(k) /\ IsInjective(d) /\ Range(k) \cap Range(d) = {}
      /\ Meta \notin Rule
  <2>1. /\ k \in Seq(Rule \ Suppressed) /\ d \in Seq(Rule \ Suppressed) /\ IsInjective(k) /\ IsInjective(d)
        /\ Range(k) \cap Range(d) = {} /\ Meta \notin Rule
    BY RulesFacts
  <2>2. \A q \in Seq(Rule \ Suppressed) : q \in Seq(Rule)
    OBVIOUS
  <2> QED BY <2>1, <2>2
<1> HIDE DEF k, d, e, a
<1>8. ASSUME NEW r \in Range(k) \cup Range(d) PROVE OnceIn(rules, r)
  <2> DEFINE S == Rule \cup {Meta}
  <2>1. k \in Seq(S) /\ d \in Seq(S)
    <3>1. \A q \in Seq(Rule) : q \in Seq(S)
      OBVIOUS
    <3> QED BY <1>7, <3>1
  <2>2. r \in Rule /\ r # Meta
    BY <1>7 DEF Range
  <2>3. fired \in Seq(S) /\ \A i \in 1 .. Len(fired) : fired[i] # r
    <3>1. <<>> \in Seq(S) /\ <<Meta>> \in Seq(S)
      OBVIOUS
    <3>2. (\A i \in 1 .. Len(<<>>) : <<>>[i] # r) /\ \A i \in 1 .. Len(<<Meta>>) : <<Meta>>[i] # r
      <4>1. 1 .. Len(<<>>) = {} /\ Len(<<Meta>>) = 1 /\ <<Meta>>[1] = Meta /\ \A i \in 1 .. 1 : i = 1
        OBVIOUS
      <4> QED BY <2>2, <4>1
    <3> QED BY <3>1, <3>2, Zenon
  <2> HIDE DEF S
  <2>4. IsInjective(k) /\ IsInjective(d) /\ Range(k) \cap Range(d) = {}
    BY <1>7
  <2>5. Among(S, k, fired, d, r)
    BY <2>1, <2>3, <2>4, Zenon DEF Among
  <2> QED BY <2>5, OnceAmong, Zenon
<1> HIDE DEF rules
<1>9. DOMAIN a = 1 .. Len(rules) /\ DOMAIN rules = 1 .. Len(rules) /\ Len(rules) \in Nat /\ Len(a) = Len(rules)
  BY <1>2
<1>10. AlertedOnce(stored \o a, e)
  <2> SUFFICES ASSUME NEW r \in Range(k) \cup Range(d)
               PROVE  \E i \in DOMAIN (stored \o a) : \A j \in DOMAIN (stored \o a) : (stored \o a)[j] = Alert(e, r) <=> j = i
    BY DEF AlertedOnce, k, d
  <2> DEFINE q == stored \o a
  <2>1. PICK n \in 1 .. Len(rules) : \A j \in 1 .. Len(rules) : rules[j] = r <=> j = n
    BY <1>8, Zenon DEF OnceIn
  <2>2. \A x, y : Alert(e, x) = Alert(e, y) <=> x = y
    BY DEF Alert
  <2>3. \A j \in 1 .. Len(rules) : a[j] = Alert(e, r) <=> j = n
    BY <1>2, <2>1, <2>2
  <2>4. \A j \in 1 .. Len(stored) : stored[j] # Alert(e, r)
    <3>1. Alert(e, r).event = e
      BY DEF Alert
    <3>2. DOMAIN stored = 1 .. Len(stored)
      BY <1>6
    <3> QED BY <1>5, <3>1, <3>2 DEF Alerted
  <2>5. /\ Len(stored) \in Nat /\ DOMAIN q = 1 .. Len(stored) + Len(rules)
        /\ \A i \in 1 .. Len(stored) + Len(rules) : q[i] = IF i <= Len(stored) THEN stored[i] ELSE a[i - Len(stored)]
    <3>1. a \in Seq(AlertRec)
      BY <1>2
    <3>2. Len(q) = Len(stored) + Len(a) /\ q \in Seq(AlertRec) /\ Len(stored) \in Nat
          /\ \A i \in 1 .. Len(stored) + Len(a) : q[i] = IF i <= Len(stored) THEN stored[i] ELSE a[i - Len(stored)]
      BY <1>6, <3>1, ConcatProperties
    <3> HIDE DEF q
    <3> QED BY <1>9, <3>2
  <2> HIDE DEF q
  <2> DEFINE i == Len(stored) + n
  <2>6. i \in DOMAIN q
    BY <1>9, <2>5
  <2>7. ASSUME NEW j \in DOMAIN q PROVE q[j] = Alert(e, r) <=> j = i
    <3>1. CASE j <= Len(stored)
      <4>1. j \in 1 .. Len(stored) /\ q[j] = stored[j] /\ j # i
        BY <1>9, <2>5, <3>1
      <4> QED BY <2>4, <4>1
    <3>2. CASE ~(j <= Len(stored))
      <4>1. j - Len(stored) \in 1 .. Len(rules) /\ q[j] = a[j - Len(stored)]
        BY <1>9, <2>5, <3>2
      <4>2. j - Len(stored) = n <=> j = i
        BY <1>9, <2>5
      <4> QED BY <2>3, <4>1, <4>2
    <3> QED BY <3>1, <3>2
  <2> HIDE DEF i
  <2> QED BY <2>6, <2>7 DEF q
<1>11. Pending' = a /\ stored' = stored /\ loop'.event = e
  BY <1>2, <1>3, <1>4 DEF Pending, a
<1>12. \A i \in DOMAIN loop'.alerts : loop'.alerts[i].event = loop'.event /\ loop'.alerts[i].rule \notin Suppressed
  <2>1. \A i \in 1 .. Len(rules) : rules[i] \notin Suppressed
    BY <1>2
  <2>2. \A r : Alert(e, r).event = e /\ Alert(e, r).rule = r
    BY DEF Alert
  <2>3. \A i \in DOMAIN a : a[i].event = e /\ a[i].rule \notin Suppressed
    BY <1>2, <1>9, <2>1, <2>2
  <2> QED BY <1>3, <2>3 DEF a
<1>13. Shown' = Shown /\ Alerted' = Alerted /\ dropped' = dropped
  BY <1>4 DEF Shown, Alerted
<1>14. \A x \in Alerted' : x > 0 => x \in (Shown \cup dropped)'
  BY <1>4, <1>13 DEF AlertInv
<1>15. AlertedOnce(stored' \o Pending', loop'.event)
  BY <1>10, <1>11
<1>16. (\A i \in DOMAIN stored' : stored'[i].rule \notin Suppressed) /\ (SigmaActive => \A x \in Shown' : Plain(x) \/ AlertedOnce(stored', x))
  BY <1>4, <1>13 DEF AlertInv
<1> QED BY <1>12, <1>14, <1>15, <1>16 DEF AlertInv


\* An alert is stored: it is of the loop's event, and of no event of the index.
LEMMA AlertPush ==
    ASSUME NodeTypes, AccountInv, InputInv, AlertInv, PushAlert
    PROVE  AlertInv' /\ Alerted' = Alerted \cup {loop.event}
<1> DEFINE e == loop.event
           a == loop.alerts
           h == Head(loop.alerts)
           t == Tail(loop.alerts)
<1>1. loop.pc = "push" /\ stored' = Append(stored, h) /\ loop' = AfterSink(0) /\ UNCHANGED <<hot, fresh, dropped>>
  BY DEF PushAlert
<1>2. stored \in Seq(AlertRec) /\ a \in Seq(AlertRec) /\ a # <<>> /\ Len(Sinks) \in Nat /\ LoopTypes
  BY <1>1, DetectionAssumption DEF NodeTypes, LoopTypes, LoopRec, LoopShape
<1>3. 0 \in 0 .. Len(Sinks)
  BY <1>2
<1>4. /\ loop'.event = e /\ loop'.sigma = loop.sigma /\ loop'.pc \in {"push", "emit", "index"}
      /\ \/ loop'.pc = "emit" /\ loop'.alerts = a
         \/ loop'.pc # "emit" /\ loop'.alerts = t
  BY <1>1, <1>2, <1>3, AfterSinkFacts
<1>5. /\ h = a[1] /\ h \in AlertRec /\ t \in Seq(AlertRec) /\ Len(t) = Len(a) - 1 /\ \A i \in 1 .. Len(t) : t[i] = a[i + 1]
      /\ a = <<h>> \o t /\ Len(a) \in Nat /\ Len(a) >= 1 /\ DOMAIN a = 1 .. Len(a) /\ 1 \in DOMAIN a
  <2>1. h = a[1] /\ h \in AlertRec /\ t \in Seq(AlertRec) /\ Len(t) = Len(a) - 1 /\ \A i \in 1 .. Len(t) : t[i] = a[i + 1]
    BY <1>2, HeadTailProperties
  <2>2. Len(a) \in Nat /\ Len(a) >= 1 /\ DOMAIN a = 1 .. Len(a)
    BY <1>2
  <2>3. a = <<h>> \o t
    BY <1>2
  <2> QED BY <2>1, <2>2, <2>3
<1>6. h.event = e /\ h.rule \notin Suppressed
  BY <1>5 DEF AlertInv
<1>7. Pending' = t
  BY <1>4 DEF Pending
<1>8. Pending = a /\ AlertedOnce(stored \o a, e)
  <2>1. Pending = a
    BY <1>1 DEF Pending
  <2>2. loop.sigma
    BY <1>1 DEF NodeTypes, LoopTypes, LoopShape
  <2> QED BY <1>1, <2>1, <2>2 DEF AlertInv
<1>9. \A i \in DOMAIN loop'.alerts : loop'.alerts[i].event = e /\ loop'.alerts[i].rule \notin Suppressed
  <2>1. \A i \in DOMAIN a : a[i].event = e /\ a[i].rule \notin Suppressed
    BY DEF AlertInv
  <2>2. \A i \in DOMAIN t : i + 1 \in DOMAIN a /\ t[i] = a[i + 1]
    <3>1. DOMAIN t = 1 .. Len(a) - 1
      BY <1>5
    <3> HIDE DEF t, a
    <3> QED BY <1>5, <3>1
  <2> HIDE DEF a, t, e
  <2> QED BY <1>4, <2>1, <2>2
<1>10. /\ Len(stored) \in Nat /\ DOMAIN stored = 1 .. Len(stored) /\ DOMAIN stored' = 1 .. Len(stored) + 1
       /\ stored'[Len(stored) + 1] = h /\ \A i \in 1 .. Len(stored) : stored'[i] = stored[i]
  <2> HIDE DEF h
  <2>1. stored' \in Seq(AlertRec) /\ Len(stored') = Len(stored) + 1
        /\ stored'[Len(stored) + 1] = h /\ \A i \in 1 .. Len(stored) : stored'[i] = stored[i]
    BY <1>1, <1>2, <1>5, AppendProperties
  <2> QED BY <1>2, <2>1
<1> HIDE DEF h, t, a, e
<1>11. stored' \o t = stored \o a
  <2>1. Append(stored, h) \o t = stored \o (<<h>> \o t)
    <3>1. Append(stored, h) = stored \o <<h>>
      BY <1>2, <1>5, AppendIsConcat
    <3>2. <<h>> \in Seq(AlertRec) /\ t \in Seq(AlertRec) /\ stored \in Seq(AlertRec)
      BY <1>2, <1>5
    <3>3. (stored \o <<h>>) \o t = stored \o (<<h>> \o t)
      BY <3>2, ConcatAssociative
    <3> QED BY <3>1, <3>3
  <2> QED BY <1>1, <1>5, <2>1
<1>12. \A i \in DOMAIN stored' : i \in DOMAIN stored \/ i = Len(stored) + 1
  BY <1>10
<1>13. \A i \in DOMAIN stored' : stored'[i].rule \notin Suppressed
  BY <1>6, <1>10, <1>12 DEF AlertInv
<1>14. Alerted' = Alerted \cup {e}
  <2>1. \A i \in DOMAIN stored' : stored'[i].event \in Alerted \cup {e}
    BY <1>6, <1>10, <1>12 DEF Alerted
  <2>2. \A i \in DOMAIN stored : i \in DOMAIN stored' /\ stored'[i].event = stored[i].event
    BY <1>10
  <2>3. Len(stored) + 1 \in DOMAIN stored' /\ stored'[Len(stored) + 1].event = e
    BY <1>6, <1>10
  <2> QED BY <2>1, <2>2, <2>3 DEF Alerted
<1>15. Shown' = Shown /\ e \notin Shown
  <2>1. loop.pc # "select"
    BY <1>1
  <2>2. e \notin Shown
    BY <2>1, Unmet DEF e
  <2> QED BY <1>1, <2>2 DEF Shown
<1>16. ASSUME NEW x \in Shown', AlertedOnce(stored, x) PROVE AlertedOnce(stored', x)
  <2> SUFFICES ASSUME NEW r \in Range(Kept(x)) \cup Range(Detected(x))
               PROVE  \E i \in DOMAIN stored' : \A j \in DOMAIN stored' : stored'[j] = Alert(x, r) <=> j = i
    BY DEF AlertedOnce
  <2>1. PICK i \in DOMAIN stored : \A j \in DOMAIN stored : stored[j] = Alert(x, r) <=> j = i
    BY <1>16 DEF AlertedOnce
  <2>2. h # Alert(x, r)
    <3>1. Alert(x, r).event = x
      BY DEF Alert
    <3> QED BY <1>6, <1>15, <3>1
  <2>3. i # Len(stored) + 1 /\ i \in DOMAIN stored'
    BY <1>10
  <2> QED BY <1>10, <1>12, <2>1, <2>2, <2>3
<1>17. SigmaActive => \A x \in Shown' : Plain(x) \/ AlertedOnce(stored', x)
  BY <1>15, <1>16 DEF AlertInv
<1>18. \A x \in Alerted' : x > 0 => x \in (Shown \cup dropped)' \/ x = e
  BY <1>1, <1>14, <1>15 DEF AlertInv, e
<1>19. AlertedOnce(stored' \o Pending', loop'.event)
  BY <1>4, <1>7, <1>8, <1>11
<1> QED BY <1>4, <1>9, <1>13, <1>14, <1>17, <1>18, <1>19 DEF AlertInv, e

LEMMA AlertEmit ==
    ASSUME NodeTypes, AlertInv, Emit
    PROVE  AlertInv'
<1> DEFINE e == loop.event
           a == loop.alerts
           t == Tail(loop.alerts)
           k == loop.sink
<1>1. loop.pc = "emit" /\ loop' = AfterSink(k) /\ UNCHANGED <<stored, hot, fresh, dropped>>
  BY DEF Emit
<1>2. a \in Seq(AlertRec) /\ a # <<>> /\ Len(Sinks) \in Nat /\ LoopTypes /\ k \in 1 .. Len(Sinks)
  BY <1>1, DetectionAssumption DEF NodeTypes, LoopTypes, LoopRec, LoopShape
<1>3. k \in 0 .. Len(Sinks)
  BY <1>2
<1>4. /\ loop'.event = e /\ loop'.sigma = loop.sigma /\ loop'.pc \in {"push", "emit", "index"}
      /\ \/ loop'.pc = "emit" /\ loop'.alerts = a
         \/ loop'.pc # "emit" /\ loop'.alerts = t
  <2> HIDE DEF k
  <2> QED BY <1>1, <1>2, <1>3, AfterSinkFacts
<1>5. Pending' = t /\ Pending = t
  BY <1>1, <1>4 DEF Pending
<1>6. \A i \in DOMAIN loop'.alerts : loop'.alerts[i].event = e /\ loop'.alerts[i].rule \notin Suppressed
  <2>1. \A i \in DOMAIN a : a[i].event = e /\ a[i].rule \notin Suppressed
    BY DEF AlertInv
  <2>2. \A i \in DOMAIN t : i + 1 \in DOMAIN a /\ t[i] = a[i + 1]
    <3>1. t \in Seq(AlertRec) /\ Len(t) = Len(a) - 1 /\ (\A i \in 1 .. Len(t) : t[i] = a[i + 1]) /\ Len(a) \in Nat
          /\ DOMAIN a = 1 .. Len(a)
      BY <1>2, HeadTailProperties
    <3>2. DOMAIN t = 1 .. Len(a) - 1
      BY <3>1
    <3> HIDE DEF t, a
    <3> QED BY <3>1, <3>2
  <2> HIDE DEF a, t, e
  <2> QED BY <1>4, <2>1, <2>2
<1>7. Shown' = Shown /\ Alerted' = Alerted /\ stored' = stored /\ dropped' = dropped
  BY <1>1 DEF Shown, Alerted
<1>8. loop'.sigma => AlertedOnce(stored' \o Pending', loop'.event)
  BY <1>1, <1>4, <1>5, <1>7 DEF AlertInv
<1>9. \A x \in Alerted' : x > 0 => x \in (Shown \cup dropped)' \/ x = loop'.event
  BY <1>4, <1>7 DEF AlertInv
<1>10. /\ \A i \in DOMAIN stored' : stored'[i].rule \notin Suppressed
       /\ SigmaActive => \A x \in Shown' : Plain(x) \/ AlertedOnce(stored', x)
  BY <1>7 DEF AlertInv
<1> QED BY <1>4, <1>6, <1>8, <1>9, <1>10 DEF AlertInv


DetectInv == InputInv /\ AlertInv

\* The steps that keep the loop where it is, or end it.
LEMMA DetectKept ==
    ASSUME NodeTypes, NodeTypes', DetectInv, UNCHANGED <<rx, loop, stored, hot, fresh>>, dropped \subseteq dropped'
    PROVE  DetectInv'
<1>1. Shown' = Shown /\ Alerted' = Alerted
  BY DEF Shown, Alerted
<1>2. InputInv'
  BY <1>1, InputKept DEF DetectInv, NodeTypes
<1>3. AlertInv'
  BY <1>1, AlertKept DEF DetectInv
<1> QED BY <1>2, <1>3 DEF DetectInv

LEMMA DetectFinish ==
    ASSUME NodeTypes, NodeTypes', DetectInv, UNCHANGED <<rx, loop, stored>>, hot' = hot \o fresh, fresh' = <<>>,
           dropped \subseteq dropped'
    PROVE  DetectInv'
<1>1. hot \in Seq(Int) /\ fresh \in Seq(Int)
  BY DEF NodeTypes, LoopTypes
<1>2. Shown' = Shown /\ Alerted' = Alerted
  <2>1. Range(hot') = Range(hot) \cup Range(fresh) /\ Range(fresh') = {}
    BY <1>1, SeqRanges
  <2> QED BY <2>1 DEF Shown, Alerted
<1>3. InputInv'
  BY <1>2, InputKept DEF DetectInv, NodeTypes
<1>4. AlertInv'
  BY <1>2, AlertKept DEF DetectInv
<1> QED BY <1>3, <1>4 DEF DetectInv

LEMMA DetectCrash ==
    ASSUME NodeTypes, NodeTypes', DetectInv, NodeCrash
    PROVE  DetectInv'
<1>1. loop' = Select /\ fresh' = <<>> /\ dropped' = dropped \cup Held /\ UNCHANGED <<rx, stored, hot>>
  BY DEF NodeCrash
<1>2. Range(fresh') = {}
  BY <1>1, SeqRanges
<1>3. Shown' = Range(hot) /\ Alerted' = Alerted
  BY <1>1, <1>2 DEF Shown, Alerted
<1>4. Range(fresh) \subseteq Held /\ (loop.pc # "select" => loop.event \in Held)
  BY DEF Held
<1>5. Shown' \subseteq Shown /\ Shown \cup dropped \subseteq (Shown \cup dropped)' /\ (loop.pc # "select" => loop.event \in dropped')
  BY <1>1, <1>3, <1>4 DEF Shown
<1>6. loop'.pc # "detect"
  BY <1>1, SelectFacts
<1>7. InputInv'
  BY <1>1, <1>3, <1>5, <1>6, InputKept DEF DetectInv, NodeTypes
<1>8. AlertInv'
  BY <1>1, <1>5, AlertKept DEF DetectInv
<1> QED BY <1>7, <1>8 DEF DetectInv

LEMMA DetectTakeFrame ==
    ASSUME NodeTypes, NodeTypes', DetectInv, TakeFrame
    PROVE  DetectInv'
<1> DEFINE l == [Select EXCEPT !.sigma = Head(rx).sigma, !.index = Head(rx).index]
           q == Head(rx).events
<1>1. /\ loop.pc = "select" /\ rx # <<>> /\ rx' = Tail(rx) /\ loop' = NextEvent(l, q)
      /\ UNCHANGED <<stored, hot, fresh, dropped>>
  BY DEF TakeFrame
<1>2. l \in LoopRec /\ l.alerts = <<>> /\ q \in Seq(InputEvent) /\ l.sigma = Head(rx).sigma
  BY <1>1, FrameFacts DEF NodeTypes
<1>3. loop.rest = <<>> /\ rx \in Seq(Frame)
  BY <1>1, SelectFacts DEF NodeTypes, LoopTypes, LoopShape
<1>4. Shown' = Shown /\ Alerted' = Alerted
  BY <1>1 DEF Shown, Alerted
<1>5. LateOnce(q, rx') /\ (Shown \cup Alerted)' \cap Late(q, rx') = {}
  <2>1. LateOnce(q, rx') /\ Late(q, rx') \subseteq Late(<<>>, rx)
    BY <1>1, <1>3, LateFrame DEF DetectInv, InputInv
  <2> QED BY <1>3, <1>4, <2>1 DEF DetectInv, InputInv
<1>6. /\ \A m \in DOMAIN rx' : ~rx'[m].sigma => \A e \in Range(rx'[m].events) : Plain(e)
      /\ ~Head(rx).sigma => \A e \in Range(q) : Plain(e)
  <2> DEFINE t == Tail(rx)
  <2>1. Head(rx) = rx[1] /\ 1 \in DOMAIN rx /\ t \in Seq(Frame) /\ Len(t) = Len(rx) - 1 /\ \A i \in 1 .. Len(t) : t[i] = rx[i + 1]
    BY <1>1, <1>3, HeadTailProperties
  <2>2. DOMAIN t = 1 .. Len(t) /\ DOMAIN rx = 1 .. Len(rx) /\ Len(rx) \in Nat
    BY <1>3, <2>1
  <2>3. rx' = t
    BY <1>1
  <2> HIDE DEF t
  <2>4. \A i \in DOMAIN t : i + 1 \in DOMAIN rx /\ t[i] = rx[i + 1]
    BY <2>1, <2>2
  <2> QED BY <2>1, <2>3, <2>4 DEF DetectInv, InputInv
<1> HIDE DEF l, q
<1>7. ~l.sigma => \A e \in Range(q) : Plain(e)
  BY <1>2, <1>6
<1>8. InputInv'
  <2>1. LoopTypes'
    BY DEF NodeTypes
  <2> QED BY <1>1, <1>2, <1>5, <1>6, <1>7, <2>1, InputNext
<1>9. loop'.alerts = <<>> /\ (loop'.pc \in {"select", "detect"} \/ (loop'.pc = "index" /\ ~loop'.sigma))
  BY <1>1, <1>2, NextEventFacts, SelectFacts
<1>10. AlertInv'
  BY <1>1, <1>4, <1>9, AlertNext DEF DetectInv
<1> QED BY <1>8, <1>10 DEF DetectInv

LEMMA DetectTakeEvent ==
    ASSUME NodeTypes, NodeTypes', DetectInv, TakeEvent
    PROVE  DetectInv'
<1>1. loop.pc = "select" /\ UNCHANGED <<rx, stored, hot, fresh, dropped>>
  BY DEF TakeEvent
<1>2. /\ loop'.event \in AgentEvent /\ loop'.pc = (IF SigmaActive THEN "detect" ELSE "index")
      /\ loop'.alerts = <<>> /\ loop'.rest = <<>> /\ LoopShape(loop')
  BY TakenEventFacts DEF NodeTypes
<1>3. loop'.event \in Int /\ loop'.event > 0 /\ ~(loop'.event < 0) /\ loop'.sigma = SigmaActive
  <2>1. loop'.sigma = SigmaActive
    BY <1>2 DEF LoopShape
  <2> QED BY <1>2, <2>1 DEF AgentEvent
<1>4. loop.rest = <<>> /\ rx \in Seq(Frame)
  BY <1>1, SelectFacts DEF NodeTypes, LoopTypes, LoopShape
<1>5. Shown' = Shown /\ Alerted' = Alerted
  BY <1>1 DEF Shown, Alerted
<1>6. loop'.event \notin Late(<<>>, rx)
  <2>1. <<>> \in Seq(InputEvent)
    OBVIOUS
  <2>2. \A e \in Late(<<>>, rx) : e < 0
    BY <1>4, <2>1, LateNegative, Zenon
  <2> QED BY <1>3, <2>2
<1>7. InputInv'
  BY <1>1, <1>2, <1>3, <1>4, <1>5, <1>6 DEF DetectInv, InputInv
<1>8. loop'.pc = "detect" \/ (loop'.pc = "index" /\ ~loop'.sigma)
  BY <1>2, <1>3
<1>9. AlertInv'
  BY <1>1, <1>2, <1>5, <1>8, AlertNext DEF DetectInv
<1> QED BY <1>7, <1>9 DEF DetectInv

LEMMA DetectIndex ==
    ASSUME NodeTypes, NodeTypes', DetectInv, IndexAdd
    PROVE  DetectInv'
<1> DEFINE e == loop.event
<1>1. /\ loop.pc = "index" /\ fresh' = (IF loop.index THEN Append(fresh, e) ELSE fresh)
      /\ loop' = NextEvent(loop, loop.rest) /\ UNCHANGED <<rx, stored, hot, dropped>>
  BY DEF IndexAdd
<1>2. /\ loop \in LoopRec /\ loop.alerts = <<>> /\ loop.rest \in Seq(InputEvent) /\ fresh \in Seq(Int)
      /\ e \in AgentEvent \cup InputEvent /\ stored \in Seq(AlertRec)
      /\ e \in AgentEvent => loop.index /\ loop.rest = <<>> /\ loop.sigma = SigmaActive
  BY <1>1 DEF NodeTypes, LoopTypes, LoopRec, LoopShape
<1>3. Shown \subseteq Shown' /\ Shown' \subseteq Shown \cup {e} /\ (loop.index => e \in Shown') /\ Alerted' = Alerted
  <2>1. Range(Append(fresh, e)) = Range(fresh) \cup {e}
    BY <1>2, SeqRanges
  <2> QED BY <1>1, <2>1 DEF Shown, Alerted
<1>4. LateOnce(loop.rest, rx') /\ (Shown \cup Alerted)' \cap Late(loop.rest, rx') = {}
  BY <1>1, <1>3 DEF DetectInv, InputInv
<1>5. e \in InputEvent => e < 0
  BY DEF InputEvent
<1>6. ~loop.sigma => \A x \in Range(loop.rest) : Plain(x)
  <2>1. CASE e \in InputEvent
    BY <1>5, <2>1 DEF DetectInv, InputInv
  <2>2. CASE e \in AgentEvent
    BY <1>2, <2>2, SeqRanges
  <2> QED BY <1>2, <2>1, <2>2
<1>7. InputInv'
  <2>1. LoopTypes'
    BY DEF NodeTypes
  <2>2. \A m \in DOMAIN rx' : ~rx'[m].sigma => \A x \in Range(rx'[m].events) : Plain(x)
    BY <1>1 DEF DetectInv, InputInv
  <2> QED BY <1>1, <1>2, <1>4, <1>6, <2>1, <2>2, InputNext
<1>8. SigmaActive => Plain(e) \/ AlertedOnce(stored, e)
  <2>1. CASE loop.sigma
    <3>1. Pending = <<>>
      BY <1>1, <1>2 DEF Pending
    <3>2. stored \o <<>> = stored
      BY <1>2
    <3>3. AlertedOnce(stored \o Pending, e)
      BY <1>1, <2>1 DEF DetectInv, AlertInv
    <3> QED BY <3>1, <3>2, <3>3
  <2>2. CASE ~loop.sigma /\ e \in InputEvent
    BY <1>5, <2>2 DEF DetectInv, InputInv
  <2>3. CASE ~loop.sigma /\ e \in AgentEvent
    BY <1>2, <2>3
  <2> QED BY <1>2, <2>1, <2>2, <2>3
<1>9. e > 0 => e \in Shown'
  <2>1. e > 0 => e \in AgentEvent
    BY <1>2 DEF InputEvent
  <2> QED BY <1>2, <1>3, <2>1
<1>10. loop'.alerts = <<>> /\ (loop'.pc \in {"select", "detect"} \/ (loop'.pc = "index" /\ ~loop'.sigma))
  BY <1>1, <1>2, NextEventFacts, SelectFacts
<1>11. SigmaActive => \A x \in Shown' : x \in Shown \/ Plain(x) \/ AlertedOnce(stored, x)
  BY <1>3, <1>8
<1>12. AlertInv'
  BY <1>1, <1>3, <1>9, <1>10, <1>11, AlertNext DEF DetectInv
<1> QED BY <1>7, <1>12 DEF DetectInv

LEMMA DetectAlerts ==
    ASSUME NodeTypes, NodeTypes', AccountInv, DetectInv, Detect \/ PushAlert \/ Emit
    PROVE  DetectInv'
<1>1. loop \in LoopRec /\ LoopTypes /\ LoopTypes' /\ Len(Sinks) \in Nat
  BY DetectionAssumption DEF NodeTypes, LoopTypes
<1>2. CASE Detect
  <2>1. UNCHANGED <<rx, stored, hot, fresh>>
    BY <1>2, Zenon DEF Detect
  <2>2. /\ loop'.pc = (IF loop'.alerts = <<>> THEN "index" ELSE "push")
        /\ loop' = [loop EXCEPT !.alerts = loop'.alerts, !.pc = loop'.pc]
    BY <1>1, <1>2, DetectFacts, Zenon
  <2>3. loop'.pc # "detect" /\ loop'.event = loop.event /\ loop'.rest = loop.rest /\ loop'.sigma = loop.sigma
    BY <1>1, <2>2 DEF LoopRec
  <2>4. Shown' = Shown /\ Alerted' = Alerted
    BY <2>1 DEF Shown, Alerted
  <2>5. InputInv'
    BY <1>1, <2>1, <2>3, <2>4, InputKept DEF DetectInv
  <2>6. AlertInv'
    BY <1>2, AlertDetect DEF DetectInv
  <2> QED BY <2>5, <2>6 DEF DetectInv
<1>3. CASE PushAlert
  <2>1. loop.pc = "push" /\ loop' = AfterSink(0) /\ UNCHANGED <<rx, hot, fresh>>
    BY <1>3 DEF PushAlert
  <2>2. 0 \in 0 .. Len(Sinks)
    BY <1>1
  <2>3. loop'.pc # "detect" /\ loop'.event = loop.event /\ loop'.rest = loop.rest /\ loop'.sigma = loop.sigma
    BY <1>1, <2>1, <2>2, AfterSinkFacts
  <2>4. AlertInv' /\ Alerted' = Alerted \cup {loop.event} /\ Shown' = Shown
    BY <1>3, <2>1, AlertPush DEF DetectInv, Shown
  <2>5. InputInv'
    BY <1>1, <2>1, <2>3, <2>4, InputKept DEF DetectInv
  <2> QED BY <2>4, <2>5 DEF DetectInv
<1>4. CASE Emit
  <2>1. loop.pc = "emit" /\ loop' = AfterSink(loop.sink) /\ UNCHANGED <<rx, stored, hot, fresh>>
    BY <1>4 DEF Emit
  <2>2. loop.sink \in 0 .. Len(Sinks)
    <3>1. loop.sink \in 1 .. Len(Sinks)
      BY <1>1, <2>1 DEF LoopTypes, LoopShape
    <3> QED BY <1>1, <3>1
  <2>3. loop'.pc # "detect" /\ loop'.event = loop.event /\ loop'.rest = loop.rest /\ loop'.sigma = loop.sigma
    BY <1>1, <2>1, <2>2, AfterSinkFacts
  <2>4. Shown' = Shown /\ Alerted' = Alerted
    BY <2>1 DEF Shown, Alerted
  <2>5. InputInv'
    BY <1>1, <2>1, <2>3, <2>4, InputKept DEF DetectInv
  <2>6. AlertInv'
    BY <1>4, AlertEmit DEF DetectInv
  <2> QED BY <2>5, <2>6 DEF DetectInv
<1> QED BY <1>2, <1>3, <1>4

LEMMA DetectInvStep == ASSUME NodeTypes, NodeTypes', AccountInv, DetectInv, [TelemetryNext]_nodeVars PROVE DetectInv'
<1>1. CASE CollectorStep \/ SessionStep \/ StreamStep
  <2>1. UNCHANGED <<rx, loop, stored, hot, fresh, dropped>>
    BY <1>1 DEF CollectorStep, SessionStep, StreamStep, loopVars
  <2> QED BY <2>1, DetectKept
<1>2. ASSUME NEW s \in Session, GatewayHandsOn(s) PROVE DetectInv'
  <2>1. UNCHANGED <<rx, loop, stored, hot, fresh, dropped>>
    BY <1>2 DEF GatewayHandsOn
  <2> QED BY <2>1, DetectKept
<1>3. CASE CtrlC
  <2>1. UNCHANGED <<rx, loop, stored>> /\ hot' = hot \o fresh /\ fresh' = <<>> /\ dropped \subseteq dropped'
    BY <1>3 DEF CtrlC, Finish
  <2> QED BY <2>1, DetectFinish
<1>4. CASE NodeCrash
  BY <1>4, DetectCrash
<1>5. CASE RunStep
  <2>1. CASE TakeFrame \/ TakeEvent \/ IndexAdd
    BY <2>1, DetectTakeFrame, DetectTakeEvent, DetectIndex
  <2>2. CASE CommitHot
    <3>1. UNCHANGED <<rx, loop, stored, dropped>> /\ hot' = hot \o fresh /\ fresh' = <<>>
      BY <2>2 DEF CommitHot
    <3> QED BY <3>1, DetectFinish
  <2>3. CASE Detect \/ PushAlert \/ Emit
    BY <2>3, DetectAlerts
  <2>4. CASE NodeStart
    <3>1. UNCHANGED <<rx, loop, stored, hot, fresh, dropped>>
      BY <2>4 DEF NodeStart
    <3> QED BY <3>1, DetectKept
  <2>5. CASE Drained
    <3>1. UNCHANGED <<rx, loop, stored>>
      BY <2>5 DEF Drained
    <3>2. CASE ServesLong
      <4>1. UNCHANGED <<hot, fresh, dropped>>
        BY <2>5, <3>2 DEF Drained
      <4> QED BY <3>1, <4>1, DetectKept
    <3>3. CASE ~ServesLong
      <4>1. hot' = hot \o fresh /\ fresh' = <<>> /\ dropped \subseteq dropped'
        BY <2>5, <3>3 DEF Drained, Finish
      <4> QED BY <3>1, <4>1, DetectFinish
    <3> QED BY <3>2, <3>3
  <2> QED BY <1>5, <2>1, <2>2, <2>3, <2>4, <2>5 DEF RunStep
<1>6. CASE UNCHANGED <<telemetryVars, loopVars>>
  <2>1. UNCHANGED <<rx, loop, stored, hot, fresh, dropped>>
    BY <1>6 DEF loopVars
  <2> QED BY <2>1, DetectKept
<1> QED BY <1>1, <1>2, <1>3, <1>4, <1>5, <1>6, StepCases

LEMMA DetectInit == TelemetrySpecInit => DetectInv
<1> SUFFICES ASSUME TelemetrySpecInit PROVE DetectInv
  OBVIOUS
<1>1. rx \in Inputs /\ loop = Select /\ stored = <<>> /\ hot = <<>> /\ fresh = <<>>
  BY DEF TelemetrySpecInit, DetectionInit
<1>2. loop.pc = "select" /\ loop.alerts = <<>> /\ loop.rest = <<>> /\ loop.event = 0
  BY <1>1, SelectFacts
<1>3. /\ rx \in Seq(Frame)
      /\ \A m, n \in DOMAIN rx : \A i \in DOMAIN rx[m].events, j \in DOMAIN rx[n].events :
             rx[m].events[i] = rx[n].events[j] => m = n /\ i = j
  BY <1>1, DetectionAssumption
<1>4. Shown = {} /\ Alerted = {} /\ Range(<<>>) = {} /\ IsInjective(<<>>)
  BY <1>1 DEF Shown, Alerted, Range, IsInjective
<1>5. LateOnce(<<>>, rx)
  <2>1. \A m \in DOMAIN rx : IsInjective(rx[m].events)
    BY <1>3 DEF IsInjective
  <2>2. \A m, n \in DOMAIN rx : m # n => Range(rx[m].events) \cap Range(rx[n].events) = {}
    BY <1>3 DEF Range
  <2> QED BY <1>4, <2>1, <2>2 DEF LateOnce
<1>6. 0 \notin Late(<<>>, rx)
  <2>1. <<>> \in Seq(InputEvent) /\ ~(0 < 0)
    OBVIOUS
  <2>2. \A e \in Late(<<>>, rx) : e < 0
    BY <1>3, <2>1, LateNegative, Zenon
  <2> QED BY <2>1, <2>2
<1>7. \A m \in DOMAIN rx : ~rx[m].sigma => \A e \in Range(rx[m].events) : Plain(e)
  <2>1. \A m \in DOMAIN rx : rx[m] \in Range(rx)
    BY DEF Range
  <2> QED BY <1>1, <2>1 DEF Plain
<1>8. InputInv
  BY <1>2, <1>4, <1>5, <1>6, <1>7 DEF InputInv
<1>9. AlertInv
  BY <1>1, <1>2, <1>4 DEF AlertInv
<1> QED BY <1>8, <1>9 DEF DetectInv

\* What is yet to be taken up has no alert and is not in the index; the loop's
\* event has its alerts, stored or pending; what is in the index has them
\* stored, once each.
THEOREM DetectInvariant == TelemetrySpec => []DetectInv
<1>1. TelemetrySpecInit => DetectInv
  BY DetectInit
<1>2. NodeTypes /\ NodeTypes' /\ AccountInv /\ DetectInv /\ [TelemetryNext]_nodeVars => DetectInv'
  BY DetectInvStep
<1> QED BY <1>1, <1>2, NodeTypesInvariant, AccountInvariant, PTL DEF TelemetrySpec

LEMMA DetectInvFirst == NodeTypes /\ DetectInv => DetectedFirst
<1> SUFFICES ASSUME NodeTypes, DetectInv PROVE DetectedFirst
  OBVIOUS
<1>1. hot \in Seq(Int) /\ fresh \in Seq(Int) /\ stored \in Seq(AlertRec)
  BY DEF NodeTypes, LoopTypes
<1>2. Range(hot \o fresh) = Shown
  BY <1>1, SeqRanges DEF Shown
<1>3. \A a \in Range(stored) : a.rule \notin Suppressed
  BY DEF DetectInv, AlertInv, Range
<1>4. ASSUME NEW e, AlertedOnce(stored, e), NEW r \in Range(Kept(e) \o Detected(e))
      PROVE  Cardinality({i \in DOMAIN stored : stored[i] = Alert(e, r)}) = 1
  <2>1. Kept(e) \in Seq(Rule \ Suppressed) /\ Detected(e) \in Seq(Rule \ Suppressed)
    BY RulesFacts
  <2>2. r \in Range(Kept(e)) \cup Range(Detected(e))
    BY <2>1, SeqRanges
  <2>3. PICK i \in DOMAIN stored : \A j \in DOMAIN stored : stored[j] = Alert(e, r) <=> j = i
    BY <1>4, <2>2 DEF AlertedOnce
  <2>4. {j \in DOMAIN stored : stored[j] = Alert(e, r)} = {i}
    BY <2>3
  <2>5. Cardinality({i}) = 1
    BY FS_Singleton
  <2> QED BY <2>4, <2>5
<1>5. SigmaActive => \A e \in Range(hot \o fresh) : Plain(e) \/ AlertedOnce(stored, e)
  BY <1>2 DEF DetectInv, AlertInv
<1> QED BY <1>3, <1>4, <1>5 DEF DetectedFirst, Plain

\* An event that can be found has been detected on, whatever the sinks answer
\* and whenever the node ends: its alerts are stored, each once, and those that
\* a correlation stands for are not.
THEOREM DetectedAlways == TelemetrySpec => []DetectedFirst
BY NodeTypesInvariant, DetectInvariant, DetectInvFirst, PTL
===========================================================================
