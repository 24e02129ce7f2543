---------------------------- MODULE Correlation ----------------------------
(***************************************************************************)
(* Sigma correlation rules over the live alert stream: the sliding window  *)
(* of CorrelationEngine::process and the aggregate conditions of evaluate. *)
(*                                                                         *)
(* The rules of an engine do not see each other, so the model has one,     *)
(* chosen from a set when it starts.  An event is its time, the group its  *)
(* group-by fields give, the value of the counted field, and the base      *)
(* rules it matched, in the engine's order.  Events come in the order the  *)
(* run loop receives them, which is the order of their times only on a     *)
(* node without EDR agents (map::to_event keeps the agent's clock).  An    *)
(* event whose time is 0 gets the current time: times start at 1.          *)
(***************************************************************************)
EXTENDS Integers, Sequences, FiniteSets, SequencesExt

CONSTANTS
    RuleSet,        \* the correlation rules to choose from
    Group,          \* values of the group-by fields
    Value,          \* values of the counted field
    NoValue,        \* what an event without the counted field has
    Base,           \* base rules, as sequences of what one event can match
    MaxTime,        \* bound: event times
    MaxEvents       \* bound: events processed

ASSUME CorrelationAssumption ==
    /\ \A r \in RuleSet : /\ r.kind \in {"event_count", "value_count", "temporal", "temporal_ordered"}
                          /\ r.timespan \in Nat \ {0}
                          /\ r.rules # <<>>
                          /\ r.kind = "value_count" => r.field
                          /\ r.kind = "event_count" => r.condition # {}
    /\ MaxTime \in Nat /\ MaxEvents \in Nat

VARIABLES
    rule,       \* the compiled correlation
    engine,     \* the sliding window of each group, and the alerts fired
    seen,       \* events processed
    \* History, read by no guard:
    clock,      \* the latest event time so far
    late,       \* has an event come after one of a later time?
    stream,     \* the events that matched a referenced rule, as they came
    since,      \* since[g]: every entry of g since its last alert
    last        \* the last evaluation: what should have been looked at, and
                \* whether it fired

vars == <<rule, engine, seen, clock, late, stream, since, last>>

\* CorrelationEngine::new
Fresh == [window |-> [g \in Group |-> <<>>], alerts |-> <<>>]

Init ==
    /\ rule \in RuleSet
    /\ engine = Fresh
    /\ seen = 0 /\ clock = 0 /\ late = FALSE
    /\ stream = <<>>
    /\ since = [g \in Group |-> <<>>]
    /\ last = [ref |-> <<>>, fired |-> FALSE]

---------------------------------------------------------------------------
(* evaluate                                                                *)

\* Does n satisfy every comparison that is present?
Satisfied(cond, n) ==
    \A c \in cond : CASE c[1] = "gt"  -> n > c[2]
                      [] c[1] = "gte" -> n >= c[2]
                      [] c[1] = "lt"  -> n < c[2]
                      [] c[1] = "lte" -> n <= c[2]
                      [] c[1] = "eq"  -> n = c[2]

\* How many of the listed rules the window has met, in their order.
Wanted(w) ==
    FoldLeft(LAMBDA k, e : IF k < Len(rule.rules) /\ rule.rules[k + 1] = e.rule_id THEN k + 1 ELSE k,
             0, w)

Evaluate(w) ==
    CASE rule.kind = "event_count" -> Satisfied(rule.condition, Len(w))
      [] rule.kind = "value_count" ->
            Satisfied(rule.condition, Cardinality({w[i].value : i \in DOMAIN w} \ {NoValue}))
      [] rule.kind = "temporal" ->
            \A r \in Range(rule.rules) : \E i \in DOMAIN w : w[i].rule_id = r
      [] rule.kind = "temporal_ordered" -> Wanted(w) = Len(rule.rules)

---------------------------------------------------------------------------
(* process                                                                 *)

\* Mutant: the entry at the edge goes too.
EvictedEarly(w, t) ==
    LET old == {k \in 0 .. Len(w) : \A i \in 1 .. k : w[i].ts <= t - rule.timespan}
    IN  SubSeq(w, Cardinality(old), Len(w))

\* Entries leave from the front while they are older than the timespan.
Evicted(w, t) ==
    LET old == {k \in 0 .. Len(w) : \A i \in 1 .. k : w[i].ts < t - rule.timespan}
    IN  SubSeq(w, Cardinality(old), Len(w))

\* Mutant: the window stays after an alert.
ClearedNot(w) == w

\* After an alert the group's window is cleared.
Cleared(w) == <<>>

\* What an event adds to the window: one entry per matched base rule that the
\* correlation references.
Entries(t, g, v, matched) ==
    LET hits == SelectSeq(matched, LAMBDA r : r \in Range(rule.rules))
    IN  [i \in DOMAIN hits |->
            [ts |-> t, rule_id |-> hits[i], event |-> seen + 1, group |-> g,
             value |-> IF rule.field THEN v ELSE NoValue]]

\* The new entries of one event join their group's window, old ones leave,
\* and the rule fires if the window calls for it.
Processed(eng, new) ==
    LET g == new[1].group
        w == Evicted(eng.window[g] \o new, new[1].ts)
    IN  IF Evaluate(w)
          THEN [window |-> [eng.window EXCEPT ![g] = Cleared(w)], alerts |-> Append(eng.alerts, w)]
          ELSE [window |-> [eng.window EXCEPT ![g] = w], alerts |-> eng.alerts]

\* One event with its base alerts goes through the rule.
Process(t, g, v, matched) ==
    LET new == Entries(t, g, v, matched)
        fired == Processed(engine, new).alerts # engine.alerts
    IN  /\ seen < MaxEvents
        /\ seen' = seen + 1
        /\ clock' = IF t > clock THEN t ELSE clock
        /\ late' = (late \/ t < clock)
        /\ \/ /\ new = <<>>
              /\ UNCHANGED <<engine, stream, since, last>>
           \/ /\ new # <<>>
              /\ engine' = Processed(engine, new)
              /\ stream' = Append(stream, new)
              /\ since' = [since EXCEPT ![g] = IF fired THEN <<>> ELSE @ \o new]
              /\ last' = [ref |-> SelectSeq(since[g] \o new, LAMBDA e : e.ts >= t - rule.timespan),
                          fired |-> fired]
        /\ UNCHANGED rule

\* Mutant: the events are replayed as they came.
HuntedUnsorted == FoldLeft(Processed, Fresh, stream).alerts

\* retro_hunt: the same events through a fresh engine, in the order of their
\* times (the sort is stable: equal times keep the order they came in).
Hunted ==
    LET byTime == SortSeq(stream, LAMBDA a, b : a[1].ts * (MaxEvents + 1) + a[1].event
                                                < b[1].ts * (MaxEvents + 1) + b[1].event)
    IN  FoldLeft(Processed, Fresh, byTime).alerts

Next ==
    \E t \in 1 .. MaxTime, g \in Group, v \in Value \cup {NoValue}, matched \in Base : Process(t, g, v, matched)

Spec == Init /\ [][Next]_vars

---------------------------------------------------------------------------
(* Properties                                                              *)

\* What the rule's documentation asks of a set of matches: enough of them,
\* enough distinct values, every rule, every rule at increasing places.
Due(w) ==
    CASE rule.kind = "event_count" -> Satisfied(rule.condition, Len(w))
      [] rule.kind = "value_count" -> Satisfied(rule.condition, Cardinality({e.value : e \in Range(w)} \ {NoValue}))
      [] rule.kind = "temporal" -> Range(rule.rules) \subseteq {e.rule_id : e \in Range(w)}
      [] rule.kind = "temporal_ordered" ->
            \E f \in [DOMAIN rule.rules -> DOMAIN w] :
                /\ \A i \in DOMAIN rule.rules : w[f[i]].rule_id = rule.rules[i]
                /\ \A i, j \in DOMAIN rule.rules : i < j => f[i] < f[j]

\* As long as no event is late, a rule fires exactly when the group's matches
\* since its last alert that lie within the timespan call for it: eviction
\* from the front, clearing and the greedy match of the order lose nothing
\* and invent nothing.
FiresWhenDue == ~late /\ last.ref # <<>> => (last.fired <=> Due(last.ref))

\* "One burst yields one alert": no match is reported by two alerts of the
\* rule, and an alert is about one group only, late events or not.
OneBurst ==
    /\ \A i, j \in DOMAIN engine.alerts : i # j => Range(engine.alerts[i]) \cap Range(engine.alerts[j]) = {}
    /\ \A i \in DOMAIN engine.alerts : \A e, f \in Range(engine.alerts[i]) : e.group = f.group

\* The matches an alert is built from lie within one timespan: on the live
\* stream unless an event is late, in a retro-hunt always.
WithinTimespan ==
    \A a \in Range(Hunted) \cup (IF late THEN {} ELSE Range(engine.alerts)) :
        \A e, f \in Range(a) : e.ts - f.ts <= rule.timespan
============================================================================
