----------------------------- MODULE Detection -----------------------------
(***************************************************************************)
(* The node's run loop as detection sees it (sigil-cli run.rs): two        *)
(* channels, one of frames from the inputs and one of events from the EDR  *)
(* gateway, `detect` over each event, the alert store and the outputs      *)
(* (output.rs), and the hot index.  One task runs all of it: while a sink  *)
(* has not answered, nothing else of the loop happens, commit ticks and    *)
(* Ctrl-C included.                                                        *)
(*                                                                         *)
(* What the rules of an event are is Sigma's business: here Base and       *)
(* Custom say which fire, and whether a correlation fires with them is     *)
(* open.  An event is a number, and an event of the inputs one below zero. *)
(* The rollover and the cold tier are in module Pipeline.  A crash is the  *)
(* end of the process or an error that the loop returns with `?`.          *)
(***************************************************************************)
EXTENDS Integers, Sequences, FiniteSets, SequencesExt

CONSTANTS
    Base,           \* Base[e]: the rules the engine matches on event e, in order, if any
    Custom,         \* Custom[e]: the custom detectors that fire on it, if any
    Suppressed,     \* rules a correlation stands for (not `generate`)
    Meta,           \* the correlation rule
    Sinks,          \* the network sinks, in the order Outputs::new adds them
    Inputs,         \* what the inputs may send: sequences of frames [events, sigma, index]
    SigmaActive,    \* sigma_active
    ServesLong,     \* a query API or an EDR gateway keeps the loop alive
    MaxNodeStops    \* bound: ends of the node

\* The rules that alerts can be of, and what decode_normalize makes of a frame.
Rule == UNION ({Range(Base[e]) : e \in DOMAIN Base} \cup {Range(Custom[e]) : e \in DOMAIN Custom})
Frame == [events : Seq({e \in Int : e < 0}), sigma : BOOLEAN, index : BOOLEAN]

\* A rule, a sink and an event of the inputs is listed once; what a correlation
\* stands for are rules of the engine.
ASSUME DetectionAssumption ==
    /\ \A e \in DOMAIN Base : Base[e] \in Seq(Rule) /\ IsInjective(Base[e])
    /\ \A e \in DOMAIN Custom : Custom[e] \in Seq(Rule \ Suppressed) /\ IsInjective(Custom[e])
    /\ \A e \in DOMAIN Base \cap DOMAIN Custom : Range(Base[e]) \cap Range(Custom[e]) = {}
    /\ Meta \notin Rule \cup Suppressed
    /\ Sinks \in Seq(Range(Sinks)) /\ IsInjective(Sinks)
    /\ \A frames \in Inputs :
           /\ frames \in Seq(Frame)
           /\ \A m, n \in DOMAIN frames : \A i \in DOMAIN frames[m].events, j \in DOMAIN frames[n].events :
                  frames[m].events[i] = frames[n].events[j] => m = n /\ i = j
    /\ SigmaActive \in BOOLEAN /\ ServesLong \in BOOLEAN /\ MaxNodeStops \in Nat

VARIABLES
    node,       \* "up" or "down"
    rx,         \* frames in the channel and yet to be sent
    inputsOpen, \* inputs_open
    inbox,      \* ev_rx: events from the gateway
    loop,       \* what the loop is at
    stored,     \* the alert store: alerts in the order of store.push
    told,       \* told[s]: the alerts sink s was asked to take, in order
    filed,      \* the alerts of the file sink
    ticketed,   \* JiraSink.seen
    fresh, hot, \* events added to the hot index, and committed
    \* History, read by no guard:
    ends,       \* ends of the node
    dropped     \* events the node had taken when it ended

loopVars == <<node, rx, inputsOpen, inbox, loop, stored, told, filed, ticketed, fresh, hot, ends, dropped>>

\* Between two arms of the select.
Select == [pc |-> "select", event |-> 0, alerts |-> <<>>, sink |-> 0, index |-> FALSE, sigma |-> FALSE, rest |-> <<>>]

Alert(e, rule) == [rule |-> rule, event |-> e]

DetectionInit ==
    /\ node = "up" /\ rx \in Inputs /\ inputsOpen = TRUE /\ inbox = <<>> /\ loop = Select
    /\ stored = <<>> /\ told = [s \in Range(Sinks) |-> <<>>] /\ filed = <<>> /\ ticketed = {}
    /\ fresh = <<>> /\ hot = <<>> /\ ends \in {0, MaxNodeStops} /\ dropped = {}

---------------------------------------------------------------------------
(* The arms                                                                *)

\* The loop with the next event of the frame, or back at the select.
NextEvent(l, rest) ==
    IF rest = <<>> THEN Select
    ELSE [l EXCEPT !.pc = IF l.sigma THEN "detect" ELSE "index", !.event = Head(rest), !.rest = Tail(rest)]

\* rx.recv: decode_normalize makes events of the frame, or none.
TakeFrame ==
    /\ node = "up" /\ loop.pc = "select" /\ inputsOpen /\ rx # <<>>
    /\ rx' = Tail(rx)
    /\ loop' = NextEvent([Select EXCEPT !.sigma = Head(rx).sigma, !.index = Head(rx).index], Head(rx).events)
    /\ UNCHANGED <<node, inputsOpen, inbox, stored, told, filed, ticketed, fresh, hot, ends, dropped>>

\* ev_rx.recv: an event of an agent is always indexed.
TakeEvent ==
    /\ node = "up" /\ loop.pc = "select" /\ inbox # <<>>
    /\ inbox' = Tail(inbox)
    /\ loop' = NextEvent([Select EXCEPT !.sigma = SigmaActive, !.index = TRUE], <<Head(inbox)>>)
    /\ UNCHANGED <<node, rx, inputsOpen, stored, told, filed, ticketed, fresh, hot, ends, dropped>>

\* commit.tick, when something was added.
CommitHot ==
    /\ node = "up" /\ loop.pc = "select" /\ fresh # <<>>
    /\ hot' = hot \o fresh /\ fresh' = <<>>
    /\ UNCHANGED <<node, rx, inputsOpen, inbox, loop, stored, told, filed, ticketed, ends, dropped>>

\* The node ends in good order: the hot index is committed.
Finish ==
    /\ node' = "down"
    /\ hot' = hot \o fresh /\ fresh' = <<>>
    /\ dropped' = dropped \cup Range(inbox)
    /\ inbox' = <<>>

\* The inputs have ended and the channel is drained: a node that serves
\* nothing stops.
Drained ==
    /\ node = "up" /\ loop.pc = "select" /\ inputsOpen /\ rx = <<>>
    /\ inputsOpen' = FALSE
    /\ IF ServesLong THEN UNCHANGED <<node, hot, fresh, inbox, dropped>> ELSE Finish
    /\ UNCHANGED <<rx, loop, stored, told, filed, ticketed, ends>>

\* Ctrl-C, which the loop looks at between two arms.
CtrlC ==
    /\ node = "up" /\ loop.pc = "select" /\ ends < MaxNodeStops
    /\ ends' = ends + 1
    /\ Finish
    /\ UNCHANGED <<rx, inputsOpen, loop, stored, told, filed, ticketed>>

---------------------------------------------------------------------------
(* detect                                                                  *)

\* The elements of the sequence s at the positions I, in their order.
AtPositions(s, I) == [k \in 1 .. Cardinality(I) |-> s[CHOOSE i \in I : Cardinality({j \in I : j <= i}) = k]]

\* SigmaEngine::eval and DetectorChain::eval
Matched(e) == IF e \in DOMAIN Base THEN Base[e] ELSE <<>>
Detected(e) == IF e \in DOMAIN Custom THEN Custom[e] ELSE <<>>

\* Mutant: the alerts of a correlation's rules are kept beside it.
KeptAll(e) == Matched(e)

\* The base alerts that no correlation stands for.
Kept(e) == AtPositions(Matched(e), {i \in DOMAIN Matched(e) : Matched(e)[i] \notin Suppressed})

\* The engine, the correlations (which see every base alert) and the custom
\* detectors.
Detect ==
    /\ node = "up" /\ loop.pc = "detect"
    /\ \E fired \in IF Matched(loop.event) = <<>> THEN {<<>>} ELSE {<<>>, <<Meta>>} :
           LET rules == Kept(loop.event) \o fired \o Detected(loop.event)
               alerts == [i \in DOMAIN rules |-> Alert(loop.event, rules[i])]
           IN  loop' = [loop EXCEPT !.alerts = alerts, !.pc = IF alerts = <<>> THEN "index" ELSE "push"]
    /\ UNCHANGED <<node, rx, inputsOpen, inbox, stored, told, filed, ticketed, fresh, hot, ends, dropped>>

\* Mutant: the last sink's answer ends the event's alerts.
AfterSinkReturns(k) ==
    IF k < Len(Sinks) THEN [loop EXCEPT !.pc = "emit", !.sink = k + 1]
    ELSE [loop EXCEPT !.pc = "index", !.alerts = <<>>]

\* The loop after sink number k of the present alert: the next sink, the next
\* alert, or the event's indexing.
AfterSink(k) ==
    IF k < Len(Sinks) THEN [loop EXCEPT !.pc = "emit", !.sink = k + 1]
    ELSE IF Len(loop.alerts) > 1 THEN [loop EXCEPT !.pc = "push", !.alerts = Tail(@)]
    ELSE [loop EXCEPT !.pc = "index", !.alerts = <<>>]

\* store.push, then emit begins with the file sink, whose error is logged.
PushAlert ==
    /\ node = "up" /\ loop.pc = "push"
    /\ stored' = Append(stored, Head(loop.alerts))
    /\ filed' \in {filed, Append(filed, Head(loop.alerts))}
    /\ loop' = AfterSink(0)
    /\ UNCHANGED <<node, rx, inputsOpen, inbox, told, ticketed, fresh, hot, ends, dropped>>

\* Mutant: every alert becomes a ticket.
FirstForRuleNot(s, rule) == TRUE

\* JiraSink::first_for_rule; the other sinks take every alert.
FirstForRule(s, rule) == s = "jira" => rule \notin ticketed

\* A sink is asked to take the alert and answers or fails, which is logged and
\* changes nothing; Jira notes the rule before it asks, and asks once per rule.
Emit ==
    LET s == Sinks[loop.sink] alert == Head(loop.alerts)
    IN  /\ node = "up" /\ loop.pc = "emit"
        /\ told' = IF FirstForRule(s, alert.rule) THEN [told EXCEPT ![s] = Append(@, alert)] ELSE told
        /\ ticketed' = IF s = "jira" THEN ticketed \cup {alert.rule} ELSE ticketed
        /\ loop' = AfterSink(loop.sink)
        /\ UNCHANGED <<node, rx, inputsOpen, inbox, stored, filed, fresh, hot, ends, dropped>>

\* index.add, if the input is routed to the index, then the frame's next event.
IndexAdd ==
    /\ node = "up" /\ loop.pc = "index"
    /\ fresh' = IF loop.index THEN Append(fresh, loop.event) ELSE fresh
    /\ loop' = NextEvent(loop, loop.rest)
    /\ UNCHANGED <<node, rx, inputsOpen, inbox, stored, told, filed, ticketed, hot, ends, dropped>>

---------------------------------------------------------------------------
(* The life of the node                                                    *)

\* What the loop holds of the channel of events.
Held == Range(fresh) \cup Range(inbox) \cup (IF loop.pc = "select" THEN {} ELSE {loop.event})

\* The process ends, or the index fails and the loop returns the error.
NodeCrash ==
    /\ node = "up" /\ ends < MaxNodeStops
    /\ ends' = ends + 1
    /\ node' = "down" /\ loop' = Select /\ inbox' = <<>> /\ fresh' = <<>>
    /\ dropped' = dropped \cup Held
    /\ UNCHANGED <<rx, inputsOpen, stored, told, filed, ticketed, hot>>

\* A node that was stopped is started again: Jira's memory is new.
NodeStart ==
    /\ node = "down" /\ ServesLong
    /\ node' = "up" /\ ticketed' = {} /\ inputsOpen' = TRUE
    /\ UNCHANGED <<rx, inbox, loop, stored, told, filed, fresh, hot, ends, dropped>>

---------------------------------------------------------------------------
(* Properties                                                              *)

\* Where the first alert of each rule is.
Firsts(alerts) == {i \in DOMAIN alerts : \A j \in 1 .. i - 1 : alerts[j].rule # alerts[i].rule}

\* Between two arms, on a node that has not crashed, every network sink was
\* asked once for every alert that was stored, in their order, whichever other
\* sinks failed; Jira for the first of each rule.  The alerts of the file sink
\* are some of them, in their order.
SinksTold ==
    loop.pc = "select" /\ ends = 0 =>
        /\ \A s \in Range(Sinks) \ {"jira"} : told[s] = stored
        /\ "jira" \in Range(Sinks) => told["jira"] = AtPositions(stored, Firsts(stored))
        /\ \E I \in SUBSET DOMAIN stored : filed = AtPositions(stored, I)

\* An event that can be found has been detected on: its alerts are stored, the
\* base alerts that a correlation stands for are not, and none twice.  So a
\* crash can leave an alert whose event is not indexed, never the reverse.
DetectedFirst ==
    /\ SigmaActive =>
        \A e \in Range(hot \o fresh) :
            (\E frames \in Inputs : \E f \in Range(frames) : e \in Range(f.events) /\ ~f.sigma) \/
            \A r \in Range(Kept(e) \o Detected(e)) : Cardinality({i \in DOMAIN stored : stored[i] = Alert(e, r)}) = 1
    /\ \A a \in Range(stored) : a.rule \notin Suppressed
============================================================================
