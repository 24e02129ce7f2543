---------------------------- MODULE SegmentStore ----------------------------
(***************************************************************************)
(* What the columnar store promises, without tiers, catalog or crashes: a  *)
(* set of segments whose data is there from the write until it expires,    *)
(* and a reader who is told everything of its window or gets an error.     *)
(***************************************************************************)
EXTENDS Integers

CONSTANTS MaxSegments, MaxTime, ColdAge

VARIABLES
    now,
    span,       \* span[s]: the times of the first and the last event of s
    data,       \* the segments whose events are kept somewhere
    returned,   \* the segments the writer was told are stored
    query       \* a reader's question, and its answer

storeVars == <<now, span, data, returned, query>>

Segments == 1 .. MaxSegments
Window == {w \in (0 .. MaxTime) \X (0 .. MaxTime) : w[1] <= w[2]}
Meets(s, w) == span[s][1] <= w[2] /\ span[s][2] >= w[1]
Over(s) == now - span[s][2] > ColdAge

NoQuery == [at |-> "none", window |-> <<0, 0>>, must |-> {}, answer |-> {}]

StoreInit ==
    /\ now = 0 /\ span = [s \in Segments |-> <<0, 0>>]
    /\ data = {} /\ returned = {} /\ query = NoQuery

Pass ==
    /\ now < MaxTime /\ now' = now + 1
    /\ UNCHANGED <<span, data, returned, query>>

Write(s, w) ==
    /\ s \notin data \cup returned
    /\ span' = [span EXCEPT ![s] = w]
    /\ data' = data \cup {s}
    /\ UNCHANGED <<now, returned, query>>

Return(s) ==
    /\ s \in data
    /\ returned' = returned \cup {s}
    /\ UNCHANGED <<now, span, data, query>>

\* Only what is older than the cold age goes, some of it at a time.
Expire(S) ==
    /\ S \subseteq data /\ \A s \in S : Over(s)
    /\ data' = data \ S
    /\ UNCHANGED <<now, span, returned, query>>

Ask(w) ==
    /\ query.at = "none"
    /\ query' = [at |-> "asked", window |-> w, must |-> {s \in returned : Meets(s, w)}, answer |-> {}]
    /\ UNCHANGED <<now, span, data, returned>>

\* Everything that had been returned when the question came and has not
\* expired meanwhile, and nothing outside the window.
Answer(R) ==
    /\ query.at = "asked"
    /\ \A s \in query.must : Over(s) \/ s \in R
    /\ \A s \in R : Meets(s, query.window)
    /\ query' = [at |-> "ok", window |-> query.window, must |-> query.must, answer |-> R]
    /\ UNCHANGED <<now, span, data, returned>>

Refuse ==
    /\ query.at \in {"none", "asked"}
    /\ query' = [NoQuery EXCEPT !.at = "err"]
    /\ UNCHANGED <<now, span, data, returned>>

StoreNext ==
    \/ Pass
    \/ \E s \in Segments, w \in Window : Write(s, w)
    \/ \E s \in Segments : Return(s)
    \/ \E S \in SUBSET Segments : Expire(S)
    \/ \E w \in Window : Ask(w)
    \/ \E R \in SUBSET Segments : Answer(R)
    \/ Refuse

StoreSpec == StoreInit /\ [][StoreNext]_storeVars
=============================================================================
