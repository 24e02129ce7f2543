------------------------------ MODULE MCNode ------------------------------
(***************************************************************************)
(* An agent with two processes and one persistence file, channels of one   *)
(* or two, one broken stream or one end of the node, and a run loop that   *)
(* also reads a frame of two events and one of none.                       *)
(***************************************************************************)
EXTENDS Telemetry

TheBase == [e \in {-8, -9} |-> IF e = -8 THEN <<"s", "r">> ELSE <<"r">>]
TheCustom == [e \in {1, -8} |-> <<"dga">>]
TheSinks == <<"webhook", "jira">>
TheInputs ==
    { <<>>,
      << [events |-> <<-8, -9>>, sigma |-> TRUE, index |-> TRUE],
         [events |-> <<>>, sigma |-> TRUE, index |-> TRUE],
         [events |-> <<-7>>, sigma |-> FALSE, index |-> TRUE] >> }

\* The inputs send frames to a node that may end, with a quiet agent; or the
\* host changes, and the node ends, or streams break under heartbeats: after two
\* changes with two of them, or after one with enough to fill both streams.
NodeInit ==
    /\ TelemetrySpecInit
    /\ \/ rx # <<>> /\ ends = 0 /\ changes = MaxChanges /\ beats = MaxBeats /\ breaks = MaxBreaks /\ procs = {}
       \/ rx = <<>> /\ ends = MaxNodeStops /\ changes = 0 /\ beats = 1 /\ breaks = 0
       \/ rx = <<>> /\ ends = MaxNodeStops /\ changes = 1 /\ beats = 0 /\ breaks = 0 /\ procs = {}
       \/ rx = <<>> /\ ends = 0 /\ changes = 0 /\ beats = MaxBeats /\ breaks = MaxBreaks /\ procs = {}
NodeSpec == NodeInit /\ [][TelemetryNext]_nodeVars /\ TelemetryFairness
===========================================================================
