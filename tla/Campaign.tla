------------------------------ MODULE Campaign ------------------------------
(***************************************************************************)
(* From a batch of events to incidents: links by similarity and by shared  *)
(* entities, campaigns as the classes of a union-find (campaign.rs over    *)
(* sigil-graph and FlatVectorStore), the causal graph of a campaign        *)
(* (causal.rs), the kill chain a path selector picks in it (pathselect.rs, *)
(* sigil-correlate-rl) and the incident built on it (incident.rs).         *)
(*                                                                         *)
(* An event is its time in seconds, its OCSF class, its entities, the      *)
(* technique a rule gave it and its anomaly score; events are named by     *)
(* their position.  The embedder is outside: sim holds the cosine          *)
(* similarities.  Every score is an integer number of hundredths, rounded  *)
(* down.  The links are united in the order a HashMap yields them, any     *)
(* order: that loop is the state machine of this module.                   *)
(***************************************************************************)
EXTENDS Integers, Sequences, FiniteSets, SequencesExt, FiniteSetsExt

CONSTANTS
    NoEntity,       \* an absent host, actor or target
    TacticOf,       \* TacticOf[t]: the tactic of a technique the map knows
    ClassTactic,    \* ClassTactic[c]: the tactic an OCSF class suggests
    Cfg             \* CampaignConfig and CausalConfig: window, threshold, knn,
                    \* cross (domain), semantic, entity, beam

VARIABLES
    batch,      \* the events, in the order given, and their similarities
    parent,     \* Dsu: the parent of each event
    left        \* the links not united yet

campaignVars == <<batch, parent, left>>

---------------------------------------------------------------------------
(* sigil-graph and the vector store                                        *)

\* The entities of an event in the order host, actor, target.
Chain(e) == SelectSeq(<<e.host, e.actor, e.target>>, LAMBDA x : x # NoEntity)
Entities(e) == Range(Chain(e))

\* co_entity_events: who shares an entity with event i.
CoEntityEvents(evs, i) ==
    {j \in DOMAIN evs \ {i} : Entities(evs[j]) \cap Entities(evs[i]) # {}}

\* FlatVectorStore::knn: the k most similar, the first inserted among equals;
\* the query itself is among them.
Nearest(evs, sim, i, k) ==
    {j \in DOMAIN evs :
        Cardinality({m \in DOMAIN evs : sim[i][m] > sim[i][j] \/ (sim[i][m] = sim[i][j] /\ m < j)}) < k}

---------------------------------------------------------------------------
(* build_campaigns                                                         *)

Gap(a, b) == IF a.ts < b.ts THEN b.ts - a.ts ELSE a.ts - b.ts

\* The links `record` keeps: two events within the window that one of them
\* found among its nearest, or that share an entity.
Links(evs, sim) ==
    LET near(i) == IF Cfg.semantic
                     THEN {j \in Nearest(evs, sim, i, Cfg.knn + 1) : sim[i][j] >= Cfg.threshold} ELSE {}
        kin(i) == IF Cfg.entity THEN CoEntityEvents(evs, i) ELSE {}
    IN  {{i, j} : <<i, j>> \in {p \in (DOMAIN evs) \X (DOMAIN evs) :
                                    /\ p[1] # p[2]
                                    /\ Gap(evs[p[1]], evs[p[2]]) <= Cfg.window
                                    /\ p[2] \in near(p[1]) \cup kin(p[1])}}

\* Dsu::find: up to the root.
RECURSIVE Root(_, _)
Root(par, x) == IF par[x] = x THEN x ELSE Root(par, par[x])

\* The second loop of find: everything on the way points at the root.
RECURSIVE Way(_, _)
Way(par, x) == IF par[x] = x THEN {} ELSE {x} \cup Way(par, par[x])
Compressed(par, x) == [y \in DOMAIN par |-> IF y \in Way(par, x) THEN Root(par, x) ELSE par[y]]

\* Mutant: the event moves, and what hangs on it stays behind.
UnionMoves(par, a, b) ==
    LET p == Compressed(Compressed(par, a), b)
    IN  [p EXCEPT ![a] = Root(p, b)]

\* Dsu::union
Union(par, a, b) ==
    LET p == Compressed(Compressed(par, a), b)
    IN  [p EXCEPT ![Root(p, a)] = Root(p, b)]

CampaignInit(batches) ==
    /\ batch \in batches
    /\ parent = [i \in DOMAIN batch.events |-> i]
    /\ left = Links(batch.events, batch.sim)

\* One turn of the loop over the links.
Unite ==
    \E l \in left :
        /\ parent' = Union(parent, Min(l), Max(l))
        /\ left' = left \ {l}
        /\ UNCHANGED batch

Built == left = {}

Members(i) == {j \in DOMAIN parent : Root(parent, j) = Root(parent, i)}

Ascending(S, n) == SelectSeq([i \in 1 .. n |-> i], LAMBDA i : i \in S)

\* In the order of time (ids are ULIDs: ties are in the order of arrival).
ByTime(evs, S) ==
    SortSeq(Ascending(S, Len(evs)), LAMBDA i, j : evs[i].ts < evs[j].ts \/ (evs[i].ts = evs[j].ts /\ i < j))

Domains(evs, S) == {evs[i].class : i \in S}

\* The score of a candidate: domains, size, and how similar its links are.
Score(evs, sim, S) ==
    LET held == {l \in Links(evs, sim) : l \subseteq S}
        avg == IF held = {} THEN 0
               ELSE MapThenSumSet(LAMBDA l : sim[Min(l)][Max(l)], held) \div Cardinality(held)
    IN  100 * Cardinality(Domains(evs, S)) + 50 * (Cardinality(S) - 1) + (IF avg > 0 THEN avg ELSE 0)

\* The candidates: classes of two or more events, across domains if asked.
Candidates(evs, sim) ==
    LET groups == {Members(i) : i \in DOMAIN evs}
    IN  {[events |-> ByTime(evs, S), score |-> Score(evs, sim, S)] :
            S \in {S \in groups : /\ Cardinality(S) >= 2
                                  /\ Cfg.cross => Cardinality(Domains(evs, S)) >= 2}}

---------------------------------------------------------------------------
(* build_causal_graph: the nodes are positions in the time-ordered         *)
(* campaign c                                                              *)

\* tactic_for
Tactic(e) == IF e.technique \in DOMAIN TacticOf THEN TacticOf[e.technique] ELSE ClassTactic[e.class]

\* shared_entities
SharedEntities(a, b) == Entities(a) \cap Entities(b)

TemporalScore(dt) == 6000 \div (60 + dt)

\* Mutant: an edge wherever the times allow one.
EdgesUnlinked(evs, c) ==
    {<<i, j>> \in (DOMAIN c) \X (DOMAIN c) : i < j /\ evs[c[j]].ts - evs[c[i]].ts <= Cfg.window}

\* A later event within the window that shares an entity.
Edges(evs, c) ==
    {<<i, j>> \in (DOMAIN c) \X (DOMAIN c) :
        /\ i < j
        /\ evs[c[j]].ts - evs[c[i]].ts <= Cfg.window
        /\ SharedEntities(evs[c[i]], evs[c[j]]) # {}}

\* Causal score of an edge.
EdgeScore(evs, c, i, j) ==
    LET s == 45 + (25 * TemporalScore(evs[c[j]].ts - evs[c[i]].ts)) \div 100 + (30 * evs[c[j]].anomaly) \div 100
    IN  IF s > 100 THEN 100 ELSE s

NodeBonus(evs, c, i) == evs[c[i]].anomaly \div 10

---------------------------------------------------------------------------
(* Path selection                                                          *)

PathScore(evs, c, p) ==
    MapThenSumSet(LAMBDA k : NodeBonus(evs, c, p[k]), DOMAIN p)
    + MapThenSumSet(LAMBDA k : EdgeScore(evs, c, p[k], p[k + 1]), 1 .. Len(p) - 1)

\* The positions of a sequence of paths, best first and stable.
Ranked(evs, c, paths) ==
    SortSeq([i \in DOMAIN paths |-> i], LAMBDA i, j :
        LET si == PathScore(evs, c, paths[i]) sj == PathScore(evs, c, paths[j])
        IN  si > sj \/ (si = sj /\ i < j))

\* One round: every path of the beam by each edge that leaves its end.
Extended(evs, c, beam) ==
    FlattenSeq([k \in DOMAIN beam |->
        LET last == Last(beam[k])
            next == Ascending({j \in DOMAIN c : <<last, j>> \in Edges(evs, c)} \ Range(beam[k]), Len(c))
        IN  [m \in DOMAIN next |-> Append(beam[k], next[m])]])

\* The best so far gives way only to a better one.
Better(evs, c, best, p) == IF PathScore(evs, c, p) > PathScore(evs, c, best) THEN p ELSE best

RECURSIVE BeamSearch(_, _, _, _)
BeamSearch(evs, c, beam, best) ==
    LET cands == Extended(evs, c, beam)
        order == Ranked(evs, c, cands)
        kept == SubSeq(order, 1, IF Len(order) < Cfg.beam THEN Len(order) ELSE Cfg.beam)
    IN  IF cands = <<>> THEN best
        ELSE BeamSearch(evs, c, [k \in DOMAIN kept |-> cands[kept[k]]],
                        FoldLeft(LAMBDA b, p : Better(evs, c, b, p), best, cands))

\* BeamSearchSelector::select: every event starts a path, the last of the
\* best ones is the first answer.
SelectBeam(evs, c) ==
    LET starts == [i \in DOMAIN c |-> <<i>>]
        top == Max({PathScore(evs, c, starts[i]) : i \in DOMAIN c})
    IN  BeamSearch(evs, c, starts, starts[Max({i \in DOMAIN c : PathScore(evs, c, starts[i]) = top})])

\* RlPathSelector::rollout: from an event, the edge with the best score plus
\* half of what the best next edge gives.
RECURSIVE Rollout(_, _, _)
Rollout(evs, c, path) ==
    LET next == {j \in DOMAIN c : <<Last(path), j>> \in Edges(evs, c) /\ j \notin Range(path)}
        future(j) == Max({0} \cup {EdgeScore(evs, c, j, m) : m \in {m \in DOMAIN c : <<j, m>> \in Edges(evs, c)}})
        q(j) == 2 * EdgeScore(evs, c, Last(path), j) + future(j)
    IN  IF next = {} THEN path
        ELSE Rollout(evs, c, Append(path, Min({j \in next : \A m \in next : q(j) >= q(m)})))

SelectRl(evs, c) ==
    FoldLeft(LAMBDA b, i : Better(evs, c, b, Rollout(evs, c, <<i>>)), Rollout(evs, c, <<1>>), [i \in DOMAIN c |-> i])

\* confidence of an incident: nothing for a single event.
Confidence(evs, c, path) ==
    LET anomalies == MapThenSumSet(LAMBDA k : evs[c[path[k]]].anomaly, DOMAIN path)
        tactics == {Tactic(evs[c[path[k]]]) : k \in DOMAIN path}
        s == 20 + 15 * (Len(path) - 1) + 10 * (Cardinality(tactics) - 1)
             + (30 * anomalies) \div (100 * Len(path))
    IN  IF Len(path) < 2 THEN 0 ELSE IF s > 99 THEN 99 ELSE s

\* build_incident: the chain, the edges that explain it, and what it shows.
BuildIncident(evs, c, path) ==
    [events      |-> Range(c),
     chain       |-> [k \in DOMAIN path |-> c[path[k]]],
     explanation |-> {<<path[k], path[k + 1]>> : k \in 1 .. Len(path) - 1} \cap Edges(evs, c),
     tactics     |-> {Tactic(evs[c[path[k]]]) : k \in DOMAIN path},
     confidence  |-> Confidence(evs, c, path)]

---------------------------------------------------------------------------
(* Properties                                                              *)

\* All paths of the causal graph of c.
Paths(evs, c) ==
    {p \in UNION {[1 .. n -> DOMAIN c] : n \in 1 .. Len(c)} :
        \A k \in 1 .. Len(p) - 1 : <<p[k], p[k + 1]>> \in Edges(evs, c)}

\* Joined by a chain of links: every set closed under links with a has b.
Joined(evs, sim, a, b) ==
    \A S \in SUBSET DOMAIN evs :
        (a \in S /\ \A l \in Links(evs, sim) : l \cap S # {} => l \subseteq S) => b \in S

\* Whatever order the HashMap gives the links in, the candidates are the
\* connected components of the links: an event is with exactly those a chain
\* of links joins it to, no campaign of two domains is missing, and the
\* events of each are listed once, in the order of their times.  The score and
\* the rank of a candidate are not looked at.
CampaignsAreComponents ==
    LET evs == batch.events IN
    Built =>
        /\ \A i, j \in DOMAIN evs : Members(i) = Members(j) <=> Joined(evs, batch.sim, i, j)
        /\ \A i \in DOMAIN evs :
              (\E c \in Candidates(evs, batch.sim) : i \in Range(c.events)) <=>
                 /\ \E j \in DOMAIN evs \ {i} : Joined(evs, batch.sim, i, j)
                 /\ Cfg.cross => \E j \in DOMAIN evs : Joined(evs, batch.sim, i, j) /\ evs[j].class # evs[i].class
        /\ \A c \in Candidates(evs, batch.sim) :
              /\ Cardinality(Range(c.events)) = Len(c.events)
              /\ \A k \in 1 .. Len(c.events) - 1 : evs[c.events[k]].ts <= evs[c.events[k + 1]].ts

\* The kill chain of every campaign is a path of provenance links in the
\* order of time, with an explanation for every step; it scores at least as
\* much as any two linked events, and as much as the best of all paths when
\* no round overflows the beam.  The learned selector keeps the same promise
\* except that it may miss the best.
ChainsHold ==
    LET evs == batch.events IN
    Built => \A cand \in Candidates(evs, batch.sim) :
        LET c == cand.events
            all == Paths(evs, c)
            beam == SelectBeam(evs, c)
            rl == SelectRl(evs, c)
            score(p) == PathScore(evs, c, p)
        IN  /\ \A p \in {beam, rl} :
                  /\ \A k \in 1 .. Len(p) - 1 :
                        LET a == evs[c[p[k]]] b == evs[c[p[k + 1]]]
                        IN  a.ts <= b.ts /\ b.ts - a.ts <= Cfg.window /\ Entities(a) \cap Entities(b) # {}
                  /\ Cardinality(BuildIncident(evs, c, p).explanation) = Len(p) - 1
                  /\ (BuildIncident(evs, c, p).confidence = 0) <=> Len(p) = 1
            /\ \A p \in all : Len(p) <= 2 => score(beam) >= score(p)
            /\ (\A n \in 1 .. Len(c) : Cardinality({p \in all : Len(p) = n + 1}) <= Cfg.beam)
                  => \A p \in all : score(beam) >= score(p)
============================================================================
