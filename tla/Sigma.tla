------------------------------- MODULE Sigma -------------------------------
(***************************************************************************)
(* Sigma rules: the condition language (condition.rs), the string          *)
(* predicates, selections and field resolution of matcher.rs, and the      *)
(* compilation and evaluation of engine.rs.                                *)
(*                                                                         *)
(* A condition is the sequence of its words.  Words are names of           *)
(* selections, patterns, numerals or keywords; Picks gives the selections  *)
(* a word stands for as a quantifier's target.  A string is a sequence of  *)
(* characters already in lower case (every comparison of the matcher       *)
(* ignores case), with NewLine for a line feed.  A YAML value is a string, *)
(* a list of values, a map, or Null.  The `re` modifier hands its value to *)
(* the regular-expression library: only literals are given to it here.     *)
(***************************************************************************)
EXTENDS Integers, Sequences, FiniteSets, SequencesExt

CONSTANTS
    Names,      \* the selections of the rule
    Picks,      \* Picks[w]: the selections the word w stands for
    Numeral,    \* Numeral[w]: the number the word w denotes
    Alias       \* Alias[f]: the part of an event a well-known field name reads

NewLine == "newline"
Null == <<"~">>     \* no value

---------------------------------------------------------------------------
(* The condition language                                                  *)

Keyword == {"and", "or", "not", "of", "them", "all", "(", ")"}

\* Tok: what a word is to the parser.
Kind(w) ==
    CASE w \in Keyword -> w
      [] w \in DOMAIN Numeral -> "number"
      [] OTHER -> "name"

\* Parser::peek, and what next returns past the end.
Peek(toks, i) == IF i \in DOMAIN toks THEN Kind(toks[i]) ELSE "end"

\* What a parsing function returns: an error, or an Expr and the position
\* after it.
Fail == [ok |-> FALSE]
Parsed(e, i) == [ok |-> TRUE, expr |-> e, pos |-> i]

\* `N of target` and `all of target`, from the word after the quantity.
ParseQuant(toks, i, all, k) ==
    IF Peek(toks, i) = "of" /\ Peek(toks, i + 1) \in {"them", "name"}
      THEN Parsed([op |-> "quant", all |-> all, k |-> k, target |-> toks[i + 1]], i + 2)
      ELSE Fail

RECURSIVE ParseOr(_, _), OrTail(_, _), ParseAnd(_, _), AndTail(_, _), ParseNot(_, _)

ParsePrimary(toks, i) ==
    CASE Peek(toks, i) = "(" ->
            LET r == ParseOr(toks, i + 1)
            IN  IF r.ok /\ Peek(toks, r.pos) = ")" THEN Parsed(r.expr, r.pos + 1) ELSE Fail
      [] Peek(toks, i) = "all" -> ParseQuant(toks, i + 1, TRUE, 0)
      [] Peek(toks, i) = "number" -> ParseQuant(toks, i + 1, FALSE, Numeral[toks[i]])
      [] Peek(toks, i) = "name" -> Parsed([op |-> "ref", name |-> toks[i]], i + 1)
      [] OTHER -> Fail

\* Mutant: `not` swallows the conjunction that follows it.
ParseNotWide(toks, i) ==
    IF Peek(toks, i) = "not"
      THEN LET r == ParseAnd(toks, i + 1)
           IN  IF r.ok THEN Parsed([op |-> "not", e |-> r.expr], r.pos) ELSE Fail
      ELSE ParsePrimary(toks, i)

ParseNot(toks, i) ==
    IF Peek(toks, i) = "not"
      THEN LET r == ParseNot(toks, i + 1)
           IN  IF r.ok THEN Parsed([op |-> "not", e |-> r.expr], r.pos) ELSE Fail
      ELSE ParsePrimary(toks, i)

\* The while loops: more operands as long as the operator follows.
AndTail(toks, l) ==
    IF l.ok /\ Peek(toks, l.pos) = "and"
      THEN LET r == ParseNot(toks, l.pos + 1)
           IN  IF r.ok THEN AndTail(toks, Parsed([op |-> "and", l |-> l.expr, r |-> r.expr], r.pos)) ELSE Fail
      ELSE l

ParseAnd(toks, i) == AndTail(toks, ParseNot(toks, i))

OrTail(toks, l) ==
    IF l.ok /\ Peek(toks, l.pos) = "or"
      THEN LET r == ParseAnd(toks, l.pos + 1)
           IN  IF r.ok THEN OrTail(toks, Parsed([op |-> "or", l |-> l.expr, r |-> r.expr], r.pos)) ELSE Fail
      ELSE l

ParseOr(toks, i) == OrTail(toks, ParseAnd(toks, i))

\* condition::parse: nothing may follow the expression.
Parse(toks) ==
    LET r == ParseOr(toks, 1)
    IN  IF toks # <<>> /\ r.ok /\ r.pos = Len(toks) + 1 THEN r ELSE Fail

\* Target::select
Select(target) == IF target = "them" THEN Names ELSE Picks[target]

\* eval, given the selections that matched.  A name no selection has is
\* false.
RECURSIVE Eval(_, _)
Eval(e, hit) ==
    CASE e.op = "ref" -> e.name \in hit
      [] e.op = "not" -> ~Eval(e.e, hit)
      [] e.op = "and" -> Eval(e.l, hit) /\ Eval(e.r, hit)
      [] e.op = "or"  -> Eval(e.l, hit) \/ Eval(e.r, hit)
      [] e.op = "quant" ->
            LET selected == Select(e.target)
                hits == selected \cap hit
            IN  IF e.all THEN selected # {} /\ hits = selected
                         ELSE Cardinality(hits) >= e.k

\* condition_to_string: a list of conditions is their disjunction, each in
\* parentheses; what is not a string is left out, and nothing left is an error.
ConditionOf(conds) ==
    LET parts == SelectSeq(conds, LAMBDA c : c # Null)
    IN  FoldLeft(LAMBDA acc, c : acc \o (IF acc = <<>> THEN <<>> ELSE <<"or">>) \o <<"(">> \o c \o <<")">>,
                 <<>>, parts)

---------------------------------------------------------------------------
(* String predicates                                                       *)

Wild == {"*", "?"}

\* Modifiers::parse: the last base modifier wins, `all` is a flag of its own,
\* `cased` says nothing, any other one is an error.
Modifiers(mods) ==
    LET bases == SelectSeq(mods, LAMBDA m : m \notin {"all", "cased"})
    IN  [ok   |-> Range(bases) \subseteq {"contains", "startswith", "endswith", "re"},
         all  |-> "all" \in Range(mods),
         base |-> IF bases = <<>> THEN "equals" ELSE Last(bases)]

\* StringPredicate::build: a value with a wildcard becomes a regular
\* expression, anchored where the modifier says.
Build(value, base) ==
    IF value = Null THEN [kind |-> "isnull", value |-> <<>>, from |-> FALSE, to |-> FALSE]
    ELSE [kind  |-> IF base = "re" \/ Range(value) \cap Wild # {} THEN "regex" ELSE base,
          value |-> value,
          from  |-> base \in {"equals", "startswith"},
          to    |-> base \in {"equals", "endswith"}]

\* The regular expression wildcard_regex writes, matched against all of s:
\* `.*` and `.` stop at a line feed.
RECURSIVE WildcardRegex(_, _)
WildcardRegex(p, s) ==
    IF p = <<>> THEN s = <<>>
    ELSE IF Head(p) = "*"
      THEN \/ WildcardRegex(Tail(p), s)
           \/ s # <<>> /\ Head(s) # NewLine /\ WildcardRegex(p, Tail(s))
      ELSE /\ s # <<>>
           /\ Head(p) = Head(s) \/ (Head(p) = "?" /\ Head(s) # NewLine)
           /\ WildcardRegex(Tail(p), Tail(s))

\* Mutant: a pattern is anchored at both ends whatever its modifier.
PredMatchesAnchored(p, c) ==
    CASE p.kind = "equals"     -> c = p.value
      [] p.kind = "contains"   -> \E i \in 1 .. Len(c) + 1 : IsPrefix(p.value, SubSeq(c, i, Len(c)))
      [] p.kind = "startswith" -> IsPrefix(p.value, c)
      [] p.kind = "endswith"   -> IsSuffix(p.value, c)
      [] p.kind = "regex"      -> WildcardRegex(p.value, c)
      [] p.kind = "isnull"     -> FALSE

\* StringPredicate::matches
PredMatches(p, c) ==
    CASE p.kind = "equals"     -> c = p.value
      [] p.kind = "contains"   -> \E i \in 1 .. Len(c) + 1 : IsPrefix(p.value, SubSeq(c, i, Len(c)))
      [] p.kind = "startswith" -> IsPrefix(p.value, c)
      [] p.kind = "endswith"   -> IsSuffix(p.value, c)
      [] p.kind = "regex"      ->
            \E i \in 1 .. Len(c) + 1, j \in 0 .. Len(c) :
                /\ i <= j + 1
                /\ p.from => i = 1
                /\ p.to => j = Len(c)
                /\ WildcardRegex(p.value, SubSeq(c, i, j))
      [] p.kind = "isnull"     -> FALSE

---------------------------------------------------------------------------
(* Selections                                                              *)

\* An event has fields, each a name (a key and its lower-case form) and a
\* value, and the parts the aliases read: message, actor (also under user or
\* process, whichever it is), host and target, <<>> when absent.
\* resolve_field: the exact key, else every key that differs in case only,
\* else what a well-known name stands for.
ResolveField(ev, name) ==
    LET exact == {f \in ev.fields : f.name = name}
        folded == {f \in ev.fields : f.name.lower = name.lower}
        part == IF name.lower \in DOMAIN Alias THEN ev.parts[Alias[name.lower]] ELSE <<>>
    IN  IF exact # {} THEN {f.value : f \in exact}
        ELSE IF folded # {} THEN {f.value : f \in folded}
        ELSE IF part # <<>> THEN {part} ELSE {}

\* event_haystack: everything the event says, a blank between two parts (the
\* order of the fields tells only for a keyword with a blank in it).
Haystack(ev) ==
    LET present == SelectSeq(<<ev.parts["actor"], ev.parts["host"], ev.parts["target"]>>, LAMBDA s : s # <<>>)
    IN  FoldLeft(LAMBDA acc, s : acc \o <<" ">> \o s, ev.parts["message"],
                 SetToSeq({f.value : f \in ev.fields}) \o present)

\* FieldCond::eval
FieldHolds(c, ev) ==
    LET candidates == ResolveField(ev, c.field)
        hit(p) == IF p.kind = "isnull" THEN candidates = {} ELSE \E v \in candidates : PredMatches(p, v)
    IN  IF c.all THEN \A p \in Range(c.preds) : hit(p) ELSE \E p \in Range(c.preds) : hit(p)

\* Selection::eval: a map is a conjunction, a list of maps and keywords a
\* disjunction.
RECURSIVE SelectionHolds(_, _)
SelectionHolds(s, ev) ==
    CASE s.is = "fields"   -> \A c \in Range(s.conds) : FieldHolds(c, ev)
      [] s.is = "anyof"    -> \E t \in Range(s.items) : SelectionHolds(t, ev)
      [] s.is = "keywords" -> \E p \in Range(s.preds) : PredMatches(p, Haystack(ev))

---------------------------------------------------------------------------
(* Compilation and evaluation                                              *)

\* compile_field_map with build_preds: a map of the YAML, entry by entry.
CompileFieldMap(map) ==
    LET mods(i) == Modifiers(map[i].mods)
    IN  [ok |-> \A i \in DOMAIN map : mods(i).ok,
         is |-> "fields",
         conds |-> [i \in DOMAIN map |->
            [field |-> map[i].field, all |-> mods(i).all,
             preds |-> [j \in DOMAIN map[i].values |-> Build(map[i].values[j], mods(i).base)]]]]

\* keyword_pred: a substring, wildcards and all.
KeywordPred(value) == [kind |-> "contains", value |-> IF value = Null THEN <<>> ELSE value,
                       from |-> FALSE, to |-> FALSE]

\* compile_selection: a map, a list with a map in it, or keywords.
CompileSelection(y) ==
    LET item(v) == IF v.is = "map" THEN CompileFieldMap(v.map)
                   ELSE [ok |-> TRUE, is |-> "keywords", preds |-> <<KeywordPred(v.scalar)>>]
    IN  CASE y.is = "map" -> CompileFieldMap(y.map)
          [] y.is = "list" /\ (\E i \in DOMAIN y.list : y.list[i].is = "map") ->
                [ok |-> \A i \in DOMAIN y.list : item(y.list[i]).ok, is |-> "anyof",
                 items |-> [i \in DOMAIN y.list |-> item(y.list[i])]]
          [] y.is = "list" -> [ok |-> TRUE, is |-> "keywords",
                               preds |-> [i \in DOMAIN y.list |-> KeywordPred(y.list[i].scalar)]]
          [] y.is = "scalar" -> item(y)

\* level_to_severity: an absent or unknown level is medium.
LevelToSeverity(level) ==
    IF level \in {"informational", "low", "high", "critical"} THEN level ELSE "medium"

\* technique_from_tags: the first tag that names a technique; a tag is a pair
\* of its namespace and its technique.
TechniqueFromTags(tags) ==
    LET t == SelectSeq(tags, LAMBDA x : x[1] = "technique")
    IN  IF t = <<>> THEN "" ELSE Head(t)[2]

\* CompiledRule::from_rule: every selection compiles and the condition
\* parses, or the whole rule is refused.
FromRule(r) ==
    LET cond == Parse(IF r.condition = <<>> THEN <<>> ELSE IF r.condlist THEN ConditionOf(r.condition) ELSE r.condition[1])
        sel == [n \in Names |-> CompileSelection(r.detection[n])]
    IN  IF (\A n \in Names : sel[n].ok) /\ cond.ok
          THEN [ok |-> TRUE, id |-> IF r.id = "" THEN r.title ELSE r.id, title |-> r.title,
                severity |-> LevelToSeverity(r.level), technique |-> TechniqueFromTags(r.tags),
                selections |-> sel, condition |-> cond.expr]
          ELSE Fail

\* CompiledRule::matches
RuleMatches(rule, ev) ==
    Eval(rule.condition, {n \in Names : SelectionHolds(rule.selections[n], ev)})

\* to_alert: an event without a time is given the current one.
ToAlert(rule, ev, now) ==
    [rule_id |-> rule.id, title |-> rule.title, severity |-> rule.severity, technique |-> rule.technique,
     event |-> ev.id, ts |-> IF ev.ts # 0 THEN ev.ts ELSE now]

\* SigmaEngine::load_dir over the documents that are not correlations: the
\* rules that compile, and the report of those that do not.
LoadDir(docs) ==
    LET compiled == [i \in DOMAIN docs |-> FromRule(docs[i])]
    IN  [rules  |-> SelectSeq(compiled, LAMBDA c : c.ok),
         failed |-> {i \in DOMAIN docs : ~compiled[i].ok}]

\* SigmaEngine::eval
EngineEval(rules, ev, now) ==
    LET firing == SelectSeq(rules, LAMBDA r : RuleMatches(r, ev))
    IN  [i \in DOMAIN firing |-> ToAlert(firing[i], ev, now)]

\* parse_timespan: a positive number of a known unit, in seconds.
ParseTimespan(n, unit) ==
    LET secs == CASE unit = "s" -> n [] unit = "m" -> n * 60 [] unit = "h" -> n * 3600 [] unit = "d" -> n * 86400
                  [] OTHER -> 0
    IN  [ok |-> secs > 0, secs |-> secs]

\* CompiledCorrelation::from_rule: a correlation names its rules, an event
\* count has a comparison, a value count a field.  The id falls back on the
\* title.
FromCorrelation(c) ==
    IF /\ c.rules # <<>>
       /\ c.kind = "event_count" => c.condition # {}
       /\ c.kind = "value_count" => c.field
       /\ ParseTimespan(c.timespan[1], c.timespan[2]).ok
      THEN [ok |-> TRUE, id |-> IF c.id = "" THEN c.title ELSE c.id, kind |-> c.kind, rules |-> c.rules,
            timespan |-> ParseTimespan(c.timespan[1], c.timespan[2]).secs, condition |-> c.condition,
            field |-> c.field]
      ELSE Fail

\* harness::run_cases: the cases whose verdict is not the expected one.
RunCases(rule, cases) == {i \in DOMAIN cases : RuleMatches(rule, cases[i].event) # cases[i].expect}

---------------------------------------------------------------------------
(* Reference definitions and properties                                    *)

\* The grammar of conditions, read as it is written down: the meanings a word
\* sequence has as a disjunction, a conjunction, a negation or an atom, each
\* the set of hit sets it accepts.  No meaning: not a condition.
RECURSIVE Meanings(_, _)
Meanings(toks, level) ==
    LET n == Len(toks)
        all == SUBSET Names
        split(w, lower, Join(_, _)) ==
            UNION {{Join(l, r) : l \in Meanings(SubSeq(toks, 1, i - 1), level),
                                 r \in Meanings(SubSeq(toks, i + 1, n), lower)} :
                   i \in {i \in 2 .. n - 1 : toks[i] = w}}
    IN  CASE level = "or" -> Meanings(toks, "and") \cup split("or", "and", LAMBDA l, r : l \cup r)
          [] level = "and" -> Meanings(toks, "not") \cup split("and", "not", LAMBDA l, r : l \cap r)
          [] level = "not" -> Meanings(toks, "atom") \cup
                (IF n > 1 /\ toks[1] = "not" THEN {all \ m : m \in Meanings(Tail(toks), "not")} ELSE {})
          [] level = "atom" ->
                IF n = 1 /\ Kind(toks[1]) = "name" THEN {{h \in all : toks[1] \in h}}
                ELSE IF n > 2 /\ toks[1] = "(" /\ toks[n] = ")" THEN Meanings(SubSeq(toks, 2, n - 1), "or")
                ELSE IF n = 3 /\ toks[2] = "of" /\ Kind(toks[3]) \in {"them", "name"}
                  THEN LET of == IF toks[3] = "them" THEN Names ELSE Picks[toks[3]]
                       IN  CASE toks[1] = "all" -> {{h \in all : of # {} /\ of \subseteq h}}
                             [] Kind(toks[1]) = "number" ->
                                   {{h \in all : Cardinality(h \cap of) >= Numeral[toks[1]]}}
                             [] OTHER -> {}
                ELSE {}

\* A condition that names a selection the rule does not have.
Dangling(toks) ==
    \E i \in DOMAIN toks : Kind(toks[i]) = "name" /\ toks[i] \notin Names /\ (i = 1 \/ toks[i - 1] # "of")

\* A word sequence compiles exactly when the grammar has it, and the parser's
\* reading (not before and before or, left to right) accepts exactly the hit
\* sets of its one meaning.  What a name that no selection has means is left
\* open: the code compiles it and takes it for false.
ConditionMeans(toks) ==
    LET m == Meanings(toks, "or") r == Parse(toks)
    IN  /\ r.ok <=> m # {}
        /\ r.ok /\ ~Dangling(toks) => m = {{h \in SUBSET Names : Eval(r.expr, h)}}

\* s is cut into one piece per character of the pattern: one character each,
\* and for a star any piece without a line feed.
Globs(p, s) ==
    \E cut \in [0 .. Len(p) -> 0 .. Len(s)] :
        /\ cut[0] = 0 /\ cut[Len(p)] = Len(s)
        /\ \A k \in 1 .. Len(p) :
              LET piece == SubSeq(s, cut[k - 1] + 1, cut[k])
              IN  /\ cut[k - 1] <= cut[k]
                  /\ CASE p[k] = "*" -> NewLine \notin Range(piece)
                       [] p[k] = "?" -> Len(piece) = 1 /\ piece # <<NewLine>>
                       [] OTHER -> piece = <<p[k]>>

\* What a field entry of the YAML asks of an event.
EntryAsks(entry, ev) ==
    LET m == Modifiers(entry.mods)
        found == ResolveField(ev, entry.field)
        ends == CASE m.base = "equals"     -> {<<1, 0>>}
                  [] m.base = "startswith" -> {<<1, k>> : k \in 0 .. 9}
                  [] m.base = "endswith"   -> {<<k, 0>> : k \in 1 .. 9}
                  [] OTHER                 -> {<<j, k>> : j \in 1 .. 9, k \in 0 .. 9}
        asks(v) == IF v = Null THEN found = {}
                   ELSE \E s \in found, e \in ends : Globs(v, SubSeq(s, e[1], Len(s) - e[2]))
    IN  IF m.all THEN \A v \in Range(entry.values) : asks(v) ELSE \E v \in Range(entry.values) : asks(v)

\* A list of documents loads to the engine its valid members describe, and the
\* engine gives an event one alert for each document whose selections, read
\* straight off the YAML, make its condition true: a document that does not
\* compile costs its own rule and no other, and modifiers, wildcards and field
\* names mean what the rule says.  Whether null holds of a field that is there
\* and empty is left open: matcher.rs:16 says "absent / empty", FieldCond::eval
\* takes absent only.
RulesMean(docs, ev) ==
    LET conds(d) == SelectSeq(d.condition, LAMBDA c : c # Null)
        valid(d) == /\ \A n \in Names : d.detection[n].is = "map" =>
                           \A i \in DOMAIN d.detection[n].map : Modifiers(d.detection[n].map[i].mods).ok
                    /\ conds(d) # <<>> /\ \A c \in Range(conds(d)) : Meanings(c, "or") # {}
        literal(s, t) == \E i \in 1 .. Len(t) + 1 : IsPrefix(s, SubSeq(t, i, Len(t)))
        asks(y) == IF y.is = "map" THEN \A i \in DOMAIN y.map : EntryAsks(y.map[i], ev)
                   ELSE \E i \in DOMAIN y.list :
                           IF y.list[i].is = "map" THEN \A k \in DOMAIN y.list[i].map : EntryAsks(y.list[i].map[k], ev)
                           ELSE literal(y.list[i].scalar, Haystack(ev))
        open(m) == \E i \in DOMAIN m : Null \in Range(m[i].values) /\ <<>> \in ResolveField(ev, m[i].field)
        settled(d) == \A n \in Names : LET y == d.detection[n]
                                       IN  IF y.is = "map" THEN ~open(y.map)
                                           ELSE \A i \in DOMAIN y.list : y.list[i].is = "map" => ~open(y.list[i].map)
        fires(d) == /\ valid(d)
                    /\ \E c \in Range(conds(d)) : {n \in Names : asks(d.detection[n])} \in UNION Meanings(c, "or")
        want == SelectSeq(docs, LAMBDA d : settled(d) /\ fires(d))
        got == SelectSeq(EngineEval(LoadDir(docs).rules, ev, 1),
                         LAMBDA a : \E d \in Range(docs) : d.title = a.title /\ settled(d))
    IN  /\ [i \in DOMAIN want |-> want[i].title] = [i \in DOMAIN got |-> got[i].title]
        /\ \A d \in Range(docs) : valid(d) /\ settled(d) => RunCases(FromRule(d), <<[event |-> ev, expect |-> fires(d)]>>) = {}
============================================================================
