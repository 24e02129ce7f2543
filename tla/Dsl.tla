-------------------------------- MODULE Dsl --------------------------------
(***************************************************************************)
(* The pipe language of the search bar and of `sigil query`, lowered to    *)
(* one SQL statement (sigil-api dsl.rs): the builder collects the stages,  *)
(* so their order is lost, and SQL applies them in its own.                *)
(*                                                                         *)
(* A table is a sequence of rows; a row maps columns to numbers or texts,  *)
(* and a text is the sequence of its characters.  A query is a sequence of *)
(* stages, already split at the pipes.  DataFusion runs the statement: it  *)
(* may order ties as it likes, here they keep the order of the table.      *)
(***************************************************************************)
EXTENDS Integers, Sequences, FiniteSets, SequencesExt

CONSTANT Idents     \* the words `ident` accepts as column names

Verbs == {"search", "where", "stats", "fields", "sort", "head"}

\* looks_like_dsl: a pipe anywhere, or a verb first (`limit` is not one).
LooksLikeDsl(first, piped) == piped \/ first \in Verbs

---------------------------------------------------------------------------
(* lower                                                                   *)

NoQuery == [ok |-> FALSE]

\* Builder::default
EmptyBuilder ==
    [ok |-> TRUE, select |-> <<>>, aggregates |-> <<>>, group_by |-> <<>>, wheres |-> <<>>,
     order_by |-> <<>>, limit |-> -1]

Ops == {"=", "!=", ">", "<", ">=", "<=", "contains"}

\* parse_where: `contains` takes a text, a comparison a number.
Condition(s) ==
    IF s.op = "contains" THEN [col |-> s.col, op |-> s.op, text |-> s.text]
    ELSE [col |-> s.col, op |-> s.op, value |-> s.value]

\* Mutant: a second condition replaces the first.
AddStageLast(b, s) ==
    CASE ~b.ok -> b
      [] s.cmd = "search" -> IF s.term = <<>> THEN b
            ELSE [b EXCEPT !.wheres = <<[col |-> "message", op |-> "contains", text |-> s.term]>>]
      [] s.cmd = "where" -> IF s.col \in Idents /\ s.op \in Ops
            THEN [b EXCEPT !.wheres = <<Condition(s)>>] ELSE NoQuery
      [] s.cmd = "stats" -> [b EXCEPT !.aggregates = Append(@, s.alias), !.group_by = s.by]
      [] s.cmd = "fields" -> [b EXCEPT !.select = s.cols]
      [] s.cmd = "sort" -> [b EXCEPT !.order_by = <<s.col, s.desc>>]
      [] s.cmd = "head" -> [b EXCEPT !.limit = s.n]
      [] OTHER -> NoQuery

\* One stage of the query joins the builder: conditions and aggregates add up,
\* any other stage replaces what an earlier one of its kind said.
AddStage(b, s) ==
    CASE ~b.ok -> b
      [] s.cmd = "search" -> IF s.term = <<>> THEN b
            ELSE [b EXCEPT !.wheres = Append(@, [col |-> "message", op |-> "contains", text |-> s.term])]
      [] s.cmd = "where" -> IF s.col \in Idents /\ s.op \in Ops
            THEN [b EXCEPT !.wheres = Append(@, Condition(s))] ELSE NoQuery
      [] s.cmd = "stats" -> IF s.alias \in Idents /\ Range(s.by) \subseteq Idents
            THEN [b EXCEPT !.aggregates = Append(@, s.alias), !.group_by = IF s.by = <<>> THEN @ ELSE s.by]
            ELSE NoQuery
      [] s.cmd = "fields" -> IF Range(s.cols) \subseteq Idents THEN [b EXCEPT !.select = s.cols] ELSE NoQuery
      [] s.cmd = "sort" -> IF s.col \in Idents THEN [b EXCEPT !.order_by = <<s.col, s.desc>>] ELSE NoQuery
      [] s.cmd \in {"head", "limit"} -> IF s.n \in Nat THEN [b EXCEPT !.limit = s.n] ELSE NoQuery
      [] OTHER -> NoQuery

Lower(query) == FoldLeft(AddStage, EmptyBuilder, query)

---------------------------------------------------------------------------
(* The statement Builder::render writes, run over a table                  *)

\* ILIKE: `%` stands for any text and `_` for any character, the ones the
\* user typed included.
RECURSIVE Like(_, _)
Like(p, s) ==
    IF p = <<>> THEN s = <<>>
    ELSE IF Head(p) = "%" THEN Like(Tail(p), s) \/ (s # <<>> /\ Like(p, Tail(s)))
    ELSE s # <<>> /\ Head(p) \in {"_", Head(s)} /\ Like(Tail(p), Tail(s))

Where(row, w) ==
    LET v == row[w.col]
    IN  CASE w.op = "contains" -> Like(<<"%">> \o w.text \o <<"%">>, v)
          [] w.op = "="  -> v = w.value
          [] w.op = "!=" -> v # w.value
          [] w.op = ">"  -> v > w.value
          [] w.op = "<"  -> v < w.value
          [] w.op = ">=" -> v >= w.value
          [] w.op = "<=" -> v <= w.value

Only(row, cols) == [c \in Range(cols) |-> row[c]]

\* One row per group, in the order the groups first appear; without GROUP BY
\* one row for all, rows or none.
Counted(rows, by, aliases) ==
    LET key(r) == Only(r, by)
        first == SelectSeq([i \in DOMAIN rows |-> i], LAMBDA i : \A j \in 1 .. i - 1 : key(rows[j]) # key(rows[i]))
        line(k, n) == [c \in Range(by) \cup Range(aliases) |-> IF c \in Range(by) THEN k[c] ELSE n]
    IN  IF by = <<>> THEN <<line(<<>>, Len(rows))>>
        ELSE [i \in DOMAIN first |->
                line(key(rows[first[i]]), Cardinality({j \in DOMAIN rows : key(rows[j]) = key(rows[first[i]])}))]

\* ORDER BY a number; a stable sort.
Ordered(rows, col, desc) ==
    LET before(i, j) == IF desc THEN rows[i][col] > rows[j][col] ELSE rows[i][col] < rows[j][col]
        order == SortSeq([i \in DOMAIN rows |-> i], LAMBDA i, j : before(i, j) \/ (~before(j, i) /\ i < j))
    IN  [k \in DOMAIN rows |-> rows[order[k]]]

First(rows, n) == SubSeq(rows, 1, IF n < Len(rows) THEN n ELSE Len(rows))

\* WHERE, then GROUP BY, then ORDER BY, then the columns, then LIMIT.
RunSql(b, table) ==
    LET kept == SelectSeq(table, LAMBDA r : \A i \in DOMAIN b.wheres : Where(r, b.wheres[i]))
        grouped == IF b.aggregates # <<>> THEN Counted(kept, b.group_by, b.aggregates) ELSE kept
        sorted == IF b.order_by = <<>> THEN grouped ELSE Ordered(grouped, b.order_by[1], b.order_by[2])
        shown == IF b.aggregates = <<>> /\ b.select # <<>>
                   THEN [i \in DOMAIN sorted |-> Only(sorted[i], b.select)] ELSE sorted
    IN  IF b.limit = -1 THEN shown ELSE First(shown, b.limit)

---------------------------------------------------------------------------
(* Property                                                                *)

\* How a value may lie to the one a condition compares it with: -1 below, 0
\* equal, 1 above.
Signs == [op \in {"=", "!=", ">", "<", ">=", "<="} |->
    CASE op = "=" -> {0} [] op = "!=" -> {-1, 1} [] op = ">" -> {1} [] op = "<" -> {-1} [] op = ">=" -> {0, 1} [] OTHER -> {-1, 0}]
Mentions(text, part) == \E i \in 1 .. Len(text) + 1 : IsPrefix(part, SubSeq(text, i, Len(text)))
Meets(v, s) ==
    IF s.op = "contains" THEN Mentions(v, s.text)
    ELSE \E sign \in Signs[s.op], d \in 0 .. 9 : v = s.value + sign * d /\ (d = 0 <=> sign = 0)

\* What a pipeline of stages means: each stage works on what the one before it
\* hands on.
Stage(rows, s) ==
    CASE s.cmd = "search" -> SelectSeq(rows, LAMBDA r : Mentions(r.message, s.term))
      [] s.cmd = "where"  -> SelectSeq(rows, LAMBDA r : Meets(r[s.col], s))
      [] s.cmd = "stats"  -> Counted(rows, s.by, <<s.alias>>)
      [] s.cmd = "fields" -> [i \in DOMAIN rows |-> Only(rows[i], s.cols)]
      [] s.cmd = "sort"   -> Ordered(rows, s.col, s.desc)
      [] OTHER            -> First(rows, s.n)

Rank(s) ==
    CASE s.cmd \in {"search", "where"} -> 1
      [] s.cmd \in {"stats", "fields"} -> 2
      [] s.cmd = "sort" -> 3
      [] OTHER -> 4

\* Stages in the order conditions, stats or fields, sort, head, one of each but
\* for conditions; a term without wildcards, and a sort by a column that is
\* still there.
Canonical(query, cols) ==
    LET shape == SelectSeq(query, LAMBDA s : s.cmd \in {"stats", "fields"})
        left == IF shape = <<>> THEN cols
                ELSE IF shape[1].cmd = "stats" THEN {shape[1].alias} \cup Range(shape[1].by) ELSE Range(shape[1].cols)
    IN  /\ \A i, j \in DOMAIN query : i < j =>
              Rank(query[i]) < Rank(query[j]) \/ (Rank(query[i]) = 1 /\ Rank(query[j]) = 1)
        /\ \A i \in DOMAIN query :
              /\ query[i].cmd = "search" => Range(query[i].term) \cap {"%", "_"} = {}
              /\ query[i].cmd = "where" /\ query[i].op = "contains" => Range(query[i].text) \cap {"%", "_"} = {}
              /\ query[i].cmd = "sort" => query[i].col \in left

\* A query with a stage the language does not have is refused as a whole; one
\* that can be lowered is taken for one, unless it is a single `limit`; and one
\* in canonical order lowers to a statement that returns what its stages,
\* run one after the other, would.
LowersTrue(query, table) ==
    LET bad(s) == s.cmd \notin Verbs \cup {"limit"} \/ (s.cmd = "where" /\ (s.op \notin Ops \/ s.col \notin Idents))
        b == Lower(query)
    IN  IF \E i \in DOMAIN query : bad(query[i]) THEN ~b.ok
        ELSE
          /\ query # <<>> /\ b.ok /\ ~LooksLikeDsl(query[1].cmd, Len(query) > 1) => query[1].cmd = "limit"
          /\ Canonical(query, DOMAIN table[1]) => b.ok /\ RunSql(b, table) = FoldLeft(Stage, table, query)
============================================================================
