--------------------------- MODULE ConsoleProofs ---------------------------
(***************************************************************************)
(* Proofs about what the console's users do to a node: AlertTriage,        *)
(* RuleStudio and Access.                                                  *)
(***************************************************************************)
EXTENDS AlertTriage, RuleStudio, Access,
        SequenceTheorems, FiniteSetTheorems, WellFoundedInduction, TLAPS

---------------------------------------------------------------------------
(* Alert triage: notes on alerts are kept.                                 *)
(*                                                                         *)
(* The argument: a request that is about to write a record holds every     *)
(* note of the writes it has seen, but for those already lost to a write   *)
(* that had not seen them; a write it has not seen is one that its own     *)
(* write overwrites.  And the run loop only writes a fresh record over an  *)
(* alert that nobody has patched, because no record is ever deleted.       *)

PatchRequest ==
    [pc : {"new", "get", "write", "done"}, todo : Seq(Alert), patch : Patch \cup {Keep},
     rec : AlertRecord \cup {NoRecord}, seen : Nat]
WriteEntry == [fp : Alert, by : Analyst, note : BOOLEAN, seen : Nat]

TriageTypes ==
    /\ store \in [Alert -> AlertRecord \cup {NoRecord}]
    /\ loop.pc \in {"idle", "get", "write"}
    /\ loop.pc # "idle" => loop.alert \in Alert
    /\ patching \in [Analyst -> PatchRequest]
    /\ \A r \in Analyst : patching[r].pc \in {"get", "write"} => patching[r].todo # <<>> /\ patching[r].patch \in Patch
    /\ writes \in Seq(WriteEntry)

\* The write i of ws was overwritten by one that had not seen it.
Overwritten(ws, i) == \E j \in DOMAIN ws : j > i /\ ws[j].fp = ws[i].fp /\ ws[j].seen < i

\* The notes hold what the first n writes of ws noted on the alert a, but for
\* what was overwritten.
Holds(notes, a, n, ws) ==
    \A i \in 1 .. n : ws[i].fp = a /\ ws[i].note => ws[i].by \in Range(notes) \/ Overwritten(ws, i)

\* Every record holds its notes, and what has no record was never patched.
RecordsHold ==
    \A a \in Alert :
        IF store[a] = NoRecord THEN \A i \in DOMAIN writes : writes[i].fp # a
                               ELSE Holds(store[a].notes, a, Len(writes), writes)

\* So does the copy a request read, as far as it has seen the writes.
CopiesHold ==
    \A r \in Analyst : patching[r].pc = "write" =>
        LET a == Head(patching[r].todo)
        IN  /\ store[a] # NoRecord /\ patching[r].rec # NoRecord
            /\ patching[r].seen <= Len(writes)
            /\ Holds(patching[r].rec.notes, a, patching[r].seen, writes)

\* The run loop writes a fresh record only where there is none.
FreshOnly == loop.pc = "write" => store[loop.alert] = NoRecord

\* The inductive invariant.
TriageInv == TriageTypes /\ RecordsHold /\ CopiesHold /\ FreshOnly

---------------------------------------------------------------------------
(* Holds, as writes are added                                              *)

\* What the notes hold of the first n writes, they hold when one is added.
LEMMA HoldsLater ==
    ASSUME NEW ws \in Seq(WriteEntry), NEW w \in WriteEntry, NEW n \in 0 .. Len(ws),
           NEW notes, NEW a, Holds(notes, a, n, ws)
    PROVE  Holds(notes, a, n, Append(ws, w))
<1> DEFINE xs == Append(ws, w)
<1>1. /\ xs \in Seq(WriteEntry) /\ Len(xs) = Len(ws) + 1 /\ DOMAIN ws = 1 .. Len(ws) /\ DOMAIN xs = 1 .. Len(ws) + 1
      /\ \A i \in 1 .. Len(ws) : xs[i] = ws[i]
      /\ Len(ws) \in Nat
  OBVIOUS
<1> HIDE DEF xs
<1>2. ASSUME NEW i \in 1 .. n, Overwritten(ws, i) PROVE Overwritten(xs, i)
  BY <1>1, <1>2 DEF Overwritten
<1>3. \A i \in 1 .. n : xs[i] = ws[i]
  BY <1>1
<1>4. Holds(notes, a, n, xs)
  BY <1>2, <1>3 DEF Holds
<1> QED
  BY <1>4 DEF xs

\* A write of what was read after n writes leaves its own note, keeps those of
\* the writes it had seen, and overwrites the others.
LEMMA HoldsWritten ==
    ASSUME NEW ws \in Seq(WriteEntry), NEW w \in WriteEntry,
           NEW notes \in Seq(Analyst), NEW kept \in Seq(Analyst),
           w.seen <= Len(ws), Holds(notes, w.fp, w.seen, ws),
           kept = IF w.note THEN Append(notes, w.by) ELSE notes
    PROVE  Holds(kept, w.fp, Len(ws) + 1, Append(ws, w))
<1> DEFINE xs == Append(ws, w)  n == Len(ws)
<1>1. /\ DOMAIN xs = 1 .. n + 1
      /\ \A i \in 1 .. n : xs[i] = ws[i]
      /\ xs[n + 1] = w /\ n \in Nat
  OBVIOUS
<1>2. w.seen \in 0 .. n /\ w.by \in Analyst /\ w.seen \in Nat
  BY DEF WriteEntry
<1>3. Holds(notes, w.fp, w.seen, xs)
  BY <1>2, HoldsLater
<1>4. \A x \in Range(notes) : x \in Range(kept)
  BY <1>2 DEF Range
<1>5. w.note => w.by \in Range(kept)
  <2> SUFFICES ASSUME w.note PROVE w.by \in Range(kept)
    OBVIOUS
  <2>1. kept = Append(notes, w.by) /\ Len(notes) \in Nat
    OBVIOUS
  <2>2. Len(notes) + 1 \in DOMAIN kept /\ kept[Len(notes) + 1] = w.by
    BY <2>1, <1>2
  <2> QED
    BY <2>2 DEF Range
<1> HIDE DEF xs, n
<1>6. ASSUME NEW i \in 1 .. n + 1, xs[i].fp = w.fp, xs[i].note
      PROVE  xs[i].by \in Range(kept) \/ Overwritten(xs, i)
  <2>1. CASE i <= w.seen
    BY <2>1, <1>1, <1>2, <1>3, <1>4, <1>6 DEF Holds
  <2>2. CASE i > w.seen /\ i <= n
    <3>1. n + 1 \in DOMAIN xs /\ n + 1 > i /\ xs[n + 1].fp = xs[i].fp /\ xs[n + 1].seen < i
      BY <2>2, <1>1, <1>2, <1>6
    <3> QED
      BY <3>1 DEF Overwritten
  <2>3. CASE i = n + 1
    BY <2>3, <1>1, <1>5, <1>6
  <2> QED
    BY <2>1, <2>2, <2>3, <1>1, <1>2
<1>7. Holds(kept, w.fp, n + 1, xs)
  BY <1>6 DEF Holds
<1> QED
  BY <1>7 DEF xs, n

\* A write on one alert leaves the notes on another alone.
LEMMA HoldsElsewhere ==
    ASSUME NEW ws \in Seq(WriteEntry), NEW w \in WriteEntry, NEW notes, NEW a, w.fp # a,
           Holds(notes, a, Len(ws), ws)
    PROVE  Holds(notes, a, Len(ws) + 1, Append(ws, w))
<1> DEFINE xs == Append(ws, w)  n == Len(ws)
<1>1. xs[n + 1] = w /\ n \in Nat /\ n \in 0 .. Len(ws)
  OBVIOUS
<1>2. Holds(notes, a, n, xs)
  BY <1>1, HoldsLater
<1> HIDE DEF xs, n
<1>3. Holds(notes, a, n + 1, xs)
  BY <1>1, <1>2 DEF Holds
<1> QED
  BY <1>3 DEF xs, n
---------------------------------------------------------------------------
(* The operators that actions share                                        *)

\* A new record, and a patched one, is a record.
LEMMA RecordType ==
    /\ NewRecord \in AlertRecord /\ NewRecord.notes = <<>> /\ NoRecord \notin AlertRecord
    /\ \A rec \in AlertRecord, p \in Patch, r \in Analyst :
           /\ Patched(rec, p, r) \in AlertRecord
           /\ Patched(rec, p, r).notes = IF p.note THEN Append(rec.notes, r) ELSE rec.notes
           /\ p.note \in BOOLEAN
<1>1. NewRecord \in AlertRecord /\ NewRecord.notes = <<>> /\ NoRecord \notin AlertRecord
  <2>1. \A q \in Seq(Analyst) : [status |-> "open", assignee |-> "nobody", notes |-> q] \in AlertRecord
    BY DEF AlertRecord, Status, Assignee
  <2>2. <<>> \in Seq(Analyst)
    OBVIOUS
  <2>3. NewRecord \in AlertRecord
    BY <2>1, <2>2, Zenon DEF NewRecord
  <2>4. NewRecord.notes = <<>>
    BY DEF NewRecord
  <2> QED
    BY <2>3, <2>4, AlertTriageAssumption
<1>2. ASSUME NEW rec \in AlertRecord, NEW p \in Patch, NEW r \in Analyst
      PROVE  /\ Patched(rec, p, r) \in AlertRecord
             /\ Patched(rec, p, r).notes = IF p.note THEN Append(rec.notes, r) ELSE rec.notes
             /\ p.note \in BOOLEAN
  <2>1. /\ p.status \in Status \cup {Keep} /\ p.assignee \in Assignee \cup {Keep} /\ p.note \in BOOLEAN
    BY AlertTriageAssumption DEF Assignee
  <2>2. rec.status \in Status /\ rec.assignee \in Assignee /\ rec.notes \in Seq(Analyst)
    BY DEF AlertRecord
  <2>3. (IF p.note THEN Append(rec.notes, r) ELSE rec.notes) \in Seq(Analyst)
    BY <2>2
  <2> QED
    BY <2>1, <2>2, <2>3 DEF Patched, AlertRecord
<1> QED
  BY <1>1, <1>2

\* A request that leaves its alert is no longer about to write, and the other
\* requests are where they were.
LEMMA NextAlertFacts ==
    ASSUME TriageTypes, NEW r \in Analyst, patching[r].pc \in {"get", "write"}, patching' = NextAlert(r)
    PROVE  /\ patching' \in [Analyst -> PatchRequest]
           /\ \A q \in Analyst : patching'[q].pc \in {"get", "write"} =>
                  patching'[q].todo # <<>> /\ patching'[q].patch \in Patch
           /\ \A q \in Analyst : patching'[q].pc = "write" => q # r /\ patching'[q] = patching[q]
<1> DEFINE todo == Tail(patching[r].todo)
           pc == IF todo = <<>> THEN "done" ELSE "get"
           k == Request(pc, todo, patching[r].patch, NoRecord, 0)
<1>1. patching' = [patching EXCEPT ![r] = k]
  BY DEF NextAlert
<1>2. todo \in Seq(Alert) /\ patching[r].patch \in Patch /\ pc \in {"new", "get", "write", "done"} /\ pc # "write"
  BY DEF TriageTypes, PatchRequest
<1>3. pc = "get" => todo # <<>>
  OBVIOUS
<1> HIDE DEF todo, pc
<1>4. /\ k \in PatchRequest
      /\ k.pc = pc /\ k.todo = todo /\ k.patch = patching[r].patch
  <2>1. /\ patching[r].patch \in Patch \cup {Keep} /\ NoRecord \in AlertRecord \cup {NoRecord} /\ 0 \in Nat
        /\ todo \in Seq(Alert) /\ pc \in {"new", "get", "write", "done"}
    BY <1>2
  <2> QED
    BY <2>1 DEF Request, PatchRequest
<1> HIDE DEF k
<1>5. \A q \in Analyst : patching'[q] = IF q = r THEN k ELSE patching[q]
  BY <1>1 DEF TriageTypes
<1>6. patching' \in [Analyst -> PatchRequest]
  BY <1>1, <1>4 DEF TriageTypes
<1>7. \A q \in Analyst : patching'[q].pc \in {"get", "write"} =>
          patching'[q].todo # <<>> /\ patching'[q].patch \in Patch
  BY <1>2, <1>3, <1>4, <1>5 DEF TriageTypes
<1>8. \A q \in Analyst : patching'[q].pc = "write" => q # r /\ patching'[q] = patching[q]
  BY <1>2, <1>4, <1>5
<1> QED
  BY <1>6, <1>7, <1>8

\* A step that leaves the store and the writes alone, and brings no request to
\* its write, keeps what is held.
LEMMA HeldStill ==
    ASSUME RecordsHold, CopiesHold, UNCHANGED <<store, writes>>,
           \A q \in Analyst : patching'[q].pc = "write" => patching'[q] = patching[q]
    PROVE  RecordsHold' /\ CopiesHold'
<1>1. RecordsHold'
  BY DEF RecordsHold, Holds, Overwritten
<1>2. ASSUME NEW q \in Analyst, patching'[q].pc = "write"
      PROVE  LET a == Head(patching'[q].todo)
             IN  /\ store'[a] # NoRecord /\ patching'[q].rec # NoRecord
                 /\ patching'[q].seen <= Len(writes')
                 /\ Holds(patching'[q].rec.notes, a, patching'[q].seen, writes')
  BY <1>2 DEF CopiesHold
<1> QED
  BY <1>1, <1>2 DEF CopiesHold, Holds, Overwritten

---------------------------------------------------------------------------
(* The invariant                                                           *)

\* The invariant holds before anything is pushed.
LEMMA TriageInitial == TriageInit => TriageInv
<1> SUFFICES ASSUME TriageInit PROVE TriageInv
  OBVIOUS
<1>1. NoPatch \in PatchRequest /\ NoPatch.pc = "new"
  <2>1. Keep \in Patch \cup {Keep} /\ NoRecord \in AlertRecord \cup {NoRecord} /\ <<>> \in Seq(Alert) /\ 0 \in Nat
    OBVIOUS
  <2> QED
    BY <2>1 DEF NoPatch, Request, PatchRequest
<1>2. loop.pc = "idle"
  BY DEF TriageInit, LoopIdle
<1>3. TriageTypes
  BY <1>1, <1>2 DEF TriageTypes, TriageInit
<1>4. RecordsHold /\ CopiesHold /\ FreshOnly
  BY <1>1, <1>2 DEF RecordsHold, CopiesHold, FreshOnly, TriageInit
<1> QED
  BY <1>3, <1>4 DEF TriageInv

\* A push, and an upsert that finds its record, fails or is about to write.
LEMMA LoopSteps ==
    ASSUME TriageInv, (\E a \in Alert : Push(a)) \/ UpsertGet \/ UpsertFails
    PROVE  TriageInv'
<1>1. UNCHANGED <<store, patching, writes>>
  BY DEF Push, UpsertGet, UpsertFails
<1>2. RecordsHold' /\ CopiesHold'
  BY <1>1, HeldStill DEF TriageInv
<1>3. CASE \E a \in Alert : Push(a)
  <2>1. loop'.pc = "get" /\ loop'.alert \in Alert
    BY <1>3 DEF Push
  <2> QED
    BY <2>1, <1>1, <1>2 DEF TriageInv, TriageTypes, FreshOnly
<1>4. CASE UpsertGet
  <2>1. \/ loop'.pc = "idle"
        \/ loop'.pc = "write" /\ loop'.alert = loop.alert /\ loop.alert \in Alert /\ store[loop.alert] = NoRecord
    BY <1>4 DEF UpsertGet, Found, LoopIdle, TriageInv, TriageTypes
  <2> QED
    BY <2>1, <1>1, <1>2 DEF TriageInv, TriageTypes, FreshOnly
<1>5. CASE UpsertFails
  <2>1. loop'.pc = "idle"
    BY <1>5 DEF UpsertFails, LoopIdle
  <2> QED
    BY <2>1, <1>1, <1>2 DEF TriageInv, TriageTypes, FreshOnly
<1> QED
  BY <1>3, <1>4, <1>5

\* A fresh record goes where no record was: nobody has patched that alert, and
\* nobody is about to.
LEMMA UpsertWriteStep == ASSUME TriageInv, UpsertWrite PROVE TriageInv'
<1> DEFINE a == loop.alert
<1>1. /\ a \in Alert /\ store[a] = NoRecord /\ store' = [store EXCEPT ![a] = NewRecord]
      /\ loop'.pc = "idle" /\ UNCHANGED <<patching, writes>>
  BY DEF UpsertWrite, LoopIdle, TriageInv, TriageTypes, FreshOnly
<1>2. \A b \in Alert : store'[b] = IF b = a THEN NewRecord ELSE store[b]
  BY <1>1 DEF TriageInv, TriageTypes
<1> HIDE DEF a
<1>3. TriageTypes'
  BY <1>1, RecordType DEF TriageInv, TriageTypes
<1>4. \A i \in DOMAIN writes : writes[i].fp # a
  BY <1>1 DEF TriageInv, RecordsHold
<1>5. Len(writes) \in Nat /\ DOMAIN writes = 1 .. Len(writes)
  BY DEF TriageInv, TriageTypes
<1>6. Holds(NewRecord.notes, a, Len(writes), writes)
  BY <1>4, <1>5 DEF Holds
<1>7. ASSUME NEW b \in Alert
      PROVE  IF store'[b] = NoRecord THEN \A i \in DOMAIN writes' : writes'[i].fp # b
                                     ELSE Holds(store'[b].notes, b, Len(writes'), writes')
  BY <1>1, <1>2, <1>6, RecordType DEF TriageInv, RecordsHold
<1>8. RecordsHold'
  BY <1>7 DEF RecordsHold, Holds, Overwritten
<1>9. ASSUME NEW q \in Analyst, patching'[q].pc = "write"
      PROVE  LET b == Head(patching'[q].todo)
             IN  /\ store'[b] # NoRecord /\ patching'[q].rec # NoRecord
                 /\ patching'[q].seen <= Len(writes')
                 /\ Holds(patching'[q].rec.notes, b, patching'[q].seen, writes')
  <2>1. Head(patching[q].todo) \in Alert
    BY <1>1, <1>9 DEF TriageInv, TriageTypes, PatchRequest
  <2> QED
    BY <2>1, <1>1, <1>2, <1>9, RecordType DEF TriageInv, CopiesHold
<1>10. CopiesHold'
  BY <1>9 DEF CopiesHold, Holds, Overwritten
<1> QED
  BY <1>1, <1>3, <1>8, <1>10 DEF TriageInv, FreshOnly
\* A request that arrives has read nothing yet.
LEMMA AskPatchStep ==
    ASSUME TriageInv, NEW r \in Analyst, NEW fps \in Lists, NEW p \in Patch, AskPatch(r, fps, p)
    PROVE  TriageInv'
<1> DEFINE k == Request("get", fps, p, NoRecord, 0)
<1>1. patching' = [patching EXCEPT ![r] = k] /\ UNCHANGED <<store, loop, writes>>
  BY DEF AskPatch
<1>2. fps \in Seq(Alert) /\ fps # <<>>
  BY AlertTriageAssumption
<1>3. k \in PatchRequest /\ k.pc = "get" /\ k.todo = fps /\ k.patch = p
  BY <1>2 DEF Request, PatchRequest
<1> HIDE DEF k
<1>4. \A q \in Analyst : patching'[q] = IF q = r THEN k ELSE patching[q]
  BY <1>1 DEF TriageInv, TriageTypes
<1>5. TriageTypes'
  BY <1>1, <1>2, <1>3, <1>4 DEF TriageInv, TriageTypes
<1>6. \A q \in Analyst : patching'[q].pc = "write" => patching'[q] = patching[q]
  BY <1>3, <1>4
<1>7. RecordsHold' /\ CopiesHold'
  BY <1>1, <1>6, HeldStill DEF TriageInv
<1> QED
  BY <1>1, <1>5, <1>7 DEF TriageInv, FreshOnly

\* A read copies a record that holds its notes, and has seen every write.
LEMMA PatchGetStep == ASSUME TriageInv, NEW r \in Analyst, PatchGet(r) PROVE TriageInv'
<1> DEFINE fp == Head(patching[r].todo)
           k == Request("write", patching[r].todo, patching[r].patch, store[fp], Len(writes))
<1>1. /\ patching[r].pc = "get" /\ UNCHANGED <<store, loop, writes>>
      /\ patching' = IF store[fp] = NoRecord THEN NextAlert(r) ELSE [patching EXCEPT ![r] = k]
  BY DEF PatchGet
<1>2. fp \in Alert /\ patching[r].todo \in Seq(Alert) /\ patching[r].todo # <<>> /\ patching[r].patch \in Patch
  BY <1>1 DEF TriageInv, TriageTypes, PatchRequest
<1>3. CASE store[fp] = NoRecord
  <2>1. patching' = NextAlert(r) /\ patching[r].pc \in {"get", "write"} /\ TriageTypes
    BY <1>1, <1>3 DEF TriageInv
  <2>2. /\ patching' \in [Analyst -> PatchRequest]
        /\ \A q \in Analyst : patching'[q].pc \in {"get", "write"} =>
               patching'[q].todo # <<>> /\ patching'[q].patch \in Patch
        /\ \A q \in Analyst : patching'[q].pc = "write" => q # r /\ patching'[q] = patching[q]
    BY <2>1, NextAlertFacts
  <2>3. RecordsHold' /\ CopiesHold'
    BY <2>2, <1>1, HeldStill DEF TriageInv
  <2> QED
    BY <2>2, <2>3, <1>1 DEF TriageInv, TriageTypes, FreshOnly
<1>4. CASE store[fp] # NoRecord
  <2>1. store[fp] \in AlertRecord /\ Len(writes) \in Nat /\ store[fp] \in AlertRecord \cup {NoRecord}
    BY <1>2, <1>4 DEF TriageInv, TriageTypes
  <2>2. Holds(store[fp].notes, fp, Len(writes), writes)
    BY <1>2, <1>4 DEF TriageInv, RecordsHold
  <2>3. /\ k \in PatchRequest /\ k.pc = "write" /\ k.todo = patching[r].todo /\ k.patch = patching[r].patch
        /\ k.rec = store[fp] /\ k.seen = Len(writes)
    BY <2>1, <1>2 DEF Request, PatchRequest
  <2>4. patching' = [patching EXCEPT ![r] = k]
    BY <1>1, <1>4
  <2> HIDE DEF k
  <2>5. \A q \in Analyst : patching'[q] = IF q = r THEN k ELSE patching[q]
    BY <2>4 DEF TriageInv, TriageTypes
  <2>6. TriageTypes'
    BY <2>3, <2>4, <2>5, <1>1, <1>2 DEF TriageInv, TriageTypes
  <2>7. RecordsHold'
    BY <1>1 DEF TriageInv, RecordsHold, Holds, Overwritten
  <2>8. ASSUME NEW q \in Analyst, patching'[q].pc = "write"
        PROVE  LET a == Head(patching'[q].todo)
               IN  /\ store'[a] # NoRecord /\ patching'[q].rec # NoRecord
                   /\ patching'[q].seen <= Len(writes')
                   /\ Holds(patching'[q].rec.notes, a, patching'[q].seen, writes')
    <3>1. CASE q = r
      <4>1. /\ Head(patching'[q].todo) = fp /\ patching'[q].rec = store[fp] /\ patching'[q].seen = Len(writes)
        BY <3>1, <2>3, <2>5
      <4> HIDE DEF fp
      <4> QED
        BY <4>1, <2>1, <2>2, <1>1, <1>4
    <3>2. CASE q # r
      <4>1. patching'[q] = patching[q]
        BY <3>2, <2>5
      <4> QED
        BY <4>1, <2>8, <1>1 DEF TriageInv, CopiesHold
    <3> QED
      BY <3>1, <3>2
  <2>9. CopiesHold'
    BY <2>8 DEF CopiesHold, Holds, Overwritten
  <2> QED
    BY <2>6, <2>7, <2>9, <1>1 DEF TriageInv, FreshOnly
<1> QED
  BY <1>3, <1>4

\* A write keeps the notes its request had seen, adds its own, and overwrites
\* the notes it had not seen.
LEMMA PatchWriteStep == ASSUME TriageInv, NEW r \in Analyst, PatchWrite(r) PROVE TriageInv'
<1> DEFINE fp == Head(patching[r].todo)
           p == patching[r].patch
           old == patching[r].rec
           new == Patched(old, p, r)
           w == [fp |-> fp, by |-> r, note |-> p.note, seen |-> patching[r].seen]
<1>1. /\ patching[r].pc = "write" /\ patching' = NextAlert(r) /\ UNCHANGED loop
      /\ store' = [store EXCEPT ![fp] = new] /\ writes' = Append(writes, w)
  BY DEF PatchWrite
<1>2. fp \in Alert /\ p \in Patch /\ old \in AlertRecord /\ patching[r].seen \in Nat
  BY <1>1 DEF TriageInv, TriageTypes, PatchRequest, CopiesHold
<1>3. store[fp] # NoRecord /\ patching[r].seen <= Len(writes) /\ Holds(old.notes, fp, patching[r].seen, writes)
  BY <1>1 DEF TriageInv, CopiesHold
<1>4. /\ new \in AlertRecord /\ new # NoRecord
      /\ new.notes = IF p.note THEN Append(old.notes, r) ELSE old.notes
      /\ p.note \in BOOLEAN
  BY <1>2, RecordType
<1>5. w \in WriteEntry /\ w.fp = fp /\ w.by = r /\ w.note = p.note /\ w.seen = patching[r].seen
  BY <1>2, <1>4 DEF WriteEntry
<1>6. new.notes \in Seq(Analyst) /\ old.notes \in Seq(Analyst)
  BY <1>2, <1>4 DEF AlertRecord
<1> HIDE DEF fp, p, old, new, w
<1>7. writes \in Seq(WriteEntry) /\ writes' \in Seq(WriteEntry) /\ Len(writes) \in Nat /\ Len(writes') = Len(writes) + 1
  BY <1>1, <1>5 DEF TriageInv, TriageTypes
<1>8. Holds(new.notes, fp, Len(writes'), writes')
  <2>1. Holds(old.notes, w.fp, w.seen, writes) /\ w.seen <= Len(writes)
    BY <1>3, <1>5
  <2>2. new.notes = IF w.note THEN Append(old.notes, w.by) ELSE old.notes
    BY <1>4, <1>5
  <2>3. Holds(new.notes, w.fp, Len(writes) + 1, Append(writes, w))
    BY <2>1, <2>2, <1>5, <1>6, <1>7, HoldsWritten
  <2> QED
    BY <2>3, <1>1, <1>5, <1>7
<1>9. \A a \in Alert : store'[a] = IF a = fp THEN new ELSE store[a]
  BY <1>1 DEF TriageInv, TriageTypes
<1>10. /\ patching' \in [Analyst -> PatchRequest]
       /\ \A q \in Analyst : patching'[q].pc \in {"get", "write"} =>
              patching'[q].todo # <<>> /\ patching'[q].patch \in Patch
       /\ \A q \in Analyst : patching'[q].pc = "write" => q # r /\ patching'[q] = patching[q]
  <2>1. patching[r].pc \in {"get", "write"} /\ TriageTypes
    BY <1>1 DEF TriageInv
  <2> QED
    BY <2>1, <1>1, NextAlertFacts
<1>11. TriageTypes'
  BY <1>1, <1>4, <1>7, <1>10 DEF TriageInv, TriageTypes
<1>12. ASSUME NEW a \in Alert
       PROVE  IF store'[a] = NoRecord THEN \A i \in DOMAIN writes' : writes'[i].fp # a
                                      ELSE Holds(store'[a].notes, a, Len(writes'), writes')
  <2>1. CASE a = fp
    BY <2>1, <1>4, <1>8, <1>9
  <2>2. CASE a # fp /\ store[a] = NoRecord
    <3>1. store'[a] = NoRecord /\ \A i \in DOMAIN writes : writes[i].fp # a
      BY <2>2, <1>9 DEF TriageInv, RecordsHold
    <3>2. \A i \in DOMAIN writes' : writes'[i] = w \/ (i \in DOMAIN writes /\ writes'[i] = writes[i])
      BY <1>1, <1>5, <1>7
    <3> QED
      BY <3>1, <3>2, <2>2, <1>5
  <2>3. CASE a # fp /\ store[a] # NoRecord
    <3>1. store'[a] = store[a] /\ Holds(store[a].notes, a, Len(writes), writes) /\ w.fp # a
      BY <2>3, <1>5, <1>9 DEF TriageInv, RecordsHold
    <3>2. Holds(store[a].notes, a, Len(writes) + 1, Append(writes, w))
      BY <3>1, <1>5, <1>7, HoldsElsewhere
    <3> QED
      BY <3>1, <3>2, <2>3, <1>1, <1>7
  <2> QED
    BY <2>1, <2>2, <2>3
<1>13. RecordsHold'
  BY <1>12 DEF RecordsHold, Holds, Overwritten
<1>14. ASSUME NEW q \in Analyst, patching'[q].pc = "write"
       PROVE  LET a == Head(patching'[q].todo)
              IN  /\ store'[a] # NoRecord /\ patching'[q].rec # NoRecord
                  /\ patching'[q].seen <= Len(writes')
                  /\ Holds(patching'[q].rec.notes, a, patching'[q].seen, writes')
  <2> DEFINE a == Head(patching[q].todo)
  <2>1. patching'[q] = patching[q] /\ patching[q].pc = "write"
    BY <1>10, <1>14
  <2>2. /\ store[a] # NoRecord /\ patching[q].rec # NoRecord /\ patching[q].seen <= Len(writes)
        /\ Holds(patching[q].rec.notes, a, patching[q].seen, writes)
    BY <2>1 DEF TriageInv, CopiesHold
  <2>3. a \in Alert /\ patching[q].seen \in Nat
    BY <2>1 DEF TriageInv, TriageTypes, PatchRequest
  <2> HIDE DEF a
  <2>4. patching[q].seen \in 0 .. Len(writes)
    BY <2>2, <2>3, <1>7
  <2>5. Holds(patching[q].rec.notes, a, patching[q].seen, Append(writes, w))
    BY <2>2, <2>4, <1>5, <1>7, HoldsLater
  <2>6. store'[a] # NoRecord
    BY <2>2, <2>3, <1>4, <1>9
  <2>7. patching[q].seen <= Len(writes')
    BY <2>2, <2>3, <1>7
  <2> QED
    BY <2>1, <2>2, <2>5, <2>6, <2>7, <1>1 DEF a
<1>15. CopiesHold'
  BY <1>14 DEF CopiesHold, Holds, Overwritten
<1>16. FreshOnly'
  BY <1>1, <1>2, <1>3, <1>9 DEF TriageInv, TriageTypes, FreshOnly
<1> QED
  BY <1>11, <1>13, <1>15, <1>16 DEF TriageInv

\* A failed transaction moves its request on and changes nothing else.
LEMMA PatchFailsStep == ASSUME TriageInv, NEW r \in Analyst, PatchFails(r) PROVE TriageInv'
<1>1. patching' = NextAlert(r) /\ patching[r].pc \in {"get", "write"} /\ TriageTypes /\ UNCHANGED <<store, loop, writes>>
  BY DEF PatchFails, TriageInv
<1>2. /\ patching' \in [Analyst -> PatchRequest]
      /\ \A q \in Analyst : patching'[q].pc \in {"get", "write"} =>
             patching'[q].todo # <<>> /\ patching'[q].patch \in Patch
      /\ \A q \in Analyst : patching'[q].pc = "write" => q # r /\ patching'[q] = patching[q]
  BY <1>1, NextAlertFacts
<1>3. RecordsHold' /\ CopiesHold'
  BY <1>1, <1>2, HeldStill DEF TriageInv
<1> QED
  BY <1>1, <1>2, <1>3 DEF TriageInv, TriageTypes, FreshOnly

\* A restart ends the requests; the store is what it was.
LEMMA TriageRestartStep == ASSUME TriageInv, TriageRestart PROVE TriageInv'
<1> DEFINE k == Request("done", <<>>, Keep, NoRecord, 0)
<1>1. /\ patching' = [r \in Analyst |-> IF patching[r].pc = "new" THEN patching[r] ELSE k]
      /\ loop'.pc = "idle" /\ UNCHANGED <<store, writes>>
  BY DEF TriageRestart, LoopIdle
<1>2. k \in PatchRequest /\ k.pc = "done"
  <2>1. Keep \in Patch \cup {Keep} /\ NoRecord \in AlertRecord \cup {NoRecord} /\ <<>> \in Seq(Alert) /\ 0 \in Nat
    OBVIOUS
  <2> QED
    BY <2>1 DEF Request, PatchRequest
<1> HIDE DEF k
<1>3. \A q \in Analyst : patching'[q].pc \in {"new", "done"} /\ patching'[q] \in PatchRequest
  BY <1>1, <1>2 DEF TriageInv, TriageTypes
<1>4. TriageTypes'
  BY <1>1, <1>2, <1>3 DEF TriageInv, TriageTypes
<1>5. RecordsHold' /\ CopiesHold'
  BY <1>1, <1>3, HeldStill DEF TriageInv
<1> QED
  BY <1>1, <1>4, <1>5 DEF TriageInv, FreshOnly

\* Every step keeps the invariant.
LEMMA TriageStep == TriageInv /\ [TriageNext]_triageVars => TriageInv'
<1> SUFFICES ASSUME TriageInv, [TriageNext]_triageVars PROVE TriageInv'
  OBVIOUS
<1>1. CASE (\E a \in Alert : Push(a)) \/ UpsertGet \/ UpsertFails
  BY <1>1, LoopSteps
<1>2. CASE UpsertWrite
  BY <1>2, UpsertWriteStep
<1>3. CASE \E r \in Analyst, fps \in Lists, p \in Patch : AskPatch(r, fps, p)
  BY <1>3, AskPatchStep
<1>4. CASE \E r \in Analyst : PatchGet(r) \/ PatchWrite(r) \/ PatchFails(r)
  BY <1>4, PatchGetStep, PatchWriteStep, PatchFailsStep
<1>5. CASE TriageRestart
  BY <1>5, TriageRestartStep
<1>6. CASE UNCHANGED triageVars
  BY <1>6 DEF triageVars, TriageInv, TriageTypes, RecordsHold, CopiesHold, FreshOnly, Holds, Overwritten
<1> QED
  BY <1>1, <1>2, <1>3, <1>4, <1>5, <1>6 DEF TriageNext

\* In every state the records, and the copies that requests read of them, hold
\* their notes, and the run loop overwrites no record.
THEOREM TriageInvariant == TriageSpec => []TriageInv
  BY TriageInitial, TriageStep, PTL DEF TriageSpec

\* patch_alert: a note that was written stays on its alert, unless a patch that
\* had read the record before it is written after it.
THEOREM NotesAlways == TriageSpec => []NotesKept
<1>1. TriageInv => NotesKept
  <2> SUFFICES ASSUME TriageInv, NEW i \in DOMAIN writes, writes[i].note
               PROVE  \/ writes[i].by \in Range(store[writes[i].fp].notes)
                      \/ \E j \in DOMAIN writes : j > i /\ writes[j].fp = writes[i].fp /\ writes[j].seen < i
    BY DEF NotesKept
  <2>1. writes[i].fp \in Alert /\ i \in 1 .. Len(writes)
    <3>1. writes \in Seq(WriteEntry)
      BY DEF TriageInv, TriageTypes
    <3>2. i \in 1 .. Len(writes) /\ writes[i] \in WriteEntry
      BY <3>1
    <3> QED
      BY <3>2 DEF WriteEntry
  <2>2. Holds(store[writes[i].fp].notes, writes[i].fp, Len(writes), writes)
    BY <2>1 DEF TriageInv, RecordsHold
  <2> QED
    BY <2>1, <2>2 DEF Holds, Overwritten
<1> QED
  BY <1>1, TriageInvariant, PTL

---------------------------------------------------------------------------
(* The ring of recent alerts, for any ring size and any times.             *)
(*                                                                         *)
(* The argument: the ring is what is kept of the hydrated alerts, in the   *)
(* order of their times, followed by the last of what was pushed since.    *)
(* A push into a full ring drops the oldest of the kept ones, so what is   *)
(* kept stays newer than what is not; when none is left it drops the       *)
(* oldest push.  That a restart finds the newest alerts rests on           *)
(* list_alerts: a finite table can be sorted, and sorting loses nothing.   *)

RingTypes ==
    /\ ring \in Seq(Alert) /\ since \in Seq(Alert) /\ hydrated \in SUBSET Alert
    /\ IsFiniteSet(Stored) /\ IsFiniteSet(hydrated)

\* The ring has room for Cap alerts, and holds that many if it was given them.
RingSized ==
    LET known == Cardinality(hydrated) + Len(since)
    IN  Len(ring) = IF known > Cap THEN Cap ELSE known

\* The back of the ring is the back of what was pushed.
RingRecent ==
    \A i \in 1 .. Len(ring) : i + Len(since) - Len(ring) >= 1 => ring[i] = since[i + Len(since) - Len(ring)]

\* The front of the ring is sorted, and newer than the hydrated alerts it lacks.
RingKept ==
    Len(since) < Cap =>
        /\ \A i, j \in 1 .. (Len(ring) - Len(since)) : i < j => Ts[ring[i]] <= Ts[ring[j]]
        /\ \A b \in hydrated :
               \/ \E i \in 1 .. (Len(ring) - Len(since)) : ring[i] = b
               \/ \A i \in 1 .. (Len(ring) - Len(since)) : Ts[ring[i]] >= Ts[b]

\* What the ring shows is stored, failed to be, or is being stored.
RingStored ==
    \A i \in 1 .. Len(ring) :
        store[ring[i]] # NoRecord \/ ring[i] \in unsaved \/ (loop.pc # "idle" /\ loop.alert = ring[i])

\* The inductive invariant.
RingInv == RingTypes /\ RingSized /\ RingRecent /\ RingKept /\ RingStored

\* Sorts(s, S): s has the elements of S, the newest first.
Sorts(s, S) ==
    s \in [1 .. Cardinality(S) -> S] /\ \A i, j \in DOMAIN s : i < j => s[i] # s[j] /\ Ts[s[i]] >= Ts[s[j]]

LEMMA OldestOf ==
    ASSUME NEW S \in SUBSET Alert, S # {}
    PROVE  \E x \in S : \A y \in S : Ts[y] >= Ts[x]
<1> DEFINE R == {p \in Nat \X Nat : p[1] < p[2]}
           N == {Ts[y] : y \in S}
<1>1. Ts \in [Alert -> Nat]
  BY AlertTriageAssumption
<1>2. N \in SUBSET Nat /\ N # {}
  BY <1>1
<1>3. \E u \in N : \A v \in N : <<v, u>> \notin R
  <2>1. IsWellFoundedOn(R, Nat)
    BY NatLessThanWellFounded DEF OpToRel
  <2> HIDE DEF R, N
  <2> QED BY <1>2, <2>1, WFMin
<1>4. PICK u \in N : \A v \in N : ~(v < u)
  BY <1>2, <1>3
<1>5. PICK x \in S : u = Ts[x]
  OBVIOUS
<1>6. \A y \in S : Ts[y] \in N /\ Ts[y] \in Nat
  BY <1>1
<1>7. \A y \in S : Ts[y] \in Nat /\ ~(Ts[y] < Ts[x])
  BY <1>4, <1>5, <1>6
<1> QED BY <1>7

\* Every finite set of alerts can be sorted: a smallest one that could not be
\* could be without its oldest alert.
LEMMA SortedExists ==
    ASSUME NEW S \in SUBSET Alert, IsFiniteSet(S)
    PROVE  \E s : Sorts(s, S)
<1> DEFINE N == {k \in Nat : \E T \in SUBSET Alert : IsFiniteSet(T) /\ Cardinality(T) = k /\ ~\E s : Sorts(s, T)}
           R == {p \in Nat \X Nat : p[1] < p[2]}
<1>1. Cardinality(S) \in Nat
  BY FS_CardinalityType
<1> SUFFICES ASSUME N # {} PROVE FALSE
  BY <1>1
<1>2. N \in SUBSET Nat
  OBVIOUS
<1>3. PICK k \in N : \A m \in N : ~(m < k)
  <2>1. IsWellFoundedOn(R, Nat)
    BY NatLessThanWellFounded DEF OpToRel
  <2>2. \E u \in N : \A v \in N : <<v, u>> \notin R
    <3> HIDE DEF R, N
    <3> QED BY <1>2, <2>1, WFMin
  <2> QED BY <2>2
<1>4. PICK T \in SUBSET Alert : IsFiniteSet(T) /\ Cardinality(T) = k /\ ~\E s : Sorts(s, T)
  OBVIOUS
<1>5. T # {}
  <2> SUFFICES ASSUME T = {} PROVE FALSE
    OBVIOUS
  <2>1. Cardinality(T) = 0
    BY FS_EmptySet
  <2>2. Sorts([i \in 1 .. 0 |-> 0], T)
    BY <2>1 DEF Sorts
  <2> QED BY <2>2, <1>4
<1>6. PICK x \in T : \A y \in T : Ts[y] >= Ts[x]
  BY <1>4, <1>5, OldestOf
<1> DEFINE U == T \ {x}
<1>7. U \in SUBSET Alert /\ IsFiniteSet(U) /\ Cardinality(U) = k - 1 /\ k \in Nat /\ k - 1 \in Nat
  <2>1. Cardinality(U) = k - 1 /\ IsFiniteSet(U)
    BY <1>4, <1>6, FS_RemoveElement
  <2>2. Cardinality(U) \in Nat
    BY <2>1, FS_CardinalityType
  <2> QED BY <2>1, <2>2
<1>8. \E s : Sorts(s, U)
  <2>1. k - 1 \notin N
    BY <1>3, <1>7
  <2> HIDE DEF U
  <2> QED BY <2>1, <1>7
<1>9. PICK s : Sorts(s, U)
  BY <1>8
<1> DEFINE r == [i \in 1 .. k |-> IF i = k THEN x ELSE s[i]]
<1>10. s \in [1 .. k - 1 -> U] /\ \A i, j \in 1 .. k - 1 : i < j => s[i] # s[j] /\ Ts[s[i]] >= Ts[s[j]]
  BY <1>7, <1>9 DEF Sorts
<1>11. \A i \in 1 .. k : i # k => i \in 1 .. k - 1
  BY <1>7
<1>12. r \in [1 .. k -> T]
  BY <1>6, <1>10, <1>11
<1>13. ASSUME NEW i \in 1 .. k, NEW j \in 1 .. k, i < j PROVE r[i] # r[j] /\ Ts[r[i]] >= Ts[r[j]]
  <2>1. i \in 1 .. k - 1 /\ r[i] = s[i] /\ s[i] \in U
    BY <1>7, <1>10, <1>13
  <2>2. CASE j = k
    <3>1. s[i] # x /\ Ts[s[i]] >= Ts[x]
      BY <2>1, <1>6
    <3> QED BY <2>1, <2>2, <3>1
  <2>3. CASE j # k
    BY <2>1, <2>3, <1>10, <1>11, <1>13
  <2> QED BY <2>2, <2>3
<1>14. Sorts(r, T)
  BY <1>4, <1>12, <1>13 DEF Sorts
<1> QED BY <1>4, <1>14

\* list_alerts returns every alert of the table.
LEMMA NewestFirstSorts ==
    ASSUME NEW S \in SUBSET Alert, IsFiniteSet(S)
    PROVE  /\ Cardinality(S) \in Nat
           /\ NewestFirst(S) \in [1 .. Cardinality(S) -> S]
           /\ \A i, j \in 1 .. Cardinality(S) : i < j => Ts[NewestFirst(S)[i]] >= Ts[NewestFirst(S)[j]]
           /\ \A x \in S : \E k \in 1 .. Cardinality(S) : NewestFirst(S)[k] = x
<1> DEFINE s == NewestFirst(S)
           D == 1 .. Cardinality(S)
<1>1. Cardinality(S) \in Nat
  BY FS_CardinalityType
<1>2. s \in [D -> S] /\ \A i, j \in DOMAIN s : i < j => s[i] # s[j] /\ Ts[s[i]] >= Ts[s[j]]
  <2>1. \E t \in [D -> S] : \A i, j \in DOMAIN t : i < j => t[i] # t[j] /\ Ts[t[i]] >= Ts[t[j]]
    BY SortedExists DEF Sorts
  <2> QED BY <2>1 DEF NewestFirst
<1>3. s \in Injection(D, S)
  <2> SUFFICES ASSUME NEW i \in D, NEW j \in D, s[i] = s[j] PROVE i = j
    BY <1>2 DEF Injection, IsInjective
  <2>1. i \in Nat /\ j \in Nat
    BY <1>1
  <2>2. ~(i < j) /\ ~(j < i)
    BY <1>2
  <2> HIDE DEF s, D
  <2> QED BY <2>1, <2>2
<1>4. s \in Surjection(D, S)
  <2>1. Cardinality(D) = Cardinality(S)
    BY <1>1, FS_Interval
  <2> HIDE DEF s, D
  <2> QED BY <1>1, <1>3, <2>1, FS_Injection
<1>5. \A x \in S : \E k \in D : s[k] = x
  BY <1>4 DEF Surjection
<1> HIDE DEF s
<1> QED BY <1>1, <1>2, <1>5 DEF s


---------------------------------------------------------------------------
(* The steps                                                               *)

\* The ring is never longer than its room, and the pushes come first.
LEMMA RingLength ==
    ASSUME RingTypes, RingSized
    PROVE  LET L == Len(ring)
               n == Len(since)
           IN  /\ L \in Nat /\ n \in Nat /\ Cap \in Nat /\ Cap # 0
               /\ L <= Cap /\ (n < Cap => L >= n) /\ (n >= Cap => L = Cap)
<1> DEFINE h == Cardinality(hydrated)
           n == Len(since)
           L == Len(ring)
<1>1. h \in Nat
  BY FS_CardinalityType DEF RingTypes
<1>2. n \in Nat /\ L \in Nat /\ Cap \in Nat /\ Cap # 0
  BY AlertTriageAssumption DEF RingTypes
<1>3. L = IF h + n > Cap THEN Cap ELSE h + n
  BY DEF RingSized
<1> HIDE DEF h, n, L
<1>4. L <= Cap /\ (n < Cap => L >= n) /\ (n >= Cap => L = Cap)
  BY <1>1, <1>2, <1>3
<1> QED BY <1>2, <1>4 DEF n, L

\* RingPush, position by position.
LEMMA RingPushed ==
    ASSUME RingTypes, RingSized, NEW a \in Alert
    PROVE  LET L == Len(ring)
               q == RingPush(ring, a)
               d == IF L = Cap THEN 1 ELSE 0
           IN  /\ L \in Nat /\ q \in Seq(Alert)
               /\ Len(q) = L + 1 - d
               /\ \A i \in 1 .. (L - d) : q[i] = ring[i + d]
               /\ q[L + 1 - d] = a
<1> DEFINE L == Len(ring)
           t == IF L = Cap THEN Tail(ring) ELSE ring
           d == IF L = Cap THEN 1 ELSE 0
<1>1. ring \in Seq(Alert) /\ L \in Nat /\ Cap \in Nat /\ Cap # 0
  BY AlertTriageAssumption DEF RingTypes
<1>2. t \in Seq(Alert) /\ Len(t) = L - d /\ \A i \in 1 .. (L - d) : t[i] = ring[i + d]
  <2>1. CASE L = Cap
    <3>1. ring # <<>>
      BY <1>1, <2>1
    <3>2. Tail(ring) \in Seq(Alert) /\ Len(Tail(ring)) = L - 1 /\ \A i \in 1 .. (L - 1) : Tail(ring)[i] = ring[i + 1]
      BY <1>1, <3>1, HeadTailProperties
    <3> QED BY <3>2, <2>1
  <2>2. CASE L # Cap
    BY <2>2, <1>1
  <2> QED BY <2>1, <2>2
<1>3. L - d \in Nat
  BY <1>1
<1> HIDE DEF t, L, d
<1>4. /\ Append(t, a) \in Seq(Alert) /\ Len(Append(t, a)) = L - d + 1
      /\ \A i \in 1 .. (L - d) : Append(t, a)[i] = t[i]
      /\ Append(t, a)[L - d + 1] = a
  BY <1>2, <1>3
<1>5. RingPush(ring, a) = Append(t, a)
  BY DEF RingPush, t, L
<1>6. L - d + 1 = L + 1 - d
  BY <1>1, <1>3 DEF d
<1> QED BY <1>1, <1>2, <1>4, <1>5, <1>6 DEF L, d

\* push
LEMMA RingPushStep == ASSUME TriageInv, RingInv, NEW a \in Alert, Push(a) PROVE RingInv'
<1> DEFINE L == Len(ring)
           n == Len(since)
           d == IF L = Cap THEN 1 ELSE 0
<1>1. /\ ring \in Seq(Alert) /\ since \in Seq(Alert) /\ L \in Nat /\ n \in Nat /\ Cap \in Nat /\ Cap # 0
      /\ L <= Cap /\ (n < Cap => L >= n) /\ (n >= Cap => L = Cap)
  BY RingLength DEF RingInv, RingTypes
<1>2. /\ ring' \in Seq(Alert) /\ Len(ring') = L + 1 - d
      /\ \A i \in 1 .. (L - d) : ring'[i] = ring[i + d]
      /\ ring'[L + 1 - d] = a
  BY RingPushed DEF RingInv, Push
<1>3. since' \in Seq(Alert) /\ Len(since') = n + 1 /\ since'[n + 1] = a /\ \A i \in 1 .. n : since'[i] = since[i]
  BY <1>1 DEF Push
<1>4. RingTypes'
  BY <1>2, <1>3 DEF RingInv, RingTypes, Push, Stored
<1>d. d \in {0, 1} /\ (d = 1 => L = Cap) /\ (d = 0 => L # Cap)
  OBVIOUS
<1> HIDE DEF L, n, d
<1>5. RingSized'
  <2> DEFINE h == Cardinality(hydrated)
  <2>1. h \in Nat /\ L = IF h + n > Cap THEN Cap ELSE h + n
    BY FS_CardinalityType DEF RingInv, RingTypes, RingSized, L, n
  <2>2. hydrated' = hydrated
    BY DEF Push
  <2> HIDE DEF h
  <2>3. L + 1 - d = IF h + (n + 1) > Cap THEN Cap ELSE h + (n + 1)
    BY <1>1, <1>d, <2>1
  <2>4. Cardinality(hydrated') = h
    BY <2>2 DEF h
  <2> QED BY <1>2, <1>3, <2>3, <2>4 DEF RingSized
<1>6. ASSUME NEW i \in 1 .. (L + 1 - d), i + (n + 1) - (L + 1 - d) >= 1
      PROVE  ring'[i] = since'[i + (n + 1) - (L + 1 - d)]
  <2>1. CASE i = L + 1 - d
    <3>1. i + (n + 1) - (L + 1 - d) = n + 1
      BY <1>1, <1>d, <2>1
    <3> QED BY <1>2, <1>3, <2>1, <3>1
  <2>2. CASE i # L + 1 - d
    <3>1. /\ i \in 1 .. (L - d) /\ i + d \in 1 .. L
          /\ i + (n + 1) - (L + 1 - d) = (i + d) + n - L /\ (i + d) + n - L \in 1 .. n
      BY <1>1, <1>d, <1>6, <2>2
    <3>2. ring[i + d] = since[(i + d) + n - L]
      <4>1. \A h \in 1 .. L : h + n - L >= 1 => ring[h] = since[h + n - L]
        BY DEF RingInv, RingRecent, L, n
      <4>2. (i + d) + n - L >= 1
        BY <1>1, <3>1
      <4> QED BY <3>1, <4>1, <4>2
    <3> QED BY <1>2, <1>3, <3>1, <3>2
  <2> QED BY <2>1, <2>2
<1>7. RingRecent'
  BY <1>2, <1>3, <1>6 DEF RingRecent
<1>8. ASSUME n + 1 < Cap
      PROVE  /\ \A i, j \in 1 .. ((L + 1 - d) - (n + 1)) : i < j => Ts[ring'[i]] <= Ts[ring'[j]]
             /\ \A b \in hydrated :
                    \/ \E i \in 1 .. ((L + 1 - d) - (n + 1)) : ring'[i] = b
                    \/ \A i \in 1 .. ((L + 1 - d) - (n + 1)) : Ts[ring'[i]] >= Ts[b]
  <2> DEFINE k == L - n
             m == (L + 1 - d) - (n + 1)
  <2>1. k \in Nat /\ m = k - d /\ m \in Nat /\ (d = 1 => k >= 1) /\ k <= L
    BY <1>1, <1>d, <1>8
  <2>k. k = L - n
    OBVIOUS
  <2> HIDE DEF k, m
  <2>2. \A i \in 1 .. m : i + d \in 1 .. k /\ i \in 1 .. (L - d) /\ ring'[i] = ring[i + d]
    <3>1. \A i \in 1 .. m : i + d \in 1 .. k /\ i \in 1 .. (L - d)
      BY <1>1, <1>d, <2>1
    <3> QED BY <3>1, <1>2
  <2>3. n < Cap
    BY <1>1, <1>8
  <2>4. /\ \A i, j \in 1 .. k : i < j => Ts[ring[i]] <= Ts[ring[j]]
        /\ \A b \in hydrated : (\E i \in 1 .. k : ring[i] = b) \/ \A i \in 1 .. k : Ts[ring[i]] >= Ts[b]
    BY <2>3 DEF RingInv, RingKept, L, n, k
  <2>5. \A i, j \in 1 .. m : i < j => Ts[ring'[i]] <= Ts[ring'[j]]
    <3> SUFFICES ASSUME NEW i \in 1 .. m, NEW j \in 1 .. m, i < j PROVE Ts[ring'[i]] <= Ts[ring'[j]]
      OBVIOUS
    <3>1. i + d \in 1 .. k /\ j + d \in 1 .. k /\ ring'[i] = ring[i + d] /\ ring'[j] = ring[j + d]
      BY <2>2
    <3>2. i + d < j + d
      BY <1>d, <2>1
    <3> QED BY <2>4, <3>1, <3>2
  <2>6. ASSUME NEW b \in hydrated, ~\E i \in 1 .. m : ring'[i] = b
        PROVE  \A i \in 1 .. m : Ts[ring'[i]] >= Ts[b]
    <3> SUFFICES ASSUME NEW i \in 1 .. m PROVE Ts[ring'[i]] >= Ts[b]
      OBVIOUS
    <3>1. i + d \in 1 .. k /\ ring'[i] = ring[i + d]
      BY <2>2
    <3>2. CASE \A h \in 1 .. k : Ts[ring[h]] >= Ts[b]
      BY <3>1, <3>2
    <3>3. CASE \E h \in 1 .. k : ring[h] = b
      <4>1. PICK h \in 1 .. k : ring[h] = b
        BY <3>3
      <4>2. ~(h - d \in 1 .. m)
        <5> SUFFICES ASSUME h - d \in 1 .. m PROVE FALSE
          OBVIOUS
        <5>1. ring'[h - d] = ring[(h - d) + d] /\ (h - d) + d = h
          BY <1>d, <2>1, <2>2
        <5> QED BY <5>1, <4>1, <2>6
      <4>3. h = 1 /\ d = 1 /\ h < i + d
        BY <1>d, <2>1, <3>1, <4>2
      <4>4. Ts[ring[h]] <= Ts[ring[i + d]]
        BY <2>4, <3>1, <4>3
      <4>5. Ts[b] \in Nat /\ Ts[ring[i + d]] \in Nat
        <5>1. i + d \in 1 .. L
          BY <1>1, <1>d, <2>1, <3>1
        <5>2. ring[i + d] \in Alert
          BY <1>1, <5>1 DEF L
        <5>3. b \in Alert
          BY DEF RingInv, RingTypes
        <5> QED BY <5>2, <5>3, AlertTriageAssumption
      <4> QED BY <3>1, <4>1, <4>4, <4>5
    <3> QED BY <2>4, <3>2, <3>3
  <2> QED BY <2>5, <2>6 DEF m
<1>9. RingKept'
  <2>1. hydrated' = hydrated
    BY DEF Push
  <2> QED BY <1>2, <1>3, <1>8, <2>1 DEF RingKept
<1>10. RingStored'
  <2> SUFFICES ASSUME NEW i \in 1 .. (L + 1 - d)
               PROVE  \/ store'[ring'[i]] # NoRecord \/ ring'[i] \in unsaved'
                      \/ (loop'.pc # "idle" /\ loop'.alert = ring'[i])
    BY <1>2 DEF RingStored
  <2>1. /\ store' = store /\ unsaved' = unsaved /\ loop'.pc = "get" /\ loop'.alert = a /\ loop.pc = "idle"
    BY DEF Push
  <2>2. CASE i = L + 1 - d
    BY <1>2, <2>1, <2>2
  <2>3. CASE i # L + 1 - d
    <3>1. i \in 1 .. (L - d) /\ i + d \in 1 .. L
      BY <1>1, <1>d, <2>3
    <3>2. ring'[i] = ring[i + d]
      BY <1>2, <3>1
    <3>3. store[ring[i + d]] # NoRecord \/ ring[i + d] \in unsaved
      BY <2>1, <3>1 DEF RingInv, RingStored, L
    <3> QED BY <2>1, <3>2, <3>3
  <2> QED BY <2>2, <2>3
<1> QED BY <1>4, <1>5, <1>7, <1>9, <1>10 DEF RingInv


\* The alerts that have a record stay finitely many as records are written.
LEMMA StoredWith ==
    ASSUME TriageTypes, IsFiniteSet(Stored), NEW a \in Alert, NEW rec \in AlertRecord,
           store' = [store EXCEPT ![a] = rec]
    PROVE  /\ IsFiniteSet(Stored') /\ store'[a] # NoRecord
           /\ \A b \in Alert : store[b] # NoRecord => store'[b] # NoRecord
<1>1. \A b \in Alert : store'[b] = IF b = a THEN rec ELSE store[b]
  BY DEF TriageTypes
<1>2. rec # NoRecord
  BY AlertTriageAssumption
<1>3. Stored' = Stored \cup {a}
  BY <1>1, <1>2 DEF Stored
<1>4. IsFiniteSet(Stored \cup {a})
  BY FS_AddElement
<1> QED BY <1>1, <1>2, <1>3, <1>4

\* A step that leaves the ring alone and takes no alert from where it is.
LEMMA RingStill ==
    ASSUME RingInv, UNCHANGED <<ring, since, hydrated>>, IsFiniteSet(Stored'),
           \A b \in Alert :
               store[b] # NoRecord \/ b \in unsaved \/ (loop.pc # "idle" /\ loop.alert = b) =>
                   store'[b] # NoRecord \/ b \in unsaved' \/ (loop'.pc # "idle" /\ loop'.alert = b)
    PROVE  RingInv'
<1>1. RingTypes' /\ RingSized' /\ RingRecent' /\ RingKept'
  <2>1. RingTypes'
    BY DEF RingInv, RingTypes
  <2>2. RingSized'
    BY DEF RingInv, RingSized
  <2>3. RingRecent'
    BY DEF RingInv, RingRecent
  <2>4. RingKept'
    BY DEF RingInv, RingKept
  <2> QED BY <2>1, <2>2, <2>3, <2>4
<1>2. \A i \in 1 .. Len(ring) : ring[i] \in Alert
  BY DEF RingInv, RingTypes
<1>3. RingStored'
  BY <1>2 DEF RingInv, RingStored
<1> QED BY <1>1, <1>3 DEF RingInv

\* upsert_alert
LEMMA RingUpsertStep ==
    ASSUME TriageInv, RingInv, UpsertGet \/ UpsertWrite \/ UpsertFails
    PROVE  RingInv'
<1>1. IsFiniteSet(Stored) /\ loop.pc \in {"idle", "get", "write"} /\ TriageTypes
  BY DEF RingInv, RingTypes, TriageInv, TriageTypes
<1>2. CASE UpsertGet
  <2>1. UNCHANGED <<ring, since, hydrated, store, unsaved>> /\ IsFiniteSet(Stored')
    BY <1>1, <1>2 DEF UpsertGet, Stored
  <2>2. store[loop.alert] # NoRecord \/ (loop'.pc # "idle" /\ loop'.alert = loop.alert)
    BY <1>2 DEF UpsertGet, Found
  <2> QED BY <2>1, <2>2, RingStill
<1>3. CASE UpsertWrite
  <2>1. loop.alert \in Alert /\ NewRecord \in AlertRecord /\ store' = [store EXCEPT ![loop.alert] = NewRecord]
    BY <1>1, <1>3, RecordType DEF UpsertWrite, TriageTypes
  <2>2. /\ IsFiniteSet(Stored') /\ store'[loop.alert] # NoRecord
        /\ \A b \in Alert : store[b] # NoRecord => store'[b] # NoRecord
    BY <1>1, <2>1, StoredWith
  <2>3. UNCHANGED <<ring, since, hydrated>> /\ unsaved' = unsaved \ {loop.alert}
    BY <1>3 DEF UpsertWrite
  <2> QED BY <2>2, <2>3, RingStill
<1>4. CASE UpsertFails
  <2>1. UNCHANGED <<ring, since, hydrated, store>> /\ unsaved' = unsaved \cup {loop.alert} /\ IsFiniteSet(Stored')
    BY <1>1, <1>4 DEF UpsertFails, Stored
  <2> QED BY <2>1, RingStill
<1> QED BY <1>2, <1>3, <1>4

\* alert_patch and alerts_bulk_patch
LEMMA RingPatchStep ==
    ASSUME TriageInv, RingInv,
           \/ \E r \in Analyst, fps \in Lists, p \in Patch : AskPatch(r, fps, p)
           \/ \E r \in Analyst : PatchGet(r) \/ PatchWrite(r) \/ PatchFails(r)
    PROVE  RingInv'
<1>1. IsFiniteSet(Stored) /\ TriageTypes
  BY DEF RingInv, RingTypes, TriageInv
<1>2. CASE UNCHANGED <<ring, since, hydrated, store, unsaved, loop>>
  <2>1. IsFiniteSet(Stored')
    BY <1>1, <1>2 DEF Stored
  <2> QED BY <1>2, <2>1, RingStill
<1>3. ASSUME NEW r \in Analyst, PatchWrite(r) PROVE RingInv'
  <2> DEFINE fp == Head(patching[r].todo)
             rec == Patched(patching[r].rec, patching[r].patch, r)
  <2>1. fp \in Alert /\ rec \in AlertRecord
    <3>1. /\ patching[r] \in PatchRequest /\ patching[r].pc = "write"
          /\ patching[r].todo # <<>> /\ patching[r].patch \in Patch
      BY <1>1, <1>3 DEF TriageTypes, PatchWrite
    <3>2. patching[r].todo \in Seq(Alert) /\ patching[r].rec \in AlertRecord \cup {NoRecord}
      BY <3>1 DEF PatchRequest
    <3>3. patching[r].rec # NoRecord
      BY <3>1 DEF TriageInv, CopiesHold
    <3>4. fp \in Alert
      BY <3>1, <3>2
    <3> QED BY <3>1, <3>2, <3>3, <3>4, RecordType
  <2>2. store' = [store EXCEPT ![fp] = rec] /\ UNCHANGED <<ring, since, hydrated, unsaved, loop>>
    BY <1>3 DEF PatchWrite
  <2> HIDE DEF fp, rec
  <2>3. IsFiniteSet(Stored') /\ \A b \in Alert : store[b] # NoRecord => store'[b] # NoRecord
    BY <1>1, <2>1, <2>2, StoredWith
  <2> QED BY <2>2, <2>3, RingStill
<1> QED BY <1>2, <1>3 DEF AskPatch, PatchGet, PatchFails

\* hydrate fails: the ring is empty.
LEMMA RingUnreadStep ==
    ASSUME TriageInv, RingInv, TriageRestart, ring' = <<>>, hydrated' = {}
    PROVE  RingInv'
<1>1. since' = <<>> /\ store' = store /\ Cap \in Nat
  BY AlertTriageAssumption DEF TriageRestart
<1>2. IsFiniteSet(Stored') /\ IsFiniteSet(hydrated') /\ Cardinality(hydrated') = 0
  BY <1>1, FS_EmptySet DEF RingInv, RingTypes, Stored
<1>3. Len(ring') = 0 /\ Len(since') = 0
  BY <1>1
<1>4. RingTypes'
  BY <1>1, <1>2 DEF RingTypes
<1>5. RingSized'
  BY <1>1, <1>2, <1>3 DEF RingSized
<1>6. RingRecent' /\ RingKept' /\ RingStored'
  BY <1>3 DEF RingRecent, RingKept, RingStored
<1> QED BY <1>4, <1>5, <1>6 DEF RingInv

\* hydrate: the ring is the newest of what the store has.
LEMMA RingReadStep ==
    ASSUME TriageInv, RingInv, TriageRestart, ring' = Hydrated, hydrated' = Stored
    PROVE  RingInv'
<1> DEFINE S == Stored
           c == Cardinality(S)
           s == NewestFirst(S)
           m == IF c > Cap THEN Cap ELSE c
<1>1. S \in SUBSET Alert /\ IsFiniteSet(S) /\ Cap \in Nat /\ Cap # 0
  BY AlertTriageAssumption DEF RingInv, RingTypes, Stored
<1>2. /\ c \in Nat /\ s \in [1 .. c -> S]
      /\ \A i, j \in 1 .. c : i < j => Ts[s[i]] >= Ts[s[j]]
      /\ \A x \in S : \E k \in 1 .. c : s[k] = x
  <2> HIDE DEF S
  <2> QED BY <1>1, NewestFirstSorts
<1>3. /\ Ts \in [Alert -> Nat] /\ hydrated' = S /\ since' = <<>> /\ unsaved' = {} /\ store' = store /\ ring' = Hydrated
  BY AlertTriageAssumption DEF TriageRestart
<1>4. m \in Nat /\ m <= c /\ m <= Cap /\ (c > m => m = Cap) 
  BY <1>1, <1>2
<1>5. Len(s) = c
  BY <1>2
<1>6. ring' = Reverse(SubSeq(s, 1, m))
  BY <1>3, <1>5 DEF Hydrated
<1> HIDE DEF S, s, m, c
<1>7. SubSeq(s, 1, m) \in Seq(S) /\ Len(SubSeq(s, 1, m)) = m /\ \A i \in 1 .. m : SubSeq(s, 1, m)[i] = s[i]
  <2>1. \A i \in 1 .. m : s[i] \in S
    BY <1>2, <1>4
  <2>2. 1 \in Int /\ m \in Int
    BY <1>4
  <2>3. /\ SubSeq(s, 1, m) \in Seq(S) /\ Len(SubSeq(s, 1, m)) = IF 1 <= m THEN m - 1 + 1 ELSE 0
        /\ \A i \in 1 .. m - 1 + 1 : SubSeq(s, 1, m)[i] = s[1 + i - 1]
    BY <2>1, <2>2, SubSeqProperties
  <2> QED BY <2>3, <1>4
<1>8. /\ ring' \in Seq(S) /\ Len(ring') = m
      /\ \A i \in 1 .. m : ring'[i] = s[m + 1 - i] /\ m + 1 - i \in 1 .. m
  <2> DEFINE t == SubSeq(s, 1, m)
  <2>1. ring' = [i \in 1 .. m |-> t[(m - i) + 1]]
    BY <1>6, <1>7 DEF Reverse
  <2>2. \A i \in 1 .. m : (m - i) + 1 \in 1 .. m /\ (m - i) + 1 = m + 1 - i
    BY <1>4
  <2> HIDE DEF t
  <2>3. \A i \in 1 .. m : ring'[i] = s[m + 1 - i] /\ ring'[i] \in S
    <3>1. \A i \in 1 .. m : t[i] = s[i] /\ s[i] \in S
      BY <1>2, <1>4, <1>7 DEF t
    <3> QED BY <2>1, <2>2, <3>1
  <2>4. ring' \in [1 .. m -> S]
    BY <2>1, <2>3
  <2> QED BY <1>4, <2>2, <2>3, <2>4
<1>9. RingTypes'
  <2>1. ring' \in Seq(Alert)
    BY <1>1, <1>8
  <2>2. IsFiniteSet(Stored')
    BY <1>1, <1>3 DEF S, Stored
  <2> QED BY <1>1, <1>3, <2>1, <2>2 DEF RingTypes
<1>10. Len(since') = 0
  BY <1>3
<1>11. RingSized' /\ RingRecent'
  <2>1. RingRecent'
    BY <1>4, <1>8, <1>10 DEF RingRecent
  <2>2. Cardinality(hydrated') + Len(since') = c
    BY <1>2, <1>3, <1>10 DEF c
  <2>3. m = IF c > Cap THEN Cap ELSE c
    BY DEF m
  <2> QED BY <1>8, <2>1, <2>2, <2>3 DEF RingSized
<1>12. \A i, j \in 1 .. m : i < j => Ts[ring'[i]] <= Ts[ring'[j]]
  <2> SUFFICES ASSUME NEW i \in 1 .. m, NEW j \in 1 .. m, i < j PROVE Ts[ring'[i]] <= Ts[ring'[j]]
    OBVIOUS
  <2> DEFINE u == m + 1 - i
             v == m + 1 - j
  <2>1. u \in 1 .. c /\ v \in 1 .. c /\ v < u
    BY <1>2, <1>4
  <2>2. ring'[i] = s[u] /\ ring'[j] = s[v]
    BY <1>8
  <2> HIDE DEF u, v
  <2>3. Ts[s[v]] >= Ts[s[u]] /\ Ts[s[v]] \in Nat /\ Ts[s[u]] \in Nat
    BY <1>1, <1>2, <1>3, <2>1
  <2> QED BY <2>2, <2>3
<1>13. \A b \in S : (\E i \in 1 .. m : ring'[i] = b) \/ \A i \in 1 .. m : Ts[ring'[i]] >= Ts[b]
  <2> SUFFICES ASSUME NEW b \in S PROVE (\E i \in 1 .. m : ring'[i] = b) \/ \A i \in 1 .. m : Ts[ring'[i]] >= Ts[b]
    OBVIOUS
  <2>1. PICK k \in 1 .. c : s[k] = b
    BY <1>2
  <2>2. CASE k <= m
    <3>1. m + 1 - k \in 1 .. m /\ m + 1 - (m + 1 - k) = k
      BY <1>2, <1>4, <2>2
    <3>2. ring'[m + 1 - k] = b
      BY <1>8, <2>1, <3>1
    <3> QED BY <3>1, <3>2
  <2>3. CASE ~(k <= m)
    <3> SUFFICES ASSUME NEW i \in 1 .. m PROVE Ts[ring'[i]] >= Ts[b]
      OBVIOUS
    <3>1. m + 1 - i \in 1 .. c /\ m + 1 - i < k
      BY <1>2, <1>4, <2>3
    <3>2. ring'[i] = s[m + 1 - i]
      BY <1>8
    <3> QED BY <1>2, <2>1, <3>1, <3>2
  <2> QED BY <2>2, <2>3
<1>14. RingKept'
  <2>1. Len(ring') - Len(since') = m
    BY <1>4, <1>8, <1>10
  <2> QED BY <1>3, <1>12, <1>13, <2>1 DEF RingKept
<1>15. RingStored'
  <2>1. \A i \in 1 .. Len(ring') : ring'[i] \in S
    BY <1>8
  <2>2. \A x \in S : store[x] # NoRecord
    BY DEF S, Stored
  <2> QED BY <1>3, <2>1, <2>2 DEF RingStored
<1> QED BY <1>9, <1>11, <1>14, <1>15 DEF RingInv

LEMMA RingRestartStep == ASSUME TriageInv, RingInv, TriageRestart PROVE RingInv'
<1>1. (ring' = Hydrated /\ hydrated' = Stored) \/ (ring' = <<>> /\ hydrated' = {})
  BY DEF TriageRestart
<1> QED BY <1>1, RingReadStep, RingUnreadStep

LEMMA RingStep == TriageInv /\ RingInv /\ [TriageNext]_triageVars => RingInv'
<1> SUFFICES ASSUME TriageInv, RingInv, [TriageNext]_triageVars PROVE RingInv'
  OBVIOUS
<1>1. CASE \E a \in Alert : Push(a)
  BY <1>1, RingPushStep
<1>2. CASE UpsertGet \/ UpsertWrite \/ UpsertFails
  BY <1>2, RingUpsertStep
<1>3. CASE \/ \E r \in Analyst, fps \in Lists, p \in Patch : AskPatch(r, fps, p)
           \/ \E r \in Analyst : PatchGet(r) \/ PatchWrite(r) \/ PatchFails(r)
  BY <1>3, RingPatchStep
<1>4. CASE TriageRestart
  BY <1>4, RingRestartStep
<1>5. CASE UNCHANGED triageVars
  <2>1. IsFiniteSet(Stored')
    BY <1>5 DEF RingInv, RingTypes, Stored, triageVars
  <2> QED BY <1>5, <2>1, RingStill DEF triageVars
<1> QED
  BY <1>1, <1>2, <1>3, <1>4, <1>5 DEF TriageNext

LEMMA RingInitial == TriageInit => RingInv
<1> SUFFICES ASSUME TriageInit PROVE RingInv
  OBVIOUS
<1>1. Stored = {} /\ ring = <<>> /\ since = <<>> /\ hydrated = {} /\ Cap \in Nat
  BY AlertTriageAssumption DEF TriageInit, Stored
<1>2. IsFiniteSet(Stored) /\ IsFiniteSet(hydrated) /\ Cardinality(hydrated) = 0
  BY <1>1, FS_EmptySet
<1>3. ring \in Seq(Alert) /\ Len(ring) = 0 /\ Len(since) = 0
  BY <1>1
<1> QED BY <1>1, <1>2, <1>3, AlertTriageAssumption DEF RingInv, RingTypes, RingSized, RingRecent, RingKept, RingStored

\* In every state the ring is made of the newest hydrated alerts, sorted, and
\* of the last that were pushed.
THEOREM RingInvariant == TriageSpec => []RingInv
  BY TriageInvariant, RingInitial, RingStep, PTL DEF TriageSpec

\* AlertStore: GET /alerts shows the most recent alerts there are, whatever was
\* pushed, failed to be stored, patched and restarted before.
THEOREM RingAlways == TriageSpec => []RingNewest
<1>1. RingInv => RingNewest
  <2> SUFFICES ASSUME RingInv PROVE RingNewest
    OBVIOUS
  <2> DEFINE n == Len(since)
             L == Len(ring)
             w == IF n > Cap THEN Cap ELSE n
             kept == IF n >= Cap THEN {} ELSE {ring[i] : i \in 1 .. (L - n)}
  <2>1. n \in Nat /\ L \in Nat /\ Cap \in Nat /\ L <= Cap /\ (n < Cap => L >= n) /\ (n >= Cap => L = Cap)
    BY RingLength DEF RingInv
  <2>2. \A h \in 1 .. L : h + n - L >= 1 => ring[h] = since[h + n - L]
    BY DEF RingInv, RingRecent
  <2>3. w \in Nat /\ w <= n /\ w <= L
    BY <2>1
  <2>4. \A a \in kept, b \in hydrated \ kept : Ts[a] >= Ts[b]
    <3>1. CASE n >= Cap
      BY <3>1
    <3>2. CASE n < Cap
      <4>1. kept = {ring[i] : i \in 1 .. (L - n)}
        BY <2>1, <3>2
      <4>2. \A b \in hydrated : (\E i \in 1 .. (L - n) : ring[i] = b) \/ \A i \in 1 .. (L - n) : Ts[ring[i]] >= Ts[b]
        BY <3>2 DEF RingInv, RingKept
      <4> QED BY <4>1, <4>2
    <3> QED BY <2>1, <3>1, <3>2
  <2>5. \A a \in Range(ring) : \E i \in 1 .. L : ring[i] = a
    BY DEF RingInv, RingTypes, Range
  <2>6. \A a \in Range(ring) : store[a] # NoRecord \/ a \in unsaved \/ (loop.pc # "idle" /\ loop.alert = a)
    BY <2>5 DEF RingInv, RingStored
  <2>7. L = IF Cardinality(hydrated) + n > Cap THEN Cap ELSE Cardinality(hydrated) + n
    BY DEF RingInv, RingSized
  <2> HIDE DEF n, L, w
  <2>8. \A i \in 1 .. w : ring[L + 1 - i] = since[n + 1 - i]
    <3> SUFFICES ASSUME NEW i \in 1 .. w PROVE ring[L + 1 - i] = since[n + 1 - i]
      OBVIOUS
    <3> DEFINE h == L + 1 - i
    <3>1. h \in 1 .. L /\ h + n - L >= 1 /\ h + n - L = n + 1 - i
      BY <2>1, <2>3
    <3> HIDE DEF h
    <3>2. ring[h] = since[n + 1 - i]
      BY <2>2, <3>1
    <3> QED BY <3>2 DEF h
  <2> QED BY <2>4, <2>6, <2>7, <2>8 DEF RingNewest, n, L, w
<1> QED
  BY <1>1, RingInvariant, PTL

---------------------------------------------------------------------------
(* Rules and settings, for any rules directory, any number of handlers and *)
(* requests, crashes and failed writes: the inductive invariants.          *)

Content == Doc \cup [is : {"rule"}, id : Rule, v : {0}] \cup {Absent, Torn, Bad}
Saved == [is : {"whole", "cut", "torn"}, jwt : Secret \cup {Blank},
          cred : Key \cup {"nouser", "nocred", "placeholder"}]
Pc == {"idle", "truncate", "fill", "remove", "list", "read", "backup", "copy", "empty", "write"}
HandlerRec == [pc : Pc, file : File \cup {NoFile}, doc : Doc \cup {Absent}, new : Saved,
               todo : SUBSET File, got : SUBSET (File \X Content)]
Handlers == [Req -> HandlerRec]

RuleTypes ==
    /\ files \in [File -> Content]
    /\ config \in Saved /\ bak \in Saved
    /\ req \in Handlers
    /\ asked \in Nat /\ crashes \in Nat /\ fails \in Nat
    /\ \A r \in Req : /\ req[r].pc \in {"truncate", "fill", "remove"} => req[r].file \in File
                      /\ req[r].pc \in {"truncate", "fill"} => req[r].doc \in Doc
                      /\ req[r].pc # "read" => req[r].got = {}

\* A request that is about to fill a file has touched it.  A reload has read or
\* has yet to read what no request touched.
UntouchedInv ==
    /\ UntouchedDetected
    /\ \A r \in Req :
        /\ req[r].pc = "fill" => req[r].file \in touched
        /\ req[r].pc = "read" =>
               \A f \in File \ touched : files[f].is = "rule" =>
                   f \in req[r].todo \/ <<f, files[f]>> \in req[r].got

\* A node that is down serves no request, and there is one at a time unless two
\* have overlapped.
AloneInv ==
    /\ ~up => Quiet
    /\ ~overlap => \A r, q \in Req : req[r].pc # "idle" /\ req[q].pc # "idle" => r = q

\* The rules in the files fs, as an engine has them.
RulesIn(fs, F) == {<<f, fs[f]>> : f \in {g \in F : fs[g].is = "rule"}}

\* But for a request that has written and not yet reloaded, the engine has what
\* the files say; a reload has that of the files it has read.
EngineInv ==
    up /\ ~overlap /\ fails = 0 =>
        /\ (\A r \in Req : req[r].pc \notin {"fill", "list", "read"}) => engine = RulesIn(files, File)
        /\ \A r \in Req : req[r].pc = "read" =>
               /\ \A f \in req[r].todo : files[f] # Absent
               /\ req[r].got = RulesIn(files, {f \in File : f \notin req[r].todo})

\* A whole configuration with its secrets.
Good(c) == c \in Config /\ c.jwt \in Secret /\ c.cred \in Key

\* One of the two is whole, and what is whole is good.  A save that starts from
\* a good configuration backs it up before it empties the file.
ConfigInv ==
    ~overlap /\ ~uncovered =>
        /\ config.is = "whole" => Good(config)
        /\ bak.is = "whole" => Good(bak)
        /\ Good(config) \/ Good(bak)
        /\ \A r \in Req :
            /\ req[r].pc = "backup" /\ Good(config) => Good(req[r].new)
            /\ req[r].pc = "copy" => Good(config) /\ bak = TornConfig
            /\ req[r].pc \in {"copy", "empty", "write"} => Good(req[r].new)
            /\ req[r].pc \in {"empty", "write"} => Good(bak)
            /\ req[r].pc = "write" => config \in ConfigParts(req[r].new)

StudioInv == RuleTypes /\ UntouchedInv /\ AloneInv /\ EngineInv /\ ConfigInv

---------------------------------------------------------------------------
(* Handlers                                                                *)

\* A handler that starts or returns is all new.
LEMMA NewFacts ==
    ASSUME NEW p \in Pc, NEW f \in File \cup {NoFile}, NEW d \in Doc \cup {Absent}, NEW c \in Saved
    PROVE  /\ Handler(p, f, d, c) \in HandlerRec
           /\ Handler(p, f, d, c).pc = p /\ Handler(p, f, d, c).file = f
           /\ Handler(p, f, d, c).doc = d
           /\ Handler(p, f, d, c).new = c /\ Handler(p, f, d, c).got = {}
BY DEF Handler, HandlerRec

LEMMA IdleFacts ==
    /\ Idle \in HandlerRec /\ Idle.pc = "idle" /\ Idle.got = {}
    /\ Reloading \in HandlerRec /\ Reloading.pc = "list" /\ Reloading.got = {}
BY DEF Idle, Reloading, Handler, HandlerRec, Pc, Saved, TornConfig

\* The files' contents.
LEMMA ContentFacts ==
    /\ Absent \in Content /\ Torn \in Content /\ Bad \in Content /\ Doc \subseteq Content
    /\ Absent.is # "rule" /\ Torn.is # "rule" /\ Bad.is # "rule"
BY DEF Content, Absent, Torn, Bad, NotRule

\* The configurations' types: whole ones, and parts of one.
LEMMA SavedFacts ==
    /\ TornConfig \in Saved /\ TornConfig.is = "torn" /\ Config \subseteq Saved
    /\ \A c \in Saved : \A k \in ConfigParts(c) : k \in Saved /\ k.is # "whole"
    /\ \A c \in Config : c.is = "whole"
BY DEF TornConfig, Saved, Config, ConfigParts

\* What Loaded and Loads say, for the files before and after a step.
LEMMA LoadedFacts ==
    /\ Loaded = RulesIn(files, File)
    /\ \A f \in File : Loads(f) = RulesIn(files, {f})
BY DEF Loaded, Loads, RulesIn

---------------------------------------------------------------------------
(* The handlers' starts                                                    *)

\* A request starts, whatever it is for.
LEMMA AskStep ==
    ASSUME StudioInv, NEW r \in Req, NEW p \in {"truncate", "remove", "backup"},
           NEW f \in File \cup {NoFile}, NEW d \in Doc \cup {Absent}, NEW c \in Saved,
           p # "backup" => f \in File, p = "truncate" => d \in Doc,
           p = "backup" /\ Good(config) => Good(c),
           Ask(r, Handler(p, f, d, c))
    PROVE  StudioInv'
<1>1. /\ up /\ req[r].pc = "idle" /\ asked' = asked + 1
      /\ overlap' = (overlap \/ ~Quiet)
      /\ req' = [req EXCEPT ![r] = Handler(p, f, d, c)]
      /\ UNCHANGED <<files, touched, config, bak, engine, active, up, crashes, fails, uncovered>>
  BY DEF Ask, edits, saved
<1>2. /\ req' \in Handlers /\ \A q \in Req : q # r => req'[q] = req[q]
      /\ req'[r].pc = p /\ req'[r].file = f /\ req'[r].doc = d /\ req'[r].new = c /\ req'[r].got = {}
  <2>1. p \in Pc /\ req \in Handlers
    BY DEF Pc, StudioInv, RuleTypes
  <2> DEFINE k == Handler(p, f, d, c)
  <2>2. k \in HandlerRec /\ k.pc = p /\ k.file = f /\ k.doc = d /\ k.new = c /\ k.got = {}
    BY <2>1, NewFacts
  <2> HIDE DEF k
  <2>3. req' = [req EXCEPT ![r] = k]
    BY <1>1 DEF k
  <2> QED BY <2>1, <2>2, <2>3 DEF Handlers
<1>3. RuleTypes'
  BY <1>1, <1>2 DEF StudioInv, RuleTypes
<1>4. UntouchedInv'
  BY <1>1, <1>2 DEF StudioInv, UntouchedInv, UntouchedDetected
<1>5. ~overlap' => Quiet /\ ~overlap
  BY <1>1
<1>6. AloneInv'
  BY <1>1, <1>2, <1>5 DEF StudioInv, AloneInv, Quiet
<1>7. EngineInv'
  BY <1>1, <1>2, <1>5 DEF StudioInv, EngineInv, Quiet
<1>8. ConfigInv'
  BY <1>1, <1>2, <1>5 DEF StudioInv, ConfigInv, Quiet
<1> QED BY <1>3, <1>4, <1>6, <1>7, <1>8 DEF StudioInv

\* A rule request starts.
LEMMA RuleAskStep ==
    ASSUME StudioInv, NEW r \in Req,
           \/ \E d \in Drafts : RuleCreate(r, d)
           \/ \E i \in Rule, d \in Drafts : RuleUpdate(r, i, d)
           \/ \E i \in Rule : RuleDelete(r, i)
    PROVE  StudioInv'
<1>0. TornConfig \in Saved /\ (\A i \in Rule : FileOf[i] \in File) /\ Drafts \subseteq Doc
  BY RuleStudioAssumption, SavedFacts
<1>1. ASSUME NEW d \in Drafts, RuleCreate(r, d) PROVE StudioInv'
  <2>1. d.id \in Rule
    BY <1>0 DEF Doc
  <2> QED BY <1>0, <1>1, <2>1, AskStep DEF RuleCreate
<1>2. ASSUME NEW i \in Rule, NEW d \in Drafts, RuleUpdate(r, i, d) PROVE StudioInv'
  BY <1>0, <1>2, AskStep DEF RuleUpdate
<1>3. ASSUME NEW i \in Rule, RuleDelete(r, i) PROVE StudioInv'
  <2>1. PICK f \in RulePaths(i) : Ask(r, Handler("remove", f, Absent, TornConfig))
    BY <1>3 DEF RuleDelete
  <2>2. f \in File
    BY <1>0 DEF RulePaths
  <2> QED BY <1>0, <2>1, <2>2, AskStep
<1> QED BY <1>1, <1>2, <1>3

\* What is resolved is whole, and against a good configuration it is good.
LEMMA ResolvedGood ==
    ASSUME NEW s \in Save, NEW c \in Saved
    PROVE  /\ Resolved(s, c) \in Config
           /\ Good(c) /\ Valid(Resolved(s, c)) => Good(Resolved(s, c))
<1> DEFINE j == IF s.jwt = Blank THEN c.jwt ELSE s.jwt
           k == IF s.cred # "kept" THEN s.cred
                ELSE IF c.cred \notin {"nouser", "nocred"} THEN c.cred
                ELSE IF s.form = "yaml" THEN "placeholder" ELSE "nocred"
           n == [is |-> "whole", jwt |-> j, cred |-> k]
<1>1. j \in Secret \cup {Blank} /\ k \in Key \cup {"nouser", "nocred", "placeholder"}
  BY DEF Save, Saved
<1>2. Good(c) => j \in Secret /\ k \in Key \cup {"nocred"}
  BY RuleStudioAssumption DEF Save, Good
<1> HIDE DEF j, k
<1>3. n \in Config /\ n.jwt = j /\ n.cred = k
  BY <1>1 DEF Config
<1>4. Resolved(s, c) = n
  BY DEF Resolved, j, k
<1> HIDE DEF n
<1> QED BY <1>2, <1>3, <1>4 DEF Good, Valid

\* A configuration request starts.
LEMMA ConfigPutStep ==
    ASSUME StudioInv, NEW r \in Req, NEW s \in Saves, ConfigPut(r, s)
    PROVE  StudioInv'
<1>1. s \in Save /\ Current \in Saved
  <2>1. [is |-> "whole", jwt |-> Blank, cred |-> "nouser"] \in Saved
    BY DEF Saved
  <2> QED BY <2>1, RuleStudioAssumption DEF Current, StudioInv, RuleTypes
<1>2. Good(config) => Current = config
  BY DEF Good, Config, Current
<1> DEFINE n == Resolved(s, Current)
<1>3. n \in Saved /\ (Good(config) => Good(n))
  BY <1>1, <1>2, ResolvedGood, SavedFacts DEF ConfigPut
<1> HIDE DEF n
<1>4. Ask(r, Handler("backup", NoFile, Absent, n))
  BY DEF ConfigPut, n
<1> QED BY <1>3, <1>4, AskStep
---------------------------------------------------------------------------
(* What a step leaves alone                                                *)

\* A step that starts no request leaves them as alone as they were.
LEMMA AloneKept ==
    ASSUME AloneInv, UNCHANGED <<up, overlap>>,
           \A q \in Req : req'[q].pc # "idle" => req[q].pc # "idle"
    PROVE  AloneInv'
BY DEF AloneInv, Quiet

\* A step on neither files nor engine, by a request outside its reload.
LEMMA UntouchedKept ==
    ASSUME UntouchedInv, UNCHANGED <<files, touched, engine, active, up>>,
           \A q \in Req : req'[q] = req[q] \/ req'[q].pc \notin {"fill", "read"}
    PROVE  UntouchedInv'
BY DEF UntouchedInv, UntouchedDetected

LEMMA EngineKept ==
    ASSUME EngineInv, UNCHANGED <<files, engine, up, overlap>>, fails' = 0 => fails = 0,
           \A q \in Req : \/ req'[q] = req[q]
                          \/ /\ req'[q].pc # "read"
                             /\ req'[q].pc \in {"fill", "list"} \/ req[q].pc \notin {"fill", "list", "read"}
    PROVE  EngineInv'
BY DEF EngineInv

\* A step of a request that is not saving a configuration.
LEMMA ConfigKept ==
    ASSUME ConfigInv, UNCHANGED <<config, bak, overlap, uncovered>>,
           \A q \in Req : \/ req'[q] = req[q]
                          \/ req'[q].pc \notin {"backup", "copy", "empty", "write"}
    PROVE  ConfigInv'
BY DEF ConfigInv

---------------------------------------------------------------------------
(* Editing the files                                                       *)

\* write_rule_file truncates.
LEMMA TruncateStep ==
    ASSUME StudioInv, NEW r \in Req, Truncate(r)
    PROVE  StudioInv'
<1> DEFINE f == req[r].file
<1>1. /\ req[r].pc = "truncate" /\ f \in File
      /\ touched' = touched \cup {f}
      /\ UNCHANGED <<config, bak, asked, crashes, fails, engine, active, up, overlap, uncovered>>
  BY DEF StudioInv, RuleTypes, Truncate, saved, bounds
<1>d. PICK d \in Content : files' = [files EXCEPT ![f] = d]
  <2>1. req[r].doc \in Doc
    BY <1>1 DEF StudioInv, RuleTypes
  <2>2. RuleParts(req[r].doc) \subseteq Content
    BY <2>1, ContentFacts DEF RuleParts, Doc, Content
  <2> QED BY <2>2 DEF Truncate
<1>2. /\ req' \in Handlers /\ \A q \in Req : q # r => req'[q] = req[q]
      /\ req'[r].pc = "fill" /\ req'[r].file = f /\ req'[r].doc = req[r].doc /\ req'[r].got = req[r].got
  BY DEF StudioInv, RuleTypes, Truncate, Goto, Handlers, HandlerRec, Pc
<1>3. /\ files' \in [File -> Content] /\ \A g \in File : g # f => files'[g] = files[g]
  BY <1>1, <1>d DEF StudioInv, RuleTypes
<1> HIDE DEF f
<1>4. RuleTypes'
  BY <1>1, <1>2, <1>3 DEF StudioInv, RuleTypes
<1>5. UntouchedInv'
  BY <1>1, <1>2, <1>3 DEF StudioInv, UntouchedInv, UntouchedDetected
<1>6. AloneInv'
  BY <1>1, <1>2, AloneKept DEF StudioInv
<1>7. EngineInv'
  BY <1>1, <1>2 DEF StudioInv, AloneInv, EngineInv
<1>8. ConfigInv'
  BY <1>1, <1>2, ConfigKept DEF StudioInv
<1> QED BY <1>4, <1>5, <1>6, <1>7, <1>8 DEF StudioInv

\* ... and fills the file.
LEMMA FillStep ==
    ASSUME StudioInv, NEW r \in Req, Fill(r)
    PROVE  StudioInv'
<1> DEFINE f == req[r].file
<1>1. /\ req[r].pc = "fill" /\ f \in File /\ f \in touched
      /\ UNCHANGED <<touched, config, bak, asked, crashes, fails, engine, active, up, overlap, uncovered>>
  BY DEF StudioInv, RuleTypes, UntouchedInv, Fill, saved, bounds
<1>2. PICK d \in Content : files' = [files EXCEPT ![f] = d]
  <2>1. PICK d \in Written(req[r].doc, RuleParts(req[r].doc), files[f]) : files' = [files EXCEPT ![f] = d]
    BY DEF Fill
  <2>2. req[r].doc \in Doc
    BY <1>1 DEF StudioInv, RuleTypes
  <2>3. RuleParts(req[r].doc) \subseteq Content
    BY <2>2, ContentFacts DEF RuleParts, Doc, Content
  <2>4. d \in Content
    BY <2>1, <2>2, <2>3, ContentFacts DEF Written
  <2> QED BY <2>1, <2>4
<1>3. /\ req' \in Handlers /\ \A q \in Req : q # r => req'[q] = req[q]
      /\ req'[r].pc = "list" /\ req'[r].got = {}
  BY IdleFacts DEF StudioInv, RuleTypes, Fill, ToReload, Handlers
<1>4. /\ files' \in [File -> Content] /\ \A g \in File : g # f => files'[g] = files[g]
  BY <1>1, <1>2 DEF StudioInv, RuleTypes
<1> HIDE DEF f
<1>5. RuleTypes'
  BY <1>1, <1>3, <1>4 DEF StudioInv, RuleTypes
<1>6. UntouchedInv'
  BY <1>1, <1>3, <1>4 DEF StudioInv, UntouchedInv, UntouchedDetected
<1>7. AloneInv'
  BY <1>1, <1>3, AloneKept DEF StudioInv
<1>8. EngineInv'
  BY <1>1, <1>3 DEF StudioInv, AloneInv, EngineInv
<1>9. ConfigInv'
  BY <1>1, <1>3, ConfigKept DEF StudioInv
<1> QED BY <1>5, <1>6, <1>7, <1>8, <1>9 DEF StudioInv

\* delete_rule_file removes one.
LEMMA RemoveStep ==
    ASSUME StudioInv, NEW r \in Req, RemoveFile(r)
    PROVE  StudioInv'
<1> DEFINE f == req[r].file
<1>1. /\ req[r].pc = "remove" /\ f \in File
      /\ UNCHANGED <<config, bak, asked, crashes, fails, engine, active, up, overlap, uncovered>>
  BY DEF StudioInv, RuleTypes, RemoveFile, saved, bounds
<1>2. CASE /\ files' = [files EXCEPT ![f] = Absent]
           /\ touched' = touched \cup {f}
           /\ req' = [Unlinked(f) EXCEPT ![r] = Reloading]
  <2>1. Unlinked(f) \in Handlers
    BY IdleFacts DEF StudioInv, RuleTypes, Handlers, Unlinked
  <2>2. \A q \in Req : \/ Unlinked(f)[q] = req[q]
                       \/ req[q].pc = "fill" /\ Unlinked(f)[q] = Reloading
    BY DEF Unlinked
  <2> DEFINE h == Unlinked(f)
  <2> HIDE DEF h
  <2>3. /\ req' \in Handlers /\ req'[r].pc = "list" /\ req'[r].got = {}
        /\ \A q \in Req : q # r => \/ req'[q] = req[q]
                                   \/ /\ req[q].pc = "fill" /\ req'[q].pc = "list"
                                      /\ req'[q].got = {}
    <3>1. h \in Handlers /\ req' = [h EXCEPT ![r] = Reloading]
      BY <1>2, <2>1 DEF h
    <3>2. \A q \in Req : h[q] = req[q] \/ (req[q].pc = "fill" /\ h[q] = Reloading)
      BY <2>2 DEF h
    <3>3. req' \in Handlers /\ req'[r] = Reloading /\ \A q \in Req : q # r => req'[q] = h[q]
      BY <3>1, IdleFacts DEF Handlers
    <3> QED BY <3>2, <3>3, IdleFacts
  <2>4. /\ files' \in [File -> Content] /\ \A g \in File : g # f => files'[g] = files[g]
    BY <1>1, <1>2, ContentFacts DEF StudioInv, RuleTypes
  <2> HIDE DEF f
  <2>5. RuleTypes'
    BY <1>1, <2>3, <2>4 DEF StudioInv, RuleTypes
  <2>6. UntouchedInv'
    BY <1>1, <1>2, <2>3, <2>4 DEF StudioInv, UntouchedInv, UntouchedDetected
  <2>7. AloneInv'
    BY <1>1, <2>3, AloneKept DEF StudioInv
  <2>8. EngineInv'
    BY <1>1, <2>3 DEF StudioInv, AloneInv, EngineInv
  <2>9. ConfigInv'
    BY <1>1, <2>3, ConfigKept DEF StudioInv
  <2> QED BY <2>5, <2>6, <2>7, <2>8, <2>9 DEF StudioInv
<1>3. CASE Done(r) /\ UNCHANGED <<files, touched>>
  <2>1. /\ req' \in Handlers /\ \A q \in Req : q # r => req'[q] = req[q]
        /\ req'[r].pc = "idle" /\ req'[r].got = {}
    BY <1>3, IdleFacts DEF StudioInv, RuleTypes, Done, Handlers
  <2>2. RuleTypes'
    BY <1>1, <1>3, <2>1 DEF StudioInv, RuleTypes
  <2> QED BY <1>1, <1>3, <2>1, <2>2, UntouchedKept, AloneKept, EngineKept, ConfigKept DEF StudioInv
<1> QED BY <1>2, <1>3 DEF RemoveFile, edits
---------------------------------------------------------------------------
(* reload_engine                                                           *)

\* The directory is listed.
LEMMA ListStep ==
    ASSUME StudioInv, NEW r \in Req, List(r)
    PROVE  StudioInv'
<1> DEFINE todo == {f \in File : files[f] # Absent}
<1>1. /\ req[r].pc = "list"
      /\ req' = [req EXCEPT ![r].pc = "read", ![r].todo = todo]
      /\ UNCHANGED <<files, touched, config, bak, asked, crashes, fails, engine, active, up, overlap, uncovered>>
  BY DEF List, edits, saved, bounds
<1>2. todo \in SUBSET File /\ \A f \in File : f \in todo <=> files[f] # Absent
  OBVIOUS
<1> HIDE DEF todo
<1>3. /\ req' \in Handlers /\ \A q \in Req : q # r => req'[q] = req[q]
      /\ req'[r].pc = "read" /\ req'[r].todo = todo /\ req'[r].got = {}
  <2>1. req[r] \in HandlerRec /\ req[r].got = {}
    BY <1>1 DEF StudioInv, RuleTypes, Handlers
  <2> DEFINE k == [req[r] EXCEPT !.pc = "read", !.todo = todo]
  <2>2. k \in HandlerRec /\ k.pc = "read" /\ k.todo = todo /\ k.got = {}
    BY <1>2, <2>1 DEF HandlerRec, Pc
  <2>3. req' = [req EXCEPT ![r] = k]
    BY <1>1 DEF StudioInv, RuleTypes, Handlers
  <2> HIDE DEF k
  <2> QED BY <2>2, <2>3 DEF StudioInv, RuleTypes, Handlers
<1>4. RuleTypes'
  BY <1>1, <1>3 DEF StudioInv, RuleTypes
<1>5. UntouchedInv'
  <2>1. \A f \in File : files[f].is = "rule" => f \in todo
    BY <1>2, ContentFacts
  <2>2. UntouchedDetected'
    BY <1>1 DEF StudioInv, UntouchedInv, UntouchedDetected
  <2>3. ASSUME NEW q \in Req
        PROVE  /\ req'[q].pc = "fill" => req'[q].file \in touched
               /\ req'[q].pc = "read" =>
                      \A f \in File \ touched : files[f].is = "rule" =>
                          f \in req'[q].todo \/ <<f, files[f]>> \in req'[q].got
    <3>1. CASE q = r
      BY <1>3, <2>1, <3>1
    <3>2. CASE q # r
      BY <1>3, <3>2 DEF StudioInv, UntouchedInv
    <3> QED BY <3>1, <3>2
  <2> QED BY <1>1, <2>2, <2>3 DEF UntouchedInv
<1>6. AloneInv'
  BY <1>1, <1>3, AloneKept DEF StudioInv
<1>7. EngineInv'
  <2>1. RulesIn(files, {f \in File : f \notin todo}) = {}
    BY <1>2, ContentFacts DEF RulesIn
  <2> QED BY <1>1, <1>2, <1>3, <2>1 DEF StudioInv, EngineInv
<1>8. ConfigInv'
  BY <1>1, <1>3, ConfigKept DEF StudioInv
<1> QED BY <1>4, <1>5, <1>6, <1>7, <1>8 DEF StudioInv

\* A listed file is read, or has vanished.
LEMMA ReadStep ==
    ASSUME StudioInv, NEW r \in Req, ReadFile(r)
    PROVE  StudioInv'
<1>1. /\ req[r].pc = "read"
      /\ UNCHANGED <<files, touched, config, bak, asked, crashes, fails, engine, active, up, overlap, uncovered>>
  BY DEF ReadFile, edits, saved, bounds
<1>2. PICK f \in req[r].todo :
          \/ files[f] = Absent /\ req' = Vanished(r)
          \/ /\ files[f] # Absent
             /\ req' = [req EXCEPT ![r].todo = @ \ {f}, ![r].got = @ \cup Loads(f)]
  BY DEF ReadFile
<1>3. f \in File /\ req[r].todo \in SUBSET File /\ req[r].got \in SUBSET (File \X Content)
  BY <1>2 DEF StudioInv, RuleTypes, Handlers, HandlerRec
<1>4. CASE files[f] = Absent /\ req' = Vanished(r)
  <2>1. /\ req' \in Handlers /\ \A q \in Req : q # r => req'[q] = req[q]
        /\ req'[r].pc = "idle" /\ req'[r].got = {}
    BY <1>4, IdleFacts DEF StudioInv, RuleTypes, Vanished, Handlers
  <2>2. RuleTypes'
    BY <1>1, <2>1 DEF StudioInv, RuleTypes
  <2>3. EngineInv'
    BY <1>1, <1>2, <1>4 DEF StudioInv, EngineInv
  <2> QED BY <1>1, <2>1, <2>2, <2>3, UntouchedKept, AloneKept, ConfigKept DEF StudioInv
<1>5. CASE files[f] # Absent /\ req' = [req EXCEPT ![r].todo = @ \ {f}, ![r].got = @ \cup Loads(f)]
  <2> DEFINE todo == req[r].todo \ {f}
             got == req[r].got \cup RulesIn(files, {f})
  <2>1. todo \in SUBSET File /\ got \in SUBSET (File \X Content)
    BY <1>3 DEF StudioInv, RuleTypes, RulesIn
  <2>2. req' = [req EXCEPT ![r].todo = todo, ![r].got = got]
    BY <1>3, <1>5, LoadedFacts
  <2>3. \A g \in File \ touched : files[g].is = "rule" =>
            g \in todo \/ <<g, files[g]>> \in got
    BY <1>1 DEF StudioInv, UntouchedInv, RulesIn
  <2>4. req[r].got = RulesIn(files, {g \in File : g \notin req[r].todo})
            => got = RulesIn(files, {g \in File : g \notin todo})
    <3> SUFFICES ASSUME req[r].got = RulesIn(files, {g \in File : g \notin req[r].todo})
                 PROVE  got = RulesIn(files, {g \in File : g \notin todo})
      OBVIOUS
    <3> QED BY <1>2, <1>3 DEF RulesIn
  <2>5. todo \subseteq req[r].todo
    OBVIOUS
  <2> HIDE DEF todo, got
  <2>6. /\ req' \in Handlers /\ \A q \in Req : q # r => req'[q] = req[q]
        /\ req'[r].pc = "read" /\ req'[r].todo = todo /\ req'[r].got = got
    <3>1. req[r] \in HandlerRec
      BY DEF StudioInv, RuleTypes, Handlers
    <3> DEFINE k == [req[r] EXCEPT !.todo = todo, !.got = got]
    <3>2. k \in HandlerRec /\ k.pc = "read" /\ k.todo = todo /\ k.got = got
      BY <1>1, <2>1, <3>1 DEF HandlerRec, Pc
    <3>3. req' = [req EXCEPT ![r] = k]
      BY <2>2 DEF StudioInv, RuleTypes, Handlers
    <3> HIDE DEF k
    <3> QED BY <3>2, <3>3 DEF StudioInv, RuleTypes, Handlers
  <2>7. RuleTypes'
    BY <1>1, <2>6 DEF StudioInv, RuleTypes
  <2>8. UntouchedInv'
    BY <1>1, <2>3, <2>6 DEF StudioInv, UntouchedInv, UntouchedDetected
  <2>9. AloneInv'
    BY <1>1, <2>6, AloneKept DEF StudioInv
  <2>10. EngineInv'
    BY <1>1, <2>4, <2>5, <2>6 DEF StudioInv, EngineInv
  <2>11. ConfigInv'
    BY <1>1, <2>6, ConfigKept DEF StudioInv
  <2> QED BY <2>7, <2>8, <2>9, <2>10, <2>11 DEF StudioInv
<1> QED BY <1>2, <1>4, <1>5

\* The engine is swapped.
LEMMA SwapStep ==
    ASSUME StudioInv, NEW r \in Req, Swap(r)
    PROVE  StudioInv'
<1>1. /\ req[r].pc = "read" /\ req[r].todo = {} /\ engine' = req[r].got
      /\ UNCHANGED <<files, touched, config, bak, asked, crashes, fails, active, up, overlap, uncovered>>
  BY DEF Swap, edits, saved, bounds
<1>2. /\ req' \in Handlers /\ \A q \in Req : q # r => req'[q] = req[q]
      /\ req'[r].pc = "idle" /\ req'[r].got = {}
  BY IdleFacts DEF Swap, StudioInv, RuleTypes, Done, Handlers
<1>3. RuleTypes'
  BY <1>1, <1>2 DEF StudioInv, RuleTypes
<1>4. UntouchedInv'
  BY <1>1, <1>2 DEF StudioInv, UntouchedInv, UntouchedDetected
<1>5. AloneInv'
  BY <1>1, <1>2, AloneKept DEF StudioInv
<1>6. EngineInv'
  <2>1. {f \in File : f \notin req[r].todo} = File
    BY <1>1
  <2>2. up /\ ~overlap /\ fails = 0 => req[r].got = RulesIn(files, File)
    BY <1>1, <2>1 DEF StudioInv, EngineInv
  <2> QED BY <1>1, <1>2, <2>2 DEF StudioInv, EngineInv
<1>7. ConfigInv'
  BY <1>1, <1>2, ConfigKept DEF StudioInv
<1> QED BY <1>3, <1>4, <1>5, <1>6, <1>7 DEF StudioInv

---------------------------------------------------------------------------
(* Saving the configuration                                                *)

\* The backup is emptied and filled, or not; the file is emptied and filled.
LEMMA SaveStep ==
    ASSUME StudioInv, NEW r \in Req,
           BackUp(r) \/ Copy(r) \/ CopyFails(r) \/ Empty(r) \/ Write(r)
    PROVE  StudioInv'
<1>1. /\ UNCHANGED <<files, touched, asked, crashes, engine, active, up, overlap>>
      /\ fails' = fails \/ fails' = fails + 1
  BY DEF BackUp, Copy, CopyFails, Empty, Write, edits, saved, bounds
<1>2. /\ req[r].pc \in {"backup", "copy", "empty", "write"}
      /\ \/ Write(r) /\ req' = [req EXCEPT ![r] = Reloading]
         \/ \E p \in {"copy", "empty", "write"} : req' = [req EXCEPT ![r].pc = p]
  BY DEF BackUp, Copy, CopyFails, Empty, Write, Goto, ToReload
<1>3. /\ req' \in Handlers /\ \A q \in Req : q # r => req'[q] = req[q]
      /\ req'[r].pc \in {"copy", "empty", "write", "list"} /\ req'[r].got = {}
      /\ req'[r].pc # "list" => req'[r].new = req[r].new
  <2>1. req \in Handlers /\ req[r].got = {}
    BY <1>2 DEF StudioInv, RuleTypes
  <2>2. CASE req' = [req EXCEPT ![r] = Reloading]
    BY <2>1, <2>2, IdleFacts DEF Handlers
  <2>3. ASSUME NEW p \in {"copy", "empty", "write"}, req' = [req EXCEPT ![r].pc = p]
        PROVE  /\ req' \in Handlers /\ \A q \in Req : q # r => req'[q] = req[q]
               /\ req'[r].pc = p /\ req'[r].got = {} /\ req'[r].new = req[r].new
    BY <2>1, <2>3 DEF Handlers, HandlerRec, Pc
  <2> QED BY <1>2, <2>2, <2>3
<1>4. config' \in Saved /\ bak' \in Saved
  <2>1. req[r].new \in Saved /\ TornConfig \in Saved /\ ConfigParts(req[r].new) \subseteq Saved
    BY SavedFacts DEF StudioInv, RuleTypes, Handlers, HandlerRec
  <2>2. config \in Saved /\ bak \in Saved
    BY DEF StudioInv, RuleTypes
  <2> QED BY <2>1, <2>2 DEF BackUp, Copy, CopyFails, Empty, Write, Written, saved
<1>5. RuleTypes'
  BY <1>1, <1>2, <1>3, <1>4 DEF StudioInv, RuleTypes
<1>6. UntouchedInv'
  BY <1>1, <1>3, UntouchedKept DEF StudioInv
<1>7. AloneInv'
  BY <1>1, <1>2, <1>3, AloneKept DEF StudioInv
<1>8. EngineInv'
  <2>1. fails' = 0 => fails = 0
    BY <1>1 DEF StudioInv, RuleTypes
  <2> QED BY <1>1, <1>2, <1>3, <2>1, EngineKept DEF StudioInv
<1>9. ConfigInv'
  <2>0. ~uncovered' => ~uncovered
    BY DEF BackUp, Copy, CopyFails, Empty, Write
  <2> SUFFICES ASSUME ~overlap, ~uncovered, ~uncovered' PROVE ConfigInv'
    BY <1>1, <2>0 DEF ConfigInv
  <2>1. \A q \in Req : q # r => req'[q] = req[q] /\ req[q].pc = "idle"
    BY <1>2, <1>3 DEF StudioInv, AloneInv
  <2>c. /\ config.is = "whole" => Good(config)
        /\ bak.is = "whole" => Good(bak)
        /\ Good(config) \/ Good(bak)
        /\ req[r].pc = "backup" /\ Good(config) => Good(req[r].new)
        /\ req[r].pc = "copy" => Good(config) /\ bak = TornConfig
        /\ req[r].pc \in {"copy", "empty", "write"} => Good(req[r].new)
        /\ req[r].pc \in {"empty", "write"} => Good(bak)
        /\ req[r].pc = "write" => config \in ConfigParts(req[r].new)
    BY DEF StudioInv, ConfigInv
  <2>n. req \in Handlers /\ req[r].new \in Saved
    BY DEF StudioInv, RuleTypes, Handlers, HandlerRec
  <2> SUFFICES /\ config'.is = "whole" => Good(config')
               /\ bak'.is = "whole" => Good(bak')
               /\ Good(config') \/ Good(bak')
               /\ req'[r].pc # "backup"
               /\ req'[r].pc = "copy" => Good(config') /\ bak' = TornConfig
               /\ req'[r].pc \in {"copy", "empty", "write"} => Good(req[r].new)
               /\ req'[r].pc \in {"empty", "write"} => Good(bak')
               /\ req'[r].pc = "write" => config' \in ConfigParts(req[r].new)
    BY <1>3, <2>1 DEF ConfigInv
  <2>2. CASE BackUp(r)
    <3>1. req[r].pc = "backup" /\ req'[r].pc = "copy" /\ bak' = TornConfig /\ config' = config /\ config.is = "whole"
      BY <2>2, <2>n DEF BackUp, Goto, Handlers, HandlerRec
    <3> QED BY <2>c, <3>1, SavedFacts
  <2>3. CASE Copy(r)
    <3>1. req[r].pc = "copy" /\ req'[r].pc = "empty" /\ config' = config
      BY <2>3, <2>n DEF Copy, Goto, Handlers, HandlerRec
    <3>2. bak' = config
      BY <2>3, <2>c, <3>1 DEF Copy, Written
    <3> QED BY <2>c, <3>1, <3>2
  <2>4. CASE CopyFails(r)
    BY <2>4 DEF CopyFails
  <2>5. CASE Empty(r)
    <3>1. req[r].pc = "empty" /\ req'[r].pc = "write" /\ config' \in ConfigParts(req[r].new) /\ bak' = bak
      BY <2>5, <2>n DEF Empty, Goto, Handlers, HandlerRec
    <3>2. config'.is # "whole"
      BY <2>n, <3>1, SavedFacts
    <3> QED BY <2>c, <3>1, <3>2
  <2>6. CASE Write(r)
    <3>1. req[r].pc = "write" /\ req'[r].pc = "list" /\ bak' = bak
      BY <2>6, <2>n, IdleFacts DEF Write, ToReload, Handlers
    <3>2. config' = req[r].new
      BY <2>6, <2>c, <3>1 DEF Write, Written
    <3> QED BY <2>c, <3>1, <3>2
  <2> QED BY <2>2, <2>3, <2>4, <2>5, <2>6
<1> QED BY <1>5, <1>6, <1>7, <1>8, <1>9 DEF StudioInv

---------------------------------------------------------------------------
(* Failures, the end of the node and its start                             *)

\* A write fails and the handler returns.
LEMMA FailStep ==
    ASSUME StudioInv, NEW r \in Req, WriteFails(r)
    PROVE  StudioInv'
<1>1. /\ fails' = fails + 1 /\ req[r].pc \in {"fill", "write"}
      /\ UNCHANGED <<files, touched, config, bak, asked, crashes, engine, active, up, overlap, uncovered>>
  BY DEF WriteFails, edits, saved
<1>2. /\ req' \in Handlers /\ \A q \in Req : q # r => req'[q] = req[q]
      /\ req'[r].pc = "idle" /\ req'[r].got = {}
  BY IdleFacts DEF WriteFails, StudioInv, RuleTypes, Done, Handlers
<1>3. fails' \in Nat /\ fails' # 0
  BY <1>1 DEF StudioInv, RuleTypes
<1>4. RuleTypes'
  BY <1>1, <1>2, <1>3 DEF StudioInv, RuleTypes
<1>5. EngineInv'
  BY <1>3 DEF EngineInv
<1> QED BY <1>1, <1>2, <1>4, <1>5, UntouchedKept, AloneKept, ConfigKept DEF StudioInv

\* The process ends, and starts again.
LEMMA LifeStep ==
    ASSUME StudioInv, Crash \/ Start
    PROVE  StudioInv'
<1>1. CASE Crash
  <2>1. /\ up' = FALSE /\ crashes' = crashes + 1
        /\ UNCHANGED <<files, touched, config, bak, asked, fails, overlap, uncovered>>
    BY <1>1 DEF Crash, edits, saved
  <2>2. req' \in Handlers /\ \A q \in Req : req'[q].pc = "idle" /\ req'[q].got = {}
    BY <1>1, IdleFacts DEF Crash, Handlers
  <2>3. RuleTypes'
    BY <2>1, <2>2 DEF StudioInv, RuleTypes
  <2>4. UntouchedInv' /\ AloneInv' /\ EngineInv'
    BY <2>1, <2>2 DEF UntouchedInv, UntouchedDetected, AloneInv, Quiet, EngineInv
  <2>5. ConfigInv'
    BY <2>1, <2>2 DEF StudioInv, ConfigInv
  <2> QED BY <2>3, <2>4, <2>5 DEF StudioInv
<1>2. CASE Start
  <2>1. /\ ~up /\ up' = TRUE /\ engine' = Loaded /\ active' = (Loaded # {})
        /\ UNCHANGED <<files, touched, config, bak, req, asked, crashes, fails, overlap, uncovered>>
    BY <1>2 DEF Start, edits, saved, bounds
  <2>2. \A q \in Req : req[q].pc = "idle"
    BY <2>1 DEF StudioInv, AloneInv, Quiet
  <2>3. RuleTypes'
    BY <2>1 DEF StudioInv, RuleTypes
  <2>4. UntouchedInv'
    <3>1. \A f \in File : files[f].is = "rule" => <<f, files[f]>> \in Loaded
      BY LoadedFacts DEF RulesIn
    <3> QED BY <2>1, <2>2, <3>1 DEF UntouchedInv, UntouchedDetected
  <2>5. AloneInv'
    BY <2>1, <2>2 DEF AloneInv, Quiet
  <2>6. EngineInv'
    BY <2>1, <2>2, LoadedFacts DEF EngineInv
  <2>7. ConfigInv'
    BY <2>1, <2>2, ConfigKept DEF StudioInv
  <2> QED BY <2>3, <2>4, <2>5, <2>6, <2>7 DEF StudioInv
<1> QED BY <1>1, <1>2

---------------------------------------------------------------------------
(* Theorems                                                                *)

\* The first state satisfies the invariant.
LEMMA StudioInit == Init => StudioInv
<1> SUFFICES ASSUME Init PROVE StudioInv
  OBVIOUS
<1>1. req \in Handlers /\ \A q \in Req : req[q].pc = "idle" /\ req[q].got = {}
  BY IdleFacts DEF Init, Handlers
<1>2. files \in [File -> Content]
  BY RuleStudioAssumption DEF Init, Content
<1>3. RuleTypes
  BY <1>1, <1>2, SavedFacts DEF Init, RuleTypes
<1>4. UntouchedInv
  <2>1. \A f \in File : files[f].is = "rule" => <<f, files[f]>> \in Loaded
    BY LoadedFacts DEF RulesIn
  <2> QED BY <1>1, <2>1 DEF Init, UntouchedInv, UntouchedDetected
<1>5. AloneInv
  BY <1>1 DEF Init, AloneInv, Quiet
<1>6. EngineInv
  BY <1>1, LoadedFacts DEF Init, EngineInv
<1>7. ConfigInv
  BY <1>1, SavedFacts DEF Init, ConfigInv, Good
<1> QED BY <1>3, <1>4, <1>5, <1>6, <1>7 DEF StudioInv

\* The inductive invariant holds of every behaviour of the editors.
THEOREM StudioInvariant == Spec => []StudioInv
<1>1. StudioInv /\ [Next]_vars => StudioInv'
  <2> SUFFICES ASSUME StudioInv, [Next]_vars PROVE StudioInv'
    OBVIOUS
  <2>1. CASE UNCHANGED vars
    <3>1. UNCHANGED <<files, touched, config, bak, asked, crashes, fails, engine, active, req, up, overlap, uncovered>>
      BY <2>1 DEF vars, edits, saved, bounds
    <3>2. RuleTypes'
      BY <3>1 DEF StudioInv, RuleTypes
    <3> QED BY <3>1, <3>2, UntouchedKept, AloneKept, EngineKept, ConfigKept DEF StudioInv
  <2>2. CASE Next
    BY <2>2, RuleAskStep, TruncateStep, FillStep, RemoveStep, ListStep, ReadStep, SwapStep,
       ConfigPutStep, SaveStep, FailStep, LifeStep DEF Next, Edit, Reload, Configure
  <2> QED BY <2>1, <2>2
<1> QED BY StudioInit, <1>1, PTL DEF Spec

\* However edits, deletions, failed writes and reloads meet, a rule whose file
\* no request touches is detected at every moment the node runs.
THEOREM UntouchedAlways == Spec => []UntouchedDetected
<1>1. StudioInv => UntouchedDetected
  BY DEF StudioInv, UntouchedInv
<1> QED BY StudioInvariant, <1>1, PTL

\* After edits one at a time whose writes succeeded, the engine is the one that
\* a restart would build.
THEOREM EngineAfterEdits == Spec => []EngineCurrent
<1>1. StudioInv => EngineCurrent
  BY LoadedFacts DEF StudioInv, EngineInv, EngineCurrent, Quiet
<1> QED BY StudioInvariant, <1>1, PTL

\* Saves one at a time keep the secrets, over a crash or a failure at any point
\* of one, though a part of the configuration may load without them.
THEOREM SecretsAlways == Spec => []SecretsKept
<1>1. StudioInv => SecretsKept
  <2>1. \A c : Good(c) => c.is = "whole" /\ c.jwt \in Secret /\ c.cred \in Key
    BY SavedFacts DEF Good
  <2> QED BY <2>1 DEF StudioInv, ConfigInv, SecretsKept
<1> QED BY StudioInvariant, <1>1, PTL

---------------------------------------------------------------------------
(* Access, for every set of users and configurations, every lifetime of a  *)
(* token and every sequence of restarts: the inductive invariant.          *)

AccessTypes ==
    /\ written \in AuthConfigs /\ auth.block \in AuthConfigs
    /\ now \in Nat
    /\ held \in [User \X Role -> Int]

\* What the running configuration grants is noted as granted now.
GrantsNoted ==
    \A u \in User, r \in Role :
        u \in DOMAIN auth.block.users /\ auth.block.users[u] \cap GrantedBy[r] # {} => held[<<u, r>>] = now

\* A bearer token was made at some time that is over, for a user to whom its
\* roles were granted then or later.
JwtsGranted ==
    \A j \in jwts :
        /\ j.sub \in User /\ j.roles \subseteq Role
        /\ j.exp \in Int /\ j.exp >= Ttl /\ j.exp <= now + Ttl
        /\ \A r \in Role : Has(j.roles, r) => held[<<j.sub, r>>] >= j.exp - Ttl

RolesInv == AccessTypes /\ GrantsNoted /\ JwtsGranted

---------------------------------------------------------------------------
(* Roles                                                                   *)

\* AuthUser::has on the parsed roles of a user is what GrantedBy says of the
\* words of the configuration, unknown ones included.
LEMMA HasGranted ==
    ASSUME NEW words, NEW r \in Role, Has(ParsedRoles(words), r)
    PROVE  words \cap GrantedBy[r] # {}
<1>1. PICK q \in words \cap Role : Privilege(q) >= Privilege(r)
  BY DEF Has, ParsedRoles
<1>2. Privilege("viewer") = 1 /\ Privilege("analyst") = 2 /\ Privilege("admin") = 3
  BY DEF Privilege
<1>3. q \in GrantedBy[r]
  BY <1>1, <1>2 DEF GrantedBy, Role
<1> QED BY <1>1, <1>3

\* Steps that leave the clock, the grants, the bearer tokens and the running
\* configuration alone keep the invariant.
LEMMA RolesUntouched ==
    ASSUME RolesInv, written' \in AuthConfigs, UNCHANGED <<auth, now, held, jwts>>
    PROVE  RolesInv'
BY DEF RolesInv, AccessTypes, GrantsNoted, JwtsGranted, Has

\* Notes taken at a time t that is not before the present keep what is known of
\* the tokens; the clock and a restart take such notes.
LEMMA NotesKeepJwts ==
    ASSUME RolesInv, NEW c \in AuthConfigs, NEW t \in Nat, t >= now, now' = t, jwts' = jwts,
           auth'.block = c, held' = Noted(held, c, t), written' = written
    PROVE  RolesInv'
<1>1. now \in Nat /\ held \in [User \X Role -> Int]
  BY DEF RolesInv, AccessTypes
<1>2. /\ held' \in [User \X Role -> Int]
      /\ \A u \in User, r \in Role :
             /\ held'[<<u, r>>] \in {t, held[<<u, r>>]}
             /\ u \in DOMAIN c.users /\ c.users[u] \cap GrantedBy[r] # {} => held'[<<u, r>>] = t
  BY <1>1 DEF Noted
<1>3. AccessTypes'
  BY <1>2 DEF AccessTypes, RolesInv
<1>4. GrantsNoted'
  BY <1>2 DEF GrantsNoted
<1>5. JwtsGranted'
  <2> SUFFICES ASSUME NEW j \in jwts
               PROVE  /\ j.sub \in User /\ j.roles \subseteq Role
                      /\ j.exp \in Int /\ j.exp >= Ttl /\ j.exp <= t + Ttl
                      /\ \A r \in Role : Has(j.roles, r) => held'[<<j.sub, r>>] >= j.exp - Ttl
    BY DEF JwtsGranted
  <2>1. /\ j.sub \in User /\ j.roles \subseteq Role
        /\ j.exp \in Int /\ j.exp >= Ttl /\ j.exp <= now + Ttl
        /\ \A r \in Role : Has(j.roles, r) => held[<<j.sub, r>>] >= j.exp - Ttl
    BY DEF RolesInv, JwtsGranted
  <2> DEFINE exp == j.exp
  <2>2. exp \in Int /\ exp <= now + Ttl
    BY <2>1
  <2> HIDE DEF exp
  <2>3. exp <= t + Ttl
    BY <1>1, <2>2, AccessAssumption
  <2>4. ASSUME NEW r \in Role, Has(j.roles, r) PROVE held'[<<j.sub, r>>] >= exp - Ttl
    <3>1. held'[<<j.sub, r>>] \in {t, held[<<j.sub, r>>]} /\ held[<<j.sub, r>>] >= exp - Ttl
      BY <1>2, <2>1, <2>4 DEF exp
    <3> QED BY <3>1, <2>2, <2>3, AccessAssumption
  <2> QED BY <2>1, <2>3, <2>4 DEF exp
<1> QED BY <1>3, <1>4, <1>5 DEF RolesInv

\* A login hands out a token of the roles that the running configuration
\* grants at this moment.
LEMMA LoginStep ==
    ASSUME RolesInv, NEW u \in User, Login(u)
    PROVE  RolesInv'
<1> DEFINE new == [sub |-> u, roles |-> ParsedRoles(auth.block.users[u]), exp |-> now + Ttl,
                   key |-> auth.key]
<1>1. jwts' = jwts \cup {new} /\ u \in DOMAIN auth.block.users
      /\ UNCHANGED <<written, auth, now, held>>
  BY DEF Login
<1>2. AccessTypes' /\ GrantsNoted'
  BY <1>1 DEF RolesInv, AccessTypes, GrantsNoted
<1>3. now \in Nat /\ held \in [User \X Role -> Int]
  BY DEF RolesInv, AccessTypes
<1>4. ASSUME NEW r \in Role, Has(new.roles, r) PROVE held[<<u, r>>] = now
  <2>1. auth.block.users[u] \cap GrantedBy[r] # {}
    BY <1>4, HasGranted
  <2> QED BY <1>1, <2>1 DEF RolesInv, GrantsNoted
<1>5. /\ new.sub = u /\ new.roles \subseteq Role /\ new.exp = now + Ttl
  BY DEF ParsedRoles
<1> HIDE DEF new
<1>6. ASSUME NEW j \in jwts'
      PROVE  /\ j.sub \in User /\ j.roles \subseteq Role
             /\ j.exp \in Int /\ j.exp >= Ttl /\ j.exp <= now + Ttl
             /\ \A r \in Role : Has(j.roles, r) => held[<<j.sub, r>>] >= j.exp - Ttl
  <2>1. CASE j = new
    BY <1>3, <1>4, <1>5, <2>1, AccessAssumption
  <2>2. CASE j \in jwts
    BY <2>2 DEF RolesInv, JwtsGranted
  <2> QED BY <1>1, <1>6, <2>1, <2>2
<1>7. JwtsGranted'
  BY <1>1, <1>6 DEF JwtsGranted
<1> QED BY <1>2, <1>7 DEF RolesInv

\* Every step of the node keeps what is known of grants and bearer tokens.
LEMMA RolesStep == RolesInv /\ [AccessNext]_accessVars => RolesInv'
<1> SUFFICES ASSUME RolesInv, [AccessNext]_accessVars PROVE RolesInv'
  OBVIOUS
<1>0. written \in AuthConfigs /\ auth.block \in AuthConfigs /\ now \in Nat
  BY DEF RolesInv, AccessTypes
<1>1. ASSUME NEW u \in User, Login(u) PROVE RolesInv'
  BY <1>1, LoginStep
<1>2. ASSUME NEW t \in MintToken, TokenCreate(t) \/ SavedCreate(t) PROVE RolesInv'
  BY <1>0, <1>2, RolesUntouched DEF TokenCreate, SavedCreate
<1>3. ASSUME NEW t, SavedUpdate(t) \/ SavedDelete(t) PROVE RolesInv'
  BY <1>0, <1>3, RolesUntouched DEF SavedUpdate, SavedDelete
<1>4. ASSUME NEW c \in AuthConfigs, PutConfig(c) PROVE RolesInv'
  BY <1>4, RolesUntouched DEF PutConfig
<1>5. ASSUME NEW t \in tokens, Enroll(t) PROVE RolesInv'
  BY <1>0, <1>5, RolesUntouched DEF Enroll
<1>6. CASE Tick
  <2>1. now + 1 \in Nat /\ now + 1 >= now
    BY <1>0
  <2>2. /\ now' = now + 1 /\ held' = Noted(held, auth.block, now + 1)
        /\ UNCHANGED <<jwts, auth, written>>
    BY <1>6 DEF Tick
  <2>3. auth'.block = auth.block
    BY <2>2
  <2> QED BY <1>0, <2>1, <2>2, <2>3, NotesKeepJwts
<1>7. CASE AccessRestart
  <2>1. /\ auth'.block = written /\ held' = Noted(held, written, now)
        /\ UNCHANGED <<now, jwts, written>>
    BY <1>7 DEF AccessRestart, FromConfig
  <2> QED BY <1>0, <2>1, NotesKeepJwts
<1>8. CASE UNCHANGED accessVars
  BY <1>0, <1>8, RolesUntouched DEF accessVars
<1> QED BY <1>1, <1>2, <1>3, <1>4, <1>5, <1>6, <1>7, <1>8 DEF AccessNext

\* Whoever a node that authenticates lets in holds a token of its running key
\* and was granted the role at most a token's lifetime and the leeway ago, for
\* every sequence of logins, edits of the configuration and restarts: a role
\* that was taken away runs out although verify looks nothing up.
THEOREM RolesRevoked == AccessSpec => []RolesRunOut
<1>1. AccessInit => RolesInv
  <2> SUFFICES ASSUME AccessInit PROVE RolesInv
    OBVIOUS
  <2> DEFINE never == [p \in User \X Role |-> -1]
  <2>1. never \in [User \X Role -> Int]
    OBVIOUS
  <2>2. written \in AuthConfigs /\ auth.block = written /\ now = 0 /\ held = Noted(never, written, 0) /\ jwts = {}
    BY DEF AccessInit, FromConfig
  <2>3. 0 \in Nat
    OBVIOUS
  <2> HIDE DEF never
  <2>4. /\ held \in [User \X Role -> Int]
        /\ \A u \in User, r \in Role :
               u \in DOMAIN written.users /\ written.users[u] \cap GrantedBy[r] # {} => held[<<u, r>>] = 0
    BY <2>1, <2>2, <2>3 DEF Noted
  <2> QED BY <2>2, <2>3, <2>4 DEF RolesInv, AccessTypes, GrantsNoted, JwtsGranted
<1>2. RolesInv => RolesRunOut
  <2> SUFFICES ASSUME RolesInv, auth.block.enabled, NEW r \in Role, NEW j \in Principal(r)
               PROVE  /\ j.key = auth.key
                      /\ held[<<j.sub, r>>] >= 0 /\ now <= held[<<j.sub, r>>] + Ttl + Leeway
    BY DEF RolesRunOut
  <2>1. j \in jwts /\ j.key = auth.key /\ now <= j.exp + Leeway /\ Has(j.roles, r)
    BY DEF Principal, Verify
  <2>2. j.sub \in User /\ j.exp \in Int /\ j.exp >= Ttl /\ held[<<j.sub, r>>] >= j.exp - Ttl
    BY <2>1 DEF RolesInv, JwtsGranted
  <2>3. held[<<j.sub, r>>] \in Int /\ now \in Nat
    BY <2>2 DEF RolesInv, AccessTypes
  <2> QED BY <2>1, <2>2, <2>3, AccessAssumption
<1> QED BY <1>1, <1>2, RolesStep, PTL DEF AccessSpec
============================================================================
