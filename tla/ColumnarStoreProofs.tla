------------------------ MODULE ColumnarStoreProofs ------------------------
(***************************************************************************)
(* Proofs about ColumnarStore, for every number of segments, every age and *)
(* every sequence of crashes and failed operations: what it keeps, why a   *)
(* hunt fails, and that it implements SegmentStore.                        *)
(***************************************************************************)
EXTENDS ColumnarStore, TLAPS

---------------------------------------------------------------------------
(* The inductive invariant                                                 *)

\* The segment in hand while it is written: it has a file, and it is new until
\* the catalog lists it.
WritingInv ==
    /\ pc \in {"written", "saveAdd"} => cur \in local
    /\ pc = "written" => cur \notin archive \cup acked \cup purged \cup Listed(cat)
    /\ pc = "saveAdd" => cat[cur] = "warm" /\ cur \notin archive \cup acked \cup purged

\* The segment in hand while it is migrated: uploaded first, then listed as
\* cold, then saved so, and only then dropped.
MigratingInv ==
    /\ pc \in {"stored", "saveMigrate", "drop"} => cur \in archive
    /\ pc = "stored" => cur \in todo
    /\ pc \in {"saveMigrate", "drop"} => cat[cur] = "cold" /\ \A s \in todo : cat[s] = "warm"
    /\ pc = "drop" => saved = cat

\* Retention visits expired segments, and a node that is down has crashed.
ExpiringInv ==
    /\ pc = "expire" => \A s \in todo : ~Unexpired(s)
    /\ pc = "down" => crashes > 0

\* What a catalog lists was returned to the writer, or is about to be.
ListedInv ==
    /\ Listed(cat) \subseteq acked \cup (IF pc = "saveAdd" THEN {cur} ELSE {})
    /\ saved # Torn => Listed(saved) \subseteq acked

\* The running node lists what it has returned and what has not expired.
KeptInMemory == pc # "down" => \A s \in acked : Unexpired(s) => s \in Listed(cat)

\* As long as nothing failed, data is in one tier only, but for the segment
\* that is being migrated.
OneTier ==
    crashes + errors = 0 =>
        \A s \in Segment :
            /\ cat[s] = "cold" /\ s \in local => pc \in {"saveMigrate", "drop"} /\ s = cur
            /\ cat[s] = "warm" /\ s \in archive => pc = "stored" /\ s = cur

\* What a hunt has still to read is where the catalog said or has been
\* archived, and it will have read all that was returned when it began.
HuntInv ==
    /\ hunt.acked \subseteq acked
    /\ hunt.todo \cup hunt.read \subseteq acked
    /\ hunt.todo \subseteq Listed(hunt.from)
    /\ \A s \in hunt.todo \cup hunt.read : Overlaps(s, hunt.window)
    /\ hunt.at = "reading" =>
           /\ \A s \in hunt.todo : Unexpired(s) =>
                  s \in archive \/ (hunt.from[s] = "warm" /\ s \in local)
           /\ \A s \in hunt.acked : Unexpired(s) /\ Overlaps(s, hunt.window) =>
                  s \in hunt.todo \cup hunt.read

StoreInv ==
    /\ TypeOK /\ WritingInv /\ MigratingInv /\ ExpiringInv /\ ListedInv
    /\ Readable /\ Kept /\ KeptInMemory /\ PurgedGone /\ OneTier
    /\ HuntInv /\ HuntFailsOnlyMoved

---------------------------------------------------------------------------
(* Time                                                                    *)

\* The clock and the times of the events are numbers.
LEMMA Times ==
    ASSUME TypeOK
    PROVE  /\ now \in Nat
           /\ \A s \in Segment : span[s] \in Span /\ span[s][1] \in Nat /\ span[s][2] \in Nat
<1>1. now \in Nat /\ \A s \in Segment : span[s] \in Span
  BY StoreAssumption DEF TypeOK
<1>2. \A w \in Span : w[1] \in Nat /\ w[2] \in Nat
  BY StoreAssumption DEF Span
<1> QED BY <1>1, <1>2

---------------------------------------------------------------------------
(* One lemma per step                                                      *)

\* The clock: a segment that has expired stays so.
LEMMA TickStep ==
    ASSUME StoreInv, Tick
    PROVE  StoreInv'
<1> USE DEF StoreInv
<1>0. /\ now' = now + 1 /\ now \in Nat /\ ColdAge \in Nat
      /\ \A s \in Segment : span[s][1] \in Nat /\ span[s][2] \in Nat
  BY Times, StoreAssumption DEF Tick
<1>a. \A s \in Segment : now + 1 - span[s][2] <= ColdAge => now - span[s][2] <= ColdAge
  BY <1>0
<1>1. TypeOK'
  BY <1>0, <1>a, StoreAssumption DEF Tick, node, TypeOK, Listed
<1>2. WritingInv' /\ MigratingInv' /\ ExpiringInv'
  BY <1>0, <1>a, StoreAssumption
     DEF Tick, node, WritingInv, MigratingInv, ExpiringInv, TypeOK, Unexpired
<1>3. ListedInv' /\ Kept' /\ KeptInMemory'
  BY <1>0, <1>a, StoreAssumption
     DEF Tick, node, ListedInv, Kept, KeptInMemory, Unexpired, Listed, TypeOK
<1>4. Readable'
  BY <1>0, <1>a, StoreAssumption DEF Tick, node, Readable, Stored, Unexpired, Listed
<1>5. PurgedGone' /\ OneTier'
  BY <1>0, <1>a, StoreAssumption DEF Tick, node, PurgedGone, OneTier
<1>6. HuntInv' /\ HuntFailsOnlyMoved'
  BY <1>0, <1>a, StoreAssumption
     DEF Tick, node, HuntInv, HuntFailsOnlyMoved, Unexpired, Overlaps, Listed, TypeOK
<1> QED BY <1>1, <1>2, <1>3, <1>4, <1>5, <1>6

\* A new Parquet file, under an id that nothing else has.
LEMMA WriteFileStep ==
    ASSUME StoreInv, NEW s \in Segment, NEW w \in Span, WriteFile(s, w)
    PROVE  StoreInv'
<1> USE DEF StoreInv
<1>1. TypeOK'
  BY DEF WriteFile, Used, TypeOK, Listed
<1>2. WritingInv' /\ MigratingInv' /\ ExpiringInv'
  BY DEF WriteFile, Used, WritingInv, MigratingInv, ExpiringInv, TypeOK, Listed, ListedInv
<1>3. ListedInv' /\ Kept' /\ KeptInMemory'
  BY DEF WriteFile, Used, ListedInv, Kept, KeptInMemory, Unexpired, Listed, TypeOK
<1>4. Readable'
  BY DEF WriteFile, Used, Readable, Stored, Unexpired, Listed, ListedInv
<1>5. PurgedGone' /\ OneTier'
  BY DEF WriteFile, Used, PurgedGone, OneTier, ListedInv, Listed
<1>6. HuntInv' /\ HuntFailsOnlyMoved'
  BY DEF WriteFile, Used, HuntInv, HuntFailsOnlyMoved, Unexpired, Overlaps, Listed, TypeOK
<1> QED BY <1>1, <1>2, <1>3, <1>4, <1>5, <1>6

\* Listing the new segment, and the truncation of the catalog file.
LEMMA AddStep ==
    ASSUME StoreInv, Add
    PROVE  StoreInv'
<1> USE DEF StoreInv
<1>1. TypeOK'
  BY DEF Add, TypeOK, Listed, Catalog, Tier, WritingInv
<1>2. WritingInv' /\ MigratingInv' /\ ExpiringInv'
  BY DEF Add, WritingInv, MigratingInv, ExpiringInv, TypeOK, Catalog, Unexpired
<1>3. ListedInv' /\ Kept' /\ KeptInMemory'
  BY DEF Add, ListedInv, Kept, KeptInMemory, Unexpired, Listed, TypeOK, WritingInv, Catalog
<1>4. Readable'
  BY DEF Add, Readable, Stored, Unexpired, Listed, TypeOK, WritingInv, Catalog
<1>5. PurgedGone' /\ OneTier'
  BY DEF Add, PurgedGone, OneTier, TypeOK, WritingInv, Catalog
<1>6. HuntInv' /\ HuntFailsOnlyMoved'
  BY DEF Add, HuntInv, HuntFailsOnlyMoved, Unexpired, Overlaps, Listed
<1> QED BY <1>1, <1>2, <1>3, <1>4, <1>5, <1>6

\* Saving the catalog with the new segment, which is returned.
LEMMA SaveAddStep ==
    ASSUME StoreInv, SaveAdd
    PROVE  StoreInv'
<1> USE DEF StoreInv
<1>1. TypeOK'
  BY DEF SaveAdd, TypeOK, Listed, WritingInv
<1>2. WritingInv' /\ MigratingInv' /\ ExpiringInv'
  BY DEF SaveAdd, WritingInv, MigratingInv, ExpiringInv, TypeOK
<1>3. ListedInv' /\ Kept' /\ KeptInMemory'
  BY DEF SaveAdd, ListedInv, Kept, KeptInMemory, Unexpired, Listed, TypeOK, WritingInv
<1>4. Readable'
  BY DEF SaveAdd, Readable, Stored, Unexpired, Listed
<1>5. PurgedGone' /\ OneTier'
  BY DEF SaveAdd, PurgedGone, OneTier
<1>6. HuntInv' /\ HuntFailsOnlyMoved'
  BY DEF SaveAdd, HuntInv, HuntFailsOnlyMoved, Unexpired, Overlaps, Listed
<1> QED BY <1>1, <1>2, <1>3, <1>4, <1>5, <1>6

\* The retention pass picks what has expired.
LEMMA RetentionStep ==
    ASSUME StoreInv, Retention
    PROVE  StoreInv'
<1> USE DEF StoreInv
<1>0. \A s \in Segment : now - span[s][2] > ColdAge => ~(now - span[s][2] <= ColdAge)
  BY Times, StoreAssumption
<1>1. TypeOK'
  BY <1>0 DEF Retention, Expired, TypeOK, Listed
<1>2. WritingInv' /\ MigratingInv' /\ ExpiringInv'
  BY <1>0
     DEF Retention, Expired, WritingInv, MigratingInv, ExpiringInv, TypeOK, Unexpired, Listed
<1>3. ListedInv' /\ Kept' /\ KeptInMemory'
  BY <1>0 DEF Retention, Expired, ListedInv, Kept, KeptInMemory, Unexpired, Listed
<1>4. Readable'
  BY <1>0 DEF Retention, Expired, Readable, Stored, Unexpired, Listed
<1>5. PurgedGone' /\ OneTier'
  BY <1>0 DEF Retention, Expired, PurgedGone, OneTier
<1>6. HuntInv' /\ HuntFailsOnlyMoved'
  BY <1>0 DEF Retention, Expired, HuntInv, HuntFailsOnlyMoved, Unexpired, Overlaps, Listed
<1> QED BY <1>1, <1>2, <1>3, <1>4, <1>5, <1>6

\* Deleting the object of an expired segment.
LEMMA DeleteObjectStep ==
    ASSUME StoreInv, NEW s \in Segment, DeleteObject(s)
    PROVE  StoreInv'
<1> USE DEF StoreInv
<1>1. TypeOK'
  BY DEF DeleteObject, node, TypeOK, Listed
<1>2. WritingInv' /\ MigratingInv' /\ ExpiringInv'
  BY DEF DeleteObject, node, WritingInv, MigratingInv, ExpiringInv, TypeOK, Unexpired
<1>3. ListedInv' /\ Kept' /\ KeptInMemory'
  BY DEF DeleteObject, node, ListedInv, Kept, KeptInMemory, Unexpired, Listed
<1>4. Readable'
  BY DEF DeleteObject, node, Readable, Stored, Unexpired, Listed, ExpiringInv
<1>5. PurgedGone' /\ OneTier'
  BY DEF DeleteObject, node, PurgedGone, OneTier
<1>6. HuntInv' /\ HuntFailsOnlyMoved'
  BY DEF DeleteObject, node, HuntInv, HuntFailsOnlyMoved, Unexpired, Overlaps, Listed,
         ExpiringInv
<1> QED BY <1>1, <1>2, <1>3, <1>4, <1>5, <1>6

\* Unlinking and unlisting what has expired.
LEMMA RemoveStep ==
    ASSUME StoreInv, Remove
    PROVE  StoreInv'
<1> USE DEF StoreInv
<1>1. TypeOK'
  BY DEF Remove, Unlinks, TypeOK, Listed, Catalog, Tier
<1>2. WritingInv' /\ MigratingInv' /\ ExpiringInv'
  BY DEF Remove, Unlinks, WritingInv, MigratingInv, ExpiringInv, TypeOK
<1>3. ListedInv' /\ Kept' /\ KeptInMemory'
  BY DEF Remove, Unlinks, ListedInv, Kept, KeptInMemory, Unexpired, Listed, ExpiringInv, TypeOK
<1>4. Readable'
  BY DEF Remove, Unlinks, Readable, Stored, Unexpired, Listed, ExpiringInv
<1>5. PurgedGone' /\ OneTier'
  BY DEF Remove, Unlinks, PurgedGone, OneTier, TypeOK, Listed, Catalog, Tier
<1>6. HuntInv' /\ HuntFailsOnlyMoved'
  BY DEF Remove, Unlinks, HuntInv, HuntFailsOnlyMoved, Unexpired, Overlaps, Listed, ExpiringInv
<1> QED BY <1>1, <1>2, <1>3, <1>4, <1>5, <1>6

\* The save after a removal begins, or there is none.
LEMMA BeginSaveRemoveStep ==
    ASSUME StoreInv, BeginSaveRemove
    PROVE  StoreInv'
<1> USE DEF StoreInv
<1>1. TypeOK'
  BY DEF BeginSaveRemove, TypeOK, Listed
<1>2. WritingInv' /\ MigratingInv' /\ ExpiringInv'
  BY DEF BeginSaveRemove, WritingInv, MigratingInv, ExpiringInv, TypeOK
<1>3. ListedInv' /\ Kept' /\ KeptInMemory'
  BY DEF BeginSaveRemove, ListedInv, Kept, KeptInMemory, Unexpired, Listed
<1>4. Readable'
  BY DEF BeginSaveRemove, Readable, Stored, Unexpired, Listed
<1>5. PurgedGone' /\ OneTier'
  BY DEF BeginSaveRemove, PurgedGone, OneTier
<1>6. HuntInv' /\ HuntFailsOnlyMoved'
  BY DEF BeginSaveRemove, HuntInv, HuntFailsOnlyMoved, Unexpired, Overlaps, Listed
<1> QED BY <1>1, <1>2, <1>3, <1>4, <1>5, <1>6

\* The save after a removal ends, and the migration picks aged segments.
LEMMA SaveRemoveStep ==
    ASSUME StoreInv, SaveRemove
    PROVE  StoreInv'
<1> USE DEF StoreInv
<1>1. TypeOK'
  BY DEF SaveRemove, Aged, TypeOK, Listed
<1>2. WritingInv' /\ MigratingInv' /\ ExpiringInv'
  BY DEF SaveRemove, Aged, WritingInv, MigratingInv, ExpiringInv, TypeOK
<1>3. ListedInv' /\ Kept' /\ KeptInMemory'
  BY DEF SaveRemove, Aged, ListedInv, Kept, KeptInMemory, Unexpired, Listed
<1>4. Readable'
  BY DEF SaveRemove, Aged, Readable, Stored, Unexpired, Listed
<1>5. PurgedGone' /\ OneTier'
  BY DEF SaveRemove, Aged, PurgedGone, OneTier
<1>6. HuntInv' /\ HuntFailsOnlyMoved'
  BY DEF SaveRemove, Aged, HuntInv, HuntFailsOnlyMoved, Unexpired, Overlaps, Listed
<1> QED BY <1>1, <1>2, <1>3, <1>4, <1>5, <1>6

\* Uploading a segment.
LEMMA StoreStep ==
    ASSUME StoreInv, NEW s \in Segment, Store(s)
    PROVE  StoreInv'
<1> USE DEF StoreInv
<1>1. TypeOK'
  BY DEF Store, TypeOK, Listed
<1>2. WritingInv' /\ MigratingInv' /\ ExpiringInv'
  BY DEF Store, WritingInv, MigratingInv, ExpiringInv, TypeOK
<1>3. ListedInv' /\ Kept' /\ KeptInMemory'
  BY DEF Store, ListedInv, Kept, KeptInMemory, Unexpired, Listed
<1>4. Readable'
  BY DEF Store, Readable, Stored, Unexpired, Listed
<1>5. PurgedGone' /\ OneTier'
  BY DEF Store, PurgedGone, OneTier, TypeOK
<1>6. HuntInv' /\ HuntFailsOnlyMoved'
  BY DEF Store, HuntInv, HuntFailsOnlyMoved, Unexpired, Overlaps, Listed
<1> QED BY <1>1, <1>2, <1>3, <1>4, <1>5, <1>6

\* Listing the uploaded segment as cold, and the truncation of the catalog
\* file.
LEMMA MigrateStep ==
    ASSUME StoreInv, Migrate
    PROVE  StoreInv'
<1> USE DEF StoreInv
<1>1. TypeOK'
  BY DEF Migrate, TypeOK, Listed, Catalog, Tier, MigratingInv
<1>2. WritingInv' /\ MigratingInv' /\ ExpiringInv'
  BY DEF Migrate, WritingInv, MigratingInv, ExpiringInv, TypeOK, Catalog
<1>3. ListedInv' /\ Kept' /\ KeptInMemory'
  BY DEF Migrate, ListedInv, Kept, KeptInMemory, Unexpired, Listed, TypeOK, MigratingInv, Catalog
<1>4. Readable'
  BY DEF Migrate, Readable, Stored, Unexpired, Listed, TypeOK, MigratingInv, Catalog
<1>5. PurgedGone' /\ OneTier'
  BY DEF Migrate, PurgedGone, OneTier, TypeOK, MigratingInv, Catalog
<1>6. HuntInv' /\ HuntFailsOnlyMoved'
  BY DEF Migrate, HuntInv, HuntFailsOnlyMoved, Unexpired, Overlaps, Listed
<1> QED BY <1>1, <1>2, <1>3, <1>4, <1>5, <1>6

\* Saving the catalog that lists it as cold.
LEMMA SaveMigrateStep ==
    ASSUME StoreInv, SaveMigrate
    PROVE  StoreInv'
<1> USE DEF StoreInv
<1>1. TypeOK'
  BY DEF SaveMigrate, TypeOK, Listed
<1>2. WritingInv' /\ MigratingInv' /\ ExpiringInv'
  BY DEF SaveMigrate, WritingInv, MigratingInv, ExpiringInv, TypeOK
<1>3. ListedInv' /\ Kept' /\ KeptInMemory'
  BY DEF SaveMigrate, ListedInv, Kept, KeptInMemory, Unexpired, Listed
<1>4. Readable'
  BY DEF SaveMigrate, Readable, Stored, Unexpired, Listed
<1>5. PurgedGone' /\ OneTier'
  BY DEF SaveMigrate, PurgedGone, OneTier
<1>6. HuntInv' /\ HuntFailsOnlyMoved'
  BY DEF SaveMigrate, HuntInv, HuntFailsOnlyMoved, Unexpired, Overlaps, Listed
<1> QED BY <1>1, <1>2, <1>3, <1>4, <1>5, <1>6

\* Dropping the local file of a migrated segment.
LEMMA DropStep ==
    ASSUME StoreInv, Drop
    PROVE  StoreInv'
<1> USE DEF StoreInv
<1>1. TypeOK'
  BY DEF Drop, TypeOK, Listed, MigratingInv
<1>2. WritingInv' /\ MigratingInv' /\ ExpiringInv'
  BY DEF Drop, WritingInv, MigratingInv, ExpiringInv, TypeOK
<1>3. ListedInv' /\ Kept' /\ KeptInMemory'
  BY DEF Drop, ListedInv, Kept, KeptInMemory, Unexpired, Listed
<1>4. Readable'
  BY DEF Drop, Readable, Stored, Unexpired, Listed, MigratingInv
<1>5. PurgedGone' /\ OneTier'
  BY DEF Drop, PurgedGone, OneTier
<1>6. HuntInv' /\ HuntFailsOnlyMoved'
  BY DEF Drop, HuntInv, HuntFailsOnlyMoved, Unexpired, Overlaps, Listed, MigratingInv
<1> QED BY <1>1, <1>2, <1>3, <1>4, <1>5, <1>6

\* The end of the migration.
LEMMA MigratedStep ==
    ASSUME StoreInv, Migrated
    PROVE  StoreInv'
<1> USE DEF StoreInv
<1>1. TypeOK'
  BY DEF Migrated, TypeOK, Listed
<1>2. WritingInv' /\ MigratingInv' /\ ExpiringInv'
  BY DEF Migrated, WritingInv, MigratingInv, ExpiringInv, TypeOK
<1>3. ListedInv' /\ Kept' /\ KeptInMemory'
  BY DEF Migrated, ListedInv, Kept, KeptInMemory, Unexpired, Listed
<1>4. Readable'
  BY DEF Migrated, Readable, Stored, Unexpired, Listed
<1>5. PurgedGone' /\ OneTier'
  BY DEF Migrated, PurgedGone, OneTier
<1>6. HuntInv' /\ HuntFailsOnlyMoved'
  BY DEF Migrated, HuntInv, HuntFailsOnlyMoved, Unexpired, Overlaps, Listed
<1> QED BY <1>1, <1>2, <1>3, <1>4, <1>5, <1>6

\* A hunt begins: what the catalog file lists is where it says, and it lists
\* all that was returned and has not expired.
LEMMA HuntOpenStep ==
    ASSUME StoreInv, NEW w \in Span, HuntOpen(w)
    PROVE  StoreInv'
<1> USE DEF StoreInv
<1>1. TypeOK'
  <2>1. CASE saved = Torn
    <3>1. hunt' = [NoHunt EXCEPT !.at = "err"]
      BY <2>1 DEF HuntOpen
    <3>2. Empty \in Catalog /\ <<0, 0>> \in Span
      BY StoreAssumption DEF Empty, Catalog, Tier, Span
    <3> QED BY <3>1, <3>2 DEF HuntOpen, NoHunt, TypeOK, node
  <2>2. CASE saved # Torn
    <3> DEFINE picked == {s \in Listed(saved) : Overlaps(s, w)}
    <3>1. /\ hunt' = [at |-> "reading", window |-> w, from |-> saved, acked |-> acked,
                      read |-> {}, todo |-> picked]
          /\ saved \in Catalog
      BY <2>2 DEF HuntOpen, TypeOK
    <3>2. picked \subseteq Segment
      BY DEF Listed
    <3> HIDE DEF picked
    <3> QED BY <3>1, <3>2 DEF HuntOpen, TypeOK, node
  <2> QED BY <2>1, <2>2
<1>2. WritingInv' /\ MigratingInv' /\ ExpiringInv'
  BY DEF HuntOpen, node, NoHunt, WritingInv, MigratingInv, ExpiringInv, Unexpired
<1>3. ListedInv' /\ Kept' /\ KeptInMemory'
  BY DEF HuntOpen, node, NoHunt, ListedInv, Kept, KeptInMemory, Unexpired, Listed
<1>4. Readable'
  BY DEF HuntOpen, node, NoHunt, Readable, Stored, Unexpired, Listed
<1>5. PurgedGone' /\ OneTier'
  BY DEF HuntOpen, node, NoHunt, PurgedGone, OneTier
<1>6. HuntInv' /\ HuntFailsOnlyMoved'
  <2>1. UNCHANGED <<now, span, local, archive, saved, acked>>
    BY DEF HuntOpen
  <2>2. CASE saved = Torn
    <3>1. /\ hunt'.at = "err" /\ hunt'.todo = {} /\ hunt'.read = {} /\ hunt'.acked = {}
      BY <2>2 DEF HuntOpen, NoHunt
    <3> QED BY <3>1 DEF HuntInv, HuntFailsOnlyMoved
  <2>3. CASE saved # Torn
    <3>1. /\ hunt'.at = "reading" /\ hunt'.window = w /\ hunt'.from = saved /\ hunt'.acked = acked
          /\ hunt'.read = {} /\ hunt'.todo = {s \in Listed(saved) : Overlaps(s, w)}
          /\ saved \in Catalog /\ acked \subseteq Segment
      BY <2>3 DEF HuntOpen, TypeOK
    <3>2. HuntFailsOnlyMoved'
      BY <3>1 DEF HuntFailsOnlyMoved
    <3>3. HuntInv'
      BY <2>1, <2>3, <3>1
         DEF HuntInv, Readable, Stored, Kept, ListedInv, Listed, Unexpired, Overlaps, Catalog, Tier
    <3> QED BY <3>2, <3>3
  <2> QED BY <2>2, <2>3
<1> QED BY <1>1, <1>2, <1>3, <1>4, <1>5, <1>6

\* A hunt reads a segment, or fails because it is not there.
LEMMA HuntReadStep ==
    ASSUME StoreInv, NEW s \in Segment, HuntRead(s)
    PROVE  StoreInv'
<1> USE DEF StoreInv
<1>1. TypeOK'
  <2>1. hunt \in [at : {"none", "reading", "ok", "err"}, window : Span, from : Catalog,
                 todo : SUBSET Segment, read : SUBSET Segment, acked : SUBSET Segment]
    BY DEF TypeOK
  <2>2. \/ hunt' = [hunt EXCEPT !.todo = @ \ {s}, !.read = @ \cup {s}]
        \/ hunt' = [hunt EXCEPT !.at = "err"]
    BY DEF HuntRead
  <2>3. hunt' \in [at : {"none", "reading", "ok", "err"}, window : Span, from : Catalog,
                  todo : SUBSET Segment, read : SUBSET Segment, acked : SUBSET Segment]
    <3> DEFINE left == hunt.todo \ {s}
               more == hunt.read \cup {s}
    <3>1. left \in SUBSET Segment /\ more \in SUBSET Segment
      BY <2>1
    <3>2. \/ hunt' = [hunt EXCEPT !.todo = left, !.read = more]
          \/ hunt' = [hunt EXCEPT !.at = "err"]
      BY <2>2
    <3> HIDE DEF left, more
    <3> QED BY <2>1, <3>1, <3>2
  <2> QED BY <2>3 DEF HuntRead, TypeOK, Listed, node
<1>2. WritingInv' /\ MigratingInv' /\ ExpiringInv'
  BY DEF HuntRead, node, WritingInv, MigratingInv, ExpiringInv, Unexpired
<1>3. ListedInv' /\ Kept' /\ KeptInMemory'
  BY DEF HuntRead, node, ListedInv, Kept, KeptInMemory, Unexpired, Listed
<1>4. Readable'
  BY DEF HuntRead, node, Readable, Stored, Unexpired, Listed
<1>5. PurgedGone' /\ OneTier'
  BY DEF HuntRead, node, PurgedGone, OneTier
<1>6. HuntInv' /\ HuntFailsOnlyMoved'
  BY DEF HuntRead, node, HuntInv, HuntFailsOnlyMoved, Unexpired, Overlaps, Listed, TypeOK,
         Catalog, Tier
<1> QED BY <1>1, <1>2, <1>3, <1>4, <1>5, <1>6

\* A hunt ends.
LEMMA HuntDoneStep ==
    ASSUME StoreInv, HuntDone
    PROVE  StoreInv'
<1> USE DEF StoreInv
<1>1. TypeOK'
  BY DEF HuntDone, node, TypeOK, Listed
<1>2. WritingInv' /\ MigratingInv' /\ ExpiringInv'
  BY DEF HuntDone, node, WritingInv, MigratingInv, ExpiringInv, Unexpired
<1>3. ListedInv' /\ Kept' /\ KeptInMemory'
  BY DEF HuntDone, node, ListedInv, Kept, KeptInMemory, Unexpired, Listed
<1>4. Readable'
  BY DEF HuntDone, node, Readable, Stored, Unexpired, Listed
<1>5. PurgedGone' /\ OneTier'
  BY DEF HuntDone, node, PurgedGone, OneTier
<1>6. HuntInv' /\ HuntFailsOnlyMoved'
  BY DEF HuntDone, node, HuntInv, HuntFailsOnlyMoved, Unexpired, Overlaps, Listed, TypeOK
<1> QED BY <1>1, <1>2, <1>3, <1>4, <1>5, <1>6

\* An upload or the save of a migration fails: the data is in both tiers.
LEMMA MigrateFailsStep ==
    ASSUME StoreInv, MigrateFails
    PROVE  StoreInv'
<1> USE DEF StoreInv
<1>1. TypeOK'
  BY DEF MigrateFails, TypeOK, Listed, Catalog, Tier, MigratingInv
<1>2. WritingInv' /\ MigratingInv' /\ ExpiringInv'
  BY DEF MigrateFails, WritingInv, MigratingInv, ExpiringInv, TypeOK, Catalog
<1>3. ListedInv' /\ Kept' /\ KeptInMemory'
  BY DEF MigrateFails, ListedInv, Kept, KeptInMemory, Unexpired, Listed, TypeOK, MigratingInv,
         Catalog
<1>4. Readable'
  BY DEF MigrateFails, Readable, Stored, Unexpired, Listed, TypeOK, MigratingInv, Catalog
<1>5. PurgedGone' /\ OneTier'
  BY DEF MigrateFails, PurgedGone, OneTier, TypeOK
<1>6. HuntInv' /\ HuntFailsOnlyMoved'
  BY DEF MigrateFails, HuntInv, HuntFailsOnlyMoved, Unexpired, Overlaps, Listed
<1> QED BY <1>1, <1>2, <1>3, <1>4, <1>5, <1>6

\* A local file stays behind.
LEMMA DropFailsStep ==
    ASSUME StoreInv, DropFails
    PROVE  StoreInv'
<1> USE DEF StoreInv
<1>1. TypeOK'
  BY DEF DropFails, TypeOK, Listed, MigratingInv
<1>2. WritingInv' /\ MigratingInv' /\ ExpiringInv'
  BY DEF DropFails, WritingInv, MigratingInv, ExpiringInv, TypeOK
<1>3. ListedInv' /\ Kept' /\ KeptInMemory'
  BY DEF DropFails, ListedInv, Kept, KeptInMemory, Unexpired, Listed
<1>4. Readable'
  BY DEF DropFails, Readable, Stored, Unexpired, Listed
<1>5. PurgedGone' /\ OneTier'
  BY DEF DropFails, PurgedGone, OneTier, TypeOK
<1>6. HuntInv' /\ HuntFailsOnlyMoved'
  BY DEF DropFails, HuntInv, HuntFailsOnlyMoved, Unexpired, Overlaps, Listed
<1> QED BY <1>1, <1>2, <1>3, <1>4, <1>5, <1>6

\* A crash anywhere.
LEMMA CrashStep ==
    ASSUME StoreInv, Crash
    PROVE  StoreInv'
<1> USE DEF StoreInv
<1>1. TypeOK'
  BY DEF Crash, Empty, TypeOK, Listed, Catalog, Tier
<1>2. WritingInv' /\ MigratingInv' /\ ExpiringInv'
  BY DEF Crash, Empty, WritingInv, MigratingInv, ExpiringInv, TypeOK
<1>3. ListedInv' /\ Kept' /\ KeptInMemory'
  BY DEF Crash, Empty, ListedInv, Kept, KeptInMemory, Unexpired, Listed
<1>4. Readable'
  BY DEF Crash, Empty, Readable, Stored, Unexpired, Listed
<1>5. PurgedGone' /\ OneTier'
  BY DEF Crash, Empty, PurgedGone, OneTier, TypeOK
<1>6. HuntInv' /\ HuntFailsOnlyMoved'
  BY DEF Crash, Empty, HuntInv, HuntFailsOnlyMoved, Unexpired, Overlaps, Listed
<1> QED BY <1>1, <1>2, <1>3, <1>4, <1>5, <1>6

\* A start on a catalog that can be read.
LEMMA StartStep ==
    ASSUME StoreInv, Start
    PROVE  StoreInv'
<1> USE DEF StoreInv
<1>1. TypeOK'
  BY DEF Start, TypeOK, Listed
<1>2. WritingInv' /\ MigratingInv' /\ ExpiringInv'
  BY DEF Start, WritingInv, MigratingInv, ExpiringInv, TypeOK
<1>3. ListedInv' /\ Kept' /\ KeptInMemory'
  BY DEF Start, ListedInv, Kept, KeptInMemory, Unexpired, Listed
<1>4. Readable'
  BY DEF Start, Readable, Stored, Unexpired, Listed
<1>5. PurgedGone' /\ OneTier'
  BY DEF Start, PurgedGone, OneTier, ExpiringInv, TypeOK
<1>6. HuntInv' /\ HuntFailsOnlyMoved'
  BY DEF Start, HuntInv, HuntFailsOnlyMoved, Unexpired, Overlaps, Listed
<1> QED BY <1>1, <1>2, <1>3, <1>4, <1>5, <1>6

---------------------------------------------------------------------------
(* What the store keeps                                                    *)

\* The invariant holds of every state the store can reach, whatever fails and
\* wherever the node ends.
THEOREM StoreInvariant == Spec => []StoreInv
<1>1. Init => StoreInv
  <2> SUFFICES ASSUME Init PROVE StoreInv
    OBVIOUS
  <2>1. Empty \in Catalog /\ <<0, 0>> \in Span /\ Listed(Empty) = {}
    BY StoreAssumption DEF Empty, Catalog, Tier, Span, Listed
  <2>2. TypeOK
    BY <2>1, StoreAssumption DEF Init, TypeOK, NoHunt
  <2>3. WritingInv /\ MigratingInv /\ ExpiringInv /\ ListedInv
    BY <2>1 DEF Init, WritingInv, MigratingInv, ExpiringInv, ListedInv
  <2>4. Readable /\ Kept /\ KeptInMemory /\ PurgedGone /\ OneTier
    BY <2>1 DEF Init, Readable, Kept, KeptInMemory, PurgedGone, OneTier, Empty
  <2>5. HuntInv /\ HuntFailsOnlyMoved
    BY DEF Init, HuntInv, HuntFailsOnlyMoved, NoHunt
  <2> QED BY <2>2, <2>3, <2>4, <2>5 DEF StoreInv
<1>2. StoreInv /\ [Next]_vars => StoreInv'
  <2> SUFFICES ASSUME StoreInv, [Next]_vars PROVE StoreInv'
    OBVIOUS
  <2>1. CASE Tick \/ Roll
    BY <2>1, TickStep, WriteFileStep, AddStep, SaveAddStep DEF Roll
  <2>2. CASE Lifecycle
    BY <2>2, RetentionStep, DeleteObjectStep, RemoveStep, BeginSaveRemoveStep, SaveRemoveStep,
       StoreStep, MigrateStep, SaveMigrateStep, DropStep, MigratedStep DEF Lifecycle
  <2>3. CASE Hunt
    BY <2>3, HuntOpenStep, HuntReadStep, HuntDoneStep DEF Hunt
  <2>4. CASE MigrateFails \/ DropFails \/ Crash \/ Start
    BY <2>4, MigrateFailsStep, DropFailsStep, CrashStep, StartStep
  <2>5. CASE UNCHANGED vars
    BY <2>5 DEF vars, node, StoreInv, TypeOK, WritingInv, MigratingInv, ExpiringInv, ListedInv,
       Readable, Kept, KeptInMemory, PurgedGone, OneTier, HuntInv, HuntFailsOnlyMoved,
       Listed, Stored, Unexpired, Overlaps
  <2> QED BY <2>1, <2>2, <2>3, <2>4, <2>5 DEF Next
<1> QED BY <1>1, <1>2, PTL DEF Spec

\* Data is listed and where its tier says until it expires, over every crash
\* and failure that leaves the catalog readable, and gone from both tiers once
\* enforce_retention has counted it.
THEOREM Retained == Spec => []RetentionHolds
<1>1. StoreInv => RetentionHolds
  BY DEF StoreInv, RetentionHolds
<1> QED BY <1>1, StoreInvariant, PTL

\* A read_range over data that has not expired fails, once it has the catalog,
\* only because migrate_warm moved a segment under it.
THEOREM HuntsFail == Spec => []HuntFailsOnlyMoved
<1>1. StoreInv => HuntFailsOnlyMoved
  BY DEF StoreInv
<1> QED BY <1>1, StoreInvariant, PTL

---------------------------------------------------------------------------
(* Refinement                                                              *)

\* A step that leaves the hunt and the times of returned segments alone does
\* not change what the hunt has asked and been told.
LEMMA QueryKept ==
    ASSUME StoreInv, hunt' = hunt, \A s \in acked : span'[s] = span[s]
    PROVE  Query' = Query
<1>1. hunt.acked \subseteq acked
  BY DEF StoreInv, HuntInv
<1>2. {s \in hunt.acked : Overlaps(s, hunt.window)}' = {s \in hunt.acked : Overlaps(s, hunt.window)}
  BY <1>1 DEF Overlaps
<1> QED BY <1>2 DEF Query

\* What may happen inside the store without being seen: data moves between the
\* tiers, lists are saved.
LEMMA Unseen ==
    ASSUME StoreInv, UNCHANGED <<now, span, acked, hunt>>,
           local' \cup archive' = local \cup archive
    PROVE  UNCHANGED Abstract!storeVars
<1>1. Query' = Query
  BY QueryKept
<1> QED BY <1>1 DEF Abstract!storeVars

\* Expired segments may vanish.
LEMMA Vanishing ==
    ASSUME StoreInv, UNCHANGED <<now, span, acked, hunt>>,
           NEW gone \in SUBSET Segment, \A s \in gone : ~Unexpired(s),
           gone \subseteq local \cup archive, local' \cup archive' = (local \cup archive) \ gone
    PROVE  Abstract!StoreNext
<1>1. Query' = Query
  BY QueryKept
<1>2. \A s \in gone : Abstract!Over(s)
  BY Times, StoreAssumption DEF Unexpired, Abstract!Over, StoreInv
<1>3. Abstract!Expire(gone)
  BY <1>1, <1>2 DEF Abstract!Expire
<1>4. gone \in SUBSET Abstract!Segments
  BY DEF Abstract!Segments, Segment
<1> QED BY <1>3, <1>4 DEF Abstract!StoreNext

\* Every step of the store with its tiers, catalog and failures is a step of
\* the abstract one, or cannot be seen there.
LEMMA StoreRefines ==
    ASSUME StoreInv, [Next]_vars
    PROVE  [Abstract!StoreNext]_(Abstract!storeVars)
<1>0. TypeOK /\ WritingInv /\ MigratingInv /\ ExpiringInv /\ HuntInv
  BY DEF StoreInv
<1>1. CASE Tick
  <2>1. Query' = Query
    BY <1>1, QueryKept DEF Tick
  <2>2. Abstract!Pass
    BY <1>1, <2>1 DEF Tick, Abstract!Pass
  <2> QED BY <2>2 DEF Abstract!StoreNext
<1>2. ASSUME NEW s \in Segment, NEW w \in Span, WriteFile(s, w)
      PROVE  Abstract!StoreNext
  <2>1. s \notin local \cup archive \cup acked
    BY <1>2 DEF WriteFile, Used
  <2>2. \A r \in acked : span'[r] = span[r]
    BY <1>0, <1>2, <2>1 DEF WriteFile, TypeOK
  <2>3. Query' = Query
    BY <1>2, <2>2, QueryKept DEF WriteFile
  <2>4. (local \cup archive)' = (local \cup archive) \cup {s}
    BY <1>2 DEF WriteFile
  <2>5. Abstract!Write(s, w)
    BY <1>2, <2>1, <2>3, <2>4 DEF WriteFile, Abstract!Write
  <2>6. s \in Abstract!Segments /\ w \in Abstract!Window
    BY DEF Abstract!Segments, Segment, Abstract!Window, Span
  <2> QED BY <2>5, <2>6 DEF Abstract!StoreNext
<1>3. CASE SaveAdd
  <2>1. cur \in Segment /\ cur \in local
    BY <1>0, <1>3 DEF SaveAdd, WritingInv, TypeOK
  <2>2. Query' = Query
    BY <1>3, QueryKept DEF SaveAdd
  <2>3. Abstract!Return(cur)
    BY <1>3, <2>1, <2>2 DEF SaveAdd, Abstract!Return
  <2>4. cur \in Abstract!Segments
    BY <2>1 DEF Abstract!Segments, Segment
  <2> QED BY <2>3, <2>4 DEF Abstract!StoreNext
<1>4. ASSUME NEW s \in Segment, DeleteObject(s)
      PROVE  Abstract!StoreNext
  <2> DEFINE gone == {s} \ local
  <2>1. /\ gone \in SUBSET Segment /\ gone \subseteq local \cup archive
        /\ local' \cup archive' = (local \cup archive) \ gone
        /\ UNCHANGED <<now, span, acked, hunt>>
    BY <1>4 DEF DeleteObject
  <2>2. \A r \in gone : ~Unexpired(r)
    BY <1>0, <1>4 DEF DeleteObject, ExpiringInv
  <2> HIDE DEF gone
  <2> QED BY <2>1, <2>2, Vanishing
<1>5. CASE Remove
  <2> DEFINE gone == {s \in local \ archive : s \in todo /\ cat[s] = "warm"}
  <2>1. /\ gone \in SUBSET Segment /\ gone \subseteq local \cup archive
        /\ local' \cup archive' = (local \cup archive) \ gone
        /\ UNCHANGED <<now, span, acked, hunt>>
    BY <1>0, <1>5 DEF Remove, Unlinks, TypeOK
  <2>2. \A r \in gone : ~Unexpired(r)
    BY <1>0, <1>5 DEF Remove, ExpiringInv
  <2> HIDE DEF gone
  <2> QED BY <2>1, <2>2, Vanishing
<1>6. ASSUME NEW w \in Span, HuntOpen(w)
      PROVE  Abstract!StoreNext
  <2>1. hunt.at = "none" /\ UNCHANGED <<now, span, local, archive, acked>>
    BY <1>6 DEF HuntOpen
  <2>2. Query = [at |-> "none", window |-> <<0, 0>>, must |-> {}, answer |-> {}]
    BY <2>1 DEF Query
  <2>3. CASE saved = Torn
    <3>1. hunt'.at = "err"
      BY <1>6, <2>3 DEF HuntOpen, NoHunt
    <3>2. Query' = [at |-> "err", window |-> <<0, 0>>, must |-> {}, answer |-> {}]
      BY <3>1 DEF Query
    <3>3. Abstract!Refuse
      BY <2>1, <2>2, <3>2 DEF Abstract!Refuse, Abstract!NoQuery
    <3> QED BY <3>3 DEF Abstract!StoreNext
  <2>4. CASE saved # Torn
    <3>1. hunt'.at = "reading" /\ hunt'.window = w /\ hunt'.acked = acked
      BY <1>6, <2>4 DEF HuntOpen
    <3>2. Query' = [at |-> "asked", window |-> w, answer |-> {},
                    must |-> {s \in acked : Overlaps(s, w)}]
      BY <2>1, <3>1 DEF Query, Overlaps
    <3>3. Abstract!Ask(w)
      BY <2>1, <2>2, <3>2 DEF Abstract!Ask, Abstract!Meets, Overlaps
    <3>4. w \in Abstract!Window
      BY DEF Abstract!Window, Span
    <3> QED BY <3>3, <3>4 DEF Abstract!StoreNext
  <2> QED BY <2>3, <2>4
<1>7. ASSUME NEW s \in Segment, HuntRead(s)
      PROVE  [Abstract!StoreNext]_(Abstract!storeVars)
  <2>1. hunt.at = "reading" /\ UNCHANGED <<now, span, local, archive, acked>>
    BY <1>7 DEF HuntRead
  <2>2. Query = [at |-> "asked", window |-> hunt.window,
                 must |-> {r \in hunt.acked : Overlaps(r, hunt.window)}, answer |-> {}]
    BY <2>1 DEF Query
  <2>3. CASE hunt' = [hunt EXCEPT !.todo = @ \ {s}, !.read = @ \cup {s}]
    <3>1. hunt'.at = "reading" /\ hunt'.window = hunt.window /\ hunt'.acked = hunt.acked
      BY <1>0, <2>1, <2>3 DEF TypeOK
    <3>2. Query' = Query
      BY <2>1, <2>2, <3>1 DEF Query, Overlaps
    <3> QED BY <2>1, <3>2 DEF Abstract!storeVars
  <2>4. CASE hunt' = [hunt EXCEPT !.at = "err"]
    <3>1. hunt'.at = "err"
      BY <1>0, <2>4 DEF TypeOK
    <3>2. Query' = [at |-> "err", window |-> <<0, 0>>, must |-> {}, answer |-> {}]
      BY <3>1 DEF Query
    <3>3. Abstract!Refuse
      BY <2>1, <2>2, <3>2 DEF Abstract!Refuse, Abstract!NoQuery
    <3> QED BY <3>3 DEF Abstract!StoreNext
  <2> QED BY <1>7, <2>3, <2>4 DEF HuntRead
<1>8. CASE HuntDone
  <2>1. /\ hunt.at = "reading" /\ hunt.todo = {} /\ UNCHANGED <<now, span, local, archive, acked>>
        /\ hunt' = [hunt EXCEPT !.at = "ok"]
    BY <1>8 DEF HuntDone
  <2>2. Query = [at |-> "asked", window |-> hunt.window,
                 must |-> {r \in hunt.acked : Overlaps(r, hunt.window)}, answer |-> {}]
    BY <2>1 DEF Query
  <2>3. /\ hunt'.at = "ok" /\ hunt'.window = hunt.window /\ hunt'.acked = hunt.acked
        /\ hunt'.read = hunt.read
    BY <1>0, <2>1 DEF TypeOK
  <2>4. Query' = [at |-> "ok", window |-> Query.window, must |-> Query.must, answer |-> hunt.read]
    BY <2>1, <2>2, <2>3 DEF Query, Overlaps
  <2>5. hunt.acked \subseteq Segment /\ hunt.read \subseteq Segment
    BY <1>0 DEF TypeOK
  <2>6. \A s \in Query.must : Abstract!Over(s) \/ s \in hunt.read
    <3> SUFFICES ASSUME NEW s \in Query.must, s \notin hunt.read PROVE Abstract!Over(s)
      OBVIOUS
    <3>1. s \in hunt.acked /\ Overlaps(s, hunt.window) /\ s \in Segment
      BY <2>2, <2>5
    <3>2. ~Unexpired(s)
      BY <1>0, <2>1, <3>1 DEF HuntInv
    <3> QED BY <1>0, <3>1, <3>2, Times, StoreAssumption DEF Unexpired, Abstract!Over
  <2>7. \A s \in hunt.read : Abstract!Meets(s, Query.window)
    BY <1>0, <2>2 DEF HuntInv, Overlaps, Abstract!Meets
  <2>8. Abstract!Answer(hunt.read)
    BY <2>1, <2>2, <2>4, <2>6, <2>7 DEF Abstract!Answer
  <2>9. hunt.read \in SUBSET Abstract!Segments
    BY <2>5 DEF Abstract!Segments, Segment
  <2> QED BY <2>8, <2>9 DEF Abstract!StoreNext
<1>9. ASSUME Add \/ Retention \/ BeginSaveRemove \/ SaveRemove \/ Migrate \/ SaveMigrate \/ Migrated
                \/ MigrateFails \/ DropFails \/ Crash \/ Start \/ UNCHANGED vars
      PROVE  UNCHANGED Abstract!storeVars
  <2>1. UNCHANGED <<now, span, local, archive, acked, hunt>>
    BY <1>9 DEF Add, Retention, BeginSaveRemove, SaveRemove, Migrate, SaveMigrate, Migrated,
                MigrateFails, DropFails, Crash, Start, vars
  <2> QED BY <2>1, Unseen
<1>10. ASSUME NEW s \in Segment, Store(s)
       PROVE  UNCHANGED Abstract!storeVars
  BY <1>10, Unseen DEF Store
<1>11. CASE Drop
  <2>1. cur \in archive
    BY <1>0, <1>11 DEF Drop, MigratingInv
  <2>2. local' \cup archive' = local \cup archive /\ UNCHANGED <<now, span, acked, hunt>>
    BY <1>11, <2>1 DEF Drop
  <2> QED BY <2>2, Unseen
<1> QED BY <1>1, <1>2, <1>3, <1>4, <1>5, <1>6, <1>7, <1>8, <1>9, <1>10, <1>11
        DEF Next, Roll, Lifecycle, Hunt

\* The store with its two tiers, its catalog file and its failures implements
\* the abstract one: a migration loses nothing at any step, only expired data
\* goes, and a read_range that succeeds has all that had been returned.
THEOREM StoreImplemented == Spec => ImplementsStore
<1>1. Init => Abstract!StoreInit
  BY DEF Init, Abstract!StoreInit, Abstract!Segments, Segment, Abstract!NoQuery, Query, NoHunt
<1>2. StoreInv /\ [Next]_vars => [Abstract!StoreNext]_(Abstract!storeVars)
  BY StoreRefines
<1> QED BY <1>1, <1>2, StoreInvariant, PTL DEF Spec, ImplementsStore, Abstract!StoreSpec
=============================================================================
