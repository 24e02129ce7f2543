--------------------------- MODULE ColumnarStore ---------------------------
(***************************************************************************)
(* The columnar store: Parquet segments on local disk (warm), their copies *)
(* in the object-store archive (cold), the JSON catalog that says where    *)
(* each one is, and the jobs of the run loop on them: write_segment,       *)
(* enforce_retention and migrate_warm.  `sigil hunt` reads the same files  *)
(* from a process of its own (read_range).                                 *)
(*                                                                         *)
(* A step is what happens between two points where a crash leaves          *)
(* something different behind.  fs::write truncates before it writes, so   *)
(* every save of the catalog is two steps with a torn file between them.   *)
(* A segment is its number and the times of its first and last event; the  *)
(* archive is attached.  Local disk and archive are external: an operation *)
(* on them works, or fails and leaves things as they were.                 *)
(***************************************************************************)
EXTENDS Integers, FiniteSets

CONSTANTS
    MaxSegments,    \* bound: segments written in all
    MaxTime,        \* bound: the clock
    WarmAge,        \* retention.warm: older segments are archived
    ColdAge,        \* retention.cold: older segments are deleted
    MaxCrashes,     \* bound: crashes of the node
    MaxErrors       \* bound: failed operations on disk or archive

ASSUME StoreAssumption ==
    /\ MaxSegments \in Nat \ {0} /\ MaxTime \in Nat
    /\ WarmAge \in Nat /\ ColdAge \in Nat
    /\ MaxCrashes \in Nat /\ MaxErrors \in Nat

VARIABLES
    now,        \* now_micros
    span,       \* span[s]: min_ts and max_ts of segment s
    local,      \* the segments with a Parquet file in cold_dir
    archive,    \* the segments with an object in the archive
    saved,      \* catalog.json: the tier of each segment, or Torn
    cat,        \* the node's Catalog in memory
    pc,         \* what the run loop is doing; "down" when the node is
    cur,        \* the segment in hand
    todo,       \* the segments the job still has to visit
    hunt,       \* the read_range of `sigil hunt`
    crashes, errors,
    \* History, read by no guard:
    acked,      \* segments write_segment has returned
    purged      \* segments enforce_retention has counted as removed

node == <<cat, pc, cur, todo>>
vars == <<now, span, local, archive, saved, node, hunt, crashes, errors, acked, purged>>

Segment == 1 .. MaxSegments
None == 0
Tier == {"none", "warm", "cold"}
Catalog == [Segment -> Tier]
Empty == [s \in Segment |-> "none"]
Torn == [s \in Segment |-> "torn"]     \* a file that does not parse
Listed(c) == {s \in Segment : c[s] # "none"}
Span == {w \in (0 .. MaxTime) \X (0 .. MaxTime) : w[1] <= w[2]}

NoHunt == [at |-> "none", window |-> <<0, 0>>, from |-> Empty, todo |-> {}, read |-> {},
           acked |-> {}]

\* The catalogs, the job and the hunt have their types; a job visits listed
\* segments only, the migration warm ones only.
TypeOK ==
    /\ now \in 0 .. MaxTime
    /\ span \in [Segment -> Span]
    /\ local \subseteq Segment /\ archive \subseteq Segment
    /\ saved \in Catalog \cup {Torn}
    /\ cat \in Catalog
    /\ pc \in {"down", "idle", "written", "saveAdd", "expire", "removed",
               "saveRemove", "unchanged", "migrate", "stored", "saveMigrate", "drop"}
    /\ cur \in Segment \cup {None} /\ todo \subseteq Segment
    /\ pc = "expire" => todo \subseteq Listed(cat)
    /\ pc \in {"migrate", "stored"} => \A s \in todo : cat[s] = "warm"
    /\ hunt \in [at : {"none", "reading", "ok", "err"}, window : Span, from : Catalog,
                 todo : SUBSET Segment, read : SUBSET Segment, acked : SUBSET Segment]
    /\ crashes \in Nat /\ errors \in Nat
    /\ acked \subseteq Segment /\ purged \subseteq Segment

Init ==
    /\ now = 0
    /\ span = [s \in Segment |-> <<0, 0>>]
    /\ local = {} /\ archive = {} /\ saved = Empty
    /\ cat = Empty /\ pc = "idle" /\ cur = None /\ todo = {}
    /\ hunt = NoHunt
    /\ crashes = 0 /\ errors = 0 /\ acked = {} /\ purged = {}

Tick ==
    /\ now < MaxTime
    /\ now' = now + 1
    /\ UNCHANGED <<span, local, archive, saved, node, hunt, crashes, errors, acked, purged>>

---------------------------------------------------------------------------
(* write_segment                                                           *)

Used == {s \in Segment : s \in local \cup archive \cup acked \cup purged}

\* A batch with events from w[1] to w[2], by their own clocks, becomes a
\* Parquet file under a fresh id ...
WriteFile(s, w) ==
    /\ pc = "idle"
    /\ s \notin Used /\ \A r \in Segment \ Used : s <= r
    /\ span' = [span EXCEPT ![s] = w]
    /\ local' = local \cup {s}
    /\ pc' = "written" /\ cur' = s
    /\ UNCHANGED <<now, archive, saved, cat, todo, hunt, crashes, errors, acked, purged>>

\* ... is listed as warm, and the save of the catalog begins ...
Add ==
    /\ pc = "written"
    /\ cat' = [cat EXCEPT ![cur] = "warm"]
    /\ saved' = Torn
    /\ pc' = "saveAdd"
    /\ UNCHANGED <<now, span, local, archive, cur, todo, hunt, crashes, errors, acked, purged>>

\* ... and ends.
SaveAdd ==
    /\ pc = "saveAdd"
    /\ saved' = cat
    /\ acked' = acked \cup {cur}
    /\ pc' = "idle" /\ cur' = None
    /\ UNCHANGED <<now, span, local, archive, cat, todo, hunt, crashes, errors, purged>>

---------------------------------------------------------------------------
(* enforce_retention                                                       *)

\* Mutant: the age of a segment is that of its oldest event.
ExpiredByMin == {s \in Listed(cat) : now - span[s][1] > ColdAge}

Expired == {s \in Listed(cat) : now - span[s][2] > ColdAge}

\* The retention tick snapshots the expired segments ...
Retention ==
    /\ pc = "idle"
    /\ todo' = Expired
    /\ pc' = "expire"
    /\ UNCHANGED <<now, span, local, archive, saved, cat, cur, hunt, crashes, errors, acked, purged>>

\* ... deletes the archived ones from the archive; deleting twice is fine ...
DeleteObject(s) ==
    /\ pc = "expire"
    /\ s \in todo /\ cat[s] = "cold" /\ s \in archive
    /\ archive' = archive \ {s}
    /\ UNCHANGED <<now, span, local, saved, node, hunt, crashes, errors, acked, purged>>

\* Mutant: the files stay.
Unlinked(gone) == {}

\* The files Catalog::remove unlinks: the path of a cold segment is its
\* archive key, which is no local file.
Unlinks(gone) == {s \in gone : cat[s] = "warm"}

\* ... then unlinks the warm ones and takes them all off the list ...
Remove ==
    /\ pc = "expire"
    /\ \A s \in todo : cat[s] = "cold" => s \notin archive
    /\ local' = local \ Unlinks(todo)
    /\ cat' = [s \in Segment |-> IF s \in todo THEN "none" ELSE cat[s]]
    /\ purged' = purged \cup todo
    /\ pc' = "removed"
    /\ UNCHANGED <<now, span, archive, saved, cur, todo, hunt, crashes, errors, acked>>

\* ... and saves, unless there was nothing to remove.
BeginSaveRemove ==
    /\ pc = "removed"
    /\ saved' = IF todo = {} THEN saved ELSE Torn
    /\ pc' = IF todo = {} THEN "unchanged" ELSE "saveRemove"
    /\ todo' = {}
    /\ UNCHANGED <<now, span, local, archive, cat, cur, hunt, crashes, errors, acked, purged>>

---------------------------------------------------------------------------
(* migrate_warm                                                            *)

\* Mutant: whatever its tier.
AgedAny(c) == {s \in Listed(c) : now - span[s][2] > WarmAge}

\* Mutant: compared with the wrong age.
AgedCold(c) == {s \in Segment : c[s] = "warm" /\ now - span[s][2] > ColdAge}

Aged(c) == {s \in Segment : c[s] = "warm" /\ now - span[s][2] > WarmAge}

\* enforce_retention ends, with its save if there was one; migrate_warm
\* follows in the same tick and snapshots the aged warm segments.
SaveRemove ==
    /\ pc \in {"saveRemove", "unchanged"}
    /\ saved' = IF pc = "saveRemove" THEN cat ELSE saved
    /\ todo' = Aged(cat)
    /\ pc' = "migrate"
    /\ UNCHANGED <<now, span, local, archive, cat, cur, hunt, crashes, errors, acked, purged>>

\* Mutant: the local file goes as soon as the upload is through.
StoreAndDrop(s) ==
    /\ pc = "migrate" /\ s \in todo
    /\ s \in local
    /\ archive' = archive \cup {s}
    /\ local' = local \ {s}
    /\ cur' = s /\ pc' = "stored"
    /\ UNCHANGED <<now, span, saved, cat, todo, hunt, crashes, errors, acked, purged>>

\* One after the other: the file is read and uploaded ...
Store(s) ==
    /\ pc = "migrate" /\ s \in todo
    /\ s \in local
    /\ archive' = archive \cup {s}
    /\ cur' = s /\ pc' = "stored"
    /\ UNCHANGED <<now, span, local, saved, cat, todo, hunt, crashes, errors, acked, purged>>

\* ... the catalog lists it as cold, and is saved ...
Migrate ==
    /\ pc = "stored"
    /\ cat' = [cat EXCEPT ![cur] = "cold"]
    /\ todo' = todo \ {cur}
    /\ saved' = Torn
    /\ pc' = "saveMigrate"
    /\ UNCHANGED <<now, span, local, archive, cur, hunt, crashes, errors, acked, purged>>

SaveMigrate ==
    /\ pc = "saveMigrate"
    /\ saved' = cat
    /\ pc' = "drop"
    /\ UNCHANGED <<now, span, local, archive, cat, cur, todo, hunt, crashes, errors, acked, purged>>

\* ... and the local file is dropped.
Drop ==
    /\ pc = "drop"
    /\ local' = local \ {cur}
    /\ pc' = "migrate" /\ cur' = None
    /\ UNCHANGED <<now, span, archive, saved, cat, todo, hunt, crashes, errors, acked, purged>>

\* The tick is over.
Migrated ==
    /\ pc = "migrate" /\ todo = {}
    /\ pc' = "idle"
    /\ UNCHANGED <<now, span, local, archive, saved, cat, cur, todo, hunt, crashes, errors, acked, purged>>

---------------------------------------------------------------------------
(* Failures                                                                *)

\* An upload or the catalog save of migrate_warm fails: the loop logs it and
\* gives the pass up.  Catalog::migrate has changed the entry by then; the
\* save fails before it truncates the file, or after.
MigrateFails ==
    /\ errors < MaxErrors
    /\ \/ /\ pc = "migrate" /\ todo # {}
          /\ UNCHANGED <<cat, saved>>
       \/ /\ pc = "stored"
          /\ cat' = [cat EXCEPT ![cur] = "cold"]
          /\ saved' \in {saved, Torn}
    /\ errors' = errors + 1
    /\ pc' = "idle" /\ cur' = None /\ todo' = {}
    /\ UNCHANGED <<now, span, local, archive, hunt, crashes, acked, purged>>

\* remove_file's error is ignored: the local file stays.
DropFails ==
    /\ errors < MaxErrors
    /\ pc = "drop"
    /\ errors' = errors + 1
    /\ pc' = "migrate" /\ cur' = None
    /\ UNCHANGED <<now, span, local, archive, saved, cat, todo, hunt, crashes, acked, purged>>

\* A crash, or an error of write_segment or enforce_retention, which the run
\* loop propagates: the process ends where it is.
Crash ==
    /\ crashes < MaxCrashes
    /\ pc # "down"
    /\ pc' = "down" /\ cat' = Empty /\ cur' = None /\ todo' = {}
    /\ crashes' = crashes + 1
    /\ UNCHANGED <<now, span, local, archive, saved, hunt, errors, acked, purged>>

\* Catalog::open: the node does not start on a file it cannot parse.
Start ==
    /\ pc = "down"
    /\ saved # Torn
    /\ cat' = saved /\ pc' = "idle"
    /\ UNCHANGED <<now, span, local, archive, saved, cur, todo, hunt, crashes, errors, acked, purged>>

---------------------------------------------------------------------------
(* sigil hunt                                                              *)

\* Mutant: the first and the last moment of the window are left out.
OverlapsInside(s, w) == span[s][1] < w[2] /\ span[s][2] > w[1]

\* Catalog::overlapping: does the segment meet the window?
Overlaps(s, w) == span[s][1] <= w[2] /\ span[s][2] >= w[1]

\* A hunt opens the catalog file and picks the segments of its window; it
\* fails on a file it cannot parse ...
HuntOpen(w) ==
    /\ hunt.at = "none"
    /\ hunt' = IF saved = Torn
                 THEN [NoHunt EXCEPT !.at = "err"]
                 ELSE [at |-> "reading", window |-> w, from |-> saved, acked |-> acked,
                       read |-> {}, todo |-> {s \in Listed(saved) : Overlaps(s, w)}]
    /\ UNCHANGED <<now, span, local, archive, saved, node, crashes, errors, acked, purged>>

\* ... and reads them one by one where the catalog said they were; one that
\* is missing fails the hunt.
HuntRead(s) ==
    /\ hunt.at = "reading" /\ s \in hunt.todo
    /\ hunt' = IF s \in (IF hunt.from[s] = "cold" THEN archive ELSE local)
                 THEN [hunt EXCEPT !.todo = @ \ {s}, !.read = @ \cup {s}]
                 ELSE [hunt EXCEPT !.at = "err"]
    /\ UNCHANGED <<now, span, local, archive, saved, node, crashes, errors, acked, purged>>

HuntDone ==
    /\ hunt.at = "reading" /\ hunt.todo = {}
    /\ hunt' = [hunt EXCEPT !.at = "ok"]
    /\ UNCHANGED <<now, span, local, archive, saved, node, crashes, errors, acked, purged>>

---------------------------------------------------------------------------
Roll == (\E s \in Segment, w \in Span : WriteFile(s, w)) \/ Add \/ SaveAdd
Lifecycle ==
    \/ Retention \/ (\E s \in Segment : DeleteObject(s)) \/ Remove
    \/ BeginSaveRemove \/ SaveRemove
    \/ (\E s \in Segment : Store(s)) \/ Migrate \/ SaveMigrate \/ Drop \/ Migrated
Hunt == (\E w \in Span : HuntOpen(w)) \/ (\E s \in Segment : HuntRead(s)) \/ HuntDone

Next ==
    \/ Tick \/ Roll \/ Lifecycle \/ Hunt
    \/ MigrateFails \/ DropFails \/ Crash \/ Start

Spec == Init /\ [][Next]_vars

\* The retention interval ticks while the node is up, a job that has begun
\* goes on, and a node that ended is started again.
FairSpec ==
    /\ Spec
    /\ WF_vars(Lifecycle) /\ WF_vars(Add) /\ WF_vars(SaveAdd) /\ WF_vars(Start)

---------------------------------------------------------------------------
(* Properties                                                              *)

Unexpired(s) == now - span[s][2] <= ColdAge

Stored(c, s) == s \in (IF c[s] = "cold" THEN archive ELSE local)

\* The catalog never points at data that is gone: every unexpired segment it
\* lists, in the file and in the memory of a running node, is where its tier
\* says, after a crash at any step of a migration or a retention pass too.
Readable ==
    \A s \in Segment : Unexpired(s) =>
        /\ saved # Torn /\ s \in Listed(saved) => Stored(saved, s)
        /\ s \in Listed(cat) => Stored(cat, s)

\* A segment that write_segment has returned stays listed until it expires,
\* over crashes, failed uploads and restarts, as long as the catalog file
\* can be read.
Kept == \A s \in acked : Unexpired(s) /\ saved # Torn => s \in Listed(saved)

\* enforce_retention "delete[s] segments whose data is older than
\* `max_age_micros`, in whichever tier they live": on a node that never
\* crashed and met no error, neither the file, which SQL would scan, nor the
\* object is left of a segment that was counted as removed.
PurgedGone == crashes + errors = 0 => purged \cap (local \cup archive) = {}

\* Retention as the operator reads it: data is listed and where its tier says
\* until it expires, over every crash and failure that leaves the catalog
\* readable, and gone from both tiers once it was counted as removed.
RetentionHolds == TypeOK /\ Readable /\ Kept /\ PurgedGone

\* A hunt over segments that have not expired fails, once it has read the
\* catalog, only because the node archived one of them under it: no other
\* step takes the data of a listed segment away.
HuntFailsOnlyMoved ==
    hunt.at = "err" /\ hunt.todo # {} =>
        \E s \in hunt.todo : ~Unexpired(s) \/ (hunt.from[s] = "warm" /\ s \in archive)

\* A warm segment past the warm age is archived or expires, when uploads fail
\* only now and then; a crash that tears the catalog ends the node for good.
Archived ==
    \A s \in Segment :
        cat[s] = "warm" /\ now - span[s][2] > WarmAge ~>
            \/ cat[s] = "cold" /\ s \in archive
            \/ ~Unexpired(s)
            \/ pc = "down" /\ saved = Torn

\* What a hunt has asked and been told: it is answered when its last segment
\* is read.
Query ==
    CASE hunt.at = "none" -> [at |-> "none", window |-> <<0, 0>>, must |-> {}, answer |-> {}]
      [] hunt.at = "err" -> [at |-> "err", window |-> <<0, 0>>, must |-> {}, answer |-> {}]
      [] OTHER -> [at |-> IF hunt.at = "ok" THEN "ok" ELSE "asked", window |-> hunt.window,
                   must |-> {s \in hunt.acked : Overlaps(s, hunt.window)},
                   answer |-> IF hunt.at = "ok" THEN hunt.read ELSE {}]

\* The abstract store: a segment's data is what either tier has.
Abstract == INSTANCE SegmentStore WITH data <- local \cup archive, returned <- acked, query <- Query

\* The store with its two tiers, catalog file, failing operations and crashes
\* implements the abstract one: a migration loses nothing at any step, only
\* expired data goes, and a hunt that succeeds, although it reads the files of
\* a running node one by one, has all that was returned before it began.
ImplementsStore == Abstract!StoreSpec
============================================================================
