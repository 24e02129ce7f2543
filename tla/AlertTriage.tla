---------------------------- MODULE AlertTriage ----------------------------
(***************************************************************************)
(* The alert store of the API: the ring of recent alerts, the durable      *)
(* records with their triage, the run loop that pushes alerts and the      *)
(* handlers that patch them.                                               *)
(*                                                                         *)
(* A record is read in one transaction and written in another, so the      *)
(* handlers, which run on the threads of the server, meet between the two. *)
(* The run loop is one task: there is one push at a time.  An alert stands *)
(* for its fingerprint.                                                    *)
(***************************************************************************)
EXTENDS Integers, Sequences, FiniteSets, SequencesExt

CONSTANTS
    Alert,          \* alerts, by fingerprint
    Ts,             \* Ts[a]: when alert a was raised
    Analyst,            \* requests that patch alerts
    Patch,          \* the patches to choose from
    Lists,          \* the lists of fingerprints a request can name
    Keep,           \* a field of a patch that leaves the record alone
    NoRecord,       \* a fingerprint the store does not have
    Cap,            \* size of the ring
    MaxPush,        \* bound: pushes
    MaxRestart,     \* bound: restarts of the node
    MaxLost         \* bound: failed transactions

\* TriageStatus, the names an alert can be assigned to, and AlertRecord.
Status == {"open", "acknowledged", "closed"}
Assignee == {"nobody"} \cup ({p.assignee : p \in Patch} \ {Keep})
AlertRecord == [status : Status, assignee : Assignee, notes : Seq(Analyst)]

ASSUME AlertTriageAssumption ==
    /\ Ts \in [Alert -> Nat]
    /\ Cap \in Nat \ {0}
    /\ \A fps \in Lists : fps \in Seq(Alert) /\ fps # <<>>
    /\ \A p \in Patch : p.status \in Status \cup {Keep} /\ p.note \in BOOLEAN
    /\ NoRecord \notin AlertRecord
    /\ MaxPush \in Nat /\ MaxRestart \in Nat /\ MaxLost \in Nat

VARIABLES
    store,      \* the ALERTS table
    ring,       \* AlertStore.inner
    loop,       \* where the run loop is in push
    patching,   \* where each request is in patch_alert
    pushed, restarts, lost,    \* used up of the bounds
    \* History, read by no guard:
    writes,     \* the patches written, each with the writes its read had seen
    unsaved,    \* alerts whose upsert failed
    hydrated,   \* the alerts the node read from the store when it started
    since       \* the alerts pushed since

triageVars == <<store, ring, loop, patching, pushed, restarts, lost, writes, unsaved, hydrated, since>>

\* AlertRecord::new
NewRecord == [status |-> "open", assignee |-> "nobody", notes |-> <<>>]

LoopIdle == [pc |-> "idle", alert |-> CHOOSE a \in Alert : TRUE]

\* A request that patches alerts: where it is, the alerts it has yet to patch,
\* and what it read of the first of them.
Request(pc, todo, patch, rec, seen) ==
    [pc |-> pc, todo |-> todo, patch |-> patch, rec |-> rec, seen |-> seen]

NoPatch == Request("new", <<>>, Keep, NoRecord, 0)

TriageInit ==
    /\ store = [a \in Alert |-> NoRecord]
    /\ ring = <<>> /\ loop = LoopIdle
    /\ patching = [r \in Analyst |-> NoPatch]
    /\ pushed = 0 /\ restarts = 0 /\ lost = 0
    /\ writes = <<>> /\ unsaved = {} /\ hydrated = {} /\ since = <<>>

---------------------------------------------------------------------------
(* AlertStore::push, with Store::upsert_alert                              *)

\* The ring with alert a, the oldest gone if it was full.
RingPush(q, a) == Append(IF Len(q) = Cap THEN Tail(q) ELSE q, a)

Push(a) ==
    /\ loop.pc = "idle"
    /\ pushed < MaxPush
    /\ pushed' = pushed + 1
    /\ ring' = RingPush(ring, a)
    /\ since' = Append(since, a)
    /\ loop' = [pc |-> "get", alert |-> a]
    /\ UNCHANGED <<store, patching, restarts, lost, writes, unsaved, hydrated>>

\* Mutant: the existing record is not looked for.
FoundNever(a) == FALSE

Found(a) == store[a] # NoRecord

\* A record that exists is left as it is, with its triage.
UpsertGet ==
    /\ loop.pc = "get"
    /\ loop' = IF Found(loop.alert) THEN LoopIdle ELSE [pc |-> "write", alert |-> loop.alert]
    /\ UNCHANGED <<store, ring, patching, pushed, restarts, lost, writes, unsaved, hydrated, since>>

UpsertWrite ==
    /\ loop.pc = "write"
    /\ store' = [store EXCEPT ![loop.alert] = NewRecord]
    /\ unsaved' = unsaved \ {loop.alert}
    /\ loop' = LoopIdle
    /\ UNCHANGED <<ring, patching, pushed, restarts, lost, writes, hydrated, since>>

\* A transaction fails: a warning, and the alert lives in the ring only.
UpsertFails ==
    /\ loop.pc # "idle"
    /\ lost < MaxLost
    /\ lost' = lost + 1
    /\ unsaved' = unsaved \cup {loop.alert}
    /\ loop' = LoopIdle
    /\ UNCHANGED <<store, ring, patching, pushed, restarts, writes, hydrated, since>>

---------------------------------------------------------------------------
(* alert_patch and alerts_bulk_patch, with Store::patch_alert              *)

\* A request arrives; the handler for one alert is a list of one.
AskPatch(r, fps, p) ==
    /\ patching[r].pc = "new"
    /\ patching' = [patching EXCEPT ![r] = Request("get", fps, p, NoRecord, 0)]
    /\ UNCHANGED <<store, ring, loop, pushed, restarts, lost, writes, unsaved, hydrated, since>>

\* The request turns to its next alert, or is answered.
NextAlert(r) ==
    LET todo == Tail(patching[r].todo)
    IN  [patching EXCEPT ![r] = Request(IF todo = <<>> THEN "done" ELSE "get", todo, @.patch, NoRecord, 0)]

\* get_alert; an alert that is not there is answered so, or skipped.
PatchGet(r) ==
    LET fp == Head(patching[r].todo)
    IN  /\ patching[r].pc = "get"
        /\ patching' = IF store[fp] = NoRecord
                    THEN NextAlert(r)
                    ELSE [patching EXCEPT ![r] = Request("write", @.todo, @.patch, store[fp], Len(writes))]
        /\ UNCHANGED <<store, ring, loop, pushed, restarts, lost, writes, unsaved, hydrated, since>>

\* The record with the fields that the patch sets, and its note added.
Patched(rec, p, r) ==
    [status |-> IF p.status = Keep THEN rec.status ELSE p.status,
     assignee |-> IF p.assignee = Keep THEN rec.assignee ELSE p.assignee,
     notes |-> IF p.note THEN Append(rec.notes, r) ELSE rec.notes]

\* write_alert: the record that was read, patched, replaces the one there is.
PatchWrite(r) ==
    LET fp == Head(patching[r].todo)
    IN  /\ patching[r].pc = "write"
        /\ store' = [store EXCEPT ![fp] = Patched(patching[r].rec, patching[r].patch, r)]
        /\ writes' = Append(writes, [fp |-> fp, by |-> r, note |-> patching[r].patch.note, seen |-> patching[r].seen])
        /\ patching' = NextAlert(r)
        /\ UNCHANGED <<ring, loop, pushed, restarts, lost, unsaved, hydrated, since>>

\* A transaction fails: an error answer, or the alert is left out.
PatchFails(r) ==
    /\ patching[r].pc \in {"get", "write"}
    /\ lost < MaxLost
    /\ lost' = lost + 1
    /\ patching' = NextAlert(r)
    /\ UNCHANGED <<store, ring, loop, pushed, restarts, writes, unsaved, hydrated, since>>

---------------------------------------------------------------------------
(* TriageRestart, with Store::list_alerts and AlertStore::hydrate          *)

Stored == {a \in Alert : store[a] # NoRecord}

\* The records as list_alerts sorts them.
NewestFirst(S) ==
    CHOOSE s \in [1 .. Cardinality(S) -> S] : \A i, j \in DOMAIN s : i < j => s[i] # s[j] /\ Ts[s[i]] >= Ts[s[j]]

\* Mutant: hydrated newest first.
HydratedBackwards ==
    LET byTs == NewestFirst(Stored)
    IN  SubSeq(byTs, 1, IF Len(byTs) > Cap THEN Cap ELSE Len(byTs))

\* Mutant: nothing is hydrated.
HydratedNone == <<>>

\* The newest Cap alerts of the store, the newest at the back.
Hydrated ==
    LET byTs == NewestFirst(Stored)
    IN  Reverse(SubSeq(byTs, 1, IF Len(byTs) > Cap THEN Cap ELSE Len(byTs)))

\* The node stops, at any point, and starts again on the same data_dir.  When
\* the store cannot be read it starts all the same, with an empty ring.
TriageRestart ==
    /\ restarts < MaxRestart
    /\ restarts' = restarts + 1
    /\ \/ ring' = Hydrated /\ hydrated' = Stored /\ lost' = lost
       \/ lost < MaxLost /\ lost' = lost + 1 /\ ring' = <<>> /\ hydrated' = {}
    /\ loop' = LoopIdle
    /\ patching' = [r \in Analyst |-> IF patching[r].pc = "new" THEN patching[r] ELSE Request("done", <<>>, Keep, NoRecord, 0)]
    /\ since' = <<>> /\ unsaved' = {}
    /\ UNCHANGED <<store, pushed, writes>>

TriageNext ==
    \/ \E a \in Alert : Push(a)
    \/ UpsertGet \/ UpsertWrite \/ UpsertFails
    \/ \E r \in Analyst, fps \in Lists, p \in Patch : AskPatch(r, fps, p)
    \/ \E r \in Analyst : PatchGet(r) \/ PatchWrite(r) \/ PatchFails(r)
    \/ TriageRestart

TriageSpec == TriageInit /\ [][TriageNext]_triageVars

---------------------------------------------------------------------------
(* Properties                                                              *)

\* A note that was written stays: neither a later push of the same alert,
\* nor a restart, nor a later patch takes it away.  The one way to lose it is
\* a patch written later that had read the record before the note was there.
NotesKept ==
    \A i \in DOMAIN writes :
        LET w == writes[i]
        IN  w.note =>
                \/ w.by \in Range(store[w.fp].notes)
                \/ \E j \in DOMAIN writes : j > i /\ writes[j].fp = w.fp /\ writes[j].seen < i

\* The ring holds the most recent alerts, as many as it has room for and no
\* fewer: what was pushed since the node started and the newest of what it read
\* from the store at its start, which is nothing when that read failed.  The
\* store has them too, but for the one being pushed and failed upserts.
RingNewest ==
    LET n == Len(since)
        known == Cardinality(hydrated) + n
        kept == IF n >= Cap THEN {} ELSE {ring[i] : i \in 1 .. (Len(ring) - n)}
    IN  /\ Len(ring) = IF known > Cap THEN Cap ELSE known
        /\ \A i \in 1 .. (IF n > Cap THEN Cap ELSE n) : ring[Len(ring) + 1 - i] = since[n + 1 - i]
        /\ \A a \in kept, b \in hydrated \ kept : Ts[a] >= Ts[b]
        /\ \A a \in Range(ring) :
               store[a] # NoRecord \/ a \in unsaved \/ (loop.pc # "idle" /\ loop.alert = a)
============================================================================
