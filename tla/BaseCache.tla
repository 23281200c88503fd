------------------------------ MODULE BaseCache ------------------------------
(***************************************************************************)
(* The concurrent cache engine of src/sync/base_cache.rs: client threads   *)
(* that insert, remove and get through the segmented hash map and post     *)
(* ReadOp/WriteOp records to two bounded channels, and the single          *)
(* maintenance worker (Inner::sync) that drains the channels, keeps the    *)
(* access-order and write-order deques and the weighted size, runs the     *)
(* size-aware TinyLFU admission and sweeps expired entries.                *)
(*                                                                         *)
(* A ValueEntry is an id in 1..MaxEntries.  Its admitted flag and its two  *)
(* timestamps live in a shared cell: an update (ValueEntry::new_with)      *)
(* creates a new entry that shares the old one's cell and copies its deque *)
(* node pointers.  A deque node is named by the id of the entry whose      *)
(* admission pushed it; the node's key and timestamp are that entry's key  *)
(* and cell.  Unlinking a node frees it: a later use of a pointer to it is *)
(* undefined behaviour, recorded in the ghost flag ub.                     *)
(***************************************************************************)
EXTENDS Integers, Sequences, SequencesExt, FiniteSets, FiniteSetsExt, TLC

CONSTANTS
    Keys,                  \* keys clients use
    Values,                \* values clients insert
    Threads,               \* client threads
    Weight,                \* the weigher: [Values -> Nat] (default 1)
    MaxCapacity,           \* max_capacity
    FlushPoint,            \* READ_LOG_FLUSH_POINT = WRITE_LOG_FLUSH_POINT
    MaxSyncRepeats,        \* MAX_SYNC_REPEATS
    EvictionBatchSize,     \* EVICTION_BATCH_SIZE
    MaxConsecutiveRetries, \* MAX_CONSECUTIVE_RETRIES in admit
    TimeToLive,            \* time_to_live in clock ticks, or None
    TimeToIdle,            \* time_to_idle in clock ticks, or None
    MaxEntries,            \* bound: ValueEntries ever created
    MaxTime,               \* bound: last clock tick
    MaxFreq,               \* saturation of the frequency sketch counters
    MaxCalls,              \* bound: public calls (insert, remove, get, invalidate_all,
                           \* invalidate_entries_if)
    InvalidatorEnabled,    \* invalidator_enabled
    Predicates,            \* the closures passed to invalidate_entries_if
    Matches,               \* [Predicates -> SUBSET (Keys \X Values)]: where each returns true
    IdSpace,               \* the predicate id space, abstracted
    MaxRetry,              \* MAX_RETRY of register_predicate
    InvalidationBatchSize, \* INVALIDATION_BATCH_SIZE
    None,                  \* absent key / node pointer / duration
    Unset                  \* the u64::MAX "unset" timestamp

ASSUME /\ Weight \in [Values -> Nat]
       /\ MaxCapacity \in Nat
       /\ FlushPoint \in Nat \ {0}
       /\ MaxSyncRepeats \in Nat
       /\ {EvictionBatchSize, MaxEntries, MaxTime, MaxFreq, MaxCalls} \subseteq Nat \ {0}
       /\ MaxConsecutiveRetries \in Nat
       /\ TimeToLive \in Nat \cup {None}
       /\ TimeToIdle \in Nat \cup {None}
       /\ InvalidatorEnabled \in BOOLEAN
       /\ Matches \in [Predicates -> SUBSET (Keys \X Values)]
       /\ {IdSpace, InvalidationBatchSize} \subseteq Nat \ {0} /\ MaxRetry \in Nat

\* READ_LOG_SIZE and WRITE_LOG_SIZE: the channel bounds.
LogSize == FlushPoint * (MaxSyncRepeats + 2)

EntryIds == 1..MaxEntries
Time == 0..MaxTime

\* Inner::is_write_order_queue_enabled
WriteOrderEnabled == TimeToLive # None \/ InvalidatorEnabled
\* Inner::has_expiry
HasExpiry == TimeToLive # None \/ TimeToIdle # None

VARIABLES
    cache,        \* the hash map: [Keys -> EntryIds \cup {None}]
    entries,      \* ValueEntry records: key, value, shared cell, node pointer
    admitted,     \* per cell: is_admitted
    lastAccessed, \* per cell: last_accessed tick or Unset
    lastModified, \* per cell: last_modified tick or Unset
    probation,    \* access-order deque (MainProbation) of node ids
    writeOrder,   \* write-order deque of node ids
    freq,         \* frequency sketch, per key
    ws,           \* weighted_size
    validAfter,   \* valid_after (0 = never invalidated)
    readCh,       \* read_op_ch
    writeCh,      \* write_op_ch
    client,       \* per thread: pc, the op it holds, the replaced entry
    mnt,          \* the maintenance worker inside Inner::sync
    now,          \* the expiration clock
    ub,           \* ghost: a freed deque node was dereferenced
    calls,        \* ghost: public calls made so far (bounded by MaxCalls)
    woCursor,     \* the write-order deque's iteration cursor
    registry, isEmpty, lastKey, ctxPreds, pool, taskResult, taskRunning
                  \* the invalidator's state (module Invalidator)

invVars == <<registry, isEmpty, lastKey, ctxPreds, pool, taskResult, taskRunning>>

vars == <<cache, entries, admitted, lastAccessed, lastModified, probation,
          writeOrder, freq, ws, validAfter, readCh, writeCh, client, mnt,
          now, ub, calls, woCursor, invVars>>

Inv == INSTANCE Invalidator

\* at and read are ghosts: the tick at which the insert or update made the
\* entry, and the tick of the last get that returned it (0: none).
Entry == [key : Keys, value : Values, cell : EntryIds, node : EntryIds \cup {None},
          at : Time, read : Time]
WriteOp == [type : {"Upsert", "Remove"}, key : Keys, entry : EntryIds]
ReadOp == [type : {"Hit"}, key : Keys, entry : EntryIds, ts : Time]
          \cup [type : {"Miss"}, key : Keys]
Idle == [pc |-> "idle", op |-> None, old |-> None]
\* The worker between two sync calls: its locals are dead.
SyncIdle == [pc |-> "idle", calls |-> 0, count |-> 0, ts |-> 0, va |-> 0, adm |-> None]

-----------------------------------------------------------------------------
(* The state owned by the maintenance worker, as a record, so that a       *)
(* handler that calls several helpers is a composition of operators.       *)
St == [cache |-> cache, entries |-> entries, admitted |-> admitted,
       la |-> lastAccessed, lm |-> lastModified, ao |-> probation,
       wo |-> writeOrder, ws |-> ws, ub |-> ub, cur |-> woCursor]

SetSt(s) == /\ cache' = s.cache
            /\ entries' = s.entries
            /\ admitted' = s.admitted
            /\ lastAccessed' = s.la
            /\ lastModified' = s.lm
            /\ probation' = s.ao
            /\ writeOrder' = s.wo
            /\ ws' = s.ws
            /\ ub' = s.ub
            /\ woCursor' = s.cur

Cell(s, e) == s.entries[e].cell
NodeKey(s, n) == s.entries[n].key
\* WeightedSize::weigh of an entry's key and value
Weigh(s, e) == Weight[s.entries[e].value]
AoNode(s, e) == s.entries[e].node
WoNode(s, e) == IF WriteOrderEnabled THEN s.entries[e].node ELSE None
\* A pointer to a node that is no longer linked points to freed memory.
Freed(deq, n) == n # None /\ ~Contains(deq, n)
MoveToBack(deq, n) == Append(Remove(deq, n), n)
\* u64::saturating_sub
SatSub(a, b) == IF a > b THEN a - b ELSE 0

\* The write-order deque's cursor (Deque::cursor): CurStart when unset
\* (iteration starts at the head), CurDone (DeqCursor::Done) or the node
\* that the next call of Iterator::next returns.
CurStart == 0
CurDone == -1

\* Deque::advance_cursor from the cursor c of deque deq.
AdvanceCursor(deq, c) ==
    IF c = CurDone THEN CurStart
    ELSE LET i == SelectInSeq(deq, LAMBDA x : x = c) IN
         IF i < Len(deq) THEN deq[i + 1] ELSE CurDone

\* Deque::unlink and Deque::move_to_back on the write-order deque: a
\* cursor standing on the node first advances past it.
WoUnlink(s, n) ==
    [s EXCEPT !.wo = Remove(@, n), !.cur = IF @ = n THEN AdvanceCursor(s.wo, n) ELSE @]
WoMoveToBack(s, n) ==
    [s EXCEPT !.wo = MoveToBack(@, n), !.cur = IF @ = n THEN AdvanceCursor(s.wo, n) ELSE @]

\* Deques::move_to_back_ao
MoveToBackAo(s, e) ==
    LET n == AoNode(s, e) IN
    [s EXCEPT !.ao = IF n # None /\ Contains(@, n) THEN MoveToBack(@, n) ELSE @,
              !.ub = @ \/ Freed(s.ao, n)]

\* Deques::move_to_back_wo
MoveToBackWo(s, e) ==
    LET n == WoNode(s, e)
        s1 == [s EXCEPT !.ub = @ \/ Freed(s.wo, n)]
    IN IF n # None /\ Contains(s.wo, n) THEN WoMoveToBack(s1, n) ELSE s1

\* Deque::move_to_back of a node taken from probation (skipped nodes)
MoveNodeToBack(s, n) ==
    [s EXCEPT !.ao = IF Contains(@, n) THEN MoveToBack(@, n) ELSE @,
              !.ub = @ \/ Freed(s.ao, n)]

\* Mutant of HandleRemove: the write-order node is not unlinked.
HandleRemoveKeepWo(s, e) ==
    LET c == Cell(s, e)
        a == AoNode(s, e)
    IN [IF s.admitted[c]
        THEN [s EXCEPT !.admitted[c] = FALSE, !.ws = SatSub(@, Weigh(s, e)),
                       !.ao = Remove(@, a), !.ub = @ \/ Freed(s.ao, a)]
        ELSE s EXCEPT !.entries[e].node = None]

\* Inner::handle_remove (and handle_remove_with_deques on probation):
\* only an admitted entry is unaccounted and unlinked; every entry loses
\* its node pointers (unset_q_nodes).
HandleRemove(s, e) ==
    LET c == Cell(s, e)
        a == AoNode(s, e)
        w == WoNode(s, e)
        s1 == IF s.admitted[c]
              THEN WoUnlink([s EXCEPT !.admitted[c] = FALSE,
                                      !.ws = SatSub(@, Weigh(s, e)),
                                      !.ao = Remove(@, a),
                                      !.ub = @ \/ Freed(s.ao, a) \/ Freed(s.wo, w)], w)
              ELSE s
    IN [s1 EXCEPT !.entries[e].node = None]

\* Inner::handle_admit: push a node onto probation's MRU end and, when
\* enabled, onto the write-order deque; count the weight; mark admitted.
HandleAdmit(s, e, w) ==
    [s EXCEPT !.ws = @ + w,
              !.ao = Append(@, e),
              !.wo = IF WriteOrderEnabled THEN Append(@, e) ELSE @,
              !.entries[e].node = e,
              !.admitted[Cell(s, e)] = TRUE]

\* Mutant of HasEnoughCapacity: off by one at the limit.
HasEnoughCapacityOffByOne(s, w) == s.ws + w <= MaxCapacity + 1

\* Inner::has_enough_capacity
HasEnoughCapacity(s, w) == s.ws + w <= MaxCapacity

\* Inner::admit: walk probation from the LRU end aggregating the weight and
\* frequency of the potential victims still in the map; a node whose key is
\* gone is skipped, up to MaxConsecutiveRetries consecutive misses.
RECURSIVE AdmitWalk(_, _, _, _, _)
AdmitWalk(s, cw, cf, i, acc) ==
    IF acc.vw >= cw \/ cf < acc.vf \/ i > Len(s.ao) THEN acc
    ELSE LET n == s.ao[i]
             k == NodeKey(s, n)
         IN IF s.cache[k] # None
            THEN AdmitWalk(s, cw, cf, i + 1,
                     [acc EXCEPT !.vw = @ + Weigh(s, s.cache[k]),
                                 !.vf = @ + freq[k],
                                 !.victims = Append(@, n),
                                 !.retries = 0])
            ELSE LET a2 == [acc EXCEPT !.skipped = Append(@, n),
                                       !.retries = @ + 1]
                 IN IF a2.retries > MaxConsecutiveRetries THEN a2
                    ELSE AdmitWalk(s, cw, cf, i + 1, a2)

NoVictims == [vw |-> 0, vf |-> 0, victims |-> <<>>, skipped |-> <<>>, retries |-> 0]

\* The admission decision: strictly more frequent than the victims.
Admits(acc, cw, cf) == acc.vw >= cw /\ cf > acc.vf

\* handle_upsert, Admitted branch: remove each victim's key from the map and
\* handle_remove the entry found there; a victim whose key is already gone
\* joins the skipped nodes.  Reading the victim node's key dereferences it.
RemoveVictim(r, n) ==
    LET s == [r.s EXCEPT !.ub = @ \/ Freed(r.s.ao, n)]
        k == NodeKey(s, n)
    IN IF s.cache[k] # None
       THEN [r EXCEPT !.s = HandleRemove([s EXCEPT !.cache[k] = None], s.cache[k])]
       ELSE [r EXCEPT !.s = s, !.skipped = Append(@, n)]

\* Inner::handle_upsert with the WriteOp::Upsert of entry e at tick ts, up
\* to the admission decision.  The admit walk reads the victims' keys with
\* cache.get; the victims are removed from the map later, so a candidate
\* that goes through admission leaves the handler pending (adm # None) and
\* HandleUpsertAdmission completes it in a later step.
HandleUpsert(s0, k, e, ts) ==
    LET c == Cell(s0, e)
        s == [s0 EXCEPT !.la[c] = ts, !.lm[c] = ts]
        w == Weigh(s, e)
        cf == freq[k]
    IN IF s.admitted[c]
       THEN [s |-> MoveToBackWo(MoveToBackAo(s, e), e), adm |-> None]
       ELSE IF HasEnoughCapacity(s, w)
       THEN [s |-> HandleAdmit(s, e, w), adm |-> None]
       ELSE IF w > MaxCapacity
       THEN [s |-> [s EXCEPT !.cache[k] = None], adm |-> None]
       ELSE [s |-> s, adm |-> [key |-> k, entry |-> e, w |-> w, cf |-> cf,
                               acc |-> AdmitWalk(s, w, cf, 1, NoVictims)]]

\* The rest of handle_upsert after admit: on Admitted remove the victims
\* (remove_entry on the map as it is now) and admit the candidate; on
\* Rejected remove the candidate's key; then move the skipped nodes to
\* probation's MRU end.
HandleUpsertAdmission(s, a) ==
    LET r == FoldLeft(RemoveVictim, [s |-> s, skipped |-> a.acc.skipped], a.acc.victims)
    IN IF Admits(a.acc, a.w, a.cf)
       THEN FoldLeft(MoveNodeToBack, HandleAdmit(r.s, a.entry, a.w), r.skipped)
       ELSE FoldLeft(MoveNodeToBack, [s EXCEPT !.cache[a.key] = None], a.acc.skipped)

\* Inner::apply_reads for one ReadOp.
ApplyReadOp(s, op) ==
    IF op.type = "Hit"
    THEN MoveToBackAo([s EXCEPT !.la[Cell(s, op.entry)] = op.ts], op.entry)
    ELSE s

\* Inner::apply_writes for one WriteOp.
ApplyWriteOp(s, op, ts) ==
    IF op.type = "Upsert" THEN HandleUpsert(s, op.key, op.entry, ts)
    ELSE [s |-> HandleRemove(s, op.entry), adm |-> None]

\* FrequencySketch::increment (saturating)
Increment(f, k) == [f EXCEPT ![k] = IF @ < MaxFreq THEN @ + 1 ELSE @]

\* is_expired_entry_wo and is_expired_entry_ao on a timestamp
IsExpiredWo(ts, va, t) ==
    /\ ts # Unset
    /\ ts < va \/ (TimeToLive # None /\ ts + TimeToLive <= t)
IsExpiredAo(ts, va, t) ==
    /\ ts # Unset
    /\ ts < va \/ (TimeToIdle # None /\ ts + TimeToIdle <= t)

\* One iteration of Inner::remove_expired_wo; stop when it breaks.
RemoveExpiredWoStep(s, va, t) ==
    LET n == Head(s.wo)
        k == NodeKey(s, n)
        cur == s.cache[k]
    IN IF ~IsExpiredWo(s.lm[Cell(s, n)], va, t)
       THEN [s |-> s, stop |-> TRUE]
       ELSE IF cur # None /\ IsExpiredWo(s.lm[Cell(s, cur)], va, t)
       THEN [s |-> HandleRemove([s EXCEPT !.cache[k] = None], cur), stop |-> FALSE]
       ELSE IF cur # None
       THEN IF s.lm[Cell(s, cur)] = Unset
            THEN [s |-> MoveToBackWo(MoveToBackAo(s, cur), cur), stop |-> FALSE]
            ELSE [s |-> s, stop |-> TRUE]
       ELSE [s |-> WoMoveToBack(s, n), stop |-> FALSE]

\* One iteration of Inner::remove_expired_ao on probation.
RemoveExpiredAoStep(s, va, t) ==
    LET n == Head(s.ao)
        k == NodeKey(s, n)
        cur == s.cache[k]
    IN IF ~IsExpiredAo(s.la[Cell(s, n)], va, t)
       THEN [s |-> s, stop |-> TRUE]
       ELSE IF cur # None /\ IsExpiredAo(s.la[Cell(s, cur)], va, t)
       THEN [s |-> HandleRemove([s EXCEPT !.cache[k] = None], cur), stop |-> FALSE]
       ELSE IF cur # None
       THEN IF s.la[Cell(s, cur)] = Unset
            THEN [s |-> MoveToBackWo(MoveToBackAo(s, cur), cur), stop |-> FALSE]
            ELSE [s |-> s, stop |-> TRUE]
       ELSE [s |-> [s EXCEPT !.ao = Append(Tail(@), Head(@))], stop |-> FALSE]

-----------------------------------------------------------------------------
Init ==
    /\ cache = [k \in Keys |-> None]
    /\ entries = <<>>
    /\ admitted = [c \in EntryIds |-> FALSE]
    /\ lastAccessed = [c \in EntryIds |-> Unset]
    /\ lastModified = [c \in EntryIds |-> Unset]
    /\ probation = <<>>
    /\ writeOrder = <<>>
    /\ freq = [k \in Keys |-> 0]
    /\ ws = 0
    /\ validAfter = 0
    /\ readCh = <<>>
    /\ writeCh = <<>>
    /\ client = [t \in Threads |-> Idle]
    /\ mnt = SyncIdle
    /\ now = 1
    /\ ub = FALSE
    /\ calls = 0
    /\ woCursor = CurStart
    /\ Inv!Init

(***************************************************************************)
(* Client threads.                                                         *)
(***************************************************************************)

\* BaseCache::do_insert_with_hash, the map step: insert_with_or_modify runs
\* on_insert (a fresh entry with its own cell) or on_modify (new_with: the
\* new entry shares the old one's cell, copies its node pointers and resets
\* the shared timestamps to Unset).
DoInsert(t, k, v) ==
    LET id == Len(entries) + 1
        old == cache[k]
    IN /\ client[t].pc = "idle"
       /\ id <= MaxEntries
       /\ cache' = [cache EXCEPT ![k] = id]
       /\ IF old = None
          THEN /\ entries' = Append(entries, [key |-> k, value |-> v, cell |-> id, node |-> None,
                                                at |-> now, read |-> 0])
               /\ client' = [client EXCEPT ![t] = [pc |-> "send", old |-> None,
                                 op |-> [type |-> "Upsert", key |-> k, entry |-> id]]]
               /\ UNCHANGED <<lastAccessed, lastModified>>
          ELSE /\ entries' = Append(entries, [key |-> k, value |-> v,
                                 cell |-> entries[old].cell, node |-> entries[old].node,
                                 at |-> now, read |-> 0])
               /\ lastAccessed' = [lastAccessed EXCEPT ![entries[old].cell] = Unset]
               /\ lastModified' = [lastModified EXCEPT ![entries[old].cell] = Unset]
               /\ client' = [client EXCEPT ![t] = [pc |-> "unset", old |-> old,
                                 op |-> [type |-> "Upsert", key |-> k, entry |-> id]]]
       /\ UNCHANGED <<admitted, probation, writeOrder, freq, ws, validAfter,
                      readCh, writeCh, mnt, now, ub,
                   woCursor, invVars>>

\* do_insert_with_hash after the map step: an update severs the replaced
\* entry's node pointers (old_entry.unset_q_nodes()).
UnsetOldNodes(t) ==
    /\ client[t].pc = "unset"
    /\ entries' = [entries EXCEPT ![client[t].old].node = None]
    /\ client' = [client EXCEPT ![t].pc = "send"]
    /\ UNCHANGED <<cache, admitted, lastAccessed, lastModified, probation,
                   writeOrder, freq, ws, validAfter, readCh, writeCh, mnt, now, ub,
                   woCursor, invVars>>

\* The caller posts the WriteOp; a full channel makes it sleep and retry,
\* so the step waits for room: a write is never dropped.
SendWriteOp(t) ==
    /\ client[t].pc = "send"
    /\ Len(writeCh) < LogSize
    /\ writeCh' = Append(writeCh, client[t].op)
    /\ client' = [client EXCEPT ![t] = Idle]
    /\ UNCHANGED <<cache, entries, admitted, lastAccessed, lastModified,
                   probation, writeOrder, freq, ws, validAfter, readCh, mnt, now, ub,
                   woCursor, invVars>>

\* BaseCache::remove_entry: remove the key from the map; the removed entry
\* is posted as WriteOp::Remove.
RemoveEntry(t, k) ==
    /\ client[t].pc = "idle"
    /\ cache[k] # None
    /\ cache' = [cache EXCEPT ![k] = None]
    /\ client' = [client EXCEPT ![t] = [pc |-> "send", old |-> None,
                      op |-> [type |-> "Remove", key |-> k, entry |-> cache[k]]]]
    /\ UNCHANGED <<entries, admitted, lastAccessed, lastModified, probation,
                   writeOrder, freq, ws, validAfter, readCh, writeCh, mnt, now, ub,
                   woCursor, invVars>>

\* Mutant of RecordReadOp: the op is sent even when the channel is full.
RecordReadOpNoDrop(ch, op) == Append(ch, op)

\* BaseCache::record_read_op: try_send, discarding the op on a full channel.
RecordReadOp(ch, op) == IF Len(ch) < LogSize THEN Append(ch, op) ELSE ch

\* Inner::is_invalidated_entry
IsInvalidatedEntry(k, e) == InvalidatorEnabled /\ Inv!ApplyPredicates(k, e)

\* The verdict of BaseCache::get_with_hash on key k: the entry under it is
\* present, neither expired nor invalidated, and its value is returned.
GetHit(k) ==
    LET e == cache[k] IN
    /\ e # None
    /\ ~IsExpiredWo(lastModified[entries[e].cell], validAfter, now)
    /\ ~IsExpiredAo(lastAccessed[entries[e].cell], validAfter, now)
    /\ ~IsInvalidatedEntry(k, e)

\* BaseCache::get_with_hash: an expired or invalidated entry is recorded
\* as a miss.
GetWithHash(t, k) ==
    LET e == cache[k]
        hit == GetHit(k)
        op == IF hit THEN [type |-> "Hit", key |-> k, entry |-> e, ts |-> now]
              ELSE [type |-> "Miss", key |-> k]
    IN /\ client[t].pc = "idle"
       /\ readCh' = RecordReadOp(readCh, op)
       /\ entries' = IF hit THEN [entries EXCEPT ![e].read = now] ELSE entries
       /\ UNCHANGED <<cache, admitted, lastAccessed, lastModified,
                      probation, writeOrder, freq, ws, validAfter, writeCh,
                      client, mnt, now, ub, woCursor, invVars>>

\* BaseCache::invalidate_entries_if: register the closure stamped with the
\* current tick (register_invalidation_predicate).  Without an invalidator
\* the call returns Err(InvalidationClosuresDisabled) and changes nothing.
InvalidateEntriesIf(t, p) ==
    /\ client[t].pc = "idle"
    /\ InvalidatorEnabled
    /\ Inv!RegisterPredicate(p, now)
    /\ UNCHANGED <<cache, entries, admitted, lastAccessed, lastModified,
                   probation, writeOrder, freq, ws, validAfter, readCh, writeCh,
                   client, mnt, now, ub, woCursor>>

\* BaseCache::invalidate_all
InvalidateAll ==
    /\ validAfter' = now
    /\ UNCHANGED <<cache, entries, admitted, lastAccessed, lastModified,
                   probation, writeOrder, freq, ws, readCh, writeCh, client,
                   mnt, now, ub,
                   woCursor, invVars>>

Tick ==
    /\ now < MaxTime
    /\ now' = now + 1
    /\ UNCHANGED <<cache, entries, admitted, lastAccessed, lastModified,
                   probation, writeOrder, freq, ws, validAfter, readCh,
                   writeCh, client, mnt, ub,
                   woCursor, invVars>>

(***************************************************************************)
(* The maintenance worker: Inner::sync, one channel message or one sweep   *)
(* iteration per step, holding the deques lock throughout.                 *)
(***************************************************************************)
\* sync starts its drain loop; apply_reads drains the r_len ops present.
SyncStart ==
    /\ mnt.pc = "idle"
    /\ mnt' = [mnt EXCEPT !.pc = "reads", !.calls = 0, !.count = Len(readCh)]
    /\ UNCHANGED <<cache, entries, admitted, lastAccessed, lastModified,
                   probation, writeOrder, freq, ws, validAfter, readCh,
                   writeCh, client, now, ub,
                   woCursor, invVars>>

\* Inner::apply_reads, one ReadOp
ApplyRead ==
    /\ mnt.pc = "reads"
    /\ mnt.count > 0
    /\ SetSt(ApplyReadOp(St, Head(readCh)))
    /\ freq' = Increment(freq, Head(readCh).key)
    /\ readCh' = Tail(readCh)
    /\ mnt' = [mnt EXCEPT !.count = @ - 1]
    /\ UNCHANGED <<validAfter, writeCh, client, now, invVars>>

\* Mutant of ReadsDone: w_len taken one short.
ReadsDoneOffByOne ==
    /\ mnt.pc = "reads"
    /\ mnt.count = 0
    /\ mnt' = [mnt EXCEPT !.pc = "writes", !.count = SatSub(Len(writeCh), 1), !.ts = now]
    /\ UNCHANGED <<cache, entries, admitted, lastAccessed, lastModified,
                   probation, writeOrder, freq, ws, validAfter, readCh,
                   writeCh, client, now, ub,
                   woCursor, invVars>>

\* apply_writes drains the w_len ops present, all stamped with one tick.
ReadsDone ==
    /\ mnt.pc = "reads"
    /\ mnt.count = 0
    /\ mnt' = [mnt EXCEPT !.pc = "writes", !.count = Len(writeCh), !.ts = now]
    /\ UNCHANGED <<cache, entries, admitted, lastAccessed, lastModified,
                   probation, writeOrder, freq, ws, validAfter, readCh,
                   writeCh, client, now, ub,
                   woCursor, invVars>>

\* Inner::apply_writes, one WriteOp
ApplyWrite ==
    /\ mnt.pc = "writes"
    /\ mnt.count > 0
    /\ LET r == ApplyWriteOp(St, Head(writeCh), mnt.ts) IN
       /\ SetSt(r.s)
       /\ mnt' = [mnt EXCEPT !.count = @ - 1, !.adm = r.adm,
                             !.pc = IF r.adm = None THEN "writes" ELSE "admit"]
    /\ writeCh' = Tail(writeCh)
    /\ UNCHANGED <<freq, validAfter, readCh, client, now, invVars>>

\* handle_upsert after admit returned: the victims are removed from the map
\* as it is now, which clients may have changed since the walk.
ApplyAdmission ==
    /\ mnt.pc = "admit"
    /\ SetSt(HandleUpsertAdmission(St, mnt.adm))
    /\ mnt' = [mnt EXCEPT !.pc = "writes", !.adm = None]
    /\ UNCHANGED <<freq, validAfter, readCh, writeCh, client, now, invVars>>

ShouldSync == Len(readCh) >= FlushPoint \/ Len(writeCh) >= FlushPoint

\* The drain loop repeats while a channel is at its flush point.
SyncRepeat ==
    /\ mnt.pc = "writes"
    /\ mnt.count = 0
    /\ ShouldSync /\ mnt.calls + 1 <= MaxSyncRepeats
    /\ mnt' = [mnt EXCEPT !.pc = "reads", !.calls = @ + 1, !.count = Len(readCh)]
    /\ UNCHANGED <<cache, entries, admitted, lastAccessed, lastModified,
                   probation, writeOrder, freq, ws, validAfter, readCh,
                   writeCh, client, now, ub,
                   woCursor, invVars>>

\* sync goes on to its invalidation branch when the invalidator exists.
AfterEvict == IF InvalidatorEnabled THEN [SyncIdle EXCEPT !.pc = "invalidate"] ELSE SyncIdle

\* After the loop: evict (remove_expired_wo, then remove_expired_ao) when
\* there is an expiry or a valid_after, then publish the weighted size.
AfterWo(m) ==
    IF TimeToIdle # None \/ validAfter > 0
    THEN [m EXCEPT !.pc = "evict_ao", !.count = EvictionBatchSize, !.va = validAfter]
    ELSE AfterEvict


SyncLoopEnd ==
    /\ mnt.pc = "writes"
    /\ mnt.count = 0
    /\ ~(ShouldSync /\ mnt.calls + 1 <= MaxSyncRepeats)
    /\ mnt' = LET m == [mnt EXCEPT !.calls = @ + 1, !.ts = now] IN
              IF HasExpiry \/ validAfter > 0
              THEN IF WriteOrderEnabled
                   THEN [m EXCEPT !.pc = "evict_wo", !.count = EvictionBatchSize,
                                  !.va = validAfter]
                   ELSE AfterWo(m)
              ELSE AfterEvict
    /\ UNCHANGED <<cache, entries, admitted, lastAccessed, lastModified,
                   probation, writeOrder, freq, ws, validAfter, readCh,
                   writeCh, client, now, ub,
                   woCursor, invVars>>

EvictWo ==
    /\ mnt.pc = "evict_wo"
    /\ mnt.count > 0
    /\ LET r == IF writeOrder = <<>> THEN [s |-> St, stop |-> TRUE]
                ELSE RemoveExpiredWoStep(St, mnt.va, mnt.ts)
       IN /\ SetSt(r.s)
          /\ mnt' = [mnt EXCEPT !.count = IF r.stop THEN 0 ELSE @ - 1]
    /\ UNCHANGED <<freq, validAfter, readCh, writeCh, client, now, invVars>>

EvictWoDone ==
    /\ mnt.pc = "evict_wo"
    /\ mnt.count = 0
    /\ mnt' = AfterWo(mnt)
    /\ UNCHANGED <<cache, entries, admitted, lastAccessed, lastModified,
                   probation, writeOrder, freq, ws, validAfter, readCh,
                   writeCh, client, now, ub,
                   woCursor, invVars>>

EvictAo ==
    /\ mnt.pc = "evict_ao"
    /\ mnt.count > 0
    /\ LET r == IF probation = <<>> THEN [s |-> St, stop |-> TRUE]
                ELSE RemoveExpiredAoStep(St, mnt.va, mnt.ts)
       IN /\ SetSt(r.s)
          /\ mnt' = [mnt EXCEPT !.count = IF r.stop THEN 0 ELSE @ - 1]
    /\ UNCHANGED <<freq, validAfter, readCh, writeCh, client, now, invVars>>

EvictAoDone ==
    /\ mnt.pc = "evict_ao"
    /\ mnt.count = 0
    /\ mnt' = AfterEvict
    /\ UNCHANGED <<cache, entries, admitted, lastAccessed, lastModified,
                   probation, writeOrder, freq, ws, validAfter, readCh,
                   writeCh, client, now, ub,
                   woCursor, invVars>>

\* Iterator::next of &mut Deque on the write-order deque: the node it
\* returns (None at the end) and the cursor after it.
DeqNext(deq, c) ==
    LET c0 == IF c = CurStart /\ deq # <<>> THEN deq[1] ELSE c
    IN [elem |-> IF c0 \in EntryIds THEN c0 ELSE None, cur |-> AdvanceCursor(deq, c0)]

\* The candidate loop of submit_invalidation_task: from the cursor, up to
\* b (key, last_modified) pairs of the nodes whose timestamp is set.
RECURSIVE CollectCandidates(_, _, _, _)
CollectCandidates(s, c, cands, b) ==
    IF Len(cands) >= b THEN [cands |-> cands, cur |-> c]
    ELSE LET r == DeqNext(s.wo, c) IN
         IF r.elem = None THEN [cands |-> cands, cur |-> r.cur]
         ELSE LET ts == s.lm[Cell(s, r.elem)] IN
              CollectCandidates(s, r.cur,
                  IF ts = Unset THEN cands
                  ELSE Append(cands, [key |-> NodeKey(s, r.elem), ts |-> ts]), b)

\* Inner::process_invalidation_result on a taken result: handle_remove
\* every entry the task invalidated; a finished pass resets the cursor.
ProcessInvalidationResult(s, res, done) ==
    LET s1 == FoldLeft(HandleRemove, s, res.invalidated) IN
    IF done THEN [s1 EXCEPT !.cur = CurStart] ELSE s1

\* The invalidation branch of sync, when the invalidator is not empty and
\* no task runs: Inner::invalidate_entries, that is task_result and
\* process_invalidation_result, then submit_invalidation_task.  An empty
\* write-order deque prunes the registry instead of scanning.  When the
\* batch is full, Peekable::peek takes one more node from the cursor.
SyncInvalidate ==
    /\ mnt.pc = "invalidate"
    /\ mnt' = SyncIdle
    /\ IF ~isEmpty /\ ~taskRunning
       THEN LET res == taskResult
                ctx == IF res # None THEN Inv!ResultCtx(res, ctxPreds) ELSE ctxPreds
                s1 == IF res # None
                      THEN ProcessInvalidationResult(St, res, Inv!IsDone(res, ctxPreds))
                      ELSE St
                col == CollectCandidates(s1, s1.cur, <<>>, InvalidationBatchSize)
                full == Len(col.cands) = InvalidationBatchSize
                peek == DeqNext(s1.wo, col.cur)
            IN /\ taskResult' = None
               /\ IF s1.wo = <<>>
                  THEN /\ SetSt(s1)
                       /\ Inv!RemovePredicatesRegisteredBefore(now)
                       /\ ctxPreds' = ctx
                       /\ UNCHANGED <<lastKey, pool, taskRunning>>
                  ELSE /\ SetSt([s1 EXCEPT !.cur = IF full THEN peek.cur ELSE col.cur])
                       /\ IF col.cands # <<>>
                          THEN Inv!SubmitTask(ctx, col.cands, full /\ peek.elem # None)
                          ELSE /\ ctxPreds' = ctx
                               /\ UNCHANGED <<pool, taskRunning>>
                       /\ UNCHANGED <<registry, isEmpty, lastKey>>
       ELSE UNCHANGED <<cache, entries, admitted, lastAccessed, lastModified,
                        probation, writeOrder, ws, ub, woCursor, invVars>>
    /\ UNCHANGED <<freq, validAfter, readCh, writeCh, client, now>>

\* The thread pool running the submitted InvalidationTask.
PoolStep ==
    /\ Inv!TaskStep
    /\ UNCHANGED <<admitted, lastAccessed, probation, writeOrder, freq, ws,
                   validAfter, readCh, writeCh, client, mnt, now, ub, woCursor>>

\* A public call of thread t: insert, remove, get (each begins here).
Call(t) ==
    \/ \E k \in Keys, v \in Values : DoInsert(t, k, v)
    \/ \E k \in Keys : RemoveEntry(t, k)
    \/ \E k \in Keys : GetWithHash(t, k)
    \/ \E p \in Predicates : InvalidateEntriesIf(t, p)

\* The rest of a call: the steps after the map step of an insert or remove.
Finish(t) ==
    \/ UnsetOldNodes(t)
    \/ SendWriteOp(t)

Maintenance ==
    \/ SyncStart \/ ApplyRead \/ ReadsDone \/ ApplyWrite \/ ApplyAdmission \/ SyncRepeat
    \/ SyncLoopEnd \/ EvictWo \/ EvictWoDone \/ EvictAo \/ EvictAoDone
    \/ SyncInvalidate

Next ==
    \/ /\ calls < MaxCalls
       /\ \/ \E t \in Threads : Call(t)
          \/ InvalidateAll
       /\ calls' = calls + 1
    \/ /\ \/ \E t \in Threads : Finish(t)
          \/ Tick
          \/ Maintenance
          \/ PoolStep
       /\ UNCHANGED calls

\* The housekeeper keeps scheduling sync and a sync runs to its end; the
\* pool thread runs a submitted task to its end.
Spec == /\ Init /\ [][Next]_vars
        /\ WF_vars(Maintenance /\ UNCHANGED calls)
        /\ WF_vars(PoolStep /\ UNCHANGED calls)

-----------------------------------------------------------------------------
(***************************************************************************)
(* Properties.                                                             *)
(***************************************************************************)
TypeOK ==
    /\ cache \in [Keys -> EntryIds \cup {None}]
    /\ entries \in Seq(Entry) /\ Len(entries) <= MaxEntries
    /\ admitted \in [EntryIds -> BOOLEAN]
    /\ lastAccessed \in [EntryIds -> Time \cup {Unset}]
    /\ lastModified \in [EntryIds -> Time \cup {Unset}]
    /\ probation \in Seq(EntryIds) /\ writeOrder \in Seq(EntryIds)
    /\ freq \in [Keys -> 0..MaxFreq]
    /\ ws \in Nat /\ validAfter \in Time /\ now \in Time
    /\ readCh \in Seq(ReadOp) /\ Len(readCh) <= LogSize
    /\ writeCh \in Seq(WriteOp) /\ Len(writeCh) <= LogSize
    /\ client \in [Threads -> [pc : {"idle", "unset", "send"},
                               op : WriteOp \cup {None},
                               old : EntryIds \cup {None}]]
    /\ ub \in BOOLEAN /\ calls \in 0..MaxCalls
    /\ woCursor \in EntryIds \cup {CurStart, CurDone}
    /\ Inv!TypeOK

\* No client is mid-call, the write channel is drained and sync is idle.
Quiescent ==
    /\ mnt.pc = "idle"
    /\ writeCh = <<>>
    /\ \A t \in Threads : client[t].pc = "idle"

MapWeight == MapThenSumSet(LAMBDA k : Weight[entries[cache[k]].value],
                           {k \in Keys : cache[k] # None})

\* Maintenance never dereferences a deque node that has been unlinked and
\* freed: the pointers held by entries in the map, in the channels and in
\* the deques' skipped lists all point to linked nodes when they are used.
NoUseAfterFree == ~ub

\* Spec 4.6, 4.7, 8.4 and S4: an entry of the map written (inserted or
\* updated) before an invalidation that covers it reads as a miss, at once:
\* before valid_after set by invalidate_all, or before the registration of
\* a closure of invalidate_entries_if that matches it.  get_with_hash
\* decides from the entry's timestamps, which maintenance sets when it
\* applies the Upsert, so this relates the client's write, the
\* invalidation call and the later apply_writes.
InvalidatedReadAsMiss ==
    \A k \in Keys :
        LET e == cache[k] IN
        /\ e # None
        /\ \/ entries[e].at < validAfter
           \/ \E q \in registry : /\ entries[e].at < q.at
                                 /\ <<k, entries[e].value>> \in Matches[q.pred]
        => ~GetHit(k)

\* Spec 8.1: once the writes are applied, weighted_size is the total weight
\* of the entries in the map.
WeightedSizeMatches == Quiescent => ws = MapWeight

\* Spec 8.5: once the writes are applied the map holds at most max_capacity.
CapacityRespected == Quiescent => MapWeight <= MaxCapacity

\* Spec S2 and 4.5: the TTL sweep reclaims expired entries.  A step of
\* remove_expired_wo ends the sweep early (the break at line 1096, before
\* its batch is spent) only at a write-order node that is not expired;
\* an expired node whose key now holds a fresh entry would hold every
\* expired entry behind it in the map, weighed and unreclaimed, until the
\* fresh entry expires.  Such a node is an orphan: its own entry left the
\* map without unlinking it.
WoSweepNotBlocked ==
    [][EvictWo /\ writeOrder # <<>> /\ RemoveExpiredWoStep(St, mnt.va, mnt.ts).stop
        => ~IsExpiredWo(lastModified[Cell(St, Head(writeOrder))], mnt.va, mnt.ts)]_vars

\* With the write-order deque enabled it holds exactly the nodes of the
\* probation deque: handle_admit pushes to both, handle_remove unlinks from
\* both, and the sweepers only reorder.
WriteOrderMirrorsProbation ==
    WriteOrderEnabled => Range(writeOrder) = Range(probation)

\* Spec S3 and 4.1: TTI counts from the last read or write.  Once both
\* channels are drained, the last_accessed timestamp of the entry under
\* a key is no earlier than the insert or update that wrote it, nor than
\* the last get that returned it.  apply_reads sets last_accessed from a
\* Hit's own timestamp on the cell the Hit's entry shares with the entries
\* that replaced it, and record_read_op discards a Hit when the read
\* channel is full, although the spec counts only a frequency increment
\* and a deque reorder as the cost of a dropped ReadOp.
IdleSinceLastAccess ==
    Quiescent /\ readCh = <<>> =>
        \A k \in Keys :
            LET e == cache[k]
                la == lastAccessed[entries[e].cell]
            IN e # None /\ la # Unset => la >= entries[e].at /\ la >= entries[e].read

\* Spec S2 and 4.5: TTL counts from the entry's write.  A step of the TTL
\* sweep (remove_expired_wo) removes the entry now under a key only when
\* that entry was put TimeToLive ticks ago or more, or before valid_after.
\* The sweep reads last_modified from the timestamps an update shares with
\* the entry it replaced (new_with); handle_upsert of the replaced entry
\* stamps them with the time apply_writes read before draining (line 735).
SweepRespectsTtl ==
    [][EvictWo =>
        \A k \in Keys :
            cache[k] # None /\ cache'[k] = None =>
                LET at == entries[cache[k]].at IN
                \/ at < mnt.va
                \/ TimeToLive # None /\ at + TimeToLive <= mnt.ts]_vars

\* Every WriteOp a client posts is eventually applied by maintenance:
\* apply_writes drains the ops present when it starts, the housekeeper
\* keeps calling sync, and (the calls being bounded) the channel empties.
\* An op leaves the FIFO channel only at its head, by being applied.
WritesEventuallyApplied == writeCh # <<>> ~> writeCh = <<>>

\* An entry of the map that a registered closure matches and applies to
\* (is_applicable: last modified at or before the registration).
Invalidatable(k) ==
    LET e == cache[k]
        lm == lastModified[entries[e].cell]
    IN /\ e # None
       /\ lm # Unset
       /\ Inv!DoApplyPredicates(registry, k, entries[e].value, lm)

\* The scan task removes a key from the map only when the entry under it
\* is one a registered closure matches and applies to.  Between the task's
\* apply (get and the lm == ts check) and its remove_key_value_if a client
\* may update the key; the update resets the shared last_modified, and
\* the re-check in remove_key_value_if keeps the new entry.
TaskRemovesOnlyMatching ==
    [][PoolStep => \A k \in Keys : cache[k] # None /\ cache'[k] = None => Invalidatable(k)]_vars

\* The scan hand-off as ScanHandoff sees it: a stored result is "done"
\* (execute stores it before it clears is_running), otherwise is_running
\* tells whether a task is queued or executing.
ScanPhase ==
    IF taskResult # None THEN "done" ELSE IF taskRunning THEN "running" ELSE "idle"

Handoff == INSTANCE ScanHandoff WITH phase <- ScanPhase

\* The invalidator implements the hand-off of spec 4.6 and 5: one scan
\* task at a time; a task stores its result before is_running lets sync
\* in, and sync (invalidate_entries, then submit_invalidation_task) takes
\* the result before it submits the next task; under weak fairness of the
\* pool thread and of sync, a submitted task finishes and its result is
\* collected.
ScanHandoffSpec == Handoff!Spec

\* Spec 4.6 and S5: every entry that a registered closure matches and
\* applies to is eventually removed from the map by the scan, given that
\* the housekeeper keeps calling sync and the pool runs each task.  The
\* scan walks the write-order deque in batches from its cursor and drops
\* from its context the closures registered before the newest scanned
\* timestamp.
PredicateInvalidationCompletes ==
    (\E k \in Keys : Invalidatable(k)) ~> ~(\E k \in Keys : Invalidatable(k))

=============================================================================
