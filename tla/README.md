# TLA+ models of the moka synchronous cache engine

These modules model the concurrent cache engine in `src/sync/base_cache.rs` and its predicate invalidator in `src/sync/invalidator.rs`.
The engine is used by `sync::Cache` and `sync::SegmentedCache`.
This README records what is modelled, how the model corresponds to the code, and what TLC shows.

## 1. The system (inventory)

| Part | Source | State | Operations |
|------|--------|-------|------------|
| Hash map | `Inner.cache` (moka_cht) | key -> `Arc<ValueEntry>` | `insert_with_or_modify`, `remove_entry`, `remove_if`, `get` |
| ValueEntry | outside `src/` (spec §3) | value, `is_admitted`, `last_accessed`, `last_modified`, node pointers | `new`, `new_with`, `unset_q_nodes` |
| Read path | `get_with_hash`, `record_read_op` (129-164, 225-233) | read channel | `get`: expiry check, then post Hit/Miss; the op is dropped if the channel is full |
| Write path | `do_insert_with_hash` (236-294), `remove_entry`, `invalidate_all` | write channel, `valid_after` | map step, `unset_q_nodes` of a replaced entry, post Upsert/Remove (retried, never dropped) |
| Maintenance | `Inner::sync` (639-697) | deques, `weighted_size`, frequency sketch | drain loop (`apply_reads`, `apply_writes`), `evict`, invalidation, publish size |
| Admission | `handle_upsert`, `admit`, `handle_admit`, `handle_remove` (746-958) | probation deque, write-order deque, `weighted_size` | size-aware TinyLFU: victim walk, victim removal, skipped nodes |
| Sweeper | `evict`, `remove_expired_wo/ao`, `is_expired_entry_*` (960-1109, 1215-1249) | deques, map | peek head, `remove_if` re-check, move or skip stale nodes |
| Invalidator | `invalidator.rs`, `invalidate_entries_if`, `invalidate_entries`, `submit_invalidation_task` (194-200, 592-601, 1111-1176) | predicate registry, `last_key`, scan context, task result, `is_task_running`, thread pool | register predicate, check an entry on read, submit a scan task, the task's apply/invalidate/store steps, collect the result |
| Housekeeper | outside `src/` (spec §4.8) | pace | periodic / triggered `sync` |
| Policy | `policy.rs` | configuration | getters only |

**How the parts interact.** Client threads touch the hash map directly and post records to two bounded channels:
- `read_op_ch` carries `ReadOp` records and drops an op when it is full.
- `write_op_ch` carries `WriteOp` records; a sender waits for room.

The one maintenance worker holds the deques mutex for the whole of `sync`. It drains the channels, then admits, moves and unlinks deque nodes and keeps `weighted_size`. Admission and the sweeper also remove keys from the map.

A deque node and the entries that point to it are linked by raw pointers. An update (`new_with`) makes the new entry share the old one's admitted flag and timestamps (`Arc`s) and copies its node pointers. The nodes' timestamps alias the same `Arc`s (`RawTimestamps`).

**Hard behaviours:**
- the order in which several threads post their write ops;
- the gap between a map step and its `unset_q_nodes`;
- ops posted after a drain snapshot (`r_len`, `w_len`);
- stale nodes whose key now holds another entry;
- saturating counters;
- the channel bounds;
- timestamps taken at apply time rather than at call time.

## 2. Modules

`BaseCache.tla` models the read path, the write path, maintenance, admission and the sweeper.

**Entries and cells.** A `ValueEntry` is an id in `1..MaxEntries`. `entries[id]` holds its key, its value, its *cell* and its node pointer.
- The cell is the id of the entry whose `Arc`s it shares. An update keeps the cell.
- `admitted`, `lastAccessed` and `lastModified` are functions of the cell.
- A deque node is named by the id of the entry that was admitted. The node's key and timestamps are that entry's key and cell.
- Unlinking a node frees it. Later use of a pointer to a freed node sets the ghost flag `ub`, since that is undefined behaviour in the code.

**Structure of the module.**
- Maintenance-owned state is the record `St`, so a handler is a composition of operators that map the code's helpers one to one: `HandleUpsert`, `AdmitWalk`, `RemoveVictim`, `HandleAdmit`, `HandleRemove`, `RemoveExpiredWoStep`, ...
- `SetSt` assigns that record to the variables.

**Granularity of actions.**
- A client call is split where the code lets other threads in: the map step (`DoInsert`, `RemoveEntry`), then `UnsetOldNodes`, then `SendWriteOp`.
- A get (`GetWithHash`) is one step.
- The worker takes one step per channel message (`ApplyRead`, `ApplyWrite`) and one per sweep iteration (`EvictWo`, `EvictAo`).
- Further steps take the drain snapshots and make the loop decisions: `SyncStart`, `ReadsDone`, `SyncRepeat`, `SyncLoopEnd`, `EvictWoDone`, `EvictAoDone`.
- `handle_upsert` is one step (`ApplyWrite`) up to the admission decision: the admit walk reads the victims with `cache.get`. The victims' `remove_entry` and the Rejected branch's `cache.remove` are a second step (`ApplyAdmission`), because clients may write the map between the two.

**Abstractions.**
- Only `MainProbation` is ever pushed (line 918), so window and protected are always empty and are left out.
- The frequency sketch is an exact per-key counter that saturates at `MaxFreq`. The real counters are 4-bit and saturating; hash collisions are not modelled.
- Time is a tick counter `now` in `0..MaxTime`. `Unset` is the `u64::MAX` sentinel.
  - Two events in the same tick correspond to equal `Instant`s.
  - A new entry starts with unset timestamps, and an update resets the shared ones (spec §4.2).
  - The ghost field `at` of an entry is the tick of the insert or update that made it, and `read` the tick of the last get that returned it (`GetHit`, the read path's verdict).
- `WriteOrderEnabled` is `TimeToLive # None \/ InvalidatorEnabled`, as `is_write_order_queue_enabled`. The invalidator is off (`InvalidatorEnabled = FALSE`, `Predicates = {}`) in every run except liveness, scan_skips_entry, same_instant_update and invalidate_all_inflight.

`Invalidator.tla` models `src/sync/invalidator.rs`. `BaseCache` composes it with `Inv == INSTANCE Invalidator`, sharing the map (`cache`), `entries` and `lastModified`: the pool thread removes map entries concurrently with clients and maintenance.
- **State:** `registry` (the predicates with id, closure, `registered_at`, `oldest`, `newest`), `isEmpty`, `lastKey`, `ctxPreds` (the scan context's lite snapshot), `pool` (tasks handed to the thread pool; the head one executes), `taskResult`, `taskRunning`.
- **Closures** are model values of `Predicates`; `Matches[p]` is the set of `<<key, value>>` pairs the closure accepts.
- **Operations:** `RegisterPredicate` (the id retry loop `FindId`, wrapping at `IdSpace`, `Err(NoSpaceLeft)` after `MaxRetry`), `ApplyPredicates`/`IsApplicable` (the read-path check), `SubmitTask`, `ResultCtx`/`IsDone` (`task_result`), and the task steps `TaskApply` (`get` plus the `lm == ts` and closure check), `TaskInvalidate` (`remove_key_value_if` with the same check) and `TaskEnd` (store the result, then clear `is_running`, then return to the pool).
- **In BaseCache:** `InvalidateEntriesIf` (a client call, registered at the call's tick), `IsInvalidatedEntry` in `GetWithHash`, and `SyncInvalidate`, the invalidation branch of `sync` (lines 672-683, 1111-1176): take the result and remove its entries from the deques (`ProcessInvalidationResult`, which resets the cursor when done), then either prune the registry (empty write order) or collect up to `InvalidationBatchSize` candidates from the write-order cursor (`CollectCandidates`), peek once more, and submit.
- **The deque cursor** (`woCursor`) is modelled from moka's `Deque`, which is outside `src/`: `CurStart` (None), `CurDone` (Done) or a node. `next()` from None starts at the head; after yielding a node the cursor advances to its successor or Done; Done yields nothing and resets to None. Unlinking or moving the cursor node advances the cursor first (`WoUnlink`, `WoMoveToBack`), so every unlink and move of a write-order node in the model goes through them.
- `remove_predicates_registered_before` is called by base_cache but not defined in `invalidator.rs`; `RemovePredicatesRegisteredBefore` follows spec §4.6. `remove_predicate` has no caller and is not modelled.

`ScanHandoff.tla` is the abstract specification of the scan tasks' hand-off (spec §4.6, §5): one variable `phase`, idle → running (`Submit`) → done (`Finish`) → idle (`Collect`) or running again (`CollectAndSubmit`, when sync takes a result and submits in one call), with weak fairness on `Finish` and on taking the result. `BaseCache` implements it under the refinement mapping `ScanPhase`: done when `task_result` holds a result, else running when `is_running` is set, else idle. `execute` storing the result before it clears `is_running` is what makes running → done → idle the only way out of running; the mutant that swaps the two steps takes running → idle and is refused.

`MCBaseCache.tla` supplies the weighers (unit weight, or weight = value) and symmetry over keys and threads.

## 3. Runs

Each run checks one question.

| Run | cfg | Expect | Checks |
|-----|-----|--------|--------|
| core | `MCBaseCache.cfg` | pass | `TypeOK`, `CapacityRespected`: with unit weights the map never holds more than `max_capacity` entries once writes are drained |
| expiry | `MCBaseCacheExpiry.cfg` | pass | `WriteOrderMirrorsProbation`: with TTL and TTI set and two threads, the write-order deque holds the same nodes as probation (spec §3) |
| liveness | `MCBaseCacheLive.cfg` | pass | `TypeOK` with the invalidator on (registry, wrapping id counter, task state); `WritesEventuallyApplied`: under weak fairness of maintenance the write channel always drains; `ScanHandoffSpec`: the scan tasks implement the abstract hand-off `ScanHandoff`, fairness included (every task finishes and its result is collected) |
| use_after_free | `MCBaseCacheUseAfterFree.cfg` | violation | `NoUseAfterFree` |
| update_before_admit | `MCBaseCacheUnlinked.cfg` | violation | `WoSweepNotBlocked` (action property): the TTL sweep breaks before its batch is spent only at a node that is not expired (spec S2, §4.5) |
| update_weight | `MCBaseCacheWeight.cfg` | violation | `CapacityRespected` with a non-unit weigher (spec §8.1, §8.5) |
| invalidate_all_inflight | `MCBaseCacheInvalidateAll.cfg` | violation | `InvalidatedReadAsMiss`: an entry written before `invalidate_all` or before a matching closure's registration reads as a miss (spec §4.6, §4.7, §8.4, S4) |
| reject_then_update | `MCBaseCacheRejectUpdate.cfg` | violation | `WeightedSizeMatches` with one client thread (spec §8.1, §8.3) |
| stale_hit_after_update | `MCBaseCacheStaleHit.cfg` | violation | `IdleSinceLastAccess`: once both channels are drained, an entry's `last_accessed` is no earlier than its write or the last get that returned it (spec S3, §4.1) |
| stale_upsert_stamp | `MCBaseCacheStaleStamp.cfg` | violation | `SweepRespectsTtl` (action property): the TTL sweep removes an entry only once it was written `time_to_live` ago or before `valid_after` (spec S2, §4.5) |
| scan_skips_entry | `MCBaseCacheScanSkip.cfg` | violation | `PredicateInvalidationCompletes` (spec S5) |
| same_instant_update | `MCBaseCacheSameInstant.cfg` | violation | `TaskRemovesOnlyMatching` (action property, spec §4.6) |

**What the violations show** (traces from TLC):
1. **use_after_free.** A Hit of `e1` is in the read channel. An update to `e3` copies `e1`'s node pointer.
   - Before the updater runs `unset_q_nodes` (line 281), admission picks that node as a victim. `handle_remove(e3)` unlinks and frees the node.
   - The next drain pass applies the Hit: `move_to_back_ao` goes through `e1`'s dangling pointer.
   - With the invalidator on, the scan task is a second way to free the node: TLC finds a trace in which it removes the updated entry (same-instant `lm == ts`) and `process_invalidation_result` unlinks the node while the pending Hit's entry still points to it.
2. **update_before_admit.** Insert `k1` and update it before maintenance runs.
   - `new_with` copies an empty node pointer into the new entry.
   - Its Upsert sees the shared admitted flag set, so it only moves a node it does not have.
   - The map now holds an admitted entry with no node, against spec §8.2.
   - `remove(k1)` posts `Remove(e2)`. `handle_remove` unaccounts `e2` but unlinks nothing, so `e1`'s node is left orphaned in both deques.
   - `k1` is inserted again (`e3`, tick 2), and `e1`'s node expires under `time_to_live = 1`. At the head of the write order, `remove_expired_wo` finds the expired orphan with the fresh `e3` under its key, and breaks (line 1096).
   - Every expired entry behind the orphan stays in the map, weighed and unreclaimed, until `e3` expires (spec S2). One client thread, 4 calls.
3. **update_weight.** Capacity is 2 and weight = value.
   - `k1` is admitted with weight 1 and then updated to weight 2. The admitted branch of `handle_upsert` never re-weighs.
   - In the trace, `k1` and `k2` (weight 1 each) are inserted and `k1` is updated to weight 2 before the first sync. The sync admits both originals (`weighted_size = 2`); the update's Upsert takes the admitted branch, so the map weighs 3 against a capacity of 2.
4. **invalidate_all_inflight.** Insert `k1` at tick 1; `invalidate_all` at tick 2; no sync in between.
   - The entry's timestamps are still unset, and `is_expired_entry_wo/ao` treat an unset timestamp as not expired (line 1240). So `get(k1)` is a hit.
   - When the Upsert is applied later, `apply_writes` stamps it with a time at or after `valid_after`. The entry then survives the invalidation for good.
   - This rests on new entries starting with unset timestamps. `ValueEntry` lives outside `src/`; spec §4.2 states the same for update entries.
   - `invalidate_entries_if` fails the same way (`invalidator.rs:148`). The closure is stamped with the registration time. The unapplied entry has no `last_modified`, so `apply_predicates` is false. Once applied, its `last_modified` is later than `registered_at`, so `is_applicable` is false on the read path and in the scan. The run has the invalidator on. TLC reports the shorter `invalidate_all` trace. With `invalidate_all` disabled it finds: insert `k1` at tick 1, register a matching closure at tick 2, and `get(k1)` hits.
5. **reject_then_update.** One client thread, capacity 1.
   - Insert `k1`, insert `k2` (`e2`), update `k2` (`e3`), then get `k2` (a Hit on `e3`); no write op is applied before the get.
   - The sync admits `k1` and rejects `e2` (frequency 0 against 0). The Rejected branch calls `cache.remove(&key)` (line 815), which removes `e3`, the entry now under `k2`.
   - The Hit raises `k2`'s frequency, and the next drain pass applies `Upsert(e3)`. `handle_upsert` admits it without looking at the map and evicts `k1`.
   - The map is empty, yet `weighted_size = 1` and `e3`'s node stays linked.
   - Two threads reach the same state another way: thread 2 removes `k1` and posts `Remove(e1)` before thread 1 posts `Upsert(e1)`; `handle_remove` ignores the unadmitted entry and `handle_upsert` admits it (line 759).
6. **stale_hit_after_update.** One key, `time_to_idle = 2`. The property holds only once both channels are drained and `sync` is idle, so a transient order inside a sync does not count.
   - `get(k1)` at tick 1 posts `Hit(e1, 1)` before `e1`'s Upsert is applied. At tick 2, `k1` is updated to `e2`; `new_with` shares `e1`'s timestamps and resets them.
   - One sync applies both Upserts (last_accessed = 2). Its repeat pass then drains the Hit, and `set_last_accessed(1)` (line 722) moves the shared timestamp back.
   - `e2` now idle-expires at tick 3 instead of 4. With `time_to_idle = 1`, `get(k1)` at tick 2 returns `None` right after the update.
   - Dropped Hits (line 230) would break the same property: a Hit discarded on a full read channel never refreshes `last_accessed`. This run reaches the shorter trace above first, so it does not show that path.
7. **scan_skips_entry.** Batch size 1; `k1` (not matched) and `k2` (matched) are in the write order; one closure is registered. The closure matches value `v1`: `k1` holds `v2` and `k2` holds `v1`.
   - The first scan takes `k1`; `iter.peek()` (line 1173) then takes `k2` from the deque cursor, which ends at Done. The task finds nothing and reports truncated.
   - `task_result` keeps the closure (registered after the newest scanned time), so the pass is not done. The next sync gets nothing from the Done cursor, which resets to the head, and submits no task; the following one scans `k1` again.
   - `k2` is never scanned and stays in the map forever. With the real batch of 500 the 501st entry is the one skipped.
8. **same_instant_update.** The task's `apply` sees `k1` with `lm == ts` and a matching value. A client updates `k1` to a value the closure does not match, and maintenance applies the Upsert within the same tick, so the shared `last_modified` equals `ts` again. `remove_key_value_if` (line 444) removes the new value. Equal instants need a coarse or mocked clock; the tests install a mock clock.
9. **stale_upsert_stamp.** One key, `time_to_live = 1`, one thread, two calls.
   - Insert `k1` (`e1`) at tick 1. `sync` starts draining, and `apply_writes` reads `ts = 1` (line 735).
   - At tick 2 the client updates `k1` to `e2`, which shares `e1`'s timestamps (`new_with`).
   - `handle_upsert(e1)` then stamps `last_modified = 1` into those shared timestamps (line 755).
   - The sweep of the same sync runs at tick 2. It finds the node expired, and `remove_if` re-checks `e2` through the same timestamps and removes it: a value written at tick 2 expires at tick 2.

**Bounds.** The runs use:
- 2 keys (1 for the single-key traces stale_hit_after_update, stale_upsert_stamp, update_before_admit and same_instant_update), `MaxEntries = 3` value entries, two client threads for core, expiry, liveness and use_after_free, one elsewhere, and 2 to 5 public calls (`MaxCalls`, set per cfg);
- `FlushPoint = 1` and `MaxSyncRepeats = 1`, so `LogSize = 3`: both channel-full branches and the repeat pass are reachable;
- capacity 1 (2 with weights), so every upsert after the first goes through admission, with victims and rejection;
- `MaxFreq = 2`, which is enough for one side of a frequency comparison to win.

The invalidator runs use 2 keys, one closure that matches every key with value `v1`, `IdSpace = 2`, `MaxRetry = 1` and `InvalidationBatchSize = 1`. Batch 1 is the small analog of 500: it makes the truncated result, the peeked node, the cursor at Done and the multi-task pass reachable with 2-3 entries.

Every violation above needs 2-3 keys, entries or threads and fewer than 15 steps. So these bounds reach them; larger bounds only repeat the same shapes. `MaxCalls` bounds the number of public calls (insert, remove, get, invalidate_all); the other steps are unbounded.

**Fairness.** `WF_vars(Maintenance)`. The housekeeper calls `sync` periodically, and once `sync` starts it runs to its end under the mutex. `WF_vars(PoolStep)`: a task submitted to the thread pool runs to its end (`execute` has no early exit once the cache is alive). Client threads get no fairness: a caller may stop at any time.

**Mutants.** Each property of a passing run is broken by one plausible bug:
- an off-by-one in `has_enough_capacity`;
- `handle_remove` that does not unlink the write-order node;
- `w_len` taken one short;
- a read op pushed onto a full channel;
- a predicate id counter that does not wrap around;
- `execute` never clearing `is_running`.

## 4. Not modelled, and the plan

- **Invalidator, left out:** `remove_predicate` (no caller); the `Weak` upgrade failure in `execute` (the cache dropped while a task runs). The registry is pruned only when the write order is empty (the TODO at `invalidator.rs:212`), so a cache that holds entries re-scans forever; this is what spec §4.6 prescribes, so no property contradicts it.
- **Liveness of the sweep:** left as the safety property `WoSweepNotBlocked`. "Every expired entry is eventually removed" cannot be checked, because the model's clock stops at `MaxTime`. In a behaviour that stops ticking, an entry under the fresh key never expires, so the property would fail for that reason alone.
- **Abstract cache specification** for the whole cache (a lossy map: a get returns the last value written or a miss), and a refinement mapping from `BaseCache`.
- **Sync pace and the housekeeper timer**: timing only; abstracted by fairness.
- **Not modelled at all:**
  - `policy.rs`: configuration getters; its values are the CONSTANTS.
  - Construction, clone and drop.
  - Test hooks.
  - The serial-number resolution of retried `insert_with_or_modify` closures: the map step is atomic in the model.
