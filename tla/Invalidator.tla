----------------------------- MODULE Invalidator -----------------------------
(***************************************************************************)
(* The predicate invalidator of src/sync/invalidator.rs: the registry of   *)
(* invalidation closures (invalidate_entries_if), the check of an entry    *)
(* against them on the read path, and the asynchronous scan task that the  *)
(* maintenance worker submits to a thread pool and whose result it         *)
(* collects in a later sync.                                               *)
(*                                                                         *)
(* The module owns the invalidator's state.  The cache map, the entries    *)
(* and their last_modified timestamps belong to BaseCache, which           *)
(* instantiates this module with its own variables: the scan task reads   *)
(* and removes map entries concurrently with clients and maintenance.      *)
(* A closure is a model value p of Predicates; Matches[p] is the set of    *)
(* <<key, value>> pairs for which it returns true.                         *)
(***************************************************************************)
EXTENDS Integers, Sequences, FiniteSets

CONSTANTS
    Keys, Values,
    Predicates,      \* the closures clients register
    Matches,         \* [Predicates -> SUBSET (Keys \X Values)]
    IdSpace,         \* the predicate id space (u64), abstracted to 0..IdSpace-1
    MaxRetry,        \* MAX_RETRY of register_predicate
    MaxTime,         \* bound: last clock tick
    None, Unset

VARIABLES
    cache, entries, lastModified,  \* BaseCache's map, entries and timestamps
    registry,     \* predicates: the set of [id, pred, at, oldest, newest]
    isEmpty,      \* is_empty
    lastKey,      \* last_key
    ctxPreds,     \* scan_context.predicates: the lite snapshot the task uses
    pool,         \* tasks handed to the thread pool; the head one executes
    taskResult,   \* task_result: None or the last finished task's result
    taskRunning   \* is_task_running

invVars == <<registry, isEmpty, lastKey, ctxPreds, pool, taskResult, taskRunning>>

Ids == 0..(IdSpace - 1)
Time == 0..MaxTime
\* u64::MAX and u64::MIN as instants: above and below every clock tick.
MaxInstant == MaxTime + 1
MinInstant == 0

Candidate == [key : Keys, ts : Time]
Task == [cands : Seq(Candidate), i : Nat, pc : {"apply", "invalidate", "store", "stop"},
         invalidated : Seq(Nat), newest : Time \cup {None}, truncated : BOOLEAN]

-----------------------------------------------------------------------------
\* PredicateImpl::new: oldest and newest start at u64::MAX and u64::MIN.
NewPredicate(id, p, at) ==
    [id |-> id, pred |-> p, at |-> at, oldest |-> MaxInstant, newest |-> MinInstant]

\* PredicateImplLite::new: the registered closure without its id.
Lite(q) == [pred |-> q.pred, at |-> q.at, oldest |-> q.oldest, newest |-> q.newest]

\* Predicate::is_applicable (PredicateImpl and PredicateImplLite)
IsApplicable(q, lm) == lm <= q.at /\ (lm < q.oldest \/ lm > q.newest)

\* Invalidator::do_apply_predicates
DoApplyPredicates(ps, k, v, lm) ==
    \E q \in ps : IsApplicable(q, lm) /\ <<k, v>> \in Matches[q.pred]

\* Invalidator::apply_predicates, on the entry e of key k
ApplyPredicates(k, e) ==
    LET lm == lastModified[entries[e].cell] IN
    /\ ~isEmpty
    /\ lm # Unset
    /\ DoApplyPredicates(registry, k, entries[e].value, lm)

\* Mutant of FindId: last_key is advanced without wrapping around.
RECURSIVE FindIdNoWrap(_, _, _)
FindIdNoWrap(used, lk, tries) ==
    IF tries >= MaxRetry THEN [id |-> None, lk |-> lk]
    ELSE IF lk \in used THEN FindIdNoWrap(used, lk + 1, tries + 1)
    ELSE [id |-> lk, lk |-> lk + 1]

\* The retry loop of register_predicate: fetch_add (wrapping) until an id
\* not in use is found or MAX_RETRY collisions happened.
RECURSIVE FindId(_, _, _)
FindId(used, lk, tries) ==
    IF tries >= MaxRetry THEN [id |-> None, lk |-> lk]
    ELSE IF lk \in used THEN FindId(used, (lk + 1) % IdSpace, tries + 1)
    ELSE [id |-> lk, lk |-> (lk + 1) % IdSpace]

\* Invalidator::register_predicate, under the registry's write lock.  A
\* full id space returns Err(NoSpaceLeft) and registers nothing.
RegisterPredicate(p, at) ==
    LET r == FindId({q.id : q \in registry}, lastKey, 0) IN
    /\ lastKey' = r.lk
    /\ IF r.id = None
       THEN UNCHANGED <<registry, isEmpty>>
       ELSE /\ registry' = registry \cup {NewPredicate(r.id, p, at)}
            /\ isEmpty' = FALSE
    /\ UNCHANGED <<ctxPreds, pool, taskResult, taskRunning>>

\* Spec 4.6: prune the predicates registered strictly before now (the
\* method base_cache calls is not defined in invalidator.rs).  The empty
\* flag follows the registry as in remove_predicate.
RemovePredicatesRegisteredBefore(t) ==
    LET rest == {q \in registry : q.at >= t} IN
    /\ registry' = rest
    /\ isEmpty' = (isEmpty \/ rest = {})

\* Invalidator::submit_task with the scan context ctx: the scan snapshots
\* the registry when the context is empty (a new pass), marks the task
\* running and hands it to the pool.
SubmitTask(ctx, cands, truncated) ==
    /\ ctxPreds' = IF ctx = {} THEN {Lite(q) : q \in registry} ELSE ctx
    /\ taskRunning' = TRUE
    /\ pool' = Append(pool, [cands |-> cands, i |-> 1, pc |-> "apply",
                             invalidated |-> <<>>, newest |-> None,
                             truncated |-> truncated])

\* Invalidator::task_result on a stored result: the context after the
\* result is taken, and whether the pass is done.
ResultCtx(res, ctx) ==
    IF res.truncated
    THEN IF res.newest # None THEN {q \in ctx : q.at >= res.newest} ELSE ctx
    ELSE {}

IsDone(res, ctx) == ~res.truncated \/ ResultCtx(res, ctx) = {}

(***************************************************************************)
(* The pool thread running InvalidationTask::execute, one map operation    *)
(* per step: apply (get_value_entry and the lm == ts check) and            *)
(* invalidate (remove_key_value_if with the same check) are separate       *)
(* lock-free calls on the map.                                             *)
(***************************************************************************)
Running == pool # <<>>
Cur == Head(pool)

\* InvalidationTask::apply for the current candidate; a miss advances.
TaskApply ==
    /\ Running /\ Cur.pc = "apply" /\ Cur.i <= Len(Cur.cands)
    /\ LET c == Cur.cands[Cur.i]
           e == cache[c.key]
           hit == /\ e # None
                  /\ lastModified[entries[e].cell] = c.ts
                  /\ DoApplyPredicates(ctxPreds, c.key, entries[e].value, c.ts)
       IN pool' = [pool EXCEPT ![1] = IF hit THEN [@ EXCEPT !.pc = "invalidate"]
                                     ELSE [@ EXCEPT !.i = @ + 1, !.newest = c.ts]]
    /\ UNCHANGED <<cache, entries, lastModified, registry, isEmpty, lastKey,
                   ctxPreds, taskResult, taskRunning>>

\* Mutant of TaskInvalidate: the entry is removed without the re-check.
TaskInvalidateNoRecheck ==
    /\ Running /\ Cur.pc = "invalidate"
    /\ LET c == Cur.cands[Cur.i]
           e == cache[c.key]
       IN /\ cache' = [cache EXCEPT ![c.key] = None]
          /\ pool' = [pool EXCEPT ![1] = [@ EXCEPT !.pc = "apply", !.i = @ + 1, !.newest = c.ts,
                      !.invalidated = IF e # None THEN Append(@, e) ELSE @]]
    /\ UNCHANGED <<entries, lastModified, registry, isEmpty, lastKey,
                   ctxPreds, taskResult, taskRunning>>

\* InvalidationTask::invalidate: remove_key_value_if(lm == ts); the removed
\* entry joins the result.
TaskInvalidate ==
    /\ Running /\ Cur.pc = "invalidate"
    /\ LET c == Cur.cands[Cur.i]
           e == cache[c.key]
           rm == e # None /\ lastModified[entries[e].cell] = c.ts
       IN /\ cache' = IF rm THEN [cache EXCEPT ![c.key] = None] ELSE cache
          /\ pool' = [pool EXCEPT ![1] = [@ EXCEPT !.pc = "apply", !.i = @ + 1, !.newest = c.ts,
                      !.invalidated = IF rm THEN Append(@, e) ELSE @]]
    /\ UNCHANGED <<entries, lastModified, registry, isEmpty, lastKey,
                   ctxPreds, taskResult, taskRunning>>

\* Mutant of TaskEnd: is_running is never cleared.
TaskEndNoClear ==
    /\ Running
    /\ \/ /\ Cur.pc = "apply" /\ Cur.i > Len(Cur.cands)
          /\ taskResult' = [invalidated |-> Cur.invalidated, truncated |-> Cur.truncated,
                            newest |-> Cur.newest]
          /\ pool' = [pool EXCEPT ![1].pc = "stop"]
       \/ /\ Cur.pc = "stop"
          /\ pool' = Tail(pool)
          /\ UNCHANGED taskResult
    /\ UNCHANGED <<cache, entries, lastModified, registry, isEmpty, lastKey, ctxPreds,
                   taskRunning>>

\* The end of InvalidationTask::execute: store the result, then clear
\* is_running, then the closure returns and the pool takes the next task.
TaskEnd ==
    /\ Running
    /\ \/ /\ Cur.pc = "apply" /\ Cur.i > Len(Cur.cands)
          /\ taskResult' = [invalidated |-> Cur.invalidated, truncated |-> Cur.truncated,
                            newest |-> Cur.newest]
          /\ pool' = [pool EXCEPT ![1].pc = "stop"]
          /\ UNCHANGED taskRunning
       \/ /\ Cur.pc = "stop"
          /\ taskRunning' = FALSE
          /\ pool' = Tail(pool)
          /\ UNCHANGED taskResult
    /\ UNCHANGED <<cache, entries, lastModified, registry, isEmpty, lastKey, ctxPreds>>

TaskStep == TaskApply \/ TaskInvalidate \/ TaskEnd

Init ==
    /\ registry = {}
    /\ isEmpty = TRUE
    /\ lastKey = IdSpace - 1
    /\ ctxPreds = {}
    /\ pool = <<>>
    /\ taskResult = None
    /\ taskRunning = FALSE

-----------------------------------------------------------------------------
TypeOK ==
    /\ registry \subseteq [id : Ids, pred : Predicates, at : Time,
                           oldest : {MaxInstant}, newest : {MinInstant}]
    /\ isEmpty \in BOOLEAN /\ lastKey \in Ids
    /\ ctxPreds \subseteq [pred : Predicates, at : Time,
                           oldest : {MaxInstant}, newest : {MinInstant}]
    /\ pool \in Seq(Task)
    /\ taskResult \in {None} \cup [invalidated : Seq(Nat), truncated : BOOLEAN,
                                   newest : Time \cup {None}]
    /\ taskRunning \in BOOLEAN

=============================================================================
