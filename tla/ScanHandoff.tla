----------------------------- MODULE ScanHandoff -----------------------------
(***************************************************************************)
(* What the invalidator promises about its scan tasks (spec 4.6, 5): one   *)
(* task at a time per cache; a submitted task runs to its end and leaves   *)
(* a result; the maintenance worker takes that result before it submits    *)
(* the next task, in the same sync or alone.                               *)
(*                                                                         *)
(*   idle --Submit--> running --Finish--> done --Collect--> idle           *)
(*                                          \--CollectAndSubmit--> running *)
(***************************************************************************)
VARIABLE phase

Phases == {"idle", "running", "done"}

Init == phase = "idle"

\* submit_task with no task running and no result pending
Submit == phase = "idle" /\ phase' = "running"

\* the task stores its result
Finish == phase = "running" /\ phase' = "done"

\* sync takes the result (task_result) and submits nothing
Collect == phase = "done" /\ phase' = "idle"

\* sync takes the result and submits the next task in the same call
CollectAndSubmit == phase = "done" /\ phase' = "running"

Next == Submit \/ Finish \/ Collect \/ CollectAndSubmit

\* The pool runs a submitted task to its end, and the housekeeper keeps
\* calling sync, which takes a pending result.
Spec == /\ Init /\ [][Next]_phase
        /\ WF_phase(Finish)
        /\ WF_phase(Collect \/ CollectAndSubmit)

TypeOK == phase \in Phases
=============================================================================
