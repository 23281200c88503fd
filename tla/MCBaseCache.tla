---------------------------- MODULE MCBaseCache ----------------------------
(* Model-checking instance of BaseCache: weighers and symmetry for TLC.   *)
EXTENDS BaseCache

\* The default weigher: every entry weighs 1.
MCWeight == [v \in Values |-> 1]

\* A weigher like "weight = len(value)": with Values a set of naturals, an
\* entry weighs its value.
MCWeightOfValue == [v \in Values |-> v]

\* No closures are registered (the invalidator is disabled).
MCNoMatches == [p \in {} |-> {}]

\* Every closure is "|_k, v| v == v0" for one value v0 of Values.
MCMatches == [p \in Predicates |-> Keys \X {CHOOSE v \in Values : TRUE}]

\* Keys and threads are interchangeable (safety runs only).
MCSymmetry == Permutations(Keys) \cup Permutations(Threads)
=============================================================================
