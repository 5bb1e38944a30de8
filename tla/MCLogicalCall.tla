--------------------------- MODULE MCLogicalCall ---------------------------
(* LogicalCall on small instances. *)
EXTENDS LogicalCall, TLC

CONSTANTS t1, t2

TwoTasks == {t1, t2}

Paired == [interval |-> 1, budget |-> 3, limit |-> 2]
Single == [interval |-> 1, budget |-> 2, limit |-> 1]
Alone  == [interval |-> 1, budget |-> None, limit |-> 1]
AloneOnly  == {Alone}
SingleOnly == {Single}
PairedAndAlone == {Paired, Alone}

DelaySet == {1, 2}
ShortAndTooLong == {0, 1, 4}

TasksAlike == Permutations(TwoTasks)
=============================================================================
