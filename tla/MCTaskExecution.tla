-------------------------- MODULE MCTaskExecution --------------------------
(* Small instances of TaskExecution. *)
EXTENDS TaskExecution

CONSTANTS n1, n2, n3

\* The chosen oracle changes with every run of tasks.
Turns == << <<n1, n2, n3>>, <<n2, n3, n1>>, <<n3, n1, n2>> >>
RotatingOrder == [b \in Block |-> Turns[1 + ((b - 1) % 3)]]

NothingStuck == [n \in Node |-> {}]

OnePerBlock == <<1, 2>>     \* entering amounts: one more fallback per block
=============================================================================
