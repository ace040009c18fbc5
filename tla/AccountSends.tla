---------------------------- MODULE AccountSends ----------------------------
(***************************************************************************)
(* What the users of one account are promised: its transactions are sent   *)
(* one user at a time, and each of them takes the next number.             *)
(***************************************************************************)
EXTENDS Naturals

CONSTANTS Task,    \* the users
          Nobody   \* a value that is no user

VARIABLES holder,   \* the task that may send
          next      \* the number of the next transaction

sendVars == <<holder, next>>

Init == holder = Nobody /\ next = 0

Take(t) == holder = Nobody /\ holder' = t /\ next' = next

Use(t)  == holder = t /\ next' = next + 1 /\ holder' \in {t, Nobody}

Give(t) == holder = t /\ holder' = Nobody /\ next' = next

Next == \E t \in Task : Take(t) \/ Use(t) \/ Give(t)

Spec == Init /\ [][Next]_sendVars
=============================================================================
