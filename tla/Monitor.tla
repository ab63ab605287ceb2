------------------------------ MODULE Monitor ------------------------------
(***************************************************************************)
(* What the comments of threads/synch.c promise of a lock and of the       *)
(* condition variables it protects: a lock "can only be owned by a single  *)
(* thread at a time"; cond_wait() "atomically releases LOCK and waits for  *)
(* COND to be signaled", and reacquires the lock before it returns; a      *)
(* signal wakes one of the threads that wait, and the monitor is "Mesa"    *)
(* style, so others may enter before the woken thread does.  There are no  *)
(* semaphores and no lists here.  Module Locks implements this             *)
(* specification.                                                          *)
(***************************************************************************)
CONSTANTS Threads, Conds

VARIABLES inside,   \* the threads that own the lock
          waitset   \* the threads that wait for each condition

mvars == <<inside, waitset>>

MInit == /\ inside = {}
         /\ waitset = [c \in Conds |-> {}]

\* A thread that waits for no condition gets the lock: a newcomer, or one
\* that was signaled.
Enter(t) == /\ inside = {}
            /\ \A c \in Conds : t \notin waitset[c]
            /\ inside' = {t}
            /\ UNCHANGED waitset

Leave(t) == /\ t \in inside
            /\ inside' = inside \ {t}
            /\ UNCHANGED waitset

\* To release the lock and to start to wait is one step.
Wait(t, c) == /\ t \in inside
              /\ inside' = inside \ {t}
              /\ waitset' = [waitset EXCEPT ![c] = @ \cup {t}]

\* The owner signals a condition, and one thread stops waiting for it.
Signal(t, c) == /\ t \in inside
                /\ \E u \in waitset[c] :
                     waitset' = [waitset EXCEPT ![c] = @ \ {u}]
                /\ UNCHANGED inside

MNext == \E t \in Threads : \/ Enter(t)
                            \/ Leave(t)
                            \/ \E c \in Conds : Wait(t, c) \/ Signal(t, c)

MSpec == MInit /\ [][MNext]_mvars
=============================================================================
