----------------------------- MODULE Semaphore -----------------------------
(***************************************************************************)
(* What the comments of threads/synch.c promise of a semaphore, with no    *)
(* waiter list, no priorities and no scheduler: "a nonnegative integer     *)
(* along with two atomic operators for manipulating it", where "down"      *)
(* waits for the value to become positive and then decrements it, and      *)
(* "up" increments it.  Module Threads implements this specification.      *)
(***************************************************************************)
EXTENDS Naturals

CONSTANTS Threads,   \* the threads that may call down
          Semas,     \* the semaphores
          Initial,   \* the value each semaphore is initialised to
          NoSema     \* what a thread that waits for nothing waits for

VARIABLES value,     \* the integer
          waiting    \* the semaphore each thread is inside down() of

svars == <<value, waiting>>

SInit == /\ value = Initial
         /\ waiting = [t \in Threads |-> NoSema]

\* down() finds the value zero: the caller starts to wait.
Wait(t, s) == /\ waiting[t] = NoSema
              /\ value[s] = 0
              /\ waiting' = [waiting EXCEPT ![t] = s]
              /\ UNCHANGED value

\* down() returns to a caller that had to wait.
Acquire(t, s) == /\ waiting[t] = s
                 /\ value[s] > 0
                 /\ value' = [value EXCEPT ![s] = @ - 1]
                 /\ waiting' = [waiting EXCEPT ![t] = NoSema]

\* down() or try_down() returns at once.
Down(s) == /\ value[s] > 0
           /\ value' = [value EXCEPT ![s] = @ - 1]
           /\ UNCHANGED waiting

Up(s) == /\ value' = [value EXCEPT ![s] = @ + 1]
         /\ UNCHANGED waiting

SNext == \E s \in Semas : \/ Down(s)
                          \/ Up(s)
                          \/ \E t \in Threads : Wait(t, s) \/ Acquire(t, s)

SSpec == SInit /\ [][SNext]_svars
=============================================================================
