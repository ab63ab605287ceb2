------------------------------- MODULE Locks -------------------------------
(***************************************************************************)
(* A lock and its condition variables, as threads/synch.c of               *)
(* 2024_2nd/CSE4070/Project_04 builds them from semaphores.  Nothing here  *)
(* runs with interrupts off but the semaphores' own operations, which are  *)
(* those of module Semaphore: a down is enabled when the value is positive *)
(* and takes one away.  So the assignments to lock->holder, the changes of *)
(* the list of waiters and the operations on semaphores are steps between  *)
(* which any other thread may run.                                         *)
(*                                                                         *)
(* The callers obey the rules that the code asserts: only the holder       *)
(* releases, waits, signals and broadcasts, and it never acquires again.   *)
(***************************************************************************)
EXTENDS KernelList, FiniteSets

CONSTANTS Threads,   \* the threads that use the lock
          Conds,     \* the condition variables associated with it
          NoThread, NoCond

ASSUME LocksAssumption ==
  /\ NoThread \notin Threads
  /\ NoCond \notin Conds

VARIABLES
  holder,   \* struct lock: holder
  value,    \* the value of the lock's semaphore
  waiters,  \* struct condition: waiters, each entry a thread's local `waiter'
  waiter,   \* the value of the semaphore in that local
  popped,   \* the entry that cond_signal() has popped and not yet upped
  cond,     \* the condition a thread is inside cond_wait() or _broadcast() of
  pc

vars == <<holder, value, waiters, waiter, popped, cond, pc>>

(***************************************************************************)
(* pc: "out" and "in" in the caller's code, without and with the lock;     *)
(* "acquire" at the sema_down() of lock_acquire() and "got" after it;      *)
(* "up" at the sema_up() of lock_release(); "wait" after cond_wait() has   *)
(* joined the list and "down" at its sema_down(); "signal" between the pop *)
(* and the sema_up() of cond_signal(); "broadcast" at the test of the loop *)
(* of cond_broadcast().                                                    *)
(***************************************************************************)
PC == {"out", "acquire", "got", "in", "up", "wait", "down", "signal",
       "broadcast"}

Init ==
  /\ holder = NoThread
  /\ value = 1
  /\ waiters = [c \in Conds |-> <<>>]
  /\ waiter = [t \in Threads |-> 0]
  /\ popped = [t \in Threads |-> NoThread]
  /\ cond = [t \in Threads |-> NoCond]
  /\ pc = [t \in Threads |-> "out"]

Goto(t, l) == pc' = [pc EXCEPT ![t] = l]

-----------------------------------------------------------------------------
(***************************************************************************)
(* The lock.                                                               *)
(***************************************************************************)
LockAcquire(t) ==
  /\ pc[t] = "out"
  /\ Goto(t, "acquire")
  /\ UNCHANGED <<holder, value, waiters, waiter, popped, cond>>

AcquireDown(t) ==
  /\ pc[t] = "acquire"
  /\ value > 0
  /\ value' = value - 1
  /\ Goto(t, "got")
  /\ UNCHANGED <<holder, waiters, waiter, popped, cond>>

\* lock_try_acquire() that succeeds; when it fails nothing changes.
LockTryAcquire(t) ==
  /\ pc[t] = "out"
  /\ value > 0
  /\ value' = value - 1
  /\ Goto(t, "got")
  /\ UNCHANGED <<holder, waiters, waiter, popped, cond>>

SetHolder(t) ==
  /\ pc[t] = "got"
  /\ holder' = t
  /\ Goto(t, "in")
  /\ UNCHANGED <<value, waiters, waiter, popped, cond>>

\* Variant: the holder is not cleared.
LockRelease_Keep(t) ==
  /\ pc[t] \in {"in", "wait"}
  /\ Goto(t, "up")
  /\ UNCHANGED <<holder, value, waiters, waiter, popped, cond>>

\* lock_release(), called by the holder or by cond_wait().
LockRelease(t) ==
  /\ pc[t] \in {"in", "wait"}
  /\ holder' = NoThread
  /\ Goto(t, "up")
  /\ UNCHANGED <<value, waiters, waiter, popped, cond>>

\* Variant: lock_release() without the sema_up().
ReleaseUp_Silent(t) ==
  /\ pc[t] = "up"
  /\ Goto(t, IF cond[t] = NoCond THEN "out" ELSE "down")
  /\ UNCHANGED <<holder, value, waiters, waiter, popped, cond>>

ReleaseUp(t) ==
  /\ pc[t] = "up"
  /\ value' = value + 1
  /\ Goto(t, IF cond[t] = NoCond THEN "out" ELSE "down")
  /\ UNCHANGED <<holder, waiters, waiter, popped, cond>>

-----------------------------------------------------------------------------
(***************************************************************************)
(* Condition variables.                                                    *)
(***************************************************************************)
\* Variant: the lock is released before the caller joins the list.
CondWait_Late(t, c) ==
  \/ /\ pc[t] = "in"
     /\ holder' = NoThread
     /\ cond' = [cond EXCEPT ![t] = c]
     /\ Goto(t, "up")
     /\ UNCHANGED <<value, waiters, waiter, popped>>
  \/ /\ pc[t] = "down" /\ cond[t] = c
     /\ t \notin Members(waiters[c]) /\ waiter[t] = 0
     /\ waiters' = [waiters EXCEPT ![c] = Append(@, t)]
     /\ UNCHANGED <<holder, value, waiter, popped, cond, pc>>

CondWait(t, c) ==
  /\ pc[t] = "in"
  /\ waiter' = [waiter EXCEPT ![t] = 0]
  /\ waiters' = [waiters EXCEPT ![c] = Append(@, t)]
  /\ cond' = [cond EXCEPT ![t] = c]
  /\ Goto(t, "wait")
  /\ UNCHANGED <<holder, value, popped>>

\* The waiter has been signaled, and goes on to lock_acquire().
WaitDown(t) ==
  /\ pc[t] = "down"
  /\ waiter[t] > 0
  /\ waiter' = [waiter EXCEPT ![t] = @ - 1]
  /\ cond' = [cond EXCEPT ![t] = NoCond]
  /\ Goto(t, "acquire")
  /\ UNCHANGED <<holder, value, waiters, popped>>

pop_front(t, c) ==
  /\ popped' = [popped EXCEPT ![t] = Head(waiters[c])]
  /\ waiters' = [waiters EXCEPT ![c] = Tail(@)]
  /\ Goto(t, "signal")

\* cond_signal() while a thread waits; when none does nothing changes.
CondSignal(t, c) ==
  /\ pc[t] = "in"
  /\ waiters[c] # <<>>
  /\ pop_front(t, c)
  /\ UNCHANGED <<holder, value, waiter, cond>>

\* Variant: `if' instead of `while' in cond_broadcast().
SignalUp_Once(t) ==
  /\ pc[t] = "signal"
  /\ waiter' = [waiter EXCEPT ![popped[t]] = @ + 1]
  /\ popped' = [popped EXCEPT ![t] = NoThread]
  /\ cond' = [cond EXCEPT ![t] = NoCond]
  /\ Goto(t, "in")
  /\ UNCHANGED <<holder, value, waiters>>

SignalUp(t) ==
  /\ pc[t] = "signal"
  /\ waiter' = [waiter EXCEPT ![popped[t]] = @ + 1]
  /\ popped' = [popped EXCEPT ![t] = NoThread]
  /\ Goto(t, IF cond[t] = NoCond THEN "in" ELSE "broadcast")
  /\ UNCHANGED <<holder, value, waiters, cond>>

CondBroadcast(t, c) ==
  /\ pc[t] = "in"
  /\ cond' = [cond EXCEPT ![t] = c]
  /\ Goto(t, "broadcast")
  /\ UNCHANGED <<holder, value, waiters, waiter, popped>>

BroadcastNext(t) ==
  /\ pc[t] = "broadcast"
  /\ waiters[cond[t]] # <<>>
  /\ pop_front(t, cond[t])
  /\ UNCHANGED <<holder, value, waiter, cond>>

BroadcastDone(t) ==
  /\ pc[t] = "broadcast"
  /\ waiters[cond[t]] = <<>>
  /\ cond' = [cond EXCEPT ![t] = NoCond]
  /\ Goto(t, "in")
  /\ UNCHANGED <<holder, value, waiters, waiter, popped>>

-----------------------------------------------------------------------------
\* The steps a thread takes once it is inside one of the functions.
Step(t) == \/ AcquireDown(t) \/ SetHolder(t)
           \/ ReleaseUp(t) \/ WaitDown(t) \/ SignalUp(t)
           \/ BroadcastNext(t) \/ BroadcastDone(t)
           \/ pc[t] = "wait" /\ LockRelease(t)

\* The calls it makes.
Call(t) == \/ LockAcquire(t) \/ LockTryAcquire(t)
           \/ pc[t] = "in" /\ LockRelease(t)
           \/ \E c \in Conds : \/ CondWait(t, c)
                               \/ CondSignal(t, c)
                               \/ CondBroadcast(t, c)

Next == \E t \in Threads : Step(t) \/ Call(t)

Spec == Init /\ [][Next]_vars

\* The scheduler runs every thread that is ready, so a thread that can take
\* its next step inside the kernel takes it; nothing says that a thread
\* makes a call, or that it ever releases the lock.
FairSpec == Spec /\ \A t \in Threads : WF_vars(Step(t))
=============================================================================
