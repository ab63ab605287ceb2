----------------------------- MODULE LocksProps -----------------------------
(***************************************************************************)
(* What module Locks is required to do.                                    *)
(***************************************************************************)
EXTENDS Locks

\* Type invariant.
TypeOK ==
  /\ holder \in Threads \cup {NoThread}
  /\ value \in {0, 1}
  /\ waiters \in [Conds -> Seq(Threads)]
  /\ waiter \in [Threads -> {0, 1}]
  /\ popped \in [Threads -> Threads \cup {NoThread}]
  /\ cond \in [Threads -> Conds \cup {NoCond}]
  /\ pc \in [Threads -> PC]

\* From sema_down() to sema_up() of the lock's semaphore a thread owns it;
\* in some of these places it is also recorded in lock->holder.
Owning  == {"got", "in", "up", "wait", "signal", "broadcast"}
Holding == {"in", "wait", "signal", "broadcast"}

(***************************************************************************)
(* The ASSERTs on lock_held_by_current_thread() never fail: a thread in    *)
(* cond_signal(), cond_wait() or lock_release() finds itself in            *)
(* lock->holder, one in lock_acquire() does not, although the holder is    *)
(* stored and cleared with interrupts on.                                  *)
(***************************************************************************)
HolderIsRight ==
  \A t \in Threads : holder = t <=> pc[t] \in Holding

(***************************************************************************)
(* No signal is lost and none is invented: a thread in cond_wait() is in   *)
(* the list of waiters once, or has been popped by a thread that is about  *)
(* to up its semaphore, or can take the unit of its semaphore, and only    *)
(* one of these; before it has released the lock it is in the list.        *)
(* Outside cond_wait() nothing of a thread is left in any of these places, *)
(* so the semaphore on its stack is never used after the call.             *)
(***************************************************************************)
Queued(t)    == {c \in Conds : t \in Members(waiters[c])}
Signalers(t) == {u \in Threads : popped[u] = t}
InWait(t)    == cond[t] # NoCond /\ pc[t] \in {"wait", "up", "down"}

Accounted(t) ==
  IF InWait(t)
    THEN \/ Queued(t) = {cond[t]} /\ Signalers(t) = {} /\ waiter[t] = 0
         \/ /\ pc[t] = "down"
            /\ Queued(t) = {}
            /\ \/ waiter[t] = 0 /\ \E u \in Threads : Signalers(t) = {u}
               \/ waiter[t] = 1 /\ Signalers(t) = {}
    ELSE Queued(t) = {} /\ Signalers(t) = {} /\ waiter[t] = 0

SignalsAccounted == /\ \A c \in Conds : NoDuplicates(waiters[c])
                    /\ \A t \in Threads : Accounted(t)

\* The lock and the lists of its condition variables are right between any two
\* steps of lock_acquire(), lock_release(), cond_wait() and cond_signal().
LockRight ==
  /\ TypeOK
  /\ HolderIsRight
  /\ SignalsAccounted

(***************************************************************************)
(* The lock and its condition variables are a monitor: module Monitor.  A  *)
(* thread that has joined the list but has not released the lock yet does  *)
(* not wait there.                                                         *)
(***************************************************************************)
owners      == {t \in Threads : pc[t] \in Owning}
Released(c) == {t \in Threads : c \in Queued(t) /\ pc[t] = "down"}
released    == [c \in Conds |-> Released(c)]

M == INSTANCE Monitor WITH inside <- owners, waitset <- released

MonitorSpec == M!MSpec

\* A thread that has been signaled gets out of the wait ...
SignaledLeaves ==
  \A t \in Threads : Signalers(t) # {} ~> pc[t] = "acquire"

\* ... a broadcast reaches every thread that waits when it is called ...
BroadcastWakesAll ==
  \A c \in Conds, t \in Threads :
    c \in Queued(t) /\ (\E u \in Threads : pc[u] = "broadcast" /\ cond[u] = c)
      ~> pc[t] = "acquire"

\* ... so every thread to which cond_signal() or cond_broadcast() owes a wakeup
\* gets it ...
WokenLeave == SignaledLeaves /\ BroadcastWakesAll

\* ... and a lock that nobody owns goes to one of the threads that want it.
FreeLockIsTaken ==
  owners = {} /\ (\E t \in Threads : pc[t] = "acquire") ~> owners # {}
=============================================================================
