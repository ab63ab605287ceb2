---------------------------- MODULE ThreadsProps ----------------------------
(***************************************************************************)
(* What the thread system of module Threads is required to do.             *)
(***************************************************************************)
EXTENDS Threads

\* Type invariant.
TypeOK ==
  /\ current \in AllThreads
  /\ status \in [AllThreads -> {"free", "blocked", "ready", "running", "dying"}]
  /\ priority \in [AllThreads -> PRI_MIN..PRI_MAX]
  /\ ready_list \in Seq(Threads)
  /\ sleep_list \in Seq(Threads)
  /\ left \in [AllThreads -> Nat]
  /\ waiters \in [Semas -> Seq(Threads)]
  /\ value \in [Semas -> Nat]
  /\ thread_ticks \in 0..(TIME_SLICE - 1)
  /\ pc \in [AllThreads -> ThreadPC \cup IdlePC]
  /\ want \in [AllThreads -> Semas \cup {NoSema}]
  /\ args \in [AllThreads -> [thread : Threads \cup {NoThread},
                              priority : PRI_MIN..PRI_MAX]]
  /\ context \in {"thread", "timer"}

(***************************************************************************)
(* "It can be used these two ways only because they are mutually           *)
(* exclusive" (threads/thread.h): the one `elem' of a struct thread is     *)
(* linked into at most one of the run queue, the sleep list and the        *)
(* semaphores' waiter lists, once, and into which is decided by the        *)
(* thread's status and by the call it is inside of.  A thread whose page   *)
(* is free is on none of them.                                             *)
(***************************************************************************)
OnReadyList(t) == t \in Members(ready_list)
OnSleepList(t) == t \in Members(sleep_list)
OnWaiters(t, s) == t \in Members(waiters[s])

\* c is between the init_thread() and the thread_unblock() of thread_create();
\* t has been initialised by such a thread and is on no list yet.
Creating(c) == \/ pc[c] \in {"tid", "unblock"}
               \/ pc[c] = "down" /\ want[c] = tid_lock
Embryo(t) == \E c \in Threads : Creating(c) /\ args[c].thread = t

\* Where t's elem is linked, for each status.
ElemUse(t) ==
  /\ OnReadyList(t) <=> status[t] = "ready"
  /\ OnSleepList(t) => status[t] = "blocked" /\ pc[t] = "run" /\ ~Embryo(t)
  /\ \A s \in Semas : OnWaiters(t, s) =>
       status[t] = "blocked" /\ pc[t] = "down" /\ want[t] = s
  /\ Embryo(t) => status[t] = "blocked" /\ pc[t] = "run"
  /\ status[t] = "blocked" =>
       Embryo(t) \/ OnSleepList(t) \/ \E s \in Semas : OnWaiters(t, s)
  /\ status[t] = "running" <=> current = t

ElemInOneList ==
  /\ NoDuplicates(ready_list)
  /\ NoDuplicates(sleep_list)
  /\ \A s \in Semas : NoDuplicates(waiters[s])
  /\ \A t \in Threads : ElemUse(t)

(***************************************************************************)
(* The run queue and every waiter list are sorted by priority at all       *)
(* times, although aging changes the priorities of queued threads and the  *)
(* list_sort() calls after it are commented out: next_thread_to_run()      *)
(* takes the front without a search and relies on it.                      *)
(***************************************************************************)
ListsSorted ==
  /\ PrioritySorted(ready_list, priority)
  /\ \A s \in Semas : PrioritySorted(waiters[s], priority)

\* Whenever the CPU changes hands, no thread left on the run queue has a
\* higher priority than the one that schedule() switched to; and the idle
\* thread gets it only when the run queue is empty.
SwitchToHighest ==
  [][current' # current =>
       IF current' = idle_thread
         THEN ready_list' = <<>>
         ELSE \A t \in Members(ready_list') : priority'[t] <= priority'[current']
    ]_vars

(***************************************************************************)
(* No wakeup is lost.  sema_up() raises the value and wakes one waiter,    *)
(* which takes its unit later, when it is scheduled, and may by then find  *)
(* it gone.  While threads wait for a semaphore, every unit of its value   *)
(* is owed to a thread that has been woken and has not tested it again.    *)
(***************************************************************************)
Woken(s) == {t \in Threads : want[t] = s /\ ~OnWaiters(t, s)}

NoLostWakeup ==
  \A s \in Semas : waiters[s] # <<>> => value[s] <= Cardinality(Woken(s))

\* The idle thread never halts the CPU while a thread is ready: interrupts
\* stay off from its look at the run queue to its hlt, and every interrupt
\* ends the hlt.
IdleOnlyWhenNothingReady ==
  context = "thread" /\ current = idle_thread /\ pc[idle_thread] = "hlt"
    => ready_list = <<>>

\* No sleeper returns before the ticks it asked for have passed ...
NoEarlyWakeup ==
  [][\A t \in Threads : OnSleepList(t) /\ ~OnSleepList(t)' => left[t] = 0]_vars

\* ... and none whose time has come survives a timer interrupt, although it
\* may have read the clock several ticks before it joined the list.
NoOversleep ==
  [][context = "timer" /\ context' = "thread" =>
       \A t \in Members(sleep_list') : left'[t] > 0]_vars

\* The alarm clock: timer_sleep() is neither too short nor too long.
SleepersWakeOnTime == NoEarlyWakeup /\ NoOversleep

(***************************************************************************)
(* The lists of the scheduler are right at every step, also while a thread *)
(* creates another, ages, sleeps, waits or is about to be switched to.     *)
(***************************************************************************)
ListsRight ==
  /\ TypeOK
  /\ ElemInOneList
  /\ ListsSorted
  /\ IdleOnlyWhenNothingReady

\* The semaphores implement the specification of module Semaphore.
Sem == INSTANCE Semaphore WITH Threads <- AllThreads, Initial <- InitialValue,
                               waiting <- want

SemaphoreSpec == Sem!SSpec

(***************************************************************************)
(* Fairness.  The timer's interrupt request stays pending in the interrupt *)
(* controller while interrupts are off, so a timer that is enabled again   *)
(* and again does interrupt.  The handler, the loop of sema_down() and the *)
(* idle loop are kernel code on a CPU that does not stop.  Nothing is      *)
(* assumed of what the threads themselves call.                            *)
(***************************************************************************)
Fairness ==
  /\ SF_vars(TimerInterrupt)
  /\ WF_vars(WakeSleeper)
  /\ WF_vars(ThreadTick)
  /\ WF_vars(SemaDownResume)
  /\ WF_vars(IdleLoop)

FairSpec == Spec /\ Fairness

\* Aging and the time slice keep every ready thread from starving, whatever
\* the priorities of the threads that compete with it.
ReadyRuns == \A t \in Threads : status[t] = "ready" ~> current = t

\* Every thread that sleeps runs again.
SleeperRuns == \A t \in Threads : OnSleepList(t) ~> current = t

\* Nobody waits for ever for the CPU, whether ready or asleep.
EveryoneRuns == ReadyRuns /\ SleeperRuns
=============================================================================
