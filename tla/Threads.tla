------------------------------ MODULE Threads ------------------------------
(***************************************************************************)
(* The Pintos thread system of 2024_2nd/CSE4070/Project_04 as the kernel   *)
(* of its threads/ directory builds it (no USERPROG, no -mlfqs): the       *)
(* priority run queue and aging of threads/thread.c, the semaphores of     *)
(* threads/synch.c and the alarm clock of devices/timer.c, on one CPU.     *)
(*                                                                         *)
(* A section of code that runs with interrupts off is one action; between  *)
(* two such sections the timer may interrupt the running thread.  A thread *)
(* is identified with the page that holds its struct thread, so a page is  *)
(* reused when a thread exits and another one is created.                  *)
(***************************************************************************)
EXTENDS KernelList, FiniteSets

CONSTANTS Threads,         \* the pages threads are created in, main's included
          initial_thread,  \* the thread that runs init.c:main()
          idle_thread,     \* the idle thread, which is not one of Threads
          Semas,           \* the semaphores, the one in tid_lock included
          tid_lock,        \* the lock of allocate_tid()
          DeviceSemas,     \* the semaphores interrupt handlers up
          InitialValue,    \* the value each semaphore is initialised to
          PRI_MIN, PRI_MAX, PRI_DEFAULT,
          TIME_SLICE,      \* ticks a thread may run before it is preempted
          Priorities,      \* the priorities the threads ask for
          SleepTicks,      \* the arguments timer_sleep() is called with
          MaxValue,        \* bound: no up() takes a semaphore beyond it
          NoSema, NoThread \* "no semaphore", "no thread"

ASSUME ThreadsAssumption ==
  /\ initial_thread \in Threads
  /\ idle_thread \notin Threads
  /\ NoThread \notin Threads \cup {idle_thread}
  /\ IsFiniteSet(Threads)
  /\ tid_lock \in Semas
  /\ NoSema \notin Semas
  /\ DeviceSemas \subseteq Semas \ {tid_lock}
  /\ InitialValue \in [Semas -> Nat]
  /\ PRI_MIN \in Int /\ PRI_MAX \in Int /\ PRI_MIN <= PRI_MAX
  /\ PRI_DEFAULT \in PRI_MIN..PRI_MAX
  /\ Priorities \subseteq PRI_MIN..PRI_MAX
  /\ TIME_SLICE \in Nat \ {0}
  /\ SleepTicks \subseteq Int
  /\ MaxValue \in Nat

VARIABLES
  current,      \* running_thread()
  status,       \* struct thread: status; "free" when the page holds no thread
  priority,     \* struct thread: priority
  ready_list,   \* the run queue
  sleep_list,   \* the threads inside timer_sleep()
  left,         \* wakeup - ticks, the ticks a sleeper still has to wait
  waiters,      \* struct semaphore: waiters
  value,        \* struct semaphore: value
  thread_ticks, \* ticks since the last switch
  pc,           \* where each thread is in the kernel's code
  want,         \* the semaphore a thread is inside sema_down() of
  args,         \* locals of the thread_create() or thread_set_priority() it is in
  context       \* "thread", or "timer" inside timer_interrupt()

sched == <<current, status, ready_list, thread_ticks>>
sleep == <<sleep_list, left>>
vars  == <<current, status, priority, ready_list, sleep_list, left, waiters,
           value, thread_ticks, pc, want, args, context>>

AllThreads == Threads \cup {idle_thread}
NoArgs    == [thread |-> NoThread, priority |-> PRI_MIN]

(***************************************************************************)
(* pc of a thread: "run" in its own code, with interrupts on; "down" in    *)
(* the loop of sema_down(); "sleep" in timer_sleep() after it has computed *)
(* `end' and before it disables interrupts; "tid", "unblock" and "preempt" *)
(* at the three stages of thread_create(); "lower" and "raise" in          *)
(* thread_set_priority() when the new priority is, or is not, below the    *)
(* one it has read; "yield" before a thread_yield() that one of these two  *)
(* has decided on.  pc of the idle thread: "hlt" once it has blocked, the  *)
(* place where it will next execute `sti; hlt', "loop" when an interrupt   *)
(* has ended the hlt.                                                      *)
(***************************************************************************)
ThreadPC == {"run", "down", "sleep", "tid", "unblock", "preempt",
             "lower", "raise", "yield"}
IdlePC   == {"hlt", "loop"}

Running(l) == /\ context = "thread"
              /\ current # idle_thread
              /\ pc[current] = l

\* The loop of sema_down() and the timer's handler run with interrupts off.
IntrOn == context = "thread" /\ pc[current] # "down"

\* The state thread_start() leaves: main runs, the idle thread has blocked.
Init ==
  /\ current = initial_thread
  /\ status = [t \in AllThreads |-> CASE t = initial_thread -> "running"
                                      [] t = idle_thread    -> "blocked"
                                      [] OTHER              -> "free"]
  /\ priority = [t \in AllThreads |-> IF t = initial_thread THEN PRI_DEFAULT
                                                            ELSE PRI_MIN]
  /\ ready_list = <<>>
  /\ sleep_list = <<>>
  /\ left = [t \in AllThreads |-> 0]
  /\ waiters = [s \in Semas |-> <<>>]
  /\ value = InitialValue
  /\ thread_ticks = 0
  /\ pc = [t \in AllThreads |-> IF t = idle_thread THEN "hlt" ELSE "run"]
  /\ want = [t \in AllThreads |-> NoSema]
  /\ args = [t \in AllThreads |-> NoArgs]
  /\ context = "thread"

-----------------------------------------------------------------------------
(***************************************************************************)
(* The scheduler.                                                          *)
(***************************************************************************)

next_thread_to_run_back(list) == IF list = <<>> THEN idle_thread
                                                ELSE list[Len(list)]

next_thread_to_run(list) == IF list = <<>> THEN idle_thread ELSE Head(list)

\* schedule() and thread_schedule_tail(): list is the run queue and st the
\* statuses at the call.
schedule(list, st) ==
  /\ current' = next_thread_to_run(list)
  /\ ready_list' = IF list = <<>> THEN list ELSE Tail(list)
  /\ status' = [st EXCEPT ![next_thread_to_run(list)] = "running"]
  /\ thread_ticks' = 0

thread_block(st) == schedule(ready_list, [st EXCEPT ![current] = "blocked"])

\* thread_yield(), with the run queue and the priorities at the call.
thread_yield(list, pri) ==
  schedule(IF current = idle_thread
             THEN list ELSE list_insert_ordered(list, current, pri),
           [status EXCEPT ![current] = "ready"])

thread_unblock(t) ==
  /\ ready_list' = list_insert_ordered(ready_list, t, priority)
  /\ status' = [status EXCEPT ![t] = "ready"]

\* A thread calls thread_yield(), of its own accord or because another call
\* has decided that it should.
ThreadYield ==
  /\ Running("run") \/ Running("yield")
  /\ pc' = [pc EXCEPT ![current] = "run"]
  /\ thread_yield(ready_list, priority)
  /\ UNCHANGED <<priority, sleep, waiters, value, want, args, context>>

\* thread_set_priority() reads the old priority with interrupts on ...
ThreadSetPriority(p) ==
  /\ Running("run")
  /\ args' = [args EXCEPT ![current].priority = p]
  /\ pc' = [pc EXCEPT ![current] = IF priority[current] > p THEN "lower"
                                                             ELSE "raise"]
  /\ UNCHANGED <<sched, priority, sleep, waiters, value, want, context>>

\* ... and, perhaps after it was preempted and has aged, stores the new one;
\* it yields if that is lower than the one it read.
StorePriority ==
  /\ Running("lower") \/ Running("raise")
  /\ priority' = [priority EXCEPT ![current] = args[current].priority]
  /\ pc' = [pc EXCEPT ![current] = IF @ = "lower" THEN "yield" ELSE "run"]
  /\ args' = [args EXCEPT ![current] = NoArgs]
  /\ UNCHANGED <<sched, sleep, waiters, value, want, context>>

\* thread_exit(), up to the thread_schedule_tail() of the next thread, which
\* frees the page; the page of the initial thread is never freed.
ThreadExit ==
  /\ Running("run")
  /\ schedule(ready_list,
              [status EXCEPT ![current] = IF current = initial_thread
                                            THEN "dying" ELSE "free"])
  /\ UNCHANGED <<priority, sleep, waiters, value, pc, want, args, context>>

\* One turn of the loop of idle(): block, to come back at `sti; hlt'.
IdleLoop ==
  /\ context = "thread"
  /\ current = idle_thread
  /\ pc[idle_thread] = "loop"
  /\ thread_block(status)
  /\ pc' = [pc EXCEPT ![idle_thread] = "hlt"]
  /\ UNCHANGED <<priority, sleep, waiters, value, want, args, context>>

-----------------------------------------------------------------------------
(***************************************************************************)
(* Semaphores.  st is the statuses at the call: thread_create() has        *)
(* initialised its child before it acquires tid_lock.                      *)
(***************************************************************************)

\* Where the caller of sema_down() continues.
After(s) == IF s = tid_lock THEN "tid" ELSE "run"

\* sema_down() finds a positive value.
DownPasses(s, st) ==
  /\ value[s] > 0
  /\ value' = [value EXCEPT ![s] = @ - 1]
  /\ pc' = [pc EXCEPT ![current] = After(s)]
  /\ want' = [want EXCEPT ![current] = NoSema]
  /\ status' = st
  /\ UNCHANGED <<current, ready_list, thread_ticks, waiters>>

\* sema_down() finds zero: join the waiters in priority order and block.
DownBlocks(s, st) ==
  /\ value[s] = 0
  /\ waiters' = [waiters EXCEPT ![s] = list_insert_ordered(@, current, priority)]
  /\ pc' = [pc EXCEPT ![current] = "down"]
  /\ want' = [want EXCEPT ![current] = s]
  /\ thread_block(st)
  /\ UNCHANGED value

SemaDown(s) ==
  /\ Running("run")
  /\ DownPasses(s, status) \/ DownBlocks(s, status)
  /\ UNCHANGED <<priority, sleep, args, context>>

\* `if' instead of `while' around the block.
SemaDownResume_NoRetest ==
  /\ Running("down")
  /\ value' = [value EXCEPT ![want[current]] = @ - 1]
  /\ pc' = [pc EXCEPT ![current] = After(want[current])]
  /\ want' = [want EXCEPT ![current] = NoSema]
  /\ UNCHANGED <<sched, waiters, priority, sleep, args, context>>

\* A thread that was blocked in sema_down() runs again, still with interrupts
\* off, and repeats the test of the while loop.
SemaDownResume ==
  /\ Running("down")
  /\ DownPasses(want[current], status) \/ DownBlocks(want[current], status)
  /\ UNCHANGED <<priority, sleep, args, context>>

\* A sema_try_down() that succeeds; one that fails changes nothing.
SemaTryDown(s) ==
  /\ Running("run")
  /\ value[s] > 0
  /\ value' = [value EXCEPT ![s] = @ - 1]
  /\ UNCHANGED <<sched, priority, sleep, waiters, pc, want, args, context>>

\* The value is raised but nobody is woken.
sema_up_silent(s) ==
  /\ value' = [value EXCEPT ![s] = @ + 1]
  /\ UNCHANGED <<waiters, ready_list, status, current, thread_ticks>>

\* sema_up(): unblock the first waiter of highest priority, raise the value;
\* the caller keeps the CPU.
sema_up(s) ==
  /\ value' = [value EXCEPT ![s] = @ + 1]
  /\ \/ /\ waiters[s] = <<>>
        /\ UNCHANGED <<waiters, ready_list, status>>
     \/ /\ waiters[s] # <<>>
        /\ LET i == highest_elem(waiters[s], priority)
           IN  /\ waiters' = [waiters EXCEPT ![s] = RemoveAt(@, i)]
               /\ thread_unblock(waiters[s][i])
  /\ UNCHANGED <<current, thread_ticks>>

SemaUp(s) ==
  /\ Running("run")
  /\ value[s] < MaxValue
  /\ sema_up(s)
  /\ UNCHANGED <<priority, sleep, pc, want, args, context>>

-----------------------------------------------------------------------------
(***************************************************************************)
(* thread_create(): initialise the child, draw a tid under tid_lock,       *)
(* unblock the child, yield to it if it was given a higher priority.       *)
(***************************************************************************)

\* init_thread() and the lock_acquire() of allocate_tid().
ThreadCreate(t, p) ==
  /\ Running("run")
  /\ status[t] = "free"
  /\ priority' = [priority EXCEPT ![t] = p]
  /\ args' = [args EXCEPT ![current] = [thread |-> t, priority |-> p]]
  /\ LET st == [status EXCEPT ![t] = "blocked"]
     IN  DownPasses(tid_lock, st) \/ DownBlocks(tid_lock, st)
  /\ UNCHANGED <<sleep, context>>

\* The rest of allocate_tid(); the tids themselves are left out.
AllocateTid ==
  /\ Running("tid")
  /\ sema_up(tid_lock)
  /\ pc' = [pc EXCEPT ![current] = "unblock"]
  /\ UNCHANGED <<priority, sleep, want, args, context>>

UnblockChild ==
  /\ Running("unblock")
  /\ thread_unblock(args[current].thread)
  /\ pc' = [pc EXCEPT ![current] = "preempt"]
  /\ UNCHANGED <<current, thread_ticks, priority, sleep, waiters, value, want,
                 args, context>>

\* The comparison is with the argument PRIORITY: by now the child may have
\* aged, run or exited.
PreemptCheck ==
  /\ Running("preempt")
  /\ pc' = [pc EXCEPT ![current] =
              IF args[current].priority > priority[current] THEN "yield"
                                                                ELSE "run"]
  /\ args' = [args EXCEPT ![current] = NoArgs]
  /\ UNCHANGED <<sched, priority, sleep, waiters, value, want, context>>

-----------------------------------------------------------------------------
(***************************************************************************)
(* The alarm clock and the timer interrupt.  timer_interrupt() compares    *)
(* wakeup with ticks and nothing else reads them, so left holds their      *)
(* difference, not below 0.                                                *)
(***************************************************************************)

\* timer_sleep(n) reads the clock with interrupts on ...
TimerSleepStart(n) ==
  /\ Running("run")
  /\ left' = [left EXCEPT ![current] = IF n > 0 THEN n ELSE 0]
  /\ pc' = [pc EXCEPT ![current] = "sleep"]
  /\ UNCHANGED <<sched, priority, sleep_list, waiters, value, want, args,
                 context>>

\* ... and any number of ticks later disables them, and blocks.
TimerSleepBlock ==
  /\ Running("sleep")
  /\ sleep_list' = Append(sleep_list, current)
  /\ pc' = [pc EXCEPT ![current] = "run"]
  /\ thread_block(status)
  /\ UNCHANGED <<priority, left, waiters, value, want, args, context>>

\* An interrupt ends the idle thread's hlt.
EndHlt == pc' = IF current = idle_thread
                  THEN [pc EXCEPT ![idle_thread] = "loop"] ELSE pc

\* timer_interrupt() up to its loop: ticks++.
TimerInterrupt ==
  /\ IntrOn
  /\ left' = [t \in AllThreads |-> IF left[t] > 0 THEN left[t] - 1 ELSE 0]
  /\ context' = "timer"
  /\ EndHlt
  /\ UNCHANGED <<sched, priority, sleep_list, waiters, value, want, args>>

\* The loop stops at the first sleeper that is not due, as if the list were
\* kept sorted by wakeup time.
Expired_Front == {i \in 1..Len(sleep_list) : i = 1 /\ left[sleep_list[i]] = 0}

\* The sleepers whose wakeup is not greater than ticks.
Expired == {i \in 1..Len(sleep_list) : left[sleep_list[i]] = 0}

\* One round of the loop of timer_interrupt() that finds an expired sleeper.
WakeSleeper ==
  /\ context = "timer"
  /\ Expired # {}
  /\ sleep_list' = RemoveAt(sleep_list, Min(Expired))
  /\ thread_unblock(sleep_list[Min(Expired)])
  /\ UNCHANGED <<current, thread_ticks, priority, left, waiters, value, pc, want,
                 args, context>>

Clamp(p) == IF p < PRI_MIN THEN PRI_MIN ELSE IF p > PRI_MAX THEN PRI_MAX ELSE p

\* Only the thread at the back of the run queue ages.
update_aging_back ==
  [t \in AllThreads |-> IF ready_list # <<>> /\ t = ready_list[Len(ready_list)]
                          THEN Clamp(priority[t] + 1) ELSE priority[t]]

\* update_aging(): every thread of the run queue gains a level.
update_aging ==
  [t \in AllThreads |-> IF t \in Members(ready_list)
                          THEN Clamp(priority[t] + 1) ELSE priority[t]]

\* thread_tick(), at the end of timer_interrupt(), and the thread_yield() of
\* intr_handler() when thread_tick() has asked for it.
ThreadTick ==
  /\ context = "timer"
  /\ Expired = {}
  /\ context' = "thread"
  /\ priority' = update_aging
  /\ IF thread_ticks + 1 >= TIME_SLICE
       THEN thread_yield(ready_list, priority')
       ELSE /\ thread_ticks' = thread_ticks + 1
            /\ UNCHANGED <<current, status, ready_list>>
  /\ UNCHANGED <<sleep, waiters, value, pc, want, args>>

\* The interrupt handler of a device, which ups the semaphore that a thread
\* waits on for completion, as devices/ide.c does.
DeviceInterrupt(s) ==
  /\ IntrOn
  /\ value[s] < MaxValue
  /\ sema_up(s)
  /\ EndHlt
  /\ UNCHANGED <<priority, sleep, want, args, context>>

-----------------------------------------------------------------------------
ClientSemas == Semas \ {tid_lock}

\* What a thread may call.
Call ==
  \/ Running("run") /\ ThreadYield
  \/ \E p \in Priorities : ThreadSetPriority(p)
  \/ ThreadExit
  \/ \E s \in ClientSemas : SemaDown(s) \/ SemaTryDown(s) \/ SemaUp(s)
  \/ \E t \in Threads, p \in Priorities : ThreadCreate(t, p)
  \/ \E n \in SleepTicks : TimerSleepStart(n)

\* A thread goes on with a call it has made.
Continue ==
  \/ SemaDownResume
  \/ AllocateTid
  \/ UnblockChild
  \/ PreemptCheck
  \/ StorePriority
  \/ Running("yield") /\ ThreadYield
  \/ TimerSleepBlock
  \/ IdleLoop

Interrupt ==
  \/ TimerInterrupt
  \/ WakeSleeper
  \/ ThreadTick
  \/ \E s \in DeviceSemas : DeviceInterrupt(s)

Next == Call \/ Continue \/ Interrupt

Spec == Init /\ [][Next]_vars
=============================================================================
