# A verification project for the kernel and the servers of this repository

The repository is a collection of course work. The program with the most logic
of its own is the Pintos kernel of `2024_2nd/CSE4070/Project_04`, which a
student has extended with a priority scheduler, an alarm clock, processes and
system calls; next come the concurrent programs of `2024_1st/CSE4100` (stock
servers, a shell, a memory allocator). This directory holds TLA+ models of the
concurrent core of that code and of the sequential parts with the most state, TLC runs that check them on small instances, and
proofs that TLAPS checks for instances of any size.

Paths below are relative to `src/2024_2nd/CSE4070/Project_04/` unless they
begin with another directory of `src/`.

## 1. Inventory

| Component | State | Operations | Interacts with |
| --- | --- | --- | --- |
| Scheduler (`threads/thread.c`) | run queue `ready_list`, `status`, `priority`, `elem` of each thread, `thread_ticks` | create, block, unblock, yield, exit, set_priority, tick, aging | semaphores and the timer put threads on and take them off the run queue |
| Semaphores (`threads/synch.c`) | `value`, `waiters` | down, try_down, up | every other component; interrupt handlers call up |
| Alarm clock (`devices/timer.c`) | `sleep_list`, `ticks`, `wakeup` | `timer_sleep`, the timer interrupt | the scheduler's block and unblock, the same `elem` |
| Locks and conditions (`threads/synch.c`) | `holder`, the lock's semaphore, `waiters` of a condition | acquire, try_acquire, release, wait, signal, broadcast | built from semaphores |
| Processes (`userprog/process.c`, `syscall.c`, `exception.c`) | `child_list`, `exit_status`, `file_lock`, `child_lock`, `mem_lock`, `fd` | exec, wait, exit, kill, load | three semaphores per child, threads' pages |
| Files (`userprog/syscall.c`, `filesys/file.c`, `inode.c`) | descriptors 2..127, the executable in slot 128, `file_lock`, the counts of each inode | create, remove, open, close, read, write, seek, tell | processes copy the table, the file system below |
| Page faults (`userprog/exception.c`) | user stack | stack growth, exit(-1) | processes |
| MLFQS (`threads/thread.c`) | `nice`, `recent_cpu`, `load_avg` | per tick, per second, every fourth tick | scheduler |
| Allocators (`threads/palloc.c`, `malloc.c`) | page bitmaps, free lists | get, free | locks |
| File system (`filesys/`) | list of open inodes, directories, free map | unmodified base code | files, block devices |
| Devices (`devices/`) | ring buffer `intq`, hardware registers | interrupt handlers | semaphores |
| Stock server, threads (`2024_1st/CSE4100/Project_03/task_2`) | bounded buffer, stock tree, `readcnt`, `client_cnt` | accept, show, buy, sell, exit, save | one acceptor, 128 workers, signals |
| Stock server, events (`.../task_1`) | pool of descriptors, `nready`, `client_cnt`, stock tree, `stock.txt` | select loop, accept, requests, save | clients, SIGINT |
| Shell (`2024_1st/CSE4100/Project_02/phase3`) | job list | pipes, fg, bg, jobs, kill | SIGCHLD, SIGINT, SIGTSTP handlers |
| Memory allocator (`2024_1st/CSE4100/Project_04/mm.c`) | heap of tagged blocks, `last_bp` | malloc, free, realloc | none |

What is hard, and what makes each part correct:

* *Scheduler.* A thread can lose the CPU between any two sections that run
  with interrupts off. Aging changes the key of a list that is never sorted
  again; one list element is shared by three kinds of list. Correct means: the
  queues stay sorted and disjoint, the CPU always goes to the highest ready
  thread, nobody starves.
* *Semaphores.* A woken thread must test again, because another one may take
  the unit first. Correct means: they implement "a nonnegative integer with
  two atomic operators", and no thread sleeps beside a unit nobody is on the
  way to fetch.
* *Alarm clock.* The clock is read, and the wake-up time computed, before
  interrupts are disabled. Correct means: nobody wakes early, nobody is missed.
* *Locks and conditions.* `cond_wait()` joins a list, releases the lock and
  blocks in separate steps; `holder` is written with interrupts on. Correct
  means: together they are an atomic Mesa monitor.
* *Processes.* Parent and child keep pointers to each other's pages and free
  them by agreement through semaphores; either may run first, exit early, be
  killed, or fail to load. Correct means: no pointer dangles, each status is
  handed over once, `exec` and `wait` return.
* *Files.* Two counts per inode decide when its memory and its sectors are
  freed and whether it may be written; files are opened, inherited, closed and
  leaked by several processes, mostly without the lock. Correct means: counts
  never fall short, a sector has one inode, a program is not written while it
  runs. The code keeps the last two only in part; section 3 says which part.
* *Stock server, threads.* Three semaphores pass connections from one acceptor to the
  workers; three more variables let readers share a tree that writers change;
  an unsynchronised counter decides when the tree is saved. Correct means: no
  connection is lost or served twice, every answer is right for the table at
  one moment of the request, the locks never leave everyone waiting, and the
  file holds the table when the server is quiet or has been stopped.
* *Stock server, events.* Five variables describe the same set of clients, and
  the scan of a round stops by counting. Correct means: they agree, every ready
  client has its turn, nobody starves, and the file is saved.
* *Shell.* A signal handler and the main loop both collect children; one signal
  stands for several. Correct means: no change of a child is lost, the prompt
  comes back when the foreground program has ended or stopped, and at no other
  time unless an earlier program was left behind in the shell's group.
* *Memory allocator.* Sizes are stored twice, in front of and behind every
  block, and a rover remembers where the last search ended. Correct means: the
  blocks tile the heap, nobody's space overlaps another's, free space is merged
  and used before the heap grows.

## 2. Modules

| Module | What it is |
| --- | --- |
| `KernelList` | the operations of `lib/kernel/list.c` that the kernel uses, on sequences of threads |
| `Semaphore` | abstract specification of semaphores, from the comments of `synch.c` |
| `Threads` | scheduler, semaphores and alarm clock on one CPU |
| `ThreadsProps` | what `Threads` must do; the refinement of `Semaphore` |
| `ThreadsProofs` | lemmas on lists; the inductive invariant of `Threads`; the theorems |
| `Monitor` | abstract specification of a lock with conditions |
| `Locks`, `LocksProps`, `LocksProofs` | locks and conditions over semaphores, their properties, the refinement of `Monitor` |
| `Processes`, `ProcessesProps`, `ProcessesProofs` | exec, wait and exit, their properties and proofs |
| `Fifo` | abstract specification of the buffer between the acceptor and the workers |
| `Sbuf`, `SbufProps`, `SbufProofs` | the buffer, `main()` and the workers around it; properties; proofs and the refinement of `Fifo` |
| `StockTable` | abstract specification of the requests: each takes one step |
| `StockServer`, `StockServerProps`, `StockServerProofs` | `stock_server()` and its readers-writers lock; properties; proofs and the refinement of `StockTable` |
| `StockSession`, `StockSessionProps`, `StockSessionProofs` | the count of clients, saving `stock.txt`, SIGINT, the end and the restart of the same server; properties; proofs |
| `EventServer`, `EventServerProps` | the event-driven server with its clients |
| `Shell`, `ShellProps` | the shell's main loop, its children and its SIGCHLD handler |
| `Allocator`, `AllocatorProps` | the heap of `mm.c` |
| `ProgramProofs` | proofs about `EventServer`, `Shell` and `Allocator`, the three programs that share nothing with another module |
| `Files`, `FilesProps`, `FilesProofs` | descriptors, inodes, directory entries and the denial of writes; properties; proofs |
| `MCThreads`, `MCLocks`, `MCProcesses`, `MCSbuf`, `MCStockServer`, `MCStockSession`, `MCEventServer`, `MCShell`, `MCAllocator`, `MCFiles` | instances for TLC |

They compose by layers. `Threads` shows that the semaphores of `synch.c`, with
their waiter lists and the scheduler under them, implement `Semaphore`.
`Locks` and `Processes` use semaphores as `Semaphore` describes them: a down is
an action that is enabled when the value is positive, an up adds one. The stock
server runs on another system and uses that system's semaphores, which are
modelled the same way; its worker loop is split between `Sbuf`, where a client
is one step from `sbuf_remove()` to `Close()`, and `StockServer`, where
`Connect` and `Leave` stand for the two ends of that step. `StockSession` uses
what those two implement: a connection comes to a worker as `Fifo` says and a
trade is one step, as `StockTable` says. `Files` takes exec and exit as
`Processes` orders them and keeps only what touches files. Each
variant definition (`sema_up_silent`, `Die_Leak`, ...) is a plausible mistake
placed next to the definition it would replace; no specification uses it, it
is there to see that a property notices the mistake.

### Threads

The state is the state of the code: `current`, `status`, `priority`,
`ready_list`, `sleep_list`, `waiters`, `value`, `thread_ticks`, and for every
thread a `pc` that says between which two interrupts-off sections it is. A
section that runs with interrupts off is one action, the switch to the next
thread included. `left` is `wakeup - ticks`, so that the clock does not have
to be unbounded. A thread is named by the page that holds its `struct thread`,
and a page is used again after an exit.

| Action | Code |
| --- | --- |
| `ThreadYield`, `ThreadExit`, `ThreadSetPriority`, `StorePriority` | `thread.c` 305-341, 465-487 |
| `ThreadCreate`, `AllocateTid`, `UnblockChild`, `PreemptCheck` | `thread_create()` 193-245, with the lock in `allocate_tid()` |
| `SemaDown`, `SemaDownResume`, `SemaTryDown`, `SemaUp` | `synch.c` 60-145 |
| `TimerSleepStart`, `TimerSleepBlock` | `timer.c` 92-111, split where interrupts are still on |
| `TimerInterrupt`, `WakeSleeper`, `ThreadTick` | `timer.c` 183-201, `thread_tick()` with aging |
| `EndHlt`, `IdleLoop` | the idle thread |
| `DeviceInterrupt` | an interrupt handler that calls `sema_up()`, such as the one of `ide.c` |

### Locks

One lock and its conditions. Only the semaphore operations are atomic; the
writes of `holder` (`SetHolder`, `LockRelease`), the change of the waiter list
(`CondWait`, `pop_front`) and the operations on the semaphores (`AcquireDown`,
`ReleaseUp`, `WaitDown`, `SignalUp`) are steps between which any other thread
runs. The callers obey the rules the code asserts.

### Processes

`Procs` are pages; a process is the page of its thread. `Exec`, `ExecLoaded`,
`CopyFd`, `ExecCheck` and the wait inside it are the stages of
`process_execute()`, `LoadSucceeds` and `LoadFails` those of
`start_process()`, `Wait`, `ChildExited` and `Reap` those of
`process_wait()`; `Exit`, `ExitMinusOne` (a bad pointer or page fault),
`Kill`, `ProcessExit` and `Die` end a process. Descriptors are copied one per
step, because the child runs meanwhile. A file is named by the process that
opened it. `fate` is a history variable: how the process ended.

### Sbuf

From `2024_1st/CSE4100/Project_03/task_2/stockserver.c`: `main()` (77-84),
`sbuf_insert()` and `sbuf_remove()` (92-120) and the loop of `thread()`
(226-235). Every `P`, every `V` and every access to the ring is a step:
`InsertSlots`, `InsertLock`, `InsertStore`, `InsertUnlock`, `InsertItems` for
`main()`, `RemoveItems`, `RemoveLock`, `RemoveLoad`, `RemoveTake`,
`RemoveUnlock`, `RemoveSlots` and `Close` for a worker. `front` and `rear`
only grow and are taken modulo `SBUFSIZE`; in the code they are ints, here
`MAX_ACCEPT` bounds how many clients come, so their overflow is not modelled. `Accept` hands out the lowest free descriptor, as the
kernel does, so a descriptor comes back while others are in use, and a test on
descriptors alone cannot tell one connection from the next. There is always a
free one.

In `Fifo` a queue of at most `SBUFSIZE` connections, each owned by at most one
worker, is the whole state; the refinement maps the ring, the two indices and
what is in the hands of the threads to it.

### StockServer

`stock_server()` of the same file (122-217) with the functions it calls:
`init_stock_server()` under `pthread_once()` (`Connect`), `show_tree()`
(`ScanNode`, one node a step), `find_node()` (`FindNode`, `FindNone`), and
`P`, `V`, `Rio_readlineb()` and `Rio_writen()` of `csapp.c`. show goes through
`EnterLock`, `EnterCount`, `EnterFirst`, `EnterUnlock`, the scan, `LeaveLock`,
`LeaveCount`, `LeaveLast`, `LeaveUnlock` and `SendShow`; buy and sell through
`WriteLock`, `FindNode`, `Update`, `SendAnswer` and `WriteUnlock`. A request
for an unknown stock, and an answer that cannot be written, end the process
(`FindNone`, `Fail`).

Left out: prices, which do not change; the text of requests and answers; lines
that are no request, which the server ignores; amounts below one, which
`multiclient.c` never sends. `stock.txt` is read into `Initial`; `StockSession`
saves it. `StockTable` knows only the table, the requests
and the answers; a show takes effect at the end of its scan, a trade when the
node is written.

### StockSession

The same file again: `client_cnt++` (135) and `client_cnt--` with the test
(220-223) are a load and a store each, `Load`, `StoreInc`, `StoreDec`; the test
uses the value just stored, as the build (`-O2`) does. `write_stock()` is `Open`,
which empties the file, one `PrintNode` per stock without any lock, and `Close`.
A worker whose client was the last calls it, and so does `Sigint`. `exit()`, in
the handler (`HandlerExits`) or for an unknown stock or a failing connection
(`SessionFails`), may come while another thread is between `fopen()` and
`fclose()`; `Flushed` is what the C library may then leave in the file.
`Restart` reads it. SIGINT comes once; a second one, which another thread than
`main()` could take, is not modelled. Of a count only a version is kept, which every trade raises,
so that an older table is told from a newer one. The history variables
`trouble`, `damaged` and `atSignal` name the accidents: two updates of
`client_cnt` at once, two saves at once, a failing `fopen()`, an exit during a
save. The properties say that nothing but these accidents can hurt, and the
variables are exactly the conditions under which the code gives no guarantee.

### EventServer

`task_1/stockserver.c`: `Select`, `Accept`, `AcceptFails`, `NoAccept` for the
main loop (61-75), then one step per slot of `check_clients()` (126-213):
`NotReady`, `Show`, `Buy`, `Sell`, `Other`, `Exit`, `EndOfFile`, `Fails`, and
`EndOfRound`. `add_client()`, `init_pool()` and `print_tree()` keep their names;
`Open` is the `fopen()` of `write_stock()`. `sigint_handler` empties the file,
wherever the loop is, in its own `write_stock()` too, and `HandlerExits` writes
and exits. `backlog` is the kernel's queue of connections, first in, first out.
`Rest` is what the copy of the `rio_t` (133) leaves of the lines that arrived
together: nothing. The clients are those of the repository, `multiclient.c` and
`stockclient.c`, which wait for an answer before they send again (`Send`,
`Close`). They may be killed before or after a request (`Killed`); the request
is still carried out, and then or instead the server sees the end of the file
or an error. With a client that does not wait, `Answered` fails, which is what
its mutant shows. Lines that are no request get no answer. One stock stands for
the tree.

### Shell

`phase3/myshell.c`. `Fork`, `Parent`, `Call` and `WaitReturns` are the stages of
`eval()` (139-208) in the shell, `Setpgid`, `Exec`, `ChildExit`, `Stop` and `Continue` those of a
child, `HandlerStart`, `HandlerReaps` and `HandlerReturns` those of
`child_handler()`. Two facts of the code shape the model. Line 147, `pid =
Fork() == 0`, leaves 0 in the shell's `pid`: `create_job()` returns at once,
the job table stays empty, and `waitpid()` waits for any child of the shell's
group. And `set_signal()` fills a copy of the mask, so line 179 unblocks an
uninitialised set: `Parent` leaves SIGCHLD blocked or not, and both are
checked. When it is not blocked, the handler may take the foreground child away
and `waitpid()` then fails, which ends the shell.

A child may be stopped, continued and killed by others at any time. Because
`waitpid()` asks for the whole group, a program that stopped in the foreground
stays a child that the shell can be woken by: killed, or continued and ended,
later, it brings the prompt back while another foreground program runs. The
history variable `strays` names these programs, a background child that is
killed before it has left the group (156), and the programs that are left
running by one of them (`LeftBehind`). Two restrictions on the environment:
nobody sends SIGSTOP to a child that has not yet called `execve()`, and a
program stays in the process group in which it was started.

### Allocator

`mm.c`, in words instead of bytes. `coalesce`, `extend_heap`, `place`,
`find_fit`, `mm_malloc`, `mm_free` and `mm_realloc` keep their names and work
on an array of tags; a client overwrites its whole block at once, so a tag that
the code wrongly takes from a client's data is seen. `mm_realloc()` corrupts the
heap in two ways: it extends the heap and grows a block over its neighbours
although the new space does not follow it (272), and it takes in the free block
that `last_bp` points to, so that the next search starts inside a client's
data. The model stops at either (`Astray`, `intact`).

### Files

Descriptors, files, inodes, the entries of the root directory and the free map.
Only `open()`, `read()` and `write()` take `file_lock`, and a timer interrupt or
the wait for the disk lets the other calls in at any point of any call. So each
call is split where it has looked at something that it uses later:

| Call | Steps |
| --- | --- |
| `inode_open()`, in `exec`, `load`, `open`, `remove` | `Lookup` (the directory entry), `inode_search` (the list), `inode_insert` (`malloc`, the new inode is on the list), then the counter, in the step of the caller |
| `inode_close()` | `file_close` up to the test of the count, `Closed` for the last opener |
| `filesys_create()` | `create` (scan of the free map), `Marked`, `dir_add` (or `NotAdded`), `Added` |
| `dir_remove()` | `remove`, `Removing`, `Erased`, `inode_remove`, `Closed` |
| `write()` | `write` up to the test of `deny_write_cnt`, `Written` |
| `process_execute()`, `load()` | `exec`, `Created`, `Inherit`; `load`, `Loading`, `Deny` |

Two inodes of one sector, two entries with one name or one sector, and a sector
marked free while it is in use are therefore states of the model, as they are
states of the code. The model stops (`Breaks`, `intact`) when a call goes on to
use an inode that was freed meanwhile, frees one that was opened again, or
releases a sector that is free, where the kernel panics or the memory is gone.

`struct thread` has `cur_file` behind `fd[128]`, and the system calls admit
descriptor 128, which is `EXE`. `OpenAs`: the thread has the name of the command
line, so that a program opens its own file with writes denied only if it was
started without arguments. One step are: a scan of the directory, the copying of the
descriptors (with the bounds of the run there is one to copy), and the decrement
of `file_close()` with the clearing of the descriptor; so a descriptor that a
parent stores between the two, and the code then clears, is not lost in the
model. The root directory's own inode, data, positions and the sectors
behind an inode are left out. `unlocked` and `late` are history variables: the
inodes that a call without `file_lock` has made, and the programs that denied
writing when a write was past its test.

## 3. What the runs check

Each run checks a handful of properties; some are the conjunction of named
parts of one idea, which the `...Props` modules keep apart (`ListsRight` is the
type invariant, `ElemInOneList`, `ListsSorted` and `IdleOnlyWhenNothingReady`),
and the proofs are of the parts.

| Run | Bounds | Shows |
| --- | --- | --- |
| `threads` | main and two created threads, two semaphores, priorities 0..2, a device interrupt, sleeps, values up to 2 | lists sorted and disjoint, no lost wake-up, idle only when nothing is ready, switch to the highest, nobody wakes early or oversleeps, semaphores implement `Semaphore` |
| `threads_live` | time slice 1, sleeps of 1 tick, no device | every ready thread and every sleeper runs |
| `locks` | four threads, two conditions | assertions on `holder`, accounting of signals, refinement of `Monitor`; signaled threads leave, broadcasts reach everyone, a free lock is taken |
| `processes` | initial process and two pages, last descriptor 2, exit statuses -1 and 0 | no dangling child, one parent, exit handshake, only the dead are reaped; `exec` and `wait` return, reaped pages are freed |
| `sbuf` | three workers, two slots, five connections, descriptors 4..9 | slots and items agree with the buffer, nothing is lost or served twice (`FifoSpec`); unless every worker is busy, connections leave the buffer and `main()` gets back to `accept()` |
| `stock` | three workers, two stocks, a third id that is unknown, amounts of 1 | the readers-writers lock, every answer right for the table at one moment (`TableSpec`), the locks never leave everyone waiting |
| `stock_session` | two workers and the handler, two stocks, two trades of each, `client_cnt` off by at most 2 | the count of clients, the file when the server is quiet, after SIGINT and over restarts, each up to the accidents that can spoil it |
| `event` | two clients, two slots, one stock with counts 0 and 1 | the pool agrees with itself, a round is complete, the file when nobody is connected and after SIGINT; answers and accepts come |
| `shell` | four children, a job table of two | prompt and foreground program, no change of a child lost, the wait succeeds and ends; children are stopped, continued and killed from outside |
| `allocator` | 28 words, chunks of 6, a reserve of 2, requests of 1 and 5 words | blocks tile the heap, merged, disjoint; the rover; the heap grows only when nothing fits |
| `files` | three processes, two names, two entries, two sectors, three inodes, one descriptor besides the executable's, `open()`, `create()` and `remove()` called twice in all | the counts of inodes, which calls can make a second inode for a sector, no write to a running program that was tested after its denial |

Why the bounds are enough: three threads is the smallest number with a running
thread, a woken one and one that steals the unit; two created threads of the
same priority show the order among equals; the priorities 0..2 let a thread
age to the limit and another stay below it. Two pages below the initial
process give siblings, a grandchild and the reuse of a page while another
process still holds its old address; the theorems are for any number. Four threads on a lock give an owner, a
waiter on each condition and one that overtakes. Two slots and five connections
let both indices of the ring wrap while slots are full and while they are
empty; three workers let two race for a connection while the third holds one.
Three workers on the table are a reader, a writer that waits for it and
a second reader that comes meanwhile; two stocks are enough to tear a show.
Two workers lose an update of `client_cnt` and meet in `write_stock()`, the
handler is the third to save. Two clients are enough for a slot to be freed
below `maxi`, for a full pool and for a client that arrives in the round of
another. Four children are a foreground program, a background one, a stopped
one in the shell's group and one that ends unseen. 28 words hold up to six
blocks, so that both neighbours of a block are free or in use, the second loop
of next fit is needed, the heap grows twice and runs out; requests of 1 and 5
words give blocks that split and blocks that do not. Three processes are
a parent, a child that inherits and a third that writes to their program, and
two of them can be in the same call at once; two entries and sectors are enough
for two `create()` to collide and for a removed file to be replaced while it is
open, and a third inode for a second one of its sector. Two calls in all are
enough for each pair of calls to meet; `exec`, `close` and `exit` are not
counted.

Aging stops at `PRI_MAX` and times are relative, so the only artificial bounds
in guards are `MaxValue` of `Threads`, `MAX_ACCEPT` of `Sbuf`, `MAX_COUNT` of
`StockServer` and `EventServer` (a client does not sell beyond it),
`MAX_VERSION` and `MAX_DRIFT` of `StockSession` and `MAX_CALLS` of `Files`.

The proofs do not depend on the size of an instance, and hold whatever the
value of these bounds is.

### Where the code differs from what it, or its tests, say

One of these differences has a run whose property is violated:
`processes_ExecReportsFailure`. `tests/userprog/no-vm/multi-oom.c` says that
`exec()` returns -1 if a process does not get to start; the child ups
`file_lock` before it stores its status, so the parent may return the tid.

The others can be read in the models, without a run:

* the yield at the end of `sema_up()` is commented out, so a woken thread of
  higher priority does not run at once, as `priority-sema.ck` expects;
* `cond_signal()` wakes the waiter that came first, and `priority-condvar.c`
  expects the one of highest priority;
* a parent that copies its descriptors late stores files into a child that has
  been through `process_exit()`, or over files the child has opened, and nobody
  closes those (`Inherit` of `Files`, `CopyFd` of `Processes`);
* `wait()` returns 0 for a process killed by an exception, where the comment of
  `process_wait()` says -1;
* `close(128)` closes the executable of the process, after which others may
  write it; a page fault in `read()` or `write()` ends the process with
  `file_lock` held; `process_execute()` never closes the file it opens to see
  whether it exists;
* `exec`, `load` and `remove` search the list of open inodes without a lock, so
  that one sector can get two inodes, where `inode.c:56-57` says that opening an
  inode twice returns the same one. What is left of it is `OpensShareInode`:
  calls of `open()` alone, which hold `file_lock`, never do that;
* `load()` denies writing without a lock, so that a `write()` that has passed the
  test of `deny_write_cnt` still reaches the file while the program runs; any
  later one does not (`ExecutableProtected`);
* the shell "waits for foreground job to terminate" (`myshell.c:183`) with
  `waitpid(0, ...)`, which also reports a program stopped earlier: the prompt
  comes back while the foreground program runs. `PromptAfterForeground` says
  that only such a stray does that;
* `jobs`, `fg`, `bg` and `kill` of the shell never find a job (line 147);
* `mm_realloc()` corrupts the heap in the two cases described above;
* `timer_sleep(0)` blocks until the next tick, `exec` returns -1 for a child
  that has already exited with -1, and a process whose parent never waits for
  it is never freed.

### Fairness

`Threads`: the timer keeps interrupting and the running thread keeps taking
its next step inside the kernel; this is what hardware does. User code may
compute for ever, so leaving it is never assumed, and preemption is what the
liveness properties rest on. `Locks` and `Processes`: weak fairness of the
steps of each thread that is inside a kernel function, which the liveness
properties of `Threads` justify; nothing makes a thread call, release a lock
or signal. `Sbuf`: weak fairness of `main()` inside `sbuf_insert()` and of each
worker inside `sbuf_remove()`; nobody has to connect, and a client that has
connected may stay for ever, which is why `ConnectionsLeave` and `AcceptResumes`
allow for a moment at which every worker has a client. `StockServer`: weak fairness of each worker
inside a request, writing the answer included, so clients read what they
are sent; nobody has to connect or to ask. `EventServer`: weak fairness of the
server's loop as a whole, which never waits but in `select()`; nothing of the
clients, who may stop anywhere. `Shell`: weak fairness of the main loop and of
the handler, which the kernel schedules; nothing of the children, so `WaitEnds`
starts when one has ended or stopped, and allows for a stop that is undone
before `waitpid()` has seen it. `StockSession`, `Allocator` and `Files`
have safety properties only.

Strong fairness is assumed of the timer interrupt only, whose request stays
pending while interrupts are off. So no property says that a particular thread
in `lock_acquire()` gets the lock, that a particular worker at a semaphore of
the buffer gets a connection, or that a particular buyer gets `w` although
readers keep coming: each can be overtaken for ever. `LockProgress` and
`ConnectionsLeave` are about the system as a whole.

`CHECK_DEADLOCK FALSE` is set for `Locks`, where all threads may wait for a
signal that nobody is left to send, for `Processes`, where the machine stops
when the initial process has died of the null pointer, for `Sbuf`, where no
more clients come after `MAX_ACCEPT`, and for `StockServer`, where the server
may have called `exit()`. `StockSession` ends with a garbled file or with all
trades made, `Shell` when it has exited, `Allocator` when nothing can be given
and nothing is held or the heap is corrupt, `Files` when all processes are dead.
`Threads` and `EventServer` are checked for deadlock.

## 4. What is proved

All proofs are of the full specification (`Spec`; `ShellSpec`, `HeapSpec`), for any finite set of threads
or processes, any semaphores and any parameters that satisfy the named
assumption of the module.

* `ThreadsProofs`. The inductive invariant says, for every thread, what its
  status, its place and its pending call imply about the one list it is linked
  into, that every list is sorted and without repetition, and what is true of
  the idle thread. It is needed because sortedness alone is not inductive:
  aging keeps the run queue sorted only if it raises every thread on it, and
  an insertion keeps the lists disjoint only if the thread was on none. From it:
  `TypeOK`, `ElemInOneList`, `ListsSorted`, `IdleOnlyWhenNothingReady`, which
  make up `ListsRight`, then `NoLostWakeup`, `SwitchToHighest`, `NoEarlyWakeup`
  and `NoOversleep` (`SleepersWakeOnTime`) and the refinement of `Semaphore`.
* `LocksProofs`. The inductive invariant adds to the properties the owner of
  the unit of the lock's semaphore (`OneOwner`) and what the locals hold at
  each place (`LocalsRight`); a thread that is popped from a waiter list
  has released the lock because the one who pops it owns it. From it: `TypeOK`,
  `HolderIsRight`, `SignalsAccounted` (together `LockRight`) and the refinement of `Monitor`.
* `ProcessesProofs`. The inductive invariant is the conjunction of the checked
  properties and `RootStays`: the exit handshake is what keeps pages alive, and
  that pages stay alive is what keeps the handshake between the right two
  processes. From it: `TypeOK`, `NoDanglingChild` and `OneParent` (together
  `FamilyRight`), `ExitHandshake`, `ReapedAfterExit`.

* `SbufProofs`. The inductive invariant has three parts: the mutex excludes
  (`Exclusion`), the semaphores account for the slots and for every thread
  that is between a `P` and the matching `V`, and the ring holds what was
  inserted and not taken (`Full`, `InHand`), which needs a lemma on indices
  modulo `SBUFSIZE`. From it: `TypeOK` and `SlotsAccounted` (`BufferRight`) and the refinement of
  `Fifo`.
* `StockServerProofs`. The inductive invariant says who is inside `mutex`
  (`MutexInv`), what `readcnt` counts and that the first and the last reader
  are alone when they ask for `w` (`ReadersInv`), who holds `w` (`WriteInv`),
  and that what a worker has read of the table is still what the table holds
  (`Local`). The last part is the one the answers depend on; it is stable
  because a writer excludes the scans and the other writers, which is what
  the first three are for. From it: `TypeOK` and `LockInvariant` (`LocksRight`) and the
  refinement of `StockTable`.

* `StockSessionProofs`, for any finite number of workers and any stocks. The
  inductive invariant says: without a race the value that a worker has loaded
  is still that of the counter when it stores (`CountInv`); a save that no
  accident has met is alone and the file is empty meanwhile (`OneSaver`);
  without damage the tree, and a file that nobody writes, have all the stocks
  (`Undamaged`); when no worker is left that has still to save, the file is
  right, or a save that has missed no trade is on its way (`LastSaves`); and
  from the signal on, what is printed lies between the table at the signal and
  the table of the moment (`SigintInv`). A save prints one node at a time while
  others trade, so the last two speak of the nodes printed so far. From it:
  `CountRight`, `SavedWhenQuiet`, `SigintSaves`, `StocksStay`.
* `ProgramProofs`, the event-driven server, for any finite set of clients and
  any size of the pool. `PoolRight` is not inductive: it holds after a client
  has left because a descriptor has one slot only (`PoolInv`), and the scan may
  stop at `nready = 0` because `nready` is the number of ready descriptors in
  the slots not yet visited (`RoundInv`). `ConnInv` says where the descriptors
  of the connected clients are, `FileInv` what `stock.txt` holds at each place,
  `SellsFit` that a client sells within the bound of the model. From it:
  `PoolRight`, `RoundComplete`, `FileSaved`.
* `ProgramProofs`, the shell, for any set of processes. The inductive invariant
  says, of the children that are not strays, that at most one is in the foreground
  and none at the prompt (`OneForeground`) and that a background child does
  nothing before it has left the shell's group (`LeavesFirst`). It says further
  that SIGCHLD, while it is blocked,
  keeps the foreground child for `waitpid()` (`BlockedKeepsChild`), and that an
  unreported change is announced by a pending signal or by the handler at work
  (`Announced`). From it: `PromptAfterForeground`, `HandlerDrains` and the
  action property `BlockedWaitSucceeds`.
* `FilesProofs`, for any finite sets of processes and inodes, any names, entries
  and sectors and any number of descriptors. What has to be inductive is the
  counting: `CountInv` bounds the counters of an inode by the descriptors that
  name it, those that deny writes and those that do not apart, because closing
  a file lowers `deny_write_cnt` or not as its own flag says, and by the
  processes in `dir_remove()`, which hold a count without a descriptor; a lemma
  says what one change of one descriptor does to these numbers. `LocalsInv` says
  what a call has found at each place and that a child has one parent, `LockInv`
  who holds `file_lock`. `ShareInv` is `OpensShareInode` with two facts it needs
  to be kept: an inode whose counter is not yet set has one maker (`RawInv`), and
  when a call under the lock has found no inode of its sector, any that has
  appeared since was made without the lock (`AloneInv`). `ExeInv` says that a
  loaded program's file denies writes, so that its inode's `deny_write_cnt` is
  above zero; a write in progress has seen it at zero, so the denial came later.
  From the invariant: `CountsRight`, `OpensShareInode`, `ExecutableProtected`.
* `ProgramProofs`, the allocator, for any size of the heap, any chunk and
  reserve and any set of requests. `Blocks` is what a recursive walk over the
  heap finds, which says little while the heap changes under it. The invariant (`HeapInv`) therefore speaks of a set of addresses:
  `Tiles` says that every block begins where the one before ends, from the
  prologue to the epilogue, `Tagged` what the tags are, `Merged` that no two
  free blocks are neighbours, `Sound` adds the clients and the rover.
  `WalkFinds` shows that a set with these properties is the one that the walk
  finds, by the greatest address where the two would differ; `FindsFit` shows
  in the same way that the two loops of `find_fit()` see every block of it.
  Each writer of tags then has a lemma that gives the new set: `MergeWorks`
  (blocks become one, which `coalesce()` and `mm_realloc()` do),
  `SplitWorks` (`place()`), `ExtendWorks` (`extend_heap()`) and `Payload` (a
  client writes into its block, which no tag notices). `HeapRight` and
  `Served` are this invariant read through `WalkFinds`. `Merged` is needed for
  them and not only a part of `HeapRight`: `place()` leaves a free remainder
  behind the block it fills, which is not next to another free block only
  because the free block it comes from was not, and `mm_realloc()` takes in
  a free block without looking at the tags of the one behind it. `coalesce()`
  and `mm_malloc()` leave the rover at a block; `mm_realloc()` does not move it,
  and the block that grows over it is allocated (`RoverRight`). From it:
  `HeapRight`, `Served` and the action property `ExtendOnlyWhenFull`.

The assumptions on the constants are those that the code justifies: finite sets
of threads, processes, clients and inodes, sizes above zero, and markers
(`Garbled`, `None`, `NoThread`) that are not among the values they stand beside.
The allocator's chunk and reserve are even numbers of words and a chunk has at
least four (in `mm.c` they are 1024 and 32 words), so that an extension is a
whole block, and the heap has room for the chunk that `mm_init()` asks for.

A listed theorem is stated in the words of the property it proves, so each
proof module extends the `...Props` module it is about; `EventServer`, `Shell`
and `Allocator` have no name in common and share one. The lemmas on lists in
`LocksProofs` and `ProcessesProofs` are those of `ThreadsProofs`, which cannot
be extended there because its components are other ones.

Only model-checked: the liveness properties (`EveryoneRuns`, `CallsReturn`,
`WokenLeave`, `FreeLockIsTaken`, `ConnectionsLeave`, `AcceptResumes`,
`LockProgress`, `Answered`, `Accepted`, `WaitEnds`), because the prover handles
neither fairness nor `ENABLED`, and the violation. Every invariant, action
property and refinement that a passing run checks is also a theorem.

## 5. Not modelled, and the plan

What is left to do on the proofs is to make them easier to read: the lemmas on
lists are stated in three modules, and the lemmas about `coalesce()` and
`mm_realloc()` are long.

Not modelled, and why:

* The `-mlfqs` scheduler: `update_priority()` walks `all_list` through the wrong
  list element, so what it reads and overwrites depends on the layout of the
  pages in memory.
* Page tables, stack growth, loading of ELF files, the drivers: hardware state
  and pure I/O.
* `palloc.c`, `malloc.c`, `intq.c`, the layout of the file system on the disk:
  unmodified code of the base kernel, behind one lock or with interrupts off.
* Parsing and pipes of the shell; `phase1` and `phase2` are earlier stages of
  the same file.
* `Project_00` to `Project_03` of the kernel: earlier copies of the same files,
  most of them identical. They make up most of the repository's lines, which is
  why the share that the models cover is small.
* `csapp.c` and other vendored code, libraries, tests, examples, and the other
  courses: third-party code or small sequential exercises.
