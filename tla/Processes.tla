----------------------------- MODULE Processes -----------------------------
(***************************************************************************)
(* Processes of the Pintos kernel of 2024_2nd/CSE4070/Project_04: exec,    *)
(* wait and exit (userprog/process.c, syscall.c, exception.c), and the     *)
(* three semaphores of struct thread with which a parent and its child     *)
(* wait for each other.  The semaphores are those of module Semaphore,     *)
(* which the thread system implements: a down is an action that is enabled *)
(* when the value is positive.  Each has at most one thread waiting.       *)
(*                                                                         *)
(* A process is identified with the page of its struct thread.  wait(tid)  *)
(* takes one of the children the caller has now: tids are never reused,    *)
(* and any other tid returns -1 and changes nothing, like an exec() of a   *)
(* program that does not exist.                                            *)
(***************************************************************************)
EXTENDS KernelList, FiniteSets

CONSTANTS Procs,     \* the pages a struct thread can be in
          root,      \* the initial thread, which runs the command line
          Statuses,  \* the arguments of exit()
          MAX_FD,    \* the last file descriptor: 127
          NoFile, NoProc

ASSUME ProcessesAssumption ==
  /\ root \in Procs
  /\ IsFiniteSet(Procs)
  /\ NoProc \notin Procs /\ NoFile \notin Procs
  /\ Statuses \subseteq Int
  /\ MAX_FD \in Nat /\ MAX_FD >= 2

VARIABLES
  pc,           \* where each process is
  child_list,   \* struct thread: the children not yet waited for, oldest first
  child_thread, \* the local of process_execute() and process_wait()
  copying,      \* the local i of the loop that copies descriptors
  exit_status,  \* struct thread: exit_status, 0 in a new page
  file_lock,    \* semaphore: the child has loaded its program, or failed to
  child_lock,   \* semaphore: the child has exited
  mem_lock,     \* semaphore: the parent has read the child's exit status
  fd,           \* struct thread: fd; a file is named by the process that opened it
  fate          \* history: how the process ended

semas == <<file_lock, child_lock, mem_lock>>
vars  == <<pc, child_list, child_thread, copying, exit_status, file_lock,
           child_lock, mem_lock, fd, fate>>

FDs     == 2..MAX_FD
NoFiles == [i \in FDs |-> NoFile]

(***************************************************************************)
(* pc: "free" where the page holds no process; "load" from thread_create() *)
(* to the end of load(); "failed" when load() has failed; "run" in user    *)
(* code.  In process_execute(): "exec" at sema_down(file_lock), "copy" in  *)
(* the loop over the descriptors, "check" before the child's exit status   *)
(* is looked at, "execwait" and "execreap" in the process_wait() that      *)
(* follows.  In wait(): "wait" at sema_down(child_lock), "reap" after it.  *)
(* "fault" where the kernel has dereferenced a null child_thread, and      *)
(* page_fault() is about to exit(-1) for it.  "exit" on the way through    *)
(* process_exit(), "dead" at its sema_down(mem_lock).                      *)
(***************************************************************************)
PC == {"free", "load", "failed", "run", "exec", "copy", "check", "execwait",
       "execreap", "wait", "reap", "fault", "exit", "dead"}

Fates == {"alive", "not loaded", "exited", "killed"}

Init ==
  /\ pc = [p \in Procs |-> IF p = root THEN "run" ELSE "free"]
  /\ child_list = [p \in Procs |-> <<>>]
  /\ child_thread = [p \in Procs |-> NoProc]
  /\ copying = [p \in Procs |-> 2]
  /\ exit_status = [p \in Procs |-> 0]
  /\ file_lock = [p \in Procs |-> 0]
  /\ child_lock = [p \in Procs |-> 0]
  /\ mem_lock = [p \in Procs |-> 0]
  /\ fd = [p \in Procs |-> NoFiles]
  /\ fate = [p \in Procs |-> "alive"]

Goto(p, l) == pc' = [pc EXCEPT ![p] = l]

\* A system call returns to user code.
Return(p) == /\ Goto(p, "run")
             /\ child_thread' = [child_thread EXCEPT ![p] = NoProc]

Children(p) == Members(child_list[p])

\* run_task() waits for a task before the next one is started.
MayExec(p) == pc[p] = "run" /\ (p = root => child_list[p] = <<>>)

-----------------------------------------------------------------------------
(***************************************************************************)
(* exec().                                                                 *)
(***************************************************************************)

\* thread_create() finds a page: init_thread() clears it and makes it a child
\* of the caller.
Exec(p, c) ==
  /\ MayExec(p)
  /\ pc[c] = "free"
  /\ pc' = [pc EXCEPT ![p] = "exec", ![c] = "load"]
  /\ child_list' = [child_list EXCEPT ![p] = Append(@, c), ![c] = <<>>]
  /\ child_thread' = [child_thread EXCEPT ![p] = c]
  /\ exit_status' = [exit_status EXCEPT ![c] = 0]
  /\ file_lock' = [file_lock EXCEPT ![c] = 0]
  /\ child_lock' = [child_lock EXCEPT ![c] = 0]
  /\ mem_lock' = [mem_lock EXCEPT ![c] = 0]
  /\ fd' = [fd EXCEPT ![c] = NoFiles]
  /\ fate' = [fate EXCEPT ![c] = "alive"]
  /\ UNCHANGED copying

\* thread_create() finds none, and no child has the tid TID_ERROR: child_thread
\* is the last child at the end of the loop and exec() returns -1 whatever the
\* status of that child is, or it is null and is dereferenced.  The initial
\* thread has itself and the idle thread as children.
ExecNoPage(p) ==
  /\ MayExec(p) /\ p # root
  /\ \A c \in Procs : pc[c] # "free"
  /\ child_list[p] = <<>>
  /\ Goto(p, "fault")
  /\ UNCHANGED <<child_list, child_thread, copying, exit_status, semas, fd, fate>>

\* The parent is woken by the child, which has loaded its program or failed.
ExecLoaded(p) ==
  /\ pc[p] = "exec"
  /\ file_lock[child_thread[p]] > 0
  /\ file_lock' = [file_lock EXCEPT ![child_thread[p]] = @ - 1]
  /\ copying' = [copying EXCEPT ![p] = 2]
  /\ Goto(p, "copy")
  /\ UNCHANGED <<child_list, child_thread, exit_status, child_lock, mem_lock, fd,
                 fate>>

\* One round of the loop that reopens the parent's files for the child, which
\* may be running already, or have exited.
CopyFd(p) ==
  /\ pc[p] = "copy"
  /\ fd' = [fd EXCEPT ![child_thread[p]][copying[p]] =
              IF fd[p][copying[p]] # NoFile THEN p ELSE @]
  /\ IF copying[p] = MAX_FD
       THEN /\ Goto(p, "check")
            /\ copying' = [copying EXCEPT ![p] = 2]
       ELSE /\ copying' = [copying EXCEPT ![p] = @ + 1]
            /\ UNCHANGED pc
  /\ UNCHANGED <<child_list, child_thread, exit_status, semas, fate>>

\* exec() looks at the status of the child: -1 if load() has failed and the
\* child has got as far as exit(-1), or if the program has itself ended with
\* -1; then the child is waited for.
ExecCheck(p) ==
  /\ pc[p] = "check"
  /\ \/ /\ exit_status[child_thread[p]] = -1
        /\ Goto(p, "execwait")
        /\ UNCHANGED child_thread
     \/ /\ exit_status[child_thread[p]] # -1
        /\ Return(p)
  /\ UNCHANGED <<child_list, copying, exit_status, semas, fd, fate>>

-----------------------------------------------------------------------------
(***************************************************************************)
(* The child.                                                              *)
(***************************************************************************)

\* start_process() ups file_lock before the program is entered ...
LoadSucceeds(c) ==
  /\ pc[c] = "load"
  /\ file_lock' = [file_lock EXCEPT ![c] = @ + 1]
  /\ Goto(c, "run")
  /\ UNCHANGED <<child_list, child_thread, copying, exit_status, child_lock,
                 mem_lock, fd, fate>>

\* Variant: the failed child does not tell its parent.
LoadFails_Silent(c) ==
  /\ pc[c] = "load"
  /\ fate' = [fate EXCEPT ![c] = "not loaded"]
  /\ Goto(c, "failed")
  /\ UNCHANGED <<child_list, child_thread, copying, exit_status, semas, fd>>

\* ... and before the exit(-1) of a process whose load() has failed.
LoadFails(c) ==
  /\ pc[c] = "load"
  /\ file_lock' = [file_lock EXCEPT ![c] = @ + 1]
  /\ fate' = [fate EXCEPT ![c] = "not loaded"]
  /\ Goto(c, "failed")
  /\ UNCHANGED <<child_list, child_thread, copying, exit_status, child_lock,
                 mem_lock, fd>>

\* open() takes the first descriptor that is free.
Open(p) ==
  /\ pc[p] = "run" /\ p # root
  /\ \E i \in FDs :
       /\ fd[p][i] = NoFile
       /\ \A j \in 2..(i - 1) : fd[p][j] # NoFile
       /\ fd' = [fd EXCEPT ![p][i] = p]
  /\ UNCHANGED <<pc, child_list, child_thread, copying, exit_status, semas, fate>>

\* close() of a descriptor that is open; one that is not is an ExitMinusOne.
Close(p, i) ==
  /\ pc[p] = "run"
  /\ fd[p][i] # NoFile
  /\ fd' = [fd EXCEPT ![p][i] = NoFile]
  /\ UNCHANGED <<pc, child_list, child_thread, copying, exit_status, semas, fate>>

\* exit() stores the status of the process and goes on to thread_exit().
exit(p, status, end) ==
  /\ exit_status' = [exit_status EXCEPT ![p] = status]
  /\ fate' = [fate EXCEPT ![p] = end]
  /\ Goto(p, "exit")
  /\ UNCHANGED <<child_list, child_thread, copying, semas, fd>>

Exit(p, status) ==
  /\ pc[p] = "run" /\ p # root
  /\ exit(p, status, "exited")

\* exit(-1), for a system call with a bad argument and by page_fault().
ExitMinusOne(p) ==
  \/ pc[p] = "run" /\ p # root /\ exit(p, -1, "killed")
  \/ pc[p] = "failed" /\ exit(p, -1, "not loaded")
  \/ pc[p] = "fault" /\ exit(p, -1, "killed")

\* kill(), the handler of the other exceptions, calls thread_exit().
Kill(p) ==
  /\ pc[p] = "run" /\ p # root
  /\ fate' = [fate EXCEPT ![p] = "killed"]
  /\ Goto(p, "exit")
  /\ UNCHANGED <<child_list, child_thread, copying, exit_status, semas, fd>>

\* process_exit(): close every file, tell the parent.  exit() has closed the
\* files before; what the parent adds between the two loops the second closes.
ProcessExit(p) ==
  /\ pc[p] = "exit"
  /\ fd' = [fd EXCEPT ![p] = NoFiles]
  /\ child_lock' = [child_lock EXCEPT ![p] = @ + 1]
  /\ Goto(p, "dead")
  /\ UNCHANGED <<child_list, child_thread, copying, exit_status, file_lock,
                 mem_lock, fate>>

\* The parent has read the status: the rest of thread_exit() frees the page.
Die(p) ==
  /\ pc[p] = "dead"
  /\ mem_lock[p] > 0
  /\ mem_lock' = [mem_lock EXCEPT ![p] = @ - 1]
  /\ child_list' = [child_list EXCEPT ![p] = <<>>]
  /\ child_thread' = [child_thread EXCEPT ![p] = NoProc]
  /\ Goto(p, "free")
  /\ UNCHANGED <<copying, exit_status, file_lock, child_lock, fd, fate>>

-----------------------------------------------------------------------------
(***************************************************************************)
(* process_wait(), from wait() or from process_execute().                  *)
(***************************************************************************)

\* wait() for one of the caller's children.
Wait(p, c) ==
  /\ pc[p] = "run"
  /\ c \in Children(p)
  /\ child_thread' = [child_thread EXCEPT ![p] = c]
  /\ Goto(p, "wait")
  /\ UNCHANGED <<child_list, copying, exit_status, semas, fd, fate>>

\* Variant: mem_lock is upped before the status is read, and again after it.
ChildExited_Release(p) ==
  /\ pc[p] \in {"wait", "execwait"}
  /\ child_lock[child_thread[p]] > 0
  /\ child_lock' = [child_lock EXCEPT ![child_thread[p]] = @ - 1]
  /\ mem_lock' = [mem_lock EXCEPT ![child_thread[p]] = @ + 1]
  /\ Goto(p, IF pc[p] = "wait" THEN "reap" ELSE "execreap")
  /\ UNCHANGED <<child_list, child_thread, copying, exit_status, file_lock, fd,
                 fate>>

\* Variant: the parent does not wait for child_lock.
ChildExited_NoWait(p) ==
  /\ pc[p] \in {"wait", "execwait"}
  /\ Goto(p, IF pc[p] = "wait" THEN "reap" ELSE "execreap")
  /\ UNCHANGED <<child_list, child_thread, copying, exit_status, semas, fd, fate>>

ChildExited(p) ==
  /\ pc[p] \in {"wait", "execwait"}
  /\ child_lock[child_thread[p]] > 0
  /\ child_lock' = [child_lock EXCEPT ![child_thread[p]] = @ - 1]
  /\ Goto(p, IF pc[p] = "wait" THEN "reap" ELSE "execreap")
  /\ UNCHANGED <<child_list, child_thread, copying, exit_status, file_lock,
                 mem_lock, fd, fate>>

\* Variant: list_remove() is forgotten.
Reap_Keep(p) ==
  /\ pc[p] \in {"reap", "execreap"}
  /\ mem_lock' = [mem_lock EXCEPT ![child_thread[p]] = @ + 1]
  /\ Return(p)
  /\ UNCHANGED <<child_list, copying, exit_status, file_lock, child_lock, fd, fate>>

\* Read the status, take the child off the list, let it go.
Reap(p) ==
  /\ pc[p] \in {"reap", "execreap"}
  /\ \E i \in 1..Len(child_list[p]) :
       /\ child_list[p][i] = child_thread[p]
       /\ child_list' = [child_list EXCEPT ![p] = RemoveAt(@, i)]
  /\ mem_lock' = [mem_lock EXCEPT ![child_thread[p]] = @ + 1]
  /\ Return(p)
  /\ UNCHANGED <<copying, exit_status, file_lock, child_lock, fd, fate>>

-----------------------------------------------------------------------------
\* What a process may call, and what may happen to it.
Call(p) ==
  \/ \E c \in Procs : Exec(p, c) \/ Wait(p, c)
  \/ ExecNoPage(p)
  \/ Open(p)
  \/ \E i \in FDs : Close(p, i)
  \/ \E s \in Statuses : Exit(p, s)
  \/ pc[p] = "run" /\ ExitMinusOne(p)
  \/ Kill(p)

\* What it then does without a choice; load() ends in one way or the other.
Continue(p) ==
  \/ ExecLoaded(p)
  \/ CopyFd(p)
  \/ ExecCheck(p)
  \/ LoadSucceeds(p) \/ LoadFails(p)
  \/ pc[p] # "run" /\ ExitMinusOne(p)
  \/ ProcessExit(p)
  \/ Die(p)
  \/ ChildExited(p)
  \/ Reap(p)

Next == \E p \in Procs : Call(p) \/ Continue(p)

Spec == Init /\ [][Next]_vars

\* Every process that can go on does: module Threads shows that a thread that
\* is ready gets the CPU.  No process is assumed to call anything.
FairSpec == Spec /\ \A p \in Procs : WF_vars(Continue(p))
=============================================================================
