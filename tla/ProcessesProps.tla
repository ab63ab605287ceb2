--------------------------- MODULE ProcessesProps ---------------------------
(***************************************************************************)
(* What module Processes is required to do.                                *)
(***************************************************************************)
EXTENDS Processes

\* Type invariant.
TypeOK ==
  /\ pc \in [Procs -> PC]
  /\ child_list \in [Procs -> Seq(Procs \ {root})]
  /\ child_thread \in [Procs -> Procs \cup {NoProc}]
  /\ copying \in [Procs -> FDs]
  /\ exit_status \in [Procs -> Statuses \cup {0, -1}]
  /\ file_lock \in [Procs -> Nat]
  /\ child_lock \in [Procs -> Nat]
  /\ mem_lock \in [Procs -> Nat]
  /\ fd \in [Procs -> [FDs -> Procs \cup {NoFile}]]
  /\ fate \in [Procs -> Fates]

InExec  == {"exec", "copy", "check", "execwait", "execreap"}
InWait  == {"wait", "reap"}
Live(p) == pc[p] # "free"

(***************************************************************************)
(* No dangling pointers.  The kernel never counts references to a struct   *)
(* thread: that the pages on a child_list, and the child_thread a parent   *)
(* holds across a sema_down(), have not been freed, or reused for another  *)
(* child, rests on mem_lock alone.                                         *)
(***************************************************************************)
NoDanglingChild ==
  /\ \A p \in Procs : Live(p) => \A c \in Children(p) : Live(c)
  /\ \A p \in Procs : pc[p] \in InExec \cup InWait =>
       child_thread[p] \in Children(p)

\* A process is the child of one parent, and on its list once.
OneParent ==
  /\ \A p, q \in Procs : p # q /\ Live(p) /\ Live(q) =>
       Children(p) \cap Children(q) = {}
  /\ \A p \in Procs : Live(p) => NoDuplicates(child_list[p])

\* The family of processes is right at every step of exec, wait and exit, in
\* any number of processes that are created, orphaned, reaped and reused.
FamilyRight ==
  /\ TypeOK
  /\ NoDanglingChild
  /\ OneParent

(***************************************************************************)
(* The exit handshake.  A process that has exited has one token, which is  *)
(* in its child_lock, with the parent that is reading its status, or in    *)
(* its mem_lock; it is in mem_lock only when no list has the process any   *)
(* more.  A process that has not exited has none.                          *)
(***************************************************************************)
Reapers(c) == {p \in Procs : pc[p] \in {"reap", "execreap"} /\ child_thread[p] = c}

NoToken(c) == child_lock[c] = 0 /\ mem_lock[c] = 0 /\ Reapers(c) = {}

Collected(c) == \A p \in Procs : Live(p) => c \notin Children(p)

ExitHandshake ==
  \A c \in Procs : Live(c) =>
    IF pc[c] # "dead"
      THEN NoToken(c)
      ELSE \/ child_lock[c] = 1 /\ mem_lock[c] = 0 /\ Reapers(c) = {}
           \/ child_lock[c] = 0 /\ mem_lock[c] = 1 /\ Reapers(c) = {} /\ Collected(c)
           \/ child_lock[c] = 0 /\ mem_lock[c] = 0 /\ \E p \in Procs : Reapers(c) = {p}

\* A child of a live parent leaves the parent's list only when it has exited,
\* and by the parent's own process_wait(): no status is lost or read early.
ReapedAfterExit ==
  [][\A p \in Procs : Live(p) /\ Live(p)' =>
       \A c \in Children(p) : c \notin Children(p)' =>
         pc[c] = "dead" /\ child_thread[p] = c /\ pc[p] \in {"reap", "execreap"}]_vars

\* A parent that waits for a child that is exiting goes on ...
WaitReturns ==
  \A p, c \in Procs :
    pc[p] = "wait" /\ child_thread[p] = c /\ pc[c] \in {"exit", "dead"}
      ~> pc[p] = "run"

\* ... every exec() returns ...
ExecReturns == \A p \in Procs : pc[p] = "exec" ~> pc[p] = "run"

\* ... and the page of a child that was waited for is freed.
ReapedFreed == \A c \in Procs : mem_lock[c] > 0 ~> ~Live(c)

\* Nobody who waits for a relative's semaphore in exec(), wait() or exit() does
\* so for ever, once the relative is on its way.
CallsReturn == WaitReturns /\ ExecReturns /\ ReapedFreed

-----------------------------------------------------------------------------
(***************************************************************************)
(* What the comments and the tests say and the code does not do.           *)
(***************************************************************************)

\* tests/userprog/no-vm/multi-oom.c: "if a process doesn't actually get to
\* start, exec() must return -1".
ExecReportsFailure ==
  [][\A p \in Procs : pc[p] = "check" /\ pc'[p] = "run" =>
       fate[child_thread[p]] # "not loaded"]_vars
=============================================================================
