-------------------------------- MODULE Shell --------------------------------
(***************************************************************************)
(* The shell of CSE4100 Project_02/phase3/myshell.c: the main loop, its    *)
(* children, the job table and the SIGCHLD handler that interrupts it.     *)
(*                                                                         *)
(* Line 147 assigns the result of the comparison Fork() == 0 to pid, so    *)
(* that pid is 0 in the shell.  Everything the shell does with pid         *)
(* afterwards (create_job, waitpid, delete_job) is done with 0: waitpid    *)
(* waits for any child of the shell's own process group.                   *)
(*                                                                         *)
(* The signal set given to SIG_UNBLOCK on line 179 is not initialised,     *)
(* because set_signal() fills a copy: SIGCHLD is unblocked or stays        *)
(* blocked, and both are in the model.                                     *)
(*                                                                         *)
(* The environment: any other process may stop, continue or kill a child;  *)
(* nobody sends SIGSTOP to one before its program has begun, and a program *)
(* stays in the process group in which it was started.                     *)
(***************************************************************************)
EXTENDS Naturals, FiniteSets

CONSTANTS Pids,     \* the process identifiers of the children
          JOBS      \* the slots of job_list (100 in the code)

ASSUME ShellAssumption == Pids # {} /\ 0 \notin Pids /\ JOBS \in Nat \ {0}

VARIABLES
  shell_pc,   \* "prompt", "parent" (line 173), "call" and "wait" (line 187), "gone"
  bg,         \* eval's local bg: does the command run in the background?
  blocked,    \* is SIGCHLD in the signal mask of the shell?
  pending,    \* is SIGCHLD pending?
  handling,   \* is child_handler() running?
  child,      \* the state of every process identifier
  changed,    \* the children with a change that waitpid() has not reported
  own,        \* the children that have left the shell's process group
  background, \* the children forked for a background command
  strays,     \* history: the children in the shell's group that it does not wait for
  job_list    \* the entries of the job table that are in use

shell_vars ==
  <<shell_pc, bg, blocked, pending, handling, child, changed, own, background, strays, job_list>>
shell == <<shell_pc, bg, blocked, handling, job_list>>
children == <<child, changed, own, background, strays>>

-----------------------------------------------------------------------------
(* The job table *)

create_job(pid, state) ==
  IF pid = 0 \/ Cardinality(job_list) = JOBS THEN job_list
                                             ELSE job_list \cup {[pid |-> pid, state |-> state]}

delete_job(pid) == {j \in job_list : j.pid # pid}

pid_to_job(pid) == {j \in job_list : j.pid = pid}

-----------------------------------------------------------------------------
Group == {c \in Pids : child[c] # "none"} \ own   \* the shell's process group

Deliverable == pending /\ ~blocked /\ ~handling

Running == shell_pc # "gone" /\ ~handling /\ ~Deliverable

ShellInit ==
  /\ shell_pc = "prompt" /\ bg = FALSE
  /\ blocked = FALSE /\ pending = FALSE /\ handling = FALSE
  /\ child = [c \in Pids |-> "none"]
  /\ changed = {} /\ own = {} /\ background = {} /\ strays = {}
  /\ job_list = {}

-----------------------------------------------------------------------------
(* The main loop *)

\* set_signal() blocks SIGCHLD and Fork() makes a child.
Fork(c, b) ==
  /\ Running /\ shell_pc = "prompt" /\ child[c] = "none"
  /\ shell_pc' = "parent" /\ bg' = b /\ blocked' = TRUE
  /\ child' = [child EXCEPT ![c] = "forked"]
  /\ background' = IF b THEN background \cup {c} ELSE background
  /\ UNCHANGED <<pending, handling, changed, own, strays, job_list>>

\* The parent's branch up to waitpid(): pid is 0 here, whatever was forked.
Parent ==
  /\ Running /\ shell_pc = "parent"
  /\ job_list' = create_job(0, IF bg THEN "B" ELSE "F")
  /\ blocked' \in BOOLEAN
  /\ shell_pc' = IF bg THEN "prompt" ELSE "call"
  /\ UNCHANGED <<bg, pending, handling, children>>

\* waitpid(0, ...) sleeps if there is a child to wait for; otherwise it fails
\* and unix_error() ends the shell.
Call ==
  /\ Running /\ shell_pc = "call"
  /\ shell_pc' = IF Group = {} THEN "gone" ELSE "wait"
  /\ UNCHANGED <<bg, blocked, pending, handling, children, job_list>>

\* What every waitpid() does with the child it reports.
Reported(c) ==
  /\ changed' = changed \ {c}
  /\ child' = [child EXCEPT ![c] = IF @ = "zombie" THEN "none" ELSE @]
  /\ IF child[c] = "zombie" THEN own' = own \ {c} /\ background' = background \ {c}
                            ELSE UNCHANGED <<own, background>>

\* The prompt comes back for c.  A stopped c stays in the group, and if c is a
\* stray then the program that was waited for becomes one too.
LeftBehind(c) ==
  strays' = {d \in strays \cup {c} \cup (IF c \in strays THEN Group \ background ELSE {}) :
               child'[d] # "none"}

\* Variant: without WUNTRACED.
WaitReturns_Exits(c) ==
  /\ shell_pc = "wait" /\ ~handling /\ c \in changed \cap Group /\ child[c] = "zombie"
  /\ Reported(c) /\ LeftBehind(c)
  /\ shell_pc' = "prompt"
  /\ job_list' = delete_job(0)
  /\ UNCHANGED <<bg, blocked, pending, handling>>

WaitReturns(c) ==
  /\ shell_pc = "wait" /\ ~handling /\ c \in changed \cap Group
  /\ Reported(c) /\ LeftBehind(c)
  /\ shell_pc' = "prompt"
  /\ job_list' = IF child[c] = "zombie" THEN delete_job(0) ELSE job_list
  /\ UNCHANGED <<bg, blocked, pending, handling>>

\* quit, exit, the end of the input, and the command lines whose handling
\* reads a pointer that was never set (an empty line, bg, fg or kill alone);
\* a Fork() that fails ends the shell too.
Quit ==
  /\ Running /\ shell_pc = "prompt"
  /\ shell_pc' = "gone"
  /\ UNCHANGED <<bg, blocked, pending, handling, children, job_list>>

-----------------------------------------------------------------------------
(* child_handler().  waitpid() looks at the children before it gives way to *)
(* a signal, and is restarted after the handler (SA_RESTART).               *)

HandlerStart ==
  /\ Deliverable /\ shell_pc # "gone"
  /\ shell_pc = "wait" => changed \cap Group = {}
  /\ handling' = TRUE /\ pending' = FALSE
  /\ shell_pc' = IF shell_pc = "wait" THEN "call" ELSE shell_pc
  /\ UNCHANGED <<bg, blocked, children, job_list>>

\* One turn of the loop.  For a stopped child without a job the handler
\* writes through a null pointer.
HandlerReaps(c) ==
  /\ handling /\ shell_pc # "gone" /\ c \in changed
  /\ Reported(c) /\ strays' = {d \in strays : child'[d] # "none"}
  /\ job_list' = IF child[c] = "zombie" THEN delete_job(c)
                  ELSE {IF j.pid = c THEN [j EXCEPT !.state = "S"] ELSE j : j \in job_list}
  /\ shell_pc' = IF child[c] = "stopped" /\ pid_to_job(c) = {} THEN "gone" ELSE shell_pc
  /\ UNCHANGED <<bg, blocked, pending, handling>>

\* Variant: if for while.
HandlerReturns_Once ==
  /\ handling /\ shell_pc # "gone"
  /\ handling' = FALSE
  /\ UNCHANGED <<shell_pc, bg, blocked, pending, children, job_list>>

HandlerReturns ==
  /\ handling /\ shell_pc # "gone" /\ changed = {}
  /\ handling' = FALSE
  /\ UNCHANGED <<shell_pc, bg, blocked, pending, children, job_list>>

-----------------------------------------------------------------------------
(* The children *)

\* Variant: every child leaves the group.
Setpgid_All(c) ==
  /\ child[c] = "forked" /\ c \notin own
  /\ own' = own \cup {c}
  /\ UNCHANGED <<shell, pending, child, changed, background, strays>>

Setpgid(c) ==
  /\ child[c] = "forked" /\ c \in background \ own
  /\ own' = own \cup {c}
  /\ UNCHANGED <<shell, pending, child, changed, background, strays>>

\* Variant: the program starts before the child has left the group.
Grouped_No(c) == TRUE

Grouped(c) == c \in background => c \in own   \* line 156 is behind the child

Exec(c) ==
  /\ child[c] = "forked" /\ Grouped(c)
  /\ child' = [child EXCEPT ![c] = "running"]
  /\ UNCHANGED <<shell, pending, changed, own, background, strays>>

\* The program ends or is killed, a stopped one too, or execve() failed and the
\* child called exit().  A background child that is killed before line 156 ends in
\* the shell's group.
ChildExit(c) ==
  /\ child[c] \in {"forked", "running", "stopped"}
  /\ child' = [child EXCEPT ![c] = "zombie"]
  /\ changed' = changed \cup {c}
  /\ pending' = TRUE
  /\ strays' = IF Grouped(c) THEN strays ELSE strays \cup {c}
  /\ UNCHANGED <<shell, own, background>>

\* Ctrl-Z stops the program in the terminal's foreground group, a read from the
\* terminal one in a group of its own.  stp_handler() finds no foreground job.
Stop(c) ==
  /\ child[c] = "running"
  /\ child' = [child EXCEPT ![c] = "stopped"]
  /\ changed' = changed \cup {c}
  /\ pending' = TRUE
  /\ UNCHANGED <<shell, own, background, strays>>

\* SIGCONT from another process.  No waitpid() of the shell asks for it
\* (WCONTINUED), and a stop that has not been reported is forgotten.
Continue(c) ==
  /\ child[c] = "stopped"
  /\ child' = [child EXCEPT ![c] = "running"]
  /\ changed' = changed \ {c}
  /\ pending' = TRUE
  /\ UNCHANGED <<shell, own, background, strays>>

-----------------------------------------------------------------------------
Main == Parent \/ Call \/ \E c \in Pids : WaitReturns(c)

Handler == HandlerStart \/ HandlerReturns \/ \E c \in Pids : HandlerReaps(c)

ShellNext ==
  \/ Main \/ Handler \/ Quit
  \/ \E c \in Pids, b \in BOOLEAN : Fork(c, b)
  \/ \E c \in Pids : Setpgid(c) \/ Exec(c) \/ ChildExit(c) \/ Stop(c) \/ Continue(c)

\* The kernel runs the shell and delivers its signals.
ShellSpec == ShellInit /\ [][ShellNext]_shell_vars /\ WF_shell_vars(Main) /\ WF_shell_vars(Handler)
=============================================================================
