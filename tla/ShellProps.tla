----------------------------- MODULE ShellProps -----------------------------
(* The correctness properties of module Shell. *)
EXTENDS Shell

\* Type invariant: the children with an unreported change are the zombies and some
\* of the stopped ones, and only background children leave the group.
ShellTypeOK ==
  /\ shell_pc \in {"prompt", "parent", "call", "wait", "gone"}
  /\ {bg, blocked, pending, handling} \subseteq BOOLEAN
  /\ child \in [Pids -> {"none", "forked", "running", "stopped", "zombie"}]
  /\ changed \subseteq {c \in Pids : child[c] \in {"zombie", "stopped"}}
  /\ \A c \in Pids : child[c] = "zombie" => c \in changed
  /\ own \subseteq background /\ background \cup strays \subseteq {c \in Pids : child[c] # "none"}
  /\ job_list \subseteq [pid : Pids, state : {"F", "B", "S"}]

(* Where the promise of line 183 ("waits for the foreground job") stops.   *)
(* waitpid(0, ...) reports any child of the shell's group.  The change     *)
(* that ends it is that of the foreground program, except that of a stray: *)
(* a program whose stop brought the prompt back earlier and that was then  *)
(* killed or continued, or a background child killed before line 156.  So  *)
(* the prompt comes back while a foreground program runs only if that      *)
(* program is a stray itself, or a stray's change has made it one; the     *)
(* change of a job that runs in the background never does that, because    *)
(* its group is its own before it can end or stop (lines 152 to 156).      *)
PromptAfterForeground ==
  /\ ShellTypeOK
  /\ shell_pc = "prompt" =>
       \A c \in Pids \ background : child[c] \in {"forked", "running"} => c \in strays

(* SIGCHLD does not queue, so that one signal may stand for many children: *)
(* once the handler has returned and no signal is pending, no child is     *)
(* left unreported (the loop of lines 461 to 475).                         *)
HandlerDrains ==
  shell_pc # "gone" /\ ~blocked /\ ~pending /\ ~handling => changed = {}

(* The handler can take the foreground child away from the waitpid() of    *)
(* line 187 only if SIGCHLD is unblocked: as long as it stays blocked from *)
(* line 145 on, there is a child to wait for and waitpid() does not fail.  *)
BlockedWaitSucceeds ==
  [][shell_pc = "call" /\ blocked => shell_pc' # "gone"]_shell_vars

(* A program of the shell's group that ends or is stopped while the shell  *)
(* waits with SIGCHLD blocked brings the prompt back, whatever other       *)
(* children do and however many stopped ones are in the group, unless it   *)
(* is continued before waitpid() has seen the stop.                        *)
WaitEnds ==
  \A c \in Pids :
    (shell_pc \in {"call", "wait"} /\ blocked /\ c \in changed \cap Group)
      ~> (shell_pc = "prompt" \/ child[c] = "running")
=============================================================================
