----------------------------- MODULE FilesProps -----------------------------
(* The correctness properties of module Files. *)
EXTENDS Files

Places ==
  {"new", "load", "deny", "run", "wait", "erase", "unlink", "create", "add", "enter", "write",
   "exit", "dead"} \cup Opening \cup Closing

\* The locals of a call that uses an inode, and of create().
Found  == [sector : Sectors, entry : Entries \cup {None}, inode : Inodes \cup {None},
           at : {"list", "none", "old", "new"}]
Adding == [name : Names, sector : Sectors, entry : Entries \cup {None}]

\* Type invariant: the counters of an inode are never below zero (the assertions
\* of inode_allow_write()), and descriptors name files.
TypeOK ==
  /\ dir \in [Entries -> Entry \cup {None}] /\ free \subseteq Sectors
  /\ inode \in [Inodes -> Inode \cup {None}]
  /\ fd \in [Procs -> [Slots -> File \cup {None}]]
  /\ file_lock \in Procs \cup {None} /\ pc \in [Procs -> Places]
  /\ name \in [Procs -> Names \cup {None}] /\ child \in [Procs -> Procs \cup {None}]
  /\ found \in [Procs -> Found \cup {None}] /\ adding \in [Procs -> Adding \cup {None}]
  /\ intact \in BOOLEAN /\ calls \in Nat /\ unlocked \subseteq Inodes /\ late \subseteq Procs

Uses(k) == {u \in Procs \X Slots : fd[u[1]][u[2]] # None /\ fd[u[1]][u[2]].inode = k}

(* The counters of an inode never fall short, after any sequence of exec,  *)
(* open, inheritance, remove, close and exit of any processes: an inode    *)
(* that some file names is in memory, open_cnt is at least the number of   *)
(* such files, and deny_write_cnt at least the number of those that deny   *)
(* writes.  They may be higher: process_execute() and a full descriptor    *)
(* table leave files open, and so does a parent that overwrites a          *)
(* descriptor its child has opened before the copying (inode_close(),      *)
(* file_close()).                                                          *)
CountsRight ==
  /\ TypeOK
  /\ \A k \in Inodes :
       LET denying == {u \in Uses(k) : fd[u[1]][u[2]].deny_write}
       IN  IF inode[k] = None THEN Uses(k) = {}
           ELSE /\ inode[k].open_cnt >= Cardinality(Uses(k)) /\ inode[k].open_cnt >= inode[k].deny
                /\ inode[k].deny >= Cardinality(denying)

(* "Opening a single inode twice returns the same struct inode" (inode.c:  *)
(* 56-57) as far as the code makes it true: two inodes are never made for  *)
(* one sector by open(), which holds file_lock from before the search of   *)
(* inode_open() until its inode is on the list.  Of two inodes of a sector *)
(* one was made by exec(), load() or remove(), which hold no lock.         *)
OpensShareInode ==
  \A j, k \in Inodes :
    j # k /\ inode[j] # None /\ inode[k] # None /\ inode[j].sector = inode[k].sector
      => j \in unlocked \/ k \in unlocked

\* p runs the program that it has loaded from inode k.
Executes(p, k) ==
  /\ pc[p] \notin {"new", "load", "loading", "deny", "exit", "free", "dead"}
  /\ fd[p][EXE] # None /\ fd[p][EXE].inode = k

(* A write that is past the test of deny_write_cnt in inode_write_at() is  *)
(* not on the inode of a running program, whoever writes and however the   *)
(* file was opened, unless load() denied the writing after that test: it   *)
(* takes no lock, and inode_write_at() does not look again.                *)
ExecutableProtected ==
  \A p, q \in Procs : pc[p] = "write" /\ Executes(q, found[p].inode) => q \in late
=============================================================================
