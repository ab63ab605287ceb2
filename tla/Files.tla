-------------------------------- MODULE Files --------------------------------
(***************************************************************************)
(* Open files of the Pintos kernel of 2024_2nd/CSE4070/Project_04: the     *)
(* descriptors of the processes (userprog/syscall.c), the files and inodes *)
(* they name (filesys/file.c, inode.c), the root directory and the free    *)
(* map (directory.c, free-map.c), and the protection of executables        *)
(* (userprog/process.c).                                                   *)
(*                                                                         *)
(* struct thread has cur_file right behind fd[128], and the bounds of the  *)
(* system calls admit descriptor 128: EXE stands for that slot, which      *)
(* holds the executable.  A file occupies one sector.                      *)
(*                                                                         *)
(* file_lock is held in open(), read() and write() but not in close(),     *)
(* exec(), exit(), create() and remove(), and every one of them can be     *)
(* interrupted: between the search of inode_open() and the use of what it  *)
(* found, between the test of deny_write_cnt and the writing, between the  *)
(* scan of the free map and the mark.  When the interrupted call goes on   *)
(* to use an inode that has been freed, frees one that has been opened     *)
(* again, or fails an assertion of the free map, intact becomes FALSE and  *)
(* the model stops.                                                        *)
(*                                                                         *)
(* The scan of the directory is one step, and so is the copying of         *)
(* descriptors in process_execute().  The inode of the root directory,     *)
(* which each call opens and closes as well, is left out.                  *)
(***************************************************************************)
EXTENDS Naturals, FiniteSetsExt

CONSTANTS Procs, Names, None,
          Sectors,      \* the sectors of the disk
          Entries,      \* the entries of the root directory: 16
          Inodes,       \* where a struct inode can be in memory
          MAX_FD,       \* the last file descriptor: 127
          MAX_CALLS     \* how often open(), create() and remove() are called

\* struct dir_entry, struct inode and struct file.
Entry == [name : Names, sector : Sectors]
Inode == [sector : Sectors, open_cnt : Nat, deny : Nat, removed : BOOLEAN]
File  == [inode : Inodes, deny_write : BOOLEAN]

ASSUME FilesAssumption ==
  /\ IsFiniteSet(Procs) /\ IsFiniteSet(Inodes)
  /\ None \notin Inodes \cup Sectors \cup Names \cup Procs \cup Entries
  /\ None \notin Entry /\ None \notin Inode /\ None \notin File
  /\ MAX_FD \in Nat /\ MAX_FD >= 2 /\ MAX_CALLS \in Nat

VARIABLES
  dir,        \* the entries in use: [name, sector], or None
  free,       \* the free sectors
  inode,      \* the struct inodes: [sector, open_cnt, deny, removed], or None
  fd,         \* the files of each process: [inode, deny_write], or None
  file_lock,  \* the process that holds it, or None
  pc,         \* where each process is
  name,       \* the program of each process
  child,      \* the process whose process_execute() a process is in, or None
  found,      \* the locals of a call that uses an inode, or None
  adding,     \* the locals of create(): [name, sector, entry], or None
  intact,     \* no freed memory was used
  calls,      \* the calls of open(), create() and remove() so far
  unlocked,   \* history: the inodes that a call without file_lock has made
  late        \* history: the programs that have denied writing to the inode of
              \* the write in progress since it tested deny_write_cnt

vars ==
  <<dir, free, inode, fd, file_lock, pc, name, child, found, adding, intact, calls, unlocked, late>>
disk == <<dir, free>>
memory == <<inode, fd, unlocked>>
process == <<name, child>>

EXE == MAX_FD + 1
Slots == 2 .. EXE

(***************************************************************************)
(* pc: "new"; "load", "loading" in load(), the second in inode_open();     *)
(* "deny" before its file_deny_write(); "run"; "exec", "open", "open own"  *)
(* (with the name of its thread) and "remove" in inode_open(); "wait" when *)
(* its child loads; "erase", "unlink" in the rest of dir_remove();         *)
(* "create", "add", "enter" in filesys_create(); "write" past the test of  *)
(* deny_write_cnt; "close" in inode_close() called by close() or remove(); *)
(* "exit" and "free" in exit(), the second in inode_close(); "dead".       *)
(***************************************************************************)
Opening == {"exec", "loading", "open", "open own", "remove"}
Closing == {"close", "free"}

At(p, l) == intact /\ pc[p] = l

Goto(p, l) == pc' = [pc EXCEPT ![p] = l]

\* The kernel has called process_execute() for the first process.
Init ==
  \E p \in Procs, e \in Entries, k \in Inodes :
    /\ dir \in [Entries -> Entry \cup {None}] /\ dir[e] # None
    /\ \A d, f \in Entries : d # f /\ dir[d] # None /\ dir[f] # None =>
         dir[d].name # dir[f].name /\ dir[d].sector # dir[f].sector
    /\ free = {s \in Sectors : \A d \in Entries : dir[d] = None \/ dir[d].sector # s}
    /\ inode = [j \in Inodes |-> IF j # k THEN None
                 ELSE [sector |-> dir[e].sector, open_cnt |-> 1, deny |-> 0, removed |-> FALSE]]
    /\ fd = [q \in Procs |-> [i \in Slots |-> None]]
    /\ file_lock = None
    /\ pc = [q \in Procs |-> IF q = p THEN "load" ELSE "new"]
    /\ name = [q \in Procs |-> IF q = p THEN dir[e].name ELSE None]
    /\ child = [q \in Procs |-> None]
    /\ found = [q \in Procs |-> None] /\ adding = [q \in Procs |-> None]
    /\ intact = TRUE /\ calls = 0 /\ unlocked = {k} /\ late = {}

-----------------------------------------------------------------------------
(* filesys/directory.c, inode.c and file.c *)

Named(n) == {e \in Entries : dir[e] # None /\ dir[e].name = n}

Listed(s) == {k \in Inodes : inode[k] # None /\ inode[k].sector = s}

\* found: the sector, the entry it was read from, the inode, and whether
\* inode_open() has not searched ("list"), found none ("none"), found one ("old")
\* or made one that it has not initialised ("new").
Lookup(p, n) ==
  \E e \in Named(n) :
    found' = [found EXCEPT ![p] = [sector |-> dir[e].sector, entry |-> e, inode |-> None, at |-> "list"]]

\* The inode whose open_cnt is not set yet.
Raw(k) == \E p \in Procs : pc[p] \in Opening /\ found[p].at = "new" /\ found[p].inode = k

\* inode_open(): the loop, which finds an inode of the list or none.
inode_search(p) ==
  /\ intact /\ pc[p] \in Opening /\ found[p].at = "list"
  /\ \/ \E k \in Listed(found[p].sector) :
          found' = [found EXCEPT ![p].inode = k, ![p].at = "old"]
     \/ Listed(found[p].sector) = {} /\ found' = [found EXCEPT ![p].at = "none"]
  /\ UNCHANGED <<disk, memory, file_lock, pc, process, adding, intact, late>>

\* The new inode is put on the list, whatever has happened since the loop.
inode_insert(p) ==
  /\ intact /\ pc[p] \in Opening /\ found[p].at = "none"
  /\ \E k \in Inodes :
       /\ inode[k] = None
       /\ inode' = [inode EXCEPT ![k] = [sector |-> found[p].sector, open_cnt |-> 0,
                                         deny |-> 0, removed |-> FALSE]]
       /\ found' = [found EXCEPT ![p].inode = k, ![p].at = "new"]
       /\ unlocked' = IF pc[p] \in {"open", "open own"} THEN unlocked \ {k} ELSE unlocked \cup {k}
  /\ UNCHANGED <<disk, fd, file_lock, pc, process, adding, intact, late>>

\* An inode that was found can be reopened if it is still what it was.
Openable(p) ==
  LET k == found[p].inode
  IN  found[p].at = "new" \/ (found[p].at = "old" /\ k \in Listed(found[p].sector) /\ ~Raw(k))

\* The rest of inode_open(): inode_reopen(), or the counter of a new inode is
\* set; and file_deny_write() if deny.
inode_open(p, deny) ==
  LET k == found[p].inode
  IN  /\ Openable(p)
      /\ inode' = [inode EXCEPT ![k].open_cnt = @ + 1, ![k].deny = IF deny THEN @ + 1 ELSE @]

\* file_close() up to the test of open_cnt.
file_close(f) ==
  inode' = [inode EXCEPT ![f.inode].deny = IF f.deny_write THEN @ - 1 ELSE @,
                         ![f.inode].open_cnt = @ - 1]

Last(f) == inode[f.inode].open_cnt = 1

Held(k) == [sector |-> inode[k].sector, entry |-> None, inode |-> k, at |-> "old"]

\* The rest of inode_close() goes well if nobody has opened the inode again and
\* its sector was not released before (free_map_release() asserts it).
Releasable(k) ==
  /\ inode[k] # None /\ inode[k].open_cnt = 0 /\ ~Raw(k)
  /\ inode[k].removed => inode[k].sector \notin free

\* list_remove() to free(): who has found the inode before uses a freed one.
Release(k) ==
  /\ Releasable(k)
  /\ inode' = [inode EXCEPT ![k] = None]
  /\ free' = IF inode[k].removed THEN free \cup {inode[k].sector} ELSE free
  /\ unlocked' = unlocked \ {k}

-----------------------------------------------------------------------------
(* process_execute() and load() *)

\* The file that process_execute() opens to see that it exists stays open.  q
\* is a process that nobody else is creating.
exec(p, q, n) ==
  /\ At(p, "run") /\ pc[q] = "new" /\ Lookup(p, n)
  /\ \A r \in Procs : child[r] # q
  /\ child' = [child EXCEPT ![p] = q]
  /\ name' = [name EXCEPT ![q] = n]
  /\ Goto(p, "exec")
  /\ UNCHANGED <<disk, memory, file_lock, adding, intact, late>>

\* The child's thread is created, and the parent waits until it has loaded.
Created(p) ==
  /\ At(p, "exec")
  /\ inode_open(p, FALSE)
  /\ found' = [found EXCEPT ![p] = None]
  /\ pc' = [pc EXCEPT ![p] = "wait", ![child[p]] = "load"]
  /\ UNCHANGED <<disk, fd, unlocked, file_lock, process, adding, intact, late>>

\* filesys_open() in load(): the file may have been removed since, or replaced.
load(p) ==
  /\ At(p, "load")
  /\ \/ Lookup(p, name[p]) /\ Goto(p, "loading")
     \/ Named(name[p]) = {} /\ UNCHANGED found /\ Goto(p, "exit")
  /\ UNCHANGED <<disk, memory, file_lock, process, adding, intact, late>>

Loading(p) ==
  /\ At(p, "loading")
  /\ inode_open(p, FALSE)
  /\ fd' = [fd EXCEPT ![p][EXE] = [inode |-> found[p].inode, deny_write |-> FALSE]]
  /\ found' = [found EXCEPT ![p] = None]
  /\ Goto(p, "deny")
  /\ UNCHANGED <<disk, unlocked, file_lock, process, adding, intact, late>>

Writers(k) == {q \in Procs : pc[q] = "write" /\ found[q].inode = k}

Deny_Not(p) ==
  /\ At(p, "deny")
  /\ \E l \in {"run", "exit"} : Goto(p, l)
  /\ UNCHANGED <<disk, memory, file_lock, process, found, adding, intact, late>>

\* The process starts, or the file turns out to be no program.  No lock is held.
Deny(p) ==
  LET k == fd[p][EXE].inode
  IN  /\ At(p, "deny")
      /\ fd' = [fd EXCEPT ![p][EXE].deny_write = TRUE]
      /\ inode' = [inode EXCEPT ![k].deny = @ + 1]
      /\ late' = IF Writers(k) # {} THEN late \cup {p} ELSE late
      /\ \E l \in {"run", "exit"} : Goto(p, l)
      /\ UNCHANGED <<disk, unlocked, file_lock, process, found, adding, intact>>

\* The descriptors of p that name inode k.
Copies(p, k) == {i \in 2 .. MAX_FD : fd[p][i] # None /\ fd[p][i].inode = k}
Denied(p, k) == {i \in Copies(p, k) : fd[p][i].deny_write}

Inherit_Share(p) ==
  LET q == child[p]
  IN  /\ At(p, "wait") /\ pc[q] \notin {"load", "loading", "deny"}
      /\ fd' = [fd EXCEPT ![q] = [i \in Slots |-> IF i # EXE /\ fd[p][i] # None THEN fd[p][i] ELSE @[i]]]
      /\ child' = [child EXCEPT ![p] = None]
      /\ Goto(p, "run")
      /\ UNCHANGED <<disk, inode, unlocked, file_lock, name, found, adding, intact, late>>

\* The parent copies its descriptors to the child, which has loaded, or failed
\* to, and may be anywhere by then: files it has opened itself are lost.
Inherit(p) ==
  LET q == child[p]
  IN  /\ At(p, "wait") /\ pc[q] \notin {"load", "loading", "deny"}
      /\ fd' = [fd EXCEPT ![q] = [i \in Slots |-> IF i # EXE /\ fd[p][i] # None THEN fd[p][i] ELSE @[i]]]
      /\ inode' = [k \in Inodes |->
           IF Copies(p, k) = {} THEN inode[k]
           ELSE [inode[k] EXCEPT !.open_cnt = @ + Cardinality(Copies(p, k)),
                                 !.deny = @ + Cardinality(Denied(p, k))]]
      /\ child' = [child EXCEPT ![p] = None]
      /\ Goto(p, "run")
      /\ UNCHANGED <<disk, unlocked, file_lock, name, found, adding, intact, late>>

-----------------------------------------------------------------------------
(* The system calls on files *)

\* filesys_create(): the scan of the free map finds a sector, ...
create(p, n) ==
  /\ At(p, "run")
  /\ \E s \in free : adding' = [adding EXCEPT ![p] = [name |-> n, sector |-> s, entry |-> None]]
  /\ Goto(p, "create")
  /\ UNCHANGED <<disk, memory, file_lock, process, found, intact, late>>

\* ... which is marked and written to, ...
Marked(p) ==
  /\ At(p, "create")
  /\ free' = free \ {adding[p].sector}
  /\ Goto(p, "add")
  /\ UNCHANGED <<dir, memory, file_lock, process, found, adding, intact, late>>

\* ... then dir_add() finds an entry for it, ...
Addable(p) == Named(adding[p].name) = {} /\ \E e \in Entries : dir[e] = None

dir_add(p) ==
  /\ At(p, "add") /\ Addable(p)
  /\ \E e \in Entries : dir[e] = None /\ adding' = [adding EXCEPT ![p].entry = e]
  /\ Goto(p, "enter")
  /\ UNCHANGED <<disk, memory, file_lock, process, found, intact, late>>

\* ... or fails, and the sector is released again.
NotAdded(p) ==
  /\ At(p, "add") /\ ~Addable(p) /\ adding[p].sector \notin free
  /\ free' = free \cup {adding[p].sector}
  /\ adding' = [adding EXCEPT ![p] = None]
  /\ Goto(p, "run")
  /\ UNCHANGED <<dir, memory, file_lock, process, found, intact, late>>

\* ... The entry is written, whatever it has become.
Added(p) ==
  /\ At(p, "enter")
  /\ dir' = [dir EXCEPT ![adding[p].entry] = [name |-> adding[p].name, sector |-> adding[p].sector]]
  /\ adding' = [adding EXCEPT ![p] = None]
  /\ Goto(p, "run")
  /\ UNCHANGED <<free, memory, file_lock, process, found, intact, late>>

\* dir_remove(): the entry is found, its inode opened, ...
remove(p, n) ==
  /\ At(p, "run") /\ Lookup(p, n)
  /\ Goto(p, "remove")
  /\ UNCHANGED <<disk, memory, file_lock, process, adding, intact, late>>

Removing(p) ==
  /\ At(p, "remove")
  /\ inode_open(p, FALSE)
  /\ Goto(p, "erase")
  /\ UNCHANGED <<disk, fd, unlocked, file_lock, process, found, adding, intact, late>>

\* ... the entry erased, whatever it has become, ...
Erased(p) ==
  /\ At(p, "erase")
  /\ dir' = [dir EXCEPT ![found[p].entry] = None]
  /\ Goto(p, "unlink")
  /\ UNCHANGED <<free, memory, file_lock, process, found, adding, intact, late>>

\* ... and the inode marked and closed: its sector goes with its last opener.
inode_remove(p) ==
  LET k == found[p].inode
  IN  /\ At(p, "unlink")
      /\ inode' = [inode EXCEPT ![k].removed = TRUE, ![k].open_cnt = @ - 1]
      /\ IF inode[k].open_cnt = 1 THEN Goto(p, "close") /\ UNCHANGED found
                                  ELSE Goto(p, "run") /\ found' = [found EXCEPT ![p] = None]
      /\ UNCHANGED <<disk, fd, unlocked, file_lock, process, adding, intact, late>>

\* The thread's name is the command line: it is the name of the program if that
\* was called without arguments.
OpenAs(p, n) == {"open"} \cup IF n = name[p] THEN {"open own"} ELSE {}

\* Variant: without lock_acquire().
open_Unlocked(p, n) ==
  /\ At(p, "run") /\ Lookup(p, n)
  /\ file_lock' = p
  /\ \E l \in OpenAs(p, n) : Goto(p, l)
  /\ UNCHANGED <<disk, memory, process, adding, intact, late>>

open(p, n) ==
  /\ At(p, "run") /\ file_lock = None /\ Lookup(p, n)
  /\ file_lock' = p
  /\ \E l \in OpenAs(p, n) : Goto(p, l)
  /\ UNCHANGED <<disk, memory, process, adding, intact, late>>

FreeFds(p) == {i \in 2 .. MAX_FD : fd[p][i] = None}

\* The file goes to the lowest free descriptor, with writes denied if it has
\* the name of the thread.  Without a free descriptor it stays open.
Opened(p) ==
  LET own == pc[p] = "open own"
  IN  /\ At(p, "open") \/ At(p, "open own")
      /\ inode_open(p, own /\ FreeFds(p) # {})
      /\ fd' = IF FreeFds(p) = {} THEN fd
               ELSE [fd EXCEPT ![p][Min(FreeFds(p))] = [inode |-> found[p].inode, deny_write |-> own]]
      /\ file_lock' = None
      /\ found' = [found EXCEPT ![p] = None]
      /\ Goto(p, "run")
      /\ UNCHANGED <<disk, unlocked, process, adding, intact, late>>

\* file_close() of descriptor i; l is where the last opener goes on.
CloseSlot(p, i, l) ==
  /\ fd[p][i] # None
  /\ file_close(fd[p][i])
  /\ fd' = [fd EXCEPT ![p][i] = None]
  /\ IF Last(fd[p][i]) THEN Goto(p, l) /\ found' = [found EXCEPT ![p] = Held(fd[p][i].inode)]
                       ELSE UNCHANGED <<pc, found>>
  /\ UNCHANGED <<disk, unlocked, file_lock, process, adding, intact, late>>

\* close() of a descriptor in use; any other exits.
close(p, i) == At(p, "run") /\ CloseSlot(p, i, "close")

Closed(p, l) ==
  /\ Release(found[p].inode)
  /\ found' = [found EXCEPT ![p] = None]
  /\ Goto(p, l)
  /\ UNCHANGED <<dir, fd, file_lock, process, adding, intact, late>>

\* write() up to the test of deny_write_cnt in inode_write_at(), which passes.
write(p, i) ==
  /\ At(p, "run") /\ file_lock = None /\ fd[p][i] # None
  /\ inode[fd[p][i].inode].deny = 0
  /\ file_lock' = p
  /\ found' = [found EXCEPT ![p] = Held(fd[p][i].inode)]
  /\ late' = {}
  /\ Goto(p, "write")
  /\ UNCHANGED <<disk, memory, process, adding, intact>>

\* The sector has been written to.
Written(p) ==
  /\ At(p, "write")
  /\ file_lock' = None
  /\ found' = [found EXCEPT ![p] = None]
  /\ late' = {}
  /\ Goto(p, "run")
  /\ UNCHANGED <<disk, memory, process, adding, intact>>

\* The buffer of read() or write() is not mapped: page_fault() calls exit(-1)
\* with file_lock held.
Fault(p) ==
  /\ \/ At(p, "run") /\ file_lock = None
     \/ At(p, "write")
  /\ file_lock' = p
  /\ found' = [found EXCEPT ![p] = None]
  /\ late' = {}
  /\ Goto(p, "exit")
  /\ UNCHANGED <<disk, memory, process, adding, intact>>

-----------------------------------------------------------------------------
(* exit(): called by the process, by a system call with a bad argument, or  *)
(* by page_fault().                                                         *)

exit(p) ==
  /\ At(p, "run")
  /\ Goto(p, "exit")
  /\ UNCHANGED <<disk, memory, file_lock, process, found, adding, intact, late>>

\* exit() closes the descriptors, and process_exit() the executable and then the
\* descriptors that the parent has added meanwhile.
ExitCloses(p, i) == At(p, "exit") /\ CloseSlot(p, i, "free")

Dies(p) ==
  /\ At(p, "exit") /\ \A i \in Slots : fd[p][i] = None
  /\ Goto(p, "dead")
  /\ name' = [name EXCEPT ![p] = None]
  /\ UNCHANGED <<disk, memory, file_lock, child, found, adding, intact, late>>

-----------------------------------------------------------------------------
\* The step of p uses or frees an inode that is not its own any more, or releases
\* a sector twice.
Breaks(p) ==
  /\ \/ intact /\ pc[p] \in Opening /\ found[p].at = "old" /\ ~Openable(p)
     \/ intact /\ pc[p] \in Closing /\ ~Releasable(found[p].inode)
     \/ At(p, "add") /\ ~Addable(p) /\ adding[p].sector \in free
  /\ intact' = FALSE
  /\ UNCHANGED <<disk, memory, file_lock, pc, process, found, adding, late>>

Others ==
  \/ \E p \in Procs :
       \/ inode_search(p) \/ inode_insert(p) \/ Breaks(p)
       \/ Created(p) \/ load(p) \/ Loading(p) \/ Deny(p) \/ Inherit(p)
       \/ Marked(p) \/ dir_add(p) \/ NotAdded(p) \/ Added(p)
       \/ Removing(p) \/ Erased(p) \/ inode_remove(p)
       \/ Opened(p) \/ Written(p) \/ Fault(p) \/ exit(p) \/ Dies(p)
       \/ At(p, "close") /\ Closed(p, "run")
       \/ At(p, "free") /\ Closed(p, "exit")
  \/ \E p, q \in Procs, n \in Names : exec(p, q, n)
  \/ \E p \in Procs, i \in Slots : close(p, i) \/ write(p, i) \/ ExitCloses(p, i)

Next ==
  \/ Others /\ UNCHANGED calls
  \/ \E p \in Procs, n \in Names :
       calls < MAX_CALLS /\ calls' = calls + 1 /\ (open(p, n) \/ create(p, n) \/ remove(p, n))

Spec == Init /\ [][Next]_vars
=============================================================================
