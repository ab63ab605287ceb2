----------------------------- MODULE FilesProofs -----------------------------
(***************************************************************************)
(* Proofs about module Files, for any finite sets of processes and inodes, *)
(* any names, sectors and directory entries, any number of descriptors and *)
(* of calls.                                                               *)
(***************************************************************************)
EXTENDS FilesProps, FiniteSetTheorems, NaturalsInduction,
        WellFoundedInduction, TLAPS

\* Where a process uses an inode that is its own, creates a file, removes one,
\* holds file_lock, and where it does not run a program.
Using    == {"erase", "unlink", "write"} \cup Closing
Creating == {"create", "add", "enter"}
Erasing  == {"erase", "unlink"}
Locking  == {"open", "open own", "write"}
Idle     == {"new", "load", "loading", "deny", "exit", "free", "dead"}

\* What the type invariant says of the locals in more detail.
Locals(p) ==
  /\ pc[p] \in Opening \cup Using => found[p] \in Found
  /\ pc[p] \in Using => found[p].inode \in Inodes
  /\ pc[p] \in Opening /\ found[p].at \in {"old", "new"} => found[p].inode \in Inodes
  /\ pc[p] \in Creating => adding[p] \in Adding

\* A process that is being created has one creator.
LocalsInv ==
  /\ \A p \in Procs : Locals(p)
  /\ \A p \in Procs : pc[p] = "exec" => child[p] \in Procs /\ pc[child[p]] = "new"
  /\ \A p \in Procs : pc[p] = "wait" => child[p] \in Procs
  /\ \A p, q \in Procs : child[p] = child[q] /\ child[p] # None => p = q

\* open() and write() hold the lock.
LockInv == \A p \in Procs : pc[p] \in Locking => file_lock = p

\* Whether file f names inode k and denies writes, or names it and does not;
\* and where among the descriptors F such files are.
Denies(f, k) == f # None /\ f.inode = k /\ f.deny_write
Allows(f, k) == f # None /\ f.inode = k /\ ~ f.deny_write

Denying(F, k)  == {u \in Procs \X Slots : Denies(F[u[1]][u[2]], k)}
Allowing(F, k) == {u \in Procs \X Slots : Allows(F[u[1]][u[2]], k)}

\* Who has opened inode k to remove its file.
Removers(k) == {p \in Procs : pc[p] \in Erasing /\ found[p].inode = k}

\* Of all three kinds the counters of an inode count enough.
Enough(k) ==
  IF inode[k] = None
  THEN /\ Cardinality(Denying(fd, k)) = 0 /\ Cardinality(Allowing(fd, k)) = 0
       /\ Cardinality(Removers(k)) = 0
  ELSE /\ inode[k].deny >= Cardinality(Denying(fd, k))
       /\ inode[k].open_cnt >= inode[k].deny + Cardinality(Allowing(fd, k)) + Cardinality(Removers(k))

CountInv == \A k \in Inodes : Enough(k)

\* A new inode stays in memory until it is initialised.
RawInv ==
  \A p \in Procs : pc[p] \in Opening /\ found[p].at = "new" => inode[found[p].inode] # None

\* Since an open() that found no inode began, only calls without the lock have
\* made one.
AloneInv ==
  \A p \in Procs :
    pc[p] \in {"open", "open own"} /\ found[p].at = "none" => Listed(found[p].sector) \subseteq unlocked

\* The executable denies writes as soon as load() has done so, and only load()
\* has it open before.
ExeInv ==
  \A p \in Procs :
    IF pc[p] = "deny" THEN fd[p][EXE] # None /\ ~ fd[p][EXE].deny_write
    ELSE fd[p][EXE] # None => fd[p][EXE].deny_write

ShareInv == RawInv /\ AloneInv /\ OpensShareInode

Inv ==
  TypeOK /\ LocalsInv /\ LockInv /\ CountInv /\ ShareInv /\ ExeInv /\ ExecutableProtected

-----------------------------------------------------------------------------
(***************************************************************************)
(* Counting the files that name an inode.                                  *)
(***************************************************************************)
Descriptors == [Procs -> [Slots -> File \cup {None}]]

LEMMA NatMin ==
  ASSUME NEW S \in SUBSET Nat, S # {}
  PROVE  Min(S) \in S
<1>1. PICK x \in S : \A y \in S : ~ (<<y, x>> \in OpToRel(<, Nat))
  BY NatLessThanWellFounded, WFMin
<1>2. \A y \in S : ~ (y < x)
  BY <1>1 DEF OpToRel
<1>3. \A y \in S : x =< y
  BY <1>2, SMT
<1> QED
  BY <1>3 DEF Min

LEMMA SlotFacts ==
  FilesAssumption => /\ Slots \subseteq Nat /\ EXE \in Slots /\ IsFiniteSet(Slots)
                     /\ 2 .. MAX_FD \subseteq Slots \ {EXE} /\ IsFiniteSet(2 .. MAX_FD)
BY FS_Interval DEF FilesAssumption, Slots, EXE

\* The kinds of a file are told apart, and of no file there is one.
LEMMA FileFacts ==
  FilesAssumption =>
    /\ \A f \in File : f # None /\ f.inode \in Inodes /\ f.deny_write \in BOOLEAN
    /\ \A k : ~ Denies(None, k) /\ ~ Allows(None, k)
    /\ \A r \in Inode : /\ r # None /\ r.sector \in Sectors /\ r.open_cnt \in Nat
                        /\ r.deny \in Nat /\ r.removed \in BOOLEAN
BY DEF FilesAssumption, File, Inode, Denies, Allows

LEMMA CountFacts ==
  ASSUME FilesAssumption, NEW F, NEW k
  PROVE  /\ IsFiniteSet(Denying(F, k)) /\ Cardinality(Denying(F, k)) \in Nat
         /\ IsFiniteSet(Allowing(F, k)) /\ Cardinality(Allowing(F, k)) \in Nat
<1>1. IsFiniteSet(Procs \X Slots)
  BY SlotFacts, FS_Product DEF FilesAssumption
<1>2. Denying(F, k) \subseteq Procs \X Slots /\ Allowing(F, k) \subseteq Procs \X Slots
  BY DEF Denying, Allowing
<1> QED
  BY <1>1, <1>2, FS_Subset, FS_CardinalityType

LEMMA RemoverFacts ==
  ASSUME FilesAssumption, NEW k
  PROVE  /\ IsFiniteSet(Removers(k)) /\ Cardinality(Removers(k)) \in Nat
         /\ IsFiniteSet(Removers(k)') /\ Cardinality(Removers(k)') \in Nat
<1>1. Removers(k) \subseteq Procs /\ Removers(k)' \subseteq Procs
  BY DEF Removers
<1> QED
  BY <1>1, FS_Subset, FS_CardinalityType DEF FilesAssumption

\* Taking x out of a finite set, and putting it in again or not.
LEMMA ChangeOne ==
  ASSUME NEW S, IsFiniteSet(S), NEW x, NEW b \in BOOLEAN
  PROVE  Cardinality((S \ {x}) \cup (IF b THEN {x} ELSE {}))
           = Cardinality(S) - (IF x \in S THEN 1 ELSE 0) + (IF b THEN 1 ELSE 0)
<1>1. /\ IsFiniteSet(S \ {x}) /\ Cardinality(S) \in Nat
      /\ Cardinality(S \ {x}) = Cardinality(S) - (IF x \in S THEN 1 ELSE 0)
  BY FS_RemoveElement, FS_CardinalityType
<1>2. CASE b
  <2>1. Cardinality((S \ {x}) \cup {x}) = Cardinality(S \ {x}) + 1
    BY <1>1, FS_AddElement
  <2> QED
    BY <1>1, <1>2, <2>1
<1>3. CASE ~b
  <2>1. (S \ {x}) \cup (IF b THEN {x} ELSE {}) = S \ {x}
    BY <1>3
  <2> QED
    BY <1>1, <1>3, <2>1
<1> QED
  BY <1>2, <1>3

\* One descriptor gets another file, or none.
PutFile(F, p, i, f) == [F EXCEPT ![p][i] = f]

LEMMA SlotChange ==
  ASSUME FilesAssumption, NEW F \in Descriptors, NEW p \in Procs, NEW i \in Slots,
         NEW f \in File \cup {None}, NEW G, G = PutFile(F, p, i, f)
  PROVE  /\ G \in Descriptors /\ G[p][i] = f
         /\ \A q \in Procs, j \in Slots : <<q, j>> # <<p, i>> => G[q][j] = F[q][j]
         /\ \A k :
              /\ Cardinality(Denying(G, k)) =
                   Cardinality(Denying(F, k)) - (IF Denies(F[p][i], k) THEN 1 ELSE 0)
                                              + (IF Denies(f, k) THEN 1 ELSE 0)
              /\ Cardinality(Allowing(G, k)) =
                   Cardinality(Allowing(F, k)) - (IF Allows(F[p][i], k) THEN 1 ELSE 0)
                                               + (IF Allows(f, k) THEN 1 ELSE 0)
<1>1. /\ G \in Descriptors /\ G[p][i] = f
      /\ \A q \in Procs, j \in Slots : <<q, j>> # <<p, i>> => G[q][j] = F[q][j]
  <2>1. G = [F EXCEPT ![p] = [F[p] EXCEPT ![i] = f]]
    BY DEF PutFile
  <2>2. [F[p] EXCEPT ![i] = f] \in [Slots -> File \cup {None}]
    BY DEF Descriptors
  <2> QED
    BY <2>1, <2>2 DEF Descriptors
<1>2. ASSUME NEW k  PROVE
      /\ Denying(G, k) = (Denying(F, k) \ {<<p, i>>}) \cup (IF Denies(f, k) THEN {<<p, i>>} ELSE {})
      /\ Allowing(G, k) = (Allowing(F, k) \ {<<p, i>>}) \cup (IF Allows(f, k) THEN {<<p, i>>} ELSE {})
      /\ <<p, i>> \in Denying(F, k) <=> Denies(F[p][i], k)
      /\ <<p, i>> \in Allowing(F, k) <=> Allows(F[p][i], k)
  <2>1. \A u \in Procs \X Slots : u # <<p, i>> => G[u[1]][u[2]] = F[u[1]][u[2]]
    BY <1>1
  <2>2. <<p, i>> \in Procs \X Slots /\ <<p, i>>[1] = p /\ <<p, i>>[2] = i
    OBVIOUS
  <2> QED
    BY <1>1, <2>1, <2>2 DEF Denying, Allowing
<1>3. ASSUME NEW k  PROVE Denies(f, k) \in BOOLEAN /\ Allows(f, k) \in BOOLEAN
  BY FileFacts DEF Denies, Allows
<1>4. ASSUME NEW k  PROVE
      Cardinality(Denying(G, k)) =
        Cardinality(Denying(F, k)) - (IF Denies(F[p][i], k) THEN 1 ELSE 0)
                                   + (IF Denies(f, k) THEN 1 ELSE 0)
  <2>1. Cardinality((Denying(F, k) \ {<<p, i>>}) \cup (IF Denies(f, k) THEN {<<p, i>>} ELSE {}))
          = Cardinality(Denying(F, k)) - (IF <<p, i>> \in Denying(F, k) THEN 1 ELSE 0)
                                       + (IF Denies(f, k) THEN 1 ELSE 0)
    BY <1>3, CountFacts, ChangeOne
  <2> QED
    BY <1>2, <2>1
<1>5. ASSUME NEW k  PROVE
      Cardinality(Allowing(G, k)) =
        Cardinality(Allowing(F, k)) - (IF Allows(F[p][i], k) THEN 1 ELSE 0)
                                    + (IF Allows(f, k) THEN 1 ELSE 0)
  <2>1. Cardinality((Allowing(F, k) \ {<<p, i>>}) \cup (IF Allows(f, k) THEN {<<p, i>>} ELSE {}))
          = Cardinality(Allowing(F, k)) - (IF <<p, i>> \in Allowing(F, k) THEN 1 ELSE 0)
                                        + (IF Allows(f, k) THEN 1 ELSE 0)
    BY <1>3, CountFacts, ChangeOne
  <2> QED
    BY <1>2, <2>1
<1> QED
  BY <1>1, <1>4, <1>5

\* The counters of one inode are set.
SetCounters(I, k, o, d) == [I EXCEPT ![k].open_cnt = o, ![k].deny = d]

LEMMA CountersChange ==
  ASSUME FilesAssumption, NEW I \in [Inodes -> Inode \cup {None}], NEW k \in Inodes,
         I[k] # None, NEW o \in Nat, NEW d \in Nat, NEW J, J = SetCounters(I, k, o, d)
  PROVE  /\ J \in [Inodes -> Inode \cup {None}] /\ J[k] \in Inode /\ J[k] # None
         /\ J[k].open_cnt = o /\ J[k].deny = d
         /\ J[k].sector = I[k].sector /\ J[k].removed = I[k].removed
         /\ \A j \in Inodes \ {k} : J[j] = I[j]
<1> DEFINE r == [I[k] EXCEPT !.open_cnt = o, !.deny = d]
<1>1. I[k] \in Inode
  OBVIOUS
<1>2. /\ r \in Inode /\ r # None /\ r.open_cnt = o /\ r.deny = d
      /\ r.sector = I[k].sector /\ r.removed = I[k].removed
  BY <1>1 DEF Inode, FilesAssumption
<1>3. J = [I EXCEPT ![k] = r]
  BY <1>1 DEF Inode, SetCounters
<1> HIDE DEF r
<1> QED
  BY <1>2, <1>3


-----------------------------------------------------------------------------
(***************************************************************************)
(* What follows from the invariant.                                        *)
(***************************************************************************)
LEMMA Types ==
  ASSUME Inv
  PROVE  /\ dir \in [Entries -> Entry \cup {None}] /\ free \subseteq Sectors
         /\ inode \in [Inodes -> Inode \cup {None}] /\ fd \in Descriptors
         /\ file_lock \in Procs \cup {None} /\ pc \in [Procs -> Places]
         /\ name \in [Procs -> Names \cup {None}] /\ child \in [Procs -> Procs \cup {None}]
         /\ found \in [Procs -> Found \cup {None}] /\ adding \in [Procs -> Adding \cup {None}]
         /\ intact \in BOOLEAN /\ calls \in Nat /\ unlocked \subseteq Inodes /\ late \subseteq Procs
BY DEF Inv, TypeOK, Descriptors

LEMMA InodeFacts ==
  ASSUME FilesAssumption, Inv, NEW k \in Inodes, inode[k] # None
  PROVE  /\ inode[k] \in Inode /\ inode[k].open_cnt \in Nat /\ inode[k].deny \in Nat
         /\ inode[k].sector \in Sectors /\ inode[k].removed \in BOOLEAN
         /\ inode[k].deny >= Cardinality(Denying(fd, k))
         /\ inode[k].open_cnt >= inode[k].deny + Cardinality(Allowing(fd, k)) + Cardinality(Removers(k))
<1>1. inode[k] \in Inode
  BY Types
<1> QED
  BY <1>1, FileFacts DEF Inv, CountInv, Enough

\* A file that names an inode is one of those that its counters count, ...
LEMMA CountedIn ==
  ASSUME FilesAssumption, Inv, NEW p \in Procs, NEW i \in Slots, NEW f, f = fd[p][i], f # None,
         NEW k, k = f.inode
  PROVE  /\ f \in File /\ k \in Inodes /\ inode[k] \in Inode /\ inode[k] # None
         /\ inode[k].open_cnt \in Nat /\ inode[k].deny \in Nat /\ inode[k].open_cnt >= 1
         /\ f.deny_write => Denies(f, k) /\ ~ Allows(f, k) /\ inode[k].deny >= 1
         /\ ~ f.deny_write => /\ Allows(f, k) /\ ~ Denies(f, k)
                              /\ inode[k].open_cnt >= inode[k].deny + 1
<1>1. f \in File
  <2>1. fd \in [Procs -> [Slots -> File \cup {None}]]
    BY DEF Inv, TypeOK
  <2> QED
    BY <2>1
<1>2. k \in Inodes
  BY <1>1, FileFacts
<1>3. inode[k] # None =>
        /\ inode[k] \in Inode /\ inode[k].deny \in Nat /\ inode[k].open_cnt \in Nat
        /\ inode[k].deny >= Cardinality(Denying(fd, k))
        /\ inode[k].open_cnt >= inode[k].deny + Cardinality(Allowing(fd, k)) + Cardinality(Removers(k))
  BY <1>2, InodeFacts
<1>4. /\ Cardinality(Denying(fd, k)) \in Nat /\ Cardinality(Allowing(fd, k)) \in Nat
      /\ Cardinality(Removers(k)) \in Nat
      /\ inode[k] = None => Cardinality(Denying(fd, k)) = 0 /\ Cardinality(Allowing(fd, k)) = 0
  BY <1>2, CountFacts, RemoverFacts DEF Inv, CountInv, Enough
<1>5. <<p, i>> \in Procs \X Slots /\ <<p, i>>[1] = p /\ <<p, i>>[2] = i
  OBVIOUS
<1>6. CASE f.deny_write
  <2>1. <<p, i>> \in Denying(fd, k) /\ Denies(f, k) /\ ~ Allows(f, k)
    BY <1>5, <1>6 DEF Denying, Denies, Allows
  <2>2. Cardinality(Denying(fd, k)) # 0
    BY <2>1, CountFacts, FS_EmptySet
  <2> QED
    BY <1>1, <1>2, <1>3, <1>4, <1>6, <2>1, <2>2
<1>7. CASE ~ f.deny_write
  <2>1. <<p, i>> \in Allowing(fd, k) /\ Allows(f, k) /\ ~ Denies(f, k)
    BY <1>5, <1>7 DEF Allowing, Denies, Allows
  <2>2. Cardinality(Allowing(fd, k)) # 0
    BY <2>1, CountFacts, FS_EmptySet
  <2> QED
    BY <1>1, <1>2, <1>3, <1>4, <1>7, <2>1, <2>2
<1> QED
  BY <1>6, <1>7

\* ... and so is one that is being removed.
LEMMA RemoverIn ==
  ASSUME FilesAssumption, Inv, NEW p \in Procs, pc[p] \in Erasing, NEW k, k = found[p].inode
  PROVE  /\ k \in Inodes /\ inode[k] \in Inode /\ inode[k] # None
         /\ inode[k].open_cnt \in Nat /\ inode[k].deny \in Nat
         /\ inode[k].open_cnt >= inode[k].deny + 1
<1>1. k \in Inodes
  BY DEF Inv, LocalsInv, Locals, Using, Erasing
<1>2. p \in Removers(k)
  BY DEF Removers
<1>3. Cardinality(Removers(k)) \in Nat /\ Cardinality(Removers(k)) # 0
  BY <1>2, RemoverFacts, FS_EmptySet
<1>4. inode[k] # None
  BY <1>1, <1>3 DEF Inv, CountInv, Enough
<1>5. /\ inode[k] \in Inode /\ inode[k].open_cnt \in Nat /\ inode[k].deny \in Nat
      /\ inode[k].open_cnt >= inode[k].deny + Cardinality(Allowing(fd, k)) + Cardinality(Removers(k))
  BY <1>1, <1>4, InodeFacts
<1>6. Cardinality(Allowing(fd, k)) \in Nat
  BY CountFacts
<1> QED
  BY <1>1, <1>3, <1>4, <1>5, <1>6

\* Nothing that p does to the lock surprises another process.
Sole(p) == \A q \in Procs \ {p} : pc[q] \notin Locking

LEMMA SoleFacts ==
  ASSUME FilesAssumption, Inv, NEW p \in Procs, file_lock = None \/ pc[p] \in Locking
  PROVE  Sole(p)
BY DEF Inv, LockInv, Sole, FilesAssumption

-----------------------------------------------------------------------------
(***************************************************************************)
(* What a step leaves alone.                                               *)
(***************************************************************************)
\* Process p goes to place l, and only its locals change.
Moves(p, l) ==
  /\ l \in Places /\ pc' = [pc EXCEPT ![p] = l]
  /\ found' \in [Procs -> Found \cup {None}] /\ \A q \in Procs \ {p} : found'[q] = found[q]
  /\ adding' \in [Procs -> Adding \cup {None}] /\ \A q \in Procs \ {p} : adding'[q] = adding[q]

LEMMA MovesFacts ==
  ASSUME Inv, NEW p \in Procs, NEW l, Moves(p, l)
  PROVE  /\ pc' \in [Procs -> Places] /\ pc'[p] = l
         /\ \A q \in Procs \ {p} : pc'[q] = pc[q] /\ found'[q] = found[q]
BY Types DEF Moves

\* It is neither created nor creates another, and takes file_lock when it is free
\* and releases it when it has it.
Calm(p, l) ==
  /\ Moves(p, l) /\ Locals(p)'
  /\ pc[p] # "new" /\ l # "new" /\ (l \in {"exec", "wait"} => l = pc[p] /\ UNCHANGED child)
  /\ child' \in {child, [child EXCEPT ![p] = None]} /\ name' \in [Procs -> Names \cup {None}]
  /\ file_lock' \in Procs \cup {None} /\ (file_lock' = file_lock \/ Sole(p))
  /\ l \in Locking => file_lock' = p
  /\ late' \subseteq Procs /\ intact' \in BOOLEAN /\ calls' \in Nat

LEMMA CalmStep ==
  ASSUME FilesAssumption, Inv, NEW p \in Procs, NEW l, Calm(p, l),
         dir' \in [Entries -> Entry \cup {None}], free' \subseteq Sectors,
         inode' \in [Inodes -> Inode \cup {None}], fd' \in Descriptors, unlocked' \subseteq Inodes
  PROVE  TypeOK' /\ LocalsInv' /\ LockInv'
<1>1. /\ pc' \in [Procs -> Places] /\ pc'[p] = l
      /\ \A q \in Procs \ {p} : /\ pc'[q] = pc[q] /\ found'[q] = found[q]
                                /\ adding'[q] = adding[q]
  BY MovesFacts DEF Calm, Moves
<1>2. /\ child' \in [Procs -> Procs \cup {None}]
      /\ \A q \in Procs \ {p} : child'[q] = child[q]
      /\ child'[p] \in {child[p], None}
      /\ l \in {"exec", "wait"} => child'[p] = child[p]
  BY Types DEF Calm
<1>3. TypeOK'
  BY <1>1, <1>2 DEF Calm, Moves, TypeOK, Descriptors
<1>4. LocalsInv'
  <2>1. LocalsInv
    BY DEF Inv
  <2>2. \A q \in Procs : Locals(q)'
    BY <1>1, <2>1 DEF Calm, LocalsInv, Locals
  <2>3. \A q \in Procs : pc'[q] = "exec" => child'[q] \in Procs /\ pc'[child'[q]] = "new"
    BY <1>1, <1>2, <2>1 DEF Calm, LocalsInv
  <2>4. \A q \in Procs : pc'[q] = "wait" => child'[q] \in Procs
    BY <1>1, <1>2, <2>1 DEF Calm, LocalsInv
  <2>5. \A q, r \in Procs : child'[q] = child'[r] /\ child'[q] # None => q = r
    BY <1>2, <2>1 DEF LocalsInv
  <2> QED
    BY <2>2, <2>3, <2>4, <2>5 DEF LocalsInv
<1>5. LockInv'
  BY <1>1 DEF Calm, Sole, Inv, LockInv
<1> QED
  BY <1>3, <1>4, <1>5

\* Nobody begins to remove a file or has removed one.
LEMMA RemoversKept ==
  ASSUME Inv,
         \A q \in Procs : /\ pc'[q] \in Erasing <=> pc[q] \in Erasing
                          /\ pc'[q] \in Erasing => found'[q].inode = found[q].inode
  PROVE  \A k : Removers(k)' = Removers(k)
BY DEF Removers

\* The inodes stand for the same sectors, and nobody makes one.
LEMMA ShareKept ==
  ASSUME Inv, unlocked' = unlocked,
         \A k \in Inodes :
           /\ inode'[k] = None <=> inode[k] = None
           /\ inode[k] # None => inode'[k].sector = inode[k].sector,
         \A q \in Procs : pc'[q] \in Opening =>
           \/ pc'[q] = pc[q] /\ found'[q] = found[q]
           \/ found'[q].at \in {"list", "old"}
           \/ found'[q].at = "none" /\ Listed(found'[q].sector) = {}
  PROVE  ShareInv'
<1>1. \A s : Listed(s)' = Listed(s)
  BY DEF Listed
<1>2. ASSUME NEW q \in Procs, pc'[q] \in Opening, found'[q].at = "new"
      PROVE  inode'[found'[q].inode] # None
  <2>1. pc'[q] = pc[q] /\ found'[q] = found[q]
    BY <1>2
  <2>2. found[q].inode \in Inodes /\ inode[found[q].inode] # None
    BY <1>2, <2>1 DEF Inv, LocalsInv, Locals, ShareInv, RawInv
  <2> QED
    BY <2>1, <2>2
<1>3. AloneInv'
  BY <1>1 DEF Inv, ShareInv, AloneInv, Opening
<1>4. OpensShareInode'
  BY DEF Inv, ShareInv, OpensShareInode
<1> QED
  BY <1>2, <1>3, <1>4 DEF ShareInv, RawInv

\* Nothing is done to an executable but that its descriptor may be closed.
LEMMA ExeKept ==
  ASSUME Inv,
         \A q \in Procs : /\ pc'[q] = "deny" <=> pc[q] = "deny"
                          /\ \/ fd'[q][EXE] = fd[q][EXE]
                             \/ fd'[q][EXE] = None /\ pc[q] # "deny"
  PROVE  ExeInv'
BY DEF Inv, ExeInv

\* Nobody starts a program or begins to write.
LEMMA ProtectedKept ==
  ASSUME Inv,
         \A q \in Procs : /\ \/ pc'[q] \in Idle
                             \/ pc[q] \notin Idle /\ fd'[q][EXE] \in {fd[q][EXE], None}
                          /\ pc'[q] = "write" => pc[q] = "write" /\ found'[q] = found[q],
         late' = late \/ \A q \in Procs : pc'[q] # "write"
  PROVE  ExecutableProtected'
<1>1. \A q \in Procs : \A k : Executes(q, k)' => Executes(q, k)
  BY DEF Executes, Idle
<1> QED
  BY <1>1 DEF Inv, ExecutableProtected

\* The counters of inode k are right in the next state too if they grow at least
\* as much as what they count.
Covered(k) ==
  IF inode[k] = None
  THEN /\ inode'[k] = None
       /\ Cardinality(Denying(fd', k)) <= Cardinality(Denying(fd, k))
       /\ Cardinality(Allowing(fd', k)) + Cardinality(Removers(k)')
            <= Cardinality(Allowing(fd, k)) + Cardinality(Removers(k))
  ELSE /\ inode'[k] \in Inode
       /\ Cardinality(Denying(fd', k)) + inode[k].deny <= Cardinality(Denying(fd, k)) + inode'[k].deny
       /\ Cardinality(Allowing(fd', k)) + Cardinality(Removers(k)') + inode[k].open_cnt + inode'[k].deny
            <= Cardinality(Allowing(fd, k)) + Cardinality(Removers(k)) + inode'[k].open_cnt + inode[k].deny

LEMMA CoveredCounts ==
  ASSUME FilesAssumption, Inv, \A k \in Inodes : Covered(k)
  PROVE  CountInv'
<1> SUFFICES ASSUME NEW k \in Inodes  PROVE Enough(k)'
  BY DEF CountInv
<1>1. PICK D \in Nat, A \in Nat, R \in Nat, D1 \in Nat, A1 \in Nat, R1 \in Nat :
        /\ D = Cardinality(Denying(fd, k)) /\ A = Cardinality(Allowing(fd, k))
        /\ R = Cardinality(Removers(k)) /\ R1 = Cardinality(Removers(k)')
        /\ D1 = Cardinality(Denying(fd', k)) /\ A1 = Cardinality(Allowing(fd', k))
  BY CountFacts, RemoverFacts
<1>2. CASE inode[k] = None
  <2>1. D = 0 /\ A = 0 /\ R = 0
    BY <1>1, <1>2 DEF Inv, CountInv, Enough
  <2>2. inode'[k] = None /\ D1 = 0 /\ A1 = 0 /\ R1 = 0
    <3>1. inode'[k] = None /\ D1 <= D /\ A1 + R1 <= A + R
      BY <1>1, <1>2 DEF Covered
    <3> QED
      BY <2>1, <3>1
  <2> QED
    BY <1>1, <2>2 DEF Enough
<1>3. CASE inode[k] # None
  <2>1. PICK o \in Nat, d \in Nat : /\ o = inode[k].open_cnt /\ d = inode[k].deny
                                    /\ d >= D /\ o >= d + A + R
    BY <1>1, <1>3, InodeFacts
  <2>2. inode'[k] \in Inode /\ inode'[k] # None
    BY <1>3, FileFacts DEF Covered
  <2>3. PICK o1 \in Nat, d1 \in Nat : o1 = inode'[k].open_cnt /\ d1 = inode'[k].deny
    BY <2>2, FileFacts
  <2>4. D1 + d <= D + d1 /\ A1 + R1 + o + d1 <= A + R + o1 + d
    BY <1>1, <1>3, <2>1, <2>3 DEF Covered
  <2>5. d1 >= D1 /\ o1 >= d1 + A1 + R1
    BY <2>1, <2>4
  <2> QED
    BY <1>1, <2>2, <2>3, <2>5 DEF Enough
<1> QED
  BY <1>2, <1>3

\* Inodes and descriptors are left alone.
LEMMA SameCounts ==
  ASSUME Inv, UNCHANGED <<inode, fd>>, \A k : Removers(k)' = Removers(k)
  PROVE  CountInv'
BY DEF Inv, CountInv, Enough

-----------------------------------------------------------------------------
(***************************************************************************)
(* The steps that leave inodes and descriptors alone.                      *)
(***************************************************************************)
\* Process p goes to place l, where it does not find an inode that it has not
\* found there before, and runs no program that it did not run before.
Quiet(p, l) ==
  /\ Calm(p, l)
  /\ pc[p] \in Erasing <=> l \in Erasing
  /\ l \in Erasing => found'[p].inode = found[p].inode
  /\ l \in Opening => \/ found'[p].at \in {"list", "old"}
                      \/ found'[p].at = "none" /\ Listed(found'[p].sector) = {}
  /\ pc[p] # "deny" /\ l \notin {"deny", "write"} /\ (pc[p] \in Idle => l \in Idle)
  /\ late' = late \/ Sole(p)

\* Of what the invariant says of inodes and programs, this leaves what depends
\* on the counters.
LEMMA QuietKeeps ==
  ASSUME FilesAssumption, Inv, NEW p \in Procs, NEW l, Quiet(p, l), unlocked' = unlocked,
         \A k \in Inodes :
           /\ inode'[k] = None <=> inode[k] = None
           /\ inode[k] # None => inode'[k].sector = inode[k].sector,
         \A q \in Procs : fd'[q][EXE] = fd[q][EXE] \/ (q = p /\ fd'[q][EXE] = None)
  PROVE  /\ \A k : Removers(k)' = Removers(k)
         /\ ShareInv' /\ ExeInv' /\ ExecutableProtected'
<1>1. /\ pc'[p] = l
      /\ \A q \in Procs \ {p} : pc'[q] = pc[q] /\ found'[q] = found[q]
  BY MovesFacts DEF Quiet, Calm
<1>2. \A k : Removers(k)' = Removers(k)
  BY <1>1, RemoversKept DEF Quiet
<1>3. ShareInv'
  BY <1>1, ShareKept DEF Quiet
<1>4. ExeInv'
  BY <1>1, ExeKept DEF Quiet
<1>5. ExecutableProtected'
  BY <1>1, ProtectedKept DEF Quiet, Sole, Locking
<1> QED
  BY <1>2, <1>3, <1>4, <1>5

LEMMA QuietStep ==
  ASSUME FilesAssumption, Inv, NEW p \in Procs, NEW l, Quiet(p, l), UNCHANGED memory,
         dir' \in [Entries -> Entry \cup {None}], free' \subseteq Sectors
  PROVE  Inv'
<1>1. inode' = inode /\ fd' = fd /\ unlocked' = unlocked
  BY DEF memory
<1>2. TypeOK' /\ LocalsInv' /\ LockInv'
  BY <1>1, Types, CalmStep DEF Quiet
<1>3. /\ \A k : Removers(k)' = Removers(k)
      /\ ShareInv' /\ ExeInv' /\ ExecutableProtected'
  BY <1>1, QuietKeeps
<1>4. CountInv'
  BY <1>1, <1>3, SameCounts
<1> QED
  BY <1>2, <1>3, <1>4 DEF Inv

LEMMA FoundFacts ==
  /\ \A s \in Sectors, e \in Entries \cup {None}, k \in Inodes \cup {None},
        a \in {"list", "none", "old", "new"} :
       LET r == [sector |-> s, entry |-> e, inode |-> k, at |-> a]
       IN  r \in Found /\ r.sector = s /\ r.inode = k /\ r.at = a
  /\ \A r \in Found :
       LET u == [r EXCEPT !.at = "none"]
       IN  r.sector \in Sectors /\ u \in Found /\ u.sector = r.sector /\ u.at = "none"
BY DEF Found

\* The directory says which sector is looked for.
LEMMA LookupFacts ==
  ASSUME FilesAssumption, Inv, NEW p \in Procs, NEW n, Lookup(p, n)
  PROVE  /\ found' \in [Procs -> Found \cup {None}]
         /\ found'[p] \in Found /\ found'[p].at = "list"
         /\ \A q \in Procs \ {p} : found'[q] = found[q]
<1>1. PICK e \in Named(n) :
        found' = [found EXCEPT ![p] = [sector |-> dir[e].sector, entry |-> e, inode |-> None, at |-> "list"]]
  BY DEF Lookup
<1>2. e \in Entries /\ dir[e] \in Entry
  BY <1>1, Types DEF Named
<1>3. PICK s \in Sectors : s = dir[e].sector
  BY <1>2 DEF Entry
<1>4. PICK r \in Found : r = [sector |-> s, entry |-> e, inode |-> None, at |-> "list"] /\ r.at = "list"
  <2> DEFINE t == [sector |-> s, entry |-> e, inode |-> None, at |-> "list"]
  <2>1. t \in Found /\ t.at = "list"
    BY <1>2, FoundFacts
  <2> HIDE DEF t
  <2>2. \E r \in Found : r = t /\ r.at = "list"
    BY <2>1
  <2> QED
    BY <2>2 DEF t
<1>5. found' = [found EXCEPT ![p] = r]
  BY <1>1, <1>3, <1>4
<1> QED
  BY <1>4, <1>5, Types

LEMMA SearchStep ==
  ASSUME FilesAssumption, Inv, NEW p \in Procs, inode_search(p), calls' \in Nat
  PROVE  Inv'
<1>1. PICK l : l = pc[p] /\ l \in Opening
  BY DEF inode_search
<1>2. /\ found[p] \in Found /\ found[p].at = "list"
      /\ UNCHANGED <<dir, free, memory, file_lock, pc, name, child, adding, intact, late>>
  BY <1>1 DEF inode_search, Inv, LocalsInv, Locals, disk, process
<1>3. PICK r \in Found :
        /\ found' = [found EXCEPT ![p] = r]
        /\ r.sector = found[p].sector
        /\ \/ r.at = "old" /\ r.inode \in Inodes
           \/ r.at = "none" /\ Listed(r.sector) = {}
  <2>1. CASE \E k \in Listed(found[p].sector) :
               found' = [found EXCEPT ![p].inode = k, ![p].at = "old"]
    <3>1. PICK k \in Inodes : found' = [found EXCEPT ![p].inode = k, ![p].at = "old"]
      BY <2>1 DEF Listed
    <3>2. PICK r \in Found : /\ r = [found[p] EXCEPT !.inode = k, !.at = "old"]
                             /\ r.sector = found[p].sector /\ r.at = "old" /\ r.inode = k
      <4> DEFINE t == [found[p] EXCEPT !.inode = k, !.at = "old"]
      <4>1. t \in Found /\ t.sector = found[p].sector /\ t.at = "old" /\ t.inode = k
        <5>1. PICK u \in Found : u = found[p]
          BY <1>2
        <5>2. PICK a \in {"old", "new"} : a = "old"
          OBVIOUS
        <5>3. /\ [u EXCEPT !.inode = k, !.at = a] \in Found
              /\ [u EXCEPT !.inode = k, !.at = a].sector = u.sector
              /\ [u EXCEPT !.inode = k, !.at = a].inode = k
              /\ [u EXCEPT !.inode = k, !.at = a].at = a
          BY DEF Found
        <5> QED
          BY <5>1, <5>2, <5>3
      <4> HIDE DEF t
      <4>2. \E r \in Found : r = t /\ r.sector = found[p].sector /\ r.at = "old" /\ r.inode = k
        BY <4>1
      <4> QED
        BY <4>2 DEF t
    <3>3. found' = [found EXCEPT ![p] = r]
      BY <3>1, <3>2, <1>2, Types DEF Found
    <3> QED
      BY <3>2, <3>3
  <2>2. CASE Listed(found[p].sector) = {} /\ found' = [found EXCEPT ![p].at = "none"]
    <3>1. PICK r \in Found : /\ r = [found[p] EXCEPT !.at = "none"]
                             /\ r.sector = found[p].sector /\ r.at = "none"
      <4> DEFINE t == [found[p] EXCEPT !.at = "none"]
      <4>1. t \in Found /\ t.sector = found[p].sector /\ t.at = "none"
        BY <1>2, FoundFacts
      <4> HIDE DEF t
      <4>2. \E r \in Found : r = t /\ r.sector = found[p].sector /\ r.at = "none"
        BY <4>1
      <4> QED
        BY <4>2 DEF t
    <3>2. found' = [found EXCEPT ![p] = r]
      BY <2>2, <3>1
    <3> QED
      BY <2>2, <3>1, <3>2
  <2> QED
    BY <2>1, <2>2 DEF inode_search
<1>4. /\ found' \in [Procs -> Found \cup {None}] /\ found'[p] = r
      /\ \A q \in Procs \ {p} : found'[q] = found[q]
  BY <1>3, Types
<1>5. Moves(p, l)
  BY <1>1, <1>2, <1>4, Types DEF Moves
<1>6. Locals(p)'
  BY <1>1, <1>2, <1>3, <1>4 DEF Locals, Using, Opening, Closing, Creating
<1>7. Calm(p, l)
  <2>1. l \in Locking => file_lock = p
    BY <1>1 DEF Inv, LockInv
  <2>2. l \notin {"new", "wait"}
    BY <1>1 DEF Opening
  <2> QED
    BY <1>1, <1>2, <1>5, <1>6, <2>1, <2>2, Types DEF Calm
<1>8. Quiet(p, l)
  BY <1>1, <1>2, <1>3, <1>4, <1>7 DEF Quiet, Opening, Erasing
<1> QED
  BY <1>2, <1>8, Types, QuietStep

Shift(p, l) ==
  /\ pc' = [pc EXCEPT ![p] = l]
  /\ \/ pc[p] \in {"load", "exit"} /\ l \in {"loading", "exit", "dead"}
     \/ pc[p] = "run"
     \/ pc[p] = "write" /\ l \in {"run", "exit"}
  /\ \/ l \in Opening /\ \E n : Lookup(p, n)
     \/ l \notin Opening /\ found' \in {found, [found EXCEPT ![p] = None]}
  /\ file_lock' \in Procs \cup {None} /\ (l \in Locking => file_lock' = p)
  /\ \/ file_lock' = file_lock /\ late' = late
     \/ (file_lock = None \/ pc[p] \in Locking) /\ late' \in {late, {}}
  /\ UNCHANGED <<dir, free, memory, child, adding, intact>>
  /\ name' \in [Procs -> Names \cup {None}]

\* load(), the beginning of open() and remove(), the end of write(), and the
\* steps of a process that exits.
LEMMA MoveStep ==
  ASSUME FilesAssumption, Inv, NEW p \in Procs, calls' \in Nat,
         \/ load(p) \/ Written(p) \/ Fault(p) \/ exit(p) \/ Dies(p)
         \/ \E n \in Names : open(p, n) \/ remove(p, n)
  PROVE  Inv'
<1>1. PICK l \in {"loading", "open", "open own", "remove", "run", "exit", "dead"} : Shift(p, l)
  <2> USE Types DEF Shift, At, Goto, disk, process, Opening, Locking
  <2>1. CASE load(p)
    BY <2>1 DEF load
  <2>2. CASE Written(p)
    BY <2>2 DEF Written
  <2>7. CASE Fault(p)
    BY <2>7 DEF Fault
  <2>3. CASE exit(p)
    BY <2>3 DEF exit
  <2>4. CASE Dies(p)
    BY <2>4 DEF Dies
  <2>5. ASSUME NEW n \in Names, open(p, n)
        PROVE  \E l \in {"open", "open own"} : Shift(p, l)
    BY <2>5 DEF open, OpenAs
  <2>6. ASSUME NEW n \in Names, remove(p, n)
        PROVE  Shift(p, "remove")
    BY <2>6 DEF remove
  <2> QED
    BY <2>1, <2>2, <2>7, <2>3, <2>4, <2>5, <2>6
<1> USE DEF Shift
<1>2. /\ found' \in [Procs -> Found \cup {None}] /\ \A q \in Procs \ {p} : found'[q] = found[q]
      /\ l \in Opening => found'[p] \in Found /\ found'[p].at = "list"
  <2>1. CASE l \in Opening
    BY <1>1, <2>1, LookupFacts
  <2>2. CASE l \notin Opening
    BY <1>1, <2>2, Types
  <2> QED
    BY <2>1, <2>2
<1>3. pc[p] # "new" /\ l \in Places /\ l \notin {"new", "exec", "wait", "deny", "write"} \cup Erasing \cup Using \cup Creating
  BY <1>1 DEF Places, Using, Creating, Opening, Closing, Erasing
<1>4. Moves(p, l)
  BY <1>1, <1>2, <1>3, Types DEF Moves
<1>5. Locals(p)'
  <2>1. pc'[p] = l
    BY <1>4, MovesFacts
  <2> QED
    BY <1>2, <1>3, <2>1 DEF Locals
<1>6. Sole(p) \/ (file_lock' = file_lock /\ late' = late)
  BY <1>1, SoleFacts
<1>7. Calm(p, l)
  BY <1>1, <1>3, <1>4, <1>5, <1>6, Types DEF Calm
<1>8. Quiet(p, l)
  <2>1. pc[p] \notin Erasing \cup {"deny"} /\ (pc[p] \in Idle => l \in Idle)
    BY <1>1 DEF Erasing, Idle
  <2> QED
    BY <1>2, <1>3, <1>6, <1>7, <2>1 DEF Quiet
<1> QED
  BY <1>1, <1>8, Types, QuietStep

\* filesys_create().
LEMMA CreateStep ==
  ASSUME FilesAssumption, Inv, NEW p \in Procs, calls' \in Nat,
         \/ \E n \in Names : create(p, n)
         \/ Marked(p) \/ dir_add(p) \/ NotAdded(p) \/ Added(p)
  PROVE  Inv'
<1>1. PICK l \in {"create", "add", "enter", "run"} : pc' = [pc EXCEPT ![p] = l]
  BY DEF create, Marked, dir_add, NotAdded, Added, Goto
<1>2. /\ pc[p] \in {"run", "create", "add", "enter"} /\ (l # "create" => pc[p] # "run")
      /\ UNCHANGED <<memory, file_lock, name, child, found, intact, late>>
  BY <1>1, Types DEF create, Marked, dir_add, NotAdded, Added, At, Goto, process
<1>3. pc[p] # "run" => adding[p] \in Adding
  BY <1>2 DEF Inv, LocalsInv, Locals, Creating
<1>4. pc[p] # "run" => /\ adding[p].name \in Names /\ adding[p].sector \in Sectors
                       /\ \A e \in Entries : [adding[p] EXCEPT !.entry = e] \in Adding
  BY <1>3 DEF Adding
<1>5. PICK a \in Adding \cup {None} :
        adding' = [adding EXCEPT ![p] = a] /\ (l \in Creating => a \in Adding)
  <2>1. CASE \E n \in Names : create(p, n)
    <3>1. PICK n \in Names, s \in free :
            adding' = [adding EXCEPT ![p] = [name |-> n, sector |-> s, entry |-> None]]
      BY <2>1 DEF create
    <3>2. PICK b \in Adding : b = [name |-> n, sector |-> s, entry |-> None]
      BY <3>1, Types DEF Adding
    <3>3. adding' = [adding EXCEPT ![p] = b]
      BY <3>1, <3>2
    <3> QED
      BY <3>2, <3>3
  <2>2. CASE Marked(p)
    <3>1. adding' = [adding EXCEPT ![p] = adding[p]]
      BY <2>2, Types DEF Marked
    <3> QED
      BY <1>3, <2>2, <3>1 DEF Marked, At
  <2>3. CASE dir_add(p)
    <3>1. PICK e \in Entries : adding' = [adding EXCEPT ![p].entry = e]
      BY <2>3 DEF dir_add
    <3>2. PICK b \in Adding : b = [adding[p] EXCEPT !.entry = e]
      BY <1>4, <2>3 DEF dir_add, At
    <3>3. adding' = [adding EXCEPT ![p] = b]
      BY <3>1, <3>2
    <3> QED
      BY <3>2, <3>3
  <2>4. CASE NotAdded(p) \/ Added(p)
    <3>1. adding' = [adding EXCEPT ![p] = None] /\ pc' = [pc EXCEPT ![p] = "run"]
      BY <2>4 DEF NotAdded, Added, Goto
    <3>2. l = "run"
      BY <1>1, <3>1, Types
    <3> QED
      BY <3>1, <3>2 DEF Creating
  <2> QED
    BY <2>1, <2>2, <2>3, <2>4
<1>6. Moves(p, l)
  BY <1>1, <1>2, <1>5, Types DEF Moves, Places
<1>7. Locals(p)'
  <2>1. pc'[p] = l /\ adding'[p] = a
    BY <1>5, <1>6, Types, MovesFacts
  <2> QED
    BY <1>5, <2>1 DEF Locals, Opening, Using, Closing
<1>8. Calm(p, l)
  BY <1>1, <1>2, <1>6, <1>7, Types DEF Calm, Locking
<1>9. Quiet(p, l)
  BY <1>1, <1>2, <1>8 DEF Quiet, Erasing, Opening, Idle
<1>10. dir' \in [Entries -> Entry \cup {None}] /\ free' \subseteq Sectors
  <2>1. CASE Added(p)
    <3>1. adding[p].name \in Names /\ adding[p].sector \in Sectors
      BY <1>4, <2>1 DEF Added, At
    <3>2. PICK d \in Entry : d = [name |-> adding[p].name, sector |-> adding[p].sector]
      BY <3>1 DEF Entry
    <3> QED
      BY <2>1, <3>2, Types DEF Added
  <2>2. CASE NotAdded(p)
    <3>1. adding[p].sector \in Sectors
      BY <1>4, <2>2 DEF NotAdded, At
    <3> QED
      BY <2>2, <3>1, Types DEF NotAdded
  <2>3. CASE Marked(p) \/ dir_add(p) \/ \E n \in Names : create(p, n)
    BY <2>3, Types DEF Marked, dir_add, create, disk
  <2> QED
    BY <2>1, <2>2, <2>3
<1> QED
  BY <1>2, <1>9, <1>10, QuietStep

\* The entry is erased.
LEMMA ErasedStep ==
  ASSUME FilesAssumption, Inv, NEW p \in Procs, Erased(p), calls' \in Nat
  PROVE  Inv'
<1>1. /\ pc[p] = "erase" /\ pc' = [pc EXCEPT ![p] = "unlink"]
      /\ dir' = [dir EXCEPT ![found[p].entry] = None]
      /\ UNCHANGED <<free, memory, file_lock, name, child, found, adding, intact, late>>
  BY DEF Erased, At, Goto, process
<1>2. found[p] \in Found /\ found[p].inode \in Inodes
  BY <1>1 DEF Inv, LocalsInv, Locals, Using
<1>3. Moves(p, "unlink")
  BY <1>1, Types DEF Moves, Places
<1>4. Calm(p, "unlink")
  <2>1. Locals(p)'
    <3>1. pc'[p] = "unlink" /\ found'[p] = found[p]
      BY <1>1, <1>3, MovesFacts
    <3> QED
      BY <1>2, <3>1 DEF Locals, Opening, Creating
  <2> QED
    BY <1>1, <1>3, <2>1, Types DEF Calm, Locking
<1>5. Quiet(p, "unlink")
  BY <1>1, <1>4 DEF Quiet, Erasing, Opening, Idle
<1>6. dir' \in [Entries -> Entry \cup {None}] /\ free' \subseteq Sectors
  BY <1>1, Types
<1> QED
  BY <1>1, <1>5, <1>6, QuietStep

\* A call uses freed memory, and the model ends; or nothing happens.
LEMMA SameStep ==
  ASSUME Inv, UNCHANGED <<disk, memory, file_lock, pc, process, found, adding, late>>,
         intact' \in BOOLEAN, calls' \in Nat
  PROVE  Inv'
<1>1. UNCHANGED <<dir, free, inode, fd, unlocked, file_lock, pc, name, child, found, adding, late>>
  BY DEF disk, memory, process
<1>2. TypeOK' /\ LocalsInv' /\ LockInv' /\ ExeInv'
  BY <1>1 DEF Inv, TypeOK, LocalsInv, Locals, LockInv, ExeInv
<1>3. ShareInv' /\ ExecutableProtected'
  <2>1. ShareInv'
    BY <1>1 DEF Inv, ShareInv, RawInv, AloneInv, OpensShareInode, Listed
  <2>2. ExecutableProtected'
    BY <1>1 DEF Inv, ExecutableProtected, Executes
  <2> QED
    BY <2>1, <2>2
<1>4. CountInv'
  <2>1. \A k : Removers(k)' = Removers(k)
    BY <1>1 DEF Removers
  <2> QED
    BY <1>1, <2>1, SameCounts
<1> QED
  BY <1>2, <1>3, <1>4 DEF Inv

\* exec() chooses a process that nobody is creating.
LEMMA ExecStep ==
  ASSUME FilesAssumption, Inv, NEW p \in Procs, NEW q \in Procs, NEW n \in Names,
         exec(p, q, n), calls' \in Nat
  PROVE  Inv'
<1>1. /\ pc[p] = "run" /\ pc[q] = "new" /\ Lookup(p, n) /\ p # q
      /\ \A r \in Procs : child[r] # q
      /\ child' = [child EXCEPT ![p] = q] /\ name' = [name EXCEPT ![q] = n]
      /\ pc' = [pc EXCEPT ![p] = "exec"]
      /\ UNCHANGED <<dir, free, inode, fd, unlocked, file_lock, adding, intact, late>>
  BY DEF exec, At, Goto, disk, memory
<1>2. /\ found' \in [Procs -> Found \cup {None}]
      /\ found'[p] \in Found /\ found'[p].at = "list"
      /\ \A r \in Procs \ {p} : found'[r] = found[r]
  BY <1>1, LookupFacts
<1>3. /\ pc' \in [Procs -> Places] /\ pc'[p] = "exec"
      /\ \A r \in Procs \ {p} : pc'[r] = pc[r]
      /\ child' \in [Procs -> Procs \cup {None}] /\ child'[p] = q
      /\ \A r \in Procs \ {p} : child'[r] = child[r]
      /\ name' \in [Procs -> Names \cup {None}]
  BY <1>1, Types DEF Places, Opening
<1>4. TypeOK'
  BY <1>1, <1>2, <1>3, Types DEF TypeOK, Descriptors
<1>5. LocalsInv'
  <2>1. LocalsInv /\ q # None
    BY DEF Inv, FilesAssumption
  <2>2. \A r \in Procs : Locals(r)'
    BY <1>1, <1>2, <1>3, <2>1 DEF LocalsInv, Locals, Using, Closing, Creating
  <2>3. \A r \in Procs : pc'[r] = "exec" => child'[r] \in Procs /\ pc'[child'[r]] = "new"
    <3>1. ASSUME NEW r \in Procs \ {p}, pc'[r] = "exec"
          PROVE  child'[r] = child[r] /\ child[r] \in Procs \ {p, q} /\ pc[child[r]] = "new"
      BY <1>1, <1>3, <2>1, <3>1 DEF LocalsInv
    <3> QED
      BY <1>1, <1>3, <3>1
  <2>4. \A r \in Procs : pc'[r] = "wait" => child'[r] \in Procs
    BY <1>3, <2>1 DEF LocalsInv
  <2>5. \A r, u \in Procs : child'[r] = child'[u] /\ child'[r] # None => r = u
    BY <1>1, <1>3, <2>1 DEF LocalsInv
  <2> QED
    BY <2>2, <2>3, <2>4, <2>5 DEF LocalsInv
<1>6. LockInv'
  BY <1>1, <1>3 DEF Inv, LockInv, Locking
<1>7. \A k : Removers(k)' = Removers(k)
  BY <1>1, <1>2, <1>3, RemoversKept DEF Erasing
<1>8. ShareInv'
  BY <1>1, <1>2, <1>3, ShareKept
<1>9. ExeInv' /\ ExecutableProtected'
  <2>1. ExeInv'
    BY <1>1, <1>3, ExeKept
  <2>2. ExecutableProtected'
    BY <1>1, <1>2, <1>3, ProtectedKept DEF Idle
  <2> QED
    BY <2>1, <2>2
<1>10. CountInv'
  BY <1>1, <1>7, SameCounts
<1> QED
  BY <1>4, <1>5, <1>6, <1>8, <1>9, <1>10 DEF Inv

-----------------------------------------------------------------------------
(***************************************************************************)
(* inode_open().                                                           *)
(***************************************************************************)
\* Only a process that does not hold the lock puts an inode on the list while an
\* open() is between its search and its insertion.
LEMMA InsertStep ==
  ASSUME FilesAssumption, Inv, NEW p \in Procs, inode_insert(p), calls' \in Nat
  PROVE  Inv'
<1>1. PICK l : l = pc[p] /\ l \in Opening
  BY DEF inode_insert
<1>2. /\ found[p] \in Found /\ found[p].at = "none" /\ found[p].sector \in Sectors
      /\ UNCHANGED <<dir, free, fd, file_lock, pc, name, child, adding, intact, late>>
  BY <1>1, FoundFacts DEF inode_insert, Inv, LocalsInv, Locals, disk, process
<1>3. PICK k \in Inodes :
        /\ inode[k] = None
        /\ inode' = [inode EXCEPT ![k] = [sector |-> found[p].sector, open_cnt |-> 0,
                                         deny |-> 0, removed |-> FALSE]]
        /\ found' = [found EXCEPT ![p].inode = k, ![p].at = "new"]
        /\ unlocked' = IF l \in {"open", "open own"} THEN unlocked \ {k} ELSE unlocked \cup {k}
  BY <1>1 DEF inode_insert
<1>4. PICK i \in Inode : /\ inode' = [inode EXCEPT ![k] = i] /\ i # None
                         /\ i.sector = found[p].sector /\ i.open_cnt = 0 /\ i.deny = 0
  <2> DEFINE t == [sector |-> found[p].sector, open_cnt |-> 0, deny |-> 0, removed |-> FALSE]
  <2>1. t \in Inode /\ t.sector = found[p].sector /\ t.open_cnt = 0 /\ t.deny = 0
    BY <1>2 DEF Inode
  <2>2. inode' = [inode EXCEPT ![k] = t]
    BY <1>3
  <2> HIDE DEF t
  <2> QED
    BY <2>1, <2>2, FileFacts
<1>5. PICK r \in Found : /\ found' = [found EXCEPT ![p] = r]
                         /\ r.sector = found[p].sector /\ r.inode = k /\ r.at = "new"
  <2> DEFINE t == [found[p] EXCEPT !.inode = k, !.at = "new"]
  <2>1. PICK u \in Found : u = found[p]
    BY <1>2
  <2>2. t \in Found /\ t.sector = found[p].sector /\ t.inode = k /\ t.at = "new"
    BY <2>1 DEF Found
  <2>3. found' = [found EXCEPT ![p] = t]
    BY <1>2, <1>3, Types DEF Found
  <2> HIDE DEF t
  <2> QED
    BY <2>2, <2>3
<1>6. unlocked' = IF l \in {"open", "open own"} THEN unlocked \ {k} ELSE unlocked \cup {k}
  BY <1>3
<1>7. /\ found' \in [Procs -> Found \cup {None}] /\ found'[p] = r
      /\ \A q \in Procs \ {p} : found'[q] = found[q]
      /\ inode' \in [Inodes -> Inode \cup {None}] /\ inode'[k] = i
      /\ \A j \in Inodes \ {k} : inode'[j] = inode[j]
      /\ unlocked' \subseteq Inodes
  BY <1>4, <1>5, <1>6, Types
<1>8. TypeOK' /\ LocalsInv' /\ LockInv'
  <2>1. Moves(p, l)
    BY <1>1, <1>2, <1>7, Types DEF Moves
  <2>2. Locals(p)'
    BY <1>1, <1>2, <1>5, <1>7 DEF Locals, Using, Opening, Closing, Creating
  <2>3. l \in Locking => file_lock = p
    BY <1>1 DEF Inv, LockInv
  <2>4. l \notin {"new", "wait"}
    BY <1>1 DEF Opening
  <2>5. Calm(p, l)
    BY <1>1, <1>2, <2>1, <2>2, <2>3, <2>4, Types DEF Calm
  <2> QED
    BY <1>2, <1>7, <2>5, Types, CalmStep
<1>9. \A q \in Procs : /\ pc'[q] = pc[q]
                       /\ pc[q] \in Erasing \cup {"write"} => found'[q] = found[q]
  BY <1>1, <1>2, <1>7 DEF Erasing, Opening
<1>10. \A j : Removers(j)' = Removers(j)
  BY <1>9, RemoversKept
<1>11. CountInv'
  <2>1. PICK D \in Nat, A \in Nat, R \in Nat :
          /\ D = Cardinality(Denying(fd, k)) /\ A = Cardinality(Allowing(fd, k))
          /\ R = Cardinality(Removers(k))
    BY CountFacts, RemoverFacts
  <2>2. D = 0 /\ A = 0 /\ R = 0
    BY <1>3, <2>1 DEF Inv, CountInv, Enough
  <2>3. inode'[k].open_cnt = 0 /\ inode'[k].deny = 0 /\ inode'[k] # None
    BY <1>4, <1>7
  <2>4. /\ Cardinality(Denying(fd', k)) = 0 /\ Cardinality(Allowing(fd', k)) = 0
        /\ Cardinality(Removers(k)') = 0
    BY <1>2, <1>10, <2>1, <2>2
  <2>5. Enough(k)'
    BY <2>3, <2>4 DEF Enough
  <2>6. \A j \in Inodes \ {k} : Enough(j)'
    BY <1>2, <1>7, <1>10 DEF Inv, CountInv, Enough
  <2> QED
    BY <2>5, <2>6 DEF CountInv
<1>12. ExeInv' /\ ExecutableProtected'
  <2>1. ExeInv'
    BY <1>2, ExeKept
  <2>2. ExecutableProtected'
    BY <1>2, <1>9, ProtectedKept
  <2> QED
    BY <2>1, <2>2
<1>13. RawInv'
  BY <1>4, <1>5, <1>7, <1>9, FileFacts DEF Inv, ShareInv, RawInv
<1>14. \A q \in Procs \ {p} : pc[q] \in {"open", "open own"} => l \notin {"open", "open own"}
  BY <1>1 DEF Inv, LockInv, Locking
<1>15. \A j \in Inodes \ {k} : j \in unlocked' <=> j \in unlocked
  BY <1>6
<1>16. AloneInv'
  <2>1. ASSUME NEW q \in Procs, pc'[q] \in {"open", "open own"}, found'[q].at = "none",
               NEW j \in Listed(found[q].sector)'
        PROVE  j \in unlocked'
    <3>1. q # p /\ found'[q] = found[q] /\ pc[q] \in {"open", "open own"}
      BY <1>5, <1>7, <1>9, <2>1
    <3>2. CASE j = k
      BY <1>14, <1>6, <3>1, <3>2
    <3>3. CASE j # k
      <4>1. j \in Listed(found[q].sector)
        BY <1>7, <3>1, <3>3 DEF Listed
      <4> QED
        BY <1>15, <2>1, <3>1, <3>3, <4>1 DEF Inv, ShareInv, AloneInv, Listed
    <3> QED
      BY <3>2, <3>3
  <2> QED
    BY <2>1 DEF AloneInv
<1>17. OpensShareInode'
  <2>1. ASSUME NEW j \in Inodes \ {k}, inode'[j] # None, inode'[j].sector = inode'[k].sector
        PROVE  j \in unlocked' \/ k \in unlocked'
    <3>1. j \in Listed(found[p].sector)
      BY <1>4, <1>7, <2>1 DEF Listed
    <3>2. CASE l \in {"open", "open own"}
      BY <1>1, <1>2, <1>15, <3>1, <3>2 DEF Inv, ShareInv, AloneInv
    <3>3. CASE l \notin {"open", "open own"}
      BY <1>3, <3>3
    <3> QED
      BY <3>2, <3>3
  <2>2. ASSUME NEW j \in Inodes \ {k}, NEW m \in Inodes \ {k}, j # m,
               inode'[j] # None, inode'[m] # None, inode'[j].sector = inode'[m].sector
        PROVE  j \in unlocked' \/ m \in unlocked'
    BY <1>7, <1>15, <2>2 DEF Inv, ShareInv, OpensShareInode
  <2> QED
    BY <2>1, <2>2 DEF OpensShareInode
<1> QED
  BY <1>8, <1>11, <1>12, <1>13, <1>16, <1>17 DEF Inv, ShareInv

\* The inode has an opener more, who denies writing or does not.
OpenFacts(p, k, deny) ==
  /\ k \in Inodes /\ inode[k] # None
  /\ inode' \in [Inodes -> Inode \cup {None}] /\ inode'[k] # None
  /\ inode'[k].open_cnt = inode[k].open_cnt + 1
  /\ inode'[k].deny = inode[k].deny + IF deny THEN 1 ELSE 0
  /\ \A j \in Inodes : /\ inode'[j] = None <=> inode[j] = None
                       /\ inode[j] # None => inode'[j].sector = inode[j].sector
  /\ \A j \in Inodes \ {k} : inode'[j] = inode[j]

LEMMA Reopened ==
  ASSUME FilesAssumption, Inv, NEW p \in Procs, pc[p] \in Opening, NEW deny \in BOOLEAN,
         inode_open(p, deny)
  PROVE  OpenFacts(p, found[p].inode, deny)
<1>1. PICK k : k = found[p].inode
  OBVIOUS
<1>2. k \in Inodes /\ inode[k] # None
  <2>1. CASE found[p].at = "new"
    BY <1>1, <2>1 DEF Inv, LocalsInv, Locals, ShareInv, RawInv
  <2>2. CASE found[p].at = "old" /\ k \in Listed(found[p].sector)
    BY <2>2 DEF Listed
  <2> QED
    BY <1>1, <2>1, <2>2 DEF inode_open, Openable
<1>3. inode[k] \in Inode /\ inode[k].open_cnt \in Nat /\ inode[k].deny \in Nat
  BY <1>2, InodeFacts
<1>4. PICK o \in Nat, d \in Nat :
        o = inode[k].open_cnt + 1 /\ d = inode[k].deny + IF deny THEN 1 ELSE 0
  <2>1. inode[k].open_cnt + 1 \in Nat /\ inode[k].deny + (IF deny THEN 1 ELSE 0) \in Nat
    BY <1>3
  <2> QED
    BY <2>1
<1>5. inode' = SetCounters(inode, k, o, d)
  <2>1. inode' = [inode EXCEPT ![k].open_cnt = @ + 1, ![k].deny = IF deny THEN @ + 1 ELSE @]
    BY <1>1 DEF inode_open
  <2>2. CASE deny
    <3>1. inode' = [inode EXCEPT ![k].open_cnt = @ + 1, ![k].deny = @ + 1]
      BY <2>1, <2>2
    <3> QED
      BY <1>2, <1>3, <1>4, <2>2, <3>1, Types DEF Inode, SetCounters
  <2>3. CASE ~ deny
    <3>1. inode' = [inode EXCEPT ![k].open_cnt = @ + 1, ![k].deny = @]
      BY <2>1, <2>3
    <3>2. o = inode[k].open_cnt + 1 /\ d = inode[k].deny
      BY <1>3, <1>4, <2>3
    <3>3. inode' = [inode EXCEPT ![k] = [inode[k] EXCEPT !.open_cnt = o, !.deny = d]]
      BY <1>2, <1>3, <3>1, <3>2, Types DEF Inode
    <3> QED
      BY <1>2, <1>3, <3>3, Types DEF Inode, SetCounters
  <2> QED
    BY <2>2, <2>3
<1>6. /\ inode' \in [Inodes -> Inode \cup {None}] /\ inode'[k] # None
      /\ inode'[k].open_cnt = o /\ inode'[k].deny = d
      /\ inode'[k].sector = inode[k].sector
      /\ \A j \in Inodes \ {k} : inode'[j] = inode[j]
  BY <1>2, <1>5, Types, CountersChange
<1> QED
  BY <1>1, <1>2, <1>4, <1>6 DEF OpenFacts

Adds(p, k, deny, i) ==
  \/ fd' = fd /\ ~ deny /\ \A j : Removers(j)' \subseteq Removers(j) \cup (IF j = k THEN {p} ELSE {})
  \/ /\ fd' = [fd EXCEPT ![p][i] = [inode |-> k, deny_write |-> deny]]
     /\ \A j : Removers(j)' = Removers(j)

\* One more file, or one more process that removes the file, is counted.
LEMMA OpenCounts ==
  ASSUME FilesAssumption, Inv, NEW p \in Procs, NEW k, NEW deny \in BOOLEAN,
         OpenFacts(p, k, deny), NEW i \in Slots, Adds(p, k, deny, i)
  PROVE  /\ CountInv' /\ fd' \in Descriptors
         /\ \A q \in Procs, j \in Slots : <<q, j>> # <<p, i>> => fd'[q][j] = fd[q][j]
<1> DEFINE f == [inode |-> k, deny_write |-> deny]
           D(j) == Cardinality(Denying(fd, j))
           A(j) == Cardinality(Allowing(fd, j))
           R(j) == Cardinality(Removers(j))
           D1(j) == Cardinality(Denying(fd', j))
           A1(j) == Cardinality(Allowing(fd', j))
           R1(j) == Cardinality(Removers(j)')
<1>1. k \in Inodes
  BY DEF OpenFacts
<1>2. /\ f \in File /\ f # None
      /\ \A j : /\ Denies(f, j) <=> j = k /\ deny
                /\ Allows(f, j) <=> j = k /\ ~ deny
  <2>1. f \in File
    BY <1>1 DEF File
  <2> QED
    BY <2>1, FileFacts DEF Denies, Allows
<1> HIDE DEF f
<1>3. \A j : D(j) \in Nat /\ A(j) \in Nat /\ R(j) \in Nat /\ D1(j) \in Nat /\ A1(j) \in Nat /\ R1(j) \in Nat
  BY CountFacts, RemoverFacts
<1>4. /\ fd' \in Descriptors
      /\ \A q \in Procs, j \in Slots : <<q, j>> # <<p, i>> => fd'[q][j] = fd[q][j]
      /\ \A j : /\ D1(j) <= D(j) + (IF j = k /\ deny THEN 1 ELSE 0)
                /\ A1(j) + R1(j) <= A(j) + R(j) + (IF j = k /\ ~ deny THEN 1 ELSE 0)
  <2>1. CASE fd' = fd /\ ~ deny /\ \A j : Removers(j)' \subseteq Removers(j) \cup (IF j = k THEN {p} ELSE {})
    <3>1. ASSUME NEW j  PROVE R1(j) <= R(j) + (IF j = k THEN 1 ELSE 0)
      <4>1. IsFiniteSet(Removers(j)) /\ IsFiniteSet(Removers(j)')
        BY RemoverFacts
      <4>2. CASE j = k
        <5>1. /\ IsFiniteSet(Removers(j) \cup {p})
              /\ Cardinality(Removers(j) \cup {p}) \in {R(j), R(j) + 1}
          BY <4>1, FS_AddElement
        <5>2. R1(j) <= Cardinality(Removers(j) \cup {p})
          BY <2>1, <4>2, <5>1, FS_Subset
        <5> HIDE DEF R, R1
        <5> QED
          BY <1>3, <4>2, <5>1, <5>2
      <4>3. CASE j # k
        <5>1. Removers(j)' \subseteq Removers(j)
          BY <2>1, <4>3
        <5>2. R1(j) <= R(j)
          BY <4>1, <5>1, FS_Subset
        <5> HIDE DEF R, R1
        <5> QED
          BY <1>3, <4>3, <5>2
      <4> QED
        BY <4>2, <4>3
    <3>2. \A j : D1(j) = D(j) /\ A1(j) = A(j)
      BY <2>1
    <3>3. fd' \in Descriptors
      BY <2>1, Types
    <3> HIDE DEF D, A, R, D1, A1, R1
    <3> QED
      BY <1>3, <2>1, <3>1, <3>2, <3>3
  <2>2. CASE fd' = [fd EXCEPT ![p][i] = f] /\ \A j : Removers(j)' = Removers(j)
    <3>1. fd \in Descriptors /\ fd' = PutFile(fd, p, i, f)
      BY <2>2, Types DEF PutFile
    <3>2. /\ fd' \in Descriptors
          /\ \A q \in Procs, j \in Slots : <<q, j>> # <<p, i>> => fd'[q][j] = fd[q][j]
          /\ \A j : /\ D1(j) = D(j) - (IF Denies(fd[p][i], j) THEN 1 ELSE 0) + (IF Denies(f, j) THEN 1 ELSE 0)
                    /\ A1(j) = A(j) - (IF Allows(fd[p][i], j) THEN 1 ELSE 0) + (IF Allows(f, j) THEN 1 ELSE 0)
      BY <1>2, <3>1, SlotChange
    <3>3. \A j : R1(j) = R(j)
      BY <2>2
    <3> HIDE DEF D, A, R, D1, A1, R1
    <3>4. ASSUME NEW j
          PROVE  /\ D1(j) <= D(j) + (IF j = k /\ deny THEN 1 ELSE 0)
                 /\ A1(j) <= A(j) + (IF j = k /\ ~ deny THEN 1 ELSE 0)
      BY <1>2, <1>3, <3>2
    <3> QED
      BY <1>3, <3>2, <3>3, <3>4
  <2> QED
    BY <2>1, <2>2 DEF Adds, f
<1>5. ASSUME NEW j \in Inodes  PROVE Covered(j)
  <2>1. inode[j] = None => inode'[j] = None /\ j # k
    BY DEF OpenFacts
  <2>2. inode[j] # None => /\ inode'[j] \in Inode
                           /\ inode[j].open_cnt \in Nat /\ inode[j].deny \in Nat
                           /\ IF j = k THEN /\ inode'[j].open_cnt = inode[j].open_cnt + 1
                                            /\ inode'[j].deny = inode[j].deny + (IF deny THEN 1 ELSE 0)
                              ELSE inode'[j] = inode[j]
    <3>1. inode'[j] \in Inode \cup {None}
      BY DEF OpenFacts
    <3> QED
      BY <1>1, <3>1, InodeFacts DEF OpenFacts
  <2>3. /\ D1(j) <= D(j) + (IF j = k /\ deny THEN 1 ELSE 0)
        /\ A1(j) + R1(j) <= A(j) + R(j) + (IF j = k /\ ~ deny THEN 1 ELSE 0)
    BY <1>4
  <2> HIDE DEF D, A, R, D1, A1, R1
  <2>4. CASE inode[j] = None
    BY <1>3, <2>1, <2>3, <2>4 DEF Covered, D, A, R, D1, A1, R1
  <2>5. CASE inode[j] # None
    BY <1>3, <2>2, <2>3, <2>5 DEF Covered, D, A, R, D1, A1, R1
  <2> QED
    BY <2>4, <2>5
<1> QED
  BY <1>4, <1>5, CoveredCounts

\* The rest of inode_open(), for a process that goes on to l.
LEMMA OpenStep ==
  ASSUME FilesAssumption, Inv, NEW p \in Procs, pc[p] \in Opening \ {"exec"},
         NEW deny \in BOOLEAN, inode_open(p, deny),
         NEW l \in {"deny", "run", "erase"}, pc' = [pc EXCEPT ![p] = l],
         found' = IF l = "erase" THEN found ELSE [found EXCEPT ![p] = None],
         file_lock' = IF l = "run" THEN None ELSE file_lock, (l = "run" => pc[p] \in Locking),
         (l = "erase" => pc[p] = "remove"),
         UNCHANGED <<dir, free, unlocked, name, child, adding, intact, late>>, calls' \in Nat,
         fd' \in Descriptors, \A q \in Procs : q # p \/ l # "deny" => fd'[q][EXE] = fd[q][EXE]
  PROVE  /\ TypeOK' /\ LocalsInv' /\ LockInv' /\ ShareInv' /\ ExecutableProtected'
         /\ pc'[p] = l
         /\ \A q \in Procs \ {p} : pc'[q] = pc[q] /\ found'[q] = found[q]
<1>1. PICK k : k = found[p].inode /\ OpenFacts(p, k, deny)
  BY Reopened
<1>2. Moves(p, l)
  BY Types DEF Moves, Places
<1>3. /\ pc'[p] = l
      /\ \A q \in Procs \ {p} : pc'[q] = pc[q] /\ found'[q] = found[q]
  BY <1>2, MovesFacts
<1>4. Calm(p, l)
  <2>1. Locals(p)'
    <3>1. CASE l = "erase"
      <4>1. found'[p] = found[p] /\ found[p] \in Found /\ found[p].inode \in Inodes
        BY <1>1, <3>1 DEF Inv, LocalsInv, Locals, OpenFacts
      <4> QED
        BY <1>3, <3>1, <4>1 DEF Locals, Opening, Creating
    <3>2. CASE l # "erase"
      BY <1>3, <3>2 DEF Locals, Opening, Creating, Using, Closing
    <3> QED
      BY <3>1, <3>2
  <2>2. pc[p] # "new"
    BY DEF Opening
  <2>3. file_lock' \in Procs \cup {None} /\ (file_lock' = file_lock \/ Sole(p))
    BY SoleFacts, Types
  <2> QED
    BY <1>2, <2>1, <2>2, <2>3, Types DEF Calm, Locking
<1>5. inode' \in [Inodes -> Inode \cup {None}]
  BY <1>1 DEF OpenFacts
<1>6. TypeOK' /\ LocalsInv' /\ LockInv'
  BY <1>4, <1>5, Types, CalmStep
<1>7. ShareInv'
  BY <1>1, <1>3, ShareKept DEF OpenFacts, Opening
<1>8. ExecutableProtected'
  <2>1. \A q \in Procs : /\ \/ pc'[q] \in Idle
                            \/ pc[q] \notin Idle /\ fd'[q][EXE] \in {fd[q][EXE], None}
                         /\ pc'[q] = "write" => pc[q] = "write" /\ found'[q] = found[q]
    <3>1. pc[p] \notin Idle \/ l = "deny" \/ pc[p] = "loading"
      BY DEF Idle, Opening
    <3>2. l = "deny" \/ pc[p] # "loading"
      BY DEF Locking, Opening
    <3> QED
      BY <1>3, <3>1, <3>2 DEF Idle
  <2> QED
    BY <2>1, ProtectedKept
<1> QED
  BY <1>3, <1>6, <1>7, <1>8

LEMMA LoadingStep ==
  ASSUME FilesAssumption, Inv, NEW p \in Procs, Loading(p), calls' \in Nat
  PROVE  Inv'
<1>1. /\ pc[p] = "loading" /\ pc[p] \in Opening \ {"exec"} /\ inode_open(p, FALSE)
      /\ pc' = [pc EXCEPT ![p] = "deny"] /\ found' = [found EXCEPT ![p] = None]
      /\ fd' = [fd EXCEPT ![p][EXE] = [inode |-> found[p].inode, deny_write |-> FALSE]]
      /\ UNCHANGED <<dir, free, unlocked, file_lock, name, child, adding, intact, late>>
      /\ EXE \in Slots
  BY SlotFacts DEF Loading, At, Goto, disk, process, Opening
<1>2. PICK k : k = found[p].inode /\ OpenFacts(p, k, FALSE)
  BY <1>1, Reopened
<1>3. \A j : Removers(j)' = Removers(j)
  <2>1. pc' \in [Procs -> Places] /\ pc'[p] = "deny" /\ \A q \in Procs \ {p} : pc'[q] = pc[q] /\ found'[q] = found[q]
    BY <1>1, Types DEF Places
  <2> QED
    BY <1>1, <2>1, RemoversKept DEF Erasing
<1>4. /\ CountInv' /\ fd' \in Descriptors
      /\ \A q \in Procs, j \in Slots : <<q, j>> # <<p, EXE>> => fd'[q][j] = fd[q][j]
  <2>1. Adds(p, k, FALSE, EXE)
    BY <1>1, <1>2, <1>3 DEF Adds
  <2> QED
    BY <1>1, <1>2, <2>1, OpenCounts
<1>5. /\ TypeOK' /\ LocalsInv' /\ LockInv' /\ ShareInv' /\ ExecutableProtected'
      /\ pc'[p] = "deny" /\ \A q \in Procs \ {p} : pc'[q] = pc[q] /\ found'[q] = found[q]
  <2>1. \A q \in Procs \ {p} : fd'[q][EXE] = fd[q][EXE]
    BY <1>1, <1>4
  <2> QED
    BY <1>1, <1>4, <2>1, OpenStep
<1>6. ExeInv'
  <2>1. [inode |-> k, deny_write |-> FALSE] \in File
    BY <1>2 DEF File, OpenFacts
  <2>2. fd'[p][EXE] = [inode |-> k, deny_write |-> FALSE]
    BY <1>1, <1>2, Types DEF Descriptors
  <2>3. fd'[p][EXE] # None /\ ~ fd'[p][EXE].deny_write
    BY <2>1, <2>2, FileFacts
  <2> QED
    BY <1>1, <1>4, <1>5, <2>3 DEF Inv, ExeInv
<1> QED
  BY <1>4, <1>5, <1>6 DEF Inv

LEMMA OpenedStep ==
  ASSUME FilesAssumption, Inv, NEW p \in Procs, Opened(p), calls' \in Nat
  PROVE  Inv'
<1> DEFINE own == pc[p] = "open own"
           full == FreeFds(p) = {}
<1>1. /\ pc[p] \in {"open", "open own"} /\ pc[p] \in Opening \ {"exec"} /\ pc[p] \in Locking
      /\ inode_open(p, own /\ ~ full)
      /\ pc' = [pc EXCEPT ![p] = "run"] /\ found' = [found EXCEPT ![p] = None]
      /\ fd' = IF full THEN fd
               ELSE [fd EXCEPT ![p][Min(FreeFds(p))] = [inode |-> found[p].inode, deny_write |-> own]]
      /\ file_lock' = None
      /\ UNCHANGED <<dir, free, unlocked, name, child, adding, intact, late>>
  BY DEF Opened, At, Goto, disk, process, Opening, Locking
<1>2. PICK deny \in BOOLEAN : deny = (own /\ ~ full)
  OBVIOUS
<1>3. PICK k : k = found[p].inode /\ OpenFacts(p, k, deny)
  BY <1>1, <1>2, Reopened
<1>4. PICK i \in Slots \ {EXE} :
        \/ fd' = fd /\ ~ deny
        \/ fd' = [fd EXCEPT ![p][i] = [inode |-> k, deny_write |-> deny]]
  <2>1. CASE full
    <3>1. 2 \in Slots \ {EXE}
      BY DEF FilesAssumption, Slots, EXE
    <3> QED
      BY <1>1, <1>2, <2>1, <3>1
  <2>2. CASE ~ full
    <3>1. FreeFds(p) \subseteq Slots \ {EXE} /\ FreeFds(p) \in SUBSET Nat
      BY SlotFacts DEF FreeFds
    <3>2. Min(FreeFds(p)) \in Slots \ {EXE}
      BY <2>2, <3>1, NatMin
    <3> QED
      BY <1>1, <1>2, <1>3, <2>2, <3>2
  <2> QED
    BY <2>1, <2>2
<1> HIDE DEF own, full
<1>5. \A j : Removers(j)' = Removers(j)
  <2>1. pc' \in [Procs -> Places] /\ pc'[p] = "run" /\ \A q \in Procs \ {p} : pc'[q] = pc[q] /\ found'[q] = found[q]
    BY <1>1, Types DEF Places
  <2> QED
    BY <1>1, <2>1, RemoversKept DEF Erasing
<1>6. /\ CountInv' /\ fd' \in Descriptors
      /\ \A q \in Procs, j \in Slots : <<q, j>> # <<p, i>> => fd'[q][j] = fd[q][j]
  <2>1. \A j : Removers(j)' \subseteq Removers(j) \cup (IF j = k THEN {p} ELSE {})
    BY <1>5
  <2>2. Adds(p, k, deny, i)
    BY <1>4, <1>5, <2>1 DEF Adds
  <2> QED
    BY <1>3, <2>2, OpenCounts
<1>7. \A q \in Procs : fd'[q][EXE] = fd[q][EXE]
  BY <1>4, <1>6, SlotFacts
<1>8. /\ TypeOK' /\ LocalsInv' /\ LockInv' /\ ShareInv' /\ ExecutableProtected'
      /\ pc'[p] = "run" /\ \A q \in Procs \ {p} : pc'[q] = pc[q] /\ found'[q] = found[q]
  <2>1. inode_open(p, deny)
    BY <1>1, <1>2
  <2> QED
    BY <1>1, <1>6, <1>7, <2>1, OpenStep
<1>9. ExeInv'
  BY <1>1, <1>7, <1>8, ExeKept
<1> QED
  BY <1>6, <1>8, <1>9 DEF Inv

\* dir_remove() has opened the inode, without a descriptor.
LEMMA RemovingStep ==
  ASSUME FilesAssumption, Inv, NEW p \in Procs, Removing(p), calls' \in Nat
  PROVE  Inv'
<1>1. /\ pc[p] = "remove" /\ pc[p] \in Opening \ {"exec"} /\ inode_open(p, FALSE)
      /\ pc' = [pc EXCEPT ![p] = "erase"]
      /\ UNCHANGED <<dir, free, fd, unlocked, file_lock, name, child, found, adding, intact, late>>
  BY DEF Removing, At, Goto, disk, process, Opening
<1>2. PICK k : k = found[p].inode /\ OpenFacts(p, k, FALSE)
  BY <1>1, Reopened
<1>3. /\ TypeOK' /\ LocalsInv' /\ LockInv' /\ ShareInv' /\ ExecutableProtected'
      /\ pc'[p] = "erase" /\ \A q \in Procs \ {p} : pc'[q] = pc[q] /\ found'[q] = found[q]
  BY <1>1, Types, OpenStep
<1>4. \A j : Removers(j)' \subseteq Removers(j) \cup (IF j = k THEN {p} ELSE {})
  BY <1>1, <1>2, <1>3 DEF Removers
<1>5. CountInv'
  <2>1. Adds(p, k, FALSE, EXE)
    BY <1>1, <1>4 DEF Adds
  <2> QED
    BY <1>2, <2>1, SlotFacts, OpenCounts
<1>6. ExeInv'
  BY <1>1, <1>3, ExeKept
<1> QED
  BY <1>3, <1>5, <1>6 DEF Inv

\* The child begins at load(), and its creator waits: no other process has
\* this child.
LEMMA CreatedStep ==
  ASSUME FilesAssumption, Inv, NEW p \in Procs, Created(p), calls' \in Nat
  PROVE  Inv'
<1>1. PICK q \in Procs : /\ q = child[p] /\ q # p /\ pc[p] = "exec" /\ pc[q] = "new"
                         /\ pc' = [pc EXCEPT ![p] = "wait", ![q] = "load"]
  BY DEF Inv, LocalsInv, Created, At
<1>2. /\ inode_open(p, FALSE) /\ pc[p] \in Opening /\ found' = [found EXCEPT ![p] = None]
      /\ UNCHANGED <<dir, free, fd, unlocked, file_lock, name, child, adding, intact, late>>
  BY <1>1 DEF Created, disk, process, Opening
<1>3. PICK k : k = found[p].inode /\ OpenFacts(p, k, FALSE)
  BY <1>2, Reopened
<1>4. /\ pc' \in [Procs -> Places] /\ pc'[p] = "wait" /\ pc'[q] = "load"
      /\ \A r \in Procs \ {p, q} : pc'[r] = pc[r]
      /\ found' \in [Procs -> Found \cup {None}] /\ \A r \in Procs \ {p} : found'[r] = found[r]
  BY <1>1, <1>2, Types DEF Places
<1>5. TypeOK'
  BY <1>2, <1>3, <1>4, Types DEF TypeOK, OpenFacts, Descriptors
<1>6. LocalsInv'
  <2>1. LocalsInv /\ None \notin Procs
    BY DEF Inv, FilesAssumption
  <2>2. \A r \in Procs : Locals(r)'
    BY <1>2, <1>4, <2>1 DEF LocalsInv, Locals, Opening, Using, Closing, Creating
  <2>3. \A r \in Procs : pc'[r] = "exec" => child'[r] \in Procs /\ pc'[child'[r]] = "new"
    <3>1. ASSUME NEW r \in Procs, pc'[r] = "exec"
          PROVE  /\ child'[r] = child[r] /\ child[r] \in Procs \ {p, q} /\ pc[child[r]] = "new"
      BY <1>1, <1>2, <1>4, <2>1, <3>1 DEF LocalsInv
    <3> QED
      BY <1>4, <3>1
  <2>4. \A r \in Procs : pc'[r] = "wait" => child'[r] \in Procs
    BY <1>1, <1>2, <1>4, <2>1 DEF LocalsInv
  <2>5. \A r, u \in Procs : child'[r] = child'[u] /\ child'[r] # None => r = u
    BY <1>2, <2>1 DEF LocalsInv
  <2> QED
    BY <2>2, <2>3, <2>4, <2>5 DEF LocalsInv
<1>7. LockInv'
  BY <1>2, <1>4 DEF Inv, LockInv, Locking
<1>8. ShareInv'
  BY <1>2, <1>3, <1>4, ShareKept DEF OpenFacts, Opening
<1>9. ExeInv'
  BY <1>1, <1>2, <1>4, ExeKept
<1>10. ExecutableProtected'
  BY <1>1, <1>2, <1>4, ProtectedKept DEF Idle
<1>11. CountInv'
  <2>1. \A j : Removers(j)' = Removers(j)
    BY <1>1, <1>4, RemoversKept DEF Erasing
  <2>2. \A j : Removers(j)' \subseteq Removers(j) \cup (IF j = k THEN {p} ELSE {})
    BY <2>1
  <2>3. Adds(p, k, FALSE, EXE)
    BY <1>2, <2>2 DEF Adds
  <2> QED
    BY <1>3, <2>3, SlotFacts, OpenCounts
<1> QED
  BY <1>5, <1>6, <1>7, <1>8, <1>9, <1>10, <1>11 DEF Inv

-----------------------------------------------------------------------------
(***************************************************************************)
(* inode_write_at(), file_deny_write() and file_close().                   *)
(***************************************************************************)
LEMMA HeldFacts ==
  ASSUME FilesAssumption, Inv, NEW k \in Inodes, inode[k] # None
  PROVE  Held(k) \in Found /\ Held(k).inode = k /\ Held(k).at = "old"
BY InodeFacts, FoundFacts DEF Held

\* Who runs a program denies writing to its inode, which the test has excluded.
LEMMA WriteStep ==
  ASSUME FilesAssumption, Inv, NEW p \in Procs, NEW i \in Slots, write(p, i), calls' \in Nat
  PROVE  Inv'
<1>1. PICK f, k : f = fd[p][i] /\ k = f.inode
  OBVIOUS
<1>2. /\ pc[p] = "run" /\ file_lock = None /\ f # None /\ inode[k].deny = 0
      /\ file_lock' = p /\ found' = [found EXCEPT ![p] = Held(k)] /\ late' = {}
      /\ pc' = [pc EXCEPT ![p] = "write"]
      /\ UNCHANGED <<dir, free, inode, fd, unlocked, name, child, adding, intact>>
  BY <1>1 DEF write, At, Goto, disk, memory, process
<1>3. k \in Inodes /\ inode[k] # None
  BY <1>1, <1>2, CountedIn
<1>4. PICK h \in Found : h = Held(k) /\ h.inode = k
  BY <1>3, HeldFacts
<1>5. Moves(p, "write")
  BY <1>2, <1>4, Types DEF Moves, Places
<1>6. /\ pc'[p] = "write" /\ found'[p] = h
      /\ \A q \in Procs \ {p} : pc'[q] = pc[q] /\ found'[q] = found[q]
  BY <1>2, <1>4, <1>5, Types, MovesFacts
<1>7. Sole(p)
  BY <1>2, SoleFacts
<1>8. TypeOK' /\ LocalsInv' /\ LockInv'
  <2>1. Locals(p)'
    BY <1>3, <1>4, <1>6 DEF Locals, Opening, Creating
  <2>2. Calm(p, "write")
    BY <1>2, <1>5, <1>7, <2>1, Types DEF Calm
  <2> QED
    BY <1>2, <2>2, Types, CalmStep
<1>9. \A j : Removers(j)' = Removers(j)
  BY <1>2, <1>6, RemoversKept DEF Erasing
<1>10. ShareInv' /\ ExeInv'
  <2>1. ShareInv'
    BY <1>2, <1>6, ShareKept DEF Opening
  <2>2. ExeInv'
    BY <1>2, <1>6, ExeKept
  <2> QED
    BY <2>1, <2>2
<1>11. CountInv'
  BY <1>2, <1>9, SameCounts
<1>12. ExecutableProtected'
  <2>1. ASSUME NEW q \in Procs, Executes(q, k)'
        PROVE  FALSE
    <3>1. PICK g : g = fd[q][EXE]
      OBVIOUS
    <3>2. g # None /\ g.inode = k /\ pc[q] # "deny" /\ EXE \in Slots
      BY <1>2, <1>6, <2>1, <3>1, SlotFacts DEF Executes
    <3>3. g.deny_write
      BY <3>1, <3>2 DEF Inv, ExeInv
    <3>4. inode[k].deny >= 1
      BY <3>1, <3>2, <3>3, CountedIn
    <3> QED
      BY <1>2, <3>4
  <2>2. \A r \in Procs : pc'[r] = "write" => r = p
    BY <1>6, <1>7 DEF Sole, Locking
  <2> QED
    BY <1>4, <1>6, <2>1, <2>2 DEF ExecutableProtected, Executes
<1> QED
  BY <1>8, <1>10, <1>11, <1>12 DEF Inv

\* The counters of inode k, o and d, when g (or no file) takes the place of f.
Counted(f, g, k, o, d) ==
  /\ o = inode[k].open_cnt - (IF g = None THEN 1 ELSE 0)
  /\ d = inode[k].deny - (IF f.deny_write THEN 1 ELSE 0) + (IF Denies(g, k) THEN 1 ELSE 0)

\* Inodes and descriptors, when o and d become the counters of inode k.
SlotFactsNext(p, i, k, g, o) ==
  /\ fd' \in Descriptors /\ fd'[p][i] = g
  /\ \A q \in Procs, j \in Slots : <<q, j>> # <<p, i>> => fd'[q][j] = fd[q][j]
  /\ inode' \in [Inodes -> Inode \cup {None}] /\ inode'[k] # None /\ inode'[k].open_cnt = o
  /\ \A j \in Inodes : /\ inode'[j] = None <=> inode[j] = None
                       /\ inode[j] # None => inode'[j].sector = inode[j].sector

\* The file of a descriptor in use is closed, or becomes one that denies writes.
LEMMA SlotCounts ==
  ASSUME FilesAssumption, Inv, NEW p \in Procs, NEW i \in Slots, NEW f, f = fd[p][i], f # None,
         NEW k \in Inodes, k = f.inode,
         NEW g \in File \cup {None}, g # None => g.inode = k, fd' = PutFile(fd, p, i, g),
         NEW o \in Nat, NEW d \in Nat, Counted(f, g, k, o, d), inode' = SetCounters(inode, k, o, d),
         \A j : Removers(j)' = Removers(j)
  PROVE  CountInv' /\ SlotFactsNext(p, i, k, g, o)
<1>1. /\ f \in File /\ inode[k] \in Inode /\ inode[k] # None
      /\ inode[k].open_cnt \in Nat /\ inode[k].deny \in Nat
  BY CountedIn
<1>2. /\ inode' \in [Inodes -> Inode \cup {None}] /\ inode'[k] \in Inode /\ inode'[k] # None
      /\ inode'[k].open_cnt = o /\ inode'[k].deny = d
      /\ inode'[k].sector = inode[k].sector
      /\ \A j \in Inodes \ {k} : inode'[j] = inode[j]
  BY <1>1, Types, CountersChange
<1>3. /\ fd' \in Descriptors /\ fd'[p][i] = g
      /\ \A q \in Procs, j \in Slots : <<q, j>> # <<p, i>> => fd'[q][j] = fd[q][j]
      /\ \A j :
           /\ Cardinality(Denying(fd', j)) =
                Cardinality(Denying(fd, j)) - (IF Denies(f, j) THEN 1 ELSE 0)
                                            + (IF Denies(g, j) THEN 1 ELSE 0)
           /\ Cardinality(Allowing(fd', j)) =
                Cardinality(Allowing(fd, j)) - (IF Allows(f, j) THEN 1 ELSE 0)
                                             + (IF Allows(g, j) THEN 1 ELSE 0)
  <2>1. fd \in Descriptors
    BY Types
  <2> QED
    BY <2>1, SlotChange
<1>4. \A j \in Inodes \ {k} : ~ Denies(f, j) /\ ~ Allows(f, j) /\ ~ Denies(g, j) /\ ~ Allows(g, j)
  BY DEF Denies, Allows
<1>5. /\ Denies(f, k) <=> f.deny_write
      /\ Allows(f, k) <=> ~ f.deny_write
      /\ Allows(g, k) <=> g # None /\ ~ Denies(g, k)
      /\ g = None => ~ Denies(g, k)
  BY DEF Denies, Allows
<1>6. ASSUME NEW j \in Inodes  PROVE Covered(j)
  <2>1. PICK D \in Nat, A \in Nat, R \in Nat, D1 \in Nat, A1 \in Nat :
          /\ D = Cardinality(Denying(fd, j)) /\ A = Cardinality(Allowing(fd, j))
          /\ R = Cardinality(Removers(j)) /\ R = Cardinality(Removers(j)')
          /\ D1 = Cardinality(Denying(fd', j)) /\ A1 = Cardinality(Allowing(fd', j))
    BY CountFacts, RemoverFacts
  <2>2. /\ D1 = D - (IF Denies(f, j) THEN 1 ELSE 0) + (IF Denies(g, j) THEN 1 ELSE 0)
        /\ A1 = A - (IF Allows(f, j) THEN 1 ELSE 0) + (IF Allows(g, j) THEN 1 ELSE 0)
    BY <1>3, <2>1
  <2>3. CASE j = k
    <3>1. PICK o0 \in Nat, d0 \in Nat : o0 = inode[k].open_cnt /\ d0 = inode[k].deny
      BY <1>1
    <3>2. /\ o = o0 - (IF g = None THEN 1 ELSE 0)
          /\ d = d0 - (IF f.deny_write THEN 1 ELSE 0) + (IF Denies(g, k) THEN 1 ELSE 0)
      BY <3>1 DEF Counted
    <3>3. D1 + d0 <= D + d /\ A1 + R + o0 + d <= A + R + o + d0
      BY <1>5, <2>2, <2>3, <3>2
    <3> QED
      BY <1>1, <1>2, <2>1, <2>3, <3>1, <3>3 DEF Covered
  <2>4. CASE j # k
    <3>1. D1 = D /\ A1 = A
      BY <1>4, <2>2, <2>4
    <3>2. inode'[j] = inode[j]
      BY <1>2, <2>4
    <3>3. inode[j] # None => inode[j] \in Inode /\ inode[j].open_cnt \in Nat /\ inode[j].deny \in Nat
      BY InodeFacts
    <3> QED
      BY <2>1, <3>1, <3>2, <3>3 DEF Covered
  <2> QED
    BY <2>3, <2>4
<1>7. CountInv'
  BY <1>6, CoveredCounts
<1>8. SlotFactsNext(p, i, k, g, o)
  BY <1>1, <1>2, <1>3 DEF SlotFactsNext
<1> QED
  BY <1>7, <1>8

\* load() denies writing: a write that is past the test is remembered.
LEMMA DenyStep ==
  ASSUME FilesAssumption, Inv, NEW p \in Procs, Deny(p), calls' \in Nat
  PROVE  Inv'
<1>1. PICK f, k : f = fd[p][EXE] /\ k = f.inode
  OBVIOUS
<1>2. /\ pc[p] = "deny" /\ EXE \in Slots /\ f # None /\ ~ f.deny_write
      /\ fd' = [fd EXCEPT ![p][EXE].deny_write = TRUE]
      /\ inode' = [inode EXCEPT ![k].deny = @ + 1]
      /\ late' = IF Writers(k) # {} THEN late \cup {p} ELSE late
      /\ UNCHANGED <<dir, free, unlocked, file_lock, name, child, found, adding, intact>>
  BY <1>1, SlotFacts DEF Deny, At, Inv, ExeInv, disk, process
<1>3. PICK l \in {"run", "exit"} : pc' = [pc EXCEPT ![p] = l]
  BY DEF Deny, Goto
<1>4. /\ f \in File /\ k \in Inodes /\ inode[k] \in Inode
      /\ inode[k] # None /\ inode[k].open_cnt \in Nat /\ inode[k].deny \in Nat
  BY <1>1, <1>2, CountedIn
<1>5. PICK g \in File : g = [f EXCEPT !.deny_write = TRUE] /\ g.deny_write /\ g.inode = k
  <2>1. [f EXCEPT !.deny_write = TRUE] \in File
    BY <1>4 DEF File
  <2>2. [f EXCEPT !.deny_write = TRUE].deny_write /\ [f EXCEPT !.deny_write = TRUE].inode = k
    BY <1>1, <1>4 DEF File
  <2> QED
    BY <2>1, <2>2
<1>6. fd' = PutFile(fd, p, EXE, g)
  BY <1>1, <1>2, <1>5, Types DEF PutFile, Descriptors
<1>7. PICK o \in Nat, d \in Nat : o = inode[k].open_cnt /\ d = inode[k].deny + 1
  <2>1. inode[k].open_cnt \in Nat /\ inode[k].deny + 1 \in Nat
    BY <1>4
  <2> QED
    BY <2>1
<1>8. inode' = SetCounters(inode, k, o, d)
  BY <1>2, <1>4, <1>7, Types DEF SetCounters, Inode
<1>9. g # None /\ Denies(g, k) /\ g \in File \cup {None} /\ g.inode = k
  BY <1>5, FileFacts DEF Denies
<1>10. Counted(f, g, k, o, d)
  BY <1>2, <1>4, <1>7, <1>9 DEF Counted
<1>11. Moves(p, l)
  BY <1>2, <1>3, Types DEF Moves, Places
<1>12. pc'[p] = l /\ \A q \in Procs \ {p} : pc'[q] = pc[q] /\ found'[q] = found[q]
  BY <1>11, MovesFacts
<1>13. \A j : Removers(j)' = Removers(j)
  BY <1>2, <1>12, RemoversKept DEF Erasing
<1>14. CountInv' /\ SlotFactsNext(p, EXE, k, g, o)
  BY <1>1, <1>2, <1>4, <1>6, <1>8, <1>9, <1>10, <1>13, SlotCounts
<1>15. TypeOK' /\ LocalsInv' /\ LockInv'
  <2>1. Locals(p)'
    BY <1>12 DEF Locals, Opening, Using, Closing, Creating
  <2>2. late' \subseteq Procs
    BY <1>2, Types
  <2>3. Calm(p, l)
    BY <1>2, <1>11, <2>1, <2>2, Types DEF Calm, Locking
  <2> QED
    BY <1>2, <1>14, <2>3, Types, CalmStep DEF SlotFactsNext
<1>16. ShareInv'
  BY <1>2, <1>12, <1>14, ShareKept DEF SlotFactsNext, Opening
<1>17. \A q \in Procs \ {p} : fd'[q][EXE] = fd[q][EXE]
  BY <1>2, <1>14 DEF SlotFactsNext
<1>18. ExeInv'
  <2>1. fd'[p][EXE].deny_write /\ l # "deny"
    BY <1>5, <1>14 DEF SlotFactsNext
  <2> QED
    BY <1>12, <1>17, <2>1 DEF Inv, ExeInv
<1>19. ExecutableProtected'
  <2>1. ASSUME NEW r \in Procs, NEW q \in Procs, pc'[r] = "write", Executes(q, found[r].inode)'
        PROVE  q \in late'
    <3>1. r # p /\ pc[r] = "write" /\ found'[r] = found[r]
      BY <1>12, <2>1
    <3>2. CASE q = p
      <4>1. found[r].inode = k
        <5>1. fd'[p][EXE].inode = k
          BY <1>9, <1>14 DEF SlotFactsNext
        <5> QED
          BY <2>1, <3>1, <3>2, <5>1 DEF Executes
      <4>2. r \in Writers(k)
        BY <3>1, <4>1 DEF Writers
      <4> QED
        BY <1>2, <3>2, <4>2
    <3>3. CASE q # p
      <4>1. Executes(q, found[r].inode)
        BY <1>12, <1>17, <2>1, <3>1, <3>3 DEF Executes
      <4> QED
        BY <1>2, <3>1, <4>1 DEF Inv, ExecutableProtected
    <3> QED
      BY <3>2, <3>3
  <2> QED
    BY <2>1 DEF ExecutableProtected, Executes
<1> QED
  BY <1>14, <1>15, <1>16, <1>18, <1>19 DEF Inv

-----------------------------------------------------------------------------
(***************************************************************************)
(* inode_close().                                                          *)
(***************************************************************************)
\* A descriptor in use is closed.
LEMMA CloseStep ==
  ASSUME FilesAssumption, Inv, NEW p \in Procs, NEW i \in Slots,
         close(p, i) \/ ExitCloses(p, i), calls' \in Nat
  PROVE  Inv'
<1>1. PICK f, k : f = fd[p][i] /\ k = f.inode
  OBVIOUS
<1>2. /\ f # None /\ pc[p] \in {"run", "exit"} /\ file_close(f)
      /\ fd' = [fd EXCEPT ![p][i] = None]
      /\ IF Last(f)
         THEN /\ \E l \in Closing : pc' = [pc EXCEPT ![p] = l] /\ (pc[p] \in Idle => l \in Idle)
              /\ found' = [found EXCEPT ![p] = Held(k)]
         ELSE UNCHANGED <<pc, found>>
      /\ UNCHANGED <<dir, free, unlocked, file_lock, name, child, adding, intact, late>>
  BY <1>1 DEF close, ExitCloses, CloseSlot, At, Goto, Closing, Idle, disk, process
<1>3. /\ f \in File /\ k \in Inodes /\ inode[k] \in Inode
      /\ inode[k] # None /\ inode[k].open_cnt \in Nat /\ inode[k].deny \in Nat
      /\ inode[k].open_cnt >= 1 /\ (f.deny_write => inode[k].deny >= 1)
  BY <1>1, <1>2, CountedIn
<1>4. PICK o \in Nat : o = inode[k].open_cnt - 1
  BY <1>3
<1>5. PICK d \in Nat : d = IF f.deny_write THEN inode[k].deny - 1 ELSE inode[k].deny
  <2>1. (IF f.deny_write THEN inode[k].deny - 1 ELSE inode[k].deny) \in Nat
    BY <1>3
  <2> QED
    BY <2>1
<1>6. fd' = PutFile(fd, p, i, None)
  BY <1>2 DEF PutFile
<1>7. inode' = SetCounters(inode, k, o, d)
  <2>1. inode' = [inode EXCEPT ![k].deny = d, ![k].open_cnt = o]
    BY <1>1, <1>2, <1>3, <1>4, <1>5, Types DEF file_close, Inode
  <2> QED
    BY <1>3, <2>1, Types DEF SetCounters, Inode
<1>8. Counted(f, None, k, o, d)
  BY <1>3, <1>4, <1>5, FileFacts DEF Counted
<1>9. PICK h \in Found : h = Held(k) /\ h.inode = k
  BY <1>3, HeldFacts
<1>10. PICK l :
         /\ Moves(p, l) /\ (l \in Closing => found'[p] = h)
         /\ l \in Closing \cup {"run", "exit"} /\ (pc[p] \in Idle => l \in Idle)
  <2>1. CASE Last(f)
    <3>1. PICK l \in Closing : /\ pc' = [pc EXCEPT ![p] = l] /\ found' = [found EXCEPT ![p] = h]
                               /\ pc[p] \in Idle => l \in Idle
      BY <1>2, <1>9, <2>1
    <3>2. Moves(p, l) /\ found'[p] = h
      BY <1>2, <3>1, Types DEF Moves, Places
    <3> QED
      BY <3>1, <3>2
  <2>2. CASE ~ Last(f)
    <3>1. Moves(p, pc[p])
      BY <1>2, <2>2, Types DEF Moves
    <3>2. pc[p] \notin Closing
      BY <1>2 DEF Closing
    <3> QED
      BY <1>2, <3>1, <3>2
  <2> QED
    BY <2>1, <2>2
<1>11. Quiet(p, l)
  <2>1. Locals(p)'
    <3>1. pc'[p] = l
      BY <1>10, MovesFacts
    <3> QED
      BY <1>3, <1>9, <1>10, <3>1 DEF Locals, Opening, Using, Closing, Creating
  <2>2. Calm(p, l)
    BY <1>2, <1>10, <2>1, Types DEF Calm, Closing, Locking
  <2> QED
    BY <1>2, <1>10, <2>2 DEF Quiet, Closing, Erasing, Opening
<1>12. \A j : Removers(j)' = Removers(j)
  <2>1. pc'[p] = l /\ \A q \in Procs \ {p} : pc'[q] = pc[q] /\ found'[q] = found[q]
    BY <1>10, MovesFacts
  <2> QED
    BY <1>2, <1>10, <2>1, RemoversKept DEF Erasing, Closing
<1>13. CountInv' /\ SlotFactsNext(p, i, k, None, o)
  <2>1. /\ None \in File \cup {None} /\ (None # None => None.inode = k)
        /\ f = fd[p][i] /\ f # None /\ k = f.inode /\ k \in Inodes
    BY <1>1, <1>2, <1>3
  <2> QED
    BY <1>6, <1>7, <1>8, <1>12, <2>1, SlotCounts
<1>14. TypeOK' /\ LocalsInv' /\ LockInv'
  BY <1>2, <1>11, <1>13, Types, CalmStep DEF Quiet, SlotFactsNext
<1>15. ShareInv' /\ ExeInv' /\ ExecutableProtected'
  <2>1. \A q \in Procs : fd'[q][EXE] = fd[q][EXE] \/ (q = p /\ fd'[q][EXE] = None)
    BY <1>13, SlotFacts DEF SlotFactsNext
  <2> QED
    BY <1>2, <1>11, <1>13, <2>1, QuietKeeps DEF SlotFactsNext
<1> QED
  BY <1>13, <1>14, <1>15 DEF Inv

\* dir_remove() marks the inode and closes it.
LEMMA InodeRemoveStep ==
  ASSUME FilesAssumption, Inv, NEW p \in Procs, inode_remove(p), calls' \in Nat
  PROVE  Inv'
<1>1. PICK k : k = found[p].inode
  OBVIOUS
<1>2. PICK l \in {"close", "run"} :
        /\ pc[p] = "unlink" /\ pc' = [pc EXCEPT ![p] = l]
        /\ inode' = [inode EXCEPT ![k].removed = TRUE, ![k].open_cnt = @ - 1]
        /\ found' = IF l = "close" THEN found ELSE [found EXCEPT ![p] = None]
        /\ UNCHANGED <<dir, free, fd, unlocked, file_lock, name, child, adding, intact, late>>
  BY <1>1 DEF inode_remove, At, Goto, disk, process
<1>3. /\ k \in Inodes /\ inode[k] \in Inode /\ inode[k] # None /\ found[p] \in Found
      /\ inode[k].open_cnt \in Nat /\ inode[k].deny \in Nat /\ inode[k].open_cnt >= 1
  <2>1. pc[p] \in Erasing /\ pc[p] \in Using
    BY <1>2 DEF Erasing, Using
  <2>2. found[p] \in Found
    BY <2>1 DEF Inv, LocalsInv, Locals
  <2> QED
    BY <1>1, <2>1, <2>2, RemoverIn
<1>4. PICK o \in Nat : o = inode[k].open_cnt - 1
  BY <1>3
<1>5. PICK i \in Inode : /\ inode' = [inode EXCEPT ![k] = i] /\ i # None
                         /\ i.sector = inode[k].sector /\ i.open_cnt = o /\ i.deny = inode[k].deny
  <2> DEFINE t == [inode[k] EXCEPT !.removed = TRUE, !.open_cnt = o]
  <2>1. PICK u \in Inode : u = inode[k]
    BY <1>3
  <2>2. t \in Inode /\ t.sector = inode[k].sector /\ t.open_cnt = o /\ t.deny = inode[k].deny
    BY <2>1 DEF Inode
  <2>3. inode' = [inode EXCEPT ![k] = t]
    BY <1>2, <1>3, <1>4, Types DEF Inode
  <2> HIDE DEF t
  <2> QED
    BY <2>2, <2>3, FileFacts
<1>6. /\ inode' \in [Inodes -> Inode \cup {None}] /\ inode'[k] = i
      /\ \A j \in Inodes \ {k} : inode'[j] = inode[j]
  BY <1>3, <1>5, Types
<1>7. Moves(p, l)
  BY <1>2, Types DEF Moves, Places, Closing
<1>8. pc'[p] = l /\ \A q \in Procs \ {p} : pc'[q] = pc[q] /\ found'[q] = found[q]
  BY <1>7, MovesFacts
<1>9. TypeOK' /\ LocalsInv' /\ LockInv'
  <2>1. Locals(p)'
    BY <1>1, <1>2, <1>3, <1>8 DEF Locals, Opening, Using, Closing, Creating
  <2>2. Calm(p, l)
    BY <1>2, <1>7, <2>1, Types DEF Calm, Locking
  <2> QED
    BY <1>2, <1>6, <2>2, Types, CalmStep
<1>10. ShareInv'
  BY <1>2, <1>3, <1>5, <1>6, <1>8, ShareKept DEF Opening
<1>11. ExeInv' /\ ExecutableProtected'
  <2>1. ExeInv'
    BY <1>2, <1>8, ExeKept
  <2>2. ExecutableProtected'
    BY <1>2, <1>8, ProtectedKept DEF Idle
  <2> QED
    BY <2>1, <2>2
<1>12. CountInv'
  <2>1. \A j \in Inodes \ {k} : Removers(j)' = Removers(j)
    BY <1>1, <1>2, <1>8 DEF Removers, Erasing
  <2>2. Removers(k)' = Removers(k) \ {p} /\ p \in Removers(k)
    BY <1>1, <1>2, <1>8 DEF Removers, Erasing
  <2>3. ASSUME NEW j \in Inodes \ {k}  PROVE Enough(j)'
    BY <1>2, <1>6, <2>1 DEF Inv, CountInv, Enough
  <2>4. Enough(k)'
    <3>1. PICK D \in Nat, A \in Nat, R \in Nat :
            /\ D = Cardinality(Denying(fd, k)) /\ A = Cardinality(Allowing(fd, k))
            /\ R = Cardinality(Removers(k))
      BY CountFacts, RemoverFacts
    <3>2. Cardinality(Removers(k)') = R - 1
      BY <2>2, <3>1, RemoverFacts, FS_RemoveElement
    <3>3. PICK o0 \in Nat, d0 \in Nat : /\ o0 = inode[k].open_cnt /\ d0 = inode[k].deny
                                        /\ d0 >= D /\ o0 >= d0 + A + R
      BY <1>3, <3>1, InodeFacts
    <3>4. o = o0 - 1 /\ d0 >= D /\ o >= d0 + A + (R - 1)
      BY <1>4, <3>1, <3>3
    <3>5. inode'[k] # None /\ inode'[k].open_cnt = o /\ inode'[k].deny = d0
      BY <1>5, <1>6, <3>3
    <3> QED
      BY <1>2, <3>1, <3>2, <3>4, <3>5 DEF Enough
  <2> QED
    BY <2>3, <2>4 DEF CountInv
<1> QED
  BY <1>9, <1>10, <1>11, <1>12 DEF Inv

\* The inode goes when nothing names it, and the sector of a removed file with it.
LEMMA ReleaseStep ==
  ASSUME FilesAssumption, Inv, NEW p \in Procs, calls' \in Nat,
         \/ At(p, "close") /\ Closed(p, "run")
         \/ At(p, "free") /\ Closed(p, "exit")
  PROVE  Inv'
<1>1. PICK k : k = found[p].inode
  OBVIOUS
<1>2. PICK l \in {"run", "exit"} : /\ pc' = [pc EXCEPT ![p] = l] /\ pc[p] \in Closing
                                   /\ pc[p] \in Idle => l \in Idle
  BY DEF At, Closed, Goto, Closing, Idle
<1>3. /\ Release(k) /\ found' = [found EXCEPT ![p] = None]
      /\ UNCHANGED <<dir, fd, file_lock, name, child, adding, intact, late>>
  BY <1>1 DEF Closed, process
<1>4. k \in Inodes
  BY <1>1, <1>2 DEF Inv, LocalsInv, Locals, Using
<1>5. inode[k] # None /\ inode[k] \in Inode /\ inode[k].open_cnt = 0 /\ ~ Raw(k)
  <2>1. inode[k] # None /\ inode[k].open_cnt = 0 /\ ~ Raw(k)
    BY <1>3 DEF Release, Releasable
  <2> QED
    BY <1>4, <2>1, InodeFacts
<1>6. /\ inode' \in [Inodes -> Inode \cup {None}] /\ inode'[k] = None
      /\ \A j \in Inodes \ {k} : inode'[j] = inode[j]
      /\ free' \subseteq Sectors /\ unlocked' = unlocked \ {k} /\ unlocked' \subseteq Inodes
  <2>1. inode[k].sector \in Sectors
    BY <1>5, FileFacts
  <2> QED
    BY <1>3, <1>4, <2>1, Types DEF Release
<1>7. Moves(p, l)
  BY <1>2, <1>3, Types DEF Moves, Places
<1>8. pc'[p] = l /\ \A q \in Procs \ {p} : pc'[q] = pc[q] /\ found'[q] = found[q]
  BY <1>7, MovesFacts
<1>9. TypeOK' /\ LocalsInv' /\ LockInv'
  <2>1. Locals(p)'
    BY <1>8 DEF Locals, Opening, Using, Closing, Creating
  <2>2. pc[p] # "new"
    BY <1>2 DEF Closing
  <2>3. Calm(p, l)
    BY <1>3, <1>7, <2>1, <2>2, Types DEF Calm, Locking
  <2> QED
    BY <1>3, <1>6, <2>3, Types, CalmStep
<1>10. \A j : Removers(j)' = Removers(j)
  BY <1>2, <1>8, RemoversKept DEF Erasing, Closing
<1>11. ExeInv' /\ ExecutableProtected'
  <2>1. ExeInv'
    BY <1>2, <1>3, <1>8, ExeKept DEF Closing
  <2>2. ExecutableProtected'
    BY <1>2, <1>3, <1>8, ProtectedKept
  <2> QED
    BY <2>1, <2>2
<1>12. CountInv'
  <2>1. PICK d \in Nat, D \in Nat, A \in Nat, R \in Nat :
          /\ d = inode[k].deny
          /\ D = Cardinality(Denying(fd, k)) /\ A = Cardinality(Allowing(fd, k))
          /\ R = Cardinality(Removers(k))
    BY <1>5, FileFacts, CountFacts, RemoverFacts
  <2>2. d >= D /\ 0 >= d + A + R
    BY <1>4, <1>5, <2>1, InodeFacts
  <2>3. D = 0 /\ A = 0 /\ R = 0
    BY <2>2
  <2>4. Enough(k)'
    BY <1>3, <1>6, <1>10, <2>1, <2>3 DEF Enough
  <2>5. \A j \in Inodes \ {k} : Enough(j)'
    BY <1>3, <1>6, <1>10 DEF Inv, CountInv, Enough
  <2> QED
    BY <2>4, <2>5 DEF CountInv
<1>13. ShareInv'
  <2>1. RawInv'
    <3>1. ASSUME NEW q \in Procs, pc'[q] \in Opening, found'[q].at = "new"
          PROVE  inode'[found'[q].inode] # None
      <4>1. q # p /\ pc[q] \in Opening /\ found[q].at = "new" /\ found'[q] = found[q]
        BY <1>8, <3>1 DEF Opening
      <4>2. found[q].inode \in Inodes /\ found[q].inode # k /\ inode[found[q].inode] # None
        BY <1>5, <4>1 DEF Raw, Inv, LocalsInv, Locals, ShareInv, RawInv
      <4> QED
        BY <1>6, <4>1, <4>2
    <3> QED
      BY <3>1 DEF RawInv
  <2>2. \A s : Listed(s)' \subseteq Listed(s) \ {k}
    BY <1>6 DEF Listed
  <2>3. AloneInv'
    <3>1. ASSUME NEW q \in Procs, pc'[q] \in {"open", "open own"}, found'[q].at = "none"
          PROVE  Listed(found[q].sector)' \subseteq unlocked' /\ found'[q] = found[q]
      <4>1. q # p
        BY <1>8, <3>1
      <4>2. Listed(found[q].sector) \subseteq unlocked
        BY <1>8, <3>1, <4>1 DEF Inv, ShareInv, AloneInv
      <4> QED
        BY <1>6, <1>8, <2>2, <4>1, <4>2
    <3> QED
      BY <3>1 DEF AloneInv
  <2>4. OpensShareInode'
    BY <1>6 DEF Inv, ShareInv, OpensShareInode
  <2> QED
    BY <2>1, <2>3, <2>4 DEF ShareInv
<1> QED
  BY <1>9, <1>11, <1>12, <1>13 DEF Inv

-----------------------------------------------------------------------------
(***************************************************************************)
(* The copying of descriptors.                                             *)
(***************************************************************************)
\* The files that a process gets from its parent are counted once more each.
LEMMA CopiesCounted ==
  ASSUME FilesAssumption, Inv, NEW p \in Procs, NEW q \in Procs, NEW k \in Inodes,
         NEW G, G = [fd EXCEPT ![q] = [i \in Slots |-> IF i # EXE /\ fd[p][i] # None THEN fd[p][i] ELSE @[i]]]
  PROVE  /\ Cardinality(Copies(p, k)) \in Nat /\ Cardinality(Denied(p, k)) \in Nat
         /\ Cardinality(Denied(p, k)) <= Cardinality(Copies(p, k))
         /\ Cardinality(Denying(G, k)) <= Cardinality(Denying(fd, k)) + Cardinality(Denied(p, k))
         /\ Cardinality(Allowing(G, k)) <= Cardinality(Allowing(fd, k))
                                             + (Cardinality(Copies(p, k)) - Cardinality(Denied(p, k)))
<1> DEFINE C == Copies(p, k)
           D == Denied(p, k)
           A == C \ D
<1>1. /\ IsFiniteSet(C) /\ Cardinality(C) \in Nat /\ D \subseteq C /\ C \subseteq 2 .. MAX_FD
      /\ \A i \in D : Denies(fd[p][i], k)
      /\ \A i \in 2 .. MAX_FD : Denies(fd[p][i], k) => i \in D
      /\ \A i \in 2 .. MAX_FD : Allows(fd[p][i], k) => i \in A
  <2>1. C \subseteq 2 .. MAX_FD
    BY DEF Copies
  <2>2. IsFiniteSet(C) /\ Cardinality(C) \in Nat
    BY <2>1, SlotFacts, FS_Subset, FS_CardinalityType
  <2>3. D \subseteq C
    BY DEF Denied
  <2> QED
    BY <2>1, <2>2, <2>3 DEF Copies, Denied, Denies, Allows
<1> HIDE DEF C, D
<1>2. /\ IsFiniteSet(D) /\ Cardinality(D) \in Nat /\ Cardinality(D) <= Cardinality(C)
      /\ IsFiniteSet(A) /\ Cardinality(A) \in Nat /\ Cardinality(A) = Cardinality(C) - Cardinality(D)
  <2>1. IsFiniteSet(D) /\ Cardinality(D) \in Nat /\ Cardinality(D) <= Cardinality(C)
    BY <1>1, FS_Subset, FS_CardinalityType
  <2>2. C \cap D = D
    BY <1>1
  <2>3. IsFiniteSet(A) /\ Cardinality(A) = Cardinality(C) - Cardinality(D)
    BY <1>1, <2>2, FS_Difference
  <2> QED
    BY <2>1, <2>3, FS_CardinalityType
<1>3. \A r \in Procs, i \in Slots :
        \/ G[r][i] = fd[r][i]
        \/ r = q /\ i \in 2 .. MAX_FD /\ G[r][i] = fd[p][i]
  <2>1. fd \in Descriptors
    BY Types
  <2>2. \A i \in Slots : i # EXE => i \in 2 .. MAX_FD
    BY DEF FilesAssumption, Slots, EXE
  <2> QED
    BY <2>1, <2>2 DEF Descriptors
<1> HIDE DEF A
<1>4. /\ Denying(G, k) \subseteq Denying(fd, k) \cup ({q} \X D)
      /\ Allowing(G, k) \subseteq Allowing(fd, k) \cup ({q} \X A)
  <2>1. ASSUME NEW r \in Procs, NEW i \in Slots
        PROVE  /\ Denies(G[r][i], k) => Denies(fd[r][i], k) \/ (r = q /\ i \in D)
               /\ Allows(G[r][i], k) => Allows(fd[r][i], k) \/ (r = q /\ i \in A)
    <3>1. CASE G[r][i] = fd[r][i]
      BY <3>1
    <3>2. CASE r = q /\ i \in 2 .. MAX_FD /\ G[r][i] = fd[p][i]
      BY <1>1, <3>2 DEF A
    <3> QED
      BY <1>3, <3>1, <3>2
  <2> QED
    BY <2>1 DEF Denying, Allowing
<1>5. ASSUME NEW S, IsFiniteSet(S), NEW T, IsFiniteSet(T), NEW U, U \subseteq S \cup ({q} \X T)
      PROVE  Cardinality(U) <= Cardinality(S) + Cardinality(T)
  <2>1. IsFiniteSet({q} \X T) /\ Cardinality({q} \X T) = Cardinality(T)
    <3>1. IsFiniteSet({q}) /\ Cardinality({q}) = 1
      BY FS_Singleton
    <3>2. IsFiniteSet({q} \X T) /\ Cardinality({q} \X T) = 1 * Cardinality(T)
      BY <1>5, <3>1, FS_Product
    <3>3. Cardinality(T) \in Nat
      BY <1>5, FS_CardinalityType
    <3> QED
      BY <3>2, <3>3
  <2>2. /\ IsFiniteSet(S \cup ({q} \X T)) /\ Cardinality(S) \in Nat /\ Cardinality(T) \in Nat
        /\ Cardinality(S \cap ({q} \X T)) \in Nat
        /\ Cardinality(S \cup ({q} \X T)) =
             Cardinality(S) + Cardinality({q} \X T) - Cardinality(S \cap ({q} \X T))
    BY <1>5, <2>1, FS_Union, FS_Subset, FS_CardinalityType
  <2>3. Cardinality(U) \in Nat /\ Cardinality(U) <= Cardinality(S \cup ({q} \X T))
    BY <1>5, <2>2, FS_Subset, FS_CardinalityType
  <2> QED
    BY <2>1, <2>2, <2>3
<1>6. /\ Cardinality(Denying(G, k)) <= Cardinality(Denying(fd, k)) + Cardinality(D)
      /\ Cardinality(Allowing(G, k)) <= Cardinality(Allowing(fd, k)) + Cardinality(A)
  BY <1>2, <1>4, <1>5, CountFacts
<1> QED
  BY <1>1, <1>2, <1>6 DEF C, D

\* Files that the child has opened itself are lost, and stay counted.
LEMMA InheritStep ==
  ASSUME FilesAssumption, Inv, NEW p \in Procs, Inherit(p), calls' \in Nat
  PROVE  Inv'
<1>1. PICK q \in Procs :
        fd' = [fd EXCEPT ![q] = [i \in Slots |-> IF i # EXE /\ fd[p][i] # None THEN fd[p][i] ELSE @[i]]]
  BY DEF Inherit, At, Inv, LocalsInv
<1>2. /\ pc[p] = "wait" /\ pc' = [pc EXCEPT ![p] = "run"] /\ child' = [child EXCEPT ![p] = None]
      /\ UNCHANGED <<dir, free, unlocked, file_lock, name, found, adding, intact, late>>
      /\ inode' = [k \in Inodes |->
           IF Copies(p, k) = {} THEN inode[k]
           ELSE [inode[k] EXCEPT !.open_cnt = @ + Cardinality(Copies(p, k)),
                                 !.deny = @ + Cardinality(Denied(p, k))]]
  BY DEF Inherit, At, Goto, disk
<1>3. fd' \in Descriptors /\ \A r \in Procs : fd'[r][EXE] = fd[r][EXE]
  <2>1. fd \in Descriptors /\ EXE \in Slots
    BY Types, SlotFacts
  <2>2. \A i \in Slots : fd[p][i] \in File \cup {None} /\ fd[q][i] \in File \cup {None}
    BY <2>1 DEF Descriptors
  <2>3. [i \in Slots |-> IF i # EXE /\ fd[p][i] # None THEN fd[p][i] ELSE fd[q][i]]
          \in [Slots -> File \cup {None}]
    BY <2>2
  <2> QED
    BY <1>1, <2>1, <2>3 DEF Descriptors
<1>4. ASSUME NEW k \in Inodes
      PROVE  /\ inode'[k] \in Inode \cup {None} /\ (inode'[k] = None <=> inode[k] = None)
             /\ inode[k] = None => Copies(p, k) = {} /\ inode'[k] = inode[k]
             /\ inode[k] # None =>
                  /\ inode'[k].sector = inode[k].sector
                  /\ inode'[k].open_cnt = inode[k].open_cnt + Cardinality(Copies(p, k))
                  /\ inode'[k].deny = inode[k].deny + Cardinality(Denied(p, k))
  <2>1. inode[k] \in Inode \cup {None}
    BY Types
  <2>2. PICK c \in Nat, d \in Nat : c = Cardinality(Copies(p, k)) /\ d = Cardinality(Denied(p, k))
    BY CopiesCounted
  <2>3. CASE Copies(p, k) = {}
    <3>1. c = 0 /\ d = 0
      BY <2>2, <2>3, FS_EmptySet DEF Denied
    <3>2. inode'[k] = inode[k]
      BY <1>2, <2>3
    <3>3. inode[k] # None => inode[k].open_cnt \in Nat /\ inode[k].deny \in Nat
      BY <2>1, FileFacts
    <3> QED
      BY <2>1, <2>2, <2>3, <3>1, <3>2, <3>3
  <2>4. CASE Copies(p, k) # {}
    <3>1. PICK i \in Slots : fd[p][i] # None /\ fd[p][i].inode = k
      BY <2>4, SlotFacts DEF Copies
    <3>2. inode[k] \in Inode /\ inode[k] # None /\ inode[k].open_cnt \in Nat /\ inode[k].deny \in Nat
      BY <3>1, CountedIn
    <3>3. inode'[k] = [inode[k] EXCEPT !.open_cnt = @ + c, !.deny = @ + d]
      BY <1>2, <2>2, <2>4
    <3>4. /\ inode'[k] \in Inode /\ inode'[k].sector = inode[k].sector
          /\ inode'[k].open_cnt = inode[k].open_cnt + c /\ inode'[k].deny = inode[k].deny + d
      <4>1. PICK o1 \in Nat : o1 = inode[k].open_cnt + c
        BY <3>2
      <4>2. PICK d1 \in Nat : d1 = inode[k].deny + d
        BY <3>2
      <4>3. inode'[k] = [inode[k] EXCEPT !.open_cnt = o1, !.deny = d1]
        BY <3>2, <3>3, <4>1, <4>2 DEF Inode
      <4>4. /\ inode'[k] \in Inode /\ inode'[k].sector = inode[k].sector
            /\ inode'[k].open_cnt = o1 /\ inode'[k].deny = d1
        BY <3>2, <4>3 DEF Inode
      <4> QED
        BY <4>1, <4>2, <4>4
    <3>5. inode'[k] # None
      BY <3>4, FileFacts
    <3> QED
      BY <2>2, <3>2, <3>4, <3>5
  <2> QED
    BY <2>3, <2>4
<1>5. inode' \in [Inodes -> Inode \cup {None}]
  BY <1>2, <1>4
<1>6. Quiet(p, "run")
  <2>1. Moves(p, "run")
    BY <1>2, Types DEF Moves, Places
  <2>2. Locals(p)'
    <3>1. pc'[p] = "run"
      BY <2>1, MovesFacts
    <3> QED
      BY <3>1 DEF Locals, Opening, Using, Closing, Creating
  <2>3. Calm(p, "run")
    BY <1>2, <2>1, <2>2, Types DEF Calm, Locking
  <2> QED
    BY <1>2, <2>3 DEF Quiet, Erasing, Opening, Idle
<1>7. TypeOK' /\ LocalsInv' /\ LockInv'
  BY <1>2, <1>3, <1>5, <1>6, Types, CalmStep DEF Quiet
<1>8. /\ \A k : Removers(k)' = Removers(k)
      /\ ShareInv' /\ ExeInv' /\ ExecutableProtected'
  BY <1>2, <1>3, <1>4, <1>6, QuietKeeps
<1>9. CountInv'
  <2>1. ASSUME NEW k \in Inodes  PROVE Covered(k)
    <3>1. PICK c \in Nat, d \in Nat, D \in Nat, A \in Nat, R \in Nat, D1 \in Nat, A1 \in Nat :
            /\ c = Cardinality(Copies(p, k)) /\ d = Cardinality(Denied(p, k))
            /\ D = Cardinality(Denying(fd, k)) /\ A = Cardinality(Allowing(fd, k))
            /\ R = Cardinality(Removers(k)) /\ R = Cardinality(Removers(k)')
            /\ D1 = Cardinality(Denying(fd', k)) /\ A1 = Cardinality(Allowing(fd', k))
      BY <1>8, CopiesCounted, CountFacts, RemoverFacts
    <3>2. D1 <= D + d /\ A1 <= A + (c - d)
      BY <1>1, <3>1, CopiesCounted
    <3>3. CASE inode[k] = None
      <4>1. c = 0 /\ d = 0 /\ inode'[k] = None
        BY <1>4, <3>1, <3>3, FS_EmptySet DEF Denied
      <4>2. D1 <= D /\ A1 + R <= A + R
        BY <3>2, <4>1
      <4> QED
        BY <3>1, <3>3, <4>1, <4>2 DEF Covered
    <3>4. CASE inode[k] # None
      <4>1. PICK o0 \in Nat, d0 \in Nat : o0 = inode[k].open_cnt /\ d0 = inode[k].deny
        BY <3>4, InodeFacts
      <4>2. /\ inode'[k] \in Inode /\ inode'[k].open_cnt = o0 + c /\ inode'[k].deny = d0 + d
        BY <1>4, <3>1, <3>4, <4>1
      <4>3. D1 + d0 <= D + (d0 + d) /\ A1 + R + o0 + (d0 + d) <= A + R + (o0 + c) + d0
        BY <3>2
      <4> QED
        BY <3>1, <3>4, <4>1, <4>2, <4>3 DEF Covered
    <3> QED
      BY <3>3, <3>4
  <2> QED
    BY <2>1, CoveredCounts
<1> QED
  BY <1>7, <1>8, <1>9 DEF Inv

-----------------------------------------------------------------------------
(***************************************************************************)
(* The invariant.                                                          *)
(***************************************************************************)
LEMMA OthersInv ==
  ASSUME FilesAssumption, Inv, Others, calls' \in Nat
  PROVE  Inv'
<1>1. ASSUME NEW p \in Procs, inode_search(p) \/ inode_insert(p)
      PROVE  Inv'
  BY <1>1, SearchStep, InsertStep
<1>2. ASSUME NEW p \in Procs, Breaks(p)
      PROVE  Inv'
  BY <1>2, SameStep DEF Breaks
<1>3. ASSUME NEW p \in Procs, Created(p) \/ Loading(p) \/ Removing(p) \/ Opened(p)
      PROVE  Inv'
  BY <1>3, CreatedStep, LoadingStep, RemovingStep, OpenedStep
<1>4. ASSUME NEW p \in Procs, load(p) \/ Written(p) \/ Fault(p) \/ exit(p) \/ Dies(p)
      PROVE  Inv'
  BY <1>4, MoveStep
<1>5. ASSUME NEW p \in Procs, Marked(p) \/ dir_add(p) \/ NotAdded(p) \/ Added(p)
      PROVE  Inv'
  BY <1>5, CreateStep
<1>6. ASSUME NEW p \in Procs, Deny(p) \/ Inherit(p) \/ Erased(p) \/ inode_remove(p)
      PROVE  Inv'
  BY <1>6, DenyStep, InheritStep, ErasedStep, InodeRemoveStep
<1>7. ASSUME NEW p \in Procs,
             (At(p, "close") /\ Closed(p, "run")) \/ (At(p, "free") /\ Closed(p, "exit"))
      PROVE  Inv'
  BY <1>7, ReleaseStep
<1>8. ASSUME NEW p \in Procs, NEW q \in Procs, NEW n \in Names, exec(p, q, n)
      PROVE  Inv'
  BY <1>8, ExecStep
<1>9. ASSUME NEW p \in Procs, NEW i \in Slots, close(p, i) \/ write(p, i) \/ ExitCloses(p, i)
      PROVE  Inv'
  BY <1>9, CloseStep, WriteStep
<1> QED
  BY <1>1, <1>2, <1>3, <1>4, <1>5, <1>6, <1>7, <1>8, <1>9 DEF Others

LEMMA NextInv ==
  ASSUME FilesAssumption, Inv, [Next]_vars
  PROVE  Inv'
<1>1. CASE Others /\ UNCHANGED calls
  BY <1>1, OthersInv, Types
<1>2. ASSUME NEW p \in Procs, NEW n \in Names, calls' = calls + 1,
             open(p, n) \/ create(p, n) \/ remove(p, n)
      PROVE  Inv'
  <2>1. calls' \in Nat
    BY <1>2, Types
  <2> QED
    BY <1>2, <2>1, MoveStep, CreateStep
<1>3. CASE UNCHANGED vars
  BY <1>3, Types, SameStep DEF vars, disk, memory, process
<1> QED
  BY <1>1, <1>2, <1>3 DEF Next

LEMMA InitInv ==
  ASSUME FilesAssumption, Init
  PROVE  Inv
<1>1. PICK p \in Procs, e \in Entries, k \in Inodes :
        /\ dir \in [Entries -> Entry \cup {None}] /\ dir[e] # None
        /\ free = {s \in Sectors : \A d \in Entries : dir[d] = None \/ dir[d].sector # s}
        /\ inode = [j \in Inodes |-> IF j # k THEN None
                     ELSE [sector |-> dir[e].sector, open_cnt |-> 1, deny |-> 0, removed |-> FALSE]]
        /\ fd = [q \in Procs |-> [i \in Slots |-> None]]
        /\ file_lock = None
        /\ pc = [q \in Procs |-> IF q = p THEN "load" ELSE "new"]
        /\ name = [q \in Procs |-> IF q = p THEN dir[e].name ELSE None]
        /\ child = [q \in Procs |-> None]
        /\ found = [q \in Procs |-> None] /\ adding = [q \in Procs |-> None]
        /\ intact = TRUE /\ calls = 0 /\ unlocked = {k} /\ late = {}
  BY Zenon DEF Init
<1>2. dir[e].name \in Names /\ dir[e].sector \in Sectors
  BY <1>1 DEF Entry
<1>3. PICK r \in Inode : r = [sector |-> dir[e].sector, open_cnt |-> 1, deny |-> 0, removed |-> FALSE]
  BY <1>2 DEF Inode
<1>4. /\ r # None /\ r.open_cnt = 1 /\ r.deny = 0
      /\ inode = [j \in Inodes |-> IF j # k THEN None ELSE r]
  BY <1>1, <1>3, FileFacts
<1>5. inode[k] = r /\ \A j \in Inodes \ {k} : inode[j] = None
  BY <1>4
<1>6. pc \in [Procs -> {"new", "load"}]
  BY <1>1
<1>7. TypeOK
  <2>1. inode \in [Inodes -> Inode \cup {None}]
    BY <1>4
  <2>2. /\ fd \in [Procs -> [Slots -> File \cup {None}]] /\ file_lock \in Procs \cup {None}
        /\ name \in [Procs -> Names \cup {None}] /\ child \in [Procs -> Procs \cup {None}]
        /\ found \in [Procs -> Found \cup {None}] /\ adding \in [Procs -> Adding \cup {None}]
        /\ intact \in BOOLEAN /\ calls \in Nat /\ unlocked \subseteq Inodes /\ late \subseteq Procs
        /\ free \subseteq Sectors /\ dir \in [Entries -> Entry \cup {None}]
    BY <1>1, <1>2
  <2> QED
    BY <1>6, <2>1, <2>2 DEF TypeOK, Places
<1>8. LocalsInv /\ LockInv
  <2>1. None \notin Procs
    BY DEF FilesAssumption
  <2>2. \A q \in Procs : child[q] = None
    BY <1>1
  <2>3. \A q \in Procs : Locals(q)
    BY <1>6 DEF Locals, Opening, Using, Closing, Creating
  <2> QED
    BY <1>6, <2>1, <2>2, <2>3 DEF LocalsInv, LockInv, Locking
<1>9. CountInv
  <2>1. \A q \in Procs, i \in Slots : fd[q][i] = None
    BY <1>1
  <2>2. \A j : Denying(fd, j) = {} /\ Allowing(fd, j) = {} /\ Removers(j) = {}
    BY <1>6, <2>1, FileFacts DEF Denying, Allowing, Removers, Erasing
  <2>3. \A j : /\ Cardinality(Denying(fd, j)) = 0 /\ Cardinality(Allowing(fd, j)) = 0
               /\ Cardinality(Removers(j)) = 0
    BY <2>2, FS_EmptySet
  <2>4. \A j \in Inodes : inode[j] = None \/ (inode[j] # None /\ inode[j].open_cnt = 1 /\ inode[j].deny = 0)
    BY <1>4, <1>5
  <2> QED
    BY <2>3, <2>4 DEF CountInv, Enough
<1>10. ShareInv
  <2>1. RawInv /\ AloneInv
    BY <1>6 DEF RawInv, AloneInv, Opening
  <2>2. OpensShareInode
    BY <1>5 DEF OpensShareInode
  <2> QED
    BY <2>1, <2>2 DEF ShareInv
<1>11. ExeInv /\ ExecutableProtected
  <2>1. \A q \in Procs : fd[q][EXE] = None /\ pc[q] \notin {"deny", "write"}
    BY <1>1, <1>6, SlotFacts
  <2> QED
    BY <2>1 DEF ExeInv, ExecutableProtected
<1> QED
  BY <1>7, <1>8, <1>9, <1>10, <1>11 DEF Inv

\* The inductive invariant: who creates, searches, makes and removes what, that
\* an inode counts the files that deny writes, those that do not and the calls
\* that remove its file, and that a write past its test holds the lock.
THEOREM FilesInvariant ==
  ASSUME FilesAssumption
  PROVE  Spec => []Inv
<1>1. Init => Inv
  BY InitInv
<1>2. Inv /\ [Next]_vars => Inv'
  BY NextInv
<1> QED
  BY <1>1, <1>2, PTL DEF Spec

-----------------------------------------------------------------------------
\* The files that name an inode are those of both kinds.
LEMMA UsesCounted ==
  ASSUME FilesAssumption, Inv
  PROVE  CountsRight
<1>1. ASSUME NEW k \in Inodes
      PROVE  LET denying == {u \in Uses(k) : fd[u[1]][u[2]].deny_write}
             IN  IF inode[k] = None THEN Uses(k) = {}
                 ELSE /\ inode[k].open_cnt >= Cardinality(Uses(k)) /\ inode[k].open_cnt >= inode[k].deny
                      /\ inode[k].deny >= Cardinality(denying)
  <2> DEFINE denying == {u \in Uses(k) : fd[u[1]][u[2]].deny_write}
             S == Denying(fd, k)
             T == Allowing(fd, k)
  <2>1. denying = S /\ Uses(k) = S \cup T /\ S \cap T = {}
    BY DEF Uses, Denying, Allowing, Denies, Allows
  <2>2. /\ IsFiniteSet(S) /\ Cardinality(S) \in Nat
        /\ IsFiniteSet(T) /\ Cardinality(T) \in Nat
    BY CountFacts
  <2> HIDE DEF S, T, denying
  <2>3. Cardinality(Uses(k)) = Cardinality(S) + Cardinality(T)
    <3>1. Cardinality(S \cap T) = 0
      BY <2>1, FS_EmptySet
    <3>2. Cardinality(S \cup T) = Cardinality(S) + Cardinality(T) - Cardinality(S \cap T)
      BY <2>2, FS_Union
    <3> QED
      BY <2>1, <2>2, <3>1, <3>2
  <2>4. CASE inode[k] = None
    <3>1. Cardinality(S) = 0 /\ Cardinality(T) = 0
      BY <2>4 DEF Inv, CountInv, Enough, S, T
    <3>2. S = {} /\ T = {}
      BY <2>2, <3>1, FS_EmptySet
    <3> QED
      BY <2>1, <2>4, <3>2
  <2>5. CASE inode[k] # None
    <3>1. inode[k].deny \in Nat /\ inode[k].open_cnt \in Nat
      BY <2>5, Types, FileFacts
    <3>2. inode[k].deny >= Cardinality(S) /\ inode[k].open_cnt >= inode[k].deny + Cardinality(T)
      <4>1. PICK R \in Nat : R = Cardinality(Removers(k))
        BY RemoverFacts
      <4>2. inode[k].deny >= Cardinality(S) /\ inode[k].open_cnt >= inode[k].deny + Cardinality(T) + R
        BY <2>5, <4>1, InodeFacts DEF S, T
      <4> QED
        BY <2>2, <3>1, <4>2
    <3>3. /\ inode[k].open_cnt >= Cardinality(Uses(k)) /\ inode[k].open_cnt >= inode[k].deny
          /\ inode[k].deny >= Cardinality(denying)
      BY <2>1, <2>2, <2>3, <3>1, <3>2
    <3> QED
      BY <2>5, <3>3 DEF denying
  <2> QED
    BY <2>4, <2>5
<1> QED
  BY <1>1 DEF CountsRight, Inv

\* The counters of an inode never fall short of the files that name it, however
\* many processes inherit, open, remove and close them (inode_open(),
\* inode_close(), file_deny_write(), process_execute(), dir_remove()).
THEOREM CountersAreRight ==
  ASSUME FilesAssumption
  PROVE  Spec => []CountsRight
<1>1. Inv => CountsRight
  BY UsesCounted
<1> QED
  BY <1>1, FilesInvariant, PTL

\* file_lock makes open() agree with open(): of two inodes of one sector one was
\* made by a call that does not take it (open(), inode_open()).
THEOREM OpenedInodesAreShared ==
  ASSUME FilesAssumption
  PROVE  Spec => []OpensShareInode
<1>1. Inv => OpensShareInode
  BY DEF Inv, ShareInv
<1> QED
  BY <1>1, FilesInvariant, PTL

\* The only writes that can reach the executable of a running process are those
\* whose test came before load() denied them (load(), file_deny_write(),
\* inode_write_at()).
THEOREM ExecutablesAreProtected ==
  ASSUME FilesAssumption
  PROVE  Spec => []ExecutableProtected
<1>1. Inv => ExecutableProtected
  BY DEF Inv
<1> QED
  BY <1>1, FilesInvariant, PTL
=============================================================================
