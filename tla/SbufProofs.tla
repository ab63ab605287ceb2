----------------------------- MODULE SbufProofs -----------------------------
(***************************************************************************)
(* Proofs about the buffer of connections, for any number of workers and   *)
(* of slots: the inductive invariant, the accounts of the semaphores, and  *)
(* the refinement of the bounded queue of module Fifo.                     *)
(***************************************************************************)
EXTENDS SbufProps, FiniteSetTheorems, TLAPS

Critical == {"load", "take", "unlock"}

\* The mutex keeps everyone else out of the critical sections.
Exclusion ==
  /\ \A v, w \in Workers : pc[v] \in Critical /\ pc[w] \in Critical => v = w
  /\ (\E w \in Workers : pc[w] \in Critical) => mpc \notin {"store", "unlock"} /\ mutex = 0
  /\ mpc \in {"store", "unlock"} => mutex = 0

\* What the locals hold at each place.
InHand ==
  /\ mpc # "accept" <=> connfd # NoConn
  /\ \A w \in Workers : pc[w] \in {"unlock", "slots", "serve"} <=> item[w] # NoConn
  /\ \A w \in Workers : pc[w] = "take" => next[w] = front + 1

\* Every slot between front and rear holds a connection.
Full == \A i \in (front + 1)..rear : InBuf(i) \in Conns

IInv == TypeOK /\ Exclusion /\ InHand /\ SlotsAccounted /\ Full

-----------------------------------------------------------------------------
(***************************************************************************)
(* Numbers modulo the number of slots.                                     *)
(***************************************************************************)
LEMMA DivMod ==
  ASSUME NEW n \in Nat \ {0}, NEW i \in Nat
  PROVE  i % n \in 0..(n - 1) /\ i \div n \in Int /\ i = n * (i \div n) + (i % n)
OBVIOUS

\* No positive multiple of n is less than n.
LEMMA NoMultiple ==
  ASSUME NEW n \in Nat \ {0}, NEW d \in Int, n * d < n, n * d > 0
  PROVE  FALSE
<1>1. d < 1
  OBVIOUS
<1>2. d > 0
  OBVIOUS
<1>. QED BY <1>1, <1>2

\* Two numbers that are less than n apart have different slots.
LEMMA ModDistinct ==
  ASSUME NEW n \in Nat \ {0}, NEW i \in Nat, NEW j \in Nat, i < j, j - i < n
  PROVE  i % n # j % n
<1>. SUFFICES ASSUME i % n = j % n PROVE FALSE
  OBVIOUS
<1>. DEFINE q == i \div n
            r == j \div n
<1>1. q \in Int /\ r \in Int /\ i = n * q + (i % n) /\ j = n * r + (j % n) /\ i % n \in Int
  BY DivMod
<1>2. j - i = n * r - n * q
  BY <1>1
<1>3. n * r - n * q = n * (r - q)
  BY <1>1
<1>4. r - q \in Int /\ n * (r - q) = j - i
  BY <1>1, <1>2, <1>3
<1>. HIDE DEF q, r
<1>5. n * (r - q) < n /\ n * (r - q) > 0
  BY <1>4
<1>. QED BY <1>4, <1>5, NoMultiple

-----------------------------------------------------------------------------
(***************************************************************************)
(* The number of workers at some places, when one of them moves.           *)
(***************************************************************************)
LEMMA AtType ==
  ASSUME SbufAssumption, NEW L
  PROVE  IsFiniteSet(At(L)) /\ Cardinality(At(L)) \in Nat
<1>1. At(L) \subseteq Workers
  BY DEF At
<1>. QED BY <1>1, FS_Subset, FS_CardinalityType DEF SbufAssumption

LEMMA MoveIn ==
  ASSUME SbufAssumption, TypeOK, NEW w \in Workers, NEW l, NEW L,
         Goto(w, l), pc[w] \notin L, l \in L
  PROVE  Cardinality(At(L)') = Cardinality(At(L)) + 1
<1>1. At(L)' = At(L) \cup {w} /\ w \notin At(L)
  BY DEF At, Goto, TypeOK
<1>. QED BY <1>1, AtType, FS_AddElement

LEMMA MoveOut ==
  ASSUME SbufAssumption, TypeOK, NEW w \in Workers, NEW l, NEW L,
         Goto(w, l), pc[w] \in L, l \notin L
  PROVE  Cardinality(At(L)') = Cardinality(At(L)) - 1 /\ Cardinality(At(L)) > 0
<1>1. At(L)' = At(L) \ {w} /\ w \in At(L)
  BY DEF At, Goto, TypeOK
<1>2. Cardinality(At(L)') = Cardinality(At(L)) - 1
  BY <1>1, AtType, FS_RemoveElement
<1>3. Cardinality(At(L)') \in Nat
  BY <1>1, AtType, FS_RemoveElement, FS_CardinalityType
<1>. QED BY <1>2, <1>3, AtType

LEMMA MoveAlong ==
  ASSUME TypeOK, NEW w \in Workers, NEW l, NEW L,
         Goto(w, l), pc[w] \in L <=> l \in L
  PROVE  At(L)' = At(L)
BY DEF At, Goto, TypeOK

-----------------------------------------------------------------------------
(***************************************************************************)
(* The inductive invariant.                                                *)
(***************************************************************************)
\* With the accounts, nothing is beyond its bounds.
LEMMA Bounds ==
  ASSUME SbufAssumption, IInv
  PROVE  /\ Claimed \in Nat /\ Emptied \in Nat /\ Reserved \in {0, 1} /\ Stored \in {0, 1}
         /\ rear - front \in 0..SBUFSIZE
         /\ rear - front < SBUFSIZE \/ Reserved = 0
BY AtType DEF IInv, TypeOK, SlotsAccounted, Claimed, Emptied, Reserved, Stored, SbufAssumption

LEMMA InitInv ==
  ASSUME SbufAssumption, Init
  PROVE  IInv
<1>1. \A L : "items" \notin L => At(L) = {}
  BY DEF At, Init
<1>2. Claimed = 0 /\ Emptied = 0
  BY <1>1, FS_EmptySet DEF Claimed, Emptied
<1>3. SlotsAccounted
  BY <1>2 DEF Init, SlotsAccounted, Reserved, Stored, SbufAssumption
<1>4. TypeOK
  BY DEF Init, TypeOK, Slot, MainPC, WorkerPC, SbufAssumption
<1>. QED
  BY <1>3, <1>4 DEF IInv, Init, Exclusion, Critical, InHand, Full

\* The steps of main(), which move no worker.
LEMMA MainInv ==
  ASSUME SbufAssumption, IInv, (\E c \in Conns : Accept(c)) \/ InsertStep
  PROVE  IInv'
<1>. USE DEF IInv
<1>1. pc' = pc /\ item' = item /\ next' = next /\ front' = front
  BY DEF InsertStep, Accept, InsertSlots, InsertLock, InsertStore, InsertUnlock, InsertItems
<1>2. Claimed' = Claimed /\ Emptied' = Emptied
  BY <1>1 DEF Claimed, Emptied, At
<1>3. SBUFSIZE \in Nat \ {0} /\ NoConn \notin Conns
  BY DEF SbufAssumption
<1>4. CASE \E c \in Conns : Accept(c)
  <2>1. TypeOK' /\ Exclusion' /\ InHand' /\ Full'
    BY <1>1, <1>3, <1>4 DEF Accept, TypeOK, Exclusion, InHand, Full, InBuf, MainPC
  <2>2. SlotsAccounted'
    BY <1>1, <1>2, <1>4 DEF Accept, SlotsAccounted, Reserved, Stored
  <2>. QED BY <2>1, <2>2
<1>5. CASE InsertSlots
  <2>1. SlotsAccounted'
    BY <1>1, <1>2, <1>5, Bounds DEF InsertSlots, SlotsAccounted, Reserved, Stored, TypeOK
  <2>2. TypeOK' /\ Exclusion' /\ InHand' /\ Full'
    BY <1>1, <1>3, <1>5 DEF InsertSlots, TypeOK, Exclusion, InHand, Full, InBuf, MainPC
  <2>. QED BY <2>1, <2>2
<1>6. CASE InsertLock
  <2>1. SlotsAccounted'
    BY <1>1, <1>2, <1>6 DEF InsertLock, SlotsAccounted, Reserved, Stored
  <2>2. TypeOK' /\ Exclusion' /\ InHand' /\ Full'
    BY <1>1, <1>3, <1>6 DEF InsertLock, TypeOK, Exclusion, InHand, Full, InBuf, MainPC
  <2>. QED BY <2>1, <2>2
<1>7. CASE InsertStore
  <2>1. SlotsAccounted'
    <3>1. Reserved = 1 /\ Reserved' = 0 /\ Stored = 0 /\ Stored' = 1
      BY <1>7 DEF InsertStore, Reserved, Stored
    <3>2. rear' = rear + 1 /\ front' = front /\ slots' = slots /\ items' = items
      BY <1>1, <1>7 DEF InsertStore
    <3>. QED BY <1>2, <3>1, <3>2, Bounds DEF SlotsAccounted, TypeOK
  <2>2. (rear + 1) % SBUFSIZE \in Slot
    <3>1. rear + 1 \in Nat
      BY DEF TypeOK
    <3>. QED BY <1>3, <3>1, DivMod DEF Slot
  <2>3. TypeOK' /\ Exclusion' /\ InHand'
    BY <1>1, <1>3, <1>7, <2>2 DEF InsertStore, TypeOK, Exclusion, InHand, MainPC
  <2>4. Full'
    <3>1. SUFFICES ASSUME NEW i \in (front + 1)..(rear + 1)
                   PROVE  buf'[i % SBUFSIZE] \in Conns
      BY <1>1, <1>7 DEF InsertStore, Full, InBuf
    <3>2. front \in Nat /\ rear \in Nat /\ i \in Nat /\ i % SBUFSIZE \in Slot
      BY <1>3, DivMod DEF TypeOK, Slot
    <3>3. CASE i = rear + 1
      BY <1>3, <1>7, <2>2, <3>3 DEF InsertStore, TypeOK, InHand
    <3>4. CASE i # rear + 1
      <4>1. rear - front < SBUFSIZE
        BY <1>7, Bounds DEF InsertStore, Reserved
      <4>2. i < rear + 1 /\ (rear + 1) - i < SBUFSIZE
        BY <1>3, <3>2, <3>4, <4>1
      <4>3. rear + 1 \in Nat
        BY <3>2
      <4>4. i % SBUFSIZE # (rear + 1) % SBUFSIZE
        BY <1>3, <3>2, <4>2, <4>3, ModDistinct
      <4>5. i \in (front + 1)..rear
        BY <3>2, <3>4
      <4>6. buf'[i % SBUFSIZE] = buf[i % SBUFSIZE]
        BY <1>7, <2>2, <3>2, <4>4 DEF InsertStore, TypeOK
      <4>. QED BY <4>5, <4>6 DEF Full, InBuf
    <3>. QED BY <3>3, <3>4
  <2>. QED BY <2>1, <2>3, <2>4
<1>8. CASE InsertUnlock
  <2>1. SlotsAccounted'
    BY <1>1, <1>2, <1>8 DEF InsertUnlock, SlotsAccounted, Reserved, Stored
  <2>2. TypeOK' /\ Exclusion' /\ InHand' /\ Full'
    BY <1>1, <1>3, <1>8 DEF InsertUnlock, TypeOK, Exclusion, InHand, Full, InBuf, MainPC
  <2>. QED BY <2>1, <2>2
<1>9. CASE InsertItems
  <2>1. SlotsAccounted'
    BY <1>1, <1>2, <1>9, Bounds DEF InsertItems, SlotsAccounted, Reserved, Stored, TypeOK
  <2>2. items + 1 \in 0..SBUFSIZE
    BY <1>3, <1>9, Bounds DEF InsertItems, SlotsAccounted, Stored, TypeOK
  <2>3. TypeOK' /\ Exclusion' /\ InHand' /\ Full'
    BY <1>1, <1>3, <1>9, <2>2 DEF InsertItems, TypeOK, Exclusion, InHand, Full, InBuf, MainPC
  <2>. QED BY <2>1, <2>3
<1>. QED BY <1>4, <1>5, <1>6, <1>7, <1>8, <1>9 DEF InsertStep

\* The steps of a worker, which leave main() where it is.
LEMMA WorkerInv ==
  ASSUME SbufAssumption, IInv, NEW w \in Workers, RemoveStep(w) \/ Close(w)
  PROVE  IInv'
<1>. USE DEF IInv
<1>1. mpc' = mpc /\ connfd' = connfd /\ rear' = rear /\ buf' = buf
  BY DEF RemoveStep, RemoveItems, RemoveLock, RemoveLoad, RemoveTake, RemoveUnlock, RemoveSlots, Close
<1>2. Reserved' = Reserved /\ Stored' = Stored
  BY <1>1 DEF Reserved, Stored
<1>3. SBUFSIZE \in Nat \ {0} /\ NoConn \notin Conns
  BY DEF SbufAssumption
<1>4. CASE RemoveItems(w)
  <2>1. Claimed' = Claimed + 1 /\ Emptied' = Emptied
    BY <1>4, MoveIn, MoveAlong DEF RemoveItems, Claimed, Emptied
  <2>2. SlotsAccounted'
    BY <1>1, <1>2, <1>4, <2>1, Bounds DEF RemoveItems, SlotsAccounted, TypeOK
  <2>3. TypeOK' /\ Exclusion' /\ InHand' /\ Full'
    BY <1>1, <1>3, <1>4
       DEF RemoveItems, Goto, TypeOK, Exclusion, Critical, InHand, Full, InBuf, WorkerPC
  <2>. QED BY <2>2, <2>3
<1>5. CASE RemoveLock(w)
  <2>1. Claimed' = Claimed /\ Emptied' = Emptied
    BY <1>5, MoveAlong DEF RemoveLock, Claimed, Emptied
  <2>2. SlotsAccounted'
    BY <1>1, <1>2, <1>5, <2>1 DEF RemoveLock, SlotsAccounted
  <2>3. TypeOK' /\ Exclusion' /\ InHand' /\ Full'
    BY <1>1, <1>3, <1>5
       DEF RemoveLock, Goto, TypeOK, Exclusion, Critical, InHand, Full, InBuf, WorkerPC
  <2>. QED BY <2>2, <2>3
<1>6. CASE RemoveLoad(w)
  <2>1. Claimed' = Claimed /\ Emptied' = Emptied
    BY <1>6, MoveAlong DEF RemoveLoad, Claimed, Emptied
  <2>2. SlotsAccounted'
    BY <1>1, <1>2, <1>6, <2>1 DEF RemoveLoad, SlotsAccounted
  <2>3. TypeOK' /\ Exclusion' /\ InHand' /\ Full'
    BY <1>1, <1>3, <1>6
       DEF RemoveLoad, Goto, TypeOK, Exclusion, Critical, InHand, Full, InBuf, WorkerPC
  <2>. QED BY <2>2, <2>3
<1>7. CASE RemoveTake(w)
  <2>1. Claimed' = Claimed - 1 /\ Claimed > 0 /\ Emptied' = Emptied + 1
    BY <1>7, MoveIn, MoveOut DEF RemoveTake, Claimed, Emptied
  <2>2. front' = front + 1 /\ front + 1 \in (front + 1)..rear
    BY <1>7, <2>1, Bounds DEF RemoveTake, InHand, SlotsAccounted, TypeOK
  <2>3. SlotsAccounted'
    <3>1. slots' = slots /\ items' = items
      BY <1>7 DEF RemoveTake
    <3>. QED BY <1>1, <1>2, <2>1, <2>2, <3>1, Bounds DEF SlotsAccounted, TypeOK
  <2>4. item' = [item EXCEPT ![w] = InBuf(front + 1)] /\ InBuf(front + 1) \in Conns
    BY <1>7, <2>2 DEF RemoveTake, InHand, Full, InBuf
  <2>5. TypeOK'
    BY <1>1, <1>3, <1>7, <2>2, <2>4 DEF RemoveTake, Goto, TypeOK, WorkerPC
  <2>6. Exclusion' /\ InHand'
    BY <1>1, <1>3, <1>7, <2>2, <2>4 DEF RemoveTake, Goto, TypeOK, Exclusion, Critical, InHand
  <2>7. Full'
    <3>1. SUFFICES ASSUME NEW i \in (front' + 1)..rear' PROVE InBuf(i)' \in Conns
      BY DEF Full
    <3>2. i \in (front + 1)..rear
      BY <1>1, <2>2 DEF TypeOK
    <3>. QED BY <1>1, <3>2 DEF Full, InBuf
  <2>. QED BY <2>3, <2>5, <2>6, <2>7
<1>8. CASE RemoveUnlock(w)
  <2>1. Claimed' = Claimed /\ Emptied' = Emptied
    BY <1>8, MoveAlong DEF RemoveUnlock, Claimed, Emptied
  <2>2. SlotsAccounted'
    BY <1>1, <1>2, <1>8, <2>1 DEF RemoveUnlock, SlotsAccounted
  <2>3. TypeOK' /\ Exclusion' /\ InHand' /\ Full'
    BY <1>1, <1>3, <1>8
       DEF RemoveUnlock, Goto, TypeOK, Exclusion, Critical, InHand, Full, InBuf, WorkerPC
  <2>. QED BY <2>2, <2>3
<1>9. CASE RemoveSlots(w)
  <2>1. Claimed' = Claimed /\ Emptied' = Emptied - 1 /\ Emptied > 0
    BY <1>9, MoveAlong, MoveOut DEF RemoveSlots, Claimed, Emptied
  <2>2. SlotsAccounted' /\ slots + 1 \in 0..SBUFSIZE
    <3>1. slots' = slots + 1 /\ items' = items /\ front' = front
      BY <1>9 DEF RemoveSlots
    <3>. QED BY <1>1, <1>2, <1>3, <2>1, <3>1, Bounds DEF SlotsAccounted, TypeOK
  <2>3. TypeOK' /\ Exclusion' /\ InHand' /\ Full'
    BY <1>1, <1>3, <1>9, <2>2
       DEF RemoveSlots, Goto, TypeOK, Exclusion, Critical, InHand, Full, InBuf, WorkerPC
  <2>. QED BY <2>2, <2>3
<1>10. CASE Close(w)
  <2>1. Claimed' = Claimed /\ Emptied' = Emptied
    BY <1>10, MoveAlong DEF Close, Claimed, Emptied
  <2>2. SlotsAccounted'
    BY <1>1, <1>2, <1>10, <2>1 DEF Close, SlotsAccounted
  <2>3. TypeOK' /\ Exclusion' /\ InHand' /\ Full'
    BY <1>1, <1>3, <1>10
       DEF Close, Goto, TypeOK, Exclusion, Critical, InHand, Full, InBuf, WorkerPC
  <2>. QED BY <2>2, <2>3
<1>. QED BY <1>4, <1>5, <1>6, <1>7, <1>8, <1>9, <1>10 DEF RemoveStep

\* The semaphores, the indices, the buffer and the locals of all threads agree
\* at every moment.
THEOREM Invariant == ASSUME SbufAssumption PROVE Spec => []IInv
<1>1. Init => IInv
  BY InitInv
<1>2. IInv /\ [Next]_vars => IInv'
  <2>. SUFFICES ASSUME IInv, [Next]_vars PROVE IInv'
    OBVIOUS
  <2>1. CASE \E c \in Conns : Accept(c)
    BY <2>1, MainInv
  <2>2. CASE InsertStep
    BY <2>2, MainInv
  <2>3. CASE \E w \in Workers : RemoveStep(w) \/ Close(w)
    BY <2>3, WorkerInv
  <2>4. CASE UNCHANGED vars
    BY <2>4 DEF vars, IInv, TypeOK, Exclusion, InHand, SlotsAccounted, Full, InBuf,
                Claimed, Emptied, Reserved, Stored, At
  <2>. QED BY <2>1, <2>2, <2>3, <2>4 DEF Next
<1>. QED BY <1>1, <1>2, PTL DEF Spec

\* TypeOK: no semaphore of sbuf_t is negative or above its capacity.
THEOREM TypeCorrect == ASSUME SbufAssumption PROVE Spec => []TypeOK
BY Invariant, PTL DEF IInv

\* SlotsAccounted: slots and items agree with the number of connections
\* between front and rear, also in the middle of sbuf_insert() and
\* sbuf_remove().
THEOREM SemaphoresAgree == ASSUME SbufAssumption PROVE Spec => []SlotsAccounted
BY Invariant, PTL DEF IInv

\* BufferRight: the buffer and its semaphores are right at every step.
THEOREM BufferStaysRight == ASSUME SbufAssumption PROVE Spec => []BufferRight
BY TypeCorrect, SemaphoresAgree, PTL DEF BufferRight

-----------------------------------------------------------------------------
(***************************************************************************)
(* The refinement of Fifo.                                                 *)
(***************************************************************************)
\* The slots after f up to r of a buffer b: as a sequence, when they all hold
\* connections, and when a buffer d agrees with b on them.
Cell(b, i)        == b[i % SBUFSIZE]
Window(b, f, r)   == [i \in 1..(r - f) |-> b[(f + i) % SBUFSIZE]]
Held(b, f, r)     == \A i \in (f + 1)..r : b[i % SBUFSIZE] \in Conns
Agree(d, b, f, r) == \A i \in (f + 1)..r : d[i % SBUFSIZE] = b[i % SBUFSIZE]

LEMMA WindowType ==
  ASSUME NEW b, NEW f \in Nat, NEW r \in Nat, r - f \in Nat, Held(b, f, r)
  PROVE  Window(b, f, r) \in Seq(Conns) /\ Len(Window(b, f, r)) = r - f
BY DEF Window, Held

\* A store behind the window appends, ...
LEMMA WindowAppend ==
  ASSUME NEW b, NEW c \in Conns, NEW f \in Nat, NEW r \in Nat, r - f \in Nat, Held(b, f, r),
         NEW d, Agree(d, b, f, r), NEW q \in Nat, q = r + 1, Cell(d, q) = c
  PROVE  Window(d, f, q) = Append(Window(b, f, r), c)
<1>1. Window(b, f, r) \in Seq(Conns) /\ Len(Window(b, f, r)) = r - f
  BY WindowType
<1>2. Held(d, f, q)
  <2>. SUFFICES ASSUME NEW i \in (f + 1)..q PROVE d[i % SBUFSIZE] \in Conns
    BY DEF Held
  <2>1. CASE i = q
    BY <2>1 DEF Cell
  <2>2. CASE i # q
    <3>1. i \in (f + 1)..r
      BY <2>2
    <3>. QED BY <3>1 DEF Held, Agree
  <2>. QED BY <2>1, <2>2
<1>3. q \in Nat /\ q - f \in Nat /\ q - f = (r - f) + 1
  OBVIOUS
<1>4. Window(d, f, q) \in Seq(Conns) /\ Len(Window(d, f, q)) = (r - f) + 1
  BY <1>2, <1>3, WindowType
<1>5. ASSUME NEW i \in 1..(r - f) PROVE Window(d, f, q)[i] = Window(b, f, r)[i]
  <2>1. f + i \in (f + 1)..r /\ i \in 1..(q - f)
    OBVIOUS
  <2>2. d[(f + i) % SBUFSIZE] = b[(f + i) % SBUFSIZE]
    BY <2>1 DEF Agree
  <2>. QED BY <2>1, <2>2 DEF Window
<1>6. Window(d, f, q)[(r - f) + 1] = c
  <2>1. f + ((r - f) + 1) = q /\ (r - f) + 1 \in 1..(q - f)
    OBVIOUS
  <2>. QED BY <2>1 DEF Window, Cell
<1>7. PICK s : s = Window(b, f, r)
  OBVIOUS
<1>8. PICK t : t = Window(d, f, q)
  OBVIOUS
<1>9. s \in Seq(Conns) /\ t \in Seq(Conns) /\ Len(t) = Len(s) + 1
  BY <1>1, <1>3, <1>4, <1>7, <1>8
<1>10. (\A i \in 1..Len(s) : t[i] = s[i]) /\ t[Len(s) + 1] = c
  BY <1>1, <1>5, <1>6, <1>7, <1>8
<1>11. t = Append(s, c)
  BY <1>9, <1>10
<1>. QED BY <1>7, <1>8, <1>11

\* ... and an advance of its front removes the head.
LEMMA WindowTail ==
  ASSUME NEW b, NEW f \in Nat, NEW r \in Nat, r - f \in Nat \ {0}, Held(b, f, r)
  PROVE  /\ Window(b, f, r) # <<>>
         /\ Window(b, f + 1, r) = Tail(Window(b, f, r))
         /\ b[(f + 1) % SBUFSIZE] = Head(Window(b, f, r))
<1>1. Window(b, f, r) \in Seq(Conns) /\ Len(Window(b, f, r)) = r - f
  BY WindowType
<1>2. f + 1 \in Nat /\ r - (f + 1) \in Nat
  OBVIOUS
<1>3. Window(b, f + 1, r) \in Seq(Conns) /\ Len(Window(b, f + 1, r)) = r - (f + 1)
  BY <1>2, WindowType DEF Held
<1>4. ASSUME NEW i \in 1..(r - (f + 1)) PROVE Window(b, f + 1, r)[i] = Window(b, f, r)[i + 1]
  <2>1. (f + 1) + i = f + (i + 1) /\ i + 1 \in 1..(r - f)
    OBVIOUS
  <2>. QED BY <2>1 DEF Window
<1>5. Window(b, f, r)[1] = b[(f + 1) % SBUFSIZE]
  BY DEF Window
<1>. QED BY <1>1, <1>3, <1>4, <1>5

LEMMA ContentIsWindow == content = Window(buf, front, rear)
BY DEF content, Window, InBuf

LEMMA InsertRefines ==
  ASSUME SbufAssumption, IInv, InsertStore
  PROVE  F!Insert(connfd) /\ connfd \in Conns
<1>1. front' = front /\ rear' = rear + 1 /\ item' = item
  BY DEF InsertStore
<1>2. front \in Nat /\ rear \in Nat /\ rear - front \in Nat /\ rear - front < SBUFSIZE
  BY Bounds DEF IInv, TypeOK, InsertStore, Reserved, SbufAssumption
<1>3. connfd \in Conns
  BY DEF IInv, TypeOK, InHand, InsertStore
<1>4. Held(buf, front, rear)
  BY DEF IInv, Full, InBuf, Held
<1>5. rear + 1 \in Nat /\ (rear + 1) % SBUFSIZE \in Slot
  BY <1>2, DivMod DEF SbufAssumption, Slot
<1>6. buf'[(rear + 1) % SBUFSIZE] = connfd
  BY <1>5 DEF InsertStore, IInv, TypeOK
<1>7. ASSUME NEW i \in (front + 1)..rear
      PROVE  buf'[i % SBUFSIZE] = buf[i % SBUFSIZE]
  <2>1. i \in Nat /\ i < rear + 1 /\ (rear + 1) - i < SBUFSIZE
    BY <1>2 DEF SbufAssumption
  <2>2. i % SBUFSIZE # (rear + 1) % SBUFSIZE /\ i % SBUFSIZE \in Slot
    BY <1>5, <2>1, ModDistinct, DivMod DEF SbufAssumption, Slot
  <2>. QED BY <1>5, <2>2 DEF InsertStore, IInv, TypeOK
<1>8. content' = Append(content, connfd)
  <2>1. PICK d, q : d = buf' /\ q = rear'
    OBVIOUS
  <2>2. /\ connfd \in Conns /\ front \in Nat /\ rear \in Nat /\ rear - front \in Nat
        /\ Held(buf, front, rear) /\ Agree(d, buf, front, rear)
    BY <1>2, <1>3, <1>4, <1>7, <2>1 DEF Agree
  <2>3. q \in Nat /\ q = rear + 1 /\ Cell(d, q) = connfd
    BY <1>1, <1>5, <1>6, <2>1 DEF Cell
  <2>4. Window(d, front, q) = Append(Window(buf, front, rear), connfd)
    BY <2>2, <2>3, WindowAppend
  <2>5. content' = Window(buf', front', rear')
    BY DEF content, Window, InBuf
  <2>. QED BY <1>1, <2>1, <2>4, <2>5, ContentIsWindow
<1>9. Len(content) < SBUFSIZE
  BY <1>2, <1>4, WindowType, ContentIsWindow
<1>. QED BY <1>1, <1>3, <1>8, <1>9 DEF F!Insert

LEMMA TakeRefines ==
  ASSUME SbufAssumption, IInv, NEW w \in Workers, RemoveTake(w)
  PROVE  F!Remove(w)
<1>1. Claimed > 0
  BY MoveOut DEF RemoveTake, Claimed, IInv
<1>2. front \in Nat /\ rear \in Nat /\ rear - front \in Nat \ {0}
  BY <1>1, Bounds DEF IInv, TypeOK, SlotsAccounted, SbufAssumption
<1>3. Held(buf, front, rear)
  BY DEF IInv, Full, InBuf, Held
<1>4. front' = front + 1 /\ rear' = rear /\ buf' = buf
  BY DEF RemoveTake, IInv, InHand
<1>5. content' = Window(buf', front', rear')
  BY DEF content, Window, InBuf
<1>6. content # <<>> /\ content' = Tail(content) /\ buf[(front + 1) % SBUFSIZE] = Head(content)
  BY <1>2, <1>3, <1>4, <1>5, WindowTail, ContentIsWindow
<1>7. item' = [item EXCEPT ![w] = buf[(front + 1) % SBUFSIZE]] /\ item[w] = NoConn
  BY <1>4 DEF RemoveTake, IInv, InHand
<1>. QED BY <1>6, <1>7 DEF F!Remove

\* FifoSpec: the buffer is a bounded queue; what main() inserts is not lost,
\* overwritten, reordered or given to two workers.
THEOREM SbufImplementsFifo == ASSUME SbufAssumption PROVE Spec => FifoSpec
<1>1. Init => F!FInit
  <2>. SUFFICES ASSUME Init PROVE F!FInit
    OBVIOUS
  <2>1. content = <<>>
    BY DEF content, Init
  <2>. QED BY <2>1 DEF Init, F!FInit
<1>2. IInv /\ [Next]_vars => [F!FNext]_(F!fvars)
  <2>. SUFFICES ASSUME IInv, [Next]_vars PROVE F!FNext \/ UNCHANGED <<content, item>>
    BY DEF F!fvars
  <2>1. CASE UNCHANGED <<buf, front, rear, item>>
    BY <2>1 DEF content, InBuf
  <2>2. CASE InsertStore
    BY <2>2, InsertRefines DEF F!FNext
  <2>3. ASSUME NEW w \in Workers, RemoveTake(w)
        PROVE  F!FNext
    BY <2>3, TakeRefines DEF F!FNext
  <2>4. ASSUME NEW w \in Workers, Close(w)
        PROVE  F!FNext
    <3>1. content' = content
      BY <2>4 DEF Close, content, InBuf
    <3>2. item[w] # NoConn
      BY <2>4 DEF Close, IInv, InHand
    <3>. QED BY <2>4, <3>1, <3>2 DEF Close, F!Finish, F!FNext
  <2>. QED
    BY <2>1, <2>2, <2>3, <2>4
       DEF Next, vars, Accept, InsertStep, InsertSlots, InsertLock, InsertUnlock, InsertItems,
           RemoveStep, RemoveItems, RemoveLock, RemoveLoad, RemoveUnlock, RemoveSlots
<1>. QED BY <1>1, <1>2, Invariant, PTL DEF Spec, FifoSpec, F!FSpec
=============================================================================
