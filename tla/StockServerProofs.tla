------------------------- MODULE StockServerProofs -------------------------
(***************************************************************************)
(* Proofs about the workers of the stock server, for any number of workers *)
(* and of stocks: the readers-writers lock is right, and the requests are  *)
(* carried out as module StockTable says.                                  *)
(***************************************************************************)
EXTENDS StockServerProps, FiniteSetTheorems, TLAPS

M == {"inc", "first", "entered", "dec", "last", "left"}  \* inside the mutex
C == {"first", "entered", "scan", "leave", "dec"}        \* counted by readcnt
X == {"find", "update", "answer", "written"}             \* writing

Counts == UNION {[S -> Nat] : S \in SUBSET Stocks}
Says   == {"nothing", "stocks", "success", "not enough"}
Trades == [op : {"buy", "sell"}, id : Ids, count : Amounts]

Typed ==
  /\ up \in BOOLEAN /\ once \in BOOLEAN
  /\ count \in [Stocks -> Nat]
  /\ mutex \in {0, 1} /\ w \in {0, 1}
  /\ pc \in [Workers -> {"out", "read"} \cup ReaderPC \cup WriterPC]
  /\ req \in [Workers -> Request \cup {NoRequest}]
  /\ val \in [Workers -> Counts]
  /\ reply \in [Workers -> [said : Says, shown : Counts]]

\* Nobody is inside before the first worker has run init_stock_server().
OutInv == ~once => \A t \in Workers : pc[t] = "out"

MutexInv ==
  /\ \A t, u \in Workers : pc[t] \in M /\ pc[u] \in M => t = u
  /\ (\E t \in Workers : pc[t] \in M) => mutex = 0
  /\ once /\ (\A t \in Workers : pc[t] \notin M) => mutex = 1

\* The reader that waits for w, or gives it back, is the only one.
ReadersInv ==
  /\ readcnt = Cardinality(Counted)
  /\ \A t \in Workers : pc[t] = "first" => Counted = {t}
  /\ \A t \in Workers : pc[t] = "last" => Counted = {}

WriteInv ==
  /\ \A t, u \in Workers : pc[t] \in X /\ pc[u] \in X => t = u
  /\ (\E t \in Workers : pc[t] \in X) => w = 0 /\ ~HoldRead
  /\ HoldRead => w = 0
  /\ once /\ (\A t \in Workers : pc[t] \notin X) /\ ~HoldRead => w = 1

\* What a worker has read of the table is what the table still holds.
Local(t) ==
  /\ pc[t] \in {"out", "read"} => req[t] = NoRequest
  /\ pc[t] \in ReaderPC => req[t] = [op |-> "show"]
  /\ pc[t] \in WriterPC => req[t] \in Trades
  /\ pc[t] \in {"update", "answer", "written"} => req[t].id \in Stocks
  /\ pc[t] \notin {"scan", "update"} => val[t] = Nothing
  /\ pc[t] = "scan" => \A s \in DOMAIN val[t] : val[t][s] = count[s]
  /\ pc[t] = "update" => val[t][req[t].id] = count[req[t].id]
  /\ pc[t] \in {"leave", "dec", "last", "left", "show"} => reply[t].said = "stocks"
  /\ pc[t] \in {"answer", "written"} => reply[t].said \in {"success", "not enough"}
  /\ pc[t] \notin {"leave", "dec", "last", "left", "show", "answer", "written"} => reply[t] = NoAnswer

Locals == \A t \in Workers : Local(t)

IInv == Typed /\ OutInv /\ MutexInv /\ ReadersInv /\ WriteInv /\ Locals

-----------------------------------------------------------------------------
(***************************************************************************)
(* The sets of workers at some places.                                     *)
(***************************************************************************)
LEMMA WhoType ==
  ASSUME StockAssumption, NEW L
  PROVE  /\ IsFiniteSet(Who(L)) /\ Cardinality(Who(L)) \in Nat
         /\ Cardinality(Who(L)) <= Cardinality(Workers)
         /\ Cardinality(Who(L)) = 0 <=> Who(L) = {}
<1>1. Who(L) \subseteq Workers
  BY DEF Who
<1>. QED BY <1>1, FS_Subset, FS_CardinalityType, FS_EmptySet DEF StockAssumption

LEMMA MoveIn ==
  ASSUME StockAssumption, Typed, NEW t \in Workers, NEW l, NEW L,
         Goto(t, l), pc[t] \notin L, l \in L
  PROVE  Who(L)' = Who(L) \cup {t} /\ Cardinality(Who(L)') = Cardinality(Who(L)) + 1
<1>1. Who(L)' = Who(L) \cup {t} /\ t \notin Who(L)
  BY DEF Who, Goto, Typed
<1>. QED BY <1>1, WhoType, FS_AddElement

LEMMA MoveOut ==
  ASSUME StockAssumption, Typed, NEW t \in Workers, NEW l, NEW L,
         Goto(t, l), pc[t] \in L, l \notin L
  PROVE  Who(L)' = Who(L) \ {t} /\ Cardinality(Who(L)') = Cardinality(Who(L)) - 1
<1>1. Who(L)' = Who(L) \ {t} /\ t \in Who(L)
  BY DEF Who, Goto, Typed
<1>. QED BY <1>1, WhoType, FS_RemoveElement

LEMMA MoveAlong ==
  ASSUME Typed, NEW t \in Workers, NEW l, NEW L, Goto(t, l), pc[t] \in L <=> l \in L
  PROVE  Who(L)' = Who(L)
BY DEF Who, Goto, Typed

\* A worker that is counted and past the first reader's wait holds w for all.
LEMMA ReaderHolds ==
  ASSUME StockAssumption, IInv, NEW u \in Workers, pc[u] \in C \ {"first"}
  PROVE  HoldRead /\ readcnt > 0
<1>1. u \in Counted
  BY DEF Counted, Who, C
<1>2. readcnt \in Nat /\ readcnt # 0
  BY <1>1, WhoType DEF IInv, ReadersInv, Counted
<1>3. Who({"first"}) = {}
  BY <1>1 DEF Who, IInv, ReadersInv
<1>. QED BY <1>2, <1>3 DEF HoldRead

\* So nobody is in show_tree() while somebody writes.
LEMMA NoScanWhileWriting ==
  ASSUME StockAssumption, IInv, NEW t \in Workers, pc[t] \in X,
         NEW u \in Workers, pc[u] = "scan"
  PROVE  FALSE
BY ReaderHolds DEF IInv, WriteInv, C

-----------------------------------------------------------------------------
(***************************************************************************)
(* Steps that leave a part of the invariant alone.                         *)
(***************************************************************************)
LEMMA SameOut ==
  ASSUME IInv, NEW t \in Workers, NEW l, Goto(t, l), pc[t] # "out", once' = once
  PROVE  OutInv'
BY DEF IInv, OutInv, Goto, Typed

LEMMA SameMutex ==
  ASSUME IInv, NEW t \in Workers, NEW l, Goto(t, l),
         pc[t] \in M <=> l \in M, mutex' = mutex, once' = once
  PROVE  MutexInv'
BY DEF IInv, MutexInv, Goto, Typed

LEMMA SameReaders ==
  ASSUME IInv, NEW t \in Workers, NEW l, Goto(t, l),
         pc[t] \in C <=> l \in C, l \notin {"first", "last"}, readcnt' = readcnt
  PROVE  ReadersInv'
<1>1. Counted' = Counted
  BY MoveAlong DEF Counted, C, IInv
<1>. QED BY <1>1 DEF IInv, ReadersInv, Goto, Typed

LEMMA SameHold ==
  ASSUME IInv, NEW t \in Workers, NEW l, Goto(t, l),
         pc[t] \notin {"first", "last"}, l \notin {"first", "last"}, readcnt' = readcnt
  PROVE  HoldRead' = HoldRead
<1>1. Who({"first"})' = Who({"first"}) /\ Who({"last"})' = Who({"last"})
  BY MoveAlong DEF IInv
<1>. QED BY <1>1 DEF HoldRead

LEMMA SameWrite ==
  ASSUME IInv, NEW t \in Workers, NEW l, Goto(t, l),
         pc[t] \in X <=> l \in X, w' = w, once' = once, HoldRead' = HoldRead
  PROVE  WriteInv'
BY DEF IInv, WriteInv, Goto, Typed

\* The locals of the workers that do not move.
LEMMA OtherLocals ==
  ASSUME IInv, NEW t \in Workers, NEW l, Goto(t, l), count' = count,
         \A u \in Workers \ {t} : req'[u] = req[u] /\ val'[u] = val[u] /\ reply'[u] = reply[u],
         Local(t)'
  PROVE  Locals'
<1>1. SUFFICES ASSUME NEW u \in Workers \ {t} PROVE Local(u)'
  BY DEF Locals
<1>2. pc'[u] = pc[u]
  BY DEF IInv, Typed, Goto
<1>3. req'[u] = req[u] /\ val'[u] = val[u] /\ reply'[u] = reply[u]
  OBVIOUS
<1>4. Local(u)
  BY DEF IInv, Locals
<1>. QED BY <1>2, <1>3, <1>4 DEF Local

\* A step that moves t and changes nothing of what the workers have read.
LEMMA Moved ==
  ASSUME IInv, NEW t \in Workers, NEW l, Goto(t, l), count' = count,
         req' = req, val' = val, reply' = reply, Local(t)'
  PROVE  Locals'
BY OtherLocals

LEMMA MovedTyped ==
  ASSUME IInv, NEW t \in Workers, NEW l, Goto(t, l),
         l \in {"out", "read"} \cup ReaderPC \cup WriterPC,
         up' = up, once' \in BOOLEAN, count' = count, mutex' \in {0, 1}, w' \in {0, 1},
         req' = req, val' = val, reply' = reply
  PROVE  Typed'
<1>1. pc' \in [Workers -> {"out", "read"} \cup ReaderPC \cup WriterPC]
  BY DEF IInv, Typed, Goto
<1>. QED BY <1>1 DEF IInv, Typed

\* The locals of a worker that goes from one place of show to the next.
LEMMA ShowLocal ==
  ASSUME IInv, NEW t \in Workers, NEW l, Goto(t, l), count' = count,
         req' = req, val' = val, reply' = reply,
         \/ pc[t] \in {"enter", "inc", "first", "entered"}
            /\ l \in {"inc", "first", "entered", "scan"}
         \/ pc[t] \in {"leave", "dec", "last", "left"}
            /\ l \in {"dec", "last", "left", "show"}
  PROVE  Local(t)'
<1>1. Local(t) /\ pc'[t] = l
  BY DEF IInv, Locals, Typed, Goto
<1>2. pc[t] \in ReaderPC /\ l \in ReaderPC /\ pc[t] \notin {"scan", "update"}
  BY DEF ReaderPC
<1>3. req[t] = [op |-> "show"] /\ val[t] = Nothing
  BY <1>1, <1>2 DEF Local
<1>4. l \notin {"out", "read"} \cup WriterPC
  BY <1>2 DEF ReaderPC, WriterPC
<1>5. pc[t] \notin WriterPC
  BY <1>2 DEF ReaderPC, WriterPC
<1>6. \A s \in DOMAIN val[t] : FALSE
  BY <1>3 DEF Nothing
<1>. QED BY <1>1, <1>2, <1>3, <1>4, <1>5, <1>6 DEF Local, WriterPC

-----------------------------------------------------------------------------
(***************************************************************************)
(* Taking and giving back the mutex, and what that says of w.              *)
(***************************************************************************)
LEMMA MutexTaken ==
  ASSUME IInv, NEW t \in Workers, NEW l, Goto(t, l), pc[t] \notin M, l \in M,
         P(mutex), once' = once
  PROVE  MutexInv' /\ mutex' = 0
<1>1. mutex = 1 /\ mutex' = 0
  BY DEF P, IInv, Typed
<1>2. \A u \in Workers : pc[u] \notin M
  BY <1>1 DEF IInv, MutexInv
<1>. QED BY <1>1, <1>2 DEF MutexInv, Goto, IInv, Typed

LEMMA MutexGiven ==
  ASSUME IInv, NEW t \in Workers, NEW l, Goto(t, l), pc[t] \in M, l \notin M,
         V(mutex), once' = once
  PROVE  MutexInv' /\ mutex' = 1
<1>1. mutex = 0 /\ mutex' = 1
  BY DEF V, IInv, MutexInv
<1>2. \A u \in Workers \ {t} : pc[u] \notin M
  BY DEF IInv, MutexInv
<1>. QED BY <1>1, <1>2 DEF MutexInv, Goto, IInv, Typed

\* Whoever is inside the mutex knows whether the readers hold w.
LEMMA HoldInside ==
  ASSUME IInv, NEW t \in Workers, pc[t] \in M
  PROVE  HoldRead <=> pc[t] = "last" \/ (readcnt > 0 /\ pc[t] # "first")
<1>1. \A u \in Workers \ {t} : pc[u] \notin M
  BY DEF IInv, MutexInv
<1>2. /\ Who({"first"}) = {} <=> pc[t] # "first"
      /\ Who({"last"}) = {} <=> pc[t] # "last"
  BY <1>1 DEF Who, M
<1>. QED BY <1>2 DEF HoldRead, IInv, ReadersInv

LEMMA HoldAfter ==
  ASSUME IInv, NEW t \in Workers, NEW l, Goto(t, l), pc[t] \in M
  PROVE  HoldRead' <=> l = "last" \/ (readcnt' > 0 /\ l # "first")
<1>1. \A u \in Workers \ {t} : pc[u] \notin M /\ pc'[u] = pc[u]
  BY DEF IInv, MutexInv, Typed, Goto
<1>2. pc'[t] = l
  BY DEF IInv, Typed, Goto
<1>3. /\ Who({"first"})' = {} <=> l # "first"
      /\ Who({"last"})' = {} <=> l # "last"
  BY <1>1, <1>2 DEF Who, M
<1>. QED BY <1>3 DEF HoldRead

-----------------------------------------------------------------------------
(***************************************************************************)
(* The steps of show.                                                      *)
(***************************************************************************)
LEMMA EnterLockStep ==
  ASSUME StockAssumption, IInv, NEW t \in Workers, EnterLock(t)
  PROVE  IInv'
<1>1. pc[t] = "enter" /\ Goto(t, "inc") /\ P(mutex)
  BY DEF EnterLock, At
<1>2. UNCHANGED <<up, once, count, readcnt, w, req, val, reply>>
  BY DEF EnterLock
<1>3. MutexInv' /\ mutex' = 0
  BY <1>1, <1>2, MutexTaken DEF M
<1>4. Typed'
  <2>1. "inc" \in {"out", "read"} \cup ReaderPC \cup WriterPC
    BY DEF ReaderPC
  <2>2. once' \in BOOLEAN /\ mutex' \in {0, 1} /\ w' \in {0, 1}
    BY <1>3, <1>2 DEF IInv, Typed
  <2>. QED BY <1>1, <1>2, <2>1, <2>2, MovedTyped
<1>5. OutInv'
  BY <1>1, <1>2, SameOut
<1>6. ReadersInv'
  BY <1>1, <1>2, SameReaders DEF C
<1>7. WriteInv'
  BY <1>1, <1>2, SameHold, SameWrite DEF X
<1>8. Locals'
  BY <1>1, <1>2, ShowLocal, Moved
<1>. QED BY <1>3, <1>4, <1>5, <1>6, <1>7, <1>8 DEF IInv

LEMMA EnterCountStep ==
  ASSUME StockAssumption, IInv, NEW t \in Workers, EnterCount(t)
  PROVE  IInv'
<1>1. PICK l \in {"first", "entered"} : Goto(t, l) /\ (l = "first" <=> readcnt' = 1)
  BY DEF EnterCount
<1>2. pc[t] = "inc" /\ readcnt' = readcnt + 1
  BY DEF EnterCount, At
<1>3. UNCHANGED <<up, once, count, mutex, w, req, val, reply>>
  BY DEF EnterCount
<1>4. readcnt \in Nat
  BY WhoType DEF IInv, ReadersInv, Counted
<1>5. Typed'
  <2>1. l \in {"out", "read"} \cup ReaderPC \cup WriterPC
    BY DEF ReaderPC
  <2>2. once' \in BOOLEAN /\ mutex' \in {0, 1} /\ w' \in {0, 1}
    BY <1>3 DEF IInv, Typed
  <2>. QED BY <1>1, <1>3, <2>1, <2>2, MovedTyped
<1>6. OutInv'
  BY <1>1, <1>2, <1>3, SameOut
<1>7. MutexInv'
  BY <1>1, <1>2, <1>3, SameMutex DEF M
<1>8. ReadersInv'
  <2>1. Counted' = Counted \cup {t} /\ readcnt' = Cardinality(Counted')
    <3>1. pc[t] \notin C /\ l \in C
      BY <1>2 DEF C
    <3>2. Who(C)' = Who(C) \cup {t} /\ Cardinality(Who(C)') = Cardinality(Who(C)) + 1
      BY <1>1, <3>1, MoveIn DEF IInv
    <3>. QED BY <1>2, <3>2 DEF Counted, C, IInv, ReadersInv
  <2>2. ASSUME NEW u \in Workers, pc'[u] = "first" PROVE Counted' = {t} /\ u = t
    <3>1. u = t
      BY <1>1, <1>2, <2>2 DEF IInv, MutexInv, M, Typed, Goto
    <3>2. readcnt = 0
      BY <1>1, <1>2, <1>4, <2>2, <3>1 DEF IInv, Typed, Goto
    <3>3. Counted = {}
      BY <3>2, WhoType DEF IInv, ReadersInv, Counted
    <3>. QED BY <2>1, <3>1, <3>3
  <2>3. \A u \in Workers : pc'[u] # "last"
    BY <1>1, <1>2 DEF IInv, MutexInv, M, Typed, Goto
  <2>. QED BY <2>1, <2>2, <2>3 DEF ReadersInv
<1>9. WriteInv'
  <2>1. HoldRead <=> readcnt > 0
    BY <1>2, HoldInside DEF M
  <2>2. HoldRead' <=> readcnt' > 0 /\ l # "first"
    BY <1>1, <1>2, HoldAfter DEF M
  <2>3. HoldRead' = HoldRead
    BY <1>1, <1>2, <1>4, <2>1, <2>2 DEF HoldRead
  <2>. QED BY <1>1, <1>2, <1>3, <2>3, SameWrite DEF X
<1>10. Locals'
  BY <1>1, <1>2, <1>3, ShowLocal, Moved
<1>. QED BY <1>5, <1>6, <1>7, <1>8, <1>9, <1>10 DEF IInv

LEMMA EnterFirstStep ==
  ASSUME StockAssumption, IInv, NEW t \in Workers, EnterFirst(t)
  PROVE  IInv'
<1>1. pc[t] = "first" /\ Goto(t, "entered") /\ w = 1 /\ w' = 0
  BY DEF EnterFirst, At, P, IInv, Typed
<1>2. UNCHANGED <<up, once, count, readcnt, mutex, req, val, reply>>
  BY DEF EnterFirst
<1>3. Typed'
  <2>1. "entered" \in {"out", "read"} \cup ReaderPC \cup WriterPC
    BY DEF ReaderPC
  <2>2. once' \in BOOLEAN /\ mutex' \in {0, 1} /\ w' \in {0, 1}
    BY <1>1, <1>2 DEF IInv, Typed
  <2>. QED BY <1>1, <1>2, <2>1, <2>2, MovedTyped
<1>4. OutInv'
  BY <1>1, <1>2, SameOut
<1>5. MutexInv'
  BY <1>1, <1>2, SameMutex DEF M
<1>6. ReadersInv'
  BY <1>1, <1>2, SameReaders DEF C
<1>7. WriteInv'
  <2>1. \A u \in Workers : pc[u] \notin X
    BY <1>1 DEF IInv, WriteInv
  <2>2. \A u \in Workers : pc'[u] \notin X
    BY <1>1, <2>1 DEF X, IInv, Typed, Goto
  <2>3. HoldRead'
    <3>1. readcnt' > 0
      <4>1. t \in Counted
        BY <1>1 DEF Counted, Who
      <4>. QED BY <1>2, <4>1, WhoType DEF IInv, ReadersInv, Counted
    <3>. QED BY <1>1, <3>1, HoldAfter DEF M
  <2>. QED BY <1>1, <2>2, <2>3 DEF WriteInv
<1>8. Locals'
  BY <1>1, <1>2, ShowLocal, Moved
<1>. QED BY <1>3, <1>4, <1>5, <1>6, <1>7, <1>8 DEF IInv

LEMMA EnterUnlockStep ==
  ASSUME StockAssumption, IInv, NEW t \in Workers, EnterUnlock(t)
  PROVE  IInv'
<1>1. pc[t] = "entered" /\ Goto(t, "scan") /\ V(mutex)
  BY DEF EnterUnlock, At
<1>2. UNCHANGED <<up, once, count, readcnt, w, req, val, reply>>
  BY DEF EnterUnlock
<1>3. MutexInv' /\ mutex' = 1
  BY <1>1, <1>2, MutexGiven DEF M
<1>4. Typed'
  <2>1. "scan" \in {"out", "read"} \cup ReaderPC \cup WriterPC
    BY DEF ReaderPC
  <2>2. once' \in BOOLEAN /\ mutex' \in {0, 1} /\ w' \in {0, 1}
    BY <1>2, <1>3 DEF IInv, Typed
  <2>. QED BY <1>1, <1>2, <2>1, <2>2, MovedTyped
<1>5. OutInv'
  BY <1>1, <1>2, SameOut
<1>6. ReadersInv'
  BY <1>1, <1>2, SameReaders DEF C
<1>7. WriteInv'
  BY <1>1, <1>2, SameHold, SameWrite DEF X
<1>8. Locals'
  BY <1>1, <1>2, ShowLocal, Moved
<1>. QED BY <1>3, <1>4, <1>5, <1>6, <1>7, <1>8 DEF IInv

\* A step that does not move anybody.
LEMMA Stays ==
  ASSUME IInv, UNCHANGED <<once, readcnt, mutex, w, pc>>
  PROVE  OutInv' /\ MutexInv' /\ ReadersInv' /\ WriteInv'
<1>1. Counted' = Counted /\ HoldRead' = HoldRead
  BY DEF Counted, HoldRead, Who
<1>2. OutInv' /\ MutexInv'
  BY DEF IInv, OutInv, MutexInv
<1>3. ReadersInv' /\ WriteInv'
  BY <1>1 DEF IInv, ReadersInv, WriteInv
<1>. QED BY <1>2, <1>3

LEMMA CountsType ==
  ASSUME NEW f \in Counts
  PROVE  DOMAIN f \subseteq Stocks /\ f \in [DOMAIN f -> Nat]
BY DEF Counts

LEMMA ScanNodeStep ==
  ASSUME StockAssumption, IInv, NEW t \in Workers, NEW s \in Stocks, ScanNode(t, s)
  PROVE  IInv'
<1>. DEFINE D == DOMAIN val[t] \cup {s}
            f == [i \in D |-> IF i = s THEN count[s] ELSE val[t][i]]
<1>1. pc[t] = "scan" /\ val' = [val EXCEPT ![t] = f]
  BY DEF ScanNode, At
<1>2. UNCHANGED <<up, once, count, readcnt, mutex, w, pc, req, reply>>
  BY DEF ScanNode, shared
<1>3. f \in Counts
  <2>1. val[t] \in Counts
    BY DEF IInv, Typed
  <2>2. D \in SUBSET Stocks
    BY <2>1, CountsType
  <2>3. \A i \in D : f[i] \in Nat
    BY <2>1, CountsType DEF IInv, Typed
  <2>4. f \in [D -> Nat]
    BY <2>3
  <2>. QED BY <2>2, <2>4 DEF Counts
<1>4. Typed'
  BY <1>1, <1>2, <1>3 DEF IInv, Typed
<1>5. Locals'
  <2>1. SUFFICES ASSUME NEW u \in Workers PROVE Local(u)'
    BY DEF Locals
  <2>2. Local(u)
    BY DEF IInv, Locals
  <2>3. CASE u = t
    <3>1. val'[t] = f
      BY <1>1 DEF IInv, Typed
    <3>2. \A i \in D : f[i] = count[i]
      BY <1>1, <2>2, <2>3 DEF Local
    <3>3. \A i \in DOMAIN (val'[t]) : val'[t][i] = count'[i]
      BY <1>2, <3>1, <3>2
    <3>4. pc'[u] = "scan"
      BY <1>1, <1>2, <2>3
    <3>. QED BY <1>2, <2>2, <2>3, <3>3, <3>4 DEF Local
  <2>4. CASE u # t
    <3>1. val'[u] = val[u]
      BY <1>1, <2>4 DEF IInv, Typed
    <3>. QED BY <1>2, <2>2, <3>1 DEF Local
  <2>. QED BY <2>3, <2>4
<1>. QED BY <1>2, <1>4, <1>5, Stays DEF IInv

LEMMA NothingType == Nothing \in Counts
<1>1. Nothing \in [{} -> Nat]
  BY DEF Nothing
<1>. QED BY <1>1 DEF Counts

LEMMA ScanEndStep ==
  ASSUME StockAssumption, IInv, NEW t \in Workers, ScanEnd(t)
  PROVE  IInv'
<1>1. pc[t] = "scan" /\ Goto(t, "leave")
  BY DEF ScanEnd, At
<1>2. /\ reply' = [reply EXCEPT ![t] = [said |-> "stocks", shown |-> val[t]]]
      /\ val' = [val EXCEPT ![t] = Nothing]
  BY DEF ScanEnd, Answer
<1>3. UNCHANGED <<up, once, count, readcnt, mutex, w, req>>
  BY DEF ScanEnd, shared
<1>4. Typed'
  <2>1. "leave" \in {"out", "read"} \cup ReaderPC \cup WriterPC
    BY DEF ReaderPC
  <2>2. [said |-> "stocks", shown |-> val[t]] \in [said : Says, shown : Counts]
    BY DEF IInv, Typed, Says
  <2>3. reply' \in [Workers -> [said : Says, shown : Counts]]
    BY <1>2, <2>2 DEF IInv, Typed
  <2>4. val' \in [Workers -> Counts]
    BY <1>2, NothingType DEF IInv, Typed
  <2>5. pc' \in [Workers -> {"out", "read"} \cup ReaderPC \cup WriterPC]
    BY <1>1, <2>1 DEF IInv, Typed, Goto
  <2>. QED BY <1>3, <2>3, <2>4, <2>5 DEF IInv, Typed
<1>5. OutInv' /\ MutexInv'
  BY <1>1, <1>3, SameOut, SameMutex DEF M
<1>6. ReadersInv'
  BY <1>1, <1>3, SameReaders DEF C
<1>7. WriteInv'
  BY <1>1, <1>3, SameHold, SameWrite DEF X
<1>8. Locals'
  <2>1. Local(t) /\ req[t] = [op |-> "show"]
    BY <1>1 DEF IInv, Locals, Local, ReaderPC
  <2>2. pc'[t] = "leave" /\ val'[t] = Nothing /\ reply'[t].said = "stocks" /\ req'[t] = req[t]
    BY <1>1, <1>2, <1>3 DEF Goto, IInv, Typed
  <2>3. Local(t)'
    BY <2>1, <2>2 DEF Local, ReaderPC, WriterPC
  <2>4. \A u \in Workers \ {t} : req'[u] = req[u] /\ val'[u] = val[u] /\ reply'[u] = reply[u]
    BY <1>2, <1>3 DEF IInv, Typed
  <2>. QED BY <1>1, <1>3, <2>3, <2>4, OtherLocals
<1>. QED BY <1>4, <1>5, <1>6, <1>7, <1>8 DEF IInv

LEMMA LeaveLockStep ==
  ASSUME StockAssumption, IInv, NEW t \in Workers, LeaveLock(t)
  PROVE  IInv'
<1>1. pc[t] = "leave" /\ Goto(t, "dec") /\ P(mutex)
  BY DEF LeaveLock, At
<1>2. UNCHANGED <<up, once, count, readcnt, w, req, val, reply>>
  BY DEF LeaveLock
<1>3. MutexInv' /\ mutex' = 0
  BY <1>1, <1>2, MutexTaken DEF M
<1>4. Typed'
  <2>1. "dec" \in {"out", "read"} \cup ReaderPC \cup WriterPC
    BY DEF ReaderPC
  <2>2. once' \in BOOLEAN /\ mutex' \in {0, 1} /\ w' \in {0, 1}
    BY <1>3, <1>2 DEF IInv, Typed
  <2>. QED BY <1>1, <1>2, <2>1, <2>2, MovedTyped
<1>5. OutInv'
  BY <1>1, <1>2, SameOut
<1>6. ReadersInv'
  BY <1>1, <1>2, SameReaders DEF C
<1>7. WriteInv'
  BY <1>1, <1>2, SameHold, SameWrite DEF X
<1>8. Locals'
  BY <1>1, <1>2, ShowLocal, Moved
<1>. QED BY <1>3, <1>4, <1>5, <1>6, <1>7, <1>8 DEF IInv

LEMMA LeaveCountStep ==
  ASSUME StockAssumption, IInv, NEW t \in Workers, LeaveCount(t)
  PROVE  IInv'
<1>1. PICK l \in {"last", "left"} : Goto(t, l) /\ (l = "last" <=> readcnt' = 0)
  BY DEF LeaveCount
<1>2. pc[t] = "dec" /\ readcnt' = readcnt - 1
  BY DEF LeaveCount, At
<1>3. UNCHANGED <<up, once, count, mutex, w, req, val, reply>>
  BY DEF LeaveCount
<1>4. Counted' = Counted \ {t} /\ readcnt' = Cardinality(Counted')
  <2>1. pc[t] \in C /\ l \notin C
    BY <1>2 DEF C
  <2>2. Who(C)' = Who(C) \ {t} /\ Cardinality(Who(C)') = Cardinality(Who(C)) - 1
    BY <1>1, <2>1, MoveOut DEF IInv
  <2>. QED BY <1>2, <2>2 DEF Counted, C, IInv, ReadersInv
<1>5. HoldRead /\ readcnt > 0
  <2>1. pc[t] \in C \ {"first"}
    BY <1>2 DEF C
  <2>. QED BY <2>1, ReaderHolds
<1>6. Typed'
  <2>1. l \in {"out", "read"} \cup ReaderPC \cup WriterPC
    BY DEF ReaderPC
  <2>2. once' \in BOOLEAN /\ mutex' \in {0, 1} /\ w' \in {0, 1}
    BY <1>3 DEF IInv, Typed
  <2>. QED BY <1>1, <1>3, <2>1, <2>2, MovedTyped
<1>7. OutInv' /\ MutexInv'
  BY <1>1, <1>2, <1>3, SameOut, SameMutex DEF M
<1>8. ReadersInv'
  <2>1. \A u \in Workers : pc'[u] # "first"
    BY <1>1, <1>2 DEF IInv, MutexInv, M, Typed, Goto
  <2>2. ASSUME NEW u \in Workers, pc'[u] = "last" PROVE Counted' = {}
    <3>1. u = t /\ l = "last"
      BY <1>1, <1>2, <2>2 DEF IInv, MutexInv, M, Typed, Goto
    <3>2. IsFiniteSet(Counted')
      <4>1. Counted \subseteq Workers
        BY DEF Counted, Who
      <4>. QED BY <1>4, <4>1, FS_Subset DEF StockAssumption
    <3>. QED BY <1>1, <1>4, <3>1, <3>2, FS_EmptySet
  <2>. QED BY <1>4, <2>1, <2>2 DEF ReadersInv
<1>9. WriteInv'
  <2>1. readcnt \in Nat
    BY WhoType DEF IInv, ReadersInv, Counted
  <2>2. HoldRead' <=> l = "last" \/ (readcnt' > 0 /\ l # "first")
    BY <1>1, <1>2, HoldAfter DEF M
  <2>3. HoldRead'
    BY <1>1, <1>2, <1>5, <2>1, <2>2
  <2>4. HoldRead' = HoldRead
    BY <1>5, <2>3 DEF HoldRead
  <2>. QED BY <1>1, <1>2, <1>3, <2>4, SameWrite DEF X
<1>10. Locals'
  BY <1>1, <1>2, <1>3, ShowLocal, Moved
<1>. QED BY <1>6, <1>7, <1>8, <1>9, <1>10 DEF IInv

LEMMA LeaveLastStep ==
  ASSUME StockAssumption, IInv, NEW t \in Workers, LeaveLast(t)
  PROVE  IInv'
<1>1. pc[t] = "last" /\ Goto(t, "left")
  BY DEF LeaveLast, At
<1>2. UNCHANGED <<up, once, count, readcnt, mutex, req, val, reply>>
  BY DEF LeaveLast
<1>3. HoldRead
  BY <1>1 DEF HoldRead, Who
<1>4. w = 0 /\ w' = 1
  BY <1>3 DEF LeaveLast, V, IInv, WriteInv
<1>5. Typed'
  <2>1. "left" \in {"out", "read"} \cup ReaderPC \cup WriterPC
    BY DEF ReaderPC
  <2>2. once' \in BOOLEAN /\ mutex' \in {0, 1} /\ w' \in {0, 1}
    BY <1>2, <1>4 DEF IInv, Typed
  <2>. QED BY <1>1, <1>2, <2>1, <2>2, MovedTyped
<1>6. OutInv' /\ MutexInv'
  BY <1>1, <1>2, SameOut, SameMutex DEF M
<1>7. ReadersInv'
  BY <1>1, <1>2, SameReaders DEF C
<1>8. WriteInv'
  <2>1. \A u \in Workers : pc'[u] \notin X
    BY <1>1, <1>3 DEF X, IInv, WriteInv, Typed, Goto
  <2>2. ~HoldRead'
    <3>1. Counted = {}
      BY <1>1 DEF IInv, ReadersInv
    <3>2. readcnt' = 0
      BY <1>2, <3>1, FS_EmptySet DEF IInv, ReadersInv
    <3>3. HoldRead' <=> readcnt' > 0
      BY <1>1, HoldAfter DEF M
    <3>. QED BY <3>2, <3>3
  <2>. QED BY <1>4, <2>1, <2>2 DEF WriteInv
<1>9. Locals'
  BY <1>1, <1>2, ShowLocal, Moved
<1>. QED BY <1>5, <1>6, <1>7, <1>8, <1>9 DEF IInv

LEMMA LeaveUnlockStep ==
  ASSUME StockAssumption, IInv, NEW t \in Workers, LeaveUnlock(t)
  PROVE  IInv'
<1>1. pc[t] = "left" /\ Goto(t, "show") /\ V(mutex)
  BY DEF LeaveUnlock, At
<1>2. UNCHANGED <<up, once, count, readcnt, w, req, val, reply>>
  BY DEF LeaveUnlock
<1>3. MutexInv' /\ mutex' = 1
  BY <1>1, <1>2, MutexGiven DEF M
<1>4. Typed'
  <2>1. "show" \in {"out", "read"} \cup ReaderPC \cup WriterPC
    BY DEF ReaderPC
  <2>2. once' \in BOOLEAN /\ mutex' \in {0, 1} /\ w' \in {0, 1}
    BY <1>2, <1>3 DEF IInv, Typed
  <2>. QED BY <1>1, <1>2, <2>1, <2>2, MovedTyped
<1>5. OutInv'
  BY <1>1, <1>2, SameOut
<1>6. ReadersInv'
  BY <1>1, <1>2, SameReaders DEF C
<1>7. WriteInv'
  BY <1>1, <1>2, SameHold, SameWrite DEF X
<1>8. Locals'
  BY <1>1, <1>2, ShowLocal, Moved
<1>. QED BY <1>3, <1>4, <1>5, <1>6, <1>7, <1>8 DEF IInv

\* A step outside the critical sections.
LEMMA Apart ==
  ASSUME IInv, NEW t \in Workers, NEW l, Goto(t, l), pc[t] # "out",
         pc[t] \notin M \cup C \cup X, l \notin M \cup C \cup X,
         UNCHANGED <<once, readcnt, mutex, w>>
  PROVE  OutInv' /\ MutexInv' /\ ReadersInv' /\ WriteInv'
<1>1. OutInv' /\ MutexInv'
  BY SameOut, SameMutex
<1>2. pc[t] \notin {"first", "last"} /\ l \notin {"first", "last"}
  BY DEF M
<1>3. ReadersInv' /\ HoldRead' = HoldRead
  BY <1>2, SameReaders, SameHold
<1>4. WriteInv'
  BY <1>3, SameWrite
<1>. QED BY <1>1, <1>3, <1>4

\* The end of a request.
LEMMA RequestDone ==
  ASSUME IInv, NEW t \in Workers, Goto(t, "read"), pc[t] \in {"show", "written"},
         req' = [req EXCEPT ![t] = NoRequest],
         reply' = [reply EXCEPT ![t] = NoAnswer],
         UNCHANGED <<up, once, count, val, mutex>>, w' \in {0, 1}
  PROVE  Typed' /\ Locals'
<1>1. NoAnswer \in [said : Says, shown : Counts]
  BY NothingType DEF NoAnswer, Says
<1>2. Typed'
  <2>1. pc' \in [Workers -> {"out", "read"} \cup ReaderPC \cup WriterPC]
    BY DEF IInv, Typed, Goto
  <2>2. reply' \in [Workers -> [said : Says, shown : Counts]]
    BY <1>1 DEF IInv, Typed
  <2>3. req' \in [Workers -> Request \cup {NoRequest}]
    BY DEF IInv, Typed
  <2>. QED BY <2>1, <2>2, <2>3 DEF IInv, Typed
<1>3. Locals'
  <2>1. Local(t)
    BY DEF IInv, Locals
  <2>2. pc'[t] = "read" /\ req'[t] = NoRequest /\ reply'[t] = NoAnswer /\ val'[t] = val[t]
    BY DEF Goto, IInv, Typed
  <2>3. Local(t)'
    BY <2>1, <2>2 DEF Local, ReaderPC, WriterPC
  <2>4. \A u \in Workers \ {t} : req'[u] = req[u] /\ val'[u] = val[u] /\ reply'[u] = reply[u]
    BY DEF IInv, Typed
  <2>. QED BY <2>3, <2>4, OtherLocals
<1>. QED BY <1>2, <1>3

LEMMA SendShowStep ==
  ASSUME StockAssumption, IInv, NEW t \in Workers, SendShow(t)
  PROVE  IInv'
<1>1. pc[t] = "show" /\ Goto(t, "read")
  BY DEF SendShow, At
<1>2. UNCHANGED <<up, once, count, readcnt, mutex, w, val>>
  BY DEF SendShow, shared
<1>3. OutInv' /\ MutexInv' /\ ReadersInv' /\ WriteInv'
  BY <1>1, <1>2, Apart DEF M, C, X
<1>4. w' \in {0, 1}
  BY <1>2 DEF IInv, Typed
<1>5. Typed' /\ Locals'
  BY <1>1, <1>2, <1>4, RequestDone DEF SendShow
<1>. QED BY <1>3, <1>5 DEF IInv

-----------------------------------------------------------------------------
(***************************************************************************)
(* The steps of buy and sell.                                              *)
(***************************************************************************)
LEMMA WriteLockStep ==
  ASSUME StockAssumption, IInv, NEW t \in Workers, WriteLock(t)
  PROVE  IInv'
<1>1. pc[t] = "write" /\ Goto(t, "find") /\ w = 1 /\ w' = 0
  BY DEF WriteLock, At, P, IInv, Typed
<1>2. UNCHANGED <<up, once, count, readcnt, mutex, req, val, reply>>
  BY DEF WriteLock
<1>3. Typed'
  <2>1. "find" \in {"out", "read"} \cup ReaderPC \cup WriterPC
    BY DEF WriterPC
  <2>2. once' \in BOOLEAN /\ mutex' \in {0, 1} /\ w' \in {0, 1}
    BY <1>1, <1>2 DEF IInv, Typed
  <2>. QED BY <1>1, <1>2, <2>1, <2>2, MovedTyped
<1>4. OutInv' /\ MutexInv'
  BY <1>1, <1>2, SameOut, SameMutex DEF M
<1>5. ReadersInv' /\ HoldRead' = HoldRead
  BY <1>1, <1>2, SameReaders, SameHold DEF C
<1>6. WriteInv'
  <2>1. (\A u \in Workers : pc[u] \notin X) /\ ~HoldRead
    BY <1>1 DEF IInv, WriteInv
  <2>2. \A u \in Workers \ {t} : pc'[u] \notin X
    BY <1>1, <2>1 DEF IInv, Typed, Goto
  <2>3. pc'[t] \in X
    BY <1>1 DEF X, IInv, Typed, Goto
  <2>4. ~HoldRead'
    BY <1>5, <2>1
  <2>5. \A u, v \in Workers : pc'[u] \in X /\ pc'[v] \in X => u = v
    BY <2>2
  <2>6. ~(\A u \in Workers : pc'[u] \notin X)
    BY <2>3
  <2>. QED BY <1>1, <2>4, <2>5, <2>6 DEF WriteInv
<1>7. Locals'
  <2>1. Local(t) /\ pc'[t] = "find"
    BY <1>1 DEF IInv, Locals, Typed, Goto
  <2>2. Local(t)'
    BY <1>1, <1>2, <2>1 DEF Local, ReaderPC, WriterPC
  <2>. QED BY <1>1, <1>2, <2>2, Moved
<1>. QED BY <1>3, <1>4, <1>5, <1>6, <1>7 DEF IInv

LEMMA ExitStep ==
  ASSUME StockAssumption, IInv, NEW t \in Workers, FindNone(t) \/ Fail(t)
  PROVE  IInv'
<1>1. up' = FALSE /\ UNCHANGED <<once, count, readcnt, mutex, w, pc, req, val, reply>>
  BY DEF FindNone, Fail, shared
<1>2. Typed' /\ Locals'
  BY <1>1 DEF IInv, Typed, Locals, Local
<1>. QED BY <1>1, <1>2, Stays DEF IInv

LEMMA FindNodeStep ==
  ASSUME StockAssumption, IInv, NEW t \in Workers, FindNode(t)
  PROVE  IInv'
<1>. DEFINE f == [i \in {req[t].id} |-> count[i]]
<1>1. pc[t] = "find" /\ Goto(t, "update") /\ req[t].id \in Stocks
  BY DEF FindNode, At
<1>2. val' = [val EXCEPT ![t] = f]
  BY DEF FindNode
<1>3. UNCHANGED <<up, once, count, readcnt, mutex, w, req, reply>>
  BY DEF FindNode, shared
<1>4. Typed'
  <2>1. pc' \in [Workers -> {"out", "read"} \cup ReaderPC \cup WriterPC]
    BY <1>1 DEF IInv, Typed, Goto, WriterPC
  <2>2. f \in [{req[t].id} -> Nat]
    BY <1>1 DEF IInv, Typed
  <2>3. f \in Counts
    BY <1>1, <2>2 DEF Counts
  <2>. QED BY <1>2, <1>3, <2>1, <2>3 DEF IInv, Typed
<1>5. OutInv' /\ MutexInv'
  BY <1>1, <1>3, SameOut, SameMutex DEF M
<1>6. ReadersInv' /\ WriteInv'
  BY <1>1, <1>3, SameReaders, SameHold, SameWrite DEF C, X
<1>7. Locals'
  <2>1. Local(t)
    BY DEF IInv, Locals
  <2>2. pc'[t] = "update" /\ val'[t] = f
    BY <1>1, <1>2 DEF IInv, Typed, Goto
  <2>3. val'[t][req'[t].id] = count'[req'[t].id]
    BY <1>3, <2>2
  <2>4. Local(t)'
    BY <1>1, <1>3, <2>1, <2>2, <2>3 DEF Local, ReaderPC, WriterPC
  <2>5. \A u \in Workers \ {t} : req'[u] = req[u] /\ val'[u] = val[u] /\ reply'[u] = reply[u]
    BY <1>2, <1>3 DEF IInv, Typed
  <2>. QED BY <1>1, <1>3, <2>4, <2>5, OtherLocals
<1>. QED BY <1>4, <1>5, <1>6, <1>7 DEF IInv

LEMMA UpdateStep ==
  ASSUME StockAssumption, IInv, NEW t \in Workers, Update(t)
  PROVE  IInv'
<1>1. pc[t] = "update" /\ Goto(t, "answer") /\ val' = [val EXCEPT ![t] = Nothing]
  BY DEF Update, At
<1>2. UNCHANGED <<up, once, readcnt, mutex, w, req>>
  BY DEF Update, locks
<1>3. PICK what :
        /\ reply' = [reply EXCEPT ![t] = [said |-> what, shown |-> Nothing]]
        /\ what \in {"success", "not enough"}
  BY DEF Update, Answer
<1>4. Local(t) /\ req[t] \in Trades /\ req[t].id \in Stocks
      /\ val[t][req[t].id] = count[req[t].id]
  BY <1>1 DEF IInv, Locals, Local, WriterPC
<1>5. req[t].count \in Nat /\ count[req[t].id] \in Nat
  BY <1>4 DEF StockAssumption, Trades, IInv, Typed
<1>6. count' \in [Stocks -> Nat]
  <2>1. count \in [Stocks -> Nat]
    BY DEF IInv, Typed
  <2>2. ASSUME NEW n \in Nat, Store(t, n) PROVE count' \in [Stocks -> Nat]
    BY <2>1, <2>2 DEF Store
  <2>3. PICK left \in Nat : left = val[t][req[t].id]
    BY <1>4, <1>5
  <2>4. PICK n \in Nat : n = req[t].count
    BY <1>5
  <2>5. \/ count' = count
        \/ Store(t, left - n) /\ left >= n
        \/ Store(t, left + n)
    BY <2>3, <2>4 DEF Update
  <2>6. left >= n => left - n \in Nat
    OBVIOUS
  <2>7. left + n \in Nat
    OBVIOUS
  <2>. QED BY <2>1, <2>2, <2>5, <2>6, <2>7
<1>7. Typed'
  <2>1. pc' \in [Workers -> {"out", "read"} \cup ReaderPC \cup WriterPC]
    BY <1>1 DEF IInv, Typed, Goto, WriterPC
  <2>2. [said |-> what, shown |-> Nothing] \in [said : Says, shown : Counts]
    BY <1>3, NothingType DEF Says
  <2>3. reply' \in [Workers -> [said : Says, shown : Counts]]
    BY <1>3, <2>2 DEF IInv, Typed
  <2>4. val' \in [Workers -> Counts]
    BY <1>1, NothingType DEF IInv, Typed
  <2>. QED BY <1>2, <1>6, <2>1, <2>3, <2>4 DEF IInv, Typed
<1>8. OutInv' /\ MutexInv'
  BY <1>1, <1>2, SameOut, SameMutex DEF M
<1>9. ReadersInv' /\ WriteInv'
  BY <1>1, <1>2, SameReaders, SameHold, SameWrite DEF C, X
<1>10. Locals'
  <2>1. SUFFICES ASSUME NEW u \in Workers PROVE Local(u)'
    BY DEF Locals
  <2>2. CASE u = t
    <3>1. pc'[t] = "answer" /\ val'[t] = Nothing /\ reply'[t].said = what /\ req'[t] = req[t]
      BY <1>1, <1>2, <1>3 DEF IInv, Typed, Goto
    <3>. QED BY <1>3, <1>4, <2>2, <3>1 DEF Local, ReaderPC, WriterPC
  <2>3. CASE u # t
    <3>1. pc[u] \notin {"scan", "update"}
      BY <1>1, <2>3, NoScanWhileWriting DEF X, IInv, WriteInv
    <3>2. pc'[u] = pc[u] /\ val'[u] = val[u] /\ reply'[u] = reply[u] /\ req'[u] = req[u]
      BY <1>1, <1>2, <1>3, <2>3 DEF IInv, Typed, Goto
    <3>3. Local(u)
      BY DEF IInv, Locals
    <3>. QED BY <3>1, <3>2, <3>3 DEF Local
  <2>. QED BY <2>2, <2>3
<1>. QED BY <1>7, <1>8, <1>9, <1>10 DEF IInv

LEMMA SendAnswerStep ==
  ASSUME StockAssumption, IInv, NEW t \in Workers, SendAnswer(t)
  PROVE  IInv'
<1>1. pc[t] = "answer" /\ Goto(t, "written")
  BY DEF SendAnswer, At
<1>2. UNCHANGED <<up, once, count, readcnt, mutex, w, req, val, reply>>
  BY DEF SendAnswer, shared
<1>3. Typed'
  <2>1. "written" \in {"out", "read"} \cup ReaderPC \cup WriterPC
    BY DEF WriterPC
  <2>2. once' \in BOOLEAN /\ mutex' \in {0, 1} /\ w' \in {0, 1}
    BY <1>2 DEF IInv, Typed
  <2>. QED BY <1>1, <1>2, <2>1, <2>2, MovedTyped
<1>4. OutInv' /\ MutexInv'
  BY <1>1, <1>2, SameOut, SameMutex DEF M
<1>5. ReadersInv' /\ WriteInv'
  BY <1>1, <1>2, SameReaders, SameHold, SameWrite DEF C, X
<1>6. Locals'
  <2>1. Local(t) /\ pc'[t] = "written"
    BY <1>1 DEF IInv, Locals, Typed, Goto
  <2>2. Local(t)'
    BY <1>1, <1>2, <2>1 DEF Local, ReaderPC, WriterPC
  <2>. QED BY <1>1, <1>2, <2>2, Moved
<1>. QED BY <1>3, <1>4, <1>5, <1>6 DEF IInv

LEMMA WriteUnlockStep ==
  ASSUME StockAssumption, IInv, NEW t \in Workers, WriteUnlock(t)
  PROVE  IInv'
<1>1. pc[t] = "written" /\ Goto(t, "read")
  BY DEF WriteUnlock, At
<1>2. UNCHANGED <<up, once, count, readcnt, mutex, val>>
  BY DEF WriteUnlock
<1>3. w = 0 /\ w' = 1 /\ ~HoldRead
  BY <1>1 DEF WriteUnlock, V, IInv, WriteInv, X
<1>4. OutInv' /\ MutexInv'
  BY <1>1, <1>2, SameOut, SameMutex DEF M
<1>5. ReadersInv' /\ HoldRead' = HoldRead
  BY <1>1, <1>2, SameReaders, SameHold DEF C
<1>6. WriteInv'
  <2>1. \A u \in Workers : pc'[u] \notin X
    BY <1>1 DEF IInv, WriteInv, X, Typed, Goto
  <2>. QED BY <1>3, <1>5, <2>1 DEF WriteInv
<1>7. Typed' /\ Locals'
  BY <1>1, <1>2, <1>3, RequestDone DEF WriteUnlock
<1>. QED BY <1>4, <1>5, <1>6, <1>7 DEF IInv

-----------------------------------------------------------------------------
(***************************************************************************)
(* The steps of the clients.                                               *)
(***************************************************************************)
LEMMA ConnectStep ==
  ASSUME StockAssumption, IInv, NEW t \in Workers, Connect(t)
  PROVE  IInv'
<1>1. pc[t] = "out" /\ Goto(t, "read") /\ once' = TRUE
  BY DEF Connect, At, IInv, Typed
<1>2. UNCHANGED <<up, count, req, val, reply>>
  BY DEF Connect
<1>3. \/ once /\ UNCHANGED <<once, readcnt, mutex, w>>
      \/ ~once /\ readcnt' = 0 /\ mutex' = 1 /\ w' = 1
  BY DEF Connect, locks
<1>4. Typed'
  <2>1. mutex' \in {0, 1} /\ w' \in {0, 1}
    BY <1>3 DEF IInv, Typed
  <2>. QED BY <1>1, <1>2, <2>1, MovedTyped
<1>5. OutInv'
  BY <1>1 DEF OutInv
<1>6. Locals'
  <2>1. Local(t) /\ pc'[t] = "read"
    BY <1>1 DEF IInv, Locals, Typed, Goto
  <2>2. Local(t)'
    BY <1>1, <1>2, <2>1 DEF Local, ReaderPC, WriterPC
  <2>. QED BY <1>1, <1>2, <2>2, Moved
<1>7. CASE once
  <2>1. UNCHANGED <<once, readcnt, mutex, w>>
    BY <1>3, <1>7
  <2>2. MutexInv'
    BY <1>1, <2>1, SameMutex DEF M
  <2>3. ReadersInv' /\ WriteInv'
    BY <1>1, <2>1, SameReaders, SameHold, SameWrite DEF C, X
  <2>. QED BY <1>4, <1>5, <1>6, <2>2, <2>3 DEF IInv
<1>8. CASE ~once
  <2>1. readcnt' = 0 /\ mutex' = 1 /\ w' = 1
    BY <1>3, <1>8
  <2>2. \A u \in Workers : pc'[u] \in {"out", "read"}
    BY <1>1, <1>8 DEF IInv, OutInv, Typed, Goto
  <2>3. Counted' = {} /\ ~HoldRead'
    BY <2>1, <2>2 DEF Counted, HoldRead, Who
  <2>4. MutexInv'
    BY <2>1, <2>2 DEF MutexInv, M
  <2>5. ReadersInv'
    BY <2>1, <2>2, <2>3, FS_EmptySet DEF ReadersInv
  <2>6. WriteInv'
    BY <2>1, <2>2, <2>3 DEF WriteInv, X
  <2>. QED BY <1>4, <1>5, <1>6, <2>4, <2>5, <2>6 DEF IInv
<1>. QED BY <1>7, <1>8

LEMMA LeaveStep ==
  ASSUME StockAssumption, IInv, NEW t \in Workers, Leave(t)
  PROVE  IInv'
<1>1. pc[t] = "read" /\ Goto(t, "out")
  BY DEF Leave, At
<1>2. UNCHANGED <<up, once, count, readcnt, mutex, w, req, val, reply>>
  BY DEF Leave, shared
<1>3. Typed'
  <2>1. once' \in BOOLEAN /\ mutex' \in {0, 1} /\ w' \in {0, 1}
    BY <1>2 DEF IInv, Typed
  <2>. QED BY <1>1, <1>2, <2>1, MovedTyped
<1>4. OutInv' /\ MutexInv' /\ ReadersInv' /\ WriteInv'
  BY <1>1, <1>2, Apart DEF M, C, X
<1>5. Locals'
  <2>1. Local(t) /\ pc'[t] = "out"
    BY <1>1 DEF IInv, Locals, Typed, Goto
  <2>2. Local(t)'
    BY <1>1, <1>2, <2>1 DEF Local, ReaderPC, WriterPC
  <2>. QED BY <1>1, <1>2, <2>2, Moved
<1>. QED BY <1>3, <1>4, <1>5 DEF IInv

\* A request r is read, and the worker goes to l.
LEMMA ReadStep ==
  ASSUME StockAssumption, IInv, NEW t \in Workers, NEW r, NEW l,
         pc[t] = "read", Goto(t, l), req' = [req EXCEPT ![t] = r],
         UNCHANGED <<up, shared, val, reply>>,
         \/ r = [op |-> "show"] /\ l = "enter"
         \/ r \in Trades /\ l = "write"
  PROVE  IInv'
<1>1. UNCHANGED <<up, once, count, readcnt, mutex, w, val, reply>>
  BY DEF shared
<1>2. Typed'
  <2>1. r \in Request
    BY DEF Request, Trades
  <2>2. req' \in [Workers -> Request \cup {NoRequest}]
    BY <2>1 DEF IInv, Typed
  <2>3. pc' \in [Workers -> {"out", "read"} \cup ReaderPC \cup WriterPC]
    BY DEF IInv, Typed, Goto, ReaderPC, WriterPC
  <2>. QED BY <1>1, <2>2, <2>3 DEF IInv, Typed
<1>3. OutInv' /\ MutexInv' /\ ReadersInv' /\ WriteInv'
  <2>1. l \notin M \cup C \cup X /\ pc[t] \notin M \cup C \cup X
    BY DEF M, C, X
  <2>. QED BY <1>1, <2>1, Apart
<1>4. Locals'
  <2>1. Local(t) /\ pc'[t] = l /\ req'[t] = r
    BY DEF IInv, Locals, Typed, Goto
  <2>2. Local(t)'
    BY <1>1, <2>1 DEF Local, ReaderPC, WriterPC
  <2>3. \A u \in Workers \ {t} : req'[u] = req[u] /\ val'[u] = val[u] /\ reply'[u] = reply[u]
    BY <1>1 DEF IInv, Typed
  <2>. QED BY <1>1, <2>2, <2>3, OtherLocals
<1>. QED BY <1>2, <1>3, <1>4 DEF IInv

LEMMA ReadRequestStep ==
  ASSUME StockAssumption, IInv, NEW t \in Workers,
         \/ ReadShow(t)
         \/ \E op \in {"buy", "sell"}, id \in Ids, n \in Amounts : ReadTrade(t, op, id, n)
  PROVE  IInv'
<1>1. CASE ReadShow(t)
  BY <1>1, ReadStep DEF ReadShow, At
<1>2. CASE \E op \in {"buy", "sell"}, id \in Ids, n \in Amounts : ReadTrade(t, op, id, n)
  <2>1. PICK op \in {"buy", "sell"}, id \in Ids, n \in Amounts : ReadTrade(t, op, id, n)
    BY <1>2
  <2>2. [op |-> op, id |-> id, count |-> n] \in Trades
    BY DEF Trades
  <2>. QED BY <2>1, <2>2, ReadStep DEF ReadTrade, At
<1>. QED BY <1>1, <1>2

-----------------------------------------------------------------------------
(***************************************************************************)
(* The invariant.                                                          *)
(***************************************************************************)
LEMMA InitInv ==
  ASSUME StockAssumption, Init
  PROVE  IInv
<1>1. \A t \in Workers : pc[t] = "out" /\ req[t] = NoRequest /\ val[t] = Nothing /\ reply[t] = NoAnswer
  BY DEF Init
<1>2. Typed
  <2>1. NoAnswer \in [said : Says, shown : Counts] /\ Nothing \in Counts
    BY NothingType DEF NoAnswer, Says
  <2>. QED BY <2>1 DEF Init, Typed, StockAssumption
<1>3. Counted = {} /\ ~HoldRead
  BY <1>1 DEF Init, Counted, HoldRead, Who
<1>4. OutInv /\ MutexInv
  BY <1>1 DEF OutInv, MutexInv, M, Init
<1>5. ReadersInv /\ WriteInv
  BY <1>1, <1>3, FS_EmptySet DEF ReadersInv, WriteInv, X, Init
<1>6. Locals
  BY <1>1 DEF Locals, Local, ReaderPC, WriterPC
<1>. QED BY <1>2, <1>4, <1>5, <1>6 DEF IInv

LEMMA NextInv ==
  ASSUME StockAssumption, IInv, [Next]_vars
  PROVE  IInv'
<1>1. CASE UNCHANGED vars
  <2>1. Typed' /\ Locals'
    BY <1>1 DEF vars, IInv, Typed, Locals, Local
  <2>. QED BY <1>1, <2>1, Stays DEF vars, IInv
<1>2. ASSUME NEW t \in Workers, Step(t) PROVE IInv'
  <2>1. ASSUME NEW s \in Stocks, ScanNode(t, s) PROVE IInv'
    BY <2>1, ScanNodeStep
  <2>2. CASE EnterLock(t) \/ EnterCount(t) \/ EnterFirst(t) \/ EnterUnlock(t)
    BY <2>2, EnterLockStep, EnterCountStep, EnterFirstStep, EnterUnlockStep
  <2>3. CASE ScanEnd(t) \/ LeaveLock(t) \/ LeaveCount(t) \/ LeaveLast(t)
    BY <2>3, ScanEndStep, LeaveLockStep, LeaveCountStep, LeaveLastStep
  <2>4. CASE LeaveUnlock(t) \/ SendShow(t) \/ WriteLock(t) \/ FindNone(t)
    BY <2>4, LeaveUnlockStep, SendShowStep, WriteLockStep, ExitStep
  <2>5. CASE FindNode(t) \/ Update(t) \/ SendAnswer(t) \/ WriteUnlock(t)
    BY <2>5, FindNodeStep, UpdateStep, SendAnswerStep, WriteUnlockStep
  <2>. QED BY <1>2, <2>1, <2>2, <2>3, <2>4, <2>5 DEF Step
<1>3. ASSUME NEW t \in Workers, Client(t) PROVE IInv'
  BY <1>3, ConnectStep, LeaveStep, ExitStep, ReadRequestStep DEF Client
<1>. QED BY <1>1, <1>2, <1>3 DEF Next

\* The lock, and what each worker has in hand, in every reachable state.
THEOREM Invariant == Spec => []IInv
<1>1. Init => IInv
  BY InitInv, StockAssumption
<1>2. IInv /\ [Next]_vars => IInv'
  BY NextInv, StockAssumption
<1>. QED BY <1>1, <1>2, PTL DEF Spec

LEMMA CardSmall ==
  ASSUME StockAssumption, NEW L, \A t, u \in Workers : pc[t] \in L /\ pc[u] \in L => t = u
  PROVE  Cardinality(Who(L)) = IF Who(L) = {} THEN 0 ELSE 1
<1>1. CASE Who(L) = {}
  BY <1>1, FS_EmptySet
<1>2. CASE Who(L) # {}
  <2>1. PICK t \in Workers : Who(L) = {t}
    BY <1>2 DEF Who
  <2>. QED BY <1>2, <2>1, FS_Singleton
<1>. QED BY <1>1, <1>2

\* Type correctness: the semaphores are never above 1, and readcnt is never
\* negative nor above the number of workers.
THEOREM TypeCorrect == Spec => []TypeOK
<1>1. ASSUME IInv PROVE TypeOK
  <2>1. readcnt \in 0..Cardinality(Workers)
    <3>1. Cardinality(Workers) \in Nat
      BY StockAssumption, FS_CardinalityType DEF StockAssumption
    <3>. QED BY <1>1, <3>1, StockAssumption, WhoType DEF IInv, ReadersInv, Counted
  <2>2. \A f \in Counts : IsCounts(f)
    BY DEF Counts, IsCounts
  <2>3. \A t \in Workers : IsCounts(val[t])
    BY <1>1, <2>2 DEF IInv, Typed
  <2>4. \A r \in [said : Says, shown : Counts] :
           /\ DOMAIN r = {"said", "shown"}
           /\ r.said \in {"nothing", "stocks", "success", "not enough"}
           /\ IsCounts(r.shown)
    BY <2>2 DEF Says
  <2>5. \A t \in Workers : reply[t] \in [said : Says, shown : Counts]
    BY <1>1 DEF IInv, Typed
  <2>. QED BY <1>1, <2>1, <2>3, <2>4, <2>5 DEF IInv, Typed, TypeOK
<1>. QED BY <1>1, Invariant, PTL

\* The readers-writers lock: what readcnt, mutex and w say of the workers is
\* what the workers do, and nobody scans the table while somebody writes it.
THEOREM LockCorrect == Spec => []LockInvariant
<1>1. ASSUME IInv PROVE LockInvariant
  <2>1. SUFFICES ASSUME once PROVE LockInvariant
    BY DEF LockInvariant
  <2>2. mutex = 1 - Cardinality(InMutex)
    <3>1. Cardinality(InMutex) = IF InMutex = {} THEN 0 ELSE 1
      BY <1>1, StockAssumption, CardSmall DEF IInv, MutexInv, M, InMutex
    <3>2. mutex = IF InMutex = {} THEN 1 ELSE 0
      BY <1>1, <2>1 DEF IInv, MutexInv, M, InMutex, Who
    <3>. QED BY <3>1, <3>2
  <2>3. w = 1 - Cardinality(Writers) - (IF HoldRead THEN 1 ELSE 0)
    <3>1. Cardinality(Writers) = IF Writers = {} THEN 0 ELSE 1
      BY <1>1, StockAssumption, CardSmall DEF IInv, WriteInv, X, Writers
    <3>2. w = IF Writers = {} /\ ~HoldRead THEN 1 ELSE 0
      BY <1>1, <2>1 DEF IInv, WriteInv, X, Writers, Who
    <3>3. Writers # {} => ~HoldRead
      BY <1>1 DEF IInv, WriteInv, X, Writers, Who
    <3>. QED BY <3>1, <3>2, <3>3
  <2>4. Writers # {} => Who({"scan"}) = {}
    BY <1>1, StockAssumption, NoScanWhileWriting DEF Writers, Who, X
  <2>5. readcnt = Cardinality(Counted)
    BY <1>1 DEF IInv, ReadersInv
  <2>. QED BY <2>2, <2>3, <2>4, <2>5 DEF LockInvariant
<1>. QED BY <1>1, Invariant, PTL

-----------------------------------------------------------------------------
(***************************************************************************)
(* The requests are carried out as if each took one step.                  *)
(***************************************************************************)
LEMMA SameWords == /\ T!NoRequest = NoRequest /\ T!NoAnswer = NoAnswer
                   /\ T!Nothing = Nothing /\ T!Request = Request
BY DEF T!NoRequest, T!NoAnswer, T!Nothing, T!Request, T!Shows, T!Trades,
       NoRequest, NoAnswer, Nothing, Request

\* show takes effect when the last node has been visited.
LEMMA ShowRefines ==
  ASSUME IInv, NEW t \in Workers, ScanEnd(t)
  PROVE  T!Show(t)
<1>1. pc[t] = "scan" /\ DOMAIN val[t] = Stocks
  BY DEF ScanEnd, At
<1>2. req[t] = [op |-> "show"] /\ reply[t] = NoAnswer /\ \A s \in Stocks : val[t][s] = count[s]
  BY <1>1 DEF IInv, Locals, Local, ReaderPC
<1>3. val[t] = count
  <2>1. val[t] \in [Stocks -> Nat]
    BY <1>1, CountsType DEF IInv, Typed
  <2>2. count \in [Stocks -> Nat]
    BY DEF IInv, Typed
  <2>. QED BY <1>2, <2>1, <2>2
<1>4. reply' = [reply EXCEPT ![t] = [said |-> "stocks", shown |-> count]]
  BY <1>3 DEF ScanEnd, Answer
<1>5. UNCHANGED <<count, req>>
  BY DEF ScanEnd, shared
<1>6. T!Pending(t, "show")
  BY <1>2, SameWords DEF T!Pending
<1>. QED BY <1>4, <1>5, <1>6 DEF T!Show, T!Answer

\* buy and sell take effect when the node is written.
LEMMA UpdateRefines ==
  ASSUME IInv, NEW t \in Workers, Update(t)
  PROVE  T!Buy(t) \/ T!Sell(t)
<1>1. pc[t] = "update"
  BY DEF Update, At
<1>2. /\ reply[t] = NoAnswer /\ req[t].id \in Stocks
      /\ val[t][req[t].id] = count[req[t].id]
  BY <1>1 DEF IInv, Locals, Local
<1>3. UNCHANGED req
  BY DEF Update
<1>4. reply[t] = T!NoAnswer
  BY <1>2, SameWords
<1>5. PICK left : left = count[req[t].id] /\ left = val[t][req[t].id]
  BY <1>2
<1>6. \/ /\ req[t].op = "buy" /\ left >= req[t].count
         /\ count' = [count EXCEPT ![req[t].id] = left - req[t].count]
         /\ T!Answer(t, "success", T!Nothing)
      \/ /\ req[t].op = "buy" /\ left < req[t].count
         /\ UNCHANGED count
         /\ T!Answer(t, "not enough", T!Nothing)
      \/ /\ req[t].op = "sell"
         /\ count' = [count EXCEPT ![req[t].id] = left + req[t].count]
         /\ T!Answer(t, "success", T!Nothing)
  BY <1>3, <1>5, SameWords DEF Update, Store, Answer, T!Answer
<1>7. CASE req[t].op = "buy"
  BY <1>2, <1>4, <1>5, <1>6, <1>7 DEF T!Buy, T!Pending
<1>8. CASE req[t].op = "sell"
  BY <1>2, <1>4, <1>5, <1>6, <1>8 DEF T!Sell, T!Pending
<1>. QED BY <1>6, <1>7, <1>8

LEMMA DoneRefines ==
  ASSUME IInv, NEW t \in Workers, SendShow(t) \/ WriteUnlock(t)
  PROVE  T!Done(t)
<1>1. pc[t] \in {"show", "written"}
  BY DEF SendShow, WriteUnlock, At
<1>2. reply[t].said # "nothing"
  BY <1>1 DEF IInv, Locals, Local
<1>3. reply[t] # NoAnswer
  BY <1>2 DEF NoAnswer
<1>4. /\ req' = [req EXCEPT ![t] = NoRequest]
      /\ reply' = [reply EXCEPT ![t] = NoAnswer]
      /\ UNCHANGED count
  BY DEF SendShow, WriteUnlock, shared
<1>. QED BY <1>3, <1>4, SameWords DEF T!Done

LEMMA AskRefines ==
  ASSUME IInv, NEW t \in Workers, NEW r \in Request, pc[t] = "read",
         req' = [req EXCEPT ![t] = r], UNCHANGED <<count, reply>>
  PROVE  T!Ask(t, r)
<1>1. req[t] = NoRequest
  BY DEF IInv, Locals, Local
<1>. QED BY <1>1, SameWords DEF T!Ask

\* Every other step is one of the worker alone.
LEMMA StepRefines ==
  ASSUME IInv, NEW t \in Workers, Step(t) \/ Client(t)
  PROVE  \/ \E r \in Request : T!Ask(t, r)
         \/ T!Show(t) \/ T!Buy(t) \/ T!Sell(t) \/ T!Done(t)
         \/ UNCHANGED <<count, req, reply>>
<1>1. CASE ScanEnd(t)
  BY <1>1, ShowRefines
<1>2. CASE Update(t)
  BY <1>2, UpdateRefines
<1>3. CASE SendShow(t) \/ WriteUnlock(t)
  BY <1>3, DoneRefines
<1>4. CASE ReadShow(t)
  <2>1. [op |-> "show"] \in Request
    BY DEF Request
  <2>2. T!Ask(t, [op |-> "show"])
    BY <1>4, <2>1, AskRefines DEF ReadShow, At, shared
  <2>. QED BY <2>1, <2>2
<1>5. ASSUME NEW op \in {"buy", "sell"}, NEW id \in Ids, NEW n \in Amounts,
             ReadTrade(t, op, id, n)
      PROVE  \E r \in Request : T!Ask(t, r)
  <2>1. [op |-> op, id |-> id, count |-> n] \in Request
    BY DEF Request
  <2>2. T!Ask(t, [op |-> op, id |-> id, count |-> n])
    BY <1>5, <2>1, AskRefines DEF ReadTrade, At, shared
  <2>. QED BY <2>1, <2>2
<1>6. CASE \/ EnterLock(t) \/ EnterCount(t) \/ EnterFirst(t) \/ EnterUnlock(t)
           \/ LeaveLock(t) \/ LeaveCount(t) \/ LeaveLast(t) \/ LeaveUnlock(t)
  BY <1>6 DEF EnterLock, EnterCount, EnterFirst, EnterUnlock,
              LeaveLock, LeaveCount, LeaveLast, LeaveUnlock
<1>7. CASE \E s \in Stocks : ScanNode(t, s)
  BY <1>7 DEF ScanNode, shared
<1>8. CASE WriteLock(t) \/ FindNone(t) \/ FindNode(t) \/ SendAnswer(t)
  BY <1>8 DEF WriteLock, FindNone, FindNode, SendAnswer, shared
<1>9. CASE Connect(t) \/ Leave(t) \/ Fail(t)
  BY <1>9 DEF Connect, Leave, Fail, shared
<1>. QED BY <1>1, <1>2, <1>3, <1>4, <1>5, <1>6, <1>7, <1>8, <1>9 DEF Step, Client

\* Every answer is right for the table as it is at one moment of the request.
THEOREM ServerImplementsTable == Spec => TableSpec
<1>1. Init => T!TInit
  BY SameWords DEF Init, T!TInit
<1>2. IInv /\ [Next]_vars => [T!TNext]_(T!tvars)
  <2>1. SUFFICES ASSUME IInv, [Next]_vars PROVE [T!TNext]_(T!tvars)
    OBVIOUS
  <2>2. CASE UNCHANGED vars
    BY <2>2 DEF vars, T!tvars
  <2>3. ASSUME NEW t \in Workers, Step(t) \/ Client(t) PROVE [T!TNext]_(T!tvars)
    BY <2>1, <2>3, StepRefines, SameWords DEF T!TNext, T!tvars
  <2>. QED BY <2>1, <2>2, <2>3 DEF Next
<1>. QED BY <1>1, <1>2, Invariant, PTL DEF Spec, TableSpec, T!TSpec

\* The semaphores and readcnt are right at every step of all workers.
THEOREM LocksStayRight == Spec => []LocksRight
BY TypeCorrect, LockCorrect, PTL DEF LocksRight
=============================================================================
