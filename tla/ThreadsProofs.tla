--------------------------- MODULE ThreadsProofs ---------------------------
(***************************************************************************)
(* Theorems about the thread system, for any number of threads, priorities *)
(* and semaphores.                                                         *)
(***************************************************************************)
EXTENDS ThreadsProps, FiniteSetTheorems, NaturalsInduction, SequenceTheorems,
        WellFoundedInduction, TLAPS

-----------------------------------------------------------------------------
(* What the list operations of module KernelList return, for lists of any  *)
(* length: which threads are linked afterwards, that none is linked twice, *)
(* and that an ordered insertion into a sorted list leaves it sorted.      *)

\* The members of a list of threads are threads.
LEMMA MembersType ==
  ASSUME NEW T, NEW list \in Seq(T)
  PROVE  Members(list) \subseteq T
BY DEF Members

\* A non-empty set of natural numbers has a least element.
LEMMA NatMin ==
  ASSUME NEW S \in SUBSET Nat, S # {}
  PROVE  /\ Min(S) \in S
         /\ \A x \in S : Min(S) <= x
<1>1. \E x \in S : \A y \in S : ~ (<<y, x>> \in OpToRel(<, Nat))
  BY NatLessThanWellFounded, WFMin
<1>2. PICK x \in S : \A y \in S : ~ (<<y, x>> \in OpToRel(<, Nat))
  BY <1>1
<1>3. \A y \in S : ~ (y < x)
  BY <1>2 DEF OpToRel
<1>4. \A y \in S : x =< y
  BY <1>3, SMT
<1> QED
  BY <1>4 DEF Min

\* An ordered insertion puts the newcomer at one place k: what was in front
\* of k stays, the rest moves back by one, nothing before k has a priority
\* below the newcomer's, and the element pushed back from k has.
LEMMA InsertPlace ==
  ASSUME NEW T, NEW list \in Seq(T), NEW elem \in T, NEW pri
  PROVE  LET r == list_insert_ordered(list, elem, pri)
         IN  /\ r \in Seq(T)
             /\ Len(r) = Len(list) + 1
             /\ \E k \in 1..(Len(list) + 1) :
                  /\ \A i \in 1..(Len(list) + 1) :
                       r[i] = IF i < k THEN list[i]
                              ELSE IF i = k THEN elem ELSE list[i-1]
                  /\ \A i \in 1..(k-1) : ~ get_priority(elem, list[i], pri)
                  /\ k \in 1..Len(list) => get_priority(elem, list[k], pri)
<1> DEFINE I == Behind(list, elem, pri)
           r == list_insert_ordered(list, elem, pri)
<1>1. Len(list) \in Nat /\ I \subseteq 1..Len(list)
  BY DEF Behind
<1>2. CASE I = {}
  <2>1. r = Append(list, elem)
    BY <1>2 DEF list_insert_ordered
  <2>2. \A i \in 1..Len(list) : ~ get_priority(elem, list[i], pri)
    BY <1>2 DEF Behind
  <2> HIDE DEF r
  <2>3. r \in Seq(T) /\ Len(r) = Len(list) + 1
    BY <2>1
  <2>4. \A i \in 1..(Len(list) + 1) :
          r[i] = IF i < Len(list) + 1 THEN list[i]
                 ELSE IF i = Len(list) + 1 THEN elem ELSE list[i-1]
    BY <1>1, <2>1
  <2> QED
    BY <1>1, <2>2, <2>3, <2>4 DEF r
<1>3. CASE I # {}
  <2> DEFINE k == Min(I)
  <2>1. k \in I /\ \A i \in I : k <= i
    BY <1>1, <1>3, NatMin
  <2> HIDE DEF I
  <2>2. k \in 1..Len(list) /\ \A i \in I : k <= i
    BY <1>1, <2>1
  <2>3. r = SubSeq(list, 1, k-1) \o <<elem>> \o SubSeq(list, k, Len(list))
    BY <1>3 DEF list_insert_ordered, InsertAt, I
  <2> HIDE DEF k, r
  <2> DEFINE front == SubSeq(list, 1, k-1)
             back  == SubSeq(list, k, Len(list))
  <2>4. front \in Seq(T) /\ Len(front) = k-1 /\ \A i \in 1..(k-1) : front[i] = list[i]
    BY <1>1, <2>2
  <2>5. /\ back \in Seq(T) /\ Len(back) = Len(list) - k + 1
        /\ \A i \in 1..(Len(list) - k + 1) : back[i] = list[k + i - 1]
    BY <1>1, <2>2
  <2> DEFINE upto == front \o <<elem>>
  <2> HIDE DEF front, back
  <2>7. /\ upto \in Seq(T)
        /\ Len(upto) = k
        /\ \A i \in 1..k : upto[i] = IF i < k THEN list[i] ELSE elem
    BY <2>2, <2>4
  <2> HIDE DEF upto
  <2>6. r = upto \o back
    BY <2>3 DEF upto, front, back
  <2>8. r \in Seq(T) /\ Len(r) = Len(list) + 1
    <3>1. r \in Seq(T) /\ Len(r) = Len(upto) + Len(back)
      BY <2>5, <2>6, <2>7, ConcatProperties
    <3> QED
      BY <1>1, <2>2, <2>5, <2>7, <3>1
  <2>9. \A i \in 1..(Len(list) + 1) :
          r[i] = IF i <= k THEN upto[i] ELSE back[i-k]
    BY <1>1, <2>2, <2>5, <2>6, <2>7
  <2>10. \A i \in 1..(Len(list) + 1) :
           r[i] = IF i < k THEN list[i] ELSE IF i = k THEN elem ELSE list[i-1]
    <3> SUFFICES ASSUME NEW i \in 1..(Len(list) + 1)
                 PROVE  r[i] = IF i < k THEN list[i]
                               ELSE IF i = k THEN elem ELSE list[i-1]
      OBVIOUS
    <3>1. CASE i <= k
      BY <2>2, <2>7, <2>9, <3>1
    <3>2. CASE ~ (i <= k)
      <4>1. i - k \in 1..(Len(list) - k + 1) /\ k + (i - k) - 1 = i - 1
        BY <1>1, <2>2, <3>2
      <4> QED
        BY <1>1, <2>2, <2>5, <2>9, <3>2, <4>1
    <3> QED
      BY <3>1, <3>2
  <2>11. \A i \in 1..(k-1) : ~ get_priority(elem, list[i], pri)
    BY <1>1, <2>2 DEF I, Behind
  <2>12. get_priority(elem, list[k], pri)
    BY <2>1 DEF k, I, Behind
  <2>13. k \in 1..(Len(list) + 1)
    BY <1>1, <2>2
  <2> QED
    BY <2>8, <2>10, <2>11, <2>12, <2>13 DEF r
<1> QED
  BY <1>2, <1>3

\* Which threads an ordered insertion links, and that it links none twice.
LEMMA InsertMembers ==
  ASSUME NEW T, NEW list \in Seq(T), NEW elem \in T, NEW pri
  PROVE  LET r == list_insert_ordered(list, elem, pri)
         IN  /\ r \in Seq(T)
             /\ Members(r) = Members(list) \cup {elem}
             /\ NoDuplicates(list) /\ elem \notin Members(list)
                  => NoDuplicates(r)
<1> DEFINE r == list_insert_ordered(list, elem, pri)
           n == Len(list)
<1>1. PICK k \in 1..(n + 1) :
        \A i \in 1..(n + 1) :
          r[i] = IF i < k THEN list[i] ELSE IF i = k THEN elem ELSE list[i-1]
  BY InsertPlace
<1>2. n \in Nat /\ \A i \in 1..n : list[i] \in T
  OBVIOUS
<1>3. r \in Seq(T) /\ Len(r) = n + 1
  BY InsertPlace
<1> HIDE DEF r, n
<1>4. Members(r) = Members(list) \cup {elem}
  <2>1. \A i \in 1..(n + 1) : r[i] \in Members(list) \cup {elem}
    BY <1>1, <1>2 DEF Members, n
  <2>2. elem \in Members(r)
    <3>1. r[k] = elem
      BY <1>1, <1>2
    <3> QED
      BY <1>3, <3>1 DEF Members
  <2>3. ASSUME NEW i \in 1..n  PROVE list[i] \in Members(r)
    <3>1. CASE i < k
      BY <1>1, <1>2, <1>3, <3>1 DEF Members
    <3>2. CASE ~ (i < k)
      <4>1. i + 1 \in 1..(n + 1) /\ r[i + 1] = list[i]
        BY <1>1, <1>2, <3>2
      <4> QED
        BY <1>3, <4>1 DEF Members
    <3> QED
      BY <3>1, <3>2
  <2> QED
    BY <1>3, <2>1, <2>2, <2>3 DEF Members, n
<1>5. NoDuplicates(list) /\ elem \notin Members(list) => NoDuplicates(r)
  <2> SUFFICES ASSUME NoDuplicates(list), elem \notin Members(list),
                      NEW i \in 1..(n + 1), NEW j \in 1..(n + 1), r[i] = r[j]
               PROVE  i = j
    BY <1>3 DEF NoDuplicates
  <2>1. \A x \in 1..n : list[x] # elem
    BY DEF Members, n
  <2>2. \A x, y \in 1..n : list[x] = list[y] => x = y
    BY DEF NoDuplicates, n
  <2> QED
    BY <1>1, <1>2, <2>1, <2>2
<1> QED
  BY <1>3, <1>4, <1>5 DEF r

\* An ordered insertion keeps a sorted list sorted: a list that is always
\* inserted into in order never has to be sorted again.
LEMMA InsertSorted ==
  ASSUME NEW T, NEW list \in Seq(T), NEW elem \in T, NEW pri \in [T -> Int],
         PrioritySorted(list, pri)
  PROVE  PrioritySorted(list_insert_ordered(list, elem, pri), pri)
<1> DEFINE r == list_insert_ordered(list, elem, pri)
           n == Len(list)
<1>1. PICK k \in 1..(n + 1) :
        /\ \A i \in 1..(n + 1) :
             r[i] = IF i < k THEN list[i] ELSE IF i = k THEN elem ELSE list[i-1]
        /\ \A i \in 1..(k-1) : ~ (pri[elem] > pri[list[i]])
        /\ k \in 1..n => pri[elem] > pri[list[k]]
  BY InsertPlace DEF get_priority
<1>2. n \in Nat /\ \A i \in 1..n : list[i] \in T
  OBVIOUS
<1>3. \A i, j \in 1..n : i < j => pri[list[i]] >= pri[list[j]]
  BY DEF PrioritySorted
<1>4. Len(r) = n + 1
  BY InsertPlace
<1> HIDE DEF r, n
<1>5. \A i \in 1..n : pri[list[i]] \in Int
  BY <1>2
<1>6. pri[elem] \in Int
  OBVIOUS
<1> SUFFICES ASSUME NEW i \in 1..(n + 1), NEW j \in 1..(n + 1), i < j
             PROVE  pri[r[i]] >= pri[r[j]]
  BY <1>4 DEF PrioritySorted, r
<1>7. CASE i < k /\ j < k
  <2>1. i \in 1..n /\ j \in 1..n
    BY <1>2, <1>7
  <2>2. r[i] = list[i] /\ r[j] = list[j]
    BY <1>1, <1>7
  <2> QED
    BY <1>3, <2>1, <2>2
<1>8. CASE i < k /\ j = k
  <2>1. i \in 1..n /\ i \in 1..(k - 1)
    BY <1>2, <1>8
  <2>2. r[i] = list[i] /\ r[j] = elem
    BY <1>1, <1>8
  <2>3. ~ (pri[elem] > pri[list[i]])
    BY <1>1, <2>1
  <2> QED
    BY <1>5, <1>6, <2>1, <2>2, <2>3
<1>9. CASE i < k /\ j > k
  <2>1. j - 1 \in 1..n /\ i \in 1..n /\ i < j - 1
    BY <1>2, <1>9
  <2>2. r[i] = list[i] /\ r[j] = list[j-1]
    BY <1>1, <1>9
  <2> QED
    BY <1>3, <2>1, <2>2
<1>10. CASE i = k
  <2>1. j - 1 \in 1..n /\ k \in 1..n /\ r[j] = list[j-1] /\ r[i] = elem
    BY <1>1, <1>2, <1>10
  <2>2. pri[list[k]] >= pri[list[j-1]]
    BY <1>2, <1>3, <1>5, <1>10, <2>1
  <2> QED
    BY <1>1, <1>5, <1>6, <2>1, <2>2
<1>11. CASE i > k
  <2>1. i - 1 \in 1..n /\ j - 1 \in 1..n /\ i - 1 < j - 1
    BY <1>2, <1>11
  <2>2. r[i] = list[i-1] /\ r[j] = list[j-1]
    BY <1>1, <1>11
  <2> QED
    BY <1>3, <2>1, <2>2
<1> QED
  BY <1>7, <1>8, <1>9, <1>10, <1>11

\* list_push_back() of a thread that is on no list.
LEMMA AppendMembers ==
  ASSUME NEW T, NEW list \in Seq(T), NEW elem \in T
  PROVE  LET r == Append(list, elem)
         IN  /\ r \in Seq(T)
             /\ Members(r) = Members(list) \cup {elem}
             /\ NoDuplicates(list) /\ elem \notin Members(list)
                  => NoDuplicates(r)
<1> DEFINE r == Append(list, elem)
           n == Len(list)
<1>1. /\ n \in Nat /\ r \in Seq(T) /\ Len(r) = n + 1
      /\ \A i \in 1..(n + 1) : r[i] = IF i = n + 1 THEN elem ELSE list[i]
  OBVIOUS
<1> HIDE DEF r
<1>2. Members(r) = Members(list) \cup {elem}
  <2>1. r[n + 1] = elem /\ n + 1 \in 1..(n + 1)
    BY <1>1
  <2> QED
    BY <1>1, <2>1 DEF Members
<1>3. NoDuplicates(list) /\ elem \notin Members(list) => NoDuplicates(r)
  BY <1>1 DEF NoDuplicates, Members
<1> QED
  BY <1>1, <1>2, <1>3 DEF r

\* list_pop_front() of a list that is not empty.
LEMMA PopMembers ==
  ASSUME NEW T, NEW list \in Seq(T), list # <<>>
  PROVE  /\ Head(list) \in Members(list)
         /\ Tail(list) \in Seq(T)
         /\ NoDuplicates(list) =>
              /\ NoDuplicates(Tail(list))
              /\ Members(Tail(list)) = Members(list) \ {Head(list)}
<1> DEFINE r == Tail(list)
           n == Len(list)
<1>1. /\ n \in Nat /\ n >= 1 /\ r \in Seq(T) /\ Len(r) = n - 1
      /\ \A i \in 1..(n - 1) : r[i] = list[i + 1]
      /\ Head(list) = list[1]
  OBVIOUS
<1> HIDE DEF r
<1>2. list[1] \in Members(list)
  BY <1>1 DEF Members
<1>3. ASSUME NoDuplicates(list)
      PROVE  NoDuplicates(r) /\ Members(r) = Members(list) \ {list[1]}
  <2>1. \A i \in 1..(n - 1) : i + 1 \in 1..n /\ i + 1 # 1
    BY <1>1
  <2>2. NoDuplicates(r)
    BY <1>1, <1>3, <2>1 DEF NoDuplicates
  <2>3. Members(r) \subseteq Members(list) \ {list[1]}
    BY <1>1, <1>3, <2>1 DEF NoDuplicates, Members
  <2>4. \A i \in 1..n : i # 1 => i - 1 \in 1..(n - 1) /\ list[i] = r[i - 1]
    BY <1>1
  <2>5. Members(list) \ {list[1]} \subseteq Members(r)
    BY <1>1, <2>4 DEF Members
  <2> QED
    BY <2>2, <2>3, <2>5
<1> QED
  BY <1>1, <1>2, <1>3 DEF r

\* Unlinking the k-th thread of a list leaves the others, in their order.
LEMMA RemovePlace ==
  ASSUME NEW T, NEW list \in Seq(T), NEW k \in 1..Len(list)
  PROVE  LET r == RemoveAt(list, k)
         IN  /\ r \in Seq(T)
             /\ Len(r) = Len(list) - 1
             /\ \A i \in 1..(Len(list) - 1) :
                  r[i] = IF i < k THEN list[i] ELSE list[i+1]
<1> DEFINE r == RemoveAt(list, k)
           front == SubSeq(list, 1, k-1)
           back  == SubSeq(list, k+1, Len(list))
<1>1. Len(list) \in Nat
  OBVIOUS
<1>2. front \in Seq(T) /\ Len(front) = k-1 /\ \A i \in 1..(k-1) : front[i] = list[i]
  BY <1>1
<1>3. /\ back \in Seq(T) /\ Len(back) = Len(list) - k
      /\ \A i \in 1..(Len(list) - k) : back[i] = list[k + i]
  BY <1>1
<1>4. r = front \o back
  BY DEF RemoveAt
<1> HIDE DEF r, front, back
<1>5. r \in Seq(T) /\ Len(r) = Len(list) - 1
  <2>1. r \in Seq(T) /\ Len(r) = Len(front) + Len(back)
    BY <1>2, <1>3, <1>4, ConcatProperties
  <2> QED
    BY <1>1, <1>2, <1>3, <2>1
<1>6. ASSUME NEW i \in 1..(Len(list) - 1)
      PROVE  r[i] = IF i < k THEN list[i] ELSE list[i+1]
  <2>1. r[i] = IF i <= Len(front) THEN front[i] ELSE back[i - Len(front)]
    BY <1>1, <1>2, <1>3, <1>4
  <2>2. CASE i < k
    BY <1>1, <1>2, <2>1, <2>2
  <2>3. CASE ~ (i < k)
    <3>1. i - (k-1) \in 1..(Len(list) - k) /\ k + (i - (k-1)) = i + 1
      BY <1>1, <2>3
    <3> QED
      BY <1>1, <1>2, <1>3, <2>1, <2>3, <3>1
  <2> QED
    BY <2>2, <2>3
<1> QED
  BY <1>5, <1>6 DEF r

\* Unlinking a thread from a list it is on once takes it, and only it, off.
LEMMA RemoveMembers ==
  ASSUME NEW T, NEW list \in Seq(T), NEW k \in 1..Len(list)
  PROVE  LET r == RemoveAt(list, k)
         IN  /\ r \in Seq(T)
             /\ Members(r) \subseteq Members(list)
             /\ Members(list) \subseteq Members(r) \cup {list[k]}
             /\ NoDuplicates(list) =>
                  NoDuplicates(r) /\ Members(r) = Members(list) \ {list[k]}
<1> DEFINE r == RemoveAt(list, k)
           n == Len(list)
<1>1. /\ r \in Seq(T) /\ Len(r) = n - 1
      /\ \A i \in 1..(n - 1) : r[i] = IF i < k THEN list[i] ELSE list[i+1]
  BY RemovePlace
<1>2. n \in Nat /\ k \in 1..n
  OBVIOUS
<1> HIDE DEF r
<1>3. Members(r) \subseteq Members(list)
  BY <1>1, <1>2 DEF Members
<1>4. ASSUME NEW i \in 1..n, i # k  PROVE list[i] \in Members(r)
  <2>1. CASE i < k
    <3>1. i \in 1..(n - 1) /\ r[i] = list[i]
      BY <1>1, <1>2, <2>1
    <3> QED
      BY <1>1, <3>1 DEF Members
  <2>2. CASE i > k
    <3>1. i - 1 \in 1..(n - 1) /\ r[i-1] = list[i]
      BY <1>1, <1>2, <2>2
    <3> QED
      BY <1>1, <3>1 DEF Members
  <2> QED
    BY <1>2, <1>4, <2>1, <2>2
<1>5. Members(list) \subseteq Members(r) \cup {list[k]}
  BY <1>4 DEF Members
<1>6. ASSUME NoDuplicates(list)
      PROVE  NoDuplicates(r) /\ Members(r) = Members(list) \ {list[k]}
  <2>1. \A x, y \in 1..n : list[x] = list[y] => x = y
    BY <1>6 DEF NoDuplicates
  <2>2. \A i \in 1..(n - 1) : r[i] # list[k]
    BY <1>1, <1>2, <2>1
  <2>3. NoDuplicates(r)
    BY <1>1, <1>2, <2>1 DEF NoDuplicates
  <2> QED
    BY <1>1, <1>3, <1>5, <2>2, <2>3 DEF Members
<1> QED
  BY <1>1, <1>3, <1>5, <1>6 DEF r

\* Unlinking a thread from a sorted list leaves it sorted.
LEMMA RemoveSorted ==
  ASSUME NEW T, NEW list \in Seq(T), NEW k \in 1..Len(list), NEW pri,
         PrioritySorted(list, pri)
  PROVE  PrioritySorted(RemoveAt(list, k), pri)
<1> DEFINE r == RemoveAt(list, k)
           n == Len(list)
           place(i) == IF i < k THEN i ELSE i + 1
<1>1. /\ Len(r) = n - 1
      /\ \A i \in 1..(n - 1) : r[i] = list[place(i)]
  BY RemovePlace
<1>2. n \in Nat
  OBVIOUS
<1> HIDE DEF r
<1> SUFFICES ASSUME NEW i \in 1..(n - 1), NEW j \in 1..(n - 1), i < j
             PROVE  pri[r[i]] >= pri[r[j]]
  BY <1>1 DEF PrioritySorted, r
<1>3. place(i) \in 1..n /\ place(j) \in 1..n /\ place(i) < place(j)
  BY <1>2
<1> QED
  BY <1>1, <1>3 DEF PrioritySorted

\* sema_up()'s scan of a sorted waiter list ends where it began: the waiter
\* of highest priority is the first one, however long the list.
LEMMA HighestIsFirst ==
  ASSUME NEW T, NEW list \in Seq(T), list # <<>>, NEW pri \in [T -> Int],
         PrioritySorted(list, pri)
  PROVE  highest_elem(list, pri) = 1
<1> DEFINE H == Highest(list, pri)
<1>1. Len(list) \in Nat /\ 1 \in 1..Len(list)
  OBVIOUS
<1>2. \A i \in 1..Len(list) : pri[list[i]] \in Int
  OBVIOUS
<1>3. \A j \in 1..Len(list) : pri[list[1]] >= pri[list[j]]
  BY <1>1, <1>2 DEF PrioritySorted
<1>4. 1 \in H /\ H \subseteq 1..Len(list)
  BY <1>1, <1>3 DEF Highest
<1> HIDE DEF H
<1>5. H \in SUBSET Nat /\ H # {}
  BY <1>1, <1>4
<1>6. Min(H) \in H /\ Min(H) <= 1
  BY <1>4, <1>5, NatMin
<1> QED
  BY <1>1, <1>4, <1>6 DEF highest_elem, H

-----------------------------------------------------------------------------
\* What each program counter says of the thread's other fields.
PcConsistent ==
  /\ pc[idle_thread] \in IdlePC
  /\ \A t \in Threads :
       /\ pc[t] \in ThreadPC
       /\ pc[t] = "down" <=> want[t] # NoSema
       /\ status[t] = "free" => pc[t] = "run"
       /\ Creating(t) => args[t].thread \in Threads
  /\ want[idle_thread] = NoSema

\* No page is being initialised by two threads.
OneCreator ==
  \A c, d \in Threads :
    Creating(c) /\ Creating(d) /\ args[c].thread = args[d].thread => c = d

\* What holds of the idle thread from its thread_block() to its hlt.
IdleConsistent ==
  current = idle_thread /\ pc[idle_thread] = "hlt"
    => context = "thread" /\ ready_list = <<>>

\* The inductive invariant.
IInv == TypeOK /\ PcConsistent /\ OneCreator /\ ElemInOneList /\ ListsSorted
          /\ IdleConsistent

-----------------------------------------------------------------------------
(***************************************************************************)
(* What the operations that the actions share do to the run queue.         *)
(***************************************************************************)

\* A thread that is made ready joins the run queue, which stays sorted.
LEMMA MakeReady ==
  ASSUME TypeOK, NEW t \in Threads, NEW list \in Seq(Threads),
         NoDuplicates(list), t \notin Members(list),
         NEW pri \in [AllThreads -> PRI_MIN..PRI_MAX],
         PrioritySorted(list, pri)
  PROVE  LET r == list_insert_ordered(list, t, pri)
         IN  /\ r \in Seq(Threads)
             /\ Members(r) = Members(list) \cup {t}
             /\ NoDuplicates(r)
             /\ PrioritySorted(r, pri)
<1>1. [AllThreads -> PRI_MIN..PRI_MAX] \subseteq [AllThreads -> Int]
  BY ThreadsAssumption
<1>2. list \in Seq(AllThreads) /\ t \in AllThreads
  BY DEF AllThreads
<1> QED
  BY <1>1, <1>2, InsertMembers, InsertSorted

\* schedule() takes the front of a list of ready threads, which no other of
\* them is above, or switches to the idle thread if there is none.
LEMMA ScheduleFront ==
  ASSUME NEW list \in Seq(Threads), NoDuplicates(list), NEW st,
         NEW pri \in [AllThreads -> PRI_MIN..PRI_MAX],
         PrioritySorted(list, pri),
         schedule(list, st)
  PROVE  /\ ready_list' \in Seq(Threads)
         /\ Members(ready_list') = Members(list) \ {current'}
         /\ NoDuplicates(ready_list')
         /\ PrioritySorted(ready_list', pri)
         /\ \/ current' = idle_thread /\ list = <<>> /\ ready_list' = <<>>
            \/ current' \in Threads /\ current' \in Members(list)
         /\ \A t \in Members(ready_list') : pri[t] <= pri[current']
<1>1. CASE list = <<>>
  <2>1. current' = idle_thread /\ ready_list' = <<>>
    BY <1>1 DEF schedule, next_thread_to_run
  <2>2. Members(<<>>) = {}
    BY DEF Members
  <2> QED
    BY <1>1, <2>1, <2>2
<1>2. CASE list # <<>>
  <2> DEFINE n == Len(list)
  <2>1. /\ n \in Nat \ {0}
        /\ \A i \in 1..n : list[i] \in Threads
        /\ Head(list) = list[1]
    BY <1>2
  <2>2. current' = list[1] /\ ready_list' = Tail(list)
    BY <1>2, <2>1 DEF schedule, next_thread_to_run
  <2>3. /\ ready_list' \in Seq(Threads) /\ Len(ready_list') = n - 1
        /\ \A i \in 1..(n - 1) : ready_list'[i] = list[i+1]
    BY <1>2, <2>2
  <2>4. current' \in Threads /\ current' \in Members(list)
    BY <2>1, <2>2 DEF Members
  <2>5. \A i, j \in 1..n : list[i] = list[j] => i = j
    BY DEF NoDuplicates
  <2>6. \A i, j \in 1..n : i < j => pri[list[i]] >= pri[list[j]]
    BY DEF PrioritySorted
  <2> HIDE DEF n
  <2>7. NoDuplicates(ready_list')
    BY <2>1, <2>3, <2>5 DEF NoDuplicates
  <2>8. PrioritySorted(ready_list', pri)
    <3> SUFFICES ASSUME NEW i \in 1..(n - 1), NEW j \in 1..(n - 1), i < j
                 PROVE  pri[ready_list'[i]] >= pri[ready_list'[j]]
      BY <2>3 DEF PrioritySorted
    <3>1. i + 1 \in 1..n /\ j + 1 \in 1..n /\ i + 1 < j + 1
      BY <2>1
    <3> QED
      BY <2>3, <2>6, <3>1
  <2>9. Members(ready_list') = Members(list) \ {current'}
    <3>1. \A i \in 1..(n - 1) : list[i+1] \in Members(list) \ {current'}
      BY <2>1, <2>2, <2>5 DEF Members, n
    <3>2. ASSUME NEW i \in 1..n, list[i] # current'
          PROVE  list[i] \in Members(ready_list')
      <4>1. i - 1 \in 1..(n - 1) /\ ready_list'[i-1] = list[i]
        BY <2>1, <2>2, <2>3, <3>2
      <4> QED
        BY <2>3, <4>1 DEF Members
    <3> QED
      BY <2>3, <3>1, <3>2 DEF Members, n
  <2>10. \A t \in Members(ready_list') : pri[t] <= pri[current']
    <3> SUFFICES ASSUME NEW i \in 1..(n - 1)
                 PROVE  pri[ready_list'[i]] <= pri[current']
      BY <2>3 DEF Members
    <3>1. 1 \in 1..n /\ i + 1 \in 1..n /\ 1 < i + 1
      BY <2>1
    <3>2. pri[list[1]] \in Int /\ pri[list[i+1]] \in Int
      BY <2>1, <3>1, ThreadsAssumption DEF AllThreads
    <3> QED
      BY <2>2, <2>3, <2>6, <3>1, <3>2
  <2> QED
    BY <2>3, <2>4, <2>7, <2>8, <2>9, <2>10
<1> QED
  BY <1>1, <1>2

\* Only the priorities of the threads on a list decide whether it is sorted.
LEMMA SortedCongruence ==
  ASSUME NEW list, NEW pri, NEW new, PrioritySorted(list, pri),
         \A t \in Members(list) : new[t] = pri[t]
  PROVE  PrioritySorted(list, new)
BY DEF PrioritySorted, Members

\* Aging keeps the run queue sorted: every thread on it gains a level, up to
\* the same limit, so that no two of them change places.
LEMMA AgingKeepsOrder ==
  ASSUME TypeOK, PrioritySorted(ready_list, priority)
  PROVE  /\ update_aging \in [AllThreads -> PRI_MIN..PRI_MAX]
         /\ \A t \in AllThreads : t \notin Members(ready_list) =>
              update_aging[t] = priority[t]
         /\ PrioritySorted(ready_list, update_aging)
<1>1. /\ PRI_MIN \in Int /\ PRI_MAX \in Int /\ PRI_MIN <= PRI_MAX
      /\ \A t \in AllThreads : priority[t] \in PRI_MIN..PRI_MAX
  BY ThreadsAssumption DEF TypeOK
<1>2. \A t \in AllThreads : Clamp(priority[t] + 1) \in PRI_MIN..PRI_MAX
  BY <1>1 DEF Clamp
<1>3. \A t, u \in AllThreads : priority[t] >= priority[u] =>
        Clamp(priority[t] + 1) >= Clamp(priority[u] + 1)
  BY <1>1 DEF Clamp
<1>4. update_aging \in [AllThreads -> PRI_MIN..PRI_MAX]
  BY <1>1, <1>2 DEF update_aging
<1>5. \A t \in Members(ready_list) :
        t \in AllThreads /\ update_aging[t] = Clamp(priority[t] + 1)
  BY DEF update_aging, Members, TypeOK, AllThreads
<1>6. PrioritySorted(ready_list, update_aging)
  BY <1>3, <1>5 DEF PrioritySorted, Members
<1> QED
  BY <1>4, <1>6 DEF update_aging

\* What schedule() does to the statuses and to the time slice.
LEMMA ScheduleStatus ==
  ASSUME NEW list \in Seq(Threads),
         NEW st \in [AllThreads -> {"free", "blocked", "ready", "running", "dying"}],
         schedule(list, st)
  PROVE  /\ current' \in AllThreads
         /\ status' \in [AllThreads -> {"free", "blocked", "ready", "running", "dying"}]
         /\ \A t \in AllThreads :
              status'[t] = IF t = current' THEN "running" ELSE st[t]
         /\ thread_ticks' \in 0..(TIME_SLICE - 1)
<1>1. current' \in AllThreads
  <2>1. CASE list = <<>>
    BY <2>1 DEF schedule, next_thread_to_run, AllThreads
  <2>2. CASE list # <<>>
    <3>1. Head(list) \in Threads
      BY <2>2
    <3> QED
      BY <2>2, <3>1 DEF schedule, next_thread_to_run, AllThreads
  <2> QED
    BY <2>1, <2>2
<1>2. status' = [st EXCEPT ![current'] = "running"] /\ thread_ticks' = 0
  BY DEF schedule
<1> QED
  BY <1>1, <1>2, ThreadsAssumption

\* What thread_block() and thread_exit() do to the run queue.
LEMMA SwitchAway ==
  ASSUME IInv, NEW st, schedule(ready_list, st)
  PROVE  /\ ready_list' \in Seq(Threads)
         /\ NoDuplicates(ready_list')
         /\ PrioritySorted(ready_list', priority)
         /\ \A t \in Threads : OnReadyList(t)' <=> OnReadyList(t) /\ t # current'
         /\ \A t \in Threads : t = current' => OnReadyList(t)
         /\ current' = idle_thread => ready_list' = <<>>
<1>1. /\ ready_list \in Seq(Threads) /\ NoDuplicates(ready_list)
      /\ PrioritySorted(ready_list, priority)
      /\ priority \in [AllThreads -> PRI_MIN..PRI_MAX]
  BY DEF IInv, TypeOK, ElemInOneList, ListsSorted
<1>2. /\ ready_list' \in Seq(Threads)
      /\ Members(ready_list') = Members(ready_list) \ {current'}
      /\ NoDuplicates(ready_list')
      /\ PrioritySorted(ready_list', priority)
      /\ \/ current' = idle_thread /\ ready_list = <<>> /\ ready_list' = <<>>
         \/ current' \in Threads /\ current' \in Members(ready_list)
  BY <1>1, ScheduleFront
<1> QED
  BY <1>2, ThreadsAssumption DEF OnReadyList

-----------------------------------------------------------------------------
(***************************************************************************)
(* Every action preserves the inductive invariant.                         *)
(***************************************************************************)

\* What the invariant says of the thread that executes.
LEMMA RunningThread ==
  ASSUME IInv, NEW l, Running(l)
  PROVE  /\ current \in Threads /\ current # idle_thread /\ current \in AllThreads
         /\ pc[current] = l /\ l \in ThreadPC
         /\ status[current] = "running"
         /\ \A t \in Threads : t # current => status[t] # "running"
         /\ ~OnReadyList(current) /\ ~OnSleepList(current) /\ ~Embryo(current)
         /\ \A s \in Semas : ~OnWaiters(current, s)
BY DEF IInv, TypeOK, Running, AllThreads, PcConsistent, ElemInOneList, ElemUse

\* thread_yield() preserves the invariant.
LEMMA YieldStep ==
  ASSUME IInv, ThreadYield
  PROVE  IInv'
<1> DEFINE L == list_insert_ordered(ready_list, current, priority)
<1>1. /\ current \in Threads /\ current # idle_thread /\ current \in AllThreads
      /\ pc[current] \in {"run", "yield"}
      /\ ~OnReadyList(current) /\ ~OnSleepList(current) /\ ~Embryo(current)
      /\ \A s \in Semas : ~OnWaiters(current, s)
  BY RunningThread DEF ThreadYield
<1>2. /\ L \in Seq(Threads)
      /\ Members(L) = Members(ready_list) \cup {current}
      /\ NoDuplicates(L)
      /\ PrioritySorted(L, priority)
  BY <1>1, MakeReady DEF IInv, TypeOK, ElemInOneList, ListsSorted, OnReadyList
<1>3. schedule(L, [status EXCEPT ![current] = "ready"])
  BY <1>1 DEF ThreadYield, thread_yield
<1>4. /\ ready_list' \in Seq(Threads)
      /\ Members(ready_list') = Members(L) \ {current'}
      /\ NoDuplicates(ready_list')
      /\ PrioritySorted(ready_list', priority)
      /\ \/ current' = idle_thread /\ L = <<>> /\ ready_list' = <<>>
         \/ current' \in Threads /\ current' \in Members(L)
  BY <1>2, <1>3, ScheduleFront DEF IInv, TypeOK
<1>5. /\ status' = [status EXCEPT ![current] = "ready", ![current'] = "running"]
      /\ thread_ticks' = 0
  BY <1>3 DEF schedule
<1>6. /\ pc' = [pc EXCEPT ![current] = "run"]
      /\ UNCHANGED <<priority, sleep_list, left, waiters, value, want, args, context>>
  BY DEF ThreadYield, sleep
<1> HIDE DEF L
<1>7. TypeOK'
  <2>1. current' \in AllThreads
    BY <1>4 DEF AllThreads
  <2>2. status' \in [AllThreads -> {"free", "blocked", "ready", "running", "dying"}]
    BY <1>1, <1>5, <2>1 DEF IInv, TypeOK
  <2>3. pc' \in [AllThreads -> ThreadPC \cup IdlePC]
    BY <1>1, <1>6 DEF IInv, TypeOK, ThreadPC
  <2>4. thread_ticks' \in 0..(TIME_SLICE - 1)
    BY <1>5, ThreadsAssumption
  <2> QED
    BY <1>4, <1>6, <2>1, <2>2, <2>3, <2>4 DEF IInv, TypeOK
<1>8. \A c \in Threads : Creating(c)' <=> Creating(c)
  BY <1>1, <1>6 DEF Creating, IInv, TypeOK, AllThreads
<1>9. PcConsistent'
  BY <1>1, <1>4, <1>5, <1>6, <1>8, ThreadsAssumption
     DEF IInv, TypeOK, PcConsistent, AllThreads, ThreadPC
<1>10. OneCreator'
  BY <1>6, <1>8 DEF IInv, OneCreator
<1>11. ElemInOneList'
  <2>1. ASSUME NEW t \in Threads  PROVE ElemUse(t)'
    <3>1. Embryo(t)' <=> Embryo(t)
      BY <1>6, <1>8 DEF Embryo
    <3>2. ElemUse(t) /\ t # idle_thread /\ t \in AllThreads
      BY ThreadsAssumption DEF IInv, ElemInOneList, AllThreads
    <3>3. t # current /\ t # current' => status'[t] = status[t] /\ pc'[t] = pc[t]
      BY <1>1, <1>4, <1>5, <1>6, <3>2 DEF IInv, TypeOK
    <3>4. /\ status'[current'] = "running"
          /\ t = current /\ t # current' => status'[t] = "ready"
          /\ t = current => pc'[t] = "run"
      BY <1>1, <1>4, <1>5, <1>6, ThreadsAssumption DEF IInv, TypeOK, AllThreads
    <3>5. t # current => pc'[t] = pc[t]
      BY <1>1, <1>6, <3>2 DEF IInv, TypeOK
    <3>6. /\ OnReadyList(t)' <=> (OnReadyList(t) \/ t = current) /\ t # current'
          /\ OnSleepList(t)' <=> OnSleepList(t)
          /\ \A s \in Semas : OnWaiters(t, s)' <=> OnWaiters(t, s)
      BY <1>2, <1>4, <1>6 DEF OnReadyList, OnSleepList, OnWaiters
    <3>7. t = current' => OnReadyList(t) \/ t = current
      BY <1>2, <1>4, <3>2 DEF OnReadyList, Members
    <3> QED
      BY <1>1, <1>6, <3>1, <3>2, <3>3, <3>4, <3>5, <3>6, <3>7 DEF ElemUse
  <2> QED
    BY <1>4, <1>6, <2>1 DEF IInv, ElemInOneList
<1>12. ListsSorted'
  BY <1>4, <1>6 DEF IInv, ListsSorted
<1>13. IdleConsistent'
  BY <1>1, <1>4, <1>6, ThreadsAssumption
     DEF IInv, IdleConsistent, ThreadYield, Running
<1> QED
  BY <1>7, <1>9, <1>10, <1>11, <1>12, <1>13 DEF IInv

\* So does the first half of thread_set_priority(), which only reads ...
LEMMA SetPriorityStep ==
  ASSUME IInv, NEW p \in Priorities, ThreadSetPriority(p)
  PROVE  IInv'
<1>1. /\ current \in Threads /\ current # idle_thread /\ current \in AllThreads
      /\ pc[current] = "run" /\ ~Embryo(current) /\ p \in PRI_MIN..PRI_MAX
      /\ context = "thread"
  BY RunningThread, ThreadsAssumption DEF ThreadSetPriority, Running
<1>2. /\ args' = [args EXCEPT ![current].priority = p]
      /\ pc' = [pc EXCEPT ![current] = IF priority[current] > p THEN "lower" ELSE "raise"]
      /\ UNCHANGED <<current, status, ready_list, thread_ticks, priority, sleep_list,
                     left, waiters, value, want, context>>
  BY DEF ThreadSetPriority, sched, sleep
<1>3. \A t \in Threads : t # current => pc'[t] = pc[t] /\ args'[t] = args[t]
  BY <1>1, <1>2 DEF IInv, TypeOK, AllThreads
<1>4. /\ pc'[current] \in {"lower", "raise"}
      /\ args'[current].thread = args[current].thread
      /\ pc'[idle_thread] = pc[idle_thread]
  BY <1>1, <1>2 DEF IInv, TypeOK, AllThreads
<1>5. \A c \in Threads : /\ Creating(c)' <=> Creating(c)
                         /\ args'[c].thread = args[c].thread
  BY <1>1, <1>2, <1>3, <1>4 DEF Creating
<1>6. TypeOK'
  BY <1>1, <1>2 DEF IInv, TypeOK, ThreadPC
<1>7. PcConsistent'
  BY <1>1, <1>2, <1>3, <1>4, <1>5 DEF IInv, PcConsistent, ThreadPC, ElemInOneList, ElemUse
<1>8. OneCreator'
  BY <1>5 DEF IInv, OneCreator
<1>9. ElemInOneList'
  <2>1. ASSUME NEW t \in Threads  PROVE ElemUse(t)'
    <3>1. ElemUse(t) /\ (Embryo(t)' <=> Embryo(t))
      BY <1>5 DEF IInv, ElemInOneList, Embryo
    <3>2. t = current => status[t] = "running"
      BY <3>1 DEF ElemUse
    <3> QED
      BY <1>1, <1>2, <1>3, <3>1, <3>2 DEF ElemUse, OnReadyList, OnSleepList, OnWaiters
  <2> QED
    BY <1>2, <2>1 DEF IInv, ElemInOneList
<1>10. ListsSorted' /\ IdleConsistent'
  BY <1>1, <1>2 DEF IInv, ListsSorted, IdleConsistent
<1> QED
  BY <1>6, <1>7, <1>8, <1>9, <1>10 DEF IInv

\* ... and the second: the running thread is on no list whose order its new
\* priority could break.
LEMMA StorePriorityStep ==
  ASSUME IInv, StorePriority
  PROVE  IInv'
<1>1. /\ current \in Threads /\ current # idle_thread /\ current \in AllThreads
      /\ pc[current] \in {"lower", "raise"} /\ ~Embryo(current)
      /\ ~OnReadyList(current)
      /\ \A s \in Semas : ~OnWaiters(current, s)
  BY RunningThread DEF StorePriority
<1>2. /\ priority' = [priority EXCEPT ![current] = args[current].priority]
      /\ pc' = [pc EXCEPT ![current] = IF @ = "lower" THEN "yield" ELSE "run"]
      /\ args' = [args EXCEPT ![current] = NoArgs]
      /\ UNCHANGED <<current, status, ready_list, thread_ticks, sleep_list,
                     left, waiters, value, want, context>>
  BY DEF StorePriority, sched, sleep
<1>3. \A t \in Threads : t # current =>
        pc'[t] = pc[t] /\ args'[t] = args[t] /\ priority'[t] = priority[t]
  BY <1>1, <1>2 DEF IInv, TypeOK, AllThreads
<1>4. pc'[current] \in {"yield", "run"} /\ pc'[idle_thread] = pc[idle_thread]
  BY <1>1, <1>2 DEF IInv, TypeOK, AllThreads
<1>5. \A c \in Threads : /\ Creating(c)' <=> Creating(c)
                         /\ Creating(c) => args'[c].thread = args[c].thread
  BY <1>1, <1>2, <1>3, <1>4 DEF Creating
<1>6. TypeOK'
  <2>1. NoArgs \in [thread : Threads \cup {NoThread}, priority : PRI_MIN..PRI_MAX]
    BY ThreadsAssumption DEF NoArgs
  <2> QED
    BY <1>1, <1>2, <2>1 DEF IInv, TypeOK, ThreadPC
<1>7. PcConsistent'
  BY <1>1, <1>2, <1>3, <1>4, <1>5 DEF IInv, PcConsistent, ThreadPC, ElemInOneList, ElemUse
<1>8. OneCreator'
  BY <1>5 DEF IInv, OneCreator
<1>9. ElemInOneList'
  <2>1. ASSUME NEW t \in Threads  PROVE ElemUse(t)'
    <3>1. ElemUse(t) /\ (Embryo(t)' <=> Embryo(t))
      BY <1>5 DEF IInv, ElemInOneList, Embryo
    <3>2. t = current => status[t] = "running"
      BY <3>1 DEF ElemUse
    <3> QED
      BY <1>1, <1>2, <1>3, <3>1, <3>2 DEF ElemUse, OnReadyList, OnSleepList, OnWaiters
  <2> QED
    BY <1>2, <2>1 DEF IInv, ElemInOneList
<1>10. ListsSorted'
  <2>1. \A t \in Members(ready_list) : t # current /\ priority'[t] = priority[t]
    BY <1>1, <1>3, MembersType DEF IInv, TypeOK, OnReadyList
  <2>2. \A s \in Semas : \A t \in Members(waiters[s]) :
          t # current /\ priority'[t] = priority[t]
    BY <1>1, <1>3, MembersType DEF IInv, TypeOK, OnWaiters
  <2>3. PrioritySorted(ready_list, priority')
    BY <2>1, SortedCongruence DEF IInv, ListsSorted
  <2>4. \A s \in Semas : PrioritySorted(waiters[s], priority')
    BY <2>2, SortedCongruence DEF IInv, ListsSorted
  <2> QED
    BY <1>2, <2>3, <2>4 DEF ListsSorted
<1>11. IdleConsistent'
  BY <1>1, <1>2 DEF IInv, IdleConsistent
<1> QED
  BY <1>6, <1>7, <1>8, <1>9, <1>10, <1>11 DEF IInv

\* thread_exit(): a running thread is on no list, so its page may be freed.
LEMMA ExitStep ==
  ASSUME IInv, ThreadExit
  PROVE  IInv'
<1> DEFINE end == IF current = initial_thread THEN "dying" ELSE "free"
           st  == [status EXCEPT ![current] = end]
<1>1. /\ current \in Threads /\ current # idle_thread /\ current \in AllThreads
      /\ pc[current] = "run" /\ ~Embryo(current) /\ ~OnReadyList(current)
      /\ ~OnSleepList(current) /\ \A s \in Semas : ~OnWaiters(current, s)
  BY RunningThread DEF ThreadExit
<1>2. /\ schedule(ready_list, st)
      /\ UNCHANGED <<priority, sleep_list, left, waiters, value, pc, want, args,
                     context>>
  BY DEF ThreadExit, sleep
<1>3. st \in [AllThreads -> {"free", "blocked", "ready", "running", "dying"}]
  BY <1>1 DEF IInv, TypeOK
<1>4. /\ current' \in AllThreads
      /\ status' \in [AllThreads -> {"free", "blocked", "ready", "running", "dying"}]
      /\ \A t \in AllThreads : status'[t] = IF t = current' THEN "running" ELSE st[t]
      /\ thread_ticks' \in 0..(TIME_SLICE - 1)
  BY <1>2, <1>3, ScheduleStatus DEF IInv, TypeOK
<1>5. /\ ready_list' \in Seq(Threads)
      /\ NoDuplicates(ready_list')
      /\ PrioritySorted(ready_list', priority)
      /\ \A t \in Threads : OnReadyList(t)' <=> OnReadyList(t) /\ t # current'
      /\ \A t \in Threads : t = current' => OnReadyList(t)
      /\ current' = idle_thread => ready_list' = <<>>
  BY <1>2, SwitchAway
<1>6. \A t \in Threads : t # current' => status'[t] = IF t = current THEN end ELSE status[t]
  BY <1>1, <1>4 DEF IInv, TypeOK, AllThreads
<1>7. \A t \in Threads : t = current' => status'[t] = "running"
  BY <1>4 DEF AllThreads
<1> HIDE DEF st
<1>8. \A c \in Threads : Creating(c)' <=> Creating(c)
  BY <1>2 DEF Creating
<1>9. TypeOK'
  BY <1>2, <1>4, <1>5 DEF IInv, TypeOK
<1>10. PcConsistent'
  BY <1>1, <1>2, <1>6, <1>7, <1>8 DEF IInv, PcConsistent
<1>11. OneCreator'
  BY <1>2, <1>8 DEF IInv, OneCreator
<1>12. ElemInOneList'
  <2>1. ASSUME NEW t \in Threads  PROVE ElemUse(t)'
    <3>1. ElemUse(t) /\ (Embryo(t)' <=> Embryo(t))
      BY <1>2, <1>8 DEF IInv, ElemInOneList, Embryo
    <3> QED
      BY <1>1, <1>2, <1>5, <1>6, <1>7, <3>1 DEF ElemUse, OnSleepList, OnWaiters
  <2> QED
    BY <1>2, <1>5, <2>1 DEF IInv, ElemInOneList
<1>13. ListsSorted'
  BY <1>2, <1>5 DEF IInv, ListsSorted
<1>14. IdleConsistent'
  BY <1>2, <1>5 DEF ThreadExit, Running, IdleConsistent
<1> QED
  BY <1>9, <1>10, <1>11, <1>12, <1>13, <1>14 DEF IInv

\* One turn of the idle loop.
LEMMA IdleStep ==
  ASSUME IInv, IdleLoop
  PROVE  IInv'
<1> DEFINE st == [status EXCEPT ![idle_thread] = "blocked"]
<1>1. /\ current = idle_thread /\ idle_thread \in AllThreads
      /\ idle_thread \notin Threads /\ context = "thread"
  BY ThreadsAssumption DEF IdleLoop, AllThreads
<1>2. /\ schedule(ready_list, st)
      /\ pc' = [pc EXCEPT ![idle_thread] = "hlt"]
      /\ UNCHANGED <<priority, sleep_list, left, waiters, value, want, args,
                     context>>
  BY <1>1 DEF IdleLoop, sleep, thread_block
<1>3. st \in [AllThreads -> {"free", "blocked", "ready", "running", "dying"}]
  BY <1>1 DEF IInv, TypeOK
<1>4. /\ current' \in AllThreads
      /\ status' \in [AllThreads -> {"free", "blocked", "ready", "running", "dying"}]
      /\ \A t \in AllThreads : status'[t] = IF t = current' THEN "running" ELSE st[t]
      /\ thread_ticks' \in 0..(TIME_SLICE - 1)
  BY <1>2, <1>3, ScheduleStatus DEF IInv, TypeOK
<1>5. /\ ready_list' \in Seq(Threads)
      /\ NoDuplicates(ready_list')
      /\ PrioritySorted(ready_list', priority)
      /\ \A t \in Threads : OnReadyList(t)' <=> OnReadyList(t) /\ t # current'
      /\ \A t \in Threads : t = current' => OnReadyList(t)
      /\ current' = idle_thread => ready_list' = <<>>
  BY <1>2, SwitchAway
<1>6. \A t \in Threads :
        /\ status'[t] = IF t = current' THEN "running" ELSE status[t]
        /\ pc'[t] = pc[t]
        /\ t # current
  BY <1>1, <1>2, <1>4 DEF IInv, TypeOK, AllThreads
<1> HIDE DEF st
<1>7. pc'[idle_thread] = "hlt"
  BY <1>1, <1>2 DEF IInv, TypeOK
<1>8. \A c \in Threads : Creating(c)' <=> Creating(c)
  BY <1>2, <1>6 DEF Creating
<1>9. TypeOK'
  BY <1>2, <1>4, <1>5 DEF IInv, TypeOK, IdlePC
<1>10. PcConsistent'
  BY <1>2, <1>6, <1>7, <1>8 DEF IInv, PcConsistent, IdlePC
<1>11. OneCreator'
  BY <1>2, <1>8 DEF IInv, OneCreator
<1>12. ElemInOneList'
  <2>1. ASSUME NEW t \in Threads  PROVE ElemUse(t)'
    <3>1. ElemUse(t) /\ (Embryo(t)' <=> Embryo(t))
      BY <1>2, <1>8 DEF IInv, ElemInOneList, Embryo
    <3> QED
      BY <1>2, <1>5, <1>6, <3>1 DEF ElemUse, OnSleepList, OnWaiters
  <2> QED
    BY <1>2, <1>5, <2>1 DEF IInv, ElemInOneList
<1>13. ListsSorted'
  BY <1>2, <1>5 DEF IInv, ListsSorted
<1>14. IdleConsistent'
  BY <1>1, <1>2, <1>5 DEF IdleConsistent
<1> QED
  BY <1>9, <1>10, <1>11, <1>12, <1>13, <1>14 DEF IInv

\* Joining the waiters of a semaphore.
LEMMA JoinWaiters ==
  ASSUME IInv, NEW s \in Semas, NEW t \in Threads, ~OnWaiters(t, s),
         waiters' = [waiters EXCEPT ![s] = list_insert_ordered(@, t, priority)]
  PROVE  /\ waiters' \in [Semas -> Seq(Threads)]
         /\ \A r \in Semas : NoDuplicates(waiters'[r])
         /\ \A r \in Semas : PrioritySorted(waiters'[r], priority)
         /\ \A u \in Threads, r \in Semas :
              OnWaiters(u, r)' <=> OnWaiters(u, r) \/ (u = t /\ r = s)
<1>1. /\ waiters \in [Semas -> Seq(Threads)]
      /\ priority \in [AllThreads -> PRI_MIN..PRI_MAX]
      /\ \A r \in Semas : NoDuplicates(waiters[r]) /\ PrioritySorted(waiters[r], priority)
  BY DEF IInv, TypeOK, ElemInOneList, ListsSorted
<1>2. TypeOK /\ waiters[s] \in Seq(Threads) /\ t \notin Members(waiters[s])
  BY <1>1 DEF IInv, OnWaiters
<1> DEFINE W == list_insert_ordered(waiters[s], t, priority)
<1>3. /\ W \in Seq(Threads)
      /\ Members(W) = Members(waiters[s]) \cup {t}
      /\ NoDuplicates(W)
      /\ PrioritySorted(W, priority)
  BY <1>1, <1>2, MakeReady
<1>4. waiters' = [waiters EXCEPT ![s] = W]
  OBVIOUS
<1> HIDE DEF W
<1>5. \A r \in Semas : waiters'[r] = IF r = s THEN W ELSE waiters[r]
  BY <1>1, <1>4
<1>6. waiters' \in [Semas -> Seq(Threads)]
  BY <1>1, <1>3, <1>4
<1> QED
  BY <1>1, <1>3, <1>5, <1>6 DEF OnWaiters

\* The running thread starts or goes on to wait for s.
LEMMA BlockStep ==
  ASSUME IInv, NEW s \in Semas, DownBlocks(s, status),
         \/ Running("run") /\ s # tid_lock
         \/ Running("down") /\ s = want[current],
         UNCHANGED <<priority, sleep, args, context>>
  PROVE  IInv'
<1> DEFINE st == [status EXCEPT ![current] = "blocked"]
<1>1. /\ current \in Threads /\ current # idle_thread /\ current \in AllThreads
      /\ status[current] = "running" /\ ~Embryo(current) /\ ~OnReadyList(current)
      /\ ~OnSleepList(current) /\ \A r \in Semas : ~OnWaiters(current, r)
      /\ context = "thread"
  BY RunningThread DEF Running
<1>2. /\ schedule(ready_list, st)
      /\ waiters' = [waiters EXCEPT ![s] = list_insert_ordered(@, current, priority)]
      /\ pc' = [pc EXCEPT ![current] = "down"]
      /\ want' = [want EXCEPT ![current] = s]
      /\ UNCHANGED <<priority, sleep_list, left, value, args, context>>
  BY DEF DownBlocks, thread_block, sleep
<1>3. st \in [AllThreads -> {"free", "blocked", "ready", "running", "dying"}]
  BY <1>1 DEF IInv, TypeOK
<1>4. /\ current' \in AllThreads
      /\ status' \in [AllThreads -> {"free", "blocked", "ready", "running", "dying"}]
      /\ \A t \in AllThreads : status'[t] = IF t = current' THEN "running" ELSE st[t]
      /\ thread_ticks' \in 0..(TIME_SLICE - 1)
  BY <1>2, <1>3, ScheduleStatus DEF IInv, TypeOK
<1>5. /\ ready_list' \in Seq(Threads)
      /\ NoDuplicates(ready_list')
      /\ PrioritySorted(ready_list', priority)
      /\ \A t \in Threads : OnReadyList(t)' <=> OnReadyList(t) /\ t # current'
      /\ \A t \in Threads : t = current' => OnReadyList(t)
      /\ current' = idle_thread => ready_list' = <<>>
  BY <1>2, SwitchAway
<1>6. /\ waiters' \in [Semas -> Seq(Threads)]
      /\ \A r \in Semas : NoDuplicates(waiters'[r])
      /\ \A r \in Semas : PrioritySorted(waiters'[r], priority)
      /\ \A u \in Threads, r \in Semas :
           OnWaiters(u, r)' <=> OnWaiters(u, r) \/ (u = current /\ r = s)
  BY <1>1, <1>2, JoinWaiters
<1>7. \A t \in Threads : /\ t # current =>
                              /\ pc'[t] = pc[t] /\ want'[t] = want[t]
                              /\ t # current' => status'[t] = status[t]
                         /\ t = current' => status'[t] = "running"
  BY <1>1, <1>2, <1>4 DEF IInv, TypeOK, AllThreads
<1>8. /\ pc'[current] = "down" /\ want'[current] = s
      /\ pc'[idle_thread] = pc[idle_thread] /\ want'[idle_thread] = want[idle_thread]
      /\ current # current' /\ status'[current] = "blocked"
  BY <1>1, <1>2, <1>4, <1>5 DEF IInv, TypeOK, AllThreads
<1> HIDE DEF st
<1>9. \A c \in Threads : Creating(c)' <=> Creating(c)
  BY <1>1, <1>7, <1>8 DEF Creating, Running
<1>10. TypeOK'
  BY <1>1, <1>2, <1>4, <1>5, <1>6 DEF IInv, TypeOK, ThreadPC
<1>11. PcConsistent'
  BY <1>1, <1>2, <1>5, <1>7, <1>8, <1>9, ThreadsAssumption
     DEF IInv, PcConsistent, ThreadPC, ElemInOneList, ElemUse
<1>12. OneCreator'
  BY <1>2, <1>9 DEF IInv, OneCreator
<1>13. ElemInOneList'
  <2>1. ASSUME NEW t \in Threads  PROVE ElemUse(t)'
    <3>1. ElemUse(t) /\ (Embryo(t)' <=> Embryo(t))
      BY <1>2, <1>9 DEF IInv, ElemInOneList, Embryo
    <3>2. OnSleepList(t)' <=> OnSleepList(t)
      BY <1>2 DEF OnSleepList
    <3>3. CASE t = current
      BY <1>1, <1>5, <1>6, <1>8, <3>1, <3>2, <3>3 DEF ElemUse
    <3>4. CASE t # current
      BY <1>5, <1>6, <1>7, <3>1, <3>2, <3>4 DEF ElemUse
    <3> QED
      BY <3>3, <3>4
  <2> QED
    BY <1>2, <1>5, <1>6, <2>1 DEF IInv, ElemInOneList
<1>14. ListsSorted'
  BY <1>2, <1>5, <1>6 DEF IInv, ListsSorted
<1>15. IdleConsistent'
  BY <1>1, <1>2, <1>5 DEF IdleConsistent
<1> QED
  BY <1>10, <1>11, <1>12, <1>13, <1>14, <1>15 DEF IInv

\* The running thread takes a unit of s, with or without having waited.
LEMMA PassStep ==
  ASSUME IInv, NEW s \in Semas, DownPasses(s, status),
         \/ Running("run") /\ s # tid_lock
         \/ Running("down") /\ s = want[current],
         UNCHANGED <<priority, sleep, args, context>>
  PROVE  IInv'
<1>1. /\ current \in Threads /\ current # idle_thread /\ current \in AllThreads
      /\ status[current] = "running" /\ ~Embryo(current)
      /\ ~OnSleepList(current) /\ \A r \in Semas : ~OnWaiters(current, r)
  BY RunningThread DEF Running
<1>2. /\ value' = [value EXCEPT ![s] = @ - 1] /\ value[s] > 0
      /\ pc' = [pc EXCEPT ![current] = After(s)]
      /\ want' = [want EXCEPT ![current] = NoSema]
      /\ UNCHANGED <<current, status, ready_list, thread_ticks, waiters, priority,
                     sleep_list, left, args, context>>
  BY DEF DownPasses, sleep
<1>3. \A t \in Threads : t # current => pc'[t] = pc[t] /\ want'[t] = want[t]
  BY <1>1, <1>2 DEF IInv, TypeOK, AllThreads
<1>4. /\ pc'[current] = After(s) /\ want'[current] = NoSema
      /\ pc'[idle_thread] = pc[idle_thread] /\ want'[idle_thread] = want[idle_thread]
  BY <1>1, <1>2 DEF IInv, TypeOK, AllThreads
<1>5. \A c \in Threads : Creating(c)' <=> Creating(c)
  BY <1>1, <1>3, <1>4 DEF Creating, Running, After
<1>6. TypeOK'
  <2>1. value[s] - 1 \in Nat
    BY <1>2 DEF IInv, TypeOK
  <2> QED
    BY <1>1, <1>2, <2>1 DEF IInv, TypeOK, ThreadPC, After
<1>7. PcConsistent'
  BY <1>1, <1>2, <1>3, <1>4, <1>5
     DEF IInv, PcConsistent, ThreadPC, After
<1>8. OneCreator'
  BY <1>2, <1>5 DEF IInv, OneCreator
<1>9. ElemInOneList'
  <2>1. ASSUME NEW t \in Threads  PROVE ElemUse(t)'
    <3>1. ElemUse(t) /\ (Embryo(t)' <=> Embryo(t))
      BY <1>2, <1>5 DEF IInv, ElemInOneList, Embryo
    <3> QED
      BY <1>1, <1>2, <1>3, <3>1 DEF ElemUse, OnReadyList, OnSleepList, OnWaiters
  <2> QED
    BY <1>2, <2>1 DEF IInv, ElemInOneList
<1>10. ListsSorted' /\ IdleConsistent'
  BY <1>1, <1>2 DEF IInv, ListsSorted, IdleConsistent
<1> QED
  BY <1>6, <1>7, <1>8, <1>9, <1>10 DEF IInv

\* sema_down(), called from a thread's own code.
LEMMA DownStep ==
  ASSUME IInv, NEW s \in Semas, s # tid_lock, SemaDown(s)
  PROVE  IInv'
<1>1. Running("run") /\ UNCHANGED <<priority, sleep, args, context>>
  BY DEF SemaDown
<1>2. CASE DownPasses(s, status)
  BY <1>1, <1>2, PassStep
<1>3. CASE DownBlocks(s, status)
  BY <1>1, <1>3, BlockStep
<1> QED
  BY <1>2, <1>3 DEF SemaDown

\* sema_down(), once its caller is scheduled again.
LEMMA ResumeStep ==
  ASSUME IInv, SemaDownResume
  PROVE  IInv'
<1>1. Running("down") /\ UNCHANGED <<priority, sleep, args, context>>
  BY DEF SemaDownResume
<1>2. want[current] \in Semas
  BY <1>1, RunningThread DEF IInv, TypeOK, PcConsistent, Running
<1>3. CASE DownPasses(want[current], status)
  BY <1>1, <1>2, <1>3, PassStep
<1>4. CASE DownBlocks(want[current], status)
  BY <1>1, <1>2, <1>4, BlockStep
<1> QED
  BY <1>3, <1>4 DEF SemaDownResume

\* sema_try_down().
LEMMA TryDownStep ==
  ASSUME IInv, NEW s \in Semas, SemaTryDown(s)
  PROVE  IInv'
<1>1. /\ value' = [value EXCEPT ![s] = @ - 1] /\ value[s] > 0
      /\ UNCHANGED <<current, status, ready_list, thread_ticks, waiters, priority,
                     sleep_list, left, pc, want, args, context>>
  BY DEF SemaTryDown, sched, sleep
<1>2. value[s] - 1 \in Nat
  BY <1>1 DEF IInv, TypeOK
<1>3. TypeOK'
  BY <1>1, <1>2 DEF IInv, TypeOK
<1>4. \A c \in Threads : (Creating(c)' <=> Creating(c)) /\ (Embryo(c)' <=> Embryo(c))
  BY <1>1 DEF Creating, Embryo
<1> QED
  BY <1>1, <1>3, <1>4
     DEF IInv, PcConsistent, OneCreator, ElemInOneList, ElemUse, OnReadyList,
         OnSleepList, OnWaiters, ListsSorted, IdleConsistent

\* sema_up(s) moves at most one thread, a waiter of s, to the run queue.
LEMMA UpMoves ==
  ASSUME IInv, NEW s \in Semas, sema_up(s)
  PROVE  /\ value' = [value EXCEPT ![s] = @ + 1]
         /\ UNCHANGED <<current, thread_ticks>>
         /\ \/ waiters[s] = <<>> /\ UNCHANGED <<waiters, ready_list, status>>
            \/ \E w \in Threads :
                 /\ OnWaiters(w, s)
                 /\ status' = [status EXCEPT ![w] = "ready"]
                 /\ waiters' \in [Semas -> Seq(Threads)]
                 /\ \A r \in Semas : NoDuplicates(waiters'[r])
                 /\ \A r \in Semas : PrioritySorted(waiters'[r], priority)
                 /\ \A u \in Threads, r \in Semas :
                      OnWaiters(u, r)' <=> OnWaiters(u, r) /\ ~(u = w /\ r = s)
                 /\ ready_list' \in Seq(Threads)
                 /\ NoDuplicates(ready_list')
                 /\ PrioritySorted(ready_list', priority)
                 /\ \A u \in Threads : OnReadyList(u)' <=> OnReadyList(u) \/ u = w
<1>1. CASE waiters[s] = <<>>
  BY <1>1 DEF sema_up
<1>2. CASE waiters[s] # <<>>
  <2> DEFINE i == highest_elem(waiters[s], priority)
             w == waiters[s][i]
             W == RemoveAt(waiters[s], i)
  <2>1. /\ waiters \in [Semas -> Seq(Threads)] /\ waiters[s] \in Seq(Threads)
        /\ ready_list \in Seq(Threads) /\ NoDuplicates(ready_list)
        /\ PrioritySorted(ready_list, priority)
        /\ priority \in [AllThreads -> PRI_MIN..PRI_MAX]
        /\ \A r \in Semas : NoDuplicates(waiters[r]) /\ PrioritySorted(waiters[r], priority)
    BY DEF IInv, TypeOK, ElemInOneList, ListsSorted
  <2>2. i = 1
    <3>1. priority \in [AllThreads -> Int] /\ waiters[s] \in Seq(AllThreads)
      BY <2>1, ThreadsAssumption DEF AllThreads
    <3> QED
      BY <1>2, <2>1, <3>1, HighestIsFirst
  <2>3. i \in 1..Len(waiters[s])
    BY <1>2, <2>1, <2>2
  <2> HIDE DEF i
  <2>4. w \in Threads /\ w \in Members(waiters[s])
    BY <2>1, <2>3 DEF Members
  <2>5. /\ W \in Seq(Threads) /\ NoDuplicates(W) /\ PrioritySorted(W, priority)
        /\ Members(W) = Members(waiters[s]) \ {w}
    BY <2>1, <2>3, RemoveMembers, RemoveSorted
  <2>6. w \notin Members(ready_list)
    BY <2>4 DEF IInv, ElemInOneList, ElemUse, OnWaiters, OnReadyList
  <2>7. /\ waiters' = [waiters EXCEPT ![s] = W]
        /\ ready_list' = list_insert_ordered(ready_list, w, priority)
        /\ status' = [status EXCEPT ![w] = "ready"]
    BY <1>2 DEF sema_up, thread_unblock, i
  <2> HIDE DEF w, W
  <2>8. /\ ready_list' \in Seq(Threads)
        /\ NoDuplicates(ready_list')
        /\ PrioritySorted(ready_list', priority)
        /\ Members(ready_list') = Members(ready_list) \cup {w}
    BY <2>1, <2>4, <2>6, <2>7, MakeReady DEF IInv
  <2>9. \A r \in Semas : waiters'[r] = IF r = s THEN W ELSE waiters[r]
    BY <2>1, <2>7
  <2>10. waiters' \in [Semas -> Seq(Threads)]
    BY <2>1, <2>5, <2>7
  <2>11. /\ OnWaiters(w, s)
         /\ \A u \in Threads, r \in Semas :
              OnWaiters(u, r)' <=> OnWaiters(u, r) /\ ~(u = w /\ r = s)
         /\ \A u \in Threads : OnReadyList(u)' <=> OnReadyList(u) \/ u = w
    BY <2>4, <2>5, <2>8, <2>9 DEF OnWaiters, OnReadyList
  <2>12. /\ \A r \in Semas : NoDuplicates(waiters'[r])
         /\ \A r \in Semas : PrioritySorted(waiters'[r], priority)
    BY <2>1, <2>5, <2>9
  <2>13. value' = [value EXCEPT ![s] = @ + 1] /\ UNCHANGED <<current, thread_ticks>>
    BY DEF sema_up
  <2> QED
    BY <2>4, <2>7, <2>8, <2>10, <2>11, <2>12, <2>13
<1> QED
  BY <1>1, <1>2

\* Every caller of sema_up(), whatever it does to the program counters.
LEMMA UpStep ==
  ASSUME IInv, NEW s \in Semas, sema_up(s),
         UNCHANGED <<priority, sleep, want, args, context>>,
         pc' \in [AllThreads -> ThreadPC \cup IdlePC],
         pc'[idle_thread] \in IdlePC,
         current = idle_thread => pc'[idle_thread] = "loop",
         \A t \in Threads : pc'[t] = pc[t] \/ (pc[t] = "tid" /\ pc'[t] = "unblock")
  PROVE  IInv'
<1>1. /\ value' = [value EXCEPT ![s] = @ + 1]
      /\ UNCHANGED <<current, thread_ticks, priority, sleep_list, left, want, args,
                     context>>
  BY UpMoves DEF sleep
<1>2. \A c \in Threads : (Creating(c)' <=> Creating(c)) /\ (Embryo(c)' <=> Embryo(c))
  BY <1>1 DEF Creating, Embryo
<1>3. value' \in [Semas -> Nat]
  <2>1. value[s] + 1 \in Nat
    BY DEF IInv, TypeOK
  <2> QED
    BY <1>1, <2>1 DEF IInv, TypeOK
<1>4. OneCreator'
  BY <1>1, <1>2 DEF IInv, OneCreator
<1>5. IdleConsistent'
  BY <1>1 DEF IdleConsistent
<1>6. CASE waiters[s] = <<>> /\ UNCHANGED <<waiters, ready_list, status>>
  <2>1. TypeOK'
    BY <1>1, <1>3, <1>6 DEF IInv, TypeOK
  <2>2. PcConsistent'
    BY <1>1, <1>2, <1>6 DEF IInv, PcConsistent, ThreadPC
  <2>3. ElemInOneList'
    BY <1>1, <1>2, <1>6
       DEF IInv, ElemInOneList, ElemUse, OnReadyList, OnSleepList, OnWaiters
  <2>4. ListsSorted'
    BY <1>1, <1>6 DEF IInv, ListsSorted
  <2> QED
    BY <1>4, <1>5, <2>1, <2>2, <2>3, <2>4 DEF IInv
<1>7. ASSUME NEW w \in Threads,
             OnWaiters(w, s),
             status' = [status EXCEPT ![w] = "ready"],
             waiters' \in [Semas -> Seq(Threads)],
             \A r \in Semas : NoDuplicates(waiters'[r]),
             \A r \in Semas : PrioritySorted(waiters'[r], priority),
             \A u \in Threads, r \in Semas :
               OnWaiters(u, r)' <=> OnWaiters(u, r) /\ ~(u = w /\ r = s),
             ready_list' \in Seq(Threads),
             NoDuplicates(ready_list'),
             PrioritySorted(ready_list', priority),
             \A u \in Threads : OnReadyList(u)' <=> OnReadyList(u) \/ u = w
      PROVE  IInv'
  <2>1. TypeOK'
    BY <1>1, <1>3, <1>7 DEF IInv, TypeOK, AllThreads
  <2>2. \A t \in Threads : status'[t] = IF t = w THEN "ready" ELSE status[t]
    BY <1>7 DEF IInv, TypeOK, AllThreads
  <2>3. PcConsistent'
    BY <1>1, <1>2, <2>2 DEF IInv, PcConsistent, ThreadPC
  <2>4. ASSUME NEW t \in Threads  PROVE ElemUse(t)'
    <3>1. ElemUse(t)
      BY DEF IInv, ElemInOneList
    <3>2. OnSleepList(t)' <=> OnSleepList(t)
      BY <1>1 DEF OnSleepList
    <3>3. t = w => status[t] = "blocked" /\ pc[t] = "down" /\ want[t] = s
      BY <1>7, <3>1 DEF ElemUse
    <3>4. CASE t = w
      <4>1. /\ ~OnSleepList(t) /\ ~Embryo(t) /\ t # current
            /\ status'[t] = "ready" /\ OnReadyList(t)'
            /\ \A r \in Semas : ~OnWaiters(t, r)'
        BY <1>7, <2>2, <3>1, <3>3, <3>4 DEF ElemUse
      <4> QED
        BY <1>1, <1>2, <3>2, <4>1 DEF ElemUse
    <3>5. CASE t # w
      <4>1. status[t] \in {"running", "blocked"} => (pc'[t] = pc[t] \/ pc[t] = "tid")
        OBVIOUS
      <4> QED
        BY <1>1, <1>2, <1>7, <2>2, <3>1, <3>2, <3>5 DEF ElemUse
    <3> QED
      BY <3>4, <3>5
  <2>5. ElemInOneList'
    BY <1>1, <1>7, <2>4 DEF IInv, ElemInOneList
  <2>6. ListsSorted'
    BY <1>1, <1>7 DEF ListsSorted
  <2> QED
    BY <1>4, <1>5, <2>1, <2>3, <2>5, <2>6 DEF IInv
<1> QED
  BY <1>6, <1>7, UpMoves

\* sema_up(), called from a thread's own code.
LEMMA SemaUpStep ==
  ASSUME IInv, NEW s \in Semas, SemaUp(s)
  PROVE  IInv'
<1>1. /\ sema_up(s) /\ UNCHANGED <<priority, sleep, want, args, context>>
      /\ current # idle_thread /\ pc' = pc
  BY DEF SemaUp, Running
<1>2. /\ pc' \in [AllThreads -> ThreadPC \cup IdlePC]
      /\ pc'[idle_thread] \in IdlePC
      /\ current = idle_thread => pc'[idle_thread] = "loop"
      /\ \A t \in Threads : pc'[t] = pc[t] \/ (pc[t] = "tid" /\ pc'[t] = "unblock")
  BY <1>1 DEF IInv, TypeOK, PcConsistent
<1> QED
  BY <1>1, <1>2, UpStep

\* The lock_release() of allocate_tid().
LEMMA AllocateTidStep ==
  ASSUME IInv, AllocateTid
  PROVE  IInv'
<1>1. /\ current \in Threads /\ current # idle_thread /\ pc[current] = "tid"
      /\ sema_up(tid_lock) /\ pc' = [pc EXCEPT ![current] = "unblock"]
      /\ UNCHANGED <<priority, sleep, want, args, context>>
  BY RunningThread DEF AllocateTid
<1>2. pc \in [AllThreads -> ThreadPC \cup IdlePC] /\ pc[idle_thread] \in IdlePC
  BY DEF IInv, TypeOK, PcConsistent
<1>3. /\ pc' \in [AllThreads -> ThreadPC \cup IdlePC]
      /\ pc'[idle_thread] \in IdlePC
      /\ current = idle_thread => pc'[idle_thread] = "loop"
      /\ \A t \in Threads : pc'[t] = pc[t] \/ (pc[t] = "tid" /\ pc'[t] = "unblock")
  BY <1>1, <1>2 DEF AllThreads, ThreadPC
<1>4. tid_lock \in Semas
  BY ThreadsAssumption
<1> QED
  BY <1>1, <1>3, <1>4, UpStep

\* A device interrupt.
LEMMA DeviceStep ==
  ASSUME IInv, NEW s \in Semas, DeviceInterrupt(s)
  PROVE  IInv'
<1>1. /\ sema_up(s) /\ UNCHANGED <<priority, sleep, want, args, context>>
      /\ pc' = IF current = idle_thread THEN [pc EXCEPT ![idle_thread] = "loop"] ELSE pc
  BY DEF DeviceInterrupt, EndHlt
<1>2. /\ pc' \in [AllThreads -> ThreadPC \cup IdlePC]
      /\ pc'[idle_thread] \in IdlePC
      /\ current = idle_thread => pc'[idle_thread] = "loop"
      /\ \A t \in Threads : pc'[t] = pc[t] \/ (pc[t] = "tid" /\ pc'[t] = "unblock")
  BY <1>1, ThreadsAssumption DEF IInv, TypeOK, PcConsistent, AllThreads, IdlePC
<1> QED
  BY <1>1, <1>2, UpStep

\* The thread_unblock() at the end of thread_create().
LEMMA UnblockChildStep ==
  ASSUME IInv, UnblockChild
  PROVE  IInv'
<1> DEFINE t == args[current].thread
<1>1. /\ current \in Threads /\ current # idle_thread /\ current \in AllThreads
      /\ pc[current] = "unblock" /\ status[current] = "running"
  BY RunningThread DEF UnblockChild
<1>2. Creating(current)
  BY <1>1 DEF Creating
<1>3. t \in Threads /\ Embryo(t)
  BY <1>1, <1>2 DEF IInv, PcConsistent, Embryo
<1>4. /\ status[t] = "blocked" /\ pc[t] = "run" /\ ~OnReadyList(t) /\ ~OnSleepList(t)
      /\ \A s \in Semas : ~OnWaiters(t, s)
  BY <1>3 DEF IInv, ElemInOneList, ElemUse
<1>5. /\ ready_list' = list_insert_ordered(ready_list, t, priority)
      /\ status' = [status EXCEPT ![t] = "ready"]
      /\ pc' = [pc EXCEPT ![current] = "preempt"]
      /\ UNCHANGED <<current, thread_ticks, priority, sleep_list, left, waiters,
                     value, want, args, context>>
  BY DEF UnblockChild, thread_unblock, sleep
<1> HIDE DEF t
<1>6. /\ ready_list' \in Seq(Threads)
      /\ Members(ready_list') = Members(ready_list) \cup {t}
      /\ NoDuplicates(ready_list')
      /\ PrioritySorted(ready_list', priority)
  BY <1>3, <1>4, <1>5, MakeReady
     DEF IInv, TypeOK, ElemInOneList, ListsSorted, OnReadyList
<1>7. /\ \A u \in Threads : u # t => status'[u] = status[u]
      /\ status'[t] = "ready"
  BY <1>3, <1>5 DEF IInv, TypeOK, AllThreads
<1>8. /\ \A u \in Threads : u # current => pc'[u] = pc[u]
      /\ pc'[current] = "preempt" /\ pc'[idle_thread] = pc[idle_thread]
  BY <1>1, <1>5 DEF IInv, TypeOK, AllThreads
<1>9. \A c \in Threads : Creating(c)' <=> Creating(c) /\ c # current
  BY <1>1, <1>5, <1>8 DEF Creating
<1>10. \A u \in Threads : Embryo(u)' <=> Embryo(u) /\ u # t
  BY <1>1, <1>2, <1>3, <1>5, <1>9 DEF IInv, OneCreator, Embryo, t
<1>11. TypeOK'
  BY <1>1, <1>3, <1>5, <1>6 DEF IInv, TypeOK, ThreadPC, AllThreads
<1>12. PcConsistent'
  BY <1>1, <1>5, <1>7, <1>8, <1>9 DEF IInv, PcConsistent, ThreadPC
<1>13. OneCreator'
  BY <1>5, <1>9 DEF IInv, OneCreator
<1>14. ElemInOneList'
  <2>1. ASSUME NEW u \in Threads  PROVE ElemUse(u)'
    <3>1. ElemUse(u) /\ (OnReadyList(u)' <=> OnReadyList(u) \/ u = t)
      BY <1>6 DEF IInv, ElemInOneList, OnReadyList
    <3>2. /\ OnSleepList(u)' <=> OnSleepList(u)
          /\ \A s \in Semas : OnWaiters(u, s)' <=> OnWaiters(u, s)
      BY <1>5 DEF OnSleepList, OnWaiters
    <3>3. CASE u = t
      BY <1>1, <1>4, <1>5, <1>7, <1>10, <3>1, <3>2, <3>3 DEF ElemUse
    <3>4. CASE u # t
      BY <1>1, <1>5, <1>7, <1>8, <1>10, <3>1, <3>2, <3>4 DEF ElemUse
    <3> QED
      BY <3>3, <3>4
  <2> QED
    BY <1>5, <1>6, <2>1 DEF IInv, ElemInOneList
<1>15. ListsSorted' /\ IdleConsistent'
  BY <1>1, <1>5, <1>6 DEF IInv, ListsSorted, IdleConsistent
<1> QED
  BY <1>11, <1>12, <1>13, <1>14, <1>15 DEF IInv

\* The parent's decision to yield to its child.
LEMMA PreemptCheckStep ==
  ASSUME IInv, PreemptCheck
  PROVE  IInv'
<1>1. /\ current \in Threads /\ current # idle_thread /\ current \in AllThreads
      /\ pc[current] = "preempt" /\ status[current] = "running"
  BY RunningThread DEF PreemptCheck
<1>2. /\ pc' = [pc EXCEPT ![current] =
                  IF args[current].priority > priority[current] THEN "yield" ELSE "run"]
      /\ args' = [args EXCEPT ![current] = NoArgs]
      /\ UNCHANGED <<current, status, ready_list, thread_ticks, priority, sleep_list,
                     left, waiters, value, want, context>>
  BY DEF PreemptCheck, sched, sleep
<1>3. \A t \in Threads : t # current => pc'[t] = pc[t] /\ args'[t] = args[t]
  BY <1>1, <1>2 DEF IInv, TypeOK, AllThreads
<1>4. pc'[current] \in {"yield", "run"} /\ pc'[idle_thread] = pc[idle_thread]
  BY <1>1, <1>2 DEF IInv, TypeOK, AllThreads
<1>5. \A c \in Threads : /\ Creating(c)' <=> Creating(c)
                         /\ Creating(c) => args'[c].thread = args[c].thread
  BY <1>1, <1>2, <1>3, <1>4 DEF Creating
<1>6. TypeOK'
  <2>1. NoArgs \in [thread : Threads \cup {NoThread}, priority : PRI_MIN..PRI_MAX]
    BY ThreadsAssumption DEF NoArgs
  <2> QED
    BY <1>1, <1>2, <2>1 DEF IInv, TypeOK, ThreadPC
<1>7. PcConsistent'
  BY <1>1, <1>2, <1>3, <1>4, <1>5 DEF IInv, PcConsistent, ThreadPC, ElemInOneList, ElemUse
<1>8. OneCreator'
  BY <1>5 DEF IInv, OneCreator
<1>9. ElemInOneList'
  <2>1. ASSUME NEW t \in Threads  PROVE ElemUse(t)'
    <3>1. ElemUse(t) /\ (Embryo(t)' <=> Embryo(t))
      BY <1>5 DEF IInv, ElemInOneList, Embryo
    <3> QED
      BY <1>1, <1>2, <1>3, <3>1 DEF ElemUse, OnReadyList, OnSleepList, OnWaiters
  <2> QED
    BY <1>2, <2>1 DEF IInv, ElemInOneList
<1>10. ListsSorted' /\ IdleConsistent'
  BY <1>1, <1>2 DEF IInv, ListsSorted, IdleConsistent
<1> QED
  BY <1>6, <1>7, <1>8, <1>9, <1>10 DEF IInv

\* timer_sleep() reads the clock.
LEMMA SleepStartStep ==
  ASSUME IInv, NEW n \in SleepTicks, TimerSleepStart(n)
  PROVE  IInv'
<1>1. /\ current \in Threads /\ current # idle_thread /\ current \in AllThreads
      /\ pc[current] = "run" /\ status[current] = "running"
      /\ ~Embryo(current) /\ ~OnSleepList(current)
      /\ \A s \in Semas : ~OnWaiters(current, s)
  BY RunningThread DEF TimerSleepStart
<1>2. /\ left' = [left EXCEPT ![current] = IF n > 0 THEN n ELSE 0]
      /\ pc' = [pc EXCEPT ![current] = "sleep"]
      /\ UNCHANGED <<current, status, ready_list, thread_ticks, priority, sleep_list,
                     waiters, value, want, args, context>>
  BY DEF TimerSleepStart, sched
<1>3. /\ \A t \in Threads : t # current => pc'[t] = pc[t]
      /\ pc'[current] = "sleep" /\ pc'[idle_thread] = pc[idle_thread]
  BY <1>1, <1>2 DEF IInv, TypeOK, AllThreads
<1>4. \A c \in Threads : Creating(c)' <=> Creating(c)
  BY <1>1, <1>2, <1>3 DEF Creating
<1>5. TypeOK'
  <2>1. (IF n > 0 THEN n ELSE 0) \in Nat
    BY ThreadsAssumption
  <2> QED
    BY <1>1, <1>2, <2>1 DEF IInv, TypeOK, ThreadPC
<1>6. PcConsistent'
  BY <1>1, <1>2, <1>3, <1>4 DEF IInv, PcConsistent, ThreadPC
<1>7. OneCreator'
  BY <1>2, <1>4 DEF IInv, OneCreator
<1>8. ElemInOneList'
  <2>1. ASSUME NEW t \in Threads  PROVE ElemUse(t)'
    <3>1. ElemUse(t) /\ (Embryo(t)' <=> Embryo(t))
      BY <1>2, <1>4 DEF IInv, ElemInOneList, Embryo
    <3> QED
      BY <1>1, <1>2, <1>3, <3>1 DEF ElemUse, OnReadyList, OnSleepList, OnWaiters
  <2> QED
    BY <1>2, <2>1 DEF IInv, ElemInOneList
<1>9. ListsSorted' /\ IdleConsistent'
  BY <1>1, <1>2 DEF IInv, ListsSorted, IdleConsistent
<1> QED
  BY <1>5, <1>6, <1>7, <1>8, <1>9 DEF IInv

\* timer_sleep() puts its caller, which is on no list, on the sleep list.
LEMMA SleepBlockStep ==
  ASSUME IInv, TimerSleepBlock
  PROVE  IInv'
<1> DEFINE st == [status EXCEPT ![current] = "blocked"]
<1>1. /\ current \in Threads /\ current # idle_thread /\ current \in AllThreads
      /\ pc[current] = "sleep" /\ status[current] = "running" /\ ~Embryo(current)
      /\ ~OnReadyList(current) /\ ~OnSleepList(current)
      /\ \A r \in Semas : ~OnWaiters(current, r)
      /\ context = "thread"
  BY RunningThread DEF TimerSleepBlock, Running
<1>2. /\ schedule(ready_list, st)
      /\ sleep_list' = Append(sleep_list, current)
      /\ pc' = [pc EXCEPT ![current] = "run"]
      /\ UNCHANGED <<priority, left, waiters, value, want, args, context>>
  BY DEF TimerSleepBlock, thread_block
<1>3. st \in [AllThreads -> {"free", "blocked", "ready", "running", "dying"}]
  BY <1>1 DEF IInv, TypeOK
<1>4. /\ current' \in AllThreads
      /\ status' \in [AllThreads -> {"free", "blocked", "ready", "running", "dying"}]
      /\ \A t \in AllThreads : status'[t] = IF t = current' THEN "running" ELSE st[t]
      /\ thread_ticks' \in 0..(TIME_SLICE - 1)
  BY <1>2, <1>3, ScheduleStatus DEF IInv, TypeOK
<1>5. /\ ready_list' \in Seq(Threads)
      /\ NoDuplicates(ready_list')
      /\ PrioritySorted(ready_list', priority)
      /\ \A t \in Threads : OnReadyList(t)' <=> OnReadyList(t) /\ t # current'
      /\ \A t \in Threads : t = current' => OnReadyList(t)
      /\ current' = idle_thread => ready_list' = <<>>
  BY <1>2, SwitchAway
<1>6. /\ sleep_list' \in Seq(Threads)
      /\ NoDuplicates(sleep_list')
      /\ \A t \in Threads : OnSleepList(t)' <=> OnSleepList(t) \/ t = current
  <2>1. sleep_list \in Seq(Threads) /\ NoDuplicates(sleep_list)
    BY DEF IInv, TypeOK, ElemInOneList
  <2> QED
    BY <1>1, <1>2, <2>1, AppendMembers DEF OnSleepList
<1>7. \A t \in Threads : /\ t # current => pc'[t] = pc[t]
                         /\ t # current /\ t # current' => status'[t] = status[t]
                         /\ t = current' => status'[t] = "running"
  BY <1>1, <1>2, <1>4 DEF IInv, TypeOK, AllThreads
<1>8. /\ pc'[current] = "run" /\ pc'[idle_thread] = pc[idle_thread]
      /\ current # current' /\ status'[current] = "blocked"
  BY <1>1, <1>2, <1>4, <1>5 DEF IInv, TypeOK, AllThreads
<1> HIDE DEF st
<1>9. \A c \in Threads : Creating(c)' <=> Creating(c)
  BY <1>1, <1>2, <1>7, <1>8 DEF Creating
<1>10. TypeOK'
  BY <1>1, <1>2, <1>4, <1>5, <1>6 DEF IInv, TypeOK, ThreadPC
<1>11. PcConsistent'
  BY <1>1, <1>2, <1>5, <1>7, <1>8, <1>9
     DEF IInv, PcConsistent, ThreadPC, ElemInOneList, ElemUse
<1>12. OneCreator'
  BY <1>2, <1>9 DEF IInv, OneCreator
<1>13. ElemInOneList'
  <2>1. ASSUME NEW t \in Threads  PROVE ElemUse(t)'
    <3>1. ElemUse(t) /\ (Embryo(t)' <=> Embryo(t))
      BY <1>2, <1>9 DEF IInv, ElemInOneList, Embryo
    <3>2. \A r \in Semas : OnWaiters(t, r)' <=> OnWaiters(t, r)
      BY <1>2 DEF OnWaiters
    <3>3. CASE t = current
      BY <1>1, <1>5, <1>6, <1>8, <3>1, <3>2, <3>3 DEF ElemUse
    <3>4. CASE t # current
      BY <1>2, <1>5, <1>6, <1>7, <3>1, <3>2, <3>4 DEF ElemUse
    <3> QED
      BY <3>3, <3>4
  <2> QED
    BY <1>2, <1>5, <1>6, <2>1 DEF IInv, ElemInOneList
<1>14. ListsSorted'
  BY <1>2, <1>5 DEF IInv, ListsSorted
<1>15. IdleConsistent'
  BY <1>1, <1>2, <1>5 DEF IdleConsistent
<1> QED
  BY <1>10, <1>11, <1>12, <1>13, <1>14, <1>15 DEF IInv

\* timer_interrupt(), up to its loop.
LEMMA TimerInterruptStep ==
  ASSUME IInv, TimerInterrupt
  PROVE  IInv'
<1>1. /\ left' = [t \in AllThreads |-> IF left[t] > 0 THEN left[t] - 1 ELSE 0]
      /\ context' = "timer"
      /\ pc' = IF current = idle_thread THEN [pc EXCEPT ![idle_thread] = "loop"] ELSE pc
      /\ UNCHANGED <<current, status, ready_list, thread_ticks, priority, sleep_list,
                     waiters, value, want, args>>
  BY DEF TimerInterrupt, EndHlt, sched
<1>2. /\ pc' \in [AllThreads -> ThreadPC \cup IdlePC]
      /\ pc'[idle_thread] \in IdlePC
      /\ current = idle_thread => pc'[idle_thread] = "loop"
      /\ \A t \in Threads : pc'[t] = pc[t]
  BY <1>1, ThreadsAssumption DEF IInv, TypeOK, PcConsistent, AllThreads, IdlePC
<1>3. \A c \in Threads : (Creating(c)' <=> Creating(c)) /\ (Embryo(c)' <=> Embryo(c))
  BY <1>1, <1>2 DEF Creating, Embryo
<1>4. left' \in [AllThreads -> Nat]
  BY <1>1 DEF IInv, TypeOK
<1>5. TypeOK'
  BY <1>1, <1>2, <1>4 DEF IInv, TypeOK
<1>6. PcConsistent' /\ OneCreator'
  BY <1>1, <1>2, <1>3 DEF IInv, PcConsistent, OneCreator
<1>7. ElemInOneList'
  BY <1>1, <1>2, <1>3
     DEF IInv, ElemInOneList, ElemUse, OnReadyList, OnSleepList, OnWaiters
<1>8. ListsSorted' /\ IdleConsistent'
  BY <1>1, <1>2 DEF IInv, ListsSorted, IdleConsistent
<1> QED
  BY <1>5, <1>6, <1>7, <1>8 DEF IInv

\* timer_interrupt() moves one sleeper to the run queue.
LEMMA WakeStep ==
  ASSUME IInv, WakeSleeper
  PROVE  IInv'
<1> DEFINE i == Min(Expired)
           t == sleep_list[i]
<1>1. /\ sleep_list \in Seq(Threads) /\ NoDuplicates(sleep_list)
      /\ ready_list \in Seq(Threads) /\ NoDuplicates(ready_list)
      /\ PrioritySorted(ready_list, priority)
      /\ priority \in [AllThreads -> PRI_MIN..PRI_MAX]
  BY DEF IInv, TypeOK, ElemInOneList, ListsSorted
<1>2. i \in 1..Len(sleep_list)
  <2>1. Expired \subseteq 1..Len(sleep_list) /\ Expired # {}
    BY DEF WakeSleeper, Expired
  <2>2. Expired \in SUBSET Nat
    BY <2>1
  <2> QED
    BY <2>1, <2>2, NatMin
<1>3. t \in Threads /\ OnSleepList(t)
  BY <1>1, <1>2 DEF OnSleepList, Members
<1>4. /\ sleep_list' = RemoveAt(sleep_list, i)
      /\ ready_list' = list_insert_ordered(ready_list, t, priority)
      /\ status' = [status EXCEPT ![t] = "ready"]
      /\ context = "timer"
      /\ UNCHANGED <<current, thread_ticks, priority, left, waiters, value, pc, want,
                     args, context>>
  BY DEF WakeSleeper, thread_unblock
<1>5. /\ status[t] = "blocked" /\ pc[t] = "run" /\ ~Embryo(t) /\ ~OnReadyList(t)
      /\ \A s \in Semas : ~OnWaiters(t, s)
      /\ t # current
  BY <1>3 DEF IInv, ElemInOneList, ElemUse
<1> HIDE DEF i
<1>6. /\ sleep_list' \in Seq(Threads) /\ NoDuplicates(sleep_list')
      /\ Members(sleep_list') = Members(sleep_list) \ {t}
  BY <1>1, <1>2, <1>4, RemoveMembers
<1> HIDE DEF t
<1>7. /\ ready_list' \in Seq(Threads)
      /\ Members(ready_list') = Members(ready_list) \cup {t}
      /\ NoDuplicates(ready_list')
      /\ PrioritySorted(ready_list', priority)
  BY <1>1, <1>3, <1>4, <1>5, MakeReady DEF IInv, OnReadyList
<1>8. \A u \in Threads : status'[u] = IF u = t THEN "ready" ELSE status[u]
  BY <1>3, <1>4 DEF IInv, TypeOK, AllThreads
<1>9. \A c \in Threads : (Creating(c)' <=> Creating(c)) /\ (Embryo(c)' <=> Embryo(c))
  BY <1>4 DEF Creating, Embryo
<1>10. TypeOK'
  BY <1>3, <1>4, <1>6, <1>7 DEF IInv, TypeOK, AllThreads
<1>11. PcConsistent' /\ OneCreator'
  BY <1>4, <1>8, <1>9 DEF IInv, PcConsistent, OneCreator
<1>12. ElemInOneList'
  <2>1. ASSUME NEW u \in Threads  PROVE ElemUse(u)'
    <3>1. /\ ElemUse(u)
          /\ OnReadyList(u)' <=> OnReadyList(u) \/ u = t
          /\ OnSleepList(u)' <=> OnSleepList(u) /\ u # t
          /\ \A s \in Semas : OnWaiters(u, s)' <=> OnWaiters(u, s)
      BY <1>4, <1>6, <1>7
         DEF IInv, ElemInOneList, OnReadyList, OnSleepList, OnWaiters
    <3>2. CASE u = t
      BY <1>4, <1>5, <1>8, <1>9, <3>1, <3>2 DEF ElemUse
    <3>3. CASE u # t
      BY <1>4, <1>8, <1>9, <3>1, <3>3 DEF ElemUse
    <3> QED
      BY <3>2, <3>3
  <2> QED
    BY <1>4, <1>6, <1>7, <2>1 DEF IInv, ElemInOneList
<1>13. ListsSorted' /\ IdleConsistent'
  BY <1>4, <1>7 DEF IInv, ListsSorted, IdleConsistent
<1> QED
  BY <1>10, <1>11, <1>12, <1>13 DEF IInv

\* The waiters are not on the run queue, so aging leaves their lists alone.
LEMMA AgingSparesWaiters ==
  ASSUME IInv
  PROVE  \A s \in Semas : PrioritySorted(waiters[s], update_aging)
<1> SUFFICES ASSUME NEW s \in Semas
             PROVE  PrioritySorted(waiters[s], update_aging)
  OBVIOUS
<1>1. \A t \in Members(waiters[s]) : t \in Threads /\ ~OnReadyList(t)
  BY MembersType DEF IInv, TypeOK, ElemInOneList, ElemUse, OnWaiters
<1>2. \A t \in Members(waiters[s]) : update_aging[t] = priority[t]
  BY <1>1, AgingKeepsOrder DEF IInv, ListsSorted, OnReadyList, AllThreads
<1> QED
  BY <1>2, SortedCongruence DEF IInv, ListsSorted

\* thread_tick() when the time slice is not over.
LEMMA TickWithoutYield ==
  ASSUME IInv, ThreadTick, thread_ticks + 1 < TIME_SLICE
  PROVE  IInv'
<1>1. /\ thread_ticks' = thread_ticks + 1
      /\ priority' = update_aging
      /\ context = "timer" /\ context' = "thread"
      /\ UNCHANGED <<current, status, ready_list, sleep_list, left, waiters, value, pc,
                     want, args>>
  BY ThreadsAssumption DEF ThreadTick, sleep, IInv, TypeOK
<1>2. /\ priority' \in [AllThreads -> PRI_MIN..PRI_MAX]
      /\ PrioritySorted(ready_list, priority')
      /\ \A s \in Semas : PrioritySorted(waiters[s], priority')
  BY <1>1, AgingKeepsOrder, AgingSparesWaiters DEF IInv, ListsSorted
<1>3. \A c \in Threads : (Creating(c)' <=> Creating(c)) /\ (Embryo(c)' <=> Embryo(c))
  BY <1>1 DEF Creating, Embryo
<1>4. TypeOK'
  BY <1>1, <1>2, ThreadsAssumption DEF IInv, TypeOK
<1>5. PcConsistent' /\ OneCreator'
  BY <1>1, <1>3 DEF IInv, PcConsistent, OneCreator
<1>6. ElemInOneList'
  BY <1>1, <1>3 DEF IInv, ElemInOneList, ElemUse, OnReadyList, OnSleepList, OnWaiters
<1>7. ListsSorted' /\ IdleConsistent'
  BY <1>1, <1>2 DEF IInv, ListsSorted, IdleConsistent
<1> QED
  BY <1>4, <1>5, <1>6, <1>7 DEF IInv

\* thread_tick() when the running thread has used up its time slice.
LEMMA TickWithYield ==
  ASSUME IInv, ThreadTick, thread_ticks + 1 >= TIME_SLICE
  PROVE  IInv'
<1> DEFINE L  == IF current = idle_thread THEN ready_list
                 ELSE list_insert_ordered(ready_list, current, update_aging)
           st == [status EXCEPT ![current] = "ready"]
<1>1. /\ schedule(L, st)
      /\ priority' = update_aging
      /\ context = "timer" /\ context' = "thread"
      /\ UNCHANGED <<sleep_list, left, waiters, value, pc, want, args>>
  BY DEF ThreadTick, thread_yield, sleep
<1>2. /\ update_aging \in [AllThreads -> PRI_MIN..PRI_MAX]
      /\ PrioritySorted(ready_list, update_aging)
      /\ \A s \in Semas : PrioritySorted(waiters[s], update_aging)
      /\ ready_list \in Seq(Threads) /\ NoDuplicates(ready_list)
      /\ current \in AllThreads
  BY AgingKeepsOrder, AgingSparesWaiters DEF IInv, ListsSorted, TypeOK, ElemInOneList
<1>3. current # idle_thread =>
        /\ current \in Threads /\ status[current] = "running" /\ ~OnReadyList(current)
        /\ ~OnSleepList(current) /\ ~Embryo(current)
        /\ \A s \in Semas : ~OnWaiters(current, s)
  BY <1>2 DEF AllThreads, IInv, ElemInOneList, ElemUse
<1>4. /\ L \in Seq(Threads) /\ NoDuplicates(L) /\ PrioritySorted(L, update_aging)
      /\ \A t \in Threads :
           t \in Members(L) <=> OnReadyList(t) \/ t = current
  <2>1. CASE current = idle_thread
    BY <1>2, <2>1, ThreadsAssumption DEF OnReadyList
  <2>2. CASE current # idle_thread
    BY <1>2, <1>3, <2>2, MakeReady DEF IInv, OnReadyList
  <2> QED
    BY <2>1, <2>2
<1>5. st \in [AllThreads -> {"free", "blocked", "ready", "running", "dying"}]
  BY <1>2 DEF IInv, TypeOK
<1> HIDE DEF L
<1>6. /\ current' \in AllThreads
      /\ status' \in [AllThreads -> {"free", "blocked", "ready", "running", "dying"}]
      /\ \A t \in AllThreads : status'[t] = IF t = current' THEN "running" ELSE st[t]
      /\ thread_ticks' \in 0..(TIME_SLICE - 1)
  BY <1>1, <1>4, <1>5, ScheduleStatus
<1>7. /\ ready_list' \in Seq(Threads)
      /\ Members(ready_list') = Members(L) \ {current'}
      /\ NoDuplicates(ready_list')
      /\ PrioritySorted(ready_list', update_aging)
      /\ \/ current' = idle_thread /\ L = <<>> /\ ready_list' = <<>>
         \/ current' \in Threads /\ current' \in Members(L)
  BY <1>1, <1>2, <1>4, ScheduleFront
<1>8. \A t \in Threads :
        status'[t] = IF t = current' THEN "running"
                     ELSE IF t = current THEN "ready" ELSE status[t]
  BY <1>2, <1>6 DEF IInv, TypeOK, AllThreads
<1> HIDE DEF st
<1>9. \A t \in Threads :
        /\ OnReadyList(t)' <=> (OnReadyList(t) \/ t = current) /\ t # current'
        /\ t = current' => OnReadyList(t) \/ t = current
  BY <1>4, <1>7, ThreadsAssumption DEF OnReadyList
<1>10. \A c \in Threads : (Creating(c)' <=> Creating(c)) /\ (Embryo(c)' <=> Embryo(c))
  BY <1>1 DEF Creating, Embryo
<1>11. TypeOK'
  BY <1>1, <1>2, <1>6, <1>7 DEF IInv, TypeOK
<1>12. PcConsistent'
  BY <1>1, <1>8, <1>10 DEF IInv, PcConsistent
<1>13. OneCreator'
  BY <1>1, <1>10 DEF IInv, OneCreator
<1>14. ElemInOneList'
  <2>1. ASSUME NEW t \in Threads  PROVE ElemUse(t)'
    <3>1. ElemUse(t) /\ (t = current => current # idle_thread)
      BY ThreadsAssumption DEF IInv, ElemInOneList
    <3>2. /\ OnSleepList(t)' <=> OnSleepList(t)
          /\ \A s \in Semas : OnWaiters(t, s)' <=> OnWaiters(t, s)
      BY <1>1 DEF OnSleepList, OnWaiters
    <3>3. CASE t = current'
      BY <1>1, <1>3, <1>8, <1>9, <1>10, <3>1, <3>2, <3>3 DEF ElemUse
    <3>4. CASE t # current' /\ t = current
      BY <1>1, <1>3, <1>8, <1>9, <1>10, <3>1, <3>2, <3>4 DEF ElemUse
    <3>5. CASE t # current' /\ t # current
      BY <1>1, <1>8, <1>9, <1>10, <3>1, <3>2, <3>5 DEF ElemUse
    <3> QED
      BY <3>3, <3>4, <3>5
  <2> QED
    BY <1>1, <1>7, <2>1 DEF IInv, ElemInOneList
<1>15. ListsSorted'
  BY <1>1, <1>2, <1>7 DEF ListsSorted
<1>16. IdleConsistent'
  BY <1>1, <1>7, ThreadsAssumption DEF IdleConsistent
<1> QED
  BY <1>11, <1>12, <1>13, <1>14, <1>15, <1>16 DEF IInv

\* thread_tick(): a whole run queue that ages by one level stays sorted, and no
\* waiter list holds a thread of the run queue.
LEMMA TickStep ==
  ASSUME IInv, ThreadTick
  PROVE  IInv'
<1>1. thread_ticks + 1 < TIME_SLICE \/ thread_ticks + 1 >= TIME_SLICE
  BY ThreadsAssumption DEF IInv, TypeOK
<1> QED
  BY <1>1, TickWithoutYield, TickWithYield

\* What init_thread() of a free page leaves as it was.
LEMMA CreateChild ==
  ASSUME IInv, NEW t \in Threads, NEW p \in Priorities, ThreadCreate(t, p)
  PROVE  /\ current \in Threads /\ current # idle_thread /\ current \in AllThreads
         /\ pc[current] = "run" /\ status[current] = "running" /\ t # current
         /\ ~Embryo(current) /\ ~OnReadyList(current) /\ ~OnSleepList(current)
         /\ \A s \in Semas : ~OnWaiters(current, s)
         /\ status[t] = "free" /\ pc[t] = "run"
         /\ ~Embryo(t) /\ ~OnReadyList(t) /\ ~OnSleepList(t)
         /\ \A s \in Semas : ~OnWaiters(t, s)
         /\ context = "thread" /\ tid_lock \in Semas
         /\ priority' \in [AllThreads -> PRI_MIN..PRI_MAX]
         /\ \A u \in AllThreads : u # t => priority'[u] = priority[u]
         /\ \A list \in Seq(Threads) :
              t \notin Members(list) /\ PrioritySorted(list, priority)
                => PrioritySorted(list, priority')
         /\ args' \in [AllThreads -> [thread : Threads \cup {NoThread},
                                      priority : PRI_MIN..PRI_MAX]]
         /\ args'[current].thread = t
         /\ \A c \in AllThreads : c # current => args'[c] = args[c]
<1>1. /\ current \in Threads /\ current # idle_thread /\ current \in AllThreads
      /\ pc[current] = "run" /\ status[current] = "running"
      /\ ~Embryo(current) /\ ~OnReadyList(current) /\ ~OnSleepList(current)
      /\ \A s \in Semas : ~OnWaiters(current, s)
      /\ context = "thread"
  BY RunningThread DEF ThreadCreate, Running
<1>2. status[t] = "free" /\ t # current
  BY <1>1 DEF ThreadCreate
<1>3. /\ pc[t] = "run" /\ ~Embryo(t) /\ ~OnReadyList(t) /\ ~OnSleepList(t)
      /\ \A s \in Semas : ~OnWaiters(t, s)
  BY <1>2 DEF IInv, PcConsistent, ElemInOneList, ElemUse
<1>4. /\ priority' = [priority EXCEPT ![t] = p]
      /\ args' = [args EXCEPT ![current] = [thread |-> t, priority |-> p]]
      /\ p \in PRI_MIN..PRI_MAX /\ t \in AllThreads /\ tid_lock \in Semas
  BY ThreadsAssumption DEF ThreadCreate, AllThreads
<1>5. /\ priority' \in [AllThreads -> PRI_MIN..PRI_MAX]
      /\ \A u \in AllThreads : u # t => priority'[u] = priority[u]
  BY <1>4 DEF IInv, TypeOK
<1>6. ASSUME NEW list \in Seq(Threads), t \notin Members(list),
             PrioritySorted(list, priority)
      PROVE  PrioritySorted(list, priority')
  <2>1. \A u \in Members(list) : u \in AllThreads /\ u # t
    BY <1>6, MembersType DEF AllThreads
  <2> QED
    BY <1>5, <1>6, <2>1, SortedCongruence
<1>7. /\ args' \in [AllThreads -> [thread : Threads \cup {NoThread},
                                   priority : PRI_MIN..PRI_MAX]]
      /\ args'[current].thread = t
      /\ \A c \in AllThreads : c # current => args'[c] = args[c]
  BY <1>1, <1>4 DEF IInv, TypeOK
<1> QED
  BY <1>1, <1>2, <1>3, <1>4, <1>5, <1>6, <1>7

\* The program counters after either outcome of the lock_acquire(): the caller
\* is creating t, and no other thread's embryo has changed.
LEMMA CreateEmbryo ==
  ASSUME IInv, NEW t \in Threads, NEW p \in Priorities, ThreadCreate(t, p),
         NEW l \in {"tid", "down"},
         pc' = [pc EXCEPT ![current] = l],
         want' = [want EXCEPT ![current] = IF l = "down" THEN tid_lock ELSE NoSema]
  PROVE  /\ pc' \in [AllThreads -> ThreadPC \cup IdlePC]
         /\ want' \in [AllThreads -> Semas \cup {NoSema}]
         /\ pc'[current] = l
         /\ \A u \in AllThreads : u # current => pc'[u] = pc[u] /\ want'[u] = want[u]
         /\ \A c \in Threads : Creating(c)' <=> Creating(c) \/ c = current
         /\ \A u \in Threads : Embryo(u)' <=> Embryo(u) \/ u = t
         /\ OneCreator'
<1>1. /\ current \in Threads /\ current \in AllThreads /\ pc[current] = "run"
      /\ ~Embryo(t) /\ args'[current].thread = t /\ tid_lock \in Semas
      /\ \A c \in AllThreads : c # current => args'[c] = args[c]
  BY CreateChild
<1>2. /\ pc' \in [AllThreads -> ThreadPC \cup IdlePC]
      /\ want' \in [AllThreads -> Semas \cup {NoSema}]
      /\ pc'[current] = l
      /\ want'[current] = IF l = "down" THEN tid_lock ELSE NoSema
      /\ \A u \in AllThreads : u # current => pc'[u] = pc[u] /\ want'[u] = want[u]
  BY <1>1 DEF IInv, TypeOK, ThreadPC
<1>3. \A c \in Threads : Creating(c)' <=> Creating(c) \/ c = current
  BY <1>1, <1>2 DEF Creating, AllThreads
<1>4. ~Creating(current)
  BY <1>1 DEF Creating
<1>5. \A u \in Threads : Embryo(u)' <=> Embryo(u) \/ u = t
  BY <1>1, <1>3, <1>4 DEF Embryo, AllThreads
<1>6. OneCreator'
  BY <1>1, <1>3, <1>4 DEF IInv, OneCreator, Embryo, AllThreads
<1> QED
  BY <1>2, <1>3, <1>5, <1>6

\* thread_create() that finds tid_lock free.
LEMMA CreatePasses ==
  ASSUME IInv, NEW t \in Threads, NEW p \in Priorities, ThreadCreate(t, p),
         DownPasses(tid_lock, [status EXCEPT ![t] = "blocked"])
  PROVE  IInv'
<1>1. /\ pc' = [pc EXCEPT ![current] = "tid"]
      /\ want' = [want EXCEPT ![current] = NoSema]
      /\ status' = [status EXCEPT ![t] = "blocked"]
      /\ value' = [value EXCEPT ![tid_lock] = @ - 1] /\ value[tid_lock] > 0
      /\ UNCHANGED <<current, ready_list, thread_ticks, waiters, sleep_list, left,
                     context>>
  BY DEF DownPasses, After, ThreadCreate, sleep
<1>2. want' = [want EXCEPT ![current] = IF "tid" = "down" THEN tid_lock ELSE NoSema]
  BY <1>1
<1>3. /\ pc' \in [AllThreads -> ThreadPC \cup IdlePC]
      /\ want' \in [AllThreads -> Semas \cup {NoSema}]
      /\ pc'[current] = "tid"
      /\ \A u \in AllThreads : u # current => pc'[u] = pc[u] /\ want'[u] = want[u]
      /\ \A c \in Threads : Creating(c)' <=> Creating(c) \/ c = current
      /\ \A u \in Threads : Embryo(u)' <=> Embryo(u) \/ u = t
      /\ OneCreator'
  BY <1>1, <1>2, CreateEmbryo
<1>4. want'[current] = NoSema /\ idle_thread # current /\ idle_thread \in AllThreads
  BY <1>1, CreateChild DEF IInv, TypeOK, AllThreads
<1>5. \A u \in Threads : status'[u] = IF u = t THEN "blocked" ELSE status[u]
  BY <1>1 DEF IInv, TypeOK, AllThreads
<1>6. TypeOK'
  <2>1. value[tid_lock] - 1 \in Nat
    BY <1>1, ThreadsAssumption DEF IInv, TypeOK
  <2>2. value' \in [Semas -> Nat]
    BY <1>1, <2>1 DEF IInv, TypeOK
  <2>3. status' \in [AllThreads -> {"free", "blocked", "ready", "running", "dying"}]
    BY <1>1 DEF IInv, TypeOK
  <2> QED
    BY <1>1, <1>3, <2>2, <2>3, CreateChild DEF IInv, TypeOK
<1>7. PcConsistent'
  <2>1. ASSUME NEW u \in Threads
        PROVE  /\ pc'[u] \in ThreadPC
               /\ pc'[u] = "down" <=> want'[u] # NoSema
               /\ status'[u] = "free" => pc'[u] = "run"
               /\ Creating(u)' => args'[u].thread \in Threads
    <3>1. CASE u = current
      BY <1>3, <1>4, <1>5, <3>1, CreateChild DEF ThreadPC
    <3>2. CASE u # current
      BY <1>3, <1>5, <3>2, CreateChild DEF IInv, PcConsistent, AllThreads
    <3> QED
      BY <3>1, <3>2
  <2> QED
    BY <1>3, <1>4, <2>1 DEF IInv, PcConsistent
<1>8. ElemInOneList'
  <2>1. ASSUME NEW u \in Threads  PROVE ElemUse(u)'
    <3>1. /\ ElemUse(u) /\ u \in AllThreads
          /\ OnReadyList(u)' <=> OnReadyList(u)
          /\ OnSleepList(u)' <=> OnSleepList(u)
          /\ \A s \in Semas : OnWaiters(u, s)' <=> OnWaiters(u, s)
      BY <1>1 DEF IInv, ElemInOneList, OnReadyList, OnSleepList, OnWaiters, AllThreads
    <3>2. CASE u = t
      BY <1>1, <1>3, <1>5, <3>1, <3>2, CreateChild DEF ElemUse
    <3>3. CASE u = current
      BY <1>1, <1>3, <1>5, <3>1, <3>3, CreateChild DEF ElemUse
    <3>4. CASE u # t /\ u # current
      BY <1>1, <1>3, <1>5, <3>1, <3>4 DEF ElemUse
    <3> QED
      BY <3>2, <3>3, <3>4
  <2> QED
    BY <1>1, <2>1 DEF IInv, ElemInOneList
<1>9. ListsSorted'
  <2>1. PrioritySorted(ready_list, priority')
    BY CreateChild DEF IInv, TypeOK, ListsSorted, OnReadyList
  <2>2. \A s \in Semas : PrioritySorted(waiters[s], priority')
    BY CreateChild DEF IInv, TypeOK, ListsSorted, OnWaiters
  <2> QED
    BY <1>1, <2>1, <2>2 DEF ListsSorted
<1>10. IdleConsistent'
  BY <1>1, CreateChild DEF IdleConsistent
<1> QED
  BY <1>3, <1>6, <1>7, <1>8, <1>9, <1>10 DEF IInv

\* thread_create() that has to wait for tid_lock.
LEMMA CreateBlocks ==
  ASSUME IInv, NEW t \in Threads, NEW p \in Priorities, ThreadCreate(t, p),
         DownBlocks(tid_lock, [status EXCEPT ![t] = "blocked"])
  PROVE  IInv'
<1> DEFINE st == [status EXCEPT ![t] = "blocked", ![current] = "blocked"]
<1>1. /\ schedule(ready_list, st)
      /\ waiters' = [waiters EXCEPT ![tid_lock] =
                       list_insert_ordered(@, current, priority)]
      /\ pc' = [pc EXCEPT ![current] = "down"]
      /\ want' = [want EXCEPT ![current] = tid_lock]
      /\ UNCHANGED <<value, sleep_list, left, context>>
  BY DEF DownBlocks, thread_block, ThreadCreate, sleep
<1>2. want' = [want EXCEPT ![current] = IF "down" = "down" THEN tid_lock ELSE NoSema]
  BY <1>1
<1>3. /\ pc' \in [AllThreads -> ThreadPC \cup IdlePC]
      /\ want' \in [AllThreads -> Semas \cup {NoSema}]
      /\ pc'[current] = "down"
      /\ \A u \in AllThreads : u # current => pc'[u] = pc[u] /\ want'[u] = want[u]
      /\ \A c \in Threads : Creating(c)' <=> Creating(c) \/ c = current
      /\ \A u \in Threads : Embryo(u)' <=> Embryo(u) \/ u = t
      /\ OneCreator'
  BY <1>1, <1>2, CreateEmbryo
<1>4. /\ want'[current] = tid_lock /\ tid_lock # NoSema
      /\ idle_thread # current /\ idle_thread \in AllThreads
  BY <1>1, CreateChild, ThreadsAssumption DEF IInv, TypeOK, AllThreads
<1>5. st \in [AllThreads -> {"free", "blocked", "ready", "running", "dying"}]
  BY DEF IInv, TypeOK
<1>6. /\ current' \in AllThreads
      /\ status' \in [AllThreads -> {"free", "blocked", "ready", "running", "dying"}]
      /\ \A u \in AllThreads : status'[u] = IF u = current' THEN "running" ELSE st[u]
      /\ thread_ticks' \in 0..(TIME_SLICE - 1)
  BY <1>1, <1>5, ScheduleStatus DEF IInv, TypeOK
<1>7. /\ ready_list' \in Seq(Threads)
      /\ NoDuplicates(ready_list')
      /\ PrioritySorted(ready_list', priority)
      /\ \A u \in Threads : OnReadyList(u)' <=> OnReadyList(u) /\ u # current'
      /\ \A u \in Threads : u = current' => OnReadyList(u)
      /\ current' = idle_thread => ready_list' = <<>>
  BY <1>1, SwitchAway
<1>8. /\ waiters' \in [Semas -> Seq(Threads)]
      /\ \A r \in Semas : NoDuplicates(waiters'[r])
      /\ \A r \in Semas : PrioritySorted(waiters'[r], priority)
      /\ \A u \in Threads, r \in Semas :
           OnWaiters(u, r)' <=> OnWaiters(u, r) \/ (u = current /\ r = tid_lock)
  BY <1>1, CreateChild, JoinWaiters
<1>9. \A u \in Threads :
        status'[u] = IF u = current' THEN "running"
                     ELSE IF u = t \/ u = current THEN "blocked" ELSE status[u]
  BY <1>6, CreateChild DEF IInv, TypeOK, AllThreads
<1> HIDE DEF st
<1>10. t # current' /\ current # current'
  BY <1>7, CreateChild
<1>11. TypeOK'
  BY <1>1, <1>3, <1>6, <1>7, <1>8, CreateChild DEF IInv, TypeOK
<1>12. PcConsistent'
  <2>1. ASSUME NEW u \in Threads
        PROVE  /\ pc'[u] \in ThreadPC
               /\ pc'[u] = "down" <=> want'[u] # NoSema
               /\ status'[u] = "free" => pc'[u] = "run"
               /\ Creating(u)' => args'[u].thread \in Threads
    <3>1. CASE u = current
      BY <1>3, <1>4, <1>9, <1>10, <3>1, CreateChild DEF ThreadPC
    <3>2. CASE u # current
      BY <1>3, <1>9, <3>2, CreateChild DEF IInv, PcConsistent, AllThreads
    <3> QED
      BY <3>1, <3>2
  <2> QED
    BY <1>3, <1>4, <2>1 DEF IInv, PcConsistent
<1>13. ElemInOneList'
  <2>1. ASSUME NEW u \in Threads  PROVE ElemUse(u)'
    <3>1. /\ ElemUse(u) /\ u \in AllThreads
          /\ OnSleepList(u)' <=> OnSleepList(u)
      BY <1>1 DEF IInv, ElemInOneList, OnSleepList, AllThreads
    <3>2. CASE u = t
      BY <1>3, <1>7, <1>8, <1>9, <1>10, <3>1, <3>2, CreateChild DEF ElemUse
    <3>3. CASE u = current
      BY <1>3, <1>4, <1>7, <1>8, <1>9, <1>10, <3>1, <3>3, CreateChild DEF ElemUse
    <3>4. CASE u # t /\ u # current
      BY <1>3, <1>7, <1>8, <1>9, <3>1, <3>4 DEF ElemUse
    <3> QED
      BY <3>2, <3>3, <3>4
  <2> QED
    BY <1>1, <1>7, <1>8, <2>1 DEF IInv, ElemInOneList
<1>14. ListsSorted'
  <2>1. t \notin Members(ready_list')
    BY <1>7, CreateChild DEF OnReadyList
  <2>2. PrioritySorted(ready_list', priority')
    BY <1>7, <2>1, CreateChild
  <2>3. \A s \in Semas : t \notin Members(waiters'[s])
    BY <1>8, CreateChild DEF OnWaiters
  <2>4. \A s \in Semas : PrioritySorted(waiters'[s], priority')
    BY <1>8, <2>3, CreateChild
  <2> QED
    BY <2>2, <2>4 DEF ListsSorted
<1>15. IdleConsistent'
  BY <1>1, <1>7, CreateChild DEF IdleConsistent
<1> QED
  BY <1>3, <1>11, <1>12, <1>13, <1>14, <1>15 DEF IInv

\* thread_create() up to allocate_tid(): a free page is on no list.
LEMMA CreateStep ==
  ASSUME IInv, NEW t \in Threads, NEW p \in Priorities, ThreadCreate(t, p)
  PROVE  IInv'
<1>1. \/ DownPasses(tid_lock, [status EXCEPT ![t] = "blocked"])
      \/ DownBlocks(tid_lock, [status EXCEPT ![t] = "blocked"])
  BY DEF ThreadCreate
<1> QED
  BY <1>1, CreatePasses, CreateBlocks

-----------------------------------------------------------------------------
(***************************************************************************)
(* The theorems.                                                           *)
(***************************************************************************)

LEMMA InitIInv == Init => IInv
<1> SUFFICES ASSUME Init PROVE IInv
  OBVIOUS
<1> USE ThreadsAssumption
<1>1. TypeOK
  <2>1. status \in [AllThreads -> {"free", "blocked", "ready", "running", "dying"}]
    BY DEF Init
  <2>2. current \in AllThreads /\ priority \in [AllThreads -> PRI_MIN..PRI_MAX]
    BY DEF Init, AllThreads
  <2>3. /\ ready_list \in Seq(Threads) /\ sleep_list \in Seq(Threads)
        /\ waiters \in [Semas -> Seq(Threads)] /\ value \in [Semas -> Nat]
        /\ left \in [AllThreads -> Nat] /\ thread_ticks \in 0..(TIME_SLICE - 1)
    BY DEF Init
  <2>4. /\ pc \in [AllThreads -> ThreadPC \cup IdlePC]
        /\ want \in [AllThreads -> Semas \cup {NoSema}]
        /\ args \in [AllThreads -> [thread : Threads \cup {NoThread},
                                    priority : PRI_MIN..PRI_MAX]]
        /\ context \in {"thread", "timer"}
    BY DEF Init, ThreadPC, IdlePC, NoArgs
  <2> QED
    BY <2>1, <2>2, <2>3, <2>4 DEF TypeOK
<1>2. \A t \in Threads : /\ pc[t] = "run" /\ want[t] = NoSema
                         /\ status[t] \in {"running", "free"}
                         /\ status[t] = "running" <=> current = t
                         /\ ~Creating(t)
  BY DEF Init, AllThreads, Creating
<1>3. PcConsistent /\ OneCreator
  BY <1>2 DEF Init, AllThreads, PcConsistent, OneCreator, ThreadPC, IdlePC
<1>4. ready_list = <<>> /\ sleep_list = <<>> /\ \A s \in Semas : waiters[s] = <<>>
  BY DEF Init
<1>5. Members(<<>>) = {} /\ NoDuplicates(<<>>) /\ PrioritySorted(<<>>, priority)
  BY DEF Members, NoDuplicates, PrioritySorted
<1>6. ElemInOneList
  BY <1>2, <1>4, <1>5
     DEF ElemInOneList, ElemUse, Embryo, OnReadyList, OnSleepList, OnWaiters
<1>7. ListsSorted
  BY <1>4, <1>5 DEF ListsSorted
<1>8. IdleConsistent
  BY <1>4 DEF IdleConsistent, Init
<1> QED
  BY <1>1, <1>3, <1>6, <1>7, <1>8 DEF IInv

\* A stuttering step.
LEMMA StutterIInv ==
  ASSUME IInv, UNCHANGED vars
  PROVE  IInv'
BY DEF vars, IInv, TypeOK, PcConsistent, OneCreator, ElemInOneList, ElemUse, ListsSorted,
       IdleConsistent, OnReadyList, OnSleepList, OnWaiters, Embryo, Creating

\* The invariant is inductive.
LEMMA NextIInv == IInv /\ [Next]_vars => IInv'
<1> SUFFICES ASSUME IInv, [Next]_vars PROVE IInv'
  OBVIOUS
<1> USE ThreadsAssumption
<1>1. CASE Call
  <2>1. CASE ThreadYield
    BY <2>1, YieldStep
  <2>2. ASSUME NEW p \in Priorities, ThreadSetPriority(p)  PROVE IInv'
    BY <2>2, SetPriorityStep
  <2>3. CASE ThreadExit
    BY <2>3, ExitStep
  <2>4. ASSUME NEW s \in ClientSemas, SemaDown(s)  PROVE IInv'
    BY <2>4, DownStep DEF ClientSemas
  <2>5. ASSUME NEW s \in ClientSemas, SemaTryDown(s)  PROVE IInv'
    BY <2>5, TryDownStep DEF ClientSemas
  <2>6. ASSUME NEW s \in ClientSemas, SemaUp(s)  PROVE IInv'
    BY <2>6, SemaUpStep DEF ClientSemas
  <2>7. ASSUME NEW t \in Threads, NEW p \in Priorities, ThreadCreate(t, p)
        PROVE  IInv'
    BY <2>7, CreateStep
  <2>8. ASSUME NEW n \in SleepTicks, TimerSleepStart(n)  PROVE IInv'
    BY <2>8, SleepStartStep
  <2> QED
    BY <1>1, <2>1, <2>2, <2>3, <2>4, <2>5, <2>6, <2>7, <2>8 DEF Call
<1>2. CASE Continue
  BY <1>2, ResumeStep, AllocateTidStep, UnblockChildStep, PreemptCheckStep,
     StorePriorityStep, YieldStep, SleepBlockStep, IdleStep DEF Continue
<1>3. CASE Interrupt
  BY <1>3, TimerInterruptStep, WakeStep, TickStep, DeviceStep DEF Interrupt
<1>4. CASE UNCHANGED vars
  BY <1>4, StutterIInv
<1> QED
  BY <1>1, <1>2, <1>3, <1>4 DEF Next

\* The invariant holds in every behaviour of the thread system.
THEOREM Invariant == Spec => []IInv
BY InitIInv, NextIInv, PTL DEF Spec

\* Every variable keeps its type.
THEOREM TypeCorrect == Spec => []TypeOK
<1>1. IInv => TypeOK
  BY DEF IInv
<1> QED
  BY <1>1, Invariant, PTL

\* The elem of a struct thread is never linked into two of the run queue, the
\* sleep list and the waiter lists, nor into one of them twice.
THEOREM ElemIsShared == Spec => []ElemInOneList
<1>1. IInv => ElemInOneList
  BY DEF IInv
<1> QED
  BY <1>1, Invariant, PTL

\* The run queue and the waiter lists stay sorted without being sorted again.
THEOREM ListsStaySorted == Spec => []ListsSorted
<1>1. IInv => ListsSorted
  BY DEF IInv
<1> QED
  BY <1>1, Invariant, PTL

\* The CPU is never halted while a thread is ready.
THEOREM IdleIsLastResort == Spec => []IdleOnlyWhenNothingReady
<1>1. IInv => IdleOnlyWhenNothingReady
  BY DEF IInv, IdleConsistent, IdleOnlyWhenNothingReady
<1> QED
  BY <1>1, Invariant, PTL

\* The lists of the scheduler are right at every step.
THEOREM ListsStayRight == Spec => []ListsRight
BY TypeCorrect, ElemIsShared, ListsStaySorted, IdleIsLastResort, PTL DEF ListsRight

-----------------------------------------------------------------------------
(***************************************************************************)
(* The semaphores of the thread system implement module Semaphore, and no  *)
(* wakeup of theirs is lost; what the scheduler and the alarm clock never  *)
(* do in a step.                                                           *)
(***************************************************************************)
\* A thread takes a unit of s: the down() of the specification returns.
LEMMA PassRefines ==
  ASSUME IInv, NEW s \in Semas, NEW st, DownPasses(s, st),
         current \in Threads,
         want[current] \in {NoSema, s}
  PROVE  Sem!SNext
<1>1. /\ value[s] > 0 /\ value' = [value EXCEPT ![s] = @ - 1]
      /\ want' = [want EXCEPT ![current] = NoSema]
      /\ want \in [AllThreads -> Semas \cup {NoSema}]
      /\ current \in AllThreads
  BY DEF DownPasses, IInv, TypeOK
<1>2. CASE want[current] = NoSema
  <2>1. want' = want
    BY <1>1, <1>2
  <2>2. Sem!Down(s)
    BY <1>1, <2>1 DEF Sem!Down
  <2> QED
    BY <2>2 DEF Sem!SNext
<1>3. CASE want[current] = s
  <2>1. Sem!Acquire(current, s)
    BY <1>1, <1>3 DEF Sem!Acquire
  <2> QED
    BY <1>1, <2>1 DEF Sem!SNext
<1> QED
  BY <1>2, <1>3

\* A thread finds s at zero: it starts to wait, or it was waiting already.
LEMMA BlockRefines ==
  ASSUME IInv, NEW s \in Semas, NEW st, DownBlocks(s, st),
         current \in Threads,
         want[current] \in {NoSema, s}
  PROVE  Sem!SNext \/ UNCHANGED <<value, want>>
<1>1. /\ value[s] = 0 /\ value' = value
      /\ want' = [want EXCEPT ![current] = s]
      /\ want \in [AllThreads -> Semas \cup {NoSema}]
      /\ current \in AllThreads
  BY DEF DownBlocks, IInv, TypeOK
<1>2. CASE want[current] = NoSema
  <2>1. Sem!Wait(current, s)
    BY <1>1, <1>2 DEF Sem!Wait
  <2> QED
    BY <1>1, <2>1 DEF Sem!SNext
<1>3. CASE want[current] = s
  BY <1>1, <1>3
<1> QED
  BY <1>2, <1>3

\* sema_up() is the up() of the specification.
LEMMA UpRefines ==
  ASSUME NEW s \in Semas, sema_up(s), UNCHANGED want
  PROVE  Sem!SNext
<1>1. Sem!Up(s)
  BY DEF sema_up, Sem!Up
<1> QED
  BY <1>1 DEF Sem!SNext

\* A running thread outside of sema_down() waits for no semaphore.
LEMMA RunningWants ==
  ASSUME IInv, NEW l, Running(l), l # "down"
  PROVE  current \in Threads /\ want[current] = NoSema
BY RunningThread DEF IInv, PcConsistent

\* Every step of the thread system is a step of the specification or leaves
\* its variables alone.
LEMMA StepRefines == IInv /\ [Next]_vars => [Sem!SNext]_(Sem!svars)
<1> SUFFICES ASSUME IInv, [Next]_vars
             PROVE  Sem!SNext \/ UNCHANGED <<value, want>>
  BY DEF Sem!svars
<1> USE ThreadsAssumption
<1>1. CASE ThreadYield \/ ThreadExit \/ IdleLoop \/ PreemptCheck \/ StorePriority
           \/ UnblockChild \/ TimerSleepBlock \/ TimerInterrupt \/ WakeSleeper
           \/ ThreadTick
  BY <1>1 DEF ThreadYield, ThreadExit, IdleLoop, PreemptCheck, StorePriority,
     UnblockChild, TimerSleepBlock, TimerInterrupt, WakeSleeper, ThreadTick
<1>2. ASSUME NEW p \in Priorities, ThreadSetPriority(p)
      PROVE  UNCHANGED <<value, want>>
  BY <1>2 DEF ThreadSetPriority
<1>3. ASSUME NEW n \in SleepTicks, TimerSleepStart(n)
      PROVE  UNCHANGED <<value, want>>
  BY <1>3 DEF TimerSleepStart
<1>4. ASSUME NEW s \in Semas, SemaDown(s)
      PROVE  Sem!SNext \/ UNCHANGED <<value, want>>
  <2>1. current \in Threads /\ want[current] = NoSema
    BY <1>4, RunningWants DEF SemaDown
  <2> QED
    BY <1>4, <2>1, PassRefines, BlockRefines DEF SemaDown
<1>5. CASE SemaDownResume
  <2>1. current \in Threads /\ want[current] \in Semas
    BY <1>5, RunningThread DEF SemaDownResume, IInv, TypeOK, PcConsistent
  <2> QED
    BY <1>5, <2>1, PassRefines, BlockRefines DEF SemaDownResume
<1>6. ASSUME NEW s \in Semas, SemaTryDown(s)  PROVE Sem!SNext
  <2>1. Sem!Down(s)
    BY <1>6 DEF SemaTryDown, Sem!Down
  <2> QED
    BY <2>1 DEF Sem!SNext
<1>7. ASSUME NEW s \in Semas, SemaUp(s) \/ DeviceInterrupt(s)  PROVE Sem!SNext
  BY <1>7, UpRefines DEF SemaUp, DeviceInterrupt
<1>8. CASE AllocateTid
  BY <1>8, UpRefines DEF AllocateTid
<1>9. ASSUME NEW t \in Threads, NEW p \in Priorities, ThreadCreate(t, p)
      PROVE  Sem!SNext \/ UNCHANGED <<value, want>>
  <2>1. current \in Threads /\ want[current] = NoSema
    BY <1>9, RunningWants DEF ThreadCreate
  <2>2. \/ DownPasses(tid_lock, [status EXCEPT ![t] = "blocked"])
        \/ DownBlocks(tid_lock, [status EXCEPT ![t] = "blocked"])
    BY <1>9 DEF ThreadCreate
  <2> QED
    BY <2>1, <2>2, PassRefines, BlockRefines
<1>10. CASE UNCHANGED vars
  BY <1>10 DEF vars
<1> QED
  BY <1>1, <1>2, <1>3, <1>4, <1>5, <1>6, <1>7, <1>8, <1>9, <1>10
     DEF Next, Call, Continue, Interrupt, ClientSemas

\* The waiter lists, the retry of a woken thread and the scheduler implement
\* "a nonnegative integer along with two atomic operators".
THEOREM SemaphoresImplementSpec == Spec => SemaphoreSpec
<1>1. Init => Sem!SInit
  BY DEF Init, Sem!SInit
<1> QED
  BY <1>1, StepRefines, Invariant, PTL DEF Spec, SemaphoreSpec, Sem!SSpec

-----------------------------------------------------------------------------
(***************************************************************************)
(* No wakeup is lost: the number of woken threads that have not tested the *)
(* semaphore again is an upper bound of its value while others wait.       *)
(***************************************************************************)

\* The woken threads of a semaphore can be counted.
LEMMA WokenFinite ==
  ASSUME NEW s \in Semas
  PROVE  /\ IsFiniteSet(Woken(s)) /\ Cardinality(Woken(s)) \in Nat
         /\ \A t : /\ IsFiniteSet(Woken(s) \cup {t})
                   /\ Cardinality(Woken(s) \cup {t})
                        = IF t \in Woken(s) THEN Cardinality(Woken(s))
                                            ELSE Cardinality(Woken(s)) + 1
                   /\ Cardinality(Woken(s) \ {t})
                        = IF t \in Woken(s) THEN Cardinality(Woken(s)) - 1
                                            ELSE Cardinality(Woken(s))
<1>1. IsFiniteSet(Threads) /\ Woken(s) \in SUBSET Threads
  BY ThreadsAssumption DEF Woken
<1>2. IsFiniteSet(Woken(s))
  BY <1>1, FS_Subset
<1> QED
  BY <1>2, FS_AddElement, FS_RemoveElement, FS_CardinalityType

\* A unit is taken by a woken thread, or by one that did not have to wait.
LEMMA PassKeepsWakeups ==
  ASSUME IInv, NoLostWakeup, NEW s \in Semas, NEW st, DownPasses(s, st),
         current \in Threads,
         want[current] \in {NoSema, s},
         \A r \in Semas : ~OnWaiters(current, r)
  PROVE  NoLostWakeup'
<1>1. /\ value[s] > 0 /\ value' = [value EXCEPT ![s] = @ - 1]
      /\ want' = [want EXCEPT ![current] = NoSema]
      /\ waiters' = waiters
      /\ want \in [AllThreads -> Semas \cup {NoSema}]
      /\ value \in [Semas -> Nat]
  BY DEF DownPasses, IInv, TypeOK
<1>2. \A t \in Threads : want'[t] = IF t = current THEN NoSema ELSE want[t]
  BY <1>1 DEF AllThreads
<1> SUFFICES ASSUME NEW r \in Semas, waiters[r] # <<>>
             PROVE  value'[r] <= Cardinality(Woken(r)')
  BY <1>1 DEF NoLostWakeup
<1>3. Woken(r)' = IF want[current] = r THEN Woken(r) \ {current} ELSE Woken(r)
  BY <1>1, <1>2, ThreadsAssumption DEF Woken, OnWaiters
<1>4. want[current] = r => current \in Woken(r) /\ r = s
  BY ThreadsAssumption DEF Woken
<1>5. value[r] <= Cardinality(Woken(r)) /\ value[r] \in Nat
  BY <1>1 DEF NoLostWakeup
<1>6. value'[r] = IF r = s THEN value[r] - 1 ELSE value[r]
  BY <1>1
<1>7. /\ Cardinality(Woken(r)) \in Nat
      /\ current \in Woken(r) =>
           Cardinality(Woken(r) \ {current}) = Cardinality(Woken(r)) - 1
  BY WokenFinite
<1>8. CASE want[current] = r
  <2>1. /\ Cardinality(Woken(r)') = Cardinality(Woken(r)) - 1
        /\ value'[r] = value[r] - 1
    BY <1>3, <1>4, <1>6, <1>7, <1>8
  <2> QED
    BY <1>5, <1>7, <2>1
<1>9. CASE want[current] # r
  <2>1. Cardinality(Woken(r)') = Cardinality(Woken(r))
    BY <1>3, <1>9
  <2> QED
    BY <1>5, <1>6, <1>7, <2>1
<1> QED
  BY <1>8, <1>9

\* A thread that starts or goes on to wait has seen the value 0.
LEMMA BlockKeepsWakeups ==
  ASSUME IInv, NoLostWakeup, NEW s \in Semas, NEW st, DownBlocks(s, st),
         current \in Threads,
         want[current] \in {NoSema, s},
         \A r \in Semas : ~OnWaiters(current, r)
  PROVE  NoLostWakeup'
<1>1. /\ value[s] = 0 /\ value' = value
      /\ want' = [want EXCEPT ![current] = s]
      /\ waiters' = [waiters EXCEPT ![s] = list_insert_ordered(@, current, priority)]
      /\ want \in [AllThreads -> Semas \cup {NoSema}]
      /\ waiters \in [Semas -> Seq(Threads)]
  BY DEF DownBlocks, IInv, TypeOK
<1>2. \A t \in Threads : want'[t] = IF t = current THEN s ELSE want[t]
  BY <1>1 DEF AllThreads
<1>3. \A u \in Threads, r \in Semas :
        OnWaiters(u, r)' <=> OnWaiters(u, r) \/ (u = current /\ r = s)
  BY <1>1, JoinWaiters
<1> SUFFICES ASSUME NEW r \in Semas, waiters'[r] # <<>>
             PROVE  value'[r] <= Cardinality(Woken(r)')
  BY DEF NoLostWakeup
<1>4. CASE r = s
  <2>1. IsFiniteSet(Threads) /\ Woken(r)' \in SUBSET Threads
    BY ThreadsAssumption DEF Woken
  <2>2. Cardinality(Woken(r)') \in Nat
    BY <2>1, FS_Subset, FS_CardinalityType
  <2> QED
    BY <1>1, <1>4, <2>2
<1>5. CASE r # s
  <2>1. Woken(r)' = Woken(r)
    BY <1>2, <1>3, <1>5, ThreadsAssumption DEF Woken
  <2>2. waiters'[r] = waiters[r]
    BY <1>1, <1>5
  <2> QED
    BY <1>1, <2>1, <2>2 DEF NoLostWakeup
<1> QED
  BY <1>4, <1>5

\* An up() that raises the value wakes a waiter if there is one.
LEMMA UpKeepsWakeups ==
  ASSUME IInv, NoLostWakeup, NEW s \in Semas, sema_up(s), UNCHANGED want
  PROVE  NoLostWakeup'
<1>1. /\ value' = [value EXCEPT ![s] = @ + 1]
      /\ value \in [Semas -> Nat]
  BY DEF sema_up, IInv, TypeOK
<1>2. \A r \in Semas : value'[r] = IF r = s THEN value[r] + 1 ELSE value[r]
  BY <1>1
<1>3. CASE waiters[s] = <<>> /\ UNCHANGED waiters
  <2>1. \A r \in Semas : Woken(r)' = Woken(r)
    BY <1>3 DEF Woken, OnWaiters
  <2> QED
    BY <1>2, <1>3, <2>1 DEF NoLostWakeup
<1>4. ASSUME NEW w \in Threads, OnWaiters(w, s),
             \A u \in Threads, r \in Semas :
               OnWaiters(u, r)' <=> OnWaiters(u, r) /\ ~(u = w /\ r = s),
             waiters[s] # <<>>,
             \A r \in Semas : r # s => waiters'[r] = waiters[r]
      PROVE  NoLostWakeup'
  <2>1. want[w] = s /\ w \notin Woken(s)
    BY <1>4 DEF IInv, ElemInOneList, ElemUse, Woken
  <2>2. Woken(s)' = Woken(s) \cup {w}
    BY <1>4, <2>1 DEF Woken
  <2>3. \A r \in Semas : r # s => Woken(r)' = Woken(r)
    BY <1>4 DEF Woken
  <2>4. value[s] <= Cardinality(Woken(s)) /\ value[s] \in Nat
    BY <1>1, <1>4 DEF NoLostWakeup
  <2>5. /\ Cardinality(Woken(s)) \in Nat
        /\ Cardinality(Woken(s) \cup {w}) = Cardinality(Woken(s)) + 1
    BY <2>1, WokenFinite
  <2>6. value'[s] <= Cardinality(Woken(s)')
    BY <1>2, <2>2, <2>4, <2>5
  <2> QED
    BY <1>2, <1>4, <2>3, <2>6 DEF NoLostWakeup
<1>5. \A r \in Semas : r # s => waiters'[r] = waiters[r]
  BY DEF sema_up, IInv, TypeOK
<1>6. CASE waiters[s] = <<>>
  BY <1>3, <1>6 DEF sema_up
<1>7. CASE waiters[s] # <<>>
  BY <1>4, <1>5, <1>7, UpMoves
<1> QED
  BY <1>6, <1>7

\* The bound on the value holds after every step: a unit and a woken thread are
\* added together, and only a woken thread's own test takes one of each.
LEMMA StepKeepsWakeups == IInv /\ NoLostWakeup /\ [Next]_vars => NoLostWakeup'
<1> SUFFICES ASSUME IInv, NoLostWakeup, [Next]_vars
             PROVE  NoLostWakeup'
  OBVIOUS
<1> USE ThreadsAssumption
<1>1. ASSUME UNCHANGED <<value, want, waiters>>
      PROVE  NoLostWakeup'
  <2>1. \A s \in Semas : Woken(s)' = Woken(s)
    BY <1>1 DEF Woken, OnWaiters
  <2> QED
    BY <1>1, <2>1 DEF NoLostWakeup
<1>2. CASE ThreadYield \/ ThreadExit \/ IdleLoop \/ PreemptCheck \/ StorePriority
           \/ UnblockChild \/ TimerSleepBlock \/ TimerInterrupt \/ WakeSleeper
           \/ ThreadTick
  BY <1>1, <1>2 DEF ThreadYield, ThreadExit, IdleLoop, PreemptCheck, StorePriority,
     UnblockChild, TimerSleepBlock, TimerInterrupt, WakeSleeper, ThreadTick
<1>3. ASSUME NEW p \in Priorities, ThreadSetPriority(p)
      PROVE  NoLostWakeup'
  BY <1>1, <1>3 DEF ThreadSetPriority
<1>4. ASSUME NEW n \in SleepTicks, TimerSleepStart(n)
      PROVE  NoLostWakeup'
  BY <1>1, <1>4 DEF TimerSleepStart
<1>5. ASSUME NEW s \in Semas, SemaDown(s)
      PROVE  NoLostWakeup'
  <2>1. /\ current \in Threads /\ want[current] = NoSema
        /\ \A r \in Semas : ~OnWaiters(current, r)
    BY <1>5, RunningWants, RunningThread DEF SemaDown
  <2> QED
    BY <1>5, <2>1, PassKeepsWakeups, BlockKeepsWakeups DEF SemaDown
<1>6. CASE SemaDownResume
  <2>1. /\ current \in Threads /\ want[current] \in Semas
        /\ \A r \in Semas : ~OnWaiters(current, r)
    BY <1>6, RunningThread DEF SemaDownResume, IInv, TypeOK, PcConsistent
  <2> QED
    BY <1>6, <2>1, PassKeepsWakeups, BlockKeepsWakeups DEF SemaDownResume
<1>7. ASSUME NEW s \in Semas, SemaTryDown(s)
      PROVE  NoLostWakeup'
  <2>1. \A r \in Semas : Woken(r)' = Woken(r)
    BY <1>7 DEF SemaTryDown, Woken, OnWaiters
  <2>2. /\ waiters' = waiters /\ value \in [Semas -> Nat] /\ value[s] > 0
        /\ value' = [value EXCEPT ![s] = @ - 1]
    BY <1>7 DEF SemaTryDown, IInv, TypeOK
  <2>3. ASSUME NEW r \in Semas, waiters[r] # <<>>
        PROVE  value'[r] <= Cardinality(Woken(r))
    <3>1. value[r] <= Cardinality(Woken(r)) /\ Cardinality(Woken(r)) \in Nat
      BY <2>3, WokenFinite DEF NoLostWakeup
    <3> QED
      BY <2>2, <3>1
  <2> QED
    BY <2>1, <2>2, <2>3 DEF NoLostWakeup
<1>8. ASSUME NEW s \in Semas, SemaUp(s) \/ DeviceInterrupt(s)
      PROVE  NoLostWakeup'
  BY <1>8, UpKeepsWakeups DEF SemaUp, DeviceInterrupt
<1>9. CASE AllocateTid
  BY <1>9, UpKeepsWakeups DEF AllocateTid
<1>10. ASSUME NEW t \in Threads, NEW p \in Priorities, ThreadCreate(t, p)
       PROVE  NoLostWakeup'
  <2>1. /\ current \in Threads /\ want[current] = NoSema
        /\ \A r \in Semas : ~OnWaiters(current, r)
    BY <1>10, RunningWants, RunningThread DEF ThreadCreate
  <2>2. \/ DownPasses(tid_lock, [status EXCEPT ![t] = "blocked"])
        \/ DownBlocks(tid_lock, [status EXCEPT ![t] = "blocked"])
    BY <1>10 DEF ThreadCreate
  <2> QED
    BY <2>1, <2>2, PassKeepsWakeups, BlockKeepsWakeups
<1>11. CASE UNCHANGED vars
  BY <1>1, <1>11 DEF vars
<1> QED
  BY <1>2, <1>3, <1>4, <1>5, <1>6, <1>7, <1>8, <1>9, <1>10, <1>11
     DEF Next, Call, Continue, Interrupt, ClientSemas

\* While threads wait for a semaphore, every unit of its value is owed to a
\* thread that has been woken and has not tested it again.
THEOREM WakeupsAreKept == Spec => []NoLostWakeup
<1>1. Init => NoLostWakeup
  BY DEF Init, NoLostWakeup
<1> QED
  BY <1>1, StepKeepsWakeups, Invariant, PTL DEF Spec

-----------------------------------------------------------------------------
(***************************************************************************)
(* The scheduler.                                                          *)
(***************************************************************************)

\* The step formula of SwitchToHighest.
BestIsRunning ==
  current' # current =>
    IF current' = idle_thread
      THEN ready_list' = <<>>
      ELSE \A t \in Members(ready_list') : priority'[t] <= priority'[current']

\* Switching away from a thread that blocks or exits.
LEMMA SwitchIsBest ==
  ASSUME IInv, NEW st, schedule(ready_list, st), UNCHANGED priority
  PROVE  BestIsRunning
<1>1. /\ ready_list \in Seq(Threads) /\ NoDuplicates(ready_list)
      /\ PrioritySorted(ready_list, priority)
      /\ priority \in [AllThreads -> PRI_MIN..PRI_MAX]
  BY DEF IInv, TypeOK, ElemInOneList, ListsSorted
<1>2. /\ current' = idle_thread => ready_list' = <<>>
      /\ \A t \in Members(ready_list') : priority[t] <= priority[current']
  BY <1>1, ScheduleFront, ThreadsAssumption
<1> QED
  BY <1>2 DEF BestIsRunning

\* After a thread_yield() the highest ready thread runs ...
LEMMA YieldIsBest ==
  ASSUME IInv, ThreadYield
  PROVE  BestIsRunning
<1> DEFINE L == list_insert_ordered(ready_list, current, priority)
<1>1. current \in Threads /\ current # idle_thread /\ ~OnReadyList(current)
  BY RunningThread DEF ThreadYield
<1>2. L \in Seq(Threads) /\ NoDuplicates(L) /\ PrioritySorted(L, priority)
  BY <1>1, MakeReady DEF IInv, TypeOK, ElemInOneList, ListsSorted, OnReadyList
<1>3. /\ schedule(L, [status EXCEPT ![current] = "ready"])
      /\ priority' = priority /\ priority \in [AllThreads -> PRI_MIN..PRI_MAX]
  BY <1>1 DEF ThreadYield, thread_yield, IInv, TypeOK
<1> HIDE DEF L
<1>4. /\ current' = idle_thread => ready_list' = <<>>
      /\ \A t \in Members(ready_list') : priority[t] <= priority[current']
  BY <1>2, <1>3, ScheduleFront, ThreadsAssumption
<1> QED
  BY <1>3, <1>4 DEF BestIsRunning

\* ... and after the one at the end of a timer interrupt, where the run queue
\* has just aged ...
LEMMA TickIsBest ==
  ASSUME IInv, ThreadTick
  PROVE  BestIsRunning
<1> DEFINE L  == IF current = idle_thread THEN ready_list
                 ELSE list_insert_ordered(ready_list, current, update_aging)
           st == [status EXCEPT ![current] = "ready"]
<1>1. CASE thread_ticks + 1 >= TIME_SLICE
  <2>1. schedule(L, st) /\ priority' = update_aging
    BY <1>1 DEF ThreadTick, thread_yield
  <2>2. /\ update_aging \in [AllThreads -> PRI_MIN..PRI_MAX]
        /\ PrioritySorted(ready_list, update_aging)
        /\ ready_list \in Seq(Threads) /\ NoDuplicates(ready_list)
    BY AgingKeepsOrder DEF IInv, ListsSorted, TypeOK, ElemInOneList
  <2>3. current # idle_thread => current \in Threads /\ ~OnReadyList(current)
    BY DEF AllThreads, IInv, TypeOK, ElemInOneList, ElemUse
  <2>4. L \in Seq(Threads) /\ NoDuplicates(L) /\ PrioritySorted(L, update_aging)
    BY <2>2, <2>3, MakeReady DEF IInv, OnReadyList
  <2> HIDE DEF L, st
  <2>5. /\ current' = idle_thread => ready_list' = <<>>
        /\ \A t \in Members(ready_list') : update_aging[t] <= update_aging[current']
    BY <2>1, <2>2, <2>4, ScheduleFront, ThreadsAssumption
  <2> QED
    BY <2>1, <2>5 DEF BestIsRunning
<1>2. CASE ~ (thread_ticks + 1 >= TIME_SLICE)
  BY <1>2 DEF ThreadTick, BestIsRunning
<1> QED
  BY <1>1, <1>2

\* ... and when allocate_tid() blocks the parent.
LEMMA CreateIsBest ==
  ASSUME IInv, NEW t \in Threads, NEW p \in Priorities, ThreadCreate(t, p)
  PROVE  BestIsRunning
<1>1. CASE DownPasses(tid_lock, [status EXCEPT ![t] = "blocked"])
  BY <1>1 DEF DownPasses, BestIsRunning
<1>2. CASE DownBlocks(tid_lock, [status EXCEPT ![t] = "blocked"])
  <2>1. PICK st : schedule(ready_list, st)
    BY <1>2 DEF DownBlocks, thread_block
  <2>2. /\ ready_list \in Seq(Threads) /\ NoDuplicates(ready_list)
        /\ PrioritySorted(ready_list, priority')
        /\ priority' \in [AllThreads -> PRI_MIN..PRI_MAX]
    BY CreateChild DEF IInv, TypeOK, ElemInOneList, ListsSorted, OnReadyList
  <2>3. /\ current' = idle_thread => ready_list' = <<>>
        /\ \A u \in Members(ready_list') : priority'[u] <= priority'[current']
    BY <2>1, <2>2, ScheduleFront, ThreadsAssumption
  <2> QED
    BY <2>3 DEF BestIsRunning
<1> QED
  BY <1>1, <1>2 DEF ThreadCreate

\* Whenever the CPU changes hands it goes to a thread that no ready thread is
\* above, to the idle thread if no thread is ready.
THEOREM SwitchesToHighest == Spec => SwitchToHighest
<1>1. ASSUME IInv, [Next]_vars  PROVE BestIsRunning \/ UNCHANGED vars
  <2> USE <1>1
  <2>1. CASE ThreadYield
    BY <2>1, YieldIsBest
  <2>2. CASE ThreadExit
    BY <2>2, SwitchIsBest DEF ThreadExit
  <2>3. CASE IdleLoop
    BY <2>3, SwitchIsBest DEF IdleLoop, thread_block
  <2>4. CASE TimerSleepBlock
    BY <2>4, SwitchIsBest DEF TimerSleepBlock, thread_block
  <2>5. ASSUME NEW s, SemaDown(s)  PROVE BestIsRunning
    <3>1. CASE DownPasses(s, status)
      BY <3>1 DEF DownPasses, BestIsRunning
    <3>2. CASE DownBlocks(s, status)
      BY <2>5, <3>2, SwitchIsBest DEF SemaDown, DownBlocks, thread_block
    <3> QED
      BY <2>5, <3>1, <3>2 DEF SemaDown
  <2>6. CASE SemaDownResume
    <3>1. CASE DownPasses(want[current], status)
      BY <3>1 DEF DownPasses, BestIsRunning
    <3>2. CASE DownBlocks(want[current], status)
      BY <2>6, <3>2, SwitchIsBest DEF SemaDownResume, DownBlocks, thread_block
    <3> QED
      BY <2>6, <3>1, <3>2 DEF SemaDownResume
  <2>7. ASSUME NEW t \in Threads, NEW p \in Priorities, ThreadCreate(t, p)
        PROVE  BestIsRunning
    BY <2>7, CreateIsBest
  <2>8. CASE ThreadTick
    BY <2>8, TickIsBest
  <2>9. ASSUME UNCHANGED current  PROVE BestIsRunning
    BY <2>9 DEF BestIsRunning
  <2>10. ASSUME NEW s, SemaUp(s) \/ DeviceInterrupt(s) \/ SemaTryDown(s)
         PROVE  BestIsRunning
    BY <2>9, <2>10 DEF SemaUp, DeviceInterrupt, SemaTryDown, sema_up, sched
  <2>11. ASSUME NEW p, ThreadSetPriority(p) \/ TimerSleepStart(p)
         PROVE  BestIsRunning
    BY <2>9, <2>11 DEF ThreadSetPriority, TimerSleepStart, sched
  <2>12. CASE StorePriority \/ AllocateTid \/ UnblockChild \/ PreemptCheck
              \/ TimerInterrupt \/ WakeSleeper
    BY <2>9, <2>12 DEF StorePriority, AllocateTid, UnblockChild, PreemptCheck,
       TimerInterrupt, WakeSleeper, sema_up, sched
  <2> QED
    BY <2>1, <2>2, <2>3, <2>4, <2>5, <2>6, <2>7, <2>8, <2>10, <2>11, <2>12
       DEF Next, Call, Continue, Interrupt
<1>2. ASSUME BestIsRunning \/ UNCHANGED vars
      PROVE  [current' # current =>
                IF current' = idle_thread
                  THEN ready_list' = <<>>
                  ELSE \A t \in Members(ready_list') :
                         priority'[t] <= priority'[current']]_vars
  BY <1>2 DEF BestIsRunning
<1> QED
  BY <1>1, <1>2, Invariant, PTL DEF Spec, SwitchToHighest

-----------------------------------------------------------------------------
(***************************************************************************)
(* The alarm clock.                                                        *)
(***************************************************************************)

\* The step formulas of NoEarlyWakeup and NoOversleep.
Punctual ==
  /\ \A t \in Threads : OnSleepList(t) /\ ~OnSleepList(t)' => left[t] = 0
  /\ context = "timer" /\ context' = "thread" =>
       \A t \in Members(sleep_list') : left'[t] > 0

\* What a step does to the sleep list.
LEMMA PunctualStep == IInv /\ [Next]_vars => Punctual \/ UNCHANGED vars
<1> SUFFICES ASSUME IInv, [Next]_vars PROVE Punctual \/ UNCHANGED vars
  OBVIOUS
<1>1. ASSUME UNCHANGED sleep_list, ~(context = "timer" /\ context' = "thread")
      PROVE  Punctual
  BY <1>1 DEF Punctual, OnSleepList
<1>2. ASSUME UNCHANGED sleep_list, context = "thread"
      PROVE  Punctual
  BY <1>2 DEF Punctual, OnSleepList
<1>3. CASE ThreadYield \/ ThreadExit \/ IdleLoop \/ SemaDownResume \/ AllocateTid
           \/ UnblockChild \/ PreemptCheck \/ StorePriority
  BY <1>2, <1>3 DEF ThreadYield, ThreadExit, IdleLoop, SemaDownResume, AllocateTid,
     UnblockChild, PreemptCheck, StorePriority, Running, sleep
<1>4. ASSUME NEW x, ThreadSetPriority(x) \/ TimerSleepStart(x) \/ SemaDown(x)
                      \/ SemaTryDown(x) \/ SemaUp(x)
      PROVE  Punctual
  BY <1>2, <1>4 DEF ThreadSetPriority, TimerSleepStart, SemaDown, SemaTryDown, SemaUp,
     Running, sleep
<1>5. ASSUME NEW t, NEW p, ThreadCreate(t, p)  PROVE Punctual
  BY <1>2, <1>5 DEF ThreadCreate, Running, sleep
<1>6. ASSUME NEW s, DeviceInterrupt(s)  PROVE Punctual
  BY <1>2, <1>6 DEF DeviceInterrupt, IntrOn, sleep
<1>7. CASE TimerInterrupt
  BY <1>2, <1>7 DEF TimerInterrupt, IntrOn, sleep
<1>8. CASE TimerSleepBlock
  <2>1. \A t \in Threads : OnSleepList(t) => OnSleepList(t)'
    <3>1. sleep_list \in Seq(Threads) /\ current \in Threads
      BY <1>8, RunningThread DEF TimerSleepBlock, IInv, TypeOK
    <3> QED
      BY <1>8, <3>1, AppendMembers DEF TimerSleepBlock, OnSleepList
  <2> QED
    BY <1>8, <2>1 DEF TimerSleepBlock, Running, Punctual
<1>9. CASE WakeSleeper
  <2> DEFINE i == Min(Expired)
  <2>1. sleep_list \in Seq(Threads) /\ sleep_list' = RemoveAt(sleep_list, i)
    BY <1>9 DEF WakeSleeper, IInv, TypeOK
  <2>2. i \in Expired
    <3>1. Expired \in SUBSET Nat /\ Expired # {}
      BY <1>9, <2>1 DEF WakeSleeper, Expired
    <3> QED
      BY <3>1, NatMin
  <2> HIDE DEF i
  <2>3. i \in 1..Len(sleep_list) /\ left[sleep_list[i]] = 0
    BY <2>2 DEF Expired
  <2>4. Members(sleep_list) \subseteq Members(sleep_list') \cup {sleep_list[i]}
    BY <2>1, <2>3, RemoveMembers
  <2> QED
    BY <1>9, <2>3, <2>4 DEF Punctual, OnSleepList, WakeSleeper
<1>10. CASE ThreadTick
  <2>1. /\ UNCHANGED <<sleep_list, left>> /\ Expired = {}
        /\ left \in [AllThreads -> Nat] /\ sleep_list \in Seq(Threads)
    BY <1>10 DEF ThreadTick, sleep, IInv, TypeOK
  <2>2. ASSUME NEW k \in 1..Len(sleep_list)  PROVE left[sleep_list[k]] > 0
    <3>1. left[sleep_list[k]] # 0
      BY <2>1 DEF Expired
    <3>2. left[sleep_list[k]] \in Nat
      BY <2>1 DEF AllThreads
    <3> QED
      BY <3>1, <3>2
  <2> QED
    BY <2>1, <2>2 DEF Punctual, OnSleepList, Members
<1> QED
  BY <1>3, <1>4, <1>5, <1>6, <1>7, <1>8, <1>9, <1>10
     DEF Next, Call, Continue, Interrupt

\* A sleeper is woken only when the ticks it asked for have passed.
THEOREM NeverEarly == Spec => NoEarlyWakeup
<1>1. ASSUME Punctual \/ UNCHANGED vars
      PROVE  [\A t \in Threads : OnSleepList(t) /\ ~OnSleepList(t)' => left[t] = 0]_vars
  BY <1>1 DEF Punctual
<1> QED
  BY <1>1, PunctualStep, Invariant, PTL DEF Spec, NoEarlyWakeup

\* The timer interrupt in which a sleeper's time has come wakes it.
THEOREM NeverLate == Spec => NoOversleep
<1>1. ASSUME Punctual \/ UNCHANGED vars
      PROVE  [context = "timer" /\ context' = "thread" =>
                \A t \in Members(sleep_list') : left'[t] > 0]_vars
  BY <1>1 DEF Punctual
<1> QED
  BY <1>1, PunctualStep, Invariant, PTL DEF Spec, NoOversleep

\* timer_sleep() is neither too short nor too long.
THEOREM SleepersAreOnTime == Spec => SleepersWakeOnTime
BY NeverEarly, NeverLate DEF SleepersWakeOnTime
=============================================================================
