---------------------------- MODULE LocksProofs ----------------------------
(***************************************************************************)
(* A lock and its condition variables are a monitor, for any number of     *)
(* threads and conditions.                                                 *)
(***************************************************************************)
EXTENDS LocksProps, SequenceTheorems, TLAPS

-----------------------------------------------------------------------------
(* What the list operations do to the members of a list of waiters. *)

\* The members of a list of threads are threads.
LEMMA MembersType ==
  ASSUME NEW T, NEW list \in Seq(T)
  PROVE  Members(list) \subseteq T
BY DEF Members

\* list_push_back() of a thread that is on no list.
LEMMA AppendMembers ==
  ASSUME NEW T, NEW list \in Seq(T), NEW elem \in T
  PROVE  LET r == Append(list, elem)
         IN  /\ r \in Seq(T)
             /\ Members(r) = Members(list) \cup {elem}
             /\ NoDuplicates(list) /\ elem \notin Members(list)
                  => NoDuplicates(r)
<1> DEFINE r == Append(list, elem)
           n == Len(list)
<1>1. /\ n \in Nat /\ r \in Seq(T) /\ Len(r) = n + 1
      /\ \A i \in 1..(n + 1) : r[i] = IF i = n + 1 THEN elem ELSE list[i]
  OBVIOUS
<1> HIDE DEF r
<1>2. Members(r) = Members(list) \cup {elem}
  <2>1. r[n + 1] = elem /\ n + 1 \in 1..(n + 1)
    BY <1>1
  <2> QED
    BY <1>1, <2>1 DEF Members
<1>3. NoDuplicates(list) /\ elem \notin Members(list) => NoDuplicates(r)
  BY <1>1 DEF NoDuplicates, Members
<1> QED
  BY <1>1, <1>2, <1>3 DEF r

\* list_pop_front() of a list that is not empty.
LEMMA PopMembers ==
  ASSUME NEW T, NEW list \in Seq(T), list # <<>>
  PROVE  /\ Head(list) \in Members(list)
         /\ Tail(list) \in Seq(T)
         /\ NoDuplicates(list) =>
              /\ NoDuplicates(Tail(list))
              /\ Members(Tail(list)) = Members(list) \ {Head(list)}
<1> DEFINE r == Tail(list)
           n == Len(list)
<1>1. /\ n \in Nat /\ n >= 1 /\ r \in Seq(T) /\ Len(r) = n - 1
      /\ \A i \in 1..(n - 1) : r[i] = list[i + 1]
      /\ Head(list) = list[1]
  OBVIOUS
<1> HIDE DEF r
<1>2. list[1] \in Members(list)
  BY <1>1 DEF Members
<1>3. ASSUME NoDuplicates(list)
      PROVE  NoDuplicates(r) /\ Members(r) = Members(list) \ {list[1]}
  <2>1. \A i \in 1..(n - 1) : i + 1 \in 1..n /\ i + 1 # 1
    BY <1>1
  <2>2. NoDuplicates(r)
    BY <1>1, <1>3, <2>1 DEF NoDuplicates
  <2>3. Members(r) \subseteq Members(list) \ {list[1]}
    BY <1>1, <1>3, <2>1 DEF NoDuplicates, Members
  <2>4. \A i \in 1..n : i # 1 => i - 1 \in 1..(n - 1) /\ list[i] = r[i - 1]
    BY <1>1
  <2>5. Members(list) \ {list[1]} \subseteq Members(r)
    BY <1>1, <2>4 DEF Members
  <2> QED
    BY <2>2, <2>3, <2>5
<1> QED
  BY <1>1, <1>2, <1>3 DEF r

-----------------------------------------------------------------------------
\* The unit of the lock's semaphore is where no thread owns the lock, and at
\* most one thread does.
OneOwner ==
  /\ \A t, u \in Threads : pc[t] \in Owning /\ pc[u] \in Owning => t = u
  /\ value = 1 <=> \A t \in Threads : pc[t] \notin Owning

\* What the locals of a thread hold at each place.
LocalsRight ==
  \A t \in Threads :
    /\ popped[t] # NoThread <=> pc[t] = "signal"
    /\ pc[t] \in {"wait", "down", "broadcast"} => cond[t] \in Conds
    /\ pc[t] \in {"out", "acquire", "got", "in"} => cond[t] = NoCond

Control == TypeOK /\ OneOwner /\ HolderIsRight /\ LocalsRight

\* The inductive invariant.
IInv == Control /\ SignalsAccounted

\* Every thread is outside, and no list has anybody.
LEMMA InitIInv == Init => IInv
<1> SUFFICES ASSUME Init PROVE IInv
  OBVIOUS
<1> USE LocksAssumption
<1>1. TypeOK
  BY DEF Init, TypeOK, PC
<1>2. OneOwner /\ HolderIsRight /\ LocalsRight
  BY DEF Init, OneOwner, HolderIsRight, LocalsRight, Owning, Holding
<1>3. \A t \in Threads : Queued(t) = {} /\ Signalers(t) = {} /\ ~ InWait(t)
  BY DEF Init, Queued, Signalers, InWait, Members
<1>4. SignalsAccounted
  BY <1>3 DEF Init, SignalsAccounted, Accounted, NoDuplicates
<1> QED
  BY <1>1, <1>2, <1>4 DEF IInv, Control

-----------------------------------------------------------------------------
(***************************************************************************)
(* A step that leaves the lists, the entries' semaphores and the popped    *)
(* entries alone keeps the signals accounted for, when it moves no thread  *)
(* into a wait, or out of one.                                             *)
(***************************************************************************)
LEMMA QuietStep ==
  ASSUME SignalsAccounted,
         waiters' = waiters, waiter' = waiter, popped' = popped,
         \A t \in Threads : /\ InWait(t)' <=> InWait(t)
                            /\ InWait(t) => cond'[t] = cond[t]
                            /\ pc[t] = "down" => pc'[t] = "down"
  PROVE  SignalsAccounted'
<1>1. \A t \in Threads : Queued(t)' = Queued(t) /\ Signalers(t)' = Signalers(t)
  BY DEF Queued, Signalers
<1>2. \A t \in Threads : Accounted(t)'
  BY <1>1 DEF SignalsAccounted, Accounted
<1> QED
  BY <1>2 DEF SignalsAccounted

\* No entry in a list, and none popped, belongs to a thread that is not in
\* cond_wait(); and one that was popped has let the lock go.
LEMMA OnlyWaitersQueue ==
  ASSUME IInv, NEW t \in Threads
  PROVE  /\ ~ InWait(t) => /\ Queued(t) = {} /\ Signalers(t) = {}
                           /\ waiter[t] = 0
         /\ Signalers(t) # {} \/ waiter[t] = 1 =>
              InWait(t) /\ pc[t] = "down" /\ Queued(t) = {}
BY DEF IInv, SignalsAccounted, Accounted

-----------------------------------------------------------------------------
(***************************************************************************)
(* One lemma per action.                                                   *)
(***************************************************************************)

\* Only the pc changes, between two places without the lock.
LEMMA LockAcquireStep ==
  ASSUME IInv, NEW t \in Threads, LockAcquire(t)
  PROVE  IInv'
<1>1. Control'
  BY LocksAssumption DEF IInv, Control, TypeOK, PC, OneOwner, HolderIsRight,
     LocalsRight, LockAcquire, Goto, Owning, Holding
<1>2. SignalsAccounted'
  BY QuietStep DEF IInv, Control, TypeOK, LockAcquire, Goto, InWait
<1> QED
  BY <1>1, <1>2 DEF IInv

\* The thread takes the unit, so that nobody else owned the lock.
LEMMA AcquireDownStep ==
  ASSUME IInv, NEW t \in Threads, AcquireDown(t) \/ LockTryAcquire(t)
  PROVE  IInv'
<1>1. /\ value = 1 /\ value' = 0 /\ pc[t] \in {"out", "acquire"}
      /\ pc' = [pc EXCEPT ![t] = "got"]
      /\ UNCHANGED <<holder, waiters, waiter, popped, cond>>
  BY DEF IInv, Control, TypeOK, AcquireDown, LockTryAcquire, Goto
<1>2. /\ pc'[t] = "got"
      /\ \A u \in Threads \ {t} : pc'[u] = pc[u] /\ pc'[u] \notin Owning
  BY <1>1 DEF IInv, Control, TypeOK, OneOwner
<1>3. Control'
  <2>1. TypeOK'
    BY <1>1 DEF IInv, Control, TypeOK, PC
  <2>2. OneOwner'
    BY <1>1, <1>2 DEF OneOwner, Owning
  <2>3. HolderIsRight'
    BY <1>1, <1>2 DEF IInv, Control, HolderIsRight, Holding
  <2>4. LocalsRight'
    BY <1>1, <1>2, LocksAssumption DEF IInv, Control, LocalsRight
  <2> QED
    BY <2>1, <2>2, <2>3, <2>4 DEF Control
<1>4. \A u \in Threads : /\ InWait(u)' <=> InWait(u)
                         /\ pc[u] = "down" => pc'[u] = "down"
  BY <1>1, <1>2 DEF InWait
<1>5. SignalsAccounted'
  BY <1>1, <1>4, QuietStep DEF IInv
<1> QED
  BY <1>3, <1>5 DEF IInv

\* The only owner stores itself.
LEMMA SetHolderStep ==
  ASSUME IInv, NEW t \in Threads, SetHolder(t)
  PROVE  IInv'
<1>1. Control'
  BY LocksAssumption DEF IInv, Control, TypeOK, PC, OneOwner, HolderIsRight,
     LocalsRight, SetHolder, Goto, Owning, Holding
<1>2. SignalsAccounted'
  BY QuietStep DEF IInv, Control, TypeOK, SetHolder, Goto, InWait
<1> QED
  BY <1>1, <1>2 DEF IInv

\* The only owner clears the holder; a caller in cond_wait() stays in it.
LEMMA LockReleaseStep ==
  ASSUME IInv, NEW t \in Threads, LockRelease(t)
  PROVE  IInv'
<1>1. Control'
  BY LocksAssumption DEF IInv, Control, TypeOK, PC, OneOwner, HolderIsRight,
     LocalsRight, LockRelease, Goto, Owning, Holding
<1>2. \A u \in Threads : /\ InWait(u)' <=> InWait(u)
                         /\ pc[u] = "down" => pc'[u] = "down"
  BY DEF IInv, Control, TypeOK, LocalsRight, LockRelease, Goto, InWait
<1>3. SignalsAccounted'
  BY <1>2, QuietStep DEF IInv, LockRelease
<1> QED
  BY <1>1, <1>3 DEF IInv

\* The only owner gives the unit back.
LEMMA ReleaseUpStep ==
  ASSUME IInv, NEW t \in Threads, ReleaseUp(t)
  PROVE  IInv'
<1>1. Control'
  BY LocksAssumption DEF IInv, Control, TypeOK, PC, OneOwner, HolderIsRight,
     LocalsRight, ReleaseUp, Goto, Owning, Holding
<1>2. \A u \in Threads : /\ InWait(u)' <=> InWait(u)
                         /\ pc[u] = "down" => pc'[u] = "down"
  BY DEF IInv, Control, TypeOK, LocalsRight, ReleaseUp, Goto, InWait
<1>3. SignalsAccounted'
  BY <1>2, QuietStep DEF IInv, ReleaseUp
<1> QED
  BY <1>1, <1>3 DEF IInv

\* A thread with the lock joins the list; it was in none.
LEMMA CondWaitStep ==
  ASSUME IInv, NEW t \in Threads, NEW c \in Conds, CondWait(t, c)
  PROVE  IInv'
<1>1. /\ Append(waiters[c], t) \in Seq(Threads)
      /\ Members(Append(waiters[c], t)) = Members(waiters[c]) \cup {t}
      /\ NoDuplicates(waiters[c]) /\ t \notin Members(waiters[c])
           => NoDuplicates(Append(waiters[c], t))
  BY AppendMembers DEF IInv, Control, TypeOK
<1>2. ~ InWait(t)
  BY DEF CondWait, InWait
<1>3. /\ Queued(t) = {} /\ Signalers(t) = {} /\ waiter[t] = 0
  BY <1>2, OnlyWaitersQueue
<1>4. /\ waiters'[c] = Append(waiters[c], t)
      /\ \A d \in Conds \ {c} : waiters'[d] = waiters[d]
      /\ \A u \in Threads : waiter'[u] = waiter[u]
      /\ popped' = popped
  BY <1>3 DEF IInv, Control, TypeOK, CondWait
<1>5. Control'
  <2>1. TypeOK'
    <3>1. waiters' \in [Conds -> Seq(Threads)]
      BY <1>1 DEF IInv, Control, TypeOK, CondWait
    <3> QED
      BY <3>1 DEF IInv, Control, TypeOK, CondWait, Goto, PC
  <2>2. OneOwner' /\ HolderIsRight' /\ LocalsRight'
    BY LocksAssumption DEF IInv, Control, TypeOK, OneOwner, HolderIsRight,
       LocalsRight, CondWait, Goto, Owning, Holding
  <2> QED
    BY <2>1, <2>2 DEF Control
<1>6. /\ Queued(t)' = {c}
      /\ \A u \in Threads \ {t} : Queued(u)' = Queued(u)
      /\ \A u \in Threads : Signalers(u)' = Signalers(u)
  BY <1>1, <1>3, <1>4 DEF Queued, Signalers
<1>7. /\ InWait(t)' /\ cond'[t] = c
      /\ \A u \in Threads \ {t} : /\ InWait(u)' <=> InWait(u)
                                  /\ cond'[u] = cond[u] /\ pc'[u] = pc[u]
  BY LocksAssumption DEF IInv, Control, TypeOK, CondWait, Goto, InWait
<1>8. \A u \in Threads : Accounted(u)'
  <2>1. Accounted(t)'
    BY <1>3, <1>4, <1>6, <1>7 DEF Accounted
  <2>2. \A u \in Threads \ {t} : Accounted(u)'
    BY <1>4, <1>6, <1>7 DEF IInv, SignalsAccounted, Accounted
  <2> QED
    BY <2>1, <2>2
<1>9. \A d \in Conds : NoDuplicates(waiters'[d])
  BY <1>1, <1>3, <1>4 DEF Queued, IInv, SignalsAccounted
<1> QED
  BY <1>5, <1>8, <1>9 DEF IInv, SignalsAccounted

\* The unit of the waiter's semaphore was its only entry anywhere.
LEMMA WaitDownStep ==
  ASSUME IInv, NEW t \in Threads, WaitDown(t)
  PROVE  IInv'
<1>1. Control'
  BY LocksAssumption DEF IInv, Control, TypeOK, PC, OneOwner, HolderIsRight,
     LocalsRight, WaitDown, Goto, Owning, Holding
<1>2. InWait(t) /\ waiter[t] = 1 /\ Queued(t) = {} /\ Signalers(t) = {}
  <2>1. InWait(t) /\ waiter[t] = 1
    BY LocksAssumption
    DEF IInv, Control, TypeOK, LocalsRight, WaitDown, InWait
  <2> QED
    BY <2>1 DEF IInv, SignalsAccounted, Accounted
<1>3. \A u \in Threads : Queued(u)' = Queued(u) /\ Signalers(u)' = Signalers(u)
  BY DEF WaitDown, Queued, Signalers
<1>4. ~ InWait(t)' /\ waiter'[t] = 0
  BY <1>2 DEF IInv, Control, TypeOK, WaitDown, Goto, InWait
<1>5. \A u \in Threads \ {t} : /\ InWait(u)' <=> InWait(u)
                               /\ cond'[u] = cond[u] /\ pc'[u] = pc[u]
                               /\ waiter'[u] = waiter[u]
  BY DEF IInv, Control, TypeOK, WaitDown, Goto, InWait
<1>6. \A u \in Threads : Accounted(u)'
  <2>1. Accounted(t)'
    BY <1>2, <1>3, <1>4 DEF Accounted
  <2>2. \A u \in Threads \ {t} : Accounted(u)'
    BY <1>3, <1>5 DEF IInv, SignalsAccounted, Accounted
  <2> QED
    BY <2>1, <2>2
<1> QED
  BY <1>1, <1>6 DEF IInv, SignalsAccounted, WaitDown

\* The owner pops the first waiter, who has let the lock go.
LEMMA PopStep ==
  ASSUME IInv, NEW t \in Threads, NEW c \in Conds,
         pc[t] \in {"in", "broadcast"}, waiters[c] # <<>>, pop_front(t, c),
         UNCHANGED <<holder, value, waiter, cond>>
  PROVE  /\ IInv'
         /\ popped'[t] \in Members(waiters[c])
         /\ pc[popped'[t]] = "down"
         /\ Members(waiters'[c]) = Members(waiters[c]) \ {popped'[t]}
<1>1. PICK u \in Threads :
      /\ u = Head(waiters[c]) /\ u \in Members(waiters[c])
      /\ Tail(waiters[c]) \in Seq(Threads)
      /\ NoDuplicates(Tail(waiters[c]))
      /\ Members(Tail(waiters[c])) = Members(waiters[c]) \ {u}
  <2>1. waiters[c] \in Seq(Threads) /\ NoDuplicates(waiters[c])
    BY DEF IInv, Control, TypeOK, SignalsAccounted
  <2>2. Members(waiters[c]) \subseteq Threads
    BY <2>1, MembersType
  <2> QED
    BY <2>1, <2>2, PopMembers
<1>2. /\ waiters'[c] = Tail(waiters[c])
      /\ \A d \in Conds \ {c} : waiters'[d] = waiters[d]
      /\ popped'[t] = u
      /\ \A v \in Threads \ {t} : popped'[v] = popped[v]
      /\ pc'[t] = "signal"
      /\ \A v \in Threads \ {t} : pc'[v] = pc[v]
      /\ waiter' = waiter /\ cond' = cond
  BY <1>1 DEF IInv, Control, TypeOK, pop_front, Goto
<1>3. popped[t] = NoThread
  BY DEF IInv, Control, LocalsRight
<1>4. /\ Queued(u) = {c} /\ Signalers(u) = {} /\ waiter[u] = 0
      /\ InWait(u) /\ u # t
  <2>1. c \in Queued(u)
    BY <1>1 DEF Queued
  <2>2. InWait(u)
    BY <1>1, <2>1, OnlyWaitersQueue
  <2>3. Accounted(u)
    BY <1>1 DEF IInv, SignalsAccounted
  <2>4. u # t
    BY <2>2 DEF InWait
  <2> QED
    BY <2>1, <2>2, <2>3, <2>4 DEF Accounted
<1>5. pc[u] = "down"
  BY <1>1, <1>4 DEF IInv, Control, OneOwner, Owning, InWait
<1>6. Control'
  <2>1. TypeOK'
    <3>1. waiters' \in [Conds -> Seq(Threads)]
      BY <1>1 DEF IInv, Control, TypeOK, pop_front
    <3>2. popped' \in [Threads -> Threads \cup {NoThread}]
      BY <1>1 DEF IInv, Control, TypeOK, pop_front
    <3> QED
      BY <3>1, <3>2 DEF IInv, Control, TypeOK, pop_front, Goto, PC
  <2>2. OneOwner' /\ HolderIsRight'
    BY <1>2 DEF IInv, Control, OneOwner, HolderIsRight, Owning, Holding
  <2>3. LocalsRight'
    BY <1>1, <1>2, LocksAssumption DEF IInv, Control, LocalsRight
  <2> QED
    BY <2>1, <2>2, <2>3 DEF Control
<1>7. /\ Queued(u)' = {}
      /\ \A v \in Threads \ {u} : Queued(v)' = Queued(v)
  <2>1. \A d \in Conds, v \in Threads \ {u} :
          v \in Members(waiters'[d]) <=> v \in Members(waiters[d])
    BY <1>1, <1>2
  <2>2. \A d \in Conds : u \notin Members(waiters'[d])
    <3>1. \A d \in Conds \ {c} : u \notin Members(waiters[d])
      BY <1>4 DEF Queued
    <3> QED
      BY <1>1, <1>2, <3>1
  <2>3. Queued(u)' = {}
    BY <2>2 DEF Queued
  <2>4. \A v \in Threads \ {u} : Queued(v)' = Queued(v)
    BY <2>1 DEF Queued
  <2> QED
    BY <2>3, <2>4
<1>8. /\ Signalers(u)' = {t}
      /\ \A v \in Threads \ {u} : Signalers(v)' = Signalers(v)
  <2>1. \A w \in Threads : popped[w] # u
    BY <1>4 DEF Signalers
  <2>2. \A v \in Threads : popped[t] # v
    BY <1>3, LocksAssumption
  <2>3. \A w \in Threads : popped'[w] = u <=> w = t
    BY <1>2, <2>1
  <2>4. \A v \in Threads \ {u}, w \in Threads : popped'[w] = v <=> popped[w] = v
    BY <1>2, <2>2
  <2>5. Signalers(u)' = {t}
    BY <2>3 DEF Signalers
  <2>6. \A v \in Threads \ {u} : Signalers(v)' = Signalers(v)
    BY <2>4 DEF Signalers
  <2> QED
    BY <2>5, <2>6
<1>9. \A v \in Threads : InWait(v)' <=> InWait(v)
  BY <1>2 DEF InWait
<1>10. \A v \in Threads : Accounted(v)'
  <2>1. Accounted(u)'
    <3>1. InWait(u)' /\ pc'[u] = "down" /\ waiter'[u] = 0
      BY <1>1, <1>2, <1>4, <1>5, <1>9
    <3>2. \E w \in Threads : Signalers(u)' = {w}
      BY <1>8
    <3> QED
      BY <1>7, <3>1, <3>2 DEF Accounted
  <2>2. ~ InWait(t)
    BY DEF InWait
  <2>3. \A v \in Threads \ {u} : Accounted(v)'
    BY <1>2, <1>7, <1>8, <1>9, <2>2 DEF IInv, SignalsAccounted, Accounted
  <2> QED
    BY <2>1, <2>3
<1>11. \A d \in Conds : NoDuplicates(waiters'[d])
  BY <1>1, <1>2 DEF IInv, SignalsAccounted
<1> QED
  BY <1>1, <1>2, <1>5, <1>6, <1>10, <1>11 DEF IInv, SignalsAccounted

\* The popped thread gets its unit.
LEMMA SignalUpStep ==
  ASSUME IInv, NEW t \in Threads, SignalUp(t)
  PROVE  IInv'
<1>1. PICK u \in Threads : popped[t] = u
  BY LocksAssumption DEF IInv, Control, TypeOK, LocalsRight, SignalUp
<1>2. t \in Signalers(u)
  BY <1>1 DEF Signalers
<1>3. InWait(u) /\ pc[u] = "down" /\ Queued(u) = {} /\ waiter[u] = 0
      /\ Signalers(u) = {t} /\ u # t
  <2>1. InWait(u) /\ pc[u] = "down" /\ Queued(u) = {}
    BY <1>2, OnlyWaitersQueue
  <2>2. Accounted(u)
    BY DEF IInv, SignalsAccounted
  <2>3. waiter[u] = 0 /\ Signalers(u) = {t}
    BY <1>2, <2>1, <2>2 DEF Accounted
  <2> QED
    BY <2>1, <2>3 DEF SignalUp
<1>4. /\ waiter'[u] = 1
      /\ \A v \in Threads \ {u} : waiter'[v] = waiter[v]
      /\ popped'[t] = NoThread
      /\ \A v \in Threads \ {t} : popped'[v] = popped[v] /\ pc'[v] = pc[v]
      /\ pc'[t] = IF cond[t] = NoCond THEN "in" ELSE "broadcast"
      /\ waiters' = waiters /\ cond' = cond
  BY <1>1, <1>3 DEF IInv, Control, TypeOK, SignalUp, Goto
<1>5. Control'
  <2>1. TypeOK'
    BY <1>1, <1>3 DEF IInv, Control, TypeOK, SignalUp, Goto, PC
  <2>2. OneOwner' /\ HolderIsRight'
    BY <1>4 DEF IInv, Control, OneOwner, HolderIsRight, Owning, Holding, SignalUp
  <2>3. LocalsRight'
    BY <1>4, LocksAssumption DEF IInv, Control, TypeOK, LocalsRight, SignalUp
  <2> QED
    BY <2>1, <2>2, <2>3 DEF Control
<1>6. \A v \in Threads : Queued(v)' = Queued(v)
  BY <1>4 DEF Queued
<1>7. /\ Signalers(u)' = {}
      /\ \A v \in Threads \ {u} : Signalers(v)' = Signalers(v)
  BY <1>1, <1>3, <1>4, LocksAssumption DEF Signalers
<1>8. \A v \in Threads : InWait(v)' <=> InWait(v)
  BY <1>4 DEF InWait, SignalUp
<1>9. \A v \in Threads : Accounted(v)'
  <2>1. Accounted(u)'
    BY <1>3, <1>4, <1>6, <1>7, <1>8 DEF Accounted
  <2>2. ~ InWait(t)
    BY DEF InWait, SignalUp
  <2>3. \A v \in Threads \ {u} : Accounted(v)'
    BY <1>4, <1>6, <1>7, <1>8, <2>2 DEF IInv, SignalsAccounted, Accounted
  <2> QED
    BY <2>1, <2>3
<1> QED
  BY <1>4, <1>5, <1>9 DEF IInv, SignalsAccounted

\* The local of cond_broadcast() is set, or forgotten.
LEMMA BroadcastStep ==
  ASSUME IInv, NEW t \in Threads,
         BroadcastDone(t) \/ \E c \in Conds : CondBroadcast(t, c)
  PROVE  IInv'
<1>1. /\ UNCHANGED <<holder, value, waiters, waiter, popped>>
      /\ \A u \in Threads \ {t} : cond'[u] = cond[u] /\ pc'[u] = pc[u]
      /\ pc[t] \in {"in", "broadcast"}
      /\ \/ pc'[t] = "in" /\ cond'[t] = NoCond
         \/ pc'[t] = "broadcast" /\ cond'[t] \in Conds
  BY DEF IInv, Control, TypeOK, BroadcastDone, CondBroadcast, Goto
<1>2. Control'
  <2>1. TypeOK'
    BY DEF IInv, Control, TypeOK, BroadcastDone, CondBroadcast, Goto, PC
  <2>2. OneOwner' /\ HolderIsRight'
    BY <1>1 DEF IInv, Control, OneOwner, HolderIsRight, Owning, Holding
  <2>3. LocalsRight'
    BY <1>1 DEF IInv, Control, LocalsRight
  <2> QED
    BY <2>1, <2>2, <2>3 DEF Control
<1>3. \A u \in Threads : /\ InWait(u)' <=> InWait(u)
                         /\ InWait(u) => cond'[u] = cond[u]
                         /\ pc[u] = "down" => pc'[u] = "down"
  BY <1>1 DEF InWait
<1>4. SignalsAccounted'
  BY <1>1, <1>3, QuietStep DEF IInv
<1> QED
  BY <1>2, <1>4 DEF IInv

\* Every step preserves the invariant.
LEMMA NextIInv == IInv /\ [Next]_vars => IInv'
<1> SUFFICES ASSUME IInv, [Next]_vars PROVE IInv'
  OBVIOUS
<1>1. CASE UNCHANGED vars
  BY <1>1 DEF vars, IInv, Control, TypeOK, OneOwner, HolderIsRight, LocalsRight,
     SignalsAccounted, Accounted, InWait, Queued, Signalers
<1>2. ASSUME NEW t \in Threads, Step(t)
      PROVE  IInv'
  <2>1. CASE AcquireDown(t)
    BY <2>1, AcquireDownStep
  <2>2. CASE SetHolder(t)
    BY <2>2, SetHolderStep
  <2>3. CASE ReleaseUp(t)
    BY <2>3, ReleaseUpStep
  <2>4. CASE WaitDown(t)
    BY <2>4, WaitDownStep
  <2>5. CASE SignalUp(t)
    BY <2>5, SignalUpStep
  <2>6. CASE BroadcastNext(t)
    <3>1. cond[t] \in Conds
      BY <2>6 DEF IInv, Control, LocalsRight, BroadcastNext
    <3> QED
      BY <2>6, <3>1, PopStep DEF BroadcastNext
  <2>7. CASE BroadcastDone(t)
    BY <2>7, BroadcastStep
  <2>8. CASE LockRelease(t)
    BY <2>8, LockReleaseStep
  <2> QED
    BY <1>2, <2>1, <2>2, <2>3, <2>4, <2>5, <2>6, <2>7, <2>8 DEF Step
<1>3. ASSUME NEW t \in Threads, Call(t)
      PROVE  IInv'
  <2>1. CASE LockAcquire(t)
    BY <2>1, LockAcquireStep
  <2>2. CASE LockTryAcquire(t)
    BY <2>2, AcquireDownStep
  <2>3. CASE LockRelease(t)
    BY <2>3, LockReleaseStep
  <2>4. ASSUME NEW c \in Conds, CondWait(t, c)
        PROVE  IInv'
    BY <2>4, CondWaitStep
  <2>5. ASSUME NEW c \in Conds, CondSignal(t, c)
        PROVE  IInv'
    BY <2>5, PopStep DEF CondSignal
  <2>6. ASSUME NEW c \in Conds, CondBroadcast(t, c)
        PROVE  IInv'
    BY <2>6, BroadcastStep
  <2> QED
    BY <1>3, <2>1, <2>2, <2>3, <2>4, <2>5, <2>6 DEF Call
<1> QED
  BY <1>1, <1>2, <1>3 DEF Next

\* The inductive invariant holds.
THEOREM Invariant == Spec => []IInv
BY InitIInv, NextIInv, PTL DEF Spec

\* The type invariant: the lock's semaphore is binary, and so is that of
\* every waiter.
THEOREM TypeCorrect == Spec => []TypeOK
<1>1. IInv => TypeOK
  BY DEF IInv, Control
<1> QED
  BY <1>1, Invariant, PTL

\* The assertions on the holder never fail.
THEOREM AssertionsHold == Spec => []HolderIsRight
<1>1. IInv => HolderIsRight
  BY DEF IInv, Control
<1> QED
  BY <1>1, Invariant, PTL

\* No signal is lost, and no thread is woken twice.
THEOREM SignalsAreKept == Spec => []SignalsAccounted
<1>1. IInv => SignalsAccounted
  BY DEF IInv
<1> QED
  BY <1>1, Invariant, PTL

\* The lock, its holder and the lists of its waiters are right at every step.
THEOREM LockStaysRight == Spec => []LockRight
BY TypeCorrect, AssertionsHold, SignalsAreKept, PTL DEF LockRight

-----------------------------------------------------------------------------
(***************************************************************************)
(* The refinement of module Monitor.                                       *)
(***************************************************************************)

\* The waiting sets change where the places or the lists of their threads do.
LEMMA ReleasedSame ==
  ASSUME \A u \in Threads : /\ pc'[u] = "down" <=> pc[u] = "down"
                            /\ pc[u] = "down" => Queued(u)' = Queued(u)
  PROVE  released' = released
<1>1. \A c \in Conds : Released(c)' = Released(c)
  BY DEF Released
<1> QED
  BY <1>1 DEF released

\* A thread that takes the lock's unit enters.
LEMMA AcquireEnters ==
  ASSUME IInv, NEW t \in Threads, AcquireDown(t) \/ LockTryAcquire(t)
  PROVE  M!Enter(t)
<1>1. /\ value = 1 /\ pc[t] \in {"out", "acquire"}
      /\ pc' = [pc EXCEPT ![t] = "got"]
      /\ waiters' = waiters
  BY DEF IInv, Control, TypeOK, AcquireDown, LockTryAcquire, Goto
<1>2. /\ pc'[t] = "got"
      /\ \A u \in Threads \ {t} : pc'[u] = pc[u]
      /\ \A u \in Threads : pc[u] \notin Owning
  BY <1>1 DEF IInv, Control, TypeOK, OneOwner
<1>3. owners = {} /\ owners' = {t}
  BY <1>2 DEF owners, Owning
<1>4. released' = released
  <2>1. \A u \in Threads : Queued(u)' = Queued(u)
    BY <1>1 DEF Queued
  <2> QED
    BY <1>1, <1>2, <2>1, ReleasedSame
<1>5. \A c \in Conds : t \notin released[c]
  BY <1>1 DEF released, Released
<1> QED
  BY <1>3, <1>4, <1>5 DEF M!Enter

\* The sema_up() of lock_release() leaves; inside cond_wait() it also starts
\* to wait, for the condition whose list the caller has joined before.
LEMMA ReleaseLeaves ==
  ASSUME IInv, NEW t \in Threads, ReleaseUp(t)
  PROVE  M!Leave(t) \/ \E c \in Conds : M!Wait(t, c)
<1>1. /\ pc[t] = "up" /\ waiters' = waiters
      /\ pc'[t] = IF cond[t] = NoCond THEN "out" ELSE "down"
      /\ \A u \in Threads \ {t} : pc'[u] = pc[u]
  BY DEF IInv, Control, TypeOK, ReleaseUp, Goto
<1>2. t \in owners /\ owners' = owners \ {t}
  BY <1>1 DEF owners, Owning
<1>3. \A u \in Threads : Queued(u)' = Queued(u)
  BY <1>1 DEF Queued
<1>4. CASE cond[t] = NoCond
  <2>1. released' = released
    BY <1>1, <1>3, <1>4, ReleasedSame
  <2> QED
    BY <1>2, <2>1 DEF M!Leave
<1>5. CASE cond[t] # NoCond
  <2>1. PICK c \in Conds : cond[t] = c
    BY <1>5 DEF IInv, Control, TypeOK
  <2>2. InWait(t)
    BY <1>1, <1>5 DEF InWait
  <2>3. Queued(t) = {c}
    BY <1>1, <2>1, <2>2 DEF IInv, SignalsAccounted, Accounted
  <2>4. \A d \in Conds \ {c} : Released(d)' = Released(d)
    BY <1>1, <1>3, <2>3 DEF Released
  <2>5. Released(c)' = Released(c) \cup {t}
    <3>1. pc'[t] = "down"
      BY <1>1, <1>5
    <3> QED
      BY <1>1, <1>3, <2>3, <3>1 DEF Released
  <2>6. released' = [released EXCEPT ![c] = @ \cup {t}]
    BY <2>4, <2>5 DEF released
  <2> QED
    BY <1>2, <2>6 DEF M!Wait
<1> QED
  BY <1>4, <1>5

\* The pop of cond_signal() signals: the popped thread waits there.
LEMMA PopSignals ==
  ASSUME IInv, NEW t \in Threads, NEW c \in Conds,
         pc[t] \in {"in", "broadcast"}, waiters[c] # <<>>, pop_front(t, c),
         UNCHANGED <<holder, value, waiter, cond>>
  PROVE  M!Signal(t, c)
<1>1. PICK u : u = popped'[t]
  OBVIOUS
<1>2. /\ u \in Members(waiters[c]) /\ pc[u] = "down"
      /\ Members(waiters'[c]) = Members(waiters[c]) \ {u}
  BY <1>1, PopStep
<1>3. u \in Threads /\ Members(waiters[c]) \subseteq Threads
  BY <1>2, MembersType DEF IInv, Control, TypeOK
<1>4. /\ \A d \in Conds \ {c} : waiters'[d] = waiters[d]
      /\ pc'[t] = "signal"
      /\ \A v \in Threads \ {t} : pc'[v] = pc[v]
  BY DEF IInv, Control, TypeOK, pop_front, Goto
<1>5. owners' = owners /\ t \in owners
  BY <1>4 DEF owners, Owning
<1>6. \A v \in Threads, d \in Conds :
        d \in Queued(v)' <=> d \in Queued(v) /\ ~ (d = c /\ v = u)
  <2>1. \A v \in Threads, d \in Conds :
          v \in Members(waiters'[d]) <=>
            v \in Members(waiters[d]) /\ ~ (d = c /\ v = u)
    BY <1>2, <1>4
  <2> QED
    BY <2>1 DEF Queued
<1>7. \A v \in Threads : pc'[v] = "down" <=> pc[v] = "down"
  BY <1>4
<1>8. u \in Released(c)
  BY <1>2, <1>3 DEF Released, Queued
<1>9. Released(c)' = Released(c) \ {u}
  BY <1>6, <1>7 DEF Released
<1>10. \A d \in Conds \ {c} : Released(d)' = Released(d)
  BY <1>6, <1>7 DEF Released
<1>11. released' = [released EXCEPT ![c] = @ \ {u}]
  BY <1>9, <1>10 DEF released
<1>12. u \in released[c]
  BY <1>8 DEF released
<1> QED
  BY <1>5, <1>11, <1>12 DEF M!Signal

\* The other steps move a thread between two places on one side of the lock,
\* and no waiting set changes: cond_wait() joins the list before it waits
\* there, and a thread that has been signaled is in no list.
LEMMA OthersStutter ==
  ASSUME IInv, NEW t \in Threads,
         \/ LockAcquire(t) \/ SetHolder(t) \/ LockRelease(t) \/ WaitDown(t)
         \/ SignalUp(t) \/ BroadcastDone(t)
         \/ \E c \in Conds : CondWait(t, c) \/ CondBroadcast(t, c)
  PROVE  UNCHANGED <<owners, released>>
<1>1. /\ pc[t] \in Owning <=> pc'[t] \in Owning
      /\ \A u \in Threads \ {t} : pc'[u] = pc[u]
      /\ pc'[t] # "down"
  BY DEF IInv, Control, TypeOK, LockAcquire, SetHolder, LockRelease, WaitDown,
     SignalUp, BroadcastDone, CondWait, CondBroadcast, Goto, Owning
<1>2. owners' = owners
  BY <1>1 DEF owners
<1>3. CASE WaitDown(t)
  <2>1. Queued(t) = {}
    <3>1. waiter[t] = 1
      BY <1>3 DEF IInv, Control, TypeOK, WaitDown
    <3> QED
      BY <3>1, OnlyWaitersQueue
  <2>2. \A u \in Threads : Queued(u)' = Queued(u)
    BY <1>3 DEF WaitDown, Queued
  <2>3. \A c \in Conds : Released(c)' = Released(c)
    BY <1>1, <2>1, <2>2 DEF Released
  <2> QED
    BY <1>2, <2>3 DEF released
<1>4. ASSUME NEW c \in Conds, CondWait(t, c)
      PROVE  released' = released
  <2>1. Members(Append(waiters[c], t)) = Members(waiters[c]) \cup {t}
    BY AppendMembers DEF IInv, Control, TypeOK
  <2>2. /\ waiters'[c] = Append(waiters[c], t)
        /\ \A d \in Conds \ {c} : waiters'[d] = waiters[d]
    BY <1>4 DEF IInv, Control, TypeOK, CondWait
  <2>3. pc[t] # "down"
    BY <1>4 DEF CondWait
  <2>4. \A u \in Threads \ {t} : Queued(u)' = Queued(u)
    <3>1. \A u \in Threads \ {t}, d \in Conds :
            u \in Members(waiters'[d]) <=> u \in Members(waiters[d])
      BY <2>1, <2>2
    <3> QED
      BY <3>1 DEF Queued
  <2> QED
    BY <1>1, <2>3, <2>4, ReleasedSame
<1>5. ASSUME \/ LockAcquire(t) \/ SetHolder(t) \/ LockRelease(t)
             \/ SignalUp(t) \/ BroadcastDone(t)
             \/ \E c \in Conds : CondBroadcast(t, c)
      PROVE  released' = released
  <2>1. waiters' = waiters /\ pc[t] # "down"
    BY <1>5 DEF LockAcquire, SetHolder, LockRelease, SignalUp, BroadcastDone,
       CondBroadcast
  <2>2. \A u \in Threads : Queued(u)' = Queued(u)
    BY <2>1 DEF Queued
  <2> QED
    BY <1>1, <2>1, <2>2, ReleasedSame
<1> QED
  BY <1>2, <1>3, <1>4, <1>5

\* Initially nobody is inside and nobody waits; every step maps to a step of
\* the monitor or to a stutter.
LEMMA MonitorInit == Init => M!MInit
<1> SUFFICES ASSUME Init PROVE M!MInit
  OBVIOUS
<1>1. owners = {}
  BY DEF Init, owners, Owning
<1>2. \A c \in Conds : Released(c) = {}
  BY DEF Init, Released
<1> QED
  BY <1>1, <1>2 DEF M!MInit, released

\* The same for every step.
LEMMA MonitorStep == IInv /\ [Next]_vars => [M!MNext]_(M!mvars)
<1> SUFFICES ASSUME IInv, [Next]_vars
             PROVE  M!MNext \/ UNCHANGED <<owners, released>>
  BY DEF M!mvars
<1>1. CASE UNCHANGED vars
  BY <1>1 DEF vars, owners, released, Released, Queued
<1>2. ASSUME NEW t \in Threads, Step(t) \/ Call(t)
      PROVE  M!MNext \/ UNCHANGED <<owners, released>>
  <2>1. CASE AcquireDown(t) \/ LockTryAcquire(t)
    BY <2>1, AcquireEnters DEF M!MNext
  <2>2. CASE ReleaseUp(t)
    BY <2>2, ReleaseLeaves DEF M!MNext
  <2>3. ASSUME NEW c \in Conds, CondSignal(t, c)
        PROVE  M!MNext
    BY <2>3, PopSignals DEF CondSignal, M!MNext
  <2>4. CASE BroadcastNext(t)
    <3>1. cond[t] \in Conds
      BY <2>4 DEF IInv, Control, LocalsRight, BroadcastNext
    <3> QED
      BY <2>4, <3>1, PopSignals DEF BroadcastNext, M!MNext
  <2>5. CASE \/ LockAcquire(t) \/ SetHolder(t) \/ LockRelease(t) \/ WaitDown(t)
             \/ SignalUp(t) \/ BroadcastDone(t)
             \/ \E c \in Conds : CondWait(t, c) \/ CondBroadcast(t, c)
    BY <2>5, OthersStutter
  <2> QED
    BY <1>2, <2>1, <2>2, <2>3, <2>4, <2>5 DEF Step, Call
<1> QED
  BY <1>1, <1>2 DEF Next

\* A lock and its conditions implement the monitor of the comments: mutual
\* exclusion, and a release and wait that is atomic to whoever signals.
THEOREM LocksImplementMonitor == Spec => MonitorSpec
<1>1. Spec => []IInv
  BY Invariant
<1> QED
  BY <1>1, MonitorInit, MonitorStep, PTL DEF Spec, MonitorSpec, M!MSpec
=============================================================================
