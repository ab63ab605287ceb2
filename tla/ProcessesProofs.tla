-------------------------- MODULE ProcessesProofs --------------------------
(***************************************************************************)
(* The pointers between parents and children never dangle, and the exit    *)
(* handshake gives every status away once, for any number of processes.    *)
(***************************************************************************)
EXTENDS ProcessesProps, FiniteSetTheorems, SequenceTheorems, TLAPS

-----------------------------------------------------------------------------
(* What the list operations do to the members of a list of children. *)

\* The members of a list of threads are threads.
LEMMA MembersType ==
  ASSUME NEW T, NEW list \in Seq(T)
  PROVE  Members(list) \subseteq T
BY DEF Members

\* list_push_back() of a thread that is on no list.
LEMMA AppendMembers ==
  ASSUME NEW T, NEW list \in Seq(T), NEW elem \in T
  PROVE  LET r == Append(list, elem)
         IN  /\ r \in Seq(T)
             /\ Members(r) = Members(list) \cup {elem}
             /\ NoDuplicates(list) /\ elem \notin Members(list)
                  => NoDuplicates(r)
<1> DEFINE r == Append(list, elem)
           n == Len(list)
<1>1. /\ n \in Nat /\ r \in Seq(T) /\ Len(r) = n + 1
      /\ \A i \in 1..(n + 1) : r[i] = IF i = n + 1 THEN elem ELSE list[i]
  OBVIOUS
<1> HIDE DEF r
<1>2. Members(r) = Members(list) \cup {elem}
  <2>1. r[n + 1] = elem /\ n + 1 \in 1..(n + 1)
    BY <1>1
  <2> QED
    BY <1>1, <2>1 DEF Members
<1>3. NoDuplicates(list) /\ elem \notin Members(list) => NoDuplicates(r)
  BY <1>1 DEF NoDuplicates, Members
<1> QED
  BY <1>1, <1>2, <1>3 DEF r

\* Unlinking the k-th thread of a list leaves the others, in their order.
LEMMA RemovePlace ==
  ASSUME NEW T, NEW list \in Seq(T), NEW k \in 1..Len(list)
  PROVE  LET r == RemoveAt(list, k)
         IN  /\ r \in Seq(T)
             /\ Len(r) = Len(list) - 1
             /\ \A i \in 1..(Len(list) - 1) :
                  r[i] = IF i < k THEN list[i] ELSE list[i+1]
<1> DEFINE r == RemoveAt(list, k)
           front == SubSeq(list, 1, k-1)
           back  == SubSeq(list, k+1, Len(list))
<1>1. Len(list) \in Nat
  OBVIOUS
<1>2. front \in Seq(T) /\ Len(front) = k-1 /\ \A i \in 1..(k-1) : front[i] = list[i]
  BY <1>1
<1>3. /\ back \in Seq(T) /\ Len(back) = Len(list) - k
      /\ \A i \in 1..(Len(list) - k) : back[i] = list[k + i]
  BY <1>1
<1>4. r = front \o back
  BY DEF RemoveAt
<1> HIDE DEF r, front, back
<1>5. r \in Seq(T) /\ Len(r) = Len(list) - 1
  <2>1. r \in Seq(T) /\ Len(r) = Len(front) + Len(back)
    BY <1>2, <1>3, <1>4, ConcatProperties
  <2> QED
    BY <1>1, <1>2, <1>3, <2>1
<1>6. ASSUME NEW i \in 1..(Len(list) - 1)
      PROVE  r[i] = IF i < k THEN list[i] ELSE list[i+1]
  <2>1. r[i] = IF i <= Len(front) THEN front[i] ELSE back[i - Len(front)]
    BY <1>1, <1>2, <1>3, <1>4
  <2>2. CASE i < k
    BY <1>1, <1>2, <2>1, <2>2
  <2>3. CASE ~ (i < k)
    <3>1. i - (k-1) \in 1..(Len(list) - k) /\ k + (i - (k-1)) = i + 1
      BY <1>1, <2>3
    <3> QED
      BY <1>1, <1>2, <1>3, <2>1, <2>3, <3>1
  <2> QED
    BY <2>2, <2>3
<1> QED
  BY <1>5, <1>6 DEF r

\* Unlinking a thread from a list it is on once takes it, and only it, off.
LEMMA RemoveMembers ==
  ASSUME NEW T, NEW list \in Seq(T), NEW k \in 1..Len(list)
  PROVE  LET r == RemoveAt(list, k)
         IN  /\ r \in Seq(T)
             /\ Members(r) \subseteq Members(list)
             /\ Members(list) \subseteq Members(r) \cup {list[k]}
             /\ NoDuplicates(list) =>
                  NoDuplicates(r) /\ Members(r) = Members(list) \ {list[k]}
<1> DEFINE r == RemoveAt(list, k)
           n == Len(list)
<1>1. /\ r \in Seq(T) /\ Len(r) = n - 1
      /\ \A i \in 1..(n - 1) : r[i] = IF i < k THEN list[i] ELSE list[i+1]
  BY RemovePlace
<1>2. n \in Nat /\ k \in 1..n
  OBVIOUS
<1> HIDE DEF r
<1>3. Members(r) \subseteq Members(list)
  BY <1>1, <1>2 DEF Members
<1>4. ASSUME NEW i \in 1..n, i # k  PROVE list[i] \in Members(r)
  <2>1. CASE i < k
    <3>1. i \in 1..(n - 1) /\ r[i] = list[i]
      BY <1>1, <1>2, <2>1
    <3> QED
      BY <1>1, <3>1 DEF Members
  <2>2. CASE i > k
    <3>1. i - 1 \in 1..(n - 1) /\ r[i-1] = list[i]
      BY <1>1, <1>2, <2>2
    <3> QED
      BY <1>1, <3>1 DEF Members
  <2> QED
    BY <1>2, <1>4, <2>1, <2>2
<1>5. Members(list) \subseteq Members(r) \cup {list[k]}
  BY <1>4 DEF Members
<1>6. ASSUME NoDuplicates(list)
      PROVE  NoDuplicates(r) /\ Members(r) = Members(list) \ {list[k]}
  <2>1. \A x, y \in 1..n : list[x] = list[y] => x = y
    BY <1>6 DEF NoDuplicates
  <2>2. \A i \in 1..(n - 1) : r[i] # list[k]
    BY <1>1, <1>2, <2>1
  <2>3. NoDuplicates(r)
    BY <1>1, <1>2, <2>1 DEF NoDuplicates
  <2> QED
    BY <1>1, <1>3, <1>5, <2>2, <2>3 DEF Members
<1> QED
  BY <1>1, <1>3, <1>5, <1>6 DEF r

-----------------------------------------------------------------------------
\* The initial thread has no parent that could let it go.
RootStays == Live(root) /\ mem_lock[root] = 0

\* The inductive invariant: the pages on a live list are live because of the
\* token that the exit handshake withholds from them.
IInv == TypeOK /\ NoDanglingChild /\ OneParent /\ ExitHandshake /\ RootStays

\* Only the initial thread, with no child.
LEMMA InitIInv == Init => IInv
<1> SUFFICES ASSUME Init PROVE IInv
  OBVIOUS
<1> USE ProcessesAssumption
<1>1. TypeOK
  BY DEF Init, TypeOK, PC, Fates, FDs, NoFiles
<1>2. \A p \in Procs : Members(child_list[p]) = {}
  BY DEF Init, Members
<1>3. \A c \in Procs : Reapers(c) = {}
  BY DEF Init, Reapers
<1>4. NoDanglingChild /\ OneParent
  BY <1>2 DEF Init, NoDanglingChild, OneParent, Children, InExec, InWait,
              NoDuplicates
<1>5. ExitHandshake
  BY <1>3 DEF Init, ExitHandshake, NoToken, Live
<1>6. RootStays
  BY DEF Init, RootStays, Live
<1> QED
  BY <1>1, <1>4, <1>5, <1>6 DEF IInv

\* The pages on a child list are pages that can hold a process, never root's.
LEMMA ChildrenAreProcs ==
  ASSUME TypeOK, NEW q \in Procs
  PROVE  Children(q) \subseteq Procs \ {root}
BY MembersType DEF Children, TypeOK

\* The places that are not on the way of the token.
Neutral == PC \ {"free", "dead", "reap", "execreap"}

\* A step that takes a process from one such place to another, and changes no
\* list, preserves the invariant.
LEMMA MoveStep ==
  ASSUME IInv, NEW p \in Procs, NEW l \in Neutral,
         pc[p] \in Neutral,
         pc' = [pc EXCEPT ![p] = l],
         child_list' = child_list, child_lock' = child_lock,
         mem_lock' = mem_lock,
         \A q \in Procs \ {p} : child_thread'[q] = child_thread[q],
         l \in InExec \cup InWait => child_thread'[p] \in Children(p)
  PROVE  NoDanglingChild' /\ OneParent' /\ ExitHandshake' /\ RootStays'
<1>1. /\ pc \in [Procs -> PC] /\ pc'[p] = l
      /\ \A q \in Procs \ {p} : pc'[q] = pc[q]
  BY DEF IInv, TypeOK
<1>2. \A q \in Procs : /\ Live(q)' <=> Live(q)
                       /\ pc'[q] = "dead" <=> pc[q] = "dead"
                       /\ Children(q)' = Children(q)
  BY <1>1 DEF Live, Neutral, Children
<1>3. \A c \in Procs : Reapers(c)' = Reapers(c)
  BY <1>1 DEF Reapers, Neutral
<1>4. NoDanglingChild'
  <2>1. \A q \in Procs : Children(q) \subseteq Procs
    BY ChildrenAreProcs DEF IInv
  <2>2. \A q \in Procs : Live(q)' => \A c \in Children(q)' : Live(c)'
    BY <1>2, <2>1 DEF IInv, NoDanglingChild
  <2>3. \A q \in Procs : pc'[q] \in InExec \cup InWait =>
                           child_thread'[q] \in Children(q)'
    BY <1>1, <1>2 DEF IInv, NoDanglingChild, InExec, InWait
  <2> QED
    BY <2>2, <2>3 DEF NoDanglingChild, InExec, InWait
<1>5. OneParent'
  BY <1>2 DEF IInv, OneParent
<1>6. ExitHandshake'
  BY <1>2, <1>3 DEF IInv, ExitHandshake, NoToken, Collected
<1>7. RootStays'
  BY <1>2, ProcessesAssumption DEF IInv, RootStays
<1> QED
  BY <1>4, <1>5, <1>6, <1>7

-----------------------------------------------------------------------------
(***************************************************************************)
(* One lemma per action.                                                   *)
(***************************************************************************)

\* exec() of a program: the new page was free, so no live process has it on its
\* list, and no token of its last use is left.
LEMMA ExecStep ==
  ASSUME IInv, NEW p \in Procs, NEW c \in Procs, Exec(p, c)
  PROVE  IInv'
<1>1. /\ pc[p] = "run" /\ pc[c] = "free" /\ c # root /\ p # c
      /\ pc \in [Procs -> PC]
  <2>1. pc[p] = "run" /\ pc[c] = "free"
    BY DEF Exec, MayExec
  <2> QED
    BY <2>1 DEF IInv, RootStays, Live, TypeOK
<1>2. /\ pc'[p] = "exec" /\ pc'[c] = "load"
      /\ \A q \in Procs \ {p, c} : pc'[q] = pc[q]
      /\ \A q \in Procs \ {p} : child_thread'[q] = child_thread[q]
      /\ child_thread'[p] = c
  BY <1>1 DEF Exec, IInv, TypeOK
<1>3. /\ child_list[p] \in Seq(Procs \ {root})
      /\ child_list'[p] = Append(child_list[p], c)
      /\ child_list'[c] = <<>>
      /\ \A q \in Procs \ {p, c} : child_list'[q] = child_list[q]
  BY <1>1 DEF Exec, IInv, TypeOK
<1>4. \A q \in Procs : Live(q) => c \notin Children(q)
  BY <1>1 DEF IInv, NoDanglingChild, Live
<1>5. /\ Children(p)' = Children(p) \cup {c}
      /\ NoDuplicates(child_list'[p])
      /\ child_list'[p] \in Seq(Procs \ {root})
      /\ Children(c)' = {}
      /\ \A q \in Procs \ {p, c} : Children(q)' = Children(q)
  <2>1. NoDuplicates(child_list[p]) /\ c \notin Members(child_list[p])
    BY <1>1, <1>4 DEF IInv, OneParent, Live, Children
  <2>2. c \in Procs \ {root}
    BY <1>1
  <2>3. /\ Members(child_list'[p]) = Members(child_list[p]) \cup {c}
        /\ NoDuplicates(child_list'[p])
        /\ child_list'[p] \in Seq(Procs \ {root})
    BY <1>3, <2>1, <2>2, AppendMembers
  <2>4. Members(<<>>) = {}
    BY DEF Members
  <2> QED
    <3>1. Members(child_list'[c]) = {}
      BY <1>3, <2>4
    <3> QED
      BY <1>3, <2>3, <3>1 DEF Children, Members
<1>6. \A q \in Procs : Live(q)' <=> Live(q) \/ q = c
  BY <1>1, <1>2 DEF Live
<1>7. TypeOK'
  <2>1. child_list' \in [Procs -> Seq(Procs \ {root})]
    <3>1. Append(child_list[p], c) \in Seq(Procs \ {root})
      BY <1>3, <1>5
    <3>2. <<>> \in Seq(Procs \ {root})
      OBVIOUS
    <3>3. /\ child_list \in [Procs -> Seq(Procs \ {root})]
          /\ child_list' = [child_list EXCEPT ![p] = Append(@, c), ![c] = <<>>]
      BY DEF Exec, IInv, TypeOK
    <3> QED
      BY <3>1, <3>2, <3>3
  <2>2. pc' \in [Procs -> PC]
    BY <1>1 DEF Exec, PC
  <2>3. fd' \in [Procs -> [FDs -> Procs \cup {NoFile}]]
    BY DEF Exec, IInv, TypeOK, NoFiles
  <2>4. child_thread' \in [Procs -> Procs \cup {NoProc}] /\ copying' \in [Procs -> FDs]
    BY DEF Exec, IInv, TypeOK
  <2>5. exit_status' \in [Procs -> Statuses \cup {0, -1}]
    BY DEF Exec, IInv, TypeOK
  <2>6. /\ file_lock' \in [Procs -> Nat] /\ child_lock' \in [Procs -> Nat]
        /\ mem_lock' \in [Procs -> Nat]
    BY DEF Exec, IInv, TypeOK
  <2>7. fate' \in [Procs -> Fates]
    BY DEF Exec, IInv, TypeOK, Fates
  <2> QED
    BY <2>1, <2>2, <2>3, <2>4, <2>5, <2>6, <2>7 DEF TypeOK
<1>8. NoDanglingChild'
  <2>1. \A q \in Procs : Live(q)' => \A d \in Children(q)' : Live(d)'
    <3>1. \A q \in Procs : Children(q) \subseteq Procs
      BY ChildrenAreProcs DEF IInv
    <3> QED
      BY <1>1, <1>5, <1>6, <3>1 DEF IInv, NoDanglingChild, Live
  <2>2. \A q \in Procs : pc'[q] \in InExec \cup InWait =>
                           child_thread'[q] \in Children(q)'
    BY <1>1, <1>2, <1>5 DEF IInv, NoDanglingChild, InExec, InWait
  <2> QED
    BY <2>1, <2>2 DEF NoDanglingChild, InExec, InWait
<1>9. OneParent'
  <2>1. \A q \in Procs : Live(q)' => NoDuplicates(child_list'[q])
    <3>1. NoDuplicates(child_list'[c])
      BY <1>3 DEF NoDuplicates
    <3> QED
      BY <1>3, <1>5, <1>6, <3>1 DEF IInv, OneParent
  <2>2. ASSUME NEW q \in Procs, NEW r \in Procs, q # r, Live(q)', Live(r)'
        PROVE  Children(q)' \cap Children(r)' = {}
    BY <1>1, <1>4, <1>5, <1>6, <2>2 DEF IInv, OneParent, Live
  <2> QED
    BY <2>1, <2>2 DEF OneParent
<1>10. ExitHandshake'
  <2>1. \A d \in Procs : Live(d) => Reapers(d)' = Reapers(d)
    BY <1>1, <1>2 DEF Reapers
  <2>2. Reapers(c)' = {}
    <3>1. \A q \in Procs : pc[q] \in {"reap", "execreap"} => child_thread[q] # c
      BY <1>4 DEF IInv, NoDanglingChild, InExec, InWait, Live
    <3> QED
      BY <1>1, <1>2, <3>1 DEF Reapers
  <2>3. \A d \in Procs : Live(d) => child_lock'[d] = child_lock[d] /\ mem_lock'[d] = mem_lock[d]
    BY <1>1 DEF Exec, IInv, TypeOK, Live
  <2>4. child_lock'[c] = 0 /\ mem_lock'[c] = 0
    BY DEF Exec, IInv, TypeOK
  <2>5. \A d \in Procs : Live(d) /\ d # c /\ Collected(d) => Collected(d)'
    BY <1>1, <1>5, <1>6 DEF Collected, Live
  <2>6. \A d \in Procs : Live(d) => (pc'[d] = "dead" <=> pc[d] = "dead")
    BY <1>1, <1>2 DEF Live
  <2>7. pc'[c] # "dead" /\ ~ Live(c)
    BY <1>1, <1>2 DEF Live
  <2> QED
    BY <1>6, <2>1, <2>2, <2>3, <2>4, <2>5, <2>6, <2>7
       DEF IInv, ExitHandshake, NoToken
<1>11. RootStays'
  BY <1>1, <1>6, ProcessesAssumption DEF Exec, IInv, TypeOK, RootStays
<1> QED
  BY <1>7, <1>8, <1>9, <1>10, <1>11 DEF IInv

\* process_exit(): the token appears in child_lock.
LEMMA ProcessExitStep ==
  ASSUME IInv, NEW p \in Procs, ProcessExit(p)
  PROVE  IInv'
<1>1. /\ pc[p] = "exit" /\ pc'[p] = "dead"
      /\ \A q \in Procs \ {p} : pc'[q] = pc[q]
      /\ child_list' = child_list /\ child_thread' = child_thread
      /\ mem_lock' = mem_lock
      /\ child_lock'[p] = child_lock[p] + 1
      /\ \A q \in Procs \ {p} : child_lock'[q] = child_lock[q]
  BY DEF ProcessExit, Goto, IInv, TypeOK
<1>2. \A q \in Procs : /\ Live(q)' <=> Live(q)
                       /\ Children(q)' = Children(q)
                       /\ Reapers(q)' = Reapers(q)
  BY <1>1 DEF Live, Children, Reapers
<1>3. TypeOK'
  BY DEF ProcessExit, Goto, IInv, TypeOK, PC, NoFiles
<1>4. NoDanglingChild'
  <2>1. \A q \in Procs : Children(q) \subseteq Procs
    BY ChildrenAreProcs DEF IInv
  <2> QED
    BY <1>1, <1>2, <2>1 DEF IInv, NoDanglingChild, InExec, InWait
<1>5. OneParent'
  BY <1>1, <1>2 DEF IInv, OneParent
<1>6. ExitHandshake'
  <2>1. ~ (pc[p] = "dead") /\ Live(p)
    BY <1>1 DEF Live
  <2>2. child_lock[p] = 0 /\ mem_lock[p] = 0 /\ Reapers(p) = {}
    BY <2>1 DEF IInv, ExitHandshake, NoToken
  <2>3. \A c \in Procs : Collected(c)' <=> Collected(c)
    BY <1>2 DEF Collected
  <2>4. child_lock'[p] = 1
    BY <1>1, <2>2
  <2> QED
    BY <1>1, <1>2, <2>2, <2>3, <2>4 DEF IInv, ExitHandshake, NoToken
<1>7. RootStays'
  BY <1>1, <1>2, ProcessesAssumption DEF IInv, RootStays
<1> QED
  BY <1>3, <1>4, <1>5, <1>6, <1>7 DEF IInv

\* The end of thread_exit(): the token in mem_lock says that no list has the
\* page any more.
LEMMA DieStep ==
  ASSUME IInv, NEW p \in Procs, Die(p)
  PROVE  IInv'
<1>1. /\ pc[p] = "dead" /\ mem_lock[p] > 0 /\ pc'[p] = "free" /\ p # root
      /\ \A q \in Procs \ {p} : /\ pc'[q] = pc[q]
                                /\ child_list'[q] = child_list[q]
                                /\ child_thread'[q] = child_thread[q]
                                /\ mem_lock'[q] = mem_lock[q]
      /\ child_lock' = child_lock
  BY DEF Die, Goto, IInv, TypeOK, RootStays
<1>2. Collected(p) /\ Live(p)
  <2>1. Live(p)
    BY <1>1 DEF Live
  <2> QED
    BY <1>1, <2>1 DEF IInv, ExitHandshake
<1>3. /\ \A q \in Procs \ {p} : /\ Live(q)' <=> Live(q)
                                /\ Children(q)' = Children(q)
      /\ ~ Live(p)'
  BY <1>1 DEF Live, Children
<1>4. \A c \in Procs : Reapers(c)' = Reapers(c)
  BY <1>1 DEF Reapers
<1>5. TypeOK'
  <2>1. mem_lock' \in [Procs -> Nat]
    BY <1>1 DEF Die, IInv, TypeOK
  <2> QED
    BY <2>1 DEF Die, Goto, IInv, TypeOK, PC
<1>6. NoDanglingChild'
  <2>1. \A q \in Procs : Children(q) \subseteq Procs
    BY ChildrenAreProcs DEF IInv
  <2>2. \A q \in Procs : Live(q)' => \A c \in Children(q)' : Live(c)'
    BY <1>2, <1>3, <2>1 DEF IInv, NoDanglingChild, Collected
  <2>3. \A q \in Procs : pc'[q] \in InExec \cup InWait =>
                           child_thread'[q] \in Children(q)'
    BY <1>1, <1>3 DEF IInv, NoDanglingChild, InExec, InWait
  <2> QED
    BY <2>2, <2>3 DEF NoDanglingChild, InExec, InWait
<1>7. OneParent'
  BY <1>1, <1>3 DEF IInv, OneParent
<1>8. ExitHandshake'
  <2>1. \A c \in Procs : Collected(c) => Collected(c)'
    BY <1>3 DEF Collected
  <2> QED
    BY <1>1, <1>3, <1>4, <2>1 DEF IInv, ExitHandshake, NoToken
<1>9. RootStays'
  BY <1>1, <1>3, ProcessesAssumption DEF IInv, RootStays
<1> QED
  BY <1>5, <1>6, <1>7, <1>8, <1>9 DEF IInv

\* sema_down(child_lock) returns: the parent has the token.
LEMMA ChildExitedStep ==
  ASSUME IInv, NEW p \in Procs, ChildExited(p)
  PROVE  IInv'
<1> DEFINE c == child_thread[p]
<1>1. /\ pc[p] \in {"wait", "execwait"} /\ pc'[p] \in {"reap", "execreap"}
      /\ \A q \in Procs \ {p} : pc'[q] = pc[q]
      /\ child_list' = child_list /\ child_thread' = child_thread
      /\ mem_lock' = mem_lock
  BY DEF ChildExited, Goto, IInv, TypeOK
<1>2. c \in Children(p) /\ c \in Procs /\ Live(c) /\ Live(p)
  <2>1. c \in Children(p) /\ Live(p)
    BY <1>1 DEF IInv, NoDanglingChild, InExec, InWait, Live
  <2> QED
    BY <2>1, ChildrenAreProcs DEF IInv, NoDanglingChild
<1>3. /\ child_lock[c] > 0 /\ child_lock'[c] = child_lock[c] - 1
      /\ \A q \in Procs \ {c} : child_lock'[q] = child_lock[q]
      /\ child_lock' \in [Procs -> Nat]
  BY <1>2 DEF ChildExited, IInv, TypeOK
<1>4. \A q \in Procs : /\ Live(q)' <=> Live(q)
                       /\ Children(q)' = Children(q)
                       /\ pc'[q] = "dead" <=> pc[q] = "dead"
  BY <1>1 DEF Live, Children
<1>5. /\ Reapers(c)' = Reapers(c) \cup {p}
      /\ \A q \in Procs \ {c} : Reapers(q)' = Reapers(q)
  BY <1>1 DEF Reapers
<1>6. TypeOK'
  BY <1>3 DEF ChildExited, Goto, IInv, TypeOK, PC
<1>7. NoDanglingChild'
  <2>1. \A q \in Procs : Children(q) \subseteq Procs
    BY ChildrenAreProcs DEF IInv
  <2> QED
    BY <1>1, <1>2, <1>4, <2>1 DEF IInv, NoDanglingChild, InExec, InWait
<1>8. OneParent'
  BY <1>1, <1>4 DEF IInv, OneParent
<1>9. ExitHandshake'
  <2>1. /\ pc[c] = "dead" /\ child_lock[c] = 1 /\ mem_lock[c] = 0
        /\ Reapers(c) = {}
    BY <1>2, <1>3 DEF IInv, ExitHandshake, NoToken
  <2>2. child_lock'[c] = 0 /\ mem_lock'[c] = 0 /\ Reapers(c)' = {p}
    BY <1>1, <1>3, <1>5, <2>1
  <2>3. \A q \in Procs : Collected(q)' <=> Collected(q)
    BY <1>4 DEF Collected
  <2> QED
    BY <1>1, <1>3, <1>4, <1>5, <2>1, <2>2, <2>3 DEF IInv, ExitHandshake, NoToken
<1>10. RootStays'
  BY <1>1, <1>4, ProcessesAssumption DEF IInv, RootStays
<1> QED
  BY <1>6, <1>7, <1>8, <1>9, <1>10 DEF IInv

\* The parent takes the child off its list and puts the token into mem_lock.
LEMMA ReapStep ==
  ASSUME IInv, NEW p \in Procs, Reap(p)
  PROVE  IInv' /\ pc[child_thread[p]] = "dead"
               /\ Children(p)' = Children(p) \ {child_thread[p]}
<1>0. PICK c : c = child_thread[p]
  OBVIOUS
<1>1. /\ pc[p] \in {"reap", "execreap"} /\ pc'[p] = "run"
      /\ \A q \in Procs \ {p} : /\ pc'[q] = pc[q]
                                /\ child_list'[q] = child_list[q]
                                /\ child_thread'[q] = child_thread[q]
      /\ child_lock' = child_lock
  BY DEF Reap, Return, Goto, IInv, TypeOK
<1>2. c \in Children(p) /\ c \in Procs /\ c # root /\ Live(c) /\ Live(p)
  <2>1. c \in Children(p) /\ Live(p)
    BY <1>0, <1>1 DEF IInv, NoDanglingChild, InExec, InWait, Live
  <2> QED
    BY <2>1, ChildrenAreProcs DEF IInv, NoDanglingChild
<1>3. PICK i \in 1..Len(child_list[p]) :
        child_list[p][i] = c /\ child_list'[p] = RemoveAt(child_list[p], i)
  BY <1>0 DEF Reap, IInv, TypeOK
<1>4. /\ Members(child_list'[p]) = Members(child_list[p]) \ {c}
      /\ NoDuplicates(child_list'[p])
      /\ child_list'[p] \in Seq(Procs \ {root})
  <2>1. NoDuplicates(child_list[p]) /\ child_list[p] \in Seq(Procs \ {root})
    BY <1>2 DEF IInv, OneParent, TypeOK
  <2> QED
    BY <1>3, <2>1, RemoveMembers
<1>5. /\ Children(p)' = Children(p) \ {c}
      /\ \A q \in Procs \ {p} : Children(q)' = Children(q)
  BY <1>1, <1>4 DEF Children
<1>6. \A q \in Procs : /\ Live(q)' <=> Live(q)
                       /\ pc'[q] = "dead" <=> pc[q] = "dead"
  BY <1>1 DEF Live
<1>7. /\ pc[c] = "dead" /\ child_lock[c] = 0 /\ mem_lock[c] = 0
      /\ Reapers(c) = {p}
  <2>1. p \in Reapers(c)
    BY <1>0, <1>1 DEF Reapers
  <2> QED
    BY <1>2, <2>1 DEF IInv, ExitHandshake, NoToken
<1>8. /\ mem_lock'[c] = 1
      /\ \A q \in Procs \ {c} : mem_lock'[q] = mem_lock[q]
      /\ mem_lock' \in [Procs -> Nat]
  BY <1>0, <1>2, <1>7 DEF Reap, IInv, TypeOK
<1>9. /\ Reapers(c)' = {}
      /\ \A q \in Procs \ {c} : Reapers(q)' = Reapers(q)
  <2>1. \A q \in Procs, d \in Procs : q # p => (q \in Reapers(d)' <=> q \in Reapers(d))
    BY <1>1 DEF Reapers
  <2>2. \A d \in Procs : p \notin Reapers(d)'
    BY <1>1 DEF Reapers
  <2>3. \A d \in Procs \ {c} : p \notin Reapers(d)
    BY <1>0 DEF Reapers
  <2>4. \A d \in Procs : Reapers(d) \subseteq Procs /\ Reapers(d)' \subseteq Procs
    BY DEF Reapers
  <2>5. Reapers(c)' = {}
    BY <1>2, <1>7, <2>1, <2>2, <2>4
  <2>6. ASSUME NEW d \in Procs \ {c} PROVE Reapers(d)' = Reapers(d)
    BY <2>1, <2>2, <2>3, <2>4
  <2> QED
    BY <2>5, <2>6
<1>10. TypeOK'
  <2>1. child_list' \in [Procs -> Seq(Procs \ {root})]
    BY <1>4 DEF Reap, IInv, TypeOK
  <2>2. child_thread' \in [Procs -> Procs \cup {NoProc}]
    BY DEF Reap, Return, IInv, TypeOK
  <2> QED
    BY <1>8, <2>1, <2>2 DEF Reap, Return, Goto, IInv, TypeOK, PC
<1>11. NoDanglingChild'
  <2>1. \A q \in Procs : Children(q) \subseteq Procs
    BY ChildrenAreProcs DEF IInv
  <2>2. \A q \in Procs : Live(q)' => \A d \in Children(q)' : Live(d)'
    BY <1>5, <1>6, <2>1 DEF IInv, NoDanglingChild
  <2>3. \A q \in Procs : pc'[q] \in InExec \cup InWait =>
                           child_thread'[q] \in Children(q)'
    BY <1>1, <1>5 DEF IInv, NoDanglingChild, InExec, InWait
  <2> QED
    BY <2>2, <2>3 DEF NoDanglingChild, InExec, InWait
<1>12. OneParent'
  BY <1>1, <1>4, <1>5, <1>6 DEF IInv, OneParent
<1>13. ExitHandshake'
  <2>1. Collected(c)'
    <3>1. \A q \in Procs \ {p} : Live(q) => c \notin Children(q)
      BY <1>2 DEF IInv, OneParent
    <3>2. c \notin Children(p)'
      BY <1>5
    <3> QED
      BY <1>5, <1>6, <3>1, <3>2 DEF Collected
  <2>2. \A q \in Procs : Collected(q) => Collected(q)'
    BY <1>5, <1>6 DEF Collected
  <2>3. pc'[c] = "dead" /\ child_lock'[c] = 0
    BY <1>1, <1>2, <1>6, <1>7
  <2> QED
    BY <1>1, <1>6, <1>8, <1>9, <2>1, <2>2, <2>3 DEF IInv, ExitHandshake, NoToken
<1>14. RootStays'
  BY <1>2, <1>6, <1>8, ProcessesAssumption DEF IInv, RootStays
<1> QED
  BY <1>0, <1>5, <1>7, <1>10, <1>11, <1>12, <1>13, <1>14 DEF IInv

\* The steps of MoveStep, one action after the other.
LEMMA QuietStep ==
  ASSUME IInv, NEW p \in Procs,
         \/ ExecNoPage(p) \/ ExecLoaded(p) \/ CopyFd(p) \/ ExecCheck(p)
         \/ LoadSucceeds(p) \/ LoadFails(p) \/ Kill(p) \/ ExitMinusOne(p)
         \/ \E s \in Statuses : Exit(p, s)
         \/ \E c \in Procs : Wait(p, c)
  PROVE  NoDanglingChild' /\ OneParent' /\ ExitHandshake' /\ RootStays'
<1>1. /\ pc \in [Procs -> PC]
      /\ pc[p] \in InExec \cup InWait => child_thread[p] \in Children(p)
      /\ child_thread \in [Procs -> Procs \cup {NoProc}]
  BY DEF IInv, TypeOK, NoDanglingChild
<1>2. CASE ExecNoPage(p)
  BY <1>1, <1>2, MoveStep DEF ExecNoPage, MayExec, Goto, semas, Neutral, PC, InExec, InWait
<1>3. CASE ExecLoaded(p)
  BY <1>1, <1>3, MoveStep DEF ExecLoaded, Goto, Neutral, PC, InExec, InWait
<1>4. CASE CopyFd(p)
  <2>1. pc' = [pc EXCEPT ![p] = "check"] \/ pc' = [pc EXCEPT ![p] = "copy"]
    BY <1>1, <1>4 DEF CopyFd, Goto
  <2> QED
    BY <1>1, <1>4, <2>1, MoveStep DEF CopyFd, semas, Neutral, PC, InExec, InWait
<1>5. CASE ExecCheck(p)
  <2>1. CASE pc' = [pc EXCEPT ![p] = "execwait"] /\ UNCHANGED child_thread
    BY <1>1, <1>5, <2>1, MoveStep DEF ExecCheck, semas, Neutral, PC, InExec, InWait
  <2>2. CASE Return(p)
    BY <1>1, <1>5, <2>2, MoveStep
       DEF ExecCheck, Return, Goto, semas, Neutral, PC, InExec, InWait
  <2> QED
    BY <1>5, <2>1, <2>2 DEF ExecCheck, Goto
<1>6. CASE LoadSucceeds(p)
  BY <1>1, <1>6, MoveStep DEF LoadSucceeds, Goto, Neutral, PC, InExec, InWait
<1>7. CASE LoadFails(p)
  BY <1>1, <1>7, MoveStep DEF LoadFails, Goto, Neutral, PC, InExec, InWait
<1>8. CASE Kill(p)
  BY <1>1, <1>8, MoveStep DEF Kill, Goto, semas, Neutral, PC, InExec, InWait
<1>9. ASSUME NEW s, NEW e, exit(p, s, e), pc[p] \in {"run", "failed", "fault"}
      PROVE  NoDanglingChild' /\ OneParent' /\ ExitHandshake' /\ RootStays'
  BY <1>1, <1>9, MoveStep DEF exit, Goto, semas, Neutral, PC, InExec, InWait
<1>10. CASE ExitMinusOne(p)
  BY <1>9, <1>10 DEF ExitMinusOne
<1>11. CASE \E s \in Statuses : Exit(p, s)
  BY <1>9, <1>11 DEF Exit
<1>12. ASSUME NEW c \in Procs, Wait(p, c)
       PROVE  NoDanglingChild' /\ OneParent' /\ ExitHandshake' /\ RootStays'
  BY <1>1, <1>12, MoveStep DEF Wait, Goto, semas, Neutral, PC, InExec, InWait
<1> QED
  BY <1>2, <1>3, <1>4, <1>5, <1>6, <1>7, <1>8, <1>10, <1>11, <1>12

\* open() and close() touch a descriptor of the caller.
LEMMA FileStep ==
  ASSUME IInv, NEW p \in Procs, Open(p) \/ \E i \in FDs : Close(p, i)
  PROVE  IInv'
<1>1. UNCHANGED <<pc, child_list, child_thread, copying, exit_status, semas, fate>>
  BY DEF Open, Close
<1>2. fd' \in [Procs -> [FDs -> Procs \cup {NoFile}]]
  <2>1. fd \in [Procs -> [FDs -> Procs \cup {NoFile}]]
    BY DEF IInv, TypeOK
  <2>2. CASE Open(p)
    <3>1. PICK i \in FDs : fd' = [fd EXCEPT ![p][i] = p]
      BY <2>2 DEF Open
    <3> QED
      BY <2>1, <3>1
  <2>3. CASE \E i \in FDs : Close(p, i)
    BY <2>1, <2>3 DEF Close
  <2> QED
    BY <2>2, <2>3
<1>3. TypeOK'
  BY <1>1, <1>2 DEF semas, IInv, TypeOK
<1>4. NoDanglingChild' /\ OneParent' /\ ExitHandshake' /\ RootStays'
  BY <1>1 DEF semas, IInv, NoDanglingChild, OneParent, ExitHandshake, RootStays,
              Live, Children, Reapers, NoToken, Collected, InExec, InWait
<1> QED
  BY <1>3, <1>4 DEF IInv

\* Type correctness of the other steps.
LEMMA QuietType ==
  ASSUME IInv, NEW p \in Procs,
         \/ ExecNoPage(p) \/ ExecLoaded(p) \/ CopyFd(p) \/ ExecCheck(p)
         \/ LoadSucceeds(p) \/ LoadFails(p) \/ Kill(p) \/ ExitMinusOne(p)
         \/ \E s \in Statuses : Exit(p, s)
         \/ \E c \in Procs : Wait(p, c)
  PROVE  TypeOK'
<1>1. /\ TypeOK
      /\ pc[p] \in InExec \cup InWait => child_thread[p] \in Procs
  BY ChildrenAreProcs DEF IInv, NoDanglingChild
<1>2. CASE ExecNoPage(p)
  BY <1>1, <1>2 DEF ExecNoPage, TypeOK, Goto, semas, PC, Fates
<1>3. CASE ExecLoaded(p)
  <2>1. file_lock' \in [Procs -> Nat] /\ copying' \in [Procs -> FDs]
    <3>1. 2 \in FDs
      BY ProcessesAssumption DEF FDs
    <3>2. child_thread[p] \in Procs
      BY <1>1, <1>3 DEF ExecLoaded, InExec
    <3> QED
      BY <1>1, <1>3, <3>1, <3>2 DEF ExecLoaded, TypeOK
  <2> QED
    BY <1>1, <1>3, <2>1 DEF ExecLoaded, TypeOK, Goto, semas, PC, Fates
<1>4. CASE CopyFd(p)
  <2>1. copying' \in [Procs -> FDs] /\ pc' \in [Procs -> PC]
    <3>1. 2 \in FDs /\ \A i \in FDs : i # MAX_FD => i + 1 \in FDs
      BY ProcessesAssumption DEF FDs
    <3>2. copying \in [Procs -> FDs] /\ pc \in [Procs -> PC]
      BY <1>1 DEF TypeOK
    <3>3. CASE copying[p] = MAX_FD
      BY <1>4, <3>1, <3>2, <3>3 DEF CopyFd, Goto, PC
    <3>4. CASE copying[p] # MAX_FD
      <4>1. copying[p] + 1 \in FDs
        BY <3>1, <3>2, <3>4
      <4> QED
        BY <1>4, <3>2, <3>4, <4>1 DEF CopyFd
    <3> QED
      BY <3>3, <3>4
  <2>2. fd' \in [Procs -> [FDs -> Procs \cup {NoFile}]]
    <3>1. child_thread[p] \in Procs /\ copying[p] \in FDs
      BY <1>1, <1>4 DEF CopyFd, InExec, TypeOK
    <3>2. (IF fd[p][copying[p]] # NoFile THEN p ELSE fd[child_thread[p]][copying[p]])
             \in Procs \cup {NoFile}
      BY <1>1, <3>1 DEF TypeOK
    <3> QED
      BY <1>1, <1>4, <3>1, <3>2 DEF CopyFd, TypeOK
  <2> QED
    BY <1>1, <1>4, <2>1, <2>2 DEF CopyFd, TypeOK, Goto, semas, PC, Fates
<1>5. CASE ExecCheck(p)
  BY <1>1, <1>5 DEF ExecCheck, Return, TypeOK, Goto, semas, PC, Fates
<1>6. CASE LoadSucceeds(p)
  <2>1. file_lock' \in [Procs -> Nat]
    BY <1>1, <1>6 DEF LoadSucceeds, TypeOK
  <2> QED
    BY <1>1, <1>6, <2>1 DEF LoadSucceeds, TypeOK, Goto, semas, PC, Fates
<1>7. CASE LoadFails(p)
  <2>1. file_lock' \in [Procs -> Nat]
    <3>1. file_lock' = [file_lock EXCEPT ![p] = @ + 1]
      BY <1>7 DEF LoadFails
    <3>2. file_lock \in [Procs -> Nat]
      BY <1>1 DEF TypeOK
    <3> QED
      BY <3>1, <3>2
  <2> QED
    BY <1>1, <1>7, <2>1 DEF LoadFails, TypeOK, Goto, semas, PC, Fates
<1>8. CASE Kill(p)
  BY <1>1, <1>8 DEF Kill, TypeOK, Goto, semas, PC, Fates
<1>9. ASSUME NEW s \in Statuses \cup {-1}, NEW e \in Fates, exit(p, s, e)
      PROVE  TypeOK'
  BY <1>1, <1>9 DEF exit, TypeOK, Goto, semas, PC, Fates
<1>10. CASE ExitMinusOne(p)
  BY <1>9, <1>10 DEF ExitMinusOne, Fates
<1>11. CASE \E s \in Statuses : Exit(p, s)
  BY <1>9, <1>11 DEF Exit, Fates
<1>12. ASSUME NEW c \in Procs, Wait(p, c) PROVE TypeOK'
  BY <1>1, <1>12 DEF Wait, TypeOK, Goto, semas, PC, Fates
<1> QED
  BY <1>2, <1>3, <1>4, <1>5, <1>6, <1>7, <1>8, <1>10, <1>11, <1>12

\* The invariant is inductive.
LEMMA NextIInv == IInv /\ [Next]_vars => IInv'
<1> SUFFICES ASSUME IInv, [Next]_vars PROVE IInv'
  OBVIOUS
<1>1. CASE UNCHANGED vars
  <2> USE <1>1 DEF vars, semas, Live, Children, Reapers
  <2>1. TypeOK'
    BY DEF IInv, TypeOK
  <2>2. NoDanglingChild'
    BY DEF IInv, NoDanglingChild, InExec, InWait
  <2>3. OneParent' /\ RootStays'
    BY DEF IInv, OneParent, RootStays
  <2>4. ExitHandshake'
    BY DEF IInv, ExitHandshake, NoToken, Collected
  <2> QED
    BY <2>1, <2>2, <2>3, <2>4 DEF IInv
<1>2. ASSUME NEW p \in Procs, Call(p) PROVE IInv'
  <2>1. CASE \E c \in Procs : Exec(p, c)
    BY <2>1, ExecStep
  <2>2. CASE Open(p) \/ \E i \in FDs : Close(p, i)
    BY <2>2, FileStep
  <2>3. CASE \/ ExecNoPage(p) \/ Kill(p) \/ ExitMinusOne(p)
             \/ \E s \in Statuses : Exit(p, s)
             \/ \E c \in Procs : Wait(p, c)
    BY <2>3, QuietStep, QuietType DEF IInv
  <2> QED
    BY <1>2, <2>1, <2>2, <2>3 DEF Call
<1>3. ASSUME NEW p \in Procs, Continue(p) PROVE IInv'
  <2>1. CASE ProcessExit(p) \/ Die(p)
    BY <2>1, ProcessExitStep, DieStep
  <2>2. CASE ChildExited(p) \/ Reap(p)
    BY <2>2, ChildExitedStep, ReapStep
  <2>3. CASE \/ ExecLoaded(p) \/ CopyFd(p) \/ ExecCheck(p)
             \/ LoadSucceeds(p) \/ LoadFails(p) \/ ExitMinusOne(p)
    BY <2>3, QuietStep, QuietType DEF IInv
  <2> QED
    BY <1>3, <2>1, <2>2, <2>3 DEF Continue
<1> QED
  BY <1>1, <1>2, <1>3 DEF Next

\* The inductive invariant holds at all times.
THEOREM Invariant == Spec => []IInv
<1>1. Init => IInv
  BY InitIInv
<1>2. IInv /\ [Next]_vars => IInv'
  BY NextIInv
<1> QED
  BY <1>1, <1>2, PTL DEF Spec

\* Type correctness.
THEOREM TypeCorrect == Spec => []TypeOK
<1>1. IInv => TypeOK
  BY DEF IInv
<1> QED
  BY <1>1, Invariant, PTL

\* No parent ever holds, on its list or across a sema_down(), a child whose page
\* has been freed.
THEOREM ChildrenNeverDangle == Spec => []NoDanglingChild
<1>1. IInv => NoDanglingChild
  BY DEF IInv
<1> QED
  BY <1>1, Invariant, PTL

\* A process has one parent and is on its list once.
THEOREM ParentIsUnique == Spec => []OneParent
<1>1. IInv => OneParent
  BY DEF IInv
<1> QED
  BY <1>1, Invariant, PTL

\* The family of processes is right at every step of exec, wait and exit.
THEOREM FamilyStaysRight == Spec => []FamilyRight
BY TypeCorrect, ChildrenNeverDangle, ParentIsUnique, PTL DEF FamilyRight

\* One token per exited process: its status is read at most once, and its page
\* freed only after that.
THEOREM StatusIsReadOnce == Spec => []ExitHandshake
<1>1. IInv => ExitHandshake
  BY DEF IInv
<1> QED
  BY <1>1, Invariant, PTL

\* What a step takes off the list of a process that stays.
Loses(p) == Live(p) /\ Live(p)' /\ \E c \in Children(p) : c \notin Children(p)'

\* Only process_wait() shortens a list.
LEMMA OnlyReapLoses ==
  ASSUME IInv, [Next]_vars, NEW p \in Procs, Loses(p)
  PROVE  Reap(p)
<1>1. child_list'[p] # child_list[p] /\ Live(p) /\ Live(p)'
  BY DEF Loses, Children
<1>2. ~ UNCHANGED vars
  BY <1>1 DEF vars
<1>3. PICK q \in Procs : Call(q) \/ Continue(q)
  BY <1>2 DEF Next
<1>4. child_list' # child_list /\ child_list \in [Procs -> Seq(Procs \ {root})]
  BY <1>1 DEF IInv, TypeOK
<1>5. ~ (\E c \in Procs : Exec(q, c))
  <2> SUFFICES ASSUME NEW c \in Procs, Exec(q, c) PROVE FALSE
    OBVIOUS
  <2>1. c # p /\ q # c
    BY <1>1 DEF Exec, MayExec, Live
  <2>2. child_list' = [child_list EXCEPT ![q] = Append(@, c), ![c] = <<>>]
    BY DEF Exec
  <2>3. p = q /\ child_list'[p] = Append(child_list[p], c)
    BY <1>1, <1>4, <2>1, <2>2
  <2>4. Children(p) \subseteq Children(p)'
    <3>1. child_list[p] \in Seq(Procs \ {root}) /\ c \in Procs \ {root}
      BY <1>4 DEF Exec, IInv, RootStays, Live
    <3>2. Members(Append(child_list[p], c)) = Members(child_list[p]) \cup {c}
      BY <3>1, AppendMembers
    <3> QED
      BY <2>3, <3>2 DEF Children
  <2> QED
    BY <2>4 DEF Loses
<1>6. ~ Die(q)
  <2> SUFFICES ASSUME Die(q) PROVE FALSE
    OBVIOUS
  <2>1. child_list' = [child_list EXCEPT ![q] = <<>>] /\ pc' = [pc EXCEPT ![q] = "free"]
    BY DEF Die, Goto
  <2>2. p = q
    BY <1>1, <1>4, <2>1
  <2> QED
    BY <1>1, <2>1, <2>2 DEF Live, IInv, TypeOK
<1>7. Reap(q)
  <2>1. CASE Call(q)
    BY <1>4, <1>5, <2>1 DEF Call, Wait, ExecNoPage, Open, Close, Exit, ExitMinusOne,
                            Kill, exit
  <2>2. CASE Continue(q)
    BY <1>4, <1>6, <2>2 DEF Continue, ExecLoaded, CopyFd, ExecCheck, LoadSucceeds,
                            LoadFails, ExitMinusOne, exit, ProcessExit, ChildExited
  <2> QED
    BY <1>3, <2>1, <2>2
<1>8. p = q
  <2>1. PICK i \in 1..Len(child_list[q]) :
          child_list' = [child_list EXCEPT ![q] = RemoveAt(@, i)]
    BY <1>7 DEF Reap
  <2> QED
    BY <1>1, <1>4, <2>1
<1> QED
  BY <1>7, <1>8

\* A child leaves its parent's list only when it has exited and by the parent's
\* process_wait() for it.
THEOREM OnlyTheDeadAreReaped == Spec => ReapedAfterExit
<1> DEFINE A == \A p \in Procs : Live(p) /\ Live(p)' =>
                  \A c \in Children(p) : c \notin Children(p)' =>
                    pc[c] = "dead" /\ child_thread[p] = c /\ pc[p] \in {"reap", "execreap"}
<1>1. IInv /\ [Next]_vars => A
  <2> SUFFICES ASSUME IInv, [Next]_vars, NEW p \in Procs, Live(p), Live(p)',
                      NEW c \in Children(p), c \notin Children(p)'
               PROVE  pc[c] = "dead" /\ child_thread[p] = c /\ pc[p] \in {"reap", "execreap"}
    OBVIOUS
  <2>1. Reap(p)
    BY OnlyReapLoses DEF Loses
  <2>2. /\ pc[child_thread[p]] = "dead"
        /\ Children(p)' = Children(p) \ {child_thread[p]}
    BY <2>1, ReapStep
  <2> QED
    BY <2>1, <2>2 DEF Reap
<1>2. IInv /\ [Next]_vars => [A]_vars
  BY <1>1
<1> HIDE DEF A
<1>3. Spec => [][A]_vars
  BY <1>2, Invariant, PTL DEF Spec
<1> QED
  BY <1>3 DEF ReapedAfterExit, A
=============================================================================
