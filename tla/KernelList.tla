----------------------------- MODULE KernelList -----------------------------
(***************************************************************************)
(* The operations of lib/kernel/list.c that the scheduler, the semaphores  *)
(* and the timer use, on lists of threads.  A list is the sequence of the  *)
(* threads whose `elem' is linked into it, front first; pri is the         *)
(* function that gives every thread its priority.                          *)
(***************************************************************************)
EXTENDS Integers, Sequences, SequencesExt

\* The threads that are linked into a list.
Members(list) == {list[i] : i \in 1..Len(list)}

\* get_priority(), the `less' function every caller passes.
get_priority(x, y, pri) == pri[x] > pri[y]

\* The list elements that a newcomer has to stand in front of.
Behind(list, elem, pri) ==
  {i \in 1..Len(list) : get_priority(elem, list[i], pri)}

\* Variant for the project's sensitivity runs: >= instead of > in the loop.
list_insert_ordered_lifo(list, elem, pri) ==
  LET I == {i \in 1..Len(list) : pri[elem] >= pri[list[i]]}
  IN  IF I = {} THEN Append(list, elem) ELSE InsertAt(list, Min(I), elem)

\* list_insert_ordered(): in front of the first element that is less than
\* the newcomer, at the end if there is none; equals keep their order.
list_insert_ordered(list, elem, pri) ==
  LET I == Behind(list, elem, pri)
  IN  IF I = {} THEN Append(list, elem) ELSE InsertAt(list, Min(I), elem)

\* The elements that no other element of the list is above.
Highest(list, pri) ==
  {i \in 1..Len(list) : \A j \in 1..Len(list) : pri[list[i]] >= pri[list[j]]}

\* The scan in sema_up(): the first of the elements of highest priority.
highest_elem(list, pri) == Min(Highest(list, pri))

\* What "sorted by priority" means for a list that is never re-sorted.
PrioritySorted(list, pri) ==
  \A i, j \in 1..Len(list) : i < j => pri[list[i]] >= pri[list[j]]

\* No thread is linked twice.
NoDuplicates(list) ==
  \A i, j \in 1..Len(list) : list[i] = list[j] => i = j
=============================================================================
