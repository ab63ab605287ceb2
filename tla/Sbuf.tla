-------------------------------- MODULE Sbuf --------------------------------
(***************************************************************************)
(* The buffer sbuf_t of 2024_1st/CSE4100/Project_03/task_2/stockserver.c:  *)
(* main() accepts connections and inserts their descriptors, NTHREADS      *)
(* workers remove them.  P and V are sem_wait() and sem_post(): P is       *)
(* enabled when the semaphore is positive.                                 *)
(*                                                                         *)
(* front and rear count how many items have gone out of and into the       *)
(* buffer.  In the code they are ints; here they stop at MAX_ACCEPT, a     *)
(* bound of the model on the connections that are accepted, so what        *)
(* happens after 2^31 of them is not modelled.                             *)
(***************************************************************************)
EXTENDS Integers, Sequences, FiniteSets

CONSTANTS Workers,     \* the threads that run thread()
          Conns,       \* the descriptors that accept() may return
          SBUFSIZE,    \* the number of slots, n
          MAX_ACCEPT,
          NoConn       \* a number that is no descriptor of a client

ASSUME SbufAssumption ==
  /\ IsFiniteSet(Workers)
  /\ Conns \subseteq Nat
  /\ NoConn \in Nat \ Conns
  /\ SBUFSIZE \in Nat \ {0}
  /\ MAX_ACCEPT \in Nat

VARIABLES
  buf, front, rear,      \* struct sbuf_t
  mutex, slots, items,   \* its semaphores
  mpc, connfd,           \* main(): where it is, and the descriptor it holds
  pc, item,              \* the workers: where each is, its descriptor,
  next                   \* and the value of front it is going to store

vars == <<buf, front, rear, mutex, slots, items, mpc, connfd, pc, item, next>>

(***************************************************************************)
(* mpc: "accept"; in sbuf_insert() "slots" and "lock" at the two P, then   *)
(* "store", "unlock" and "items".  pc: in sbuf_remove() "items" and "lock" *)
(* at the two P, then "load", "take", "unlock" and "slots"; "serve" in     *)
(* stock_server() and Close().                                             *)
(***************************************************************************)
MainPC   == {"accept", "slots", "lock", "store", "unlock", "items"}
WorkerPC == {"items", "lock", "load", "take", "unlock", "slots", "serve"}

\* sbuf_init(), and the threads have been created.
Init ==
  /\ buf = [i \in 0..(SBUFSIZE - 1) |-> NoConn]
  /\ front = 0 /\ rear = 0
  /\ mutex = 1 /\ slots = SBUFSIZE /\ items = 0
  /\ mpc = "accept" /\ connfd = NoConn
  /\ pc = [w \in Workers |-> "items"]
  /\ item = [w \in Workers |-> NoConn]
  /\ next = [w \in Workers |-> 0]

-----------------------------------------------------------------------------
(***************************************************************************)
(* main() and sbuf_insert().                                               *)
(***************************************************************************)
\* The descriptors that are in use: waiting, or with a worker.  (The one that
\* main() holds is not free either, but main() then is not in accept().)
Open == {buf[i % SBUFSIZE] : i \in (front + 1)..rear} \cup {item[w] : w \in Workers}

\* The kernel hands out the lowest descriptor that is free.  Accept() ends the
\* server when there is none, which is outside this model.
Accept(c) ==
  /\ mpc = "accept"
  /\ c \notin Open
  /\ \A d \in Conns : d < c => d \in Open
  /\ rear < MAX_ACCEPT
  /\ connfd' = c
  /\ mpc' = "slots"
  /\ UNCHANGED <<buf, front, rear, mutex, slots, items, pc, item, next>>

\* Variant: the mutex is taken before the slot.
InsertSlots_Locked ==
  \/ /\ mpc = "slots" /\ mutex > 0
     /\ mutex' = mutex - 1
     /\ mpc' = "lock"
     /\ UNCHANGED <<buf, front, rear, slots, items, connfd, pc, item, next>>
  \/ /\ mpc = "lock" /\ mutex = 0 /\ slots > 0
     /\ slots' = slots - 1
     /\ mpc' = "store"
     /\ UNCHANGED <<buf, front, rear, mutex, items, connfd, pc, item, next>>

InsertSlots ==
  /\ mpc = "slots"
  /\ slots > 0
  /\ slots' = slots - 1
  /\ mpc' = "lock"
  /\ UNCHANGED <<buf, front, rear, mutex, items, connfd, pc, item, next>>

InsertLock ==
  /\ mpc = "lock"
  /\ mutex > 0
  /\ mutex' = mutex - 1
  /\ mpc' = "store"
  /\ UNCHANGED <<buf, front, rear, slots, items, connfd, pc, item, next>>

InsertStore ==
  /\ mpc = "store"
  /\ rear' = rear + 1
  /\ buf' = [buf EXCEPT ![(rear + 1) % SBUFSIZE] = connfd]
  /\ mpc' = "unlock"
  /\ UNCHANGED <<front, mutex, slots, items, connfd, pc, item, next>>

InsertUnlock ==
  /\ mpc = "unlock"
  /\ mutex' = mutex + 1
  /\ mpc' = "items"
  /\ UNCHANGED <<buf, front, rear, slots, items, connfd, pc, item, next>>

\* Variant: no V(&sp->items).
InsertItems_None ==
  /\ mpc = "items"
  /\ mpc' = "accept"
  /\ connfd' = NoConn
  /\ UNCHANGED <<buf, front, rear, mutex, slots, items, pc, item, next>>

InsertItems ==
  /\ mpc = "items"
  /\ items' = items + 1
  /\ mpc' = "accept"
  /\ connfd' = NoConn
  /\ UNCHANGED <<buf, front, rear, mutex, slots, pc, item, next>>

-----------------------------------------------------------------------------
(***************************************************************************)
(* thread() and sbuf_remove().                                             *)
(***************************************************************************)
Goto(w, l) == pc' = [pc EXCEPT ![w] = l]

RemoveItems(w) ==
  /\ pc[w] = "items"
  /\ items > 0
  /\ items' = items - 1
  /\ Goto(w, "lock")
  /\ UNCHANGED <<buf, front, rear, mutex, slots, mpc, connfd, item, next>>

\* Variant: no P(&sp->mutex) in sbuf_remove().
RemoveLock_None(w) ==
  /\ pc[w] = "lock"
  /\ Goto(w, "load")
  /\ UNCHANGED <<buf, front, rear, mutex, slots, items, mpc, connfd, item, next>>

RemoveLock(w) ==
  /\ pc[w] = "lock"
  /\ mutex > 0
  /\ mutex' = mutex - 1
  /\ Goto(w, "load")
  /\ UNCHANGED <<buf, front, rear, slots, items, mpc, connfd, item, next>>

\* ++sp->front is a load and a store; the store comes with the item.
RemoveLoad(w) ==
  /\ pc[w] = "load"
  /\ next' = [next EXCEPT ![w] = front + 1]
  /\ Goto(w, "take")
  /\ UNCHANGED <<buf, front, rear, mutex, slots, items, mpc, connfd, item>>

RemoveTake(w) ==
  /\ pc[w] = "take"
  /\ front' = next[w]
  /\ item' = [item EXCEPT ![w] = buf[next[w] % SBUFSIZE]]
  /\ next' = [next EXCEPT ![w] = 0]
  /\ Goto(w, "unlock")
  /\ UNCHANGED <<buf, rear, mutex, slots, items, mpc, connfd>>

RemoveUnlock(w) ==
  /\ pc[w] = "unlock"
  /\ mutex' = mutex + 1
  /\ Goto(w, "slots")
  /\ UNCHANGED <<buf, front, rear, slots, items, mpc, connfd, item, next>>

RemoveSlots(w) ==
  /\ pc[w] = "slots"
  /\ slots' = slots + 1
  /\ Goto(w, "serve")
  /\ UNCHANGED <<buf, front, rear, mutex, items, mpc, connfd, item, next>>

\* The client has gone, and the worker closes the connection.
Close(w) ==
  /\ pc[w] = "serve"
  /\ item' = [item EXCEPT ![w] = NoConn]
  /\ Goto(w, "items")
  /\ UNCHANGED <<buf, front, rear, mutex, slots, items, mpc, connfd, next>>

-----------------------------------------------------------------------------
InsertStep == InsertSlots \/ InsertLock \/ InsertStore \/ InsertUnlock \/ InsertItems

RemoveStep(w) == \/ RemoveItems(w) \/ RemoveLock(w) \/ RemoveLoad(w)
                 \/ RemoveTake(w) \/ RemoveUnlock(w) \/ RemoveSlots(w)

Next == \/ \E c \in Conns : Accept(c)
        \/ InsertStep
        \/ \E w \in Workers : RemoveStep(w) \/ Close(w)

Spec == Init /\ [][Next]_vars

\* A thread that is not blocked takes its next step; no client has to come,
\* and none has to leave.
FairSpec == /\ Spec
            /\ WF_vars(InsertStep)
            /\ \A w \in Workers : WF_vars(RemoveStep(w))
=============================================================================
