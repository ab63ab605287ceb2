----------------------------- MODULE SbufProps -----------------------------
(***************************************************************************)
(* What the buffer of connections is required to do.                       *)
(***************************************************************************)
EXTENDS Sbuf

Slot == 0..(SBUFSIZE - 1)

\* Type invariant; the semaphores are never negative.
TypeOK ==
  /\ buf \in [Slot -> Conns \cup {NoConn}]
  /\ front \in Nat /\ rear \in Nat
  /\ mutex \in {0, 1} /\ slots \in 0..SBUFSIZE /\ items \in 0..SBUFSIZE
  /\ mpc \in MainPC
  /\ connfd \in Conns \cup {NoConn}
  /\ pc \in [Workers -> WorkerPC]
  /\ item \in [Workers -> Conns \cup {NoConn}]
  /\ next \in [Workers -> Nat]

\* The workers at a place of sbuf_remove().
At(L) == {w \in Workers : pc[w] \in L}

(***************************************************************************)
(* The two counting semaphores agree with the buffer at every moment:      *)
(* every slot is free, full, or in the hands of main() or of a worker that *)
(* is on its way through the critical section, and the same for items.     *)
(***************************************************************************)
Claimed  == Cardinality(At({"lock", "load", "take"})) \* an item, not yet taken out
Emptied  == Cardinality(At({"unlock", "slots"}))      \* a slot, not yet given back
Reserved == IF mpc \in {"lock", "store"} THEN 1 ELSE 0
Stored   == IF mpc \in {"unlock", "items"} THEN 1 ELSE 0

SlotsAccounted ==
  /\ slots + Reserved + (rear - front) + Emptied = SBUFSIZE
  /\ items + Claimed + Stored = rear - front

\* The buffer and its semaphores are right at every step of both sides.
BufferRight == TypeOK /\ SlotsAccounted

\* The buffer is a bounded queue: no connection is lost, overwritten or given
\* to two workers, and they leave in the order in which they came.
InBuf(i) == buf[i % SBUFSIZE]
content == [i \in 1..(rear - front) |-> InBuf(front + i)]

F == INSTANCE Fifo WITH queue <- content, taken <- item

FifoSpec == F!FSpec

\* A connection that is in the buffer leaves it, and main() goes back to
\* accept(), unless there is a moment at which every worker has a client.
Busy == At({"serve"}) = Workers

ConnectionsLeave ==
  \A k \in 1..MAX_ACCEPT : rear >= k ~> front >= k \/ Busy

AcceptResumes == mpc = "slots" ~> mpc = "accept" \/ Busy
=============================================================================
