-------------------------------- MODULE Fifo --------------------------------
(***************************************************************************)
(* What the buffer between the accepting thread and the workers of the     *)
(* threaded stock server is for: a queue of at most SBUFSIZE connections,  *)
(* each of which goes to one worker, in the order of arrival.  Module Sbuf *)
(* implements it.                                                          *)
(***************************************************************************)
EXTENDS Naturals, Sequences

CONSTANTS Workers, Conns, SBUFSIZE, NoConn

VARIABLES queue,   \* the connections that wait for a worker
          taken    \* the connection each worker has been given

fvars == <<queue, taken>>

FInit == /\ queue = <<>>
         /\ taken = [w \in Workers |-> NoConn]

Insert(c) == /\ Len(queue) < SBUFSIZE
             /\ queue' = Append(queue, c)
             /\ UNCHANGED taken

Remove(w) == /\ queue # <<>>
             /\ taken[w] = NoConn
             /\ taken' = [taken EXCEPT ![w] = Head(queue)]
             /\ queue' = Tail(queue)

\* The worker has closed its connection.
Finish(w) == /\ taken[w] # NoConn
             /\ taken' = [taken EXCEPT ![w] = NoConn]
             /\ UNCHANGED queue

FNext == \/ \E c \in Conns : Insert(c)
         \/ \E w \in Workers : Remove(w) \/ Finish(w)

FSpec == FInit /\ [][FNext]_fvars
=============================================================================
