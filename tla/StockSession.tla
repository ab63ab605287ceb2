---------------------------- MODULE StockSession ----------------------------
(***************************************************************************)
(* When and how stock.txt is saved by                                      *)
(* 2024_1st/CSE4100/Project_03/task_2/stockserver.c: client_cnt counts the *)
(* clients without a lock, the worker whose client is the last one to go   *)
(* calls write_stock(), and so does the handler of SIGINT.  The process    *)
(* may end at any request, and is started again with what the file holds.  *)
(*                                                                         *)
(* A connection comes to a worker as module Fifo says, and a trade changes *)
(* one stock in one step, as StockTable says: Sbuf and StockServer         *)
(* implement them.  Of a count only its version is kept, which a trade     *)
(* increments.  MAX_VERSION is a bound of the model, and so is MAX_DRIFT:  *)
(* clients come while lost updates have not driven client_cnt beyond it.   *)
(* SIGINT comes once: a second one, which the kernel would give to a       *)
(* worker while main() is in its handler, is not in the model.             *)
(***************************************************************************)
EXTENDS Integers, FiniteSets

CONSTANTS Workers,       \* the threads that run thread()
          main,          \* the thread that runs the handler of SIGINT
          Stocks,        \* the ids in stock.txt
          MAX_VERSION, MAX_DRIFT,
          Garbled        \* a file that two threads have written at once

ASSUME SessionAssumption ==
  /\ IsFiniteSet(Workers) /\ main \notin Workers
  /\ Stocks \subseteq Nat /\ IsFiniteSet(Stocks) /\ Stocks # {}
  /\ MAX_VERSION \in Nat /\ MAX_DRIFT \in Nat
  /\ \A S \in SUBSET Stocks : Garbled \notin [S -> Nat]

VARIABLES
  up,            \* the process runs
  count,         \* the tree, from ids to versions
  file,          \* the lines of stock.txt, from ids to versions
  client_cnt,
  pc,            \* where each worker, and main's handler, is
  reg,           \* the client_cnt that a worker has loaded
  buf,           \* what it has printed to its FILE
  trouble,       \* history: what has happened to this process,
  damaged,       \* whether a save was ever cut short or written over,
  atSignal       \* and the tree when SIGINT came

vars == <<up, count, file, client_cnt, pc, reg, buf, trouble, damaged, atSignal>>
hist == <<trouble, damaged, atSignal>>

Threads == Workers \cup {main}
Nothing == [s \in {} |-> 0]

(***************************************************************************)
(* pc: "idle" in sbuf_remove(), and for main() in its loop; "inc" and      *)
(* "dec" between the load and the store of client_cnt++ and client_cnt--;  *)
(* "session" in the loop of stock_server(); in write_stock() "open" at     *)
(* fopen(), "print" in print_tree() and fclose(); "exit" at exit(0).       *)
(***************************************************************************)
\* main() has read the file, and the workers wait.
Start(table) ==
  /\ up' = TRUE /\ count' = table
  /\ client_cnt' = 0
  /\ pc' = [t \in Threads |-> "idle"]
  /\ reg' = [t \in Workers |-> 0]
  /\ buf' = [t \in Threads |-> Nothing]
  /\ trouble' = {}
  /\ atSignal' = Nothing

Init ==
  /\ up = TRUE
  /\ count = [s \in Stocks |-> 0] /\ file = count
  /\ client_cnt = 0
  /\ pc = [t \in Threads |-> "idle"]
  /\ reg = [t \in Workers |-> 0]
  /\ buf = [t \in Threads |-> Nothing]
  /\ trouble = {} /\ damaged = FALSE
  /\ atSignal = Nothing

At(t, l)   == up /\ pc[t] = l
Goto(t, l) == pc' = [pc EXCEPT ![t] = l]

\* Those between fopen() and fclose().
Saving == {t \in Threads : pc[t] = "print"}

-----------------------------------------------------------------------------
(***************************************************************************)
(* client_cnt++ and client_cnt-- each load and store; a thread that loads  *)
(* while another is between the two makes one of the updates disappear.    *)
(***************************************************************************)
Load(t) ==
  /\ reg' = [reg EXCEPT ![t] = client_cnt]
  /\ trouble' = IF \E u \in Workers \ {t} : pc[u] \in {"inc", "dec"}
                THEN trouble \cup {"race"} ELSE trouble
  /\ UNCHANGED <<up, count, file, client_cnt, buf, damaged, atSignal>>

Connect(t) ==
  /\ At(t, "idle")
  /\ client_cnt \in -MAX_DRIFT..MAX_DRIFT
  /\ Goto(t, "inc")
  /\ Load(t)

StoreInc(t) ==
  /\ At(t, "inc")
  /\ client_cnt' = reg[t] + 1 /\ reg' = [reg EXCEPT ![t] = 0]
  /\ Goto(t, "session")
  /\ UNCHANGED <<up, count, file, buf, hist>>

\* buy or sell.
Trade(t, s) ==
  /\ At(t, "session")
  /\ s \in DOMAIN count /\ count[s] < MAX_VERSION
  /\ count' = [count EXCEPT ![s] = @ + 1]
  /\ UNCHANGED <<up, file, client_cnt, pc, reg, buf, hist>>

\* exit, or the end of the connection.
Leave(t) == At(t, "session") /\ Goto(t, "dec") /\ Load(t)

\* Variant: the worker saves when it was not the last.
StoreDec_First(t) ==
  /\ At(t, "dec")
  /\ client_cnt' = reg[t] - 1 /\ reg' = [reg EXCEPT ![t] = 0]
  /\ Goto(t, IF client_cnt' = 1 THEN "open" ELSE "idle")
  /\ UNCHANGED <<up, count, file, buf, hist>>

\* Variant: client_cnt-- is forgotten.
StoreDec_None(t) ==
  /\ At(t, "dec")
  /\ client_cnt' = reg[t] /\ reg' = [reg EXCEPT ![t] = 0]
  /\ Goto(t, IF client_cnt' = 0 THEN "open" ELSE "idle")
  /\ UNCHANGED <<up, count, file, buf, hist>>

\* The test uses the value that was stored: the build (-O2) keeps it in a register.
StoreDec(t) ==
  /\ At(t, "dec")
  /\ client_cnt' = reg[t] - 1 /\ reg' = [reg EXCEPT ![t] = 0]
  /\ Goto(t, IF client_cnt' = 0 THEN "open" ELSE "idle")
  /\ UNCHANGED <<up, count, file, buf, hist>>

-----------------------------------------------------------------------------
(***************************************************************************)
(* write_stock(), by a worker or by the handler.                           *)
(***************************************************************************)
After(t) == IF t = main THEN "exit" ELSE "idle"

\* fopen() with "w" empties the file.
Open(t) ==
  /\ At(t, "open")
  /\ file' = Nothing
  /\ buf' = [buf EXCEPT ![t] = Nothing]
  /\ Goto(t, "print")
  /\ trouble' = IF Saving # {} THEN trouble \cup {"saves"} ELSE trouble
  /\ damaged' = (damaged \/ Saving # {})
  /\ UNCHANGED <<up, count, client_cnt, reg, atSignal>>

OpenFails(t) ==
  /\ At(t, "open")
  /\ Goto(t, After(t))
  /\ trouble' = trouble \cup {"nofile"}
  /\ UNCHANGED <<up, count, file, client_cnt, reg, buf, damaged, atSignal>>

\* print_tree(): the nodes in the order of their ids, without a lock.
PrintNode(t, s) ==
  /\ At(t, "print")
  /\ s \in DOMAIN count \ DOMAIN buf[t]
  /\ \A i \in DOMAIN count : i < s => i \in DOMAIN buf[t]
  /\ buf' = [buf EXCEPT ![t] = [i \in DOMAIN @ \cup {s} |-> IF i = s THEN count[s] ELSE @[i]]]
  /\ UNCHANGED <<up, count, file, client_cnt, pc, reg, hist>>

\* What the file is after t has written its lines from the start of the file:
\* if another thread has written there since t opened it, lines of different
\* lengths may be left over.
Written(t) == IF file = Nothing THEN {buf[t]} ELSE {buf[t], Garbled}

\* Variant: print_tree() does not visit the right subtree.
Close_NoRight(t) ==
  /\ At(t, "print") /\ DOMAIN buf[t] # {}
  /\ file' \in Written(t)
  /\ buf' = [buf EXCEPT ![t] = Nothing]
  /\ Goto(t, After(t))
  /\ UNCHANGED <<up, count, client_cnt, reg, hist>>

Close(t) ==
  /\ At(t, "print") /\ DOMAIN buf[t] = DOMAIN count
  /\ file' \in Written(t)
  /\ buf' = [buf EXCEPT ![t] = Nothing]
  /\ Goto(t, After(t))
  /\ UNCHANGED <<up, count, client_cnt, reg, hist>>

-----------------------------------------------------------------------------
(***************************************************************************)
(* The end of the process.                                                 *)
(***************************************************************************)
\* exit() writes out what the FILEs of all threads hold.
Flushed == IF Saving = {} THEN {file}
           ELSE {file} \cup UNION {Written(t) : t \in Saving}

Exit ==
  /\ up' = FALSE
  /\ file' \in Flushed
  /\ trouble' = IF Saving # {} THEN trouble \cup {"cut"} ELSE trouble
  /\ damaged' = (damaged \/ Saving # {})
  /\ UNCHANGED <<count, client_cnt, pc, reg, buf, atSignal>>

\* A request for an unknown stock, or a connection that fails.
SessionFails(t) == At(t, "session") /\ Exit

\* Variant: the handler exits without write_stock().
Sigint_NoSave ==
  /\ At(main, "idle")
  /\ Goto(main, "exit")
  /\ atSignal' = count
  /\ UNCHANGED <<up, count, file, client_cnt, reg, buf, trouble, damaged>>

Sigint ==
  /\ At(main, "idle")
  /\ Goto(main, "open")
  /\ atSignal' = count
  /\ UNCHANGED <<up, count, file, client_cnt, reg, buf, trouble, damaged>>

HandlerExits == At(main, "exit") /\ Exit

\* The server is started again; read_stock() takes the lines there are.
Restart ==
  /\ ~up /\ file # Garbled
  /\ Start(file)
  /\ UNCHANGED <<file, damaged>>

-----------------------------------------------------------------------------
Save(t) == \/ Open(t) \/ OpenFails(t) \/ Close(t)
           \/ \E s \in Stocks : PrintNode(t, s)

Next ==
  \/ \E t \in Workers : \/ Connect(t) \/ StoreInc(t) \/ Leave(t) \/ StoreDec(t)
                        \/ SessionFails(t)
                        \/ \E s \in Stocks : Trade(t, s)
  \/ \E t \in Threads : Save(t)
  \/ Sigint \/ HandlerExits \/ Restart

Spec == Init /\ [][Next]_vars
=============================================================================
