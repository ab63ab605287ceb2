---------------------------- MODULE StockServer ----------------------------
(***************************************************************************)
(* stock_server() of 2024_1st/CSE4100/Project_03/task_2/stockserver.c: the *)
(* workers carry out their clients' requests on one tree of stocks.  show  *)
(* reads all of it under a readers-writers lock (readcnt, mutex, w), buy   *)
(* and sell change one node while they hold w.                             *)
(*                                                                         *)
(* The tree does not change its shape after read_stock(): it is the        *)
(* function count from the ids in stock.txt to what is left, and           *)
(* show_tree() visits the ids in increasing order.  Prices never change    *)
(* and are left out.  A client sends requests with an amount of at least 1 *)
(* (multiclient.c: 1 to 10); other lines are ignored by the server.        *)
(*                                                                         *)
(* MAX_COUNT is a bound of the model: a client sells only while the count  *)
(* does not pass it whatever the other workers do.                         *)
(***************************************************************************)
EXTENDS Integers, FiniteSets

CONSTANTS Workers,     \* the threads that run thread()
          Stocks,      \* the ids in stock.txt
          Ids,         \* the ids that clients ask for
          Amounts,
          Initial,     \* the counts in stock.txt
          MAX_COUNT

ASSUME StockAssumption ==
  /\ IsFiniteSet(Workers)
  /\ Stocks \subseteq Nat /\ IsFiniteSet(Stocks)
  /\ Amounts \subseteq Nat \ {0}
  /\ Initial \in [Stocks -> Nat]
  /\ MAX_COUNT \in Nat

VARIABLES
  up,                  \* the process has not called exit()
  once,                \* init_stock_server() has run
  count,               \* the tree
  readcnt, mutex, w,   \* the readers-writers lock
  pc,                  \* where each worker is
  req,                 \* its request, NoRequest between two requests
  val,                 \* the counts it has read and not used yet
  reply

vars == <<up, once, count, readcnt, mutex, w, pc, req, val, reply>>

(***************************************************************************)
(* pc: "out", not in stock_server(); "read" in Rio_readlineb().  show:     *)
(* "enter" and "leave" at P(&mutex), "inc" and "dec" after it, "first" at  *)
(* P(&w), "last" at V(&w), "entered" and "left" at V(&mutex), "scan" in    *)
(* show_tree(), "show" in Rio_writen().  buy and sell: "write" at P(&w),   *)
(* "find", "update", "answer" in Rio_writen(), "written" at V(&w).         *)
(***************************************************************************)
ReaderPC == {"enter", "inc", "first", "entered", "scan", "leave", "dec", "last", "left", "show"}
WriterPC == {"write", "find", "update", "answer", "written"}

Nothing   == [i \in {} |-> 0]
NoRequest == [op |-> "none"]
NoAnswer  == [said |-> "nothing", shown |-> Nothing]

\* sem_t mutex and w are zero until init_stock_server().
Init ==
  /\ up = TRUE /\ once = FALSE
  /\ count = Initial
  /\ readcnt = 0 /\ mutex = 0 /\ w = 0
  /\ pc = [t \in Workers |-> "out"]
  /\ req = [t \in Workers |-> NoRequest]
  /\ val = [t \in Workers |-> Nothing]
  /\ reply = [t \in Workers |-> NoAnswer]

locks  == <<readcnt, mutex, w>>
shared == <<once, count, readcnt, mutex, w>>

At(t, l)   == up /\ pc[t] = l
Goto(t, l) == pc' = [pc EXCEPT ![t] = l]

\* sprintf() or show_tree() into buf: what it says, and the counts it shows.
Answer(t, what, counts) == reply' = [reply EXCEPT ![t] = [said |-> what, shown |-> counts]]

P(sem) == sem > 0 /\ sem' = sem - 1
V(sem) == sem' = sem + 1

-----------------------------------------------------------------------------
(***************************************************************************)
(* A connection is taken from the buffer, and stock_server() starts.       *)
(***************************************************************************)
\* Variant: init_stock_server() without pthread_once().
Connect_Always(t) ==
  /\ At(t, "out")
  /\ once' = TRUE
  /\ readcnt' = 0 /\ mutex' = 1 /\ w' = 1
  /\ Goto(t, "read")
  /\ UNCHANGED <<up, count, req, val, reply>>

Connect(t) ==
  /\ At(t, "out")
  /\ \/ once /\ UNCHANGED <<once, locks>>
     \/ ~once /\ once' = TRUE /\ readcnt' = 0 /\ mutex' = 1 /\ w' = 1
  /\ Goto(t, "read")
  /\ UNCHANGED <<up, count, req, val, reply>>

\* exit, or the end of the connection.
Leave(t) ==
  /\ At(t, "read")
  /\ Goto(t, "out")
  /\ UNCHANGED <<up, shared, req, val, reply>>

Sells(id) == {t \in Workers : req[t].op = "sell" /\ req[t].id = id /\ reply[t] = NoAnswer}
Room(id) == \A n \in Amounts : count[id] + n * (Cardinality(Sells(id)) + 1) <= MAX_COUNT

ReadShow(t) ==
  /\ At(t, "read")
  /\ req' = [req EXCEPT ![t] = [op |-> "show"]]
  /\ Goto(t, "enter")
  /\ UNCHANGED <<up, shared, val, reply>>

ReadTrade(t, op, id, n) ==
  /\ At(t, "read")
  /\ op = "sell" /\ id \in Stocks => Room(id)
  /\ req' = [req EXCEPT ![t] = [op |-> op, id |-> id, count |-> n]]
  /\ Goto(t, "write")
  /\ UNCHANGED <<up, shared, val, reply>>

\* A client that has gone, or a connection that fails, ends the server:
\* Rio_readlineb() and Rio_writen() exit when they cannot read or write.
Fail(t) ==
  /\ pc[t] \in {"read", "show", "answer"} /\ up
  /\ up' = FALSE
  /\ UNCHANGED <<shared, pc, req, val, reply>>

-----------------------------------------------------------------------------
(***************************************************************************)
(* show.                                                                   *)
(***************************************************************************)
EnterLock(t) ==
  /\ At(t, "enter")
  /\ P(mutex)
  /\ Goto(t, "inc")
  /\ UNCHANGED <<up, once, count, readcnt, w, req, val, reply>>

EnterCount(t) ==
  /\ At(t, "inc")
  /\ readcnt' = readcnt + 1
  /\ Goto(t, IF readcnt' = 1 THEN "first" ELSE "entered")
  /\ UNCHANGED <<up, once, count, mutex, w, req, val, reply>>

EnterFirst(t) ==
  /\ At(t, "first")
  /\ P(w)
  /\ Goto(t, "entered")
  /\ UNCHANGED <<up, once, count, readcnt, mutex, req, val, reply>>

EnterUnlock(t) ==
  /\ At(t, "entered")
  /\ V(mutex)
  /\ Goto(t, "scan")
  /\ UNCHANGED <<up, once, count, readcnt, w, req, val, reply>>

\* show_tree(): one node a step, and the string is complete after the last.
ScanNode(t, s) ==
  /\ At(t, "scan")
  /\ s \in Stocks \ DOMAIN val[t]
  /\ \A i \in Stocks : i < s => i \in DOMAIN val[t]
  /\ val' = [val EXCEPT ![t] = [i \in DOMAIN @ \cup {s} |-> IF i = s THEN count[s] ELSE @[i]]]
  /\ UNCHANGED <<up, shared, pc, req, reply>>

ScanEnd(t) ==
  /\ At(t, "scan") /\ DOMAIN val[t] = Stocks
  /\ Answer(t, "stocks", val[t])
  /\ val' = [val EXCEPT ![t] = Nothing]
  /\ Goto(t, "leave")
  /\ UNCHANGED <<up, shared, req>>

LeaveLock(t) ==
  /\ At(t, "leave")
  /\ P(mutex)
  /\ Goto(t, "dec")
  /\ UNCHANGED <<up, once, count, readcnt, w, req, val, reply>>

\* Variant: the last reader does not look for zero.
LeaveCount_NotLast(t) ==
  /\ At(t, "dec")
  /\ readcnt' = readcnt - 1
  /\ Goto(t, "left")
  /\ UNCHANGED <<up, once, count, mutex, w, req, val, reply>>

LeaveCount(t) ==
  /\ At(t, "dec")
  /\ readcnt' = readcnt - 1
  /\ Goto(t, IF readcnt' = 0 THEN "last" ELSE "left")
  /\ UNCHANGED <<up, once, count, mutex, w, req, val, reply>>

LeaveLast(t) ==
  /\ At(t, "last")
  /\ V(w)
  /\ Goto(t, "left")
  /\ UNCHANGED <<up, once, count, readcnt, mutex, req, val, reply>>

LeaveUnlock(t) ==
  /\ At(t, "left")
  /\ V(mutex)
  /\ Goto(t, "show")
  /\ UNCHANGED <<up, once, count, readcnt, w, req, val, reply>>

\* The client waits for the answer before it sends the next request.
SendShow(t) ==
  /\ At(t, "show")
  /\ Goto(t, "read")
  /\ req' = [req EXCEPT ![t] = NoRequest]
  /\ reply' = [reply EXCEPT ![t] = NoAnswer]
  /\ UNCHANGED <<up, shared, val>>

-----------------------------------------------------------------------------
(***************************************************************************)
(* buy and sell.                                                           *)
(***************************************************************************)
\* Variant: no P(&w).
WriteLock_None(t) ==
  /\ At(t, "write")
  /\ Goto(t, "find")
  /\ UNCHANGED <<up, shared, req, val, reply>>

WriteLock(t) ==
  /\ At(t, "write")
  /\ P(w)
  /\ Goto(t, "find")
  /\ UNCHANGED <<up, once, count, readcnt, mutex, req, val, reply>>

\* A request for an unknown stock ends the server, with w held.
FindNone(t) ==
  /\ At(t, "find") /\ req[t].id \notin Stocks
  /\ up' = FALSE
  /\ UNCHANGED <<shared, pc, req, val, reply>>

FindNode(t) ==
  /\ At(t, "find") /\ req[t].id \in Stocks
  /\ val' = [val EXCEPT ![t] = [i \in {req[t].id} |-> count[i]]]
  /\ Goto(t, "update")
  /\ UNCHANGED <<up, shared, req, reply>>

Store(t, n) == count' = [count EXCEPT ![req[t].id] = n]

\* node->count is loaded once and the result stored.
Update(t) ==
  LET left == val[t][req[t].id] IN
  /\ At(t, "update")
  /\ \/ /\ req[t].op = "buy" /\ left >= req[t].count
        /\ Store(t, left - req[t].count)
        /\ Answer(t, "success", Nothing)
     \/ /\ req[t].op = "buy" /\ left < req[t].count
        /\ UNCHANGED count
        /\ Answer(t, "not enough", Nothing)
     \/ /\ req[t].op = "sell"
        /\ Store(t, left + req[t].count)
        /\ Answer(t, "success", Nothing)
  /\ val' = [val EXCEPT ![t] = Nothing]
  /\ Goto(t, "answer")
  /\ UNCHANGED <<up, once, locks, req>>

SendAnswer(t) ==
  /\ At(t, "answer")
  /\ Goto(t, "written")
  /\ UNCHANGED <<up, shared, req, val, reply>>

WriteUnlock(t) ==
  /\ At(t, "written")
  /\ V(w)
  /\ Goto(t, "read")
  /\ req' = [req EXCEPT ![t] = NoRequest]
  /\ reply' = [reply EXCEPT ![t] = NoAnswer]
  /\ UNCHANGED <<up, once, count, readcnt, mutex, val>>

-----------------------------------------------------------------------------
Step(t) ==
  \/ EnterLock(t) \/ EnterCount(t) \/ EnterFirst(t) \/ EnterUnlock(t)
  \/ (\E s \in Stocks : ScanNode(t, s)) \/ ScanEnd(t)
  \/ LeaveLock(t) \/ LeaveCount(t) \/ LeaveLast(t) \/ LeaveUnlock(t) \/ SendShow(t)
  \/ WriteLock(t) \/ FindNone(t) \/ FindNode(t) \/ Update(t)
  \/ SendAnswer(t) \/ WriteUnlock(t)

Client(t) ==
  \/ Connect(t) \/ Leave(t) \/ Fail(t) \/ ReadShow(t)
  \/ \E op \in {"buy", "sell"}, id \in Ids, n \in Amounts : ReadTrade(t, op, id, n)

Next == \E t \in Workers : Step(t) \/ Client(t)

Spec == Init /\ [][Next]_vars

\* A worker that is not blocked takes its next step, and clients read what is
\* sent to them; nobody has to connect or to ask for anything.
FairSpec == Spec /\ \A t \in Workers : WF_vars(Step(t))
=============================================================================
