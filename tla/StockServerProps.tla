-------------------------- MODULE StockServerProps --------------------------
(***************************************************************************)
(* What the workers of the stock server are required to do.                *)
(***************************************************************************)
EXTENDS StockServer

Request == [op : {"show"}] \cup [op : {"buy", "sell"}, id : Ids, count : Amounts]

\* Counts of some of the stocks.
IsCounts(f) == \E S \in SUBSET Stocks : f \in [S -> Nat]

\* Type invariant; the semaphores are never above 1.
TypeOK ==
  /\ up \in BOOLEAN /\ once \in BOOLEAN
  /\ count \in [Stocks -> Nat]
  /\ readcnt \in 0..Cardinality(Workers)
  /\ mutex \in {0, 1} /\ w \in {0, 1}
  /\ pc \in [Workers -> {"out", "read"} \cup ReaderPC \cup WriterPC]
  /\ req \in [Workers -> Request \cup {NoRequest}]
  /\ \A t \in Workers : IsCounts(val[t])
  /\ \A t \in Workers : /\ DOMAIN reply[t] = {"said", "shown"}
                       /\ reply[t].said \in {"nothing", "stocks", "success", "not enough"}
                       /\ IsCounts(reply[t].shown)

Who(L) == {t \in Workers : pc[t] \in L}

(***************************************************************************)
(* The readers-writers lock: readcnt is the number of workers that have    *)
(* been counted in and not out; w is taken exactly when one of them reads, *)
(* or is about to give it back, or one worker writes; and no worker is in  *)
(* show_tree() while another is between P(&w) and V(&w) of a trade.        *)
(***************************************************************************)
Counted   == Who({"first", "entered", "scan", "leave", "dec"})
InMutex   == Who({"inc", "first", "entered", "dec", "last", "left"})
HoldRead  == (readcnt > 0 /\ Who({"first"}) = {}) \/ Who({"last"}) # {}
Writers   == Who({"find", "update", "answer", "written"})

LockInvariant ==
  once =>
    /\ readcnt = Cardinality(Counted)
    /\ mutex = 1 - Cardinality(InMutex)
    /\ w = 1 - Cardinality(Writers) - (IF HoldRead THEN 1 ELSE 0)
    /\ Writers # {} => Who({"scan"}) = {}

\* The semaphores and the counter are right at every step of all workers.
LocksRight == TypeOK /\ LockInvariant

\* Every answer is right for the table as it is at one moment of the request,
\* and every request changes the table at most once.
T == INSTANCE StockTable WITH table <- count, asked <- req, answer <- reply

TableSpec == T!TSpec

\* As long as the server is up, a worker that waits for the lock does not keep
\* waiting without some worker getting an answer to its client: the two
\* semaphores never leave everyone waiting for everyone.
Waiting == Who({"enter", "first", "leave", "write"})

LockProgress ==
  Waiting # {} ~> Who({"show", "answer"}) # {} \/ ~up
=============================================================================
