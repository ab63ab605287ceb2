----------------------------- MODULE StockTable -----------------------------
(***************************************************************************)
(* What the clients of the stock server may rely on: every request that is *)
(* answered is answered once, as if it had been carried out in one step on *)
(* the table of stocks, and what is sold is never more than what is left.  *)
(* Module StockServer implements it.                                       *)
(***************************************************************************)
EXTENDS Integers

CONSTANTS Workers,   \* each serves one client at a time
          Stocks, Ids, Amounts, Initial

VARIABLES table,     \* how much is left of each stock
          asked,     \* the request that each worker carries out
          answer     \* and the answer to it, when there is one

tvars == <<table, asked, answer>>

Shows   == [op : {"show"}]
Trades  == [op : {"buy", "sell"}, id : Ids, count : Amounts]
Request == Shows \cup Trades

\* What is said, and the counts that are shown with it.
Nothing     == [i \in {} |-> 0]
NoRequest   == [op |-> "none"]
NoAnswer    == [said |-> "nothing", shown |-> Nothing]

TInit == /\ table = Initial
         /\ asked = [w \in Workers |-> NoRequest]
         /\ answer = [w \in Workers |-> NoAnswer]

Ask(w, r) == /\ asked[w] = NoRequest
             /\ asked' = [asked EXCEPT ![w] = r]
             /\ UNCHANGED <<table, answer>>

Pending(w, op) == asked[w].op = op /\ answer[w] = NoAnswer

Answer(w, what, counts) ==
  /\ answer' = [answer EXCEPT ![w] = [said |-> what, shown |-> counts]]
  /\ UNCHANGED asked

Show(w) == /\ Pending(w, "show")
           /\ Answer(w, "stocks", table)
           /\ UNCHANGED table

Buy(w) == LET r == asked[w] IN
  /\ Pending(w, "buy") /\ r.id \in Stocks
  /\ \/ /\ table[r.id] >= r.count
        /\ table' = [table EXCEPT ![r.id] = @ - r.count]
        /\ Answer(w, "success", Nothing)
     \/ /\ table[r.id] < r.count
        /\ UNCHANGED table
        /\ Answer(w, "not enough", Nothing)

Sell(w) == LET r == asked[w] IN
  /\ Pending(w, "sell") /\ r.id \in Stocks
  /\ table' = [table EXCEPT ![r.id] = @ + r.count]
  /\ Answer(w, "success", Nothing)

\* The answer has been sent.
Done(w) == /\ answer[w] # NoAnswer
           /\ asked' = [asked EXCEPT ![w] = NoRequest]
           /\ answer' = [answer EXCEPT ![w] = NoAnswer]
           /\ UNCHANGED table

TNext == \E w \in Workers : \/ \E r \in Request : Ask(w, r)
                            \/ Show(w) \/ Buy(w) \/ Sell(w) \/ Done(w)

TSpec == TInit /\ [][TNext]_tvars
=============================================================================
