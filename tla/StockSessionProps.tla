------------------------- MODULE StockSessionProps -------------------------
(***************************************************************************)
(* What stock.txt is required to hold, and what can keep it from that.     *)
(***************************************************************************)
EXTENDS StockSession

Tables == UNION {[S -> 0..MAX_VERSION] : S \in SUBSET Stocks}

\* Type invariant.
TypeOK ==
  /\ up \in BOOLEAN /\ damaged \in BOOLEAN
  /\ count \in Tables /\ file \in Tables \cup {Garbled} /\ atSignal \in Tables
  /\ client_cnt \in Int /\ client_cnt <= MAX_DRIFT + 1
  /\ pc \in [Threads -> {"idle", "inc", "session", "dec", "open", "print", "exit"}]
  /\ reg \in [Workers -> Int]
  /\ buf \in [Threads -> Tables]
  /\ trouble \subseteq {"race", "saves", "nofile", "cut"}

\* The state is well formed, and client_cnt is the number of clients served, as long as no two
\* workers have been in client_cnt++ or client_cnt-- at once.
Counted == {t \in Workers : pc[t] \in {"session", "dec"}}

CountRight ==
  /\ TypeOK
  /\ "race" \notin trouble => client_cnt = Cardinality(Counted)

\* When the last client has gone, the file holds the table; only a lost update
\* of client_cnt, two saves at once or a failing fopen() can prevent it.
Quiet == \A t \in Threads : pc[t] = "idle"

SavedWhenQuiet == up /\ Quiet /\ trouble = {} => file = count

\* After SIGINT every trade that was made before the signal is in the file,
\* and every line of the file was true at or after the signal, although
\* clients may go on trading meanwhile.
SigintSaves ==
  ~up /\ pc[main] = "exit" /\ trouble \cap {"saves", "nofile", "cut"} = {} =>
    /\ file # Garbled /\ DOMAIN file = DOMAIN atSignal
    /\ \A s \in DOMAIN atSignal : atSignal[s] <= file[s] /\ file[s] <= count[s]

\* A stock is never lost from the table, over any number of restarts, unless
\* the process has ended in the middle of a save or two saves have met.
StocksStay == ~damaged => DOMAIN count = Stocks
=============================================================================
