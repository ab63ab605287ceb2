------------------------- MODULE StockSessionProofs -------------------------
(***************************************************************************)
(* Proofs about module StockSession, for any finite number of workers, any *)
(* stocks and any bounds.                                                  *)
(***************************************************************************)
EXTENDS StockSessionProps, FiniteSetTheorems, TLAPS

\* What the type invariant says of pc in more detail, and of what a worker has
\* loaded; a FILE holds nodes of the tree only.
Typed ==
  /\ TypeOK
  /\ pc[main] \in {"idle", "open", "print", "exit"}
  /\ \A t \in Workers : /\ pc[t] # "exit"
                        /\ pc[t] = "inc" => reg[t] <= MAX_DRIFT
                        /\ pc[t] = "dec" => reg[t] <= MAX_DRIFT + 1
  /\ \A t \in Saving : DOMAIN buf[t] \subseteq DOMAIN count

\* Without a race the counter is right, also while a worker updates it.
Updating == {t \in Workers : pc[t] \in {"inc", "dec"}}

CountInv ==
  "race" \notin trouble =>
    /\ client_cnt = Cardinality(Counted)
    /\ \A t \in Updating : reg[t] = client_cnt
    /\ \A t, u \in Updating : t = u

\* A save that nobody has disturbed is alone, and the file is empty meanwhile.
OneSaver ==
  "saves" \notin trouble /\ "cut" \notin trouble =>
    /\ \A t, u \in Saving : t = u
    /\ Saving # {} => up /\ file = Nothing

\* Without damage the tree, and a file that nobody is writing, have all stocks.
Undamaged ==
  ~damaged =>
    /\ "saves" \notin trouble /\ "cut" \notin trouble
    /\ DOMAIN count = Stocks
    /\ Saving = {} => file \in Tables /\ DOMAIN file = Stocks

\* When no worker is left that has still to save, the file is right, or a
\* save that has not missed a trade is on its way.
Settled ==
  /\ up /\ trouble = {} /\ pc[main] = "idle"
  /\ \A t \in Workers : pc[t] \notin {"session", "dec", "open"}

LastSaves ==
  Settled =>
    \/ file = count
    \/ \E t \in Saving : \A s \in DOMAIN buf[t] : buf[t][s] = count[s]

\* After the signal what is printed is as new as the tree was at the signal.
Between(f) == \A s \in DOMAIN f : atSignal[s] <= f[s] /\ f[s] <= count[s]

AfterSignal ==
  /\ DOMAIN count = DOMAIN atSignal
  /\ \A s \in DOMAIN atSignal : atSignal[s] <= count[s]
  /\ trouble \cap {"saves", "nofile", "cut"} = {} =>
       /\ pc[main] = "print" => Between(buf[main])
       /\ pc[main] = "exit" =>
            /\ \A t \in Saving : Between(buf[t])
            /\ Saving = {} => /\ file \in Tables /\ DOMAIN file = DOMAIN count
                              /\ Between(file)

SigintInv == pc[main] # "idle" => AfterSignal

IInv == Typed /\ CountInv /\ OneSaver /\ Undamaged /\ LastSaves /\ SigintInv

-----------------------------------------------------------------------------
(***************************************************************************)
(* Tables.                                                                 *)
(***************************************************************************)
LEMMA TableFacts ==
  ASSUME SessionAssumption, NEW f \in Tables
  PROVE  /\ DOMAIN f \subseteq Stocks /\ f \in [DOMAIN f -> 0..MAX_VERSION]
         /\ f # Garbled /\ \A s \in DOMAIN f : f[s] \in Nat
<1>1. PICK S \in SUBSET Stocks : f \in [S -> 0..MAX_VERSION]
  BY DEF Tables
<1>2. f \in [S -> Nat] /\ DOMAIN f = S
  BY <1>1, SMT
<1> QED
  BY <1>1, <1>2 DEF SessionAssumption

LEMMA TableMake ==
  ASSUME NEW S \in SUBSET Stocks, NEW f \in [S -> 0..MAX_VERSION]
  PROVE  f \in Tables
BY DEF Tables

LEMMA TablesEqual ==
  ASSUME SessionAssumption, NEW f \in Tables, NEW g \in Tables,
         DOMAIN f = DOMAIN g, \A s \in DOMAIN f : f[s] = g[s]
  PROVE  f = g
<1>1. f = [s \in DOMAIN f |-> f[s]] /\ g = [s \in DOMAIN g |-> g[s]]
  BY TableFacts, SMT
<1> QED
  BY <1>1, SMT

LEMMA NothingTable ==
  SessionAssumption => Nothing \in Tables /\ DOMAIN Nothing = {}
<1>1. Nothing \in [{} -> 0..MAX_VERSION] /\ DOMAIN Nothing = {}
  BY DEF Nothing
<1> QED
  BY <1>1, TableMake

LEMMA NewTable ==
  SessionAssumption =>
    [s \in Stocks |-> 0] \in Tables /\ DOMAIN [s \in Stocks |-> 0] = Stocks
<1> SUFFICES ASSUME SessionAssumption
             PROVE  [s \in Stocks |-> 0] \in Tables
  OBVIOUS
<1>1. [s \in Stocks |-> 0] \in [Stocks -> 0..MAX_VERSION]
  BY DEF SessionAssumption
<1> QED
  BY <1>1, TableMake

\* What Close() leaves in the file.
LEMMA WrittenFacts ==
  ASSUME SessionAssumption, TypeOK, NEW t \in Threads
  PROVE  /\ Written(t) \subseteq Tables \cup {Garbled}
         /\ file = Nothing => Written(t) = {buf[t]}
BY DEF Written, TypeOK

LEMMA WorkersFinite ==
  ASSUME SessionAssumption, NEW S \in SUBSET Workers
  PROVE  IsFiniteSet(S) /\ Cardinality(S) \in Nat
BY FS_Subset, FS_CardinalityType DEF SessionAssumption

LEMMA InitInv == SessionAssumption /\ Init => IInv
<1> SUFFICES ASSUME SessionAssumption, Init  PROVE IInv
  OBVIOUS
<1> USE DEF Init
<1>1. TypeOK
  <2>1. count \in Tables /\ file \in Tables /\ atSignal \in Tables
    BY NothingTable, NewTable
  <2>2. buf \in [Threads -> Tables]
    BY NothingTable
  <2>3. client_cnt \in Int /\ client_cnt <= MAX_DRIFT + 1
    BY DEF SessionAssumption
  <2>4. reg \in [Workers -> Int]
    OBVIOUS
  <2> QED
    BY <2>1, <2>2, <2>3, <2>4 DEF TypeOK
<1>2. Saving = {} /\ Counted = {} /\ Updating = {}
  BY DEF Saving, Counted, Updating, Threads
<1>3. Typed
  BY <1>1, <1>2 DEF Typed, Threads
<1>4. CountInv
  BY <1>2, FS_EmptySet DEF CountInv
<1>5. Undamaged
  BY NewTable DEF Undamaged
<1>6. OneSaver /\ LastSaves
  BY <1>2 DEF OneSaver, LastSaves
<1>7. SigintInv
  BY DEF SigintInv, AfterSignal, Threads
<1> QED
  BY <1>3, <1>4, <1>5, <1>6, <1>7 DEF IInv

-----------------------------------------------------------------------------
(***************************************************************************)
(* The steps of the workers.                                               *)
(***************************************************************************)
\* A step of a worker that does not save keeps Saving.
LEMMA SavingKept ==
  ASSUME SessionAssumption, TypeOK, NEW t \in Threads, NEW l, Goto(t, l),
         l # "print", pc[t] # "print"
  PROVE  Saving' = Saving
BY DEF Saving, Goto, TypeOK

\* A worker begins or ends an update: nothing but pc, reg and trouble changes.
LEMMA LoadStep ==
  ASSUME SessionAssumption, IInv, NEW t \in Workers, Connect(t) \/ Leave(t)
  PROVE  IInv'
<1> USE DEF Connect, Leave, Load, At, Goto
<1>1. t \in Threads /\ main \in Threads /\ t # main
  BY DEF Threads, SessionAssumption
<1>2. TypeOK /\ TypeOK'
  <2>1. TypeOK
    BY DEF IInv, Typed
  <2>2. reg' \in [Workers -> Int]
    BY <2>1 DEF TypeOK
  <2>3. /\ pc' \in [Threads -> {"idle", "inc", "session", "dec", "open", "print", "exit"}]
        /\ trouble' \subseteq {"race", "saves", "nofile", "cut"}
    BY <1>1, <2>1 DEF TypeOK
  <2> QED
    BY <2>1, <2>2, <2>3 DEF TypeOK
<1>3. Saving' = Saving
  BY <1>1, <1>2, SavingKept
<1>4. /\ pc'[main] = pc[main] /\ pc'[t] \in {"inc", "dec"}
      /\ \A u \in Workers \ {t} : pc'[u] = pc[u] /\ reg'[u] = reg[u]
      /\ reg'[t] = client_cnt
      /\ \A x \in {"saves", "nofile", "cut"} : x \in trouble' <=> x \in trouble
      /\ trouble \subseteq trouble'
  BY <1>1, <1>2 DEF TypeOK, Threads
<1>5. Typed'
  <2>1. Leave(t) => client_cnt <= MAX_DRIFT + 1
    BY <1>2 DEF TypeOK
  <2>2. Connect(t) => pc'[t] = "inc" /\ client_cnt <= MAX_DRIFT
    BY <1>1, <1>2 DEF TypeOK, SessionAssumption
  <2>3. Leave(t) => pc'[t] = "dec"
    BY <1>1, <1>2 DEF TypeOK
  <2>4. \A u \in Workers : /\ pc'[u] # "exit"
                           /\ pc'[u] = "inc" => reg'[u] <= MAX_DRIFT
                           /\ pc'[u] = "dec" => reg'[u] <= MAX_DRIFT + 1
    BY <1>4, <2>1, <2>2, <2>3 DEF IInv, Typed
  <2> QED
    BY <1>2, <1>3, <1>4, <2>4 DEF IInv, Typed
<1>6. CountInv'
  <2> SUFFICES ASSUME "race" \notin trouble'
               PROVE  /\ client_cnt = Cardinality(Counted')
                      /\ \A u \in Updating' : reg'[u] = client_cnt
                      /\ \A u, v \in Updating' : u = v
    BY DEF CountInv
  <2>1. "race" \notin trouble /\ \A u \in Workers \ {t} : pc[u] \notin {"inc", "dec"}
    BY <1>4
  <2>2. Updating' = {t}
    BY <1>4, <2>1 DEF Updating
  <2>3. Counted' = Counted
    <3>1. \A u \in Workers : pc'[u] \in {"session", "dec"} <=> pc[u] \in {"session", "dec"}
      BY <1>1, <1>2, <1>4 DEF TypeOK
    <3> QED
      BY <3>1 DEF Counted
  <2> QED
    BY <1>4, <2>1, <2>2, <2>3 DEF IInv, CountInv
<1>7. OneSaver' /\ Undamaged'
  BY <1>3, <1>4 DEF IInv, OneSaver, Undamaged
<1>8. LastSaves'
  <2>1. Settled' => Settled
    BY <1>1, <1>2, <1>4 DEF Settled, TypeOK
  <2> QED
    BY <1>3, <2>1 DEF IInv, LastSaves
<1>9. SigintInv'
  BY <1>3, <1>4 DEF IInv, SigintInv, AfterSignal, Between
<1> QED
  BY <1>5, <1>6, <1>7, <1>8, <1>9 DEF IInv

\* A worker ends an update: Saving, the table and the history stay.
LEMMA StoreStep ==
  ASSUME SessionAssumption, IInv, NEW t \in Workers, StoreInc(t) \/ StoreDec(t)
  PROVE  IInv'
<1> USE DEF StoreInc, StoreDec, At, Goto, hist
<1>1. t \in Threads /\ main \in Threads /\ t # main
  BY DEF Threads, SessionAssumption
<1>2. TypeOK /\ TypeOK'
  <2>1. TypeOK /\ reg[t] \in Int
    BY DEF IInv, Typed, TypeOK
  <2>2. reg' \in [Workers -> Int]
    BY <2>1 DEF TypeOK
  <2>3. client_cnt' \in Int /\ client_cnt' <= MAX_DRIFT + 1
    BY <2>1 DEF IInv, Typed, SessionAssumption
  <2>4. pc' \in [Threads -> {"idle", "inc", "session", "dec", "open", "print", "exit"}]
    BY <1>1, <2>1 DEF TypeOK
  <2> QED
    BY <2>1, <2>2, <2>3, <2>4 DEF TypeOK
<1>3. Saving' = Saving
  BY <1>1, <1>2 DEF Saving, TypeOK
<1>4. /\ pc'[main] = pc[main]
      /\ StoreInc(t) => pc[t] = "inc" /\ pc'[t] = "session"
      /\ StoreDec(t) => /\ pc[t] = "dec"
                        /\ pc'[t] = IF client_cnt' = 0 THEN "open" ELSE "idle"
      /\ \A u \in Workers \ {t} : pc'[u] = pc[u] /\ reg'[u] = reg[u]
      /\ UNCHANGED <<up, count, file, buf, trouble, damaged, atSignal>>
  BY <1>1, <1>2 DEF TypeOK, Threads
<1>5. Typed'
  BY <1>2, <1>3, <1>4 DEF IInv, Typed
<1>6. CountInv'
  <2> SUFFICES ASSUME "race" \notin trouble
               PROVE  client_cnt' = Cardinality(Counted') /\ Updating' = {}
    BY <1>4 DEF CountInv
  <2>1. client_cnt = Cardinality(Counted) /\ reg[t] = client_cnt /\ Updating = {t}
    BY <1>4 DEF IInv, CountInv, Updating
  <2>2. Updating' = {}
    BY <1>4, <2>1 DEF Updating
  <2>3. IsFiniteSet(Counted) /\ Cardinality(Counted) \in Nat
    BY WorkersFinite DEF Counted
  <2>4. CASE StoreInc(t)
    <3>1. t \notin Counted /\ Counted' = Counted \cup {t}
      BY <1>4, <2>4 DEF Counted
    <3> QED
      BY <2>1, <2>2, <2>3, <2>4, <3>1, FS_AddElement
  <2>5. CASE StoreDec(t)
    <3>1. t \in Counted /\ Counted' = Counted \ {t}
      BY <1>4, <2>5 DEF Counted
    <3>2. Cardinality(Counted') = Cardinality(Counted) - 1
      BY <2>3, <3>1, FS_RemoveElement
    <3> QED
      BY <2>1, <2>2, <2>5, <3>2
  <2> QED
    BY <2>4, <2>5
<1>7. OneSaver' /\ Undamaged'
  BY <1>3, <1>4 DEF IInv, OneSaver, Undamaged
<1>8. LastSaves'
  <2> SUFFICES ASSUME Settled'  PROVE FALSE
    BY DEF LastSaves
  <2>1. StoreDec(t) /\ client_cnt' # 0
    BY <1>4 DEF Settled
  <2>2. Counted' = {}
    BY DEF Settled, Counted
  <2>3. client_cnt' = Cardinality(Counted')
    BY <1>4, <1>6 DEF CountInv, Settled
  <2> QED
    BY <2>1, <2>2, <2>3, FS_EmptySet
<1>9. SigintInv'
  BY <1>3, <1>4 DEF IInv, SigintInv, AfterSignal, Between
<1> QED
  BY <1>5, <1>6, <1>7, <1>8, <1>9 DEF IInv

\* While a client is there, nothing has to be in the file.
LEMMA TradeStep ==
  ASSUME SessionAssumption, IInv, NEW t \in Workers, NEW s \in Stocks, Trade(t, s)
  PROVE  IInv'
<1> USE DEF Trade, At, hist
<1>1. TypeOK
  BY DEF IInv, Typed
<1>2. /\ count' \in Tables /\ DOMAIN count' = DOMAIN count
      /\ \A i \in DOMAIN count : count[i] \in Nat /\ count[i] <= count'[i]
  <2>1. count \in Tables
    BY <1>1 DEF TypeOK
  <2>2. /\ DOMAIN count \subseteq Stocks /\ count \in [DOMAIN count -> 0..MAX_VERSION]
        /\ \A i \in DOMAIN count : count[i] \in Nat
    BY <2>1, TableFacts
  <2>3. /\ count' \in [DOMAIN count -> 0..MAX_VERSION]
        /\ \A i \in DOMAIN count : count[i] <= count'[i]
    BY <2>2 DEF SessionAssumption
  <2> QED
    BY <2>2, <2>3, TableMake
<1>3. Typed'
  BY <1>1, <1>2 DEF IInv, Typed, TypeOK, Saving
<1>4. CountInv' /\ OneSaver' /\ Undamaged'
  BY <1>2 DEF IInv, CountInv, Counted, Updating, OneSaver, Undamaged, Saving
<1>5. LastSaves'
  BY DEF LastSaves, Settled
<1>6. SigintInv'
  <2> SUFFICES ASSUME pc[main] # "idle"  PROVE AfterSignal'
    BY DEF SigintInv
  <2>1. /\ DOMAIN atSignal = DOMAIN count /\ \A i \in DOMAIN count : atSignal[i] \in Nat
    BY <1>1, TableFacts DEF IInv, SigintInv, AfterSignal, TypeOK
  <2>2. \A f \in Tables : Between(f) /\ DOMAIN f \subseteq DOMAIN count => Between(f)'
    BY <1>2, <2>1, TableFacts DEF Between
  <2>3. \A u \in Saving : buf[u] \in Tables /\ DOMAIN buf[u] \subseteq DOMAIN count
    BY <1>1 DEF IInv, Typed, TypeOK, Saving
  <2>4. pc[main] = "print" => main \in Saving
    BY DEF Saving, Threads
  <2>5. Saving' = Saving
    BY DEF Saving
  <2> QED
    BY <1>2, <2>1, <2>2, <2>3, <2>4, <2>5 DEF IInv, SigintInv, AfterSignal
<1> QED
  BY <1>3, <1>4, <1>5, <1>6 DEF IInv

\* The end of the process leaves a file that is in order if no one was saving.
LEMMA ExitStep ==
  ASSUME SessionAssumption, IInv, Exit  PROVE IInv'
<1> USE DEF Exit
<1>1. TypeOK
  BY DEF IInv, Typed
<1>2. TypeOK'
  <2>1. Flushed \subseteq Tables \cup {Garbled}
    BY <1>1, WrittenFacts DEF Flushed, TypeOK, Saving
  <2> QED
    BY <1>1, <2>1 DEF TypeOK
<1>3. Saving' = Saving /\ Counted' = Counted /\ Updating' = Updating
  BY DEF Saving, Counted, Updating
<1>4. /\ trouble \subseteq trouble'
      /\ "race" \in trouble' <=> "race" \in trouble
      /\ "cut" \notin trouble' => Saving = {} /\ trouble' = trouble /\ file' = file
      /\ ~damaged' => ~damaged /\ Saving = {} /\ trouble' = trouble /\ file' = file
  BY DEF Flushed
<1>5. Typed' /\ CountInv'
  BY <1>1, <1>2, <1>3, <1>4 DEF IInv, Typed, CountInv
<1>6. OneSaver' /\ Undamaged' /\ LastSaves'
  BY <1>3, <1>4 DEF IInv, OneSaver, Undamaged, LastSaves, Settled
<1>7. SigintInv'
  BY <1>3, <1>4 DEF IInv, SigintInv, AfterSignal, Between
<1> QED
  BY <1>5, <1>6, <1>7 DEF IInv

-----------------------------------------------------------------------------
(***************************************************************************)
(* The steps of a save, the signal and the restart.                        *)
(***************************************************************************)
\* What a step of write_stock() does to pc.
LEMMA SaverMoves ==
  ASSUME SessionAssumption, TypeOK, NEW t \in Threads, NEW l,
         pc[t] \in {"open", "print"}, Goto(t, l), l \in {"print", After(t)}
  PROVE  /\ pc' \in [Threads -> {"idle", "inc", "session", "dec", "open", "print", "exit"}]
         /\ pc'[t] = l /\ \A u \in Threads \ {t} : pc'[u] = pc[u]
         /\ Counted' = Counted /\ Updating' = Updating
         /\ (t \in Workers => l \in {"print", "idle"}) /\ (t = main => l \in {"print", "exit"})
         /\ Saving' = IF l = "print" THEN Saving \cup {t} ELSE Saving \ {t}
<1> USE DEF Goto, After
<1>1. /\ pc' \in [Threads -> {"idle", "inc", "session", "dec", "open", "print", "exit"}]
      /\ pc'[t] = l /\ \A u \in Threads \ {t} : pc'[u] = pc[u]
  BY DEF TypeOK
<1>2. /\ t \in Workers => l \in {"print", "idle"}
      /\ t = main => l \in {"print", "exit"}
      /\ Workers \subseteq Threads
  BY DEF SessionAssumption, Threads
<1>3. Counted' = Counted /\ Updating' = Updating
  BY <1>1, <1>2 DEF Counted, Updating
<1>4. Saving' = IF l = "print" THEN Saving \cup {t} ELSE Saving \ {t}
  BY <1>1, <1>2 DEF Saving
<1> QED
  BY <1>1, <1>2, <1>3, <1>4

LEMMA OpenStep ==
  ASSUME SessionAssumption, IInv, NEW t \in Threads, Open(t)  PROVE IInv'
<1> USE DEF Open, At
<1>1. TypeOK /\ main \in Threads /\ Nothing \in Tables /\ DOMAIN Nothing = {}
  BY NothingTable DEF IInv, Typed, Threads
<1>2. /\ pc' \in [Threads -> {"idle", "inc", "session", "dec", "open", "print", "exit"}]
      /\ pc'[t] = "print" /\ \A u \in Threads \ {t} : pc'[u] = pc[u]
      /\ Counted' = Counted /\ Updating' = Updating /\ Saving' = Saving \cup {t}
      /\ t \notin Saving
  BY <1>1, SaverMoves DEF Saving
<1>3. /\ buf' \in [Threads -> Tables] /\ buf'[t] = Nothing
      /\ \A u \in Threads \ {t} : buf'[u] = buf[u]
  BY <1>1 DEF TypeOK
<1>4. /\ trouble \subseteq trouble' /\ trouble' \subseteq trouble \cup {"saves"}
      /\ "saves" \notin trouble' => Saving = {}
      /\ ~damaged' => ~damaged /\ Saving = {} /\ trouble' = trouble
  OBVIOUS
<1>5. TypeOK'
  BY <1>1, <1>2, <1>3, <1>4 DEF TypeOK
<1>6. Typed'
  BY <1>1, <1>2, <1>3, <1>5 DEF IInv, Typed, Threads, Saving
<1>7. CountInv'
  BY <1>2, <1>4 DEF IInv, CountInv
<1>8. OneSaver' /\ Undamaged'
  BY <1>2, <1>4 DEF IInv, OneSaver, Undamaged
<1>9. LastSaves'
  BY <1>1, <1>2, <1>3 DEF LastSaves
<1>10. SigintInv'
  <2> SUFFICES ASSUME pc'[main] # "idle"  PROVE AfterSignal'
    BY DEF SigintInv
  <2>1. AfterSignal
    BY <1>1, <1>2 DEF IInv, SigintInv
  <2>2. ASSUME pc'[main] = "print"  PROVE main = t \/ pc[main] = "print"
    BY <1>1, <1>2, <2>2
  <2> QED
    BY <1>1, <1>2, <1>3, <1>4, <2>1, <2>2 DEF AfterSignal, Between
<1> QED
  BY <1>6, <1>7, <1>8, <1>9, <1>10 DEF IInv

LEMMA OpenFailsStep ==
  ASSUME SessionAssumption, IInv, NEW t \in Threads, OpenFails(t)  PROVE IInv'
<1> USE DEF OpenFails, At
<1>1. TypeOK /\ main \in Threads
  BY DEF IInv, Typed, Threads
<1>2. /\ pc' \in [Threads -> {"idle", "inc", "session", "dec", "open", "print", "exit"}]
      /\ pc'[t] = After(t) /\ \A u \in Threads \ {t} : pc'[u] = pc[u]
      /\ Counted' = Counted /\ Updating' = Updating
      /\ t \in Workers => pc'[t] = "idle"
      /\ t = main => pc'[t] = "exit"
      /\ t \notin Saving /\ Saving' = Saving
  BY <1>1, SaverMoves DEF Saving, After
<1>3. TypeOK'
  BY <1>1, <1>2 DEF TypeOK
<1>4. Typed'
  BY <1>1, <1>2, <1>3 DEF IInv, Typed, Threads
<1>5. CountInv' /\ OneSaver' /\ Undamaged' /\ LastSaves'
  BY <1>2 DEF IInv, CountInv, OneSaver, Undamaged, LastSaves, Settled
<1>6. SigintInv'
  BY <1>1, <1>2 DEF IInv, SigintInv, AfterSignal
<1> QED
  BY <1>4, <1>5, <1>6 DEF IInv

LEMMA PrintStep ==
  ASSUME SessionAssumption, IInv, NEW t \in Threads, NEW s \in Stocks, PrintNode(t, s)
  PROVE  IInv'
<1> USE DEF PrintNode, At, hist
<1>1. TypeOK /\ t \in Saving
  BY DEF IInv, Typed, Saving
<1>2. /\ buf'[t] \in Tables /\ DOMAIN buf'[t] = DOMAIN buf[t] \cup {s}
      /\ DOMAIN buf[t] \subseteq DOMAIN count
      /\ buf'[t][s] = count[s] /\ count[s] \in Nat
      /\ \A i \in DOMAIN buf[t] : buf'[t][i] = buf[t][i]
      /\ buf' \in [Threads -> Tables] /\ \A u \in Threads \ {t} : buf'[u] = buf[u]
  <2>1. buf[t] \in Tables /\ count \in Tables
    BY <1>1 DEF TypeOK
  <2>2. /\ DOMAIN buf[t] \subseteq Stocks /\ buf[t] \in [DOMAIN buf[t] -> 0..MAX_VERSION]
        /\ count[s] \in 0..MAX_VERSION
    BY <2>1, TableFacts
  <2> DEFINE new == [i \in DOMAIN buf[t] \cup {s} |-> IF i = s THEN count[s] ELSE buf[t][i]]
  <2>3. new \in [DOMAIN buf[t] \cup {s} -> 0..MAX_VERSION]
    BY <2>2
  <2>4. new \in Tables
    BY <2>2, <2>3, TableMake
  <2>5. DOMAIN buf[t] \subseteq DOMAIN count
    BY <1>1 DEF IInv, Typed
  <2> HIDE DEF new
  <2>6. buf' = [buf EXCEPT ![t] = new]
    BY DEF new
  <2>7. buf'[t] = new /\ buf' \in [Threads -> Tables]
        /\ \A u \in Threads \ {t} : buf'[u] = buf[u]
    BY <1>1, <2>4, <2>6 DEF TypeOK
  <2> QED
    BY <2>2, <2>4, <2>5, <2>7 DEF new
<1>3. Saving' = Saving
  BY DEF Saving
<1>4. Typed'
  BY <1>1, <1>2, <1>3 DEF IInv, Typed, TypeOK, Saving
<1>5. CountInv' /\ OneSaver' /\ Undamaged'
  BY <1>3 DEF IInv, CountInv, Counted, Updating, OneSaver, Undamaged
<1>6. LastSaves'
  <2>1. Settled' <=> Settled
    BY DEF Settled
  <2>2. \A u \in Saving : (\A i \in DOMAIN buf[u] : buf[u][i] = count[i])
                          => \A i \in DOMAIN buf'[u] : buf'[u][i] = count[i]
    BY <1>2 DEF Saving
  <2> QED
    BY <1>3, <2>1, <2>2 DEF IInv, LastSaves
<1>7. SigintInv'
  <2> SUFFICES ASSUME pc[main] # "idle"  PROVE AfterSignal'
    BY DEF SigintInv
  <2>1. AfterSignal
    BY DEF IInv, SigintInv
  <2>2. Between(buf[t]) => Between(buf[t])'
    BY <1>2, <2>1 DEF Between, AfterSignal
  <2>3. \A u \in Threads \ {t} : Between(buf[u]) => Between(buf[u])'
    BY <1>2 DEF Between
  <2>4. main \in Threads /\ Saving \subseteq Threads
    BY DEF Threads, Saving
  <2>5. Between(file)' = Between(file)
    BY DEF Between
  <2> QED
    BY <1>3, <2>1, <2>2, <2>3, <2>4, <2>5 DEF AfterSignal
<1> QED
  BY <1>4, <1>5, <1>6, <1>7 DEF IInv

\* A save that was alone leaves what it has printed: all nodes of the tree.
LEMMA CloseStep ==
  ASSUME SessionAssumption, IInv, NEW t \in Threads, Close(t)  PROVE IInv'
<1> USE DEF Close, At, hist
<1>1. /\ TypeOK /\ main \in Threads /\ t \in Saving
      /\ Nothing \in Tables /\ DOMAIN Nothing = {}
  BY NothingTable DEF IInv, Typed, Threads, Saving
<1>2. /\ pc' \in [Threads -> {"idle", "inc", "session", "dec", "open", "print", "exit"}]
      /\ pc'[t] = After(t) /\ \A u \in Threads \ {t} : pc'[u] = pc[u]
      /\ Counted' = Counted /\ Updating' = Updating
      /\ t \in Workers => pc'[t] = "idle"
      /\ t = main => pc'[t] = "exit"
      /\ Saving' = Saving \ {t}
  BY <1>1, SaverMoves DEF After
<1>3. buf' \in [Threads -> Tables] /\ \A u \in Threads \ {t} : buf'[u] = buf[u]
  BY <1>1 DEF TypeOK
<1>4. ASSUME "saves" \notin trouble, "cut" \notin trouble
      PROVE  /\ Saving = {t} /\ Saving' = {} /\ file = Nothing
             /\ file' = buf[t] /\ file' \in Tables /\ DOMAIN file' = DOMAIN count
  <2>1. Saving = {t} /\ file = Nothing
    BY <1>1, <1>4 DEF IInv, OneSaver
  <2>2. file' = buf[t] /\ buf[t] \in Tables
    BY <1>1, <2>1, WrittenFacts DEF TypeOK
  <2> QED
    BY <1>2, <2>1, <2>2
<1>5. TypeOK'
  <2>1. file' \in Tables \cup {Garbled}
    BY <1>1, WrittenFacts
  <2> QED
    BY <1>1, <1>2, <1>3, <2>1 DEF TypeOK
<1>6. Typed'
  BY <1>1, <1>2, <1>3, <1>5 DEF IInv, Typed, Threads, Saving
<1>7. CountInv'
  BY <1>2 DEF IInv, CountInv
<1>8. OneSaver' /\ Undamaged'
  BY <1>2, <1>4 DEF IInv, OneSaver, Undamaged
<1>9. LastSaves'
  <2> SUFFICES ASSUME Settled'  PROVE file' = count
    BY DEF LastSaves
  <2>1. Settled
    BY <1>1, <1>2 DEF Settled, Threads
  <2>2. Saving = {t} /\ file = Nothing /\ file' = buf[t] /\ DOMAIN file' = DOMAIN count
    BY <1>4, <2>1 DEF Settled
  <2>3. \A s \in DOMAIN count : file'[s] = count[s]
    BY <1>1, <2>1, <2>2 DEF IInv, LastSaves
  <2>4. file' \in Tables /\ count \in Tables
    BY <1>1, <2>2 DEF TypeOK
  <2> QED
    BY <2>2, <2>3, <2>4, TablesEqual
<1>10. SigintInv'
  <2> SUFFICES ASSUME pc'[main] # "idle"  PROVE AfterSignal'
    BY DEF SigintInv
  <2>1. AfterSignal
    BY <1>1, <1>2 DEF IInv, SigintInv
  <2>2. pc'[main] = "print" => main \in Saving /\ main # t
    BY <1>2 DEF Saving, Threads
  <2>3. pc'[main] = "exit" => main = t \/ pc[main] = "exit"
    BY <1>1, <1>2
  <2>4. pc[t] = "print"
    OBVIOUS
  <2> QED
    BY <1>4, <2>1, <2>2, <2>3, <2>4 DEF AfterSignal, Between
<1> QED
  BY <1>6, <1>7, <1>8, <1>9, <1>10 DEF IInv

LEMMA SigintStep ==
  ASSUME SessionAssumption, IInv, Sigint  PROVE IInv'
<1> USE DEF Sigint, At, Goto
<1>1. TypeOK /\ main \in Threads
  BY DEF IInv, Typed, Threads
<1>2. /\ pc' \in [Threads -> {"idle", "inc", "session", "dec", "open", "print", "exit"}]
      /\ pc'[main] = "open" /\ \A u \in Workers : pc'[u] = pc[u]
  BY <1>1 DEF TypeOK, SessionAssumption, Threads
<1>3. Saving' = Saving /\ Counted' = Counted /\ Updating' = Updating
  <2>1. \A u \in Threads : pc'[u] = "print" <=> pc[u] = "print"
    BY <1>1, <1>2 DEF Threads
  <2> QED
    BY <1>2, <2>1 DEF Saving, Counted, Updating
<1>4. Typed'
  BY <1>1, <1>2, <1>3 DEF IInv, Typed, TypeOK
<1>5. CountInv' /\ OneSaver' /\ Undamaged'
  BY <1>3 DEF IInv, CountInv, OneSaver, Undamaged
<1>6. LastSaves'
  BY <1>2 DEF LastSaves, Settled
<1>7. SigintInv'
  <2>1. \A s \in DOMAIN count : count[s] <= count[s]
    BY <1>1, TableFacts DEF TypeOK
  <2> QED
    BY <1>2, <2>1 DEF SigintInv, AfterSignal
<1> QED
  BY <1>4, <1>5, <1>6, <1>7 DEF IInv

LEMMA RestartStep ==
  ASSUME SessionAssumption, IInv, Restart  PROVE IInv'
<1> USE DEF Restart, Start
<1>1. TypeOK /\ Nothing \in Tables /\ file \in Tables
  BY NothingTable DEF IInv, Typed, TypeOK
<1>2. Saving' = {} /\ Counted' = {} /\ Updating' = {}
  BY DEF Saving, Counted, Updating, Threads
<1>3. TypeOK'
  <2>1. client_cnt' \in Int /\ client_cnt' <= MAX_DRIFT + 1
    BY DEF SessionAssumption
  <2>2. buf' \in [Threads -> Tables]
    BY <1>1
  <2> QED
    BY <1>1, <2>1, <2>2 DEF TypeOK
<1>4. Typed'
  BY <1>2, <1>3 DEF Typed, Threads
<1>5. CountInv'
  BY <1>2, FS_EmptySet DEF CountInv
<1>6. OneSaver' /\ LastSaves'
  BY <1>2 DEF OneSaver, LastSaves
<1>7. Undamaged'
  BY <1>1 DEF IInv, Undamaged, OneSaver
<1>8. SigintInv'
  BY DEF SigintInv, Threads
<1> QED
  BY <1>4, <1>5, <1>6, <1>7, <1>8 DEF IInv

-----------------------------------------------------------------------------
LEMMA NextInv == SessionAssumption /\ IInv /\ [Next]_vars => IInv'
<1> SUFFICES ASSUME SessionAssumption, IInv, [Next]_vars  PROVE IInv'
  OBVIOUS
<1>1. ASSUME NEW t \in Workers, Connect(t) \/ Leave(t)  PROVE IInv'
  BY <1>1, LoadStep
<1>2. ASSUME NEW t \in Workers, StoreInc(t) \/ StoreDec(t)  PROVE IInv'
  BY <1>2, StoreStep
<1>3. ASSUME NEW t \in Workers, NEW s \in Stocks, Trade(t, s)  PROVE IInv'
  BY <1>3, TradeStep
<1>4. ASSUME NEW t \in Workers, SessionFails(t)  PROVE IInv'
  BY <1>4, ExitStep DEF SessionFails
<1>5. ASSUME NEW t \in Threads, Save(t)  PROVE IInv'
  BY <1>5, OpenStep, OpenFailsStep, CloseStep, PrintStep DEF Save
<1>6. CASE Sigint \/ HandlerExits \/ Restart
  BY <1>6, SigintStep, ExitStep, RestartStep DEF HandlerExits
<1>7. CASE UNCHANGED vars
  <2> USE <1>7 DEF vars
  <2>1. Typed' /\ CountInv'
    BY DEF IInv, Typed, TypeOK, CountInv, Saving, Counted, Updating
  <2>2. OneSaver' /\ Undamaged' /\ LastSaves' /\ SigintInv'
    BY DEF IInv, OneSaver, Undamaged, LastSaves, Settled, SigintInv, AfterSignal,
           Between, Saving
  <2> QED
    BY <2>1, <2>2 DEF IInv
<1> QED
  BY <1>1, <1>2, <1>3, <1>4, <1>5, <1>6, <1>7 DEF Next

\* Every reachable state satisfies the invariant.
THEOREM SessionInvariant == ASSUME SessionAssumption  PROVE Spec => []IInv
BY InitInv, NextInv, PTL DEF Spec

\* However many workers there are: while no two of them have been in
\* client_cnt++ or client_cnt-- at once, the counter that no lock protects is
\* the number of the clients served.
THEOREM CounterIsRight == ASSUME SessionAssumption  PROVE Spec => []CountRight
<1>1. IInv => CountRight
  BY DEF IInv, Typed, CountInv, CountRight
<1> QED
  BY <1>1, SessionInvariant, PTL

\* When every worker waits and nothing has gone wrong, the last client's
\* worker has saved the table.
THEOREM LastClientSaves == ASSUME SessionAssumption  PROVE Spec => []SavedWhenQuiet
<1>1. IInv => SavedWhenQuiet
  <2> SUFFICES ASSUME IInv, up, Quiet, trouble = {}  PROVE file = count
    BY DEF SavedWhenQuiet
  <2>1. Settled /\ Saving = {}
    BY DEF Settled, Quiet, Saving, Threads
  <2> QED
    BY <2>1 DEF IInv, LastSaves
<1> QED
  BY <1>1, SessionInvariant, PTL

\* A save by the handler of SIGINT that no other save has disturbed holds every
\* trade made before the signal, and only what was true at or after it.
THEOREM SignalSaves == ASSUME SessionAssumption  PROVE Spec => []SigintSaves
<1>1. IInv => SigintSaves
  <2> SUFFICES ASSUME IInv, ~up, pc[main] = "exit",
                      trouble \cap {"saves", "nofile", "cut"} = {}
               PROVE  /\ file # Garbled /\ DOMAIN file = DOMAIN atSignal
                      /\ \A s \in DOMAIN atSignal : atSignal[s] <= file[s] /\ file[s] <= count[s]
    BY DEF SigintSaves
  <2>1. Saving = {}
    BY DEF IInv, OneSaver
  <2>2. file \in Tables /\ DOMAIN file = DOMAIN atSignal /\ Between(file)
    BY <2>1 DEF IInv, SigintInv, AfterSignal
  <2> QED
    BY <2>2, TableFacts DEF Between
<1> QED
  BY <1>1, SessionInvariant, PTL

\* No stock is lost over any number of restarts unless a save was cut short or
\* two saves have met.
THEOREM StocksAreKept == ASSUME SessionAssumption  PROVE Spec => []StocksStay
<1>1. IInv => StocksStay
  BY DEF IInv, Undamaged, StocksStay
<1> QED
  BY <1>1, SessionInvariant, PTL
=============================================================================
