--------------------------- MODULE ProgramProofs ---------------------------
(***************************************************************************)
(* Proofs about the three programs of CSE4100 that are one process with a  *)
(* state of its own: the event-driven stock server (module EventServer,    *)
(* for any finite set of clients, any size of the pool and any bound on    *)
(* the shares), the shell (module Shell, for any set of process            *)
(* identifiers) and the allocator (module Allocator, for any size of the   *)
(* heap, any chunk and reserve, and any sizes that clients ask for).       *)
(***************************************************************************)
EXTENDS EventServerProps, ShellProps, AllocatorProps, FiniteSetTheorems,
        NaturalsInduction, WellFoundedInduction, TLAPS
-----------------------------------------------------------------------------
(* The event-driven stock server *)

\* What the type invariant says of inbox in more detail: a client sends a
\* second line only after the answer to the first.
Lines == {<<>>} \cup {<<r>> : r \in Requests}

Typed == TypeOK /\ inbox \in [Clients -> Lines]

\* The shares that clients are about to sell fit the bound of the model.
SellsFit == count + Cardinality(Sells) <= MAX_COUNT

\* The pool of clients: PoolRight, and a descriptor has one slot only.
Used == {s \in Slots : clientfd[s] # None}

PoolInv ==
  /\ \A s, t \in Used : clientfd[s] = clientfd[t] => s = t
  /\ read_set = {listenfd} \cup {clientfd[s] : s \in Used}
  /\ client_cnt = Cardinality(Used)
  /\ Cardinality(read_set) = client_cnt + 1
  /\ \A s \in Used : s <= maxi

\* A client that is connected waits for accept() or has a slot.
ConnInv ==
  /\ \A c \in Clients : client[c] # "out" <=> c \in Waiting \cup read_set
  /\ Waiting \cap read_set = {}
  /\ \A k, m \in DOMAIN backlog : backlog[k] = backlog[m] => k = m
  /\ \A c \in Clients : inbox[c] # <<>> => client[c] \in {"sent", "reset"}

\* nready is the number of descriptors that check_clients() has still to find.
Pending == {c \in ready_set \ {listenfd} : \E s \in Slots : s >= i /\ clientfd[s] = c}

RoundInv ==
  /\ pc = "select" => nready = 0 /\ i = 0 /\ ready_set = {}
  /\ pc = "accept" => i = 0 /\ ready_set \subseteq read_set /\ nready = Cardinality(ready_set)
  /\ pc \in {"check", "open", "print"} => nready = Cardinality(Pending)

\* stock.txt is truncated only inside write_stock(), and is the tree when the
\* last client has gone and after the handler.
FileInv ==
  /\ file = -1 => status = "up" /\ pc \in {"print", "sigint"}
  /\ status = "up" /\ client_cnt = 0 /\ pc \notin {"open", "print", "sigint"} => file = count
  /\ status = "sigint" => file = count
  /\ status # "up" => \A c \in Clients : client[c] = "out"

IInv == Typed /\ SellsFit /\ PoolInv /\ ConnInv /\ RoundInv /\ FileInv

-----------------------------------------------------------------------------
(***************************************************************************)
(* The smallest free slot, and the sizes of the sets.                      *)
(***************************************************************************)
LEMMA NatMin ==
  ASSUME NEW S \in SUBSET Nat, S # {}
  PROVE  Min(S) \in S
<1>1. PICK x \in S : \A y \in S : ~ (<<y, x>> \in OpToRel(<, Nat))
  BY NatLessThanWellFounded, WFMin
<1>2. \A y \in S : ~ (y < x)
  BY <1>1 DEF OpToRel
<1>3. \A y \in S : x =< y
  BY <1>2, SMT
<1> QED
  BY <1>3 DEF Min

LEMMA SlotsFinite ==
  ASSUME EventAssumption, NEW S \in SUBSET Slots
  PROVE  IsFiniteSet(S) /\ Cardinality(S) \in Nat
<1>1. IsFiniteSet(Slots)
  BY FS_Interval DEF Slots, EventAssumption
<1> QED
  BY <1>1, FS_Subset, FS_CardinalityType

\* Sets of descriptors are finite, and at most one larger than Clients.
LEMMA DescriptorsFinite ==
  ASSUME EventAssumption, NEW S \in SUBSET (Clients \cup {listenfd})
  PROVE  /\ IsFiniteSet(S) /\ Cardinality(S) \in 0 .. Cardinality(Clients) + 1
         /\ IsFiniteSet(Clients) /\ Cardinality(Clients) \in Nat
<1>1. IsFiniteSet(Clients) /\ Cardinality(Clients) \in Nat /\ listenfd \notin Clients
  BY FS_CardinalityType DEF EventAssumption
<1>2. /\ IsFiniteSet(Clients \cup {listenfd})
      /\ Cardinality(Clients \cup {listenfd}) = Cardinality(Clients) + 1
  BY <1>1, FS_AddElement
<1>3. IsFiniteSet(S) /\ Cardinality(S) <= Cardinality(Clients) + 1
  BY <1>2, FS_Subset
<1> QED
  BY <1>1, <1>3, FS_CardinalityType

\* A client of which a line has arrived is about to sell if the line says so.
LEMMA SellsAre ==
  ASSUME NEW box \in [Clients -> Lines]
  PROVE  {c \in Clients : \E k \in DOMAIN box[c] : box[c][k] = "sell"}
           = {c \in Clients : box[c] = <<"sell">>}
<1> SUFFICES ASSUME NEW c \in Clients
             PROVE  (\E k \in DOMAIN box[c] : box[c][k] = "sell") <=> box[c] = <<"sell">>
  OBVIOUS
<1>1. CASE box[c] = <<>>
  BY <1>1
<1>2. ASSUME NEW r \in Requests, box[c] = <<r>>
      PROVE  (\E k \in DOMAIN box[c] : box[c][k] = "sell") <=> box[c] = <<"sell">>
  BY <1>2
<1> QED
  BY <1>1, <1>2 DEF Lines

LEMMA LinesAre ==
  Lines \subseteq Seq(Requests) /\ <<>> \in Lines
  /\ \A r \in Requests : <<r>> \in Lines /\ <<r>> # <<>> /\ Head(<<r>>) = r /\ Append(<<>>, r) = <<r>>
<1>1. \A r \in Requests : Append(<<>>, r) = <<r>> /\ Head(<<r>>) = r /\ <<r>> # <<>>
  OBVIOUS
<1>2. <<>> \in Seq(Requests) /\ \A r \in Requests : <<r>> \in Seq(Requests)
  OBVIOUS
<1> QED
  BY <1>1, <1>2 DEF Lines

\* A connection joins the queue, and the first one leaves it.
LEMMA QueueAppend ==
  ASSUME backlog \in Seq(Clients), NEW c \in Clients, backlog' = Append(backlog, c)
  PROVE  /\ backlog' \in Seq(Clients) /\ Waiting' = Waiting \cup {c}
         /\ c \notin Waiting /\ (\A k, m \in DOMAIN backlog : backlog[k] = backlog[m] => k = m)
              => \A k, m \in DOMAIN backlog' : backlog'[k] = backlog'[m] => k = m
<1>1. /\ backlog' \in Seq(Clients) /\ Len(backlog) \in Nat /\ DOMAIN backlog = 1 .. Len(backlog)
      /\ DOMAIN backlog' = 1 .. Len(backlog) + 1 /\ backlog'[Len(backlog) + 1] = c
      /\ \A k \in 1 .. Len(backlog) : backlog'[k] = backlog[k]
  OBVIOUS
<1> QED
  BY <1>1 DEF Waiting

LEMMA QueueTail ==
  ASSUME backlog \in Seq(Clients), backlog # <<>>, backlog' = Tail(backlog),
         \A k, m \in DOMAIN backlog : backlog[k] = backlog[m] => k = m
  PROVE  /\ Head(backlog) \in Waiting /\ backlog' \in Seq(Clients)
         /\ Waiting' = Waiting \ {Head(backlog)}
         /\ \A k, m \in DOMAIN backlog' : backlog'[k] = backlog'[m] => k = m
<1>1. /\ backlog' \in Seq(Clients) /\ Len(backlog) \in Nat \ {0} /\ DOMAIN backlog = 1 .. Len(backlog)
      /\ DOMAIN backlog' = 1 .. Len(backlog) - 1 /\ Head(backlog) = backlog[1]
      /\ \A k \in 1 .. Len(backlog) - 1 : backlog'[k] = backlog[k + 1]
  OBVIOUS
<1>2. ASSUME NEW d \in Waiting, d # backlog[1]  PROVE d \in Waiting'
  <2>1. PICK k \in DOMAIN backlog : backlog[k] = d
    BY <1>2 DEF Waiting
  <2>2. k - 1 \in DOMAIN backlog' /\ backlog'[k - 1] = d
    BY <1>1, <1>2, <2>1
  <2> QED
    BY <2>2 DEF Waiting
<1>3. Waiting' \subseteq Waiting \ {backlog[1]}
  BY <1>1 DEF Waiting
<1> QED
  BY <1>1, <1>2, <1>3 DEF Waiting

\* The type invariant of the variables that are left when inbox is set aside.
LEMMA TypeFacts ==
  ASSUME EventAssumption, IInv
  PROVE  /\ TypeOK /\ inbox \in [Clients -> Lines]
         /\ Sells = {c \in Clients : inbox[c] = <<"sell">>}
         /\ IsFiniteSet(Sells) /\ Cardinality(Sells) \in Nat
         /\ count \in Nat /\ MAX_COUNT \in Nat /\ FD_SETSIZE \in Nat \ {0}
         /\ client_cnt \in Nat /\ nready \in Nat /\ i \in Nat /\ maxi \in Int
<1>1. TypeOK /\ inbox \in [Clients -> Lines]
  BY DEF IInv, Typed
<1>2. Sells = {c \in Clients : inbox[c] = <<"sell">>}
  BY <1>1, SellsAre DEF Sells
<1>3. IsFiniteSet(Sells) /\ Cardinality(Sells) \in Nat
  BY FS_Subset, FS_CardinalityType DEF Sells, EventAssumption
<1>4. client_cnt \in Nat /\ nready \in Nat
  BY <1>1, DescriptorsFinite DEF TypeOK
<1> QED
  BY <1>1, <1>2, <1>3, <1>4 DEF TypeOK, EventAssumption

\* The pool of a server that has just been started.
LEMMA EmptyPool ==
  ASSUME EventAssumption, clientfd = [s \in Slots |-> None], read_set = {listenfd},
         client_cnt = 0
  PROVE  PoolInv /\ Used = {}
<1>1. Used = {}
  BY DEF Used
<1> QED
  BY <1>1, FS_EmptySet, FS_Singleton DEF PoolInv

LEMMA InitInv == EventAssumption /\ Init => IInv
<1> SUFFICES ASSUME EventAssumption, Init  PROVE IInv
  OBVIOUS
<1> USE DEF Init, init_pool
<1>1. Typed
  <2>1. inbox \in [Clients -> Lines]
    BY LinesAre
  <2>2. {nready, client_cnt} \subseteq 0 .. Cardinality(Clients) + 1
    BY DescriptorsFinite
  <2>3. clientfd \in [Slots -> Clients \cup {None}]
    OBVIOUS
  <2>4. client \in [Clients -> {"out", "open", "sent", "closed", "reset"}]
    OBVIOUS
  <2>5. i \in 0 .. FD_SETSIZE /\ maxi \in -1 .. FD_SETSIZE - 1 /\ file \in -1 .. MAX_COUNT
    BY DEF EventAssumption
  <2> QED
    BY <2>1, <2>2, <2>3, <2>4, <2>5, LinesAre DEF Typed, TypeOK
<1>2. SellsFit
  <2>1. Sells = {}
    BY DEF Sells
  <2> QED
    BY <2>1, FS_EmptySet DEF SellsFit, EventAssumption
<1>3. PoolInv
  BY EmptyPool
<1>4. ConnInv
  BY DEF ConnInv, Waiting, EventAssumption
<1>5. RoundInv /\ FileInv
  BY DEF RoundInv, FileInv
<1> QED
  BY <1>1, <1>2, <1>3, <1>4, <1>5 DEF IInv

-----------------------------------------------------------------------------
(***************************************************************************)
(* The clients' steps.                                                     *)
(***************************************************************************)
LEMMA ClientStep ==
  ASSUME EventAssumption, IInv, NEW c \in Clients, Connect(c) \/ Close(c) \/ Killed(c)
  PROVE  IInv'
<1> USE DEF Connect, Close, Killed, pool, round
<1>1. TypeOK /\ listenfd \notin Clients
  BY TypeFacts DEF EventAssumption
<1>2. /\ client' \in [Clients -> {"out", "open", "sent", "closed", "reset"}]
      /\ \A d \in Clients \ {c} : client'[d] = client[d]
      /\ client'[c] # "out" /\ (inbox[c] # <<>> => client'[c] \in {"sent", "reset"})
  BY <1>1 DEF TypeOK, IInv, ConnInv
<1>3. UNCHANGED <<status, pc, i, clientfd, maxi, read_set, ready_set, nready, client_cnt,
                  count, file, inbox>>
  OBVIOUS
<1>4. ConnInv' /\ backlog' \in Seq(Clients)
  <2>1. CASE Connect(c)
    <3>1. c \notin Waiting
      BY <2>1 DEF IInv, ConnInv
    <3>2. /\ backlog' \in Seq(Clients) /\ Waiting' = Waiting \cup {c}
          /\ \A k, m \in DOMAIN backlog' : backlog'[k] = backlog'[m] => k = m
      BY <1>1, <2>1, <3>1, QueueAppend DEF TypeOK, IInv, ConnInv
    <3> QED
      BY <1>2, <1>3, <2>1, <3>2 DEF IInv, ConnInv
  <2>2. CASE Close(c) \/ Killed(c)
    <3>1. Waiting' = Waiting /\ backlog' = backlog /\ client[c] # "out"
      BY <2>2 DEF Waiting
    <3> QED
      BY <1>1, <1>2, <1>3, <3>1 DEF IInv, ConnInv, TypeOK
  <2> QED
    BY <2>1, <2>2
<1>5. status = "up" \/ client[c] # "out"
  OBVIOUS
<1> USE DEF IInv
<1> HIDE DEF Connect, Close, Killed
<1>6. Typed' /\ SellsFit'
  BY <1>1, <1>2, <1>3, <1>4 DEF Typed, TypeOK, SellsFit, Sells
<1>7. PoolInv' /\ RoundInv'
  BY <1>3 DEF PoolInv, Used, RoundInv, Pending
<1>8. FileInv'
  BY <1>2, <1>3, <1>5 DEF FileInv
<1> QED
  BY <1>4, <1>6, <1>7, <1>8

LEMMA SendStep ==
  ASSUME EventAssumption, IInv, NEW c \in Clients, NEW request \in Requests, Send(c, request)
  PROVE  IInv'
<1> USE DEF Send, pool, round
<1>1. TypeOK /\ inbox \in [Clients -> Lines] /\ inbox[c] = <<>> /\ client[c] = "open"
  BY TypeFacts DEF IInv, ConnInv
<1>2. /\ client' \in [Clients -> {"out", "open", "sent", "closed", "reset"}]
      /\ \A d \in Clients \ {c} : client'[d] = client[d]
      /\ client'[c] = "sent"
  BY <1>1 DEF TypeOK
<1>3. /\ inbox' \in [Clients -> Lines] /\ inbox'[c] = <<request>>
      /\ \A d \in Clients \ {c} : inbox'[d] = inbox[d]
  BY <1>1, LinesAre
<1>4. Typed'
  BY <1>1, <1>2, <1>3, LinesAre DEF Typed, TypeOK
<1>5. SellsFit'
  <2>1. Sells' = {d \in Clients : inbox'[d] = <<"sell">>}
    BY <1>3, SellsAre DEF Sells
  <2>2. Sells' = IF request = "sell" THEN Sells \cup {c} ELSE Sells
    BY <1>1, <1>3, <2>1, TypeFacts
  <2>3. c \notin Sells
    BY <1>1, TypeFacts, LinesAre DEF Requests
  <2>4. request = "sell" => Cardinality(Sells') = Cardinality(Sells) + 1
    BY <2>2, <2>3, TypeFacts, FS_AddElement
  <2> QED
    BY <2>2, <2>4, TypeFacts DEF IInv, SellsFit
<1>6. PoolInv' /\ RoundInv'
  BY DEF IInv, PoolInv, Used, RoundInv, Pending
<1>7. ConnInv'
  BY <1>1, <1>2, <1>3 DEF IInv, ConnInv, Waiting
<1>8. FileInv'
  BY <1>1, <1>2 DEF IInv, FileInv
<1> QED
  BY <1>4, <1>5, <1>6, <1>7, <1>8 DEF IInv

-----------------------------------------------------------------------------
(***************************************************************************)
(* A round: select(), accept() and the turns of the clients.               *)
(***************************************************************************)
LEMMA SelectStep ==
  ASSUME EventAssumption, IInv, Select  PROVE IInv'
<1> USE DEF Select, At, pool
<1>1. TypeOK /\ nready' \in 0 .. Cardinality(Clients) + 1
  <2>1. TypeOK /\ ready_set' \subseteq Clients \cup {listenfd}
    BY TypeFacts DEF TypeOK
  <2> QED
    BY <2>1, DescriptorsFinite
<1>2. Typed' /\ SellsFit'
  BY <1>1 DEF IInv, Typed, TypeOK, SellsFit, Sells
<1>3. PoolInv' /\ ConnInv' /\ FileInv'
  BY DEF IInv, PoolInv, Used, ConnInv, Waiting, FileInv
<1>4. RoundInv'
  BY DEF IInv, RoundInv
<1> QED
  BY <1>2, <1>3, <1>4 DEF IInv

\* The steps of the loop that serve nobody.
LEMMA LoopStep ==
  ASSUME EventAssumption, IInv, NoAccept \/ NotReady \/ EndOfRound  PROVE IInv'
<1> USE DEF NoAccept, NotReady, EndOfRound, Looping, At, pool, round
<1>1. TypeOK
  BY TypeFacts
<1>2. Typed' /\ SellsFit'
  <2>1. i' \in 0 .. FD_SETSIZE /\ pc' \in {"select", "check"} /\ ready_set' \subseteq ready_set
    BY <1>1, TypeFacts DEF TypeOK
  <2> QED
    BY <1>1, <2>1 DEF IInv, Typed, TypeOK, SellsFit, Sells
<1>3. PoolInv' /\ ConnInv' /\ FileInv'
  <2>1. /\ UNCHANGED <<status, clientfd, maxi, read_set, client_cnt, count, file, backlog,
                      inbox, client>>
        /\ status = "up" /\ pc \in {"accept", "check"}
    OBVIOUS
  <2> HIDE DEF NoAccept, NotReady, EndOfRound
  <2>2. PoolInv' /\ ConnInv'
    BY <2>1 DEF IInv, PoolInv, Used, ConnInv, Waiting
  <2>3. FileInv'
    BY <2>1 DEF IInv, FileInv
  <2> QED
    BY <2>2, <2>3
<1>4. CASE NoAccept
  <2>1. /\ i = 0 /\ nready = Cardinality(ready_set) /\ listenfd \notin ready_set
        /\ ready_set \subseteq read_set
    BY <1>4 DEF IInv, RoundInv
  <2>2. \A c \in ready_set : \E s \in Slots : s >= 0 /\ clientfd[s] = c
    BY <2>1 DEF IInv, PoolInv, Used, Slots
  <2>3. Pending' = ready_set
    BY <1>4, <2>1, <2>2 DEF Pending
  <2>4. RoundInv'
    BY <1>4, <2>1, <2>3 DEF RoundInv
  <2> QED
    BY <1>2, <1>3, <2>4 DEF IInv
<1>5. CASE NotReady
  <2>1. \A s \in Slots : s >= i <=> s = i \/ s >= i + 1
    BY <1>1 DEF TypeOK, Slots
  <2>2. Pending' = Pending
    BY <1>5, <2>1 DEF Pending
  <2>3. RoundInv'
    BY <1>5, <2>2 DEF IInv, RoundInv
  <2> QED
    BY <1>2, <1>3, <2>3 DEF IInv
<1>6. CASE EndOfRound
  <2>1. nready = Cardinality(Pending)
    BY <1>6 DEF IInv, RoundInv
  <2>2. nready = 0
    <3>1. CASE i > maxi
      <4>1. \A c \in ready_set \ {listenfd} : c \in Clients /\ c # None
        BY <1>1 DEF TypeOK, EventAssumption
      <4>2. \A s \in Slots : s >= i => clientfd[s] = None
        BY <3>1, TypeFacts DEF IInv, PoolInv, Used, Slots
      <4>3. Pending = {}
        BY <4>1, <4>2 DEF Pending
      <4> QED
        BY <2>1, <4>3, FS_EmptySet
    <3> QED
      BY <1>6, <3>1, TypeFacts
  <2>3. RoundInv'
    BY <1>6, <2>2 DEF RoundInv
  <2> QED
    BY <1>2, <1>3, <2>3 DEF IInv
<1> QED
  BY <1>4, <1>5, <1>6

\* add_client(): the connection gets the first free slot.
LEMMA AcceptStep ==
  ASSUME EventAssumption, IInv, NEW c \in Clients, Accept(c)  PROVE IInv'
<1> USE DEF Accept, add_client, At
<1> DEFINE s == Min(FreeSlots)
<1>0. /\ c \in Waiting /\ backlog' \in Seq(Clients) /\ Waiting' = Waiting \ {c}
      /\ \A k, m \in DOMAIN backlog' : backlog'[k] = backlog'[m] => k = m
  BY TypeFacts, QueueTail DEF IInv, ConnInv, TypeOK
<1>1. TypeOK /\ c \notin read_set /\ c # None /\ c # listenfd
  BY <1>0, TypeFacts DEF IInv, ConnInv, EventAssumption
<1>2. s \in Slots /\ clientfd[s] = None
  <2>1. FreeSlots \in SUBSET Nat /\ FreeSlots # {}
    BY DEF FreeSlots, Slots
  <2>2. s \in FreeSlots
    BY <2>1, NatMin
  <2> QED
    BY <2>2 DEF FreeSlots
<1> HIDE DEF s
<1>3. /\ clientfd' \in [Slots -> Clients \cup {None}] /\ clientfd'[s] = c
      /\ \A t \in Slots \ {s} : clientfd'[t] = clientfd[t]
      /\ maxi' = IF s > maxi THEN s ELSE maxi
      /\ read_set' = read_set \cup {c} /\ client_cnt' = client_cnt + 1
  BY <1>1, <1>2 DEF TypeOK, s
<1>4. UNCHANGED <<status, i, ready_set, count, file, inbox, client>>
      /\ pc = "accept" /\ pc' = "check" /\ nready' = nready - 1
      /\ listenfd \in ready_set
  OBVIOUS
<1> HIDE DEF Accept, add_client
<1>5. PoolInv'
  <2>1. Used' = Used \cup {s} /\ s \notin Used
    BY <1>1, <1>2, <1>3 DEF Used
  <2>2. \A t \in Used : clientfd[t] # c /\ clientfd'[t] = clientfd[t]
    BY <1>1, <1>2, <1>3, <2>1 DEF IInv, PoolInv, Used
  <2>3. \A t, u \in Used' : clientfd'[t] = clientfd'[u] => t = u
    BY <1>3, <2>1, <2>2 DEF IInv, PoolInv
  <2>4. read_set' = {listenfd} \cup {clientfd'[t] : t \in Used'}
    BY <1>3, <2>1, <2>2 DEF IInv, PoolInv
  <2>5. client_cnt' = Cardinality(Used')
    <3>1. IsFiniteSet(Used) /\ Cardinality(Used') = Cardinality(Used) + 1
      BY <2>1, SlotsFinite, FS_AddElement DEF Used
    <3> QED
      BY <1>3, <3>1 DEF IInv, PoolInv
  <2>6. Cardinality(read_set') = client_cnt' + 1
    <3>1. IsFiniteSet(read_set)
      BY <1>1, DescriptorsFinite DEF TypeOK
    <3>2. Cardinality(read_set') = Cardinality(read_set) + 1
      BY <1>1, <1>3, <3>1, FS_AddElement
    <3> QED
      BY <1>3, <3>2 DEF IInv, PoolInv
  <2>7. \A t \in Used' : t <= maxi'
    <3>1. /\ \A t \in Used : t \in Nat /\ t <= maxi
          /\ s \in Nat /\ maxi \in Int
      BY <1>2, TypeFacts DEF IInv, PoolInv, Used, Slots
    <3> QED
      BY <1>3, <2>1, <3>1
  <2> QED
    BY <2>3, <2>4, <2>5, <2>6, <2>7 DEF PoolInv
<1>6. RoundInv'
  <2>1. i = 0 /\ nready = Cardinality(ready_set) /\ ready_set \subseteq read_set
    BY <1>4 DEF IInv, RoundInv
  <2>2. \A d \in ready_set \ {listenfd} : \E t \in Slots : t >= 0 /\ clientfd'[t] = d
    BY <1>2, <1>3, <2>1 DEF IInv, PoolInv, Used, Slots
  <2>3. Pending' = ready_set \ {listenfd}
    BY <1>4, <2>1, <2>2 DEF Pending
  <2>4. IsFiniteSet(ready_set) /\ Cardinality(ready_set \ {listenfd}) = Cardinality(ready_set) - 1
    BY <1>1, <1>4, DescriptorsFinite, FS_RemoveElement DEF TypeOK
  <2> QED
    BY <1>4, <2>1, <2>3, <2>4 DEF RoundInv
<1>7. Typed'
  <2>1. read_set' \cup ready_set' \subseteq Clients \cup {listenfd}
    BY <1>1, <1>3, <1>4 DEF TypeOK
  <2>2. client_cnt' \in 0 .. Cardinality(Clients) + 1
    BY <1>5, <2>1, DescriptorsFinite, TypeFacts, <1>3 DEF PoolInv
  <2>3. nready' \in 0 .. Cardinality(Clients) + 1
    <3>1. Pending' \subseteq Clients \cup {listenfd}
      BY <2>1 DEF Pending
    <3> QED
      BY <1>4, <1>6, <3>1, DescriptorsFinite DEF RoundInv
  <2>4. maxi' \in -1 .. FD_SETSIZE - 1
    BY <1>1, <1>2, <1>3 DEF TypeOK, Slots
  <2> QED
    BY <1>0, <1>1, <1>3, <1>4, <2>1, <2>2, <2>3, <2>4 DEF IInv, Typed, TypeOK
<1>8. SellsFit'
  BY <1>4 DEF IInv, SellsFit, Sells
<1>9. ConnInv'
  BY <1>0, <1>1, <1>3, <1>4 DEF IInv, ConnInv
<1>10. FileInv'
  BY <1>3, <1>4, TypeFacts DEF IInv, FileInv
<1> QED
  BY <1>5, <1>6, <1>7, <1>8, <1>9, <1>10 DEF IInv

\* The turn of a client whose descriptor is ready: it is one of those that are
\* still to be found, and the others have later slots.
LEMMA TurnFacts ==
  ASSUME EventAssumption, IInv, NEW c \in Clients,
         Looping, clientfd[i] = c, c \in ready_set
  PROVE  /\ i \in Used /\ c \in read_set \ Waiting /\ c # None /\ c # listenfd
         /\ i + 1 \in 0 .. FD_SETSIZE /\ status = "up" /\ pc = "check"
         /\ client_cnt \in Nat \ {0} /\ nready - 1 \in 0 .. Cardinality(Clients) + 1
         /\ nready - 1 = Cardinality({d \in ready_set \ {listenfd} :
                                        \E s \in Slots : s >= i + 1 /\ clientfd[s] = d})
<1> USE DEF Looping, At
<1>1. TypeOK /\ c # None /\ c # listenfd /\ i \in Nat /\ maxi \in Int
  BY TypeFacts DEF EventAssumption
<1>2. i \in Slots /\ i \in Used /\ i + 1 \in 0 .. FD_SETSIZE
  BY <1>1 DEF TypeOK, Slots, Used
<1>3. c \in read_set \ Waiting
  BY <1>2 DEF IInv, PoolInv, ConnInv
<1>4. client_cnt \in Nat \ {0}
  <2>1. IsFiniteSet(Used) /\ Used # {}
    BY <1>2, SlotsFinite DEF Used
  <2> QED
    BY <2>1, TypeFacts, FS_EmptySet DEF IInv, PoolInv
<1> DEFINE Rests == {d \in ready_set \ {listenfd} : \E s \in Slots : s >= i + 1 /\ clientfd[s] = d}
<1>5. Rests = Pending \ {c} /\ c \in Pending
  <2>1. \A s \in Slots : s >= i <=> s = i \/ s >= i + 1
    BY <1>1 DEF Slots
  <2>2. \A s \in Slots : s >= i + 1 => clientfd[s] # c
    <3> SUFFICES ASSUME NEW s \in Slots, s >= i + 1, clientfd[s] = c  PROVE FALSE
      OBVIOUS
    <3>1. s \in Used /\ s # i
      BY <1>1 DEF Used, Slots
    <3> QED
      BY <1>2, <3>1 DEF IInv, PoolInv
  <2> QED
    BY <1>1, <1>2, <2>1, <2>2 DEF Pending
<1>6. nready = Cardinality(Pending) /\ nready \in Nat /\ nready > 0
  BY TypeFacts DEF IInv, RoundInv
<1>7. /\ IsFiniteSet(Pending) /\ Cardinality(Pending) \in 0 .. Cardinality(Clients) + 1
      /\ Cardinality(Clients) \in Nat
  BY <1>1, DescriptorsFinite DEF Pending, TypeOK
<1>8. Cardinality(Rests) = nready - 1
  BY <1>5, <1>6, <1>7, FS_RemoveElement
<1>9. nready - 1 \in 0 .. Cardinality(Clients) + 1
  BY <1>6, <1>7
<1> QED
  BY <1>1, <1>2, <1>3, <1>4, <1>8, <1>9

\* A request that leaves the connection open.
LEMMA ServeStep ==
  ASSUME EventAssumption, IInv, NEW c \in Clients, Show(c) \/ Buy(c) \/ Sell(c) \/ Other(c)
  PROVE  IInv'
<1> USE DEF Show, Buy, Sell, Other, Turn, Answer, Rest, pool
<1>1. /\ TypeOK /\ inbox \in [Clients -> Lines] /\ <<>> \in Lines
      /\ Looping /\ clientfd[i] = c /\ c \in ready_set
      /\ UNCHANGED <<status, pc, clientfd, maxi, read_set, ready_set, client_cnt, file, backlog>>
      /\ nready' = nready - 1 /\ i' = i + 1
      /\ inbox' = [inbox EXCEPT ![c] = <<>>] /\ inbox[c] # <<>>
      /\ count' # count => \/ count' = count - 1 /\ count >= 1
                           \/ count' = count + 1 /\ Head(inbox[c]) = "sell"
  BY TypeFacts, LinesAre
<1>2. /\ client' \in [Clients -> {"out", "open", "sent", "closed", "reset"}]
      /\ \A d \in Clients \ {c} : client'[d] = client[d]
      /\ client[c] # "out" /\ client'[c] # "out"
  <2>1. client[c] # "out"
    BY <1>1 DEF IInv, ConnInv
  <2>2. client' \in {client, [client EXCEPT ![c] = IF @ = "sent" THEN "open" ELSE @]}
    OBVIOUS
  <2> HIDE DEF Show, Buy, Sell, Other
  <2> QED
    BY <1>1, <2>1, <2>2 DEF TypeOK
<1> HIDE DEF Show, Buy, Sell, Other, Turn, Answer
<1>3. /\ i \in Used /\ i + 1 \in 0 .. FD_SETSIZE /\ status = "up" /\ pc = "check"
      /\ client_cnt # 0 /\ nready - 1 \in 0 .. Cardinality(Clients) + 1
      /\ nready - 1 = Cardinality({d \in ready_set \ {listenfd} :
                                     \E s \in Slots : s >= i + 1 /\ clientfd[s] = d})
  BY <1>1, TurnFacts
<1>4. /\ inbox' \in [Clients -> Lines] /\ inbox'[c] = <<>>
      /\ \A d \in Clients \ {c} : inbox'[d] = inbox[d]
  BY <1>1
<1>5. count' \in 0 .. MAX_COUNT /\ SellsFit'
  <2>1. Sells' = {d \in Clients : inbox'[d] = <<"sell">>}
    BY <1>4, SellsAre DEF Sells
  <2>2. <<"sell">> # <<>>
    BY LinesAre DEF Requests
  <2>3. Sells' = Sells \ {c}
    BY <1>4, <2>1, <2>2, TypeFacts
  <2>4. /\ Cardinality(Sells') \in Nat /\ Cardinality(Sells') <= Cardinality(Sells)
        /\ c \in Sells => Cardinality(Sells') = Cardinality(Sells) - 1
    <3>1. Cardinality(Sells \ {c}) = IF c \in Sells THEN Cardinality(Sells) - 1 ELSE Cardinality(Sells)
      BY TypeFacts, FS_RemoveElement
    <3>2. IsFiniteSet(Sells \ {c}) /\ Cardinality(Sells \ {c}) \in Nat
      BY TypeFacts, FS_Subset, FS_CardinalityType
    <3> QED
      BY <2>3, <3>1, <3>2, TypeFacts
  <2>5. Head(inbox[c]) = "sell" => c \in Sells
    <3>1. PICK r \in Requests : inbox[c] = <<r>>
      BY <1>1 DEF Lines
    <3> QED
      BY <3>1, LinesAre, TypeFacts
  <2>6. count + Cardinality(Sells) <= MAX_COUNT
    BY DEF IInv, SellsFit
  <2>7. count' + Cardinality(Sells') <= MAX_COUNT /\ count' \in Nat
    <3>1. CASE count' = count
      BY <3>1, <2>4, <2>6, TypeFacts
    <3>2. CASE count' = count - 1 /\ count >= 1
      BY <3>2, <2>4, <2>6, TypeFacts
    <3>3. CASE count' = count + 1 /\ c \in Sells
      BY <3>3, <2>4, <2>6, TypeFacts
    <3> QED
      BY <1>1, <2>5, <3>1, <3>2, <3>3
  <2> QED
    BY <2>4, <2>7, TypeFacts DEF SellsFit
<1>6. Typed'
  BY <1>1, <1>2, <1>3, <1>4, <1>5, LinesAre DEF Typed, TypeOK
<1>7. PoolInv'
  BY <1>1 DEF IInv, PoolInv, Used
<1>8. RoundInv'
  BY <1>1, <1>3 DEF RoundInv, Pending
<1>9. ConnInv'
  <2>1. inbox'[c] = <<>> /\ \A d \in Clients : inbox'[d] # <<>> => client'[d] \in {"sent", "reset"}
    BY <1>2, <1>4 DEF IInv, ConnInv
  <2> QED
    BY <1>1, <1>2, <2>1 DEF IInv, ConnInv, Waiting
<1>10. FileInv'
  BY <1>1, <1>3 DEF IInv, FileInv
<1> QED
  BY <1>5, <1>6, <1>7, <1>8, <1>9, <1>10 DEF IInv

\* A client that leaves frees its slot; when it is the last one a save begins.
LEMMA HangupStep ==
  ASSUME EventAssumption, IInv, NEW c \in Clients, Exit(c) \/ EndOfFile(c)
  PROVE  IInv'
<1> USE DEF Exit, EndOfFile, Turn, Rest, Hangup
<1>1. /\ TypeOK /\ inbox \in [Clients -> Lines] /\ <<>> \in Lines
      /\ Looping /\ clientfd[i] = c /\ c \in ready_set
      /\ nready' = nready - 1 /\ i' = i + 1
      /\ inbox' \in {inbox, [inbox EXCEPT ![c] = <<>>]}
      /\ inbox' = inbox => inbox[c] = <<>>
  BY TypeFacts, LinesAre
<1>2. /\ clientfd' = [clientfd EXCEPT ![i] = None] /\ read_set' = read_set \ {c}
      /\ client_cnt' = client_cnt - 1
      /\ pc' = IF client_cnt' = 0 THEN "open" ELSE pc
      /\ client' = [client EXCEPT ![c] = "out"]
      /\ UNCHANGED <<status, maxi, ready_set, count, file, backlog>>
  OBVIOUS
<1> HIDE DEF Exit, EndOfFile, Turn, Hangup
<1>3. /\ i \in Used /\ c \in read_set \ Waiting /\ c # None /\ c # listenfd
      /\ i + 1 \in 0 .. FD_SETSIZE /\ status = "up" /\ pc = "check"
      /\ client_cnt \in Nat \ {0} /\ nready - 1 \in 0 .. Cardinality(Clients) + 1
      /\ nready - 1 = Cardinality({d \in ready_set \ {listenfd} :
                                     \E s \in Slots : s >= i + 1 /\ clientfd[s] = d})
  BY <1>1, TurnFacts
<1>4. /\ inbox' \in [Clients -> Lines] /\ inbox'[c] = <<>>
      /\ \A d \in Clients \ {c} : inbox'[d] = inbox[d]
  <2>1. CASE inbox' = inbox
    BY <1>1, <2>1
  <2>2. CASE inbox' = [inbox EXCEPT ![c] = <<>>]
    BY <1>1, <2>2
  <2> QED
    BY <1>1, <2>1, <2>2
<1>5. /\ client' \in [Clients -> {"out", "open", "sent", "closed", "reset"}]
      /\ client'[c] = "out" /\ \A d \in Clients \ {c} : client'[d] = client[d]
  BY <1>1, <1>2 DEF TypeOK
<1>6. /\ clientfd' \in [Slots -> Clients \cup {None}] /\ clientfd'[i] = None
      /\ \A t \in Slots \ {i} : clientfd'[t] = clientfd[t]
  BY <1>1, <1>2, <1>3 DEF TypeOK, Used
<1>7. Typed'
  <2>1. client_cnt' \in 0 .. Cardinality(Clients) + 1
    <3>1. client_cnt \in 0 .. Cardinality(Clients) + 1 /\ Cardinality(Clients) \in Nat
      BY <1>1, DescriptorsFinite DEF TypeOK
    <3> QED
      BY <1>2, <1>3, <3>1
  <2>2. read_set' \cup ready_set' \subseteq Clients \cup {listenfd}
    BY <1>1, <1>2 DEF TypeOK
  <2> QED
    BY <1>1, <1>2, <1>3, <1>4, <1>5, <1>6, <2>1, <2>2, LinesAre DEF Typed, TypeOK
<1>8. SellsFit'
  <2>1. Sells' = {d \in Clients : inbox'[d] = <<"sell">>}
    BY <1>4, SellsAre DEF Sells
  <2>2. Sells' \subseteq Sells
    BY <1>4, <2>1, TypeFacts, LinesAre DEF Requests
  <2>3. Cardinality(Sells') <= Cardinality(Sells) /\ Cardinality(Sells') \in Nat
    BY <2>2, TypeFacts, FS_Subset, FS_CardinalityType
  <2> QED
    BY <1>2, <2>3, TypeFacts DEF IInv, SellsFit
<1>9. PoolInv'
  <2>1. Used' = Used \ {i}
    BY <1>3, <1>6 DEF Used
  <2>2. \A t \in Used \ {i} : clientfd'[t] = clientfd[t] /\ clientfd[t] # c
    BY <1>1, <1>3, <1>6 DEF IInv, PoolInv, Used
  <2>3. \A t, u \in Used' : clientfd'[t] = clientfd'[u] => t = u
    BY <2>1, <2>2 DEF IInv, PoolInv
  <2>4. read_set' = {listenfd} \cup {clientfd'[t] : t \in Used'}
    BY <1>1, <1>2, <1>3, <2>1, <2>2 DEF IInv, PoolInv
  <2>5. client_cnt' = Cardinality(Used')
    <3>1. IsFiniteSet(Used)
      BY SlotsFinite DEF Used
    <3>2. Cardinality(Used') = Cardinality(Used) - 1
      BY <1>3, <2>1, <3>1, FS_RemoveElement
    <3> QED
      BY <1>2, <3>2 DEF IInv, PoolInv
  <2>6. Cardinality(read_set') = client_cnt' + 1
    <3>1. IsFiniteSet(read_set)
      BY <1>1, DescriptorsFinite DEF TypeOK
    <3>2. Cardinality(read_set') = Cardinality(read_set) - 1
      BY <1>2, <1>3, <3>1, FS_RemoveElement
    <3> QED
      BY <1>2, <1>3, <3>2 DEF IInv, PoolInv
  <2>7. \A t \in Used' : t <= maxi'
    BY <1>2, <2>1 DEF IInv, PoolInv
  <2> QED
    BY <2>3, <2>4, <2>5, <2>6, <2>7 DEF PoolInv
<1>10. RoundInv'
  <2>1. \A s \in Slots : s >= i + 1 => s # i
    BY <1>1 DEF TypeOK, Slots
  <2>2. Pending' = {d \in ready_set \ {listenfd} : \E s \in Slots : s >= i + 1 /\ clientfd[s] = d}
    BY <1>1, <1>2, <1>6, <2>1 DEF Pending
  <2>3. pc' \in {"check", "open"}
    BY <1>2, <1>3
  <2> QED
    BY <1>1, <1>3, <2>2, <2>3 DEF RoundInv
<1>11. ConnInv'
  <2>1. \A d \in Clients : inbox'[d] # <<>> => client'[d] \in {"sent", "reset"}
    BY <1>4, <1>5 DEF IInv, ConnInv
  <2> QED
    BY <1>2, <1>3, <1>5, <2>1 DEF IInv, ConnInv, Waiting
<1>12. FileInv'
  BY <1>2, <1>3 DEF IInv, FileInv
<1> QED
  BY <1>7, <1>8, <1>9, <1>10, <1>11, <1>12 DEF IInv

-----------------------------------------------------------------------------
(***************************************************************************)
(* Saves, the end of the server and its restart.                           *)
(***************************************************************************)
LEMMA SaveStep ==
  ASSUME EventAssumption, IInv, Open \/ print_tree \/ sigint_handler  PROVE IInv'
<1> USE DEF Open, print_tree, sigint_handler, At, pool, round
<1>1. TypeOK
  BY TypeFacts
<1>2. Typed' /\ SellsFit'
  <2>1. file' \in -1 .. MAX_COUNT /\ pc' \in {"print", "check", "sigint"}
    BY <1>1, TypeFacts DEF TypeOK
  <2> QED
    BY <1>1, <2>1 DEF IInv, Typed, TypeOK, SellsFit, Sells
<1>3. PoolInv' /\ ConnInv'
  <2>1. UNCHANGED <<clientfd, maxi, read_set, client_cnt, backlog, inbox, client>>
    OBVIOUS
  <2> HIDE DEF Open, print_tree, sigint_handler
  <2> QED
    BY <2>1 DEF IInv, PoolInv, Used, ConnInv, Waiting
<1>4. RoundInv'
  BY DEF IInv, RoundInv, Pending
<1>5. FileInv'
  BY TypeFacts DEF IInv, FileInv
<1> QED
  BY <1>2, <1>3, <1>4, <1>5 DEF IInv

\* Whatever it is that ends the server, its pool and its connections are gone.
LEMMA EndsStep ==
  ASSUME EventAssumption, IInv, NEW how \in {"sigint", "failed"}, Ends(how),
         count' = count, file' \in {file, count}, how = "sigint" => file' = count,
         status = "up", file = -1 => file' = count
  PROVE  IInv'
<1> USE DEF Ends
<1>1. TypeOK
  BY TypeFacts
<1>2. /\ inbox' \in [Clients -> Lines] /\ \A c \in Clients : inbox'[c] = <<>>
      /\ client' \in [Clients -> {"out", "open", "sent", "closed", "reset"}]
      /\ \A c \in Clients : client'[c] = "out"
  BY LinesAre
<1>3. Typed'
  <2>1. 0 \in 0 .. Cardinality(Clients) + 1
    BY DescriptorsFinite
  <2>2. clientfd' \in [Slots -> Clients \cup {None}]
    OBVIOUS
  <2>3. i' \in 0 .. FD_SETSIZE /\ maxi' \in -1 .. FD_SETSIZE - 1
    BY TypeFacts
  <2>4. file' \in -1 .. MAX_COUNT /\ count' \in 0 .. MAX_COUNT
    BY <1>1, TypeFacts DEF TypeOK
  <2> QED
    BY <1>1, <1>2, <2>1, <2>2, <2>3, <2>4, LinesAre DEF Typed, TypeOK
<1>4. SellsFit'
  <2>1. Sells' = {}
    BY <1>2 DEF Sells
  <2>2. Cardinality(Sells') = 0
    BY <2>1, FS_EmptySet
  <2> QED
    BY <1>1, <2>2, TypeFacts DEF SellsFit, TypeOK
<1>5. PoolInv'
  <2>1. Used' = {}
    BY DEF Used
  <2>2. Cardinality(Used') = 0 /\ Cardinality(read_set') = 1
    BY <2>1, FS_EmptySet, FS_Singleton
  <2>3. {clientfd'[s] : s \in Used'} = {}
    BY <2>1
  <2> QED
    BY <2>1, <2>2, <2>3 DEF PoolInv
<1>6. ConnInv'
  BY <1>2 DEF ConnInv, Waiting, EventAssumption
<1>7. RoundInv'
  BY DEF RoundInv
<1>8. FileInv'
  BY <1>1, <1>2, TypeFacts DEF IInv, FileInv
<1> QED
  BY <1>3, <1>4, <1>5, <1>6, <1>7, <1>8 DEF IInv

LEMMA RestartStep ==
  ASSUME EventAssumption, IInv, Restart  PROVE IInv'
<1> USE DEF Restart, pool, round
<1>1. TypeOK /\ file \in Nat /\ file <= MAX_COUNT
  BY TypeFacts DEF TypeOK, IInv, FileInv
<1>2. Typed'
  BY <1>1 DEF IInv, Typed, TypeOK
<1>3. SellsFit'
  <2>1. Sells = {}
    <3>1. \A c \in Clients : inbox[c] = <<>>
      BY DEF IInv, ConnInv, FileInv
    <3> QED
      BY <3>1, TypeFacts, LinesAre DEF Requests
  <2>2. Cardinality(Sells') = 0
    BY <2>1, FS_EmptySet DEF Sells
  <2> QED
    BY <1>1, <2>2, TypeFacts DEF SellsFit
<1>4. PoolInv' /\ ConnInv' /\ RoundInv'
  BY DEF IInv, PoolInv, Used, ConnInv, Waiting, RoundInv, Pending
<1>5. FileInv'
  BY <1>1 DEF FileInv
<1> QED
  BY <1>2, <1>3, <1>4, <1>5 DEF IInv

-----------------------------------------------------------------------------
LEMMA NextInv == EventAssumption /\ IInv /\ [Next]_vars => IInv'
<1> SUFFICES ASSUME EventAssumption, IInv, [Next]_vars  PROVE IInv'
  OBVIOUS
<1>1. CASE Select
  BY <1>1, SelectStep
<1>2. CASE NoAccept \/ NotReady \/ EndOfRound
  BY <1>2, LoopStep
<1>3. CASE Open \/ print_tree \/ sigint_handler
  BY <1>3, SaveStep
<1>4. ASSUME AcceptFails \/ \E c \in Clients : Fails(c)  PROVE IInv'
  <2>1. status = "up" /\ Ends("failed") /\ UNCHANGED <<count, file>> /\ pc \in {"accept", "check"}
    BY <1>4 DEF AcceptFails, Fails, Looping, At
  <2>2. file # -1
    BY <2>1 DEF IInv, FileInv
  <2> QED
    BY <2>1, <2>2, EndsStep
<1>5. CASE HandlerExits
  BY <1>5, EndsStep DEF HandlerExits, At
<1>6. ASSUME NEW c \in Clients, Accept(c)  PROVE IInv'
  BY <1>6, AcceptStep
<1>7. ASSUME NEW c \in Clients, Show(c) \/ Buy(c) \/ Sell(c) \/ Other(c)  PROVE IInv'
  BY <1>7, ServeStep
<1>8. ASSUME NEW c \in Clients, Exit(c) \/ EndOfFile(c)  PROVE IInv'
  BY <1>8, HangupStep
<1>9. CASE Restart
  BY <1>9, RestartStep
<1>10. ASSUME NEW c \in Clients, Connect(c) \/ Close(c) \/ Killed(c)  PROVE IInv'
  BY <1>10, ClientStep
<1>11. ASSUME NEW c \in Clients, NEW request \in Requests, Send(c, request)  PROVE IInv'
  BY <1>11, SendStep
<1>12. CASE UNCHANGED vars
  <2> USE <1>12 DEF vars, pool, round
  <2>1. Typed' /\ SellsFit'
    BY DEF IInv, Typed, TypeOK, SellsFit, Sells
  <2>2. PoolInv' /\ ConnInv'
    BY DEF IInv, PoolInv, Used, ConnInv, Waiting
  <2>3. RoundInv' /\ FileInv'
    BY DEF IInv, RoundInv, Pending, FileInv
  <2> QED
    BY <2>1, <2>2, <2>3 DEF IInv
<1> QED
  BY <1>1, <1>2, <1>3, <1>4, <1>5, <1>6, <1>7, <1>8, <1>9, <1>10, <1>11, <1>12
     DEF Next, Server

\* Every reachable state satisfies the invariant.
THEOREM EventInvariant == ASSUME EventAssumption  PROVE Spec => []IInv
BY InitInv, NextInv, PTL DEF Spec

\* The five parts of the pool agree after any sequence of connections and
\* departures, whatever the number of clients and the size of the pool.
THEOREM PoolIsRight == ASSUME EventAssumption  PROVE Spec => []PoolRight
<1>1. IInv => PoolRight
  BY DEF IInv, Typed, PoolInv, Used, PoolRight
<1> QED
  BY <1>1, EventInvariant, PTL

\* select() is called again only when every descriptor that it reported has
\* been dealt with.
THEOREM RoundIsComplete == ASSUME EventAssumption  PROVE Spec => []RoundComplete
<1>1. IInv => RoundComplete
  BY DEF IInv, RoundInv, RoundComplete
<1> QED
  BY <1>1, EventInvariant, PTL

\* stock.txt has every trade when nobody is connected, and however the server
\* has ended it is not truncated.
THEOREM FileIsSaved == ASSUME EventAssumption  PROVE Spec => []FileSaved
<1>1. IInv => FileSaved
  BY DEF IInv, FileInv, FileSaved, SavedWhenQuiet, EndSaves
<1> QED
  BY <1>1, EventInvariant, PTL

-----------------------------------------------------------------------------
(* The shell *)

\* The foreground program that the shell waits for: neither in the background nor
\* a stray.
Foreground == {c \in Pids \ (background \cup strays) : child[c] # "none"}

\* There is at most one, and none when the shell reads the next command.
OneForeground ==
  /\ shell_pc = "prompt" => Foreground = {}
  /\ shell_pc = "parent" /\ bg => Foreground = {}
  /\ \A c, d \in Foreground : c = d
  /\ shell_pc \in {"call", "wait"} => ~bg

\* A background child does nothing before it has left the shell's group, unless
\* it is killed and so a stray.
LeavesFirst == \A c \in background \ (own \cup strays) : child[c] = "forked"

\* SIGCHLD stays blocked from fork() to the parent's branch, and as long as it
\* is blocked nobody but waitpid() takes the foreground child.
BlockedKeepsChild ==
  /\ handling => ~blocked
  /\ shell_pc = "parent" => blocked
  /\ shell_pc \in {"parent", "call", "wait"} /\ ~bg /\ blocked => Foreground # {}

\* A change that is not reported is announced, or the handler is at work.
Announced == changed # {} => pending \/ handling

ShellInv == ShellTypeOK /\ OneForeground /\ LeavesFirst /\ BlockedKeepsChild /\ Announced

LEMMA ShellInitInv == ShellInit => ShellInv
BY DEF ShellInit, ShellInv, ShellTypeOK, OneForeground, Foreground, LeavesFirst,
       BlockedKeepsChild, Announced

LEMMA ForkStep ==
  ASSUME ShellInv, NEW c \in Pids, NEW b \in BOOLEAN, Fork(c, b)  PROVE ShellInv'
<1> USE DEF Fork, Running
<1>1. ShellTypeOK'
  BY DEF ShellInv, ShellTypeOK
<1>2. c \notin changed /\ c \notin background
  BY DEF ShellInv, ShellTypeOK
<1>3. Foreground = {}
  BY DEF ShellInv, OneForeground
<1>4. Foreground' = IF b THEN {} ELSE {c}
  BY <1>2, <1>3 DEF Foreground, ShellInv, ShellTypeOK
<1>5. OneForeground' /\ BlockedKeepsChild'
  BY <1>4 DEF OneForeground, BlockedKeepsChild
<1>6. LeavesFirst' /\ Announced'
  BY <1>2 DEF ShellInv, LeavesFirst, Announced, ShellTypeOK
<1> QED
  BY <1>1, <1>5, <1>6 DEF ShellInv

LEMMA ParentStep == ASSUME ShellInv, Parent  PROVE ShellInv'
<1> USE DEF Parent, Running, children
<1>1. ShellTypeOK'
  BY DEF ShellInv, ShellTypeOK, create_job
<1>2. Foreground' = Foreground
  BY DEF Foreground
<1>3. OneForeground' /\ BlockedKeepsChild'
  BY <1>2 DEF ShellInv, ShellTypeOK, OneForeground, BlockedKeepsChild
<1>4. LeavesFirst' /\ Announced'
  BY DEF ShellInv, LeavesFirst, Announced
<1> QED
  BY <1>1, <1>3, <1>4 DEF ShellInv

\* Call, Quit, HandlerStart and HandlerReturns leave the children alone.
LEMMA ShellStep ==
  ASSUME ShellInv, Call \/ Quit \/ HandlerStart \/ HandlerReturns  PROVE ShellInv'
<1> USE DEF Call, Quit, HandlerStart, HandlerReturns, Running, Deliverable, children
<1>1. ShellTypeOK'
  BY DEF ShellInv, ShellTypeOK
<1>2. Foreground' = Foreground
  BY DEF Foreground
<1>3. OneForeground' /\ BlockedKeepsChild'
  BY <1>2 DEF ShellInv, ShellTypeOK, OneForeground, BlockedKeepsChild
<1>4. LeavesFirst' /\ Announced'
  BY DEF ShellInv, LeavesFirst, Announced
<1> QED
  BY <1>1, <1>3, <1>4 DEF ShellInv

\* What waitpid() reports is no longer a child that waits to be reported.
LEMMA ReportedChild ==
  ASSUME ShellInv, NEW c \in changed, Reported(c)
  PROVE  /\ \A d \in Pids \ {c} : child'[d] = child[d]
         /\ child'[c] = IF child[c] = "zombie" THEN "none" ELSE "stopped"
         /\ own' \subseteq own /\ background' \subseteq background
         /\ \A d \in background : d # c \/ child'[c] # "none" => d \in background'
         /\ \A d \in own \ {c} : d \in own'
         /\ child' \in [Pids -> {"none", "forked", "running", "stopped", "zombie"}]
         /\ changed' \subseteq {d \in Pids : child'[d] \in {"zombie", "stopped"}}
         /\ \A d \in Pids : child'[d] = "zombie" => d \in changed'
         /\ own' \subseteq background' /\ background' \subseteq {d \in Pids : child'[d] # "none"}
         /\ changed' \subseteq changed
<1> USE DEF ShellInv, ShellTypeOK, Reported
<1>1. c \in Pids /\ child[c] \in {"zombie", "stopped"}
  OBVIOUS
<1>2. CASE child[c] = "zombie"
  <2>1. /\ child' = [child EXCEPT ![c] = "none"] /\ changed' = changed \ {c}
        /\ own' = own \ {c} /\ background' = background \ {c}
    BY <1>1, <1>2
  <2> QED
    BY <1>1, <1>2, <2>1
<1>3. CASE child[c] = "stopped"
  <2>1. child' = child /\ changed' = changed \ {c} /\ UNCHANGED <<own, background>>
    BY <1>1, <1>3
  <2> QED
    BY <1>1, <1>3, <2>1
<1> QED
  BY <1>1, <1>2, <1>3

LEMMA WaitReturnsStep ==
  ASSUME ShellInv, NEW c \in Pids, WaitReturns(c)  PROVE ShellInv'
<1> USE DEF WaitReturns
<1>1. c \in changed /\ Reported(c) /\ LeftBehind(c) /\ c \in Group
  OBVIOUS
<1>2. \A d \in strays \cup {c} : child'[d] # "none" => d \in strays'
  BY <1>1 DEF LeftBehind
<1>3. Foreground' = {}
  <2> SUFFICES ASSUME NEW d \in Pids, d \notin background', d \notin strays', child'[d] # "none"
               PROVE  FALSE
    BY DEF Foreground
  <2>1. d # c /\ d \notin strays
    BY <1>2
  <2>2. d \in Foreground
    BY <1>1, <2>1, ReportedChild DEF Foreground
  <2>3. CASE c \in strays
    <3>1. d \in Group \ background
      BY <2>2 DEF Foreground, Group, ShellInv, ShellTypeOK
    <3> QED
      BY <1>1, <2>3, <3>1 DEF LeftBehind
  <2>4. CASE c \notin strays
    <3>1. c \in Foreground
      BY <1>1, <2>4 DEF ShellInv, ShellTypeOK, LeavesFirst, Group, Foreground
    <3> QED
      BY <2>1, <2>2, <3>1 DEF ShellInv, OneForeground
  <2> QED
    BY <2>3, <2>4
<1>4. ShellTypeOK'
  <2>1. strays' \subseteq {d \in Pids : child'[d] # "none"}
    BY <1>1 DEF LeftBehind, Group, ShellInv, ShellTypeOK
  <2> QED
    BY <1>1, <2>1, ReportedChild DEF ShellInv, ShellTypeOK, delete_job
<1>5. OneForeground' /\ BlockedKeepsChild'
  BY <1>3 DEF ShellInv, OneForeground, BlockedKeepsChild
<1>6. LeavesFirst'
  <2> SUFFICES ASSUME NEW d \in background', d \notin own', d \notin strays'
               PROVE  child'[d] = "forked"
    BY DEF LeavesFirst
  <2>1. d \in Pids /\ child'[d] # "none"
    BY <1>4 DEF ShellTypeOK
  <2>2. d # c /\ d \notin strays
    BY <1>2, <2>1
  <2> QED
    BY <1>1, <2>1, <2>2, ReportedChild DEF ShellInv, LeavesFirst
<1>7. Announced'
  BY <1>1, ReportedChild DEF ShellInv, Announced
<1> QED
  BY <1>4, <1>5, <1>6, <1>7 DEF ShellInv

LEMMA HandlerReapsStep ==
  ASSUME ShellInv, NEW c \in Pids, HandlerReaps(c)  PROVE ShellInv'
<1> USE DEF HandlerReaps
<1>1. c \in changed /\ Reported(c) /\ strays' = {d \in strays : child'[d] # "none"}
  OBVIOUS
<1>2. Foreground' \subseteq Foreground
  <2> SUFFICES ASSUME NEW d \in Pids, d \notin background', d \notin strays', child'[d] # "none"
               PROVE  d \in Foreground
    BY DEF Foreground
  <2>1. d \notin strays
    BY <1>1
  <2>2. d \notin background
    BY <1>1, ReportedChild
  <2>3. child[d] # "none"
    <3>1. CASE d = c
      BY <1>1, <3>1 DEF ShellInv, ShellTypeOK
    <3>2. CASE d # c
      BY <1>1, <3>2, ReportedChild
    <3> QED
      BY <3>1, <3>2
  <2> QED
    BY <2>1, <2>2, <2>3 DEF Foreground
<1>3. ShellTypeOK'
  <2>1. job_list' \subseteq [pid : Pids, state : {"F", "B", "S"}]
    BY DEF ShellInv, ShellTypeOK, delete_job
  <2>2. strays' \subseteq {d \in Pids : child'[d] # "none"}
    BY <1>1 DEF ShellInv, ShellTypeOK
  <2> QED
    BY <1>1, <2>1, <2>2, ReportedChild DEF ShellInv, ShellTypeOK
<1>4. OneForeground' /\ BlockedKeepsChild'
  BY <1>2 DEF ShellInv, ShellTypeOK, OneForeground, BlockedKeepsChild
<1>5. LeavesFirst'
  <2> SUFFICES ASSUME NEW d \in background', d \notin own', d \notin strays'
               PROVE  child'[d] = "forked"
    BY DEF LeavesFirst
  <2>1. d \in Pids /\ child'[d] # "none"
    BY <1>3 DEF ShellTypeOK
  <2>2. d \notin strays
    BY <1>1, <2>1
  <2>3. d \in background
    BY <1>1, ReportedChild
  <2>4. CASE d = c
    <3>1. c \notin own
      BY <1>1, <2>1, <2>4 DEF Reported, ShellInv, ShellTypeOK
    <3> QED
      BY <1>1, <2>2, <2>3, <2>4, <3>1 DEF ShellInv, ShellTypeOK, LeavesFirst
  <2>5. CASE d # c
    <3>1. d \notin own /\ child'[d] = child[d]
      BY <1>1, <2>1, <2>5, ReportedChild
    <3> QED
      BY <2>2, <2>3, <3>1 DEF ShellInv, LeavesFirst
  <2> QED
    BY <2>4, <2>5
<1>6. Announced'
  BY <1>1, ReportedChild DEF ShellInv, Announced
<1> QED
  BY <1>3, <1>4, <1>5, <1>6 DEF ShellInv

LEMMA ChildStep ==
  ASSUME ShellInv, NEW c \in Pids,
         Setpgid(c) \/ Exec(c) \/ ChildExit(c) \/ Stop(c) \/ Continue(c)
  PROVE  ShellInv'
<1> USE DEF Setpgid, Exec, ChildExit, Stop, Continue, Grouped, shell
<1>1. ShellTypeOK'
  <2>1. CASE Setpgid(c)
    BY <2>1 DEF ShellInv, ShellTypeOK
  <2>2. CASE Exec(c)
    BY <2>2 DEF ShellInv, ShellTypeOK
  <2>3. CASE ChildExit(c)
    BY <2>3 DEF ShellInv, ShellTypeOK
  <2>4. CASE Stop(c) \/ Continue(c)
    BY <2>4 DEF ShellInv, ShellTypeOK
  <2> QED
    BY <2>1, <2>2, <2>3, <2>4
<1>2. LeavesFirst'
  <2>1. CASE Setpgid(c)
    BY <2>1 DEF ShellInv, ShellTypeOK, LeavesFirst
  <2>2. CASE Exec(c)
    BY <2>2 DEF ShellInv, ShellTypeOK, LeavesFirst
  <2>3. CASE ChildExit(c)
    BY <2>3 DEF ShellInv, ShellTypeOK, LeavesFirst
  <2>4. CASE Stop(c) \/ Continue(c)
    BY <2>4 DEF ShellInv, ShellTypeOK, LeavesFirst
  <2> QED
    BY <2>1, <2>2, <2>3, <2>4
<1>3. Foreground' = Foreground
  <2>1. CASE Setpgid(c)
    BY <2>1 DEF Foreground
  <2>2. CASE Exec(c)
    BY <2>2 DEF ShellInv, ShellTypeOK, Foreground
  <2>3. CASE ChildExit(c)
    BY <2>3 DEF ShellInv, ShellTypeOK, Foreground
  <2>4. CASE Stop(c) \/ Continue(c)
    BY <2>4 DEF ShellInv, ShellTypeOK, Foreground
  <2> QED
    BY <2>1, <2>2, <2>3, <2>4
<1>4. OneForeground' /\ BlockedKeepsChild'
  BY <1>3 DEF ShellInv, OneForeground, BlockedKeepsChild
<1>5. Announced'
  BY DEF ShellInv, Announced
<1> QED
  BY <1>1, <1>2, <1>4, <1>5 DEF ShellInv

LEMMA ShellNextInv == ShellInv /\ [ShellNext]_shell_vars => ShellInv'
<1>1. ASSUME ShellInv, UNCHANGED shell_vars  PROVE ShellInv'
  BY <1>1 DEF shell_vars, ShellInv, ShellTypeOK, OneForeground, Foreground, LeavesFirst,
              BlockedKeepsChild, Announced
<1> QED
  BY <1>1, ForkStep, ParentStep, ShellStep, WaitReturnsStep, HandlerReapsStep, ChildStep
     DEF ShellNext, Main, Handler

THEOREM ShellInvariant == ShellSpec => []ShellInv
BY ShellInitInv, ShellNextInv, PTL DEF ShellSpec

\* The prompt comes back while a foreground program runs only if that program is
\* a stray: stopped earlier and continued since, or left behind when a stray
\* changed.  In particular a background job never brings the prompt back.
THEOREM PromptIsRight == ShellSpec => []PromptAfterForeground
<1>1. ShellInv => PromptAfterForeground
  BY DEF ShellInv, OneForeground, Foreground, PromptAfterForeground
<1> QED
  BY <1>1, ShellInvariant, PTL

\* No change of a child is left unreported when the handler has returned and
\* no signal is pending.
THEOREM NothingIsLeft == ShellSpec => []HandlerDrains
<1>1. ShellInv => HandlerDrains
  BY DEF ShellInv, Announced, HandlerDrains
<1> QED
  BY <1>1, ShellInvariant, PTL

\* With SIGCHLD blocked waitpid() has a child to wait for and does not fail.
THEOREM WaitSucceeds == ShellSpec => BlockedWaitSucceeds
<1>1. ASSUME ShellInv, [ShellNext]_shell_vars, shell_pc = "call", blocked  PROVE shell_pc' # "gone"
  <2>1. ASSUME NEW c \in Foreground  PROVE c \in Group
    BY <1>1 DEF ShellInv, ShellTypeOK, Foreground, Group
  <2>2. Group # {} /\ ~handling
    BY <1>1, <2>1 DEF ShellInv, OneForeground, BlockedKeepsChild
  <2> QED
    BY <1>1, <2>2 DEF ShellNext, Main, Handler, Parent, Call, WaitReturns, HandlerStart,
       HandlerReturns, HandlerReaps, Quit, Fork, Setpgid, Exec, ChildExit, Stop,
       Continue, shell, shell_vars
<1>2. ShellInv /\ [ShellNext]_shell_vars => [shell_pc = "call" /\ blocked => shell_pc' # "gone"]_shell_vars
  BY <1>1
<1> QED
  BY <1>2, ShellInvariant, PTL DEF ShellSpec, BlockedWaitSucceeds
-----------------------------------------------------------------------------
(* The allocator *)

Memory == [Addresses -> Tag]
Even(x) == x % DSIZE = 0

-----------------------------------------------------------------------------
(***************************************************************************)
(* The walks over the blocks are well defined: every step goes forward.    *)
(***************************************************************************)
LEMMA Greatest ==
  ASSUME NEW n \in Nat, NEW S \in SUBSET (0 .. n), S # {}
  PROVE  \E x \in S : \A y \in S : y <= x
<1> DEFINE R == {n - y : y \in S}
<1>1. R \in SUBSET Nat /\ R # {}
  <2>1. \A y \in 0 .. n : n - y \in Nat
    OBVIOUS
  <2> QED
    BY <2>1
<1>2. PICK z \in R : \A y \in R : ~ (<<y, z>> \in OpToRel(<, Nat))
  BY <1>1, NatLessThanWellFounded, WFMin
<1>3. \A y \in R : z <= y
  <2> HIDE DEF R
  <2>1. \A y \in R : ~ (y < z)
    BY <1>1, <1>2 DEF OpToRel
  <2> QED
    BY <1>1, <2>1, SMT
<1>4. PICK x \in S : z = n - x
  OBVIOUS
<1>5. ASSUME NEW y \in S  PROVE y <= x
  <2>1. z <= n - y
    BY <1>3
  <2>2. x \in 0 .. n /\ y \in 0 .. n
    OBVIOUS
  <2> QED
    BY <1>4, <2>1, <2>2
<1> QED
  BY <1>5

\* A block that starts at b is followed by one behind it, or by the end.
LEMMA Forward ==
  ASSUME AllocatorAssumption, NEW m \in Memory, NEW b \in 1 .. MAX_HEAP, Starts(m, b)
  PROVE  NEXT_BLKP(m, b) \in (b + 1) .. MAX_HEAP
<1>1. b - 1 \in Addresses
  BY DEF Addresses, AllocatorAssumption
<1>2. m[b - 1] \in Tag
  BY <1>1 DEF Memory
<1> QED
  BY <1>2 DEF Tag, Starts, NEXT_BLKP, GET_SIZE, HDRP, WSIZE, AllocatorAssumption

LEMMA WalkExists ==
  ASSUME AllocatorAssumption, NEW m \in Memory
  PROVE  BlocksFrom(m) = [b \in 1 .. MAX_HEAP |->
           IF Starts(m, b) THEN {b} \cup BlocksFrom(m)[NEXT_BLKP(m, b)] ELSE {}]
<1> DEFINE P(n) == \E f : f = [b \in n .. MAX_HEAP |->
                     IF Starts(m, b) THEN {b} \cup f[NEXT_BLKP(m, b)] ELSE {}]
           Bad == {n \in 1 .. MAX_HEAP + 1 : ~P(n)}
<1>0. MAX_HEAP \in Nat
  BY DEF AllocatorAssumption
<1>1. P(1)
  <2> SUFFICES ASSUME ~P(1)  PROVE FALSE
    OBVIOUS
  <2> HIDE DEF P
  <2>1. Bad \in SUBSET (0 .. MAX_HEAP + 1) /\ Bad # {}
    BY <1>0
  <2>2. PICK x \in Bad : \A y \in Bad : y <= x
    <3> HIDE DEF Bad
    <3>1. MAX_HEAP + 1 \in Nat
      BY <1>0
    <3> QED
      BY <2>1, <3>1, Greatest
  <2>3. x # MAX_HEAP + 1
    <3>1. MAX_HEAP + 1 .. MAX_HEAP = {}
      BY <1>0
    <3>2. P(MAX_HEAP + 1)
      <4> USE DEF P
      <4> WITNESS [b \in {} |-> {}]
      <4> QED
        BY <3>1
    <3> QED
      BY <3>2
  <2>4. P(x + 1)
    BY <1>0, <2>2, <2>3
  <2>5. PICK f : f = [b \in x + 1 .. MAX_HEAP |->
                        IF Starts(m, b) THEN {b} \cup f[NEXT_BLKP(m, b)] ELSE {}]
    BY <2>4 DEF P
  <2> DEFINE g == [b \in x .. MAX_HEAP |->
                     IF Starts(m, b) THEN {b} \cup f[NEXT_BLKP(m, b)] ELSE {}]
  <2>6. ASSUME NEW b \in x .. MAX_HEAP, Starts(m, b)
        PROVE  g[NEXT_BLKP(m, b)] = f[NEXT_BLKP(m, b)]
    <3>1. NEXT_BLKP(m, b) \in x + 1 .. MAX_HEAP
      BY <1>0, <2>6, Forward
    <3>2. \A y \in x + 1 .. MAX_HEAP : g[y] = f[y]
      <4> HIDE DEF g
      <4>1. \A y \in x + 1 .. MAX_HEAP :
              g[y] = IF Starts(m, y) THEN {y} \cup f[NEXT_BLKP(m, y)] ELSE {}
        <5>1. \A y \in x + 1 .. MAX_HEAP : y \in x .. MAX_HEAP
          BY <1>0, <2>2
        <5> QED
          BY <5>1 DEF g
      <4> QED
        BY <2>5, <4>1
    <3> QED
      BY <3>1, <3>2
  <2>7. g = [b \in x .. MAX_HEAP |->
               IF Starts(m, b) THEN {b} \cup g[NEXT_BLKP(m, b)] ELSE {}]
    BY <2>6
  <2> QED
    BY <2>7, <2>2 DEF P
<1> QED
  BY <1>1 DEF BlocksFrom

\* A recursion that only goes on, from a member b of go to a larger next[b].
Forwards(go, next) ==
  \A b \in 1 .. MAX_HEAP : b \in go => next[b] \in (b + 1) .. MAX_HEAP

Recurs(f, go, next, val) ==
  \A b \in 1 .. MAX_HEAP : f[b] = IF b \in go THEN f[next[b]] ELSE val[b]

LEMMA GoesOn ==
  ASSUME AllocatorAssumption, NEW go, NEW next, NEW val, Forwards(go, next)
  PROVE  \E f : Recurs(f, go, next, val)
<1> USE DEF Forwards
<1> DEFINE P(n) == \E f : f = [b \in n .. MAX_HEAP |->
                     IF b \in go THEN f[next[b]] ELSE val[b]]
           Bad == {n \in 1 .. MAX_HEAP + 1 : ~P(n)}
<1>0. MAX_HEAP \in Nat
  BY DEF AllocatorAssumption
<1>1. P(1)
  <2> SUFFICES ASSUME ~P(1)  PROVE FALSE
    OBVIOUS
  <2> HIDE DEF P
  <2>1. Bad \in SUBSET (0 .. MAX_HEAP + 1) /\ Bad # {}
    BY <1>0
  <2>2. PICK x \in Bad : \A y \in Bad : y <= x
    <3> HIDE DEF Bad
    <3>1. MAX_HEAP + 1 \in Nat
      BY <1>0
    <3> QED
      BY <2>1, <3>1, Greatest
  <2>3. x # MAX_HEAP + 1
    <3>1. MAX_HEAP + 1 .. MAX_HEAP = {}
      BY <1>0
    <3>2. P(MAX_HEAP + 1)
      <4> USE DEF P
      <4> WITNESS [b \in {} |-> {}]
      <4> QED
        BY <3>1
    <3> QED
      BY <3>2
  <2>4. P(x + 1)
    BY <1>0, <2>2, <2>3
  <2>5. PICK f : f = [b \in x + 1 .. MAX_HEAP |->
                        IF b \in go THEN f[next[b]] ELSE val[b]]
    BY <2>4 DEF P
  <2> DEFINE g == [b \in x .. MAX_HEAP |->
                     IF b \in go THEN f[next[b]] ELSE val[b]]
  <2>6. ASSUME NEW b \in x .. MAX_HEAP, b \in go
        PROVE  g[next[b]] = f[next[b]]
    <3>1. next[b] \in x + 1 .. MAX_HEAP
      BY <1>0, <2>6
    <3>2. \A y \in x + 1 .. MAX_HEAP : g[y] = f[y]
      <4> HIDE DEF g
      <4>1. \A y \in x + 1 .. MAX_HEAP :
              g[y] = IF y \in go THEN f[next[y]] ELSE val[y]
        <5>1. \A y \in x + 1 .. MAX_HEAP : y \in x .. MAX_HEAP
          BY <1>0, <2>2
        <5> QED
          BY <5>1 DEF g
      <4> QED
        BY <2>5, <4>1
    <3> QED
      BY <3>1, <3>2
  <2>7. g = [b \in x .. MAX_HEAP |->
               IF b \in go THEN g[next[b]] ELSE val[b]]
    BY <2>6
  <2> QED
    BY <2>7, <2>2 DEF P
<1>2. PICK f : f = [b \in 1 .. MAX_HEAP |-> IF b \in go THEN f[next[b]] ELSE val[b]]
  BY <1>1
<1>3. \A b \in 1 .. MAX_HEAP : f[b] = IF b \in go THEN f[next[b]] ELSE val[b]
  BY <1>2
<1> QED
  BY <1>3 DEF Recurs

\* What the three walks compute, one step further.
LEMMA AfterStep ==
  ASSUME AllocatorAssumption, NEW m \in Memory, NEW asize, NEW bp \in 1 .. MAX_HEAP
  PROVE  After(m, asize)[bp] =
           IF ~Starts(m, bp) THEN NULL
           ELSE IF Fits(m, bp, asize) THEN bp ELSE After(m, asize)[NEXT_BLKP(m, bp)]
<1> DEFINE D == 1 .. MAX_HEAP
           go == {b \in D : Starts(m, b) /\ ~Fits(m, b, asize)}
           next == [b \in D |-> NEXT_BLKP(m, b)]
           val == [b \in D |-> IF Starts(m, b) THEN b ELSE NULL]
           Body(f) == [b \in D |-> IF ~Starts(m, b) THEN NULL
                                   ELSE IF Fits(m, b, asize) THEN b ELSE f[NEXT_BLKP(m, b)]]
<1>1. Forwards(go, next)
  BY Forward DEF Forwards
<1>2. PICK f : Recurs(f, go, next, val)
  <2> HIDE DEF go, next, val
  <2> QED
    BY <1>1, GoesOn
<1> DEFINE F == [b \in D |-> f[b]]
<1>3. \A b \in D : (IF b \in go THEN f[next[b]] ELSE val[b])
                     = (IF ~Starts(m, b) THEN NULL
                        ELSE IF Fits(m, b, asize) THEN b ELSE F[NEXT_BLKP(m, b)])
  BY Forward
<1>4. F = Body(F)
  BY <1>2, <1>3 DEF Recurs
<1>5. After(m, asize) = Body(After(m, asize))
  BY <1>4 DEF After
<1> QED
  BY <1>5

LEMMA UptoStep ==
  ASSUME AllocatorAssumption, NEW m \in Memory, NEW asize, NEW last, NEW bp \in 1 .. MAX_HEAP
  PROVE  Upto(m, asize, last)[bp] =
           IF bp >= last \/ ~Starts(m, bp) THEN NULL
           ELSE IF Fits(m, NEXT_BLKP(m, bp), asize) THEN NEXT_BLKP(m, bp)
           ELSE Upto(m, asize, last)[NEXT_BLKP(m, bp)]
<1> DEFINE D == 1 .. MAX_HEAP
           End(b) == b >= last \/ ~Starts(m, b)
           go == {b \in D : ~End(b) /\ ~Fits(m, NEXT_BLKP(m, b), asize)}
           next == [b \in D |-> NEXT_BLKP(m, b)]
           val == [b \in D |-> IF End(b) THEN NULL ELSE NEXT_BLKP(m, b)]
           Body(f) == [b \in D |-> IF End(b) THEN NULL
                                   ELSE IF Fits(m, NEXT_BLKP(m, b), asize) THEN NEXT_BLKP(m, b)
                                   ELSE f[NEXT_BLKP(m, b)]]
<1>1. Forwards(go, next)
  BY Forward DEF Forwards
<1>2. PICK f : Recurs(f, go, next, val)
  <2> HIDE DEF go, next, val
  <2> QED
    BY <1>1, GoesOn
<1> DEFINE F == [b \in D |-> f[b]]
<1>3. \A b \in D : (IF b \in go THEN f[next[b]] ELSE val[b])
                     = (IF End(b) THEN NULL
                        ELSE IF Fits(m, NEXT_BLKP(m, b), asize) THEN NEXT_BLKP(m, b)
                        ELSE F[NEXT_BLKP(m, b)])
  <2>1. \A b \in D : ~End(b) => NEXT_BLKP(m, b) \in D
    BY Forward
  <2> HIDE DEF End
  <2> QED
    BY <2>1
<1>4. F = Body(F)
  <2> HIDE DEF End
  <2> QED
    BY <1>2, <1>3 DEF Recurs
<1>5. Upto(m, asize, last) = Body(Upto(m, asize, last))
  BY <1>4 DEF Upto
<1> QED
  BY <1>5

LEMMA WalkStep ==
  ASSUME AllocatorAssumption, NEW m \in Memory, NEW b \in 1 .. MAX_HEAP
  PROVE  BlocksFrom(m)[b] =
           IF Starts(m, b) THEN {b} \cup BlocksFrom(m)[NEXT_BLKP(m, b)] ELSE {}
BY WalkExists

-----------------------------------------------------------------------------
(***************************************************************************)
(* The layout of the heap.                                                 *)
(***************************************************************************)
\* From the prologue to brk the blocks B follow each other without a gap.
Tiles(m, brk, B) ==
  /\ brk \in Nat /\ heap_listp \in B
  /\ \A b \in B : b \in Nat /\ heap_listp <= b /\ b < brk
  /\ \A b \in B : GET_SIZE(m, b) \in Nat \ {0} /\ NEXT_BLKP(m, b) \in B \cup {brk}
  /\ \A b, c \in B : b < c => NEXT_BLKP(m, b) <= c
  /\ \A c \in (B \ {heap_listp}) \cup {brk} : \E b \in B : NEXT_BLKP(m, b) = c

\* The tags: those of the prologue and the epilogue, and for every other block
\* a header and a footer that agree.
Prologue == [size |-> DSIZE, alloc |-> TRUE]
Epilogue == [size |-> 0, alloc |-> TRUE]

Tagged(m, brk, B) ==
  /\ brk \in 4 .. MAX_HEAP /\ Even(brk)
  /\ m[1] = Prologue /\ m[2] = Prologue /\ m[brk - 1] = Epilogue
  /\ \A b \in B \ {heap_listp} :
       /\ Even(b) /\ Even(GET_SIZE(m, b))
       /\ GET_SIZE(m, b) >= 2 * DSIZE
       /\ m[FTRP(m, b)] = m[HDRP(b)]

Layout(m, brk, B) == m \in Memory /\ Tiles(m, brk, B) /\ Tagged(m, brk, B)

\* coalesce() has nothing left to do, but perhaps at a block e.
MergedBut(m, B, e) ==
  \A b \in B : NEXT_BLKP(m, b) \in B =>
    \/ GET_ALLOC(m, b) \/ GET_ALLOC(m, NEXT_BLKP(m, b))
    \/ b = e \/ NEXT_BLKP(m, b) = e

Merged(m, B) ==
  \A b \in B : NEXT_BLKP(m, b) \in B => GET_ALLOC(m, b) \/ GET_ALLOC(m, NEXT_BLKP(m, b))

InUse(m, B) == {b \in B \ {heap_listp} : GET_ALLOC(m, b)}

USE DEF heap_listp, WSIZE, DSIZE, NULL

LEMMA BlockFacts ==
  ASSUME AllocatorAssumption, NEW m \in Memory, NEW brk, NEW B, Layout(m, brk, B), NEW b \in B
  PROVE  /\ b \in Nat /\ b >= 2 /\ b < brk /\ brk \in Nat /\ brk <= MAX_HEAP
         /\ b - 1 \in Addresses /\ m[b - 1] \in Tag /\ Even(b)
         /\ GET_SIZE(m, b) \in Nat /\ GET_SIZE(m, b) >= 2 /\ Even(GET_SIZE(m, b))
         /\ NEXT_BLKP(m, b) = b + GET_SIZE(m, b) /\ NEXT_BLKP(m, b) \in Nat
         /\ NEXT_BLKP(m, b) <= brk /\ b < NEXT_BLKP(m, b)
         /\ NEXT_BLKP(m, b) \in B \cup {brk}
         /\ m[b - 1] = [size |-> GET_SIZE(m, b), alloc |-> GET_ALLOC(m, b)]
         /\ GET_ALLOC(m, b) \in BOOLEAN
         /\ GET_SIZE(m, 2) = 2 /\ GET_ALLOC(m, 2) = TRUE
<1>1. b \in Nat /\ b >= 2 /\ b < brk /\ brk \in Nat /\ brk <= MAX_HEAP /\ MAX_HEAP \in Nat
  BY DEF Layout, Tiles, Tagged, AllocatorAssumption
<1>2. b - 1 \in Addresses /\ m[b - 1] \in Tag
  BY <1>1 DEF Addresses, Memory
<1>3. m[b - 1] = [size |-> GET_SIZE(m, b), alloc |-> GET_ALLOC(m, b)]
      /\ GET_SIZE(m, b) \in Nat /\ GET_ALLOC(m, b) \in BOOLEAN
  BY <1>1, <1>2 DEF Tag, GET_SIZE, GET_ALLOC, HDRP
<1>4. GET_SIZE(m, 2) = 2 /\ GET_ALLOC(m, 2) = TRUE
  BY DEF Layout, Tagged, Prologue, GET_SIZE, GET_ALLOC, HDRP
<1>5. Even(b) /\ GET_SIZE(m, b) >= 2 /\ Even(GET_SIZE(m, b))
  <2>1. CASE b = 2
    BY <1>4, <2>1 DEF Even
  <2>2. CASE b # 2
    BY <1>1, <1>3, <2>2 DEF Layout, Tagged
  <2> QED
    BY <2>1, <2>2
<1>6. NEXT_BLKP(m, b) = b + GET_SIZE(m, b) /\ NEXT_BLKP(m, b) \in B \cup {brk}
      /\ \A c \in B : c \in Nat /\ c < brk
  BY DEF Layout, Tiles, NEXT_BLKP
<1>7. NEXT_BLKP(m, b) \in Nat
  BY <1>1, <1>3, <1>6
<1>8. NEXT_BLKP(m, b) <= brk /\ b < NEXT_BLKP(m, b)
  BY <1>1, <1>3, <1>5, <1>6, <1>7
<1> QED
  BY <1>1, <1>2, <1>3, <1>4, <1>5, <1>6, <1>7, <1>8

LEMMA BlockTypes ==
  ASSUME AllocatorAssumption, NEW m \in Memory, NEW brk, NEW B, Layout(m, brk, B)
  PROVE  \A b \in B : /\ NEXT_BLKP(m, b) \in Nat /\ GET_SIZE(m, b) \in Nat
                      /\ NEXT_BLKP(m, b) = b + GET_SIZE(m, b)
                      /\ Even(GET_SIZE(m, b)) /\ Even(b) /\ b < NEXT_BLKP(m, b)
                      /\ NEXT_BLKP(m, b) <= brk /\ NEXT_BLKP(m, b) \in B \cup {brk}
                      /\ b - 1 \in Addresses /\ GET_SIZE(m, b) >= 2
<1> TAKE b \in B
<1>1. b \in Nat /\ NEXT_BLKP(m, b) \in Nat /\ GET_SIZE(m, b) \in Nat /\ brk \in Nat
  BY BlockFacts
<1>2. NEXT_BLKP(m, b) = b + GET_SIZE(m, b)
  BY DEF NEXT_BLKP
<1>3. /\ b - 1 \in Addresses /\ GET_SIZE(m, b) >= 2
      /\ b < NEXT_BLKP(m, b) /\ NEXT_BLKP(m, b) <= brk
  BY <1>1, BlockFacts
<1>4. NEXT_BLKP(m, b) \in B \cup {brk} /\ Even(b) /\ Even(GET_SIZE(m, b))
  BY BlockFacts
<1> QED
  BY <1>1, <1>2, <1>3, <1>4

LEMMA LayoutFacts ==
  ASSUME NEW m, NEW brk, NEW B, Layout(m, brk, B)
  PROVE  /\ \A b, c \in B : b < c => NEXT_BLKP(m, b) <= c
         /\ \A c \in (B \ {2}) \cup {brk} : \E b \in B : NEXT_BLKP(m, b) = c
         /\ \A b \in B \ {2} : GET_SIZE(m, b) >= 4 /\ m[b + GET_SIZE(m, b) - 2] = m[b - 1]
         /\ m[1] = Prologue /\ m[2] = Prologue /\ m[brk - 1] = Epilogue /\ GET_SIZE(m, 2) = 2
<1>1. GET_SIZE(m, 2) = 2
  BY DEF Layout, Tagged, Prologue, GET_SIZE, HDRP
<1>2. \A b \in B \ {2} : GET_SIZE(m, b) >= 4 /\ m[b + GET_SIZE(m, b) - 2] = m[b - 1]
  BY DEF Layout, Tagged, FTRP, HDRP
<1> QED
  BY <1>1, <1>2 DEF Layout, Tiles, Tagged

LEMMA BlockStarts ==
  ASSUME AllocatorAssumption, NEW m \in Memory, NEW brk, NEW B, Layout(m, brk, B), NEW b \in B
  PROVE  Starts(m, b)
<1>1. GET_SIZE(m, b) >= 2 /\ GET_SIZE(m, b) \in Nat
  BY BlockFacts
<1>2. NEXT_BLKP(m, b) <= brk /\ NEXT_BLKP(m, b) \in Nat
  BY BlockFacts
<1>3. brk \in Nat /\ brk <= MAX_HEAP /\ MAX_HEAP \in Nat
  BY BlockFacts DEF AllocatorAssumption
<1> QED
  BY <1>1, <1>2, <1>3 DEF Starts

\* The walk finds them.
LEMMA WalkFinds ==
  ASSUME AllocatorAssumption, NEW m \in Memory, NEW brk, NEW B, Layout(m, brk, B)
  PROVE  BlocksFrom(m)[heap_listp] = B
<1> DEFINE C == B \cup {brk}
           From(b) == {c \in B : c >= b}
           Bad == {b \in C : BlocksFrom(m)[b] # From(b)}
<1>1. /\ brk \in Nat /\ brk <= MAX_HEAP /\ brk >= 4 /\ MAX_HEAP \in Nat
      /\ 2 \in B /\ \A c \in B : c \in Nat /\ 2 <= c /\ c < brk
  BY DEF Layout, Tiles, Tagged, AllocatorAssumption
<1>2. BlocksFrom(m)[brk] = {}
  <2>1. ~Starts(m, brk)
    BY DEF Layout, Tagged, Epilogue, Starts, GET_SIZE, HDRP
  <2>2. brk \in 1 .. MAX_HEAP
    BY <1>1
  <2> QED
    BY <2>1, <2>2, WalkStep
<1>3. From(brk) = {}
  BY <1>1
<1>4. ASSUME NEW b \in B
      PROVE  BlocksFrom(m)[b] = {b} \cup BlocksFrom(m)[NEXT_BLKP(m, b)]
  <2>1. Starts(m, b)
    BY BlockStarts
  <2>2. b \in 1 .. MAX_HEAP
    BY <1>1
  <2> QED
    BY <2>1, <2>2, WalkStep
<1>5. ASSUME NEW b \in B  PROVE From(b) = {b} \cup From(NEXT_BLKP(m, b))
  <2>1. \A c \in B : c > b => c >= NEXT_BLKP(m, b)
    BY DEF Layout, Tiles
  <2>2. b < NEXT_BLKP(m, b) /\ b \in Nat /\ NEXT_BLKP(m, b) \in Nat
    BY BlockFacts
  <2>3. \A c \in B : c >= b <=> c = b \/ c >= NEXT_BLKP(m, b)
    BY <1>1, <2>1, <2>2
  <2> QED
    BY <2>3
<1>6. Bad = {}
  <2> SUFFICES ASSUME Bad # {}  PROVE FALSE
    OBVIOUS
  <2>1. Bad \in SUBSET (0 .. MAX_HEAP)
    <3>1. \A b \in C : b \in 0 .. MAX_HEAP
      BY <1>1
    <3> QED
      BY <3>1
  <2>2. PICK x \in Bad : \A y \in Bad : y <= x
    <3> HIDE DEF Bad
    <3> QED
      BY <1>1, <2>1, Greatest
  <2>3. x \in B
    BY <1>2, <1>3
  <2>4. NEXT_BLKP(m, x) \in C /\ x < NEXT_BLKP(m, x) /\ x \in Nat /\ NEXT_BLKP(m, x) \in Nat
    BY <2>3, BlockFacts
  <2>5. NEXT_BLKP(m, x) \notin Bad
    <3> HIDE DEF Bad
    <3> QED
      BY <2>2, <2>4
  <2> QED
    BY <1>4, <1>5, <2>3, <2>4, <2>5
<1>7. BlocksFrom(m)[2] = From(2)
  BY <1>1, <1>6
<1>8. From(2) = B
  BY <1>1
<1> QED
  BY <1>7, <1>8

\* The first loop finds a block that fits, from b on, if there is one.
LEMMA AfterFinds ==
  ASSUME AllocatorAssumption, NEW m \in Memory, NEW brk, NEW B, Layout(m, brk, B),
         NEW asize, NEW b \in B \cup {brk}
  PROVE  \/ After(m, asize)[b] \in B /\ Fits(m, After(m, asize)[b], asize)
         \/ After(m, asize)[b] = NULL /\ \A c \in B : c >= b => ~Fits(m, c, asize)
<1> DEFINE C == B \cup {brk}
           Right(x) == \/ After(m, asize)[x] \in B /\ Fits(m, After(m, asize)[x], asize)
                       \/ After(m, asize)[x] = NULL /\ \A c \in B : c >= x => ~Fits(m, c, asize)
           Bad == {x \in C : ~Right(x)}
<1>1. /\ brk \in Nat /\ brk <= MAX_HEAP /\ brk >= 4 /\ MAX_HEAP \in Nat
      /\ 2 \in B /\ \A c \in B : c \in Nat /\ 2 <= c /\ c < brk
  BY DEF Layout, Tiles, Tagged, AllocatorAssumption
<1>2. Right(brk)
  <2>1. ~Starts(m, brk)
    BY DEF Layout, Tagged, Epilogue, Starts, GET_SIZE, HDRP
  <2>2. brk \in 1 .. MAX_HEAP
    BY <1>1
  <2>3. After(m, asize)[brk] = NULL
    BY <2>1, <2>2, AfterStep
  <2> QED
    BY <1>1, <2>3
<1>3. ASSUME NEW x \in B, Right(NEXT_BLKP(m, x))  PROVE Right(x)
  <2>1. Starts(m, x)
    BY BlockStarts
  <2>2. x \in 1 .. MAX_HEAP
    BY <1>1
  <2>3. After(m, asize)[x] = IF Fits(m, x, asize) THEN x ELSE After(m, asize)[NEXT_BLKP(m, x)]
    BY <2>1, <2>2, AfterStep
  <2>4. \A c \in B : c >= x => c = x \/ c >= NEXT_BLKP(m, x)
    <3>1. \A c \in B : x < c => NEXT_BLKP(m, x) <= c
      BY DEF Layout, Tiles
    <3>2. NEXT_BLKP(m, x) \in Nat
      BY BlockFacts
    <3> QED
      BY <1>1, <3>1, <3>2
  <2> QED
    BY <1>3, <2>3, <2>4
<1>4. Bad = {}
  <2> SUFFICES ASSUME Bad # {}  PROVE FALSE
    OBVIOUS
  <2> HIDE DEF Right
  <2>1. Bad \in SUBSET (0 .. MAX_HEAP)
    <3>1. \A x \in C : x \in 0 .. MAX_HEAP
      BY <1>1
    <3> QED
      BY <3>1
  <2>2. PICK x \in Bad : \A y \in Bad : y <= x
    <3> HIDE DEF Bad
    <3> QED
      BY <1>1, <2>1, Greatest
  <2>3. x \in B
    BY <1>2
  <2>4. NEXT_BLKP(m, x) \in C /\ x < NEXT_BLKP(m, x) /\ x \in Nat /\ NEXT_BLKP(m, x) \in Nat
    BY <2>3, BlockFacts
  <2>5. NEXT_BLKP(m, x) \notin Bad
    <3> HIDE DEF Bad
    <3> QED
      BY <2>2, <2>4
  <2> QED
    BY <1>3, <2>3, <2>4, <2>5
<1> QED
  BY <1>4

\* The second loop finds one behind b and no further than the rover.
LEMMA UptoFinds ==
  ASSUME AllocatorAssumption, NEW m \in Memory, NEW brk, NEW B, Layout(m, brk, B),
         NEW asize, NEW last \in B, NEW b \in B
  PROVE  \/ Upto(m, asize, last)[b] \in B /\ Fits(m, Upto(m, asize, last)[b], asize)
         \/ /\ Upto(m, asize, last)[b] = NULL
            /\ \A c \in B : b < c /\ c <= last => ~Fits(m, c, asize)
<1> DEFINE Right(x) == \/ Upto(m, asize, last)[x] \in B /\ Fits(m, Upto(m, asize, last)[x], asize)
                       \/ /\ Upto(m, asize, last)[x] = NULL
                          /\ \A c \in B : x < c /\ c <= last => ~Fits(m, c, asize)
           Bad == {x \in B : ~Right(x)}
<1>1. /\ brk \in Nat /\ brk <= MAX_HEAP /\ brk >= 4 /\ MAX_HEAP \in Nat
      /\ 2 \in B /\ \A c \in B : c \in Nat /\ 2 <= c /\ c < brk
  BY DEF Layout, Tiles, Tagged, AllocatorAssumption
<1>2. ASSUME NEW x \in B, x >= last  PROVE Right(x)
  <2>1. x \in 1 .. MAX_HEAP
    BY <1>1
  <2>2. Upto(m, asize, last)[x] = NULL
    BY <1>2, <2>1, UptoStep
  <2> QED
    BY <1>1, <1>2, <2>2
<1>3. ASSUME NEW x \in B, x < last
      PROVE  NEXT_BLKP(m, x) \in B /\ NEXT_BLKP(m, x) \in Nat /\ NEXT_BLKP(m, x) > x
  <2>1. NEXT_BLKP(m, x) <= last
    BY <1>3 DEF Layout, Tiles
  <2>2. NEXT_BLKP(m, x) \in B \cup {brk} /\ NEXT_BLKP(m, x) \in Nat /\ x < NEXT_BLKP(m, x)
    BY BlockFacts
  <2> QED
    BY <1>1, <2>1, <2>2
<1>4. ASSUME NEW x \in B, x < last, Right(NEXT_BLKP(m, x))  PROVE Right(x)
  <2>1. Starts(m, x) /\ ~(x >= last)
    BY <1>1, <1>4, BlockStarts
  <2>2. x \in 1 .. MAX_HEAP
    BY <1>1
  <2>3. Upto(m, asize, last)[x] =
          IF Fits(m, NEXT_BLKP(m, x), asize) THEN NEXT_BLKP(m, x)
          ELSE Upto(m, asize, last)[NEXT_BLKP(m, x)]
    BY <2>1, <2>2, UptoStep
  <2>4. \A c \in B : x < c => c = NEXT_BLKP(m, x) \/ c > NEXT_BLKP(m, x)
    <3>1. \A c \in B : x < c => NEXT_BLKP(m, x) <= c
      BY DEF Layout, Tiles
    <3> QED
      BY <1>1, <1>3, <1>4, <3>1
  <2> QED
    BY <1>3, <1>4, <2>3, <2>4
<1>5. Bad = {}
  <2> SUFFICES ASSUME Bad # {}  PROVE FALSE
    OBVIOUS
  <2> HIDE DEF Right
  <2>1. Bad \in SUBSET (0 .. MAX_HEAP)
    <3>1. \A x \in B : x \in 0 .. MAX_HEAP
      BY <1>1
    <3> QED
      BY <3>1
  <2>2. PICK x \in Bad : \A y \in Bad : y <= x
    <3> HIDE DEF Bad
    <3> QED
      BY <1>1, <2>1, Greatest
  <2>3. x < last
    BY <1>1, <1>2
  <2>4. NEXT_BLKP(m, x) \in B /\ x < NEXT_BLKP(m, x) /\ x \in Nat /\ NEXT_BLKP(m, x) \in Nat
    BY <1>1, <1>3, <2>3
  <2>5. NEXT_BLKP(m, x) \notin Bad
    <3> HIDE DEF Bad
    <3> QED
      BY <2>2, <2>4
  <2> QED
    BY <1>4, <2>3, <2>4, <2>5
<1> QED
  BY <1>5

\* find_fit() finds a block that fits if there is one in the heap, wherever the
\* rover is.
LEMMA FindsFit ==
  ASSUME AllocatorAssumption, NEW h, h.mem \in Memory, NEW B, Layout(h.mem, h.brk, B),
         h.last_bp \in B, NEW asize
  PROVE  \/ /\ find_fit(h, asize) \in B \ {2} /\ find_fit(h, asize) # NULL
            /\ Fits(h.mem, find_fit(h, asize), asize)
         \/ find_fit(h, asize) = NULL /\ \A c \in B : ~Fits(h.mem, c, asize)
<1> DEFINE m == h.mem
           last == h.last_bp
           found == After(m, asize)[NEXT_BLKP(m, last)]
           next == Upto(m, asize, last)[2]
<1>1. /\ 2 \in B /\ \A c \in B : c \in Nat /\ 2 <= c
  BY DEF Layout, Tiles
<1>2. ~Fits(m, 2, asize)
  BY <1>1, BlockFacts DEF Fits
<1>3. NEXT_BLKP(m, last) \in B \cup {h.brk} /\ NEXT_BLKP(m, last) \in Nat
  BY BlockFacts
<1>4. \/ found \in B /\ Fits(m, found, asize)
      \/ found = NULL /\ \A c \in B : c >= NEXT_BLKP(m, last) => ~Fits(m, c, asize)
  BY <1>3, AfterFinds
<1>5. \/ next \in B /\ Fits(m, next, asize)
      \/ next = NULL /\ \A c \in B : 2 < c /\ c <= last => ~Fits(m, c, asize)
  BY <1>1, UptoFinds
<1>6. find_fit(h, asize) = IF found # NULL THEN found ELSE next
  BY DEF find_fit
<1>7. \A c \in B : c = 2 \/ (2 < c /\ c <= last) \/ c >= NEXT_BLKP(m, last)
  <2>1. \A c \in B : last < c => NEXT_BLKP(m, last) <= c
    BY DEF Layout, Tiles
  <2> QED
    BY <1>1, <1>3, <2>1
<1> HIDE DEF m, last, found, next
<1>8. CASE found = NULL /\ next = NULL
  <2>1. \A c \in B : ~Fits(m, c, asize)
    BY <1>1, <1>2, <1>4, <1>5, <1>7, <1>8
  <2> QED
    BY <1>6, <1>8, <2>1 DEF m
<1>9. CASE found # NULL \/ next # NULL
  <2>1. find_fit(h, asize) \in B /\ Fits(m, find_fit(h, asize), asize)
    BY <1>4, <1>5, <1>6, <1>9
  <2>2. find_fit(h, asize) # 2 /\ find_fit(h, asize) # NULL
    BY <1>1, <1>2, <2>1
  <2> QED
    BY <2>1, <2>2 DEF m
<1> QED
  BY <1>8, <1>9

-----------------------------------------------------------------------------
(***************************************************************************)
(* What the writes of the allocator do to the layout.                      *)
(***************************************************************************)
\* m1 is m with the tag t at the words p and q.
Changed(m, m1, p, q, t) ==
  m1 \in Memory /\ \A a \in Addresses : m1[a] = IF a = p \/ a = q THEN t ELSE m[a]

LEMMA PutFacts ==
  ASSUME AllocatorAssumption, NEW m \in Memory, NEW p \in Addresses,
         NEW size \in 0 .. MAX_HEAP, NEW alloc \in BOOLEAN
  PROVE  Changed(m, PUT(m, p, size, alloc), p, p, [size |-> size, alloc |-> alloc])
BY DEF PUT, Memory, Tag, Changed

LEMMA PutBothFacts ==
  ASSUME AllocatorAssumption, NEW m \in Memory, NEW bp \in Nat, NEW size \in Nat,
         NEW alloc \in BOOLEAN, bp >= 1, size >= 2, bp + size <= MAX_HEAP
  PROVE  Changed(m, PutBoth(m, bp, size, alloc), bp - 1, bp + size - 2,
                 [size |-> size, alloc |-> alloc])
<1>1. bp - 1 \in Addresses /\ bp + size - 2 \in Addresses /\ size \in 0 .. MAX_HEAP
  BY DEF Addresses, AllocatorAssumption
<1> DEFINE m0 == PUT(m, bp - 1, size, alloc)
           m1 == PUT(m0, bp + size - 2, size, alloc)
           tag == [size |-> size, alloc |-> alloc]
<1>2. Changed(m, m0, bp - 1, bp - 1, tag)
  BY <1>1, PutFacts
<1>3. PutBoth(m, bp, size, alloc) = m1
  BY DEF PutBoth, HDRP
<1> HIDE DEF m0, tag
<1>4. Changed(m0, m1, bp + size - 2, bp + size - 2, tag)
  BY <1>1, <1>2, PutFacts DEF Changed, tag
<1> HIDE DEF m1
<1>5. Changed(m, m1, bp - 1, bp + size - 2, tag)
  BY <1>2, <1>4 DEF Changed
<1> QED
  BY <1>3, <1>5 DEF tag

\* Two memories with the same header at b.
SameHeader(m, m1, b) ==
  /\ m1[HDRP(b)] = m[HDRP(b)] /\ GET_SIZE(m1, b) = GET_SIZE(m, b)
  /\ GET_ALLOC(m1, b) = GET_ALLOC(m, b) /\ NEXT_BLKP(m1, b) = NEXT_BLKP(m, b)

LEMMA TaggedIs ==
  ASSUME NEW m, NEW brk, brk \in 4 .. MAX_HEAP, Even(brk), NEW B,
         m[1] = Prologue, m[2] = Prologue, m[brk - 1] = Epilogue,
         \A b \in B \ {2} : /\ Even(b) /\ Even(GET_SIZE(m, b)) /\ GET_SIZE(m, b) >= 4
                             /\ m[b + GET_SIZE(m, b) - 2] = m[b - 1]
  PROVE  Tagged(m, brk, B)
BY DEF Tagged, FTRP, HDRP

\* A block start takes in what follows it up to another block, or the end.
LEMMA Merge ==
  ASSUME AllocatorAssumption, NEW m \in Memory, NEW brk, NEW B, Layout(m, brk, B),
         NEW start \in B \ {2}, NEW size \in Nat, size > 0, start + size \in B \cup {brk},
         NEW alloc \in BOOLEAN,
         NEW m1, m1 = PutBoth(m, start, size, alloc),
         NEW B1, B1 = {b \in B : b <= start \/ b >= start + size}
  PROVE  /\ Layout(m1, brk, B1) /\ start \in B1
         /\ m1[start - 1] = [size |-> size, alloc |-> alloc]
         /\ GET_SIZE(m1, start) = size /\ GET_ALLOC(m1, start) = alloc
         /\ NEXT_BLKP(m1, start) = start + size
         /\ \A b \in B1 \ {start} : SameHeader(m, m1, b)
<1>1. /\ brk \in Nat /\ brk <= MAX_HEAP /\ brk >= 4 /\ MAX_HEAP \in Nat /\ Even(brk)
      /\ 2 \in B /\ \A b \in B : b \in Nat /\ 2 <= b /\ b < brk
      /\ Addresses = 0 .. MAX_HEAP - 1
  BY DEF Layout, Tiles, Tagged, AllocatorAssumption, Addresses
<1>2. \A b \in B : /\ NEXT_BLKP(m, b) \in Nat /\ GET_SIZE(m, b) \in Nat
                   /\ NEXT_BLKP(m, b) = b + GET_SIZE(m, b)
                   /\ Even(GET_SIZE(m, b)) /\ Even(b) /\ b < NEXT_BLKP(m, b)
                   /\ NEXT_BLKP(m, b) <= brk /\ NEXT_BLKP(m, b) \in B \cup {brk}
                   /\ b - 1 \in Addresses /\ GET_SIZE(m, b) >= 2
  BY BlockTypes
<1>3. /\ \A b, c \in B : b < c => NEXT_BLKP(m, b) <= c
      /\ \A c \in (B \ {2}) \cup {brk} : \E b \in B : NEXT_BLKP(m, b) = c
      /\ \A b \in B \ {2} : GET_SIZE(m, b) >= 4 /\ m[b + GET_SIZE(m, b) - 2] = m[b - 1]
      /\ m[1] = Prologue /\ m[2] = Prologue /\ m[brk - 1] = Epilogue /\ GET_SIZE(m, 2) = 2
  BY LayoutFacts
<1>4. /\ start \in Nat /\ start >= 4 /\ start + size <= brk /\ start + size \in Nat
      /\ NEXT_BLKP(m, start) <= start + size /\ size >= 4 /\ Even(size)
  <2>1. start \in Nat /\ start > 2
    BY <1>1
  <2>2. start >= 4
    BY <1>1, <1>2, <1>3, <2>1
  <2>3. start + size <= brk /\ start + size \in Nat
    BY <1>1, <2>1
  <2>4. NEXT_BLKP(m, start) <= start + size
    BY <1>1, <1>2, <1>3, <2>1, <2>3
  <2>5. GET_SIZE(m, start) >= 4
    BY <1>3
  <2>6. Even(start) /\ Even(start + size)
    BY <1>1, <1>2
  <2>7. Even(size)
    BY <2>1, <2>6 DEF Even
  <2> QED
    BY <1>2, <2>1, <2>2, <2>3, <2>4, <2>5, <2>7
<1>5. /\ m1 \in Memory
      /\ \A a \in Addresses : m1[a] = IF a = start - 1 \/ a = start + size - 2
                                      THEN [size |-> size, alloc |-> alloc] ELSE m[a]
  <2>1. start >= 1 /\ size >= 2 /\ start + size <= MAX_HEAP
    BY <1>1, <1>4
  <2>2. Changed(m, PutBoth(m, start, size, alloc), start - 1, start + size - 2,
                [size |-> size, alloc |-> alloc])
    BY <1>4, <2>1, PutBothFacts
  <2> QED
    BY <2>2 DEF Changed
<1>6. /\ m1[start - 1] = [size |-> size, alloc |-> alloc]
      /\ GET_SIZE(m1, start) = size /\ GET_ALLOC(m1, start) = alloc
      /\ NEXT_BLKP(m1, start) = start + size
      /\ m1[start + size - 2] = m1[start - 1]
  <2>1. start - 1 \in Addresses /\ start + size - 2 \in Addresses
    BY <1>1, <1>4
  <2> QED
    BY <1>5, <2>1 DEF GET_SIZE, GET_ALLOC, NEXT_BLKP, HDRP
<1>7. ASSUME NEW b \in B1 \ {start}
      PROVE  /\ b \in B /\ \/ b < start /\ NEXT_BLKP(m, b) <= start
                           \/ b >= start + size
  BY <1>1, <1>3, <1>4
<1>8. ASSUME NEW b \in B1 \ {start}
      PROVE  SameHeader(m, m1, b)
  <2>1. b - 1 \in Addresses /\ b - 1 # start - 1 /\ b - 1 # start + size - 2
    BY <1>1, <1>2, <1>4, <1>7
  <2>2. m1[b - 1] = m[b - 1]
    BY <1>5, <2>1
  <2> QED
    BY <2>2 DEF SameHeader, GET_SIZE, GET_ALLOC, NEXT_BLKP, HDRP
<1>9. start \in B1 /\ 2 \in B1 /\ B1 \subseteq B /\ (start + size \in B => start + size \in B1)
  BY <1>1, <1>4
<1>10. Tiles(m1, brk, B1)
  <2>1. \A b \in B1 : b \in Nat /\ 2 <= b /\ b < brk
    BY <1>1, <1>9
  <2>2. ASSUME NEW b \in B1
        PROVE  GET_SIZE(m1, b) \in Nat \ {0} /\ NEXT_BLKP(m1, b) \in B1 \cup {brk}
    <3>1. CASE b = start
      BY <1>4, <1>6, <1>9, <3>1
    <3>2. CASE b # start
      <4>1. GET_SIZE(m1, b) = GET_SIZE(m, b) /\ NEXT_BLKP(m1, b) = NEXT_BLKP(m, b)
        BY <1>8, <3>2 DEF SameHeader
      <4>2. b \in B /\ NEXT_BLKP(m, b) \in B \cup {brk} /\ b < NEXT_BLKP(m, b)
            /\ NEXT_BLKP(m, b) \in Nat
        BY <1>2, <1>9
      <4>3. NEXT_BLKP(m, b) <= start \/ NEXT_BLKP(m, b) >= start + size
        BY <1>1, <1>4, <1>7, <3>2, <4>2
      <4>4. GET_SIZE(m, b) \in Nat \ {0}
        BY <1>2, <4>2
      <4> QED
        BY <4>1, <4>2, <4>3, <4>4
    <3> QED
      BY <3>1, <3>2
  <2>3. ASSUME NEW b \in B1, NEW c \in B1, b < c
        PROVE  NEXT_BLKP(m1, b) <= c
    <3>1. CASE b = start
      <4>1. c \in Nat /\ start < c
        BY <1>1, <1>9, <2>3, <3>1
      <4>2. start + size <= c
        BY <1>4, <4>1
      <4> QED
        BY <1>6, <3>1, <4>2
    <3>2. CASE b # start
      BY <1>3, <1>8, <1>9, <2>3, <3>2 DEF SameHeader
    <3> QED
      BY <3>1, <3>2
  <2>4. ASSUME NEW c \in (B1 \ {2}) \cup {brk}
        PROVE  \E b \in B1 : NEXT_BLKP(m1, b) = c
    <3>1. PICK b \in B : NEXT_BLKP(m, b) = c
      BY <1>3, <1>9
    <3>2. c <= start \/ c >= start + size
      BY <1>1, <1>4
    <3>3. CASE b \in B1 \ {start}
      BY <1>8, <3>1, <3>3 DEF SameHeader
    <3>4. CASE b \notin B1 \ {start}
      <4>1. b \in Nat /\ c \in Nat /\ b < c /\ start <= b /\ b < start + size
        BY <1>1, <1>2, <1>4, <3>1, <3>4
      <4>2. c >= start + size
        BY <1>4, <3>2, <4>1
      <4>3. c <= start + size
        <5>1. CASE start + size \in B
          BY <1>3, <3>1, <4>1, <5>1
        <5>2. CASE start + size = brk
          BY <1>2, <3>1, <5>2
        <5> QED
          BY <5>1, <5>2
      <4>4. c = start + size
        BY <1>4, <4>1, <4>2, <4>3
      <4> QED
        BY <1>6, <1>9, <4>4
    <3> QED
      BY <3>3, <3>4
  <2> QED
    BY <1>1, <1>9, <2>1, <2>2, <2>3, <2>4 DEF Tiles
<1>11. Tagged(m1, brk, B1)
  <2>1. m1[1] = Prologue /\ m1[2] = Prologue /\ m1[brk - 1] = Epilogue
    <3>1. 1 \in Addresses /\ 2 \in Addresses /\ brk - 1 \in Addresses
      BY <1>1
    <3>2. /\ start - 1 >= 3 /\ start + size - 2 >= 3
          /\ start - 1 < brk - 1 /\ start + size - 2 < brk - 1
      BY <1>1, <1>4
    <3>3. /\ 1 # start - 1 /\ 1 # start + size - 2 /\ 2 # start - 1 /\ 2 # start + size - 2
          /\ brk - 1 # start - 1 /\ brk - 1 # start + size - 2
      BY <1>1, <1>4, <3>2
    <3> QED
      BY <1>3, <1>5, <3>1, <3>3
  <2>2. ASSUME NEW b \in B1 \ {2}
        PROVE  /\ Even(b) /\ Even(GET_SIZE(m1, b)) /\ GET_SIZE(m1, b) >= 4
               /\ m1[b + GET_SIZE(m1, b) - 2] = m1[b - 1]
    <3>1. CASE b = start
      BY <1>2, <1>4, <1>6, <3>1
    <3>2. CASE b # start
      <4>1. b \in B \ {2} /\ b \in Nat
        BY <1>1, <1>9
      <4>2. GET_SIZE(m1, b) = GET_SIZE(m, b) /\ m1[b - 1] = m[b - 1]
        BY <1>8, <3>2 DEF SameHeader, HDRP
      <4>3. /\ GET_SIZE(m, b) \in Nat /\ GET_SIZE(m, b) >= 4 /\ b + GET_SIZE(m, b) <= brk
            /\ b + GET_SIZE(m, b) <= start \/ b >= start + size
        BY <1>2, <1>3, <1>7, <3>2, <4>1
      <4>4. /\ b + GET_SIZE(m, b) - 2 \in Addresses
            /\ b + GET_SIZE(m, b) - 2 # start - 1 /\ b + GET_SIZE(m, b) - 2 # start + size - 2
        BY <1>1, <1>4, <4>1, <4>3
      <4>5. m1[b + GET_SIZE(m, b) - 2] = m[b + GET_SIZE(m, b) - 2]
        BY <1>5, <4>4
      <4> QED
        BY <1>2, <1>3, <4>1, <4>2, <4>5
    <3> QED
      BY <3>1, <3>2
  <2> QED
    BY <1>1, <2>1, <2>2 DEF Tagged, FTRP, HDRP
<1> QED
  BY <1>5, <1>6, <1>8, <1>9, <1>10, <1>11 DEF Layout

\* The same, as a relation between two memories.
Merges(m, brk, B, start, size, alloc, m1, B1) ==
  /\ Layout(m1, brk, B1) /\ start \in B1
  /\ GET_SIZE(m1, start) = size /\ GET_ALLOC(m1, start) = alloc
  /\ NEXT_BLKP(m1, start) = start + size
  /\ \A b \in B1 \ {start} : SameHeader(m, m1, b)

MayMerge(m, brk, B, start, size, alloc, m1, B1) ==
  /\ m \in Memory /\ Layout(m, brk, B) /\ start \in B \ {2} /\ size \in Nat /\ size > 0
  /\ start + size \in B \cup {brk} /\ alloc \in BOOLEAN
  /\ m1 = PutBoth(m, start, size, alloc)
  /\ B1 = {b \in B : b <= start \/ b >= start + size}

LEMMA MergeWorks ==
  ASSUME AllocatorAssumption
  PROVE  \A m, brk, B, start, size, alloc, m1, B1 :
           MayMerge(m, brk, B, start, size, alloc, m1, B1)
             => Merges(m, brk, B, start, size, alloc, m1, B1)
<1> SUFFICES ASSUME NEW m, NEW brk, NEW B, NEW start, NEW size, NEW alloc, NEW m1, NEW B1,
                    MayMerge(m, brk, B, start, size, alloc, m1, B1)
             PROVE  Merges(m, brk, B, start, size, alloc, m1, B1)
  OBVIOUS
<1>1. /\ m \in Memory /\ Layout(m, brk, B) /\ start \in B \ {2} /\ size \in Nat /\ size > 0
      /\ start + size \in B \cup {brk} /\ alloc \in BOOLEAN
      /\ m1 = PutBoth(m, start, size, alloc)
      /\ B1 = {b \in B : b <= start \/ b >= start + size}
  BY DEF MayMerge
<1>2. /\ Layout(m1, brk, B1) /\ start \in B1
      /\ m1[start - 1] = [size |-> size, alloc |-> alloc]
      /\ GET_SIZE(m1, start) = size /\ GET_ALLOC(m1, start) = alloc
      /\ NEXT_BLKP(m1, start) = start + size
      /\ \A b \in B1 \ {start} : SameHeader(m, m1, b)
  BY <1>1, Merge
<1> QED
  BY <1>2 DEF Merges

\* A block that is large enough becomes one in use and a free one.
Splits(m, brk, B, start, asize, yes, no, m1, B1) ==
  /\ Layout(m1, brk, B1) /\ start + asize \notin B
  /\ GET_SIZE(m1, start) = asize /\ GET_ALLOC(m1, start) = yes
  /\ NEXT_BLKP(m1, start) = start + asize
  /\ GET_ALLOC(m1, start + asize) = no
  /\ NEXT_BLKP(m1, start + asize) = NEXT_BLKP(m, start)
  /\ \A b \in B \ {start} : SameHeader(m, m1, b)

MaySplit(m, brk, B, start, asize, yes, no, m1, B1) ==
  /\ m \in Memory /\ Layout(m, brk, B) /\ start \in B \ {2}
  /\ asize \in Nat /\ Even(asize) /\ asize >= 4 /\ GET_SIZE(m, start) - asize >= 4
  /\ yes \in BOOLEAN /\ no \in BOOLEAN
  /\ m1 = PutBoth(PutBoth(m, start, asize, yes), start + asize, GET_SIZE(m, start) - asize, no)
  /\ B1 = B \cup {start + asize}

LEMMA SplitWorks ==
  ASSUME AllocatorAssumption
  PROVE  \A m, brk, B, start, asize, yes, no, m1, B1 :
           MaySplit(m, brk, B, start, asize, yes, no, m1, B1)
             => Splits(m, brk, B, start, asize, yes, no, m1, B1)
<1> SUFFICES ASSUME NEW m, NEW brk, NEW B, NEW start, NEW asize, NEW yes, NEW no, NEW m1, NEW B1,
                    MaySplit(m, brk, B, start, asize, yes, no, m1, B1)
             PROVE  Splits(m, brk, B, start, asize, yes, no, m1, B1)
  OBVIOUS
<1>a. PICK rest : rest = GET_SIZE(m, start) - asize
  OBVIOUS
<1>b. PICK cut : cut = start + asize
  OBVIOUS
<1>c. PICK end : end = NEXT_BLKP(m, start)
  OBVIOUS
<1>d. PICK m0 : m0 = PutBoth(m, start, asize, yes)
  OBVIOUS
<1>e. /\ m \in Memory /\ Layout(m, brk, B) /\ start \in B \ {2}
      /\ asize \in Nat /\ Even(asize) /\ asize >= 4 /\ GET_SIZE(m, start) - asize >= 4
      /\ yes \in BOOLEAN /\ no \in BOOLEAN
      /\ m1 = PutBoth(m0, cut, rest, no) /\ B1 = B \cup {cut}
  BY <1>a, <1>b, <1>d DEF MaySplit
<1> USE <1>a, <1>b, <1>c, <1>d, <1>e
<1>1. /\ brk \in Nat /\ brk <= MAX_HEAP /\ brk >= 4 /\ MAX_HEAP \in Nat /\ Even(brk)
      /\ 2 \in B /\ \A b \in B : b \in Nat /\ 2 <= b /\ b < brk
      /\ Addresses = 0 .. MAX_HEAP - 1
  BY DEF Layout, Tiles, Tagged, AllocatorAssumption, Addresses
<1>2. \A b \in B : /\ NEXT_BLKP(m, b) \in Nat /\ GET_SIZE(m, b) \in Nat
                   /\ NEXT_BLKP(m, b) = b + GET_SIZE(m, b)
                   /\ Even(GET_SIZE(m, b)) /\ Even(b) /\ b < NEXT_BLKP(m, b)
                   /\ NEXT_BLKP(m, b) <= brk /\ NEXT_BLKP(m, b) \in B \cup {brk}
                   /\ b - 1 \in Addresses /\ GET_SIZE(m, b) >= 2
  BY BlockTypes
<1>3. /\ \A b, c \in B : b < c => NEXT_BLKP(m, b) <= c
      /\ \A c \in (B \ {2}) \cup {brk} : \E b \in B : NEXT_BLKP(m, b) = c
      /\ \A b \in B \ {2} : GET_SIZE(m, b) >= 4 /\ m[b + GET_SIZE(m, b) - 2] = m[b - 1]
      /\ m[1] = Prologue /\ m[2] = Prologue /\ m[brk - 1] = Epilogue /\ GET_SIZE(m, 2) = 2
  BY LayoutFacts
<1>4. /\ start \in Nat /\ start >= 4 /\ cut \in Nat /\ end \in Nat /\ rest \in Nat
      /\ rest >= 4 /\ cut + rest = end /\ end <= brk /\ start + 4 <= cut /\ cut + 4 <= end
  <2>1. start \in Nat /\ start > 2 /\ GET_SIZE(m, start) \in Nat /\ end \in Nat /\ end <= brk
        /\ end = start + GET_SIZE(m, start)
    BY <1>1, <1>2
  <2>2. start >= 4
    BY <1>1, <1>2, <1>3, <2>1
  <2> QED
    BY <1>1, <2>1, <2>2
<1>5. Even(cut) /\ Even(rest)
  <2>1. Even(start) /\ Even(GET_SIZE(m, start)) /\ GET_SIZE(m, start) \in Nat
    BY <1>2
  <2> QED
    BY <1>4, <2>1 DEF Even
<1>6. Changed(m, m0, start - 1, cut - 2, [size |-> asize, alloc |-> yes])
  <2>1. start >= 1 /\ asize >= 2 /\ start + asize <= MAX_HEAP
    BY <1>1, <1>4
  <2>2. start + asize - 2 = cut - 2
    BY <1>4
  <2> QED
    BY <1>4, <2>1, <2>2, PutBothFacts
<1>7. Changed(m0, m1, cut - 1, end - 2, [size |-> rest, alloc |-> no])
  <2>1. cut >= 1 /\ rest >= 2 /\ cut + rest <= MAX_HEAP
    BY <1>1, <1>4
  <2>3. m0 \in Memory
    BY <1>6 DEF Changed
  <2>2. Changed(m0, PutBoth(m0, cut, rest, no), cut - 1, cut + rest - 2,
                [size |-> rest, alloc |-> no])
    BY <1>4, <2>1, <2>3, PutBothFacts
  <2>4. cut + rest - 2 = end - 2
    BY <1>4
  <2> QED
    BY <2>2, <2>4
<1>8. /\ m1 \in Memory
      /\ \A a \in Addresses : m1[a] =
           IF a = cut - 1 \/ a = end - 2 THEN [size |-> rest, alloc |-> no]
           ELSE IF a = start - 1 \/ a = cut - 2 THEN [size |-> asize, alloc |-> yes] ELSE m[a]
  BY <1>6, <1>7 DEF Changed
<1>9. /\ m1[start - 1] = [size |-> asize, alloc |-> yes] /\ m1[cut - 2] = m1[start - 1]
      /\ m1[cut - 1] = [size |-> rest, alloc |-> no] /\ m1[end - 2] = m1[cut - 1]
  <2>1. /\ start - 1 \in Addresses /\ cut - 2 \in Addresses
        /\ cut - 1 \in Addresses /\ end - 2 \in Addresses
    BY <1>1, <1>4
  <2>2. /\ start - 1 # cut - 1 /\ start - 1 # end - 2 /\ cut - 2 # cut - 1 /\ cut - 2 # end - 2
    BY <1>4
  <2> QED
    BY <1>8, <2>1, <2>2
<1>10. /\ GET_SIZE(m1, start) = asize /\ NEXT_BLKP(m1, start) = cut
       /\ GET_SIZE(m1, cut) = rest /\ NEXT_BLKP(m1, cut) = end
       /\ asize \in Nat \ {0} /\ rest \in Nat \ {0}
  <2>1. GET_SIZE(m1, start) = asize
    <3>1. m1[start - 1].size = asize
      BY <1>9
    <3> QED
      BY <3>1 DEF GET_SIZE, HDRP
  <2>2. GET_SIZE(m1, cut) = rest
    <3>1. m1[cut - 1].size = rest
      BY <1>9
    <3> QED
      BY <3>1 DEF GET_SIZE, HDRP
  <2>3. asize \in Nat \ {0} /\ rest \in Nat \ {0}
    BY <1>4
  <2> QED
    BY <1>4, <2>1, <2>2, <2>3 DEF NEXT_BLKP
<1>18. GET_ALLOC(m1, start) = yes /\ GET_ALLOC(m1, cut) = no
  <2>1. m1[start - 1].alloc = yes /\ m1[cut - 1].alloc = no
    BY <1>9
  <2> QED
    BY <2>1 DEF GET_ALLOC, HDRP
<1>11. \A b \in B : b <= start \/ b >= end
  BY <1>1, <1>3, <1>4
<1>12. cut \notin B /\ (end \in B \/ end = brk)
  <2>1. cut \notin B
    BY <1>4, <1>11
  <2> QED
    BY <1>2, <2>1
<1>13. ASSUME NEW b \in B \ {start}
       PROVE  SameHeader(m, m1, b)
  <2>0. b - 1 \in Addresses /\ b \in Nat /\ b # start /\ (b <= start \/ b >= end)
    BY <1>1, <1>2, <1>11
  <2>1. b - 1 # start - 1 /\ b - 1 # cut - 1 /\ b - 1 # cut - 2 /\ b - 1 # end - 2
    BY <1>4, <2>0
  <2>2. m1[b - 1] = m[b - 1]
    BY <1>8, <2>0, <2>1
  <2> QED
    BY <2>2 DEF SameHeader, GET_SIZE, GET_ALLOC, NEXT_BLKP, HDRP
<1>14. ASSUME NEW b \in B1
       PROVE  b = start \/ b = cut \/ b \in B \ {start}
  OBVIOUS
<1>15. start \in B1 /\ cut \in B1 /\ B \subseteq B1 /\ 2 \in B1
  BY <1>1
<1>16. Tiles(m1, brk, B1)
  <2>1. \A b \in B1 : b \in Nat /\ 2 <= b /\ b < brk
    BY <1>1, <1>4, <1>14
  <2>2. ASSUME NEW b \in B1
        PROVE  GET_SIZE(m1, b) \in Nat \ {0} /\ NEXT_BLKP(m1, b) \in B1 \cup {brk}
    <3>1. CASE b = start
      BY <1>10, <1>15, <3>1
    <3>2. CASE b = cut
      BY <1>4, <1>10, <1>12, <1>15, <3>2
    <3>3. CASE b \in B \ {start}
      <4>1. GET_SIZE(m1, b) = GET_SIZE(m, b) /\ NEXT_BLKP(m1, b) = NEXT_BLKP(m, b)
        BY <1>13, <3>3 DEF SameHeader
      <4>2. GET_SIZE(m, b) \in Nat \ {0} /\ NEXT_BLKP(m, b) \in B \cup {brk}
        BY <1>2, <3>3
      <4> QED
        BY <1>15, <4>1, <4>2
    <3> QED
      BY <1>14, <3>1, <3>2, <3>3
  <2>3. ASSUME NEW b \in B1, NEW c \in B1, b < c
        PROVE  NEXT_BLKP(m1, b) <= c
    <3>0. b \in Nat /\ c \in Nat
      BY <2>1
    <3>1. CASE b = start
      <4>1. c = cut \/ c \in B
        BY <1>14, <2>3, <3>1
      <4>2. cut <= c
        BY <1>4, <1>11, <2>3, <3>0, <3>1, <4>1
      <4> QED
        BY <1>10, <3>1, <4>2
    <3>2. CASE b = cut
      <4>1. c \in B
        BY <1>4, <1>14, <2>3, <3>0, <3>2
      <4>2. end <= c
        BY <1>4, <1>11, <2>3, <3>0, <3>2, <4>1
      <4> QED
        BY <1>10, <3>2, <4>2
    <3>3. CASE b \in B \ {start}
      <4>1. NEXT_BLKP(m1, b) = NEXT_BLKP(m, b) /\ NEXT_BLKP(m, b) \in Nat
        BY <1>2, <1>13, <3>3 DEF SameHeader
      <4>2. CASE c \in B
        BY <1>3, <2>3, <3>3, <4>1, <4>2
      <4>3. CASE c = cut
        <5>1. b < start
          BY <1>4, <1>11, <2>3, <3>0, <3>3, <4>3
        <5>2. NEXT_BLKP(m, b) <= start
          BY <1>3, <3>3, <5>1
        <5>3. NEXT_BLKP(m, b) <= cut
          BY <1>4, <4>1, <5>2
        <5> QED
          BY <4>1, <4>3, <5>3
      <4> QED
        BY <1>14, <4>2, <4>3
    <3> QED
      BY <1>14, <3>1, <3>2, <3>3
  <2>4. ASSUME NEW c \in (B1 \ {2}) \cup {brk}
        PROVE  \E b \in B1 : NEXT_BLKP(m1, b) = c
    <3>1. CASE c = cut
      BY <1>10, <1>15, <3>1
    <3>2. CASE c # cut
      <4>1. PICK b \in B : NEXT_BLKP(m, b) = c
        BY <1>3, <1>14, <3>2
      <4>2. CASE b = start
        BY <1>10, <1>15, <4>1, <4>2
      <4>3. CASE b # start
        BY <1>13, <1>15, <4>1, <4>3 DEF SameHeader
      <4> QED
        BY <4>2, <4>3
    <3> QED
      BY <3>1, <3>2
  <2>5. brk \in Nat /\ 2 \in B1
    BY <1>1, <1>15
  <2>6. \A b \in B1 : GET_SIZE(m1, b) \in Nat \ {0} /\ NEXT_BLKP(m1, b) \in B1 \cup {brk}
    BY <2>2
  <2>7. \A b, c \in B1 : b < c => NEXT_BLKP(m1, b) <= c
    BY <2>3
  <2>8. \A c \in (B1 \ {2}) \cup {brk} : \E b \in B1 : NEXT_BLKP(m1, b) = c
    BY <2>4
  <2> QED
    BY <2>1, <2>5, <2>6, <2>7, <2>8 DEF Tiles
<1>17. Tagged(m1, brk, B1)
  <2>1. m1[1] = Prologue /\ m1[2] = Prologue /\ m1[brk - 1] = Epilogue
    <3>1. 1 \in Addresses /\ 2 \in Addresses /\ brk - 1 \in Addresses
      BY <1>1
    <3>2. \A a \in {start - 1, cut - 2, cut - 1, end - 2} : a # 1 /\ a # 2 /\ a # brk - 1
      BY <1>1, <1>4
    <3> QED
      BY <1>3, <1>8, <3>1, <3>2
  <2>2. ASSUME NEW b \in B1 \ {2}
        PROVE  /\ Even(b) /\ Even(GET_SIZE(m1, b)) /\ GET_SIZE(m1, b) >= 4
               /\ m1[b + GET_SIZE(m1, b) - 2] = m1[b - 1]
    <3>1. CASE b = start
      <4>1. start + asize - 2 = cut - 2
        BY <1>4
      <4> QED
        BY <1>2, <1>4, <1>9, <1>10, <3>1, <4>1
    <3>2. CASE b = cut
      <4>1. cut + rest - 2 = end - 2
        BY <1>4
      <4> QED
        BY <1>4, <1>5, <1>9, <1>10, <3>2, <4>1
    <3>3. CASE b \in B \ {start}
      <4>1. b \in B \ {2} /\ b \in Nat
        BY <1>1, <3>3
      <4>2. GET_SIZE(m1, b) = GET_SIZE(m, b) /\ m1[b - 1] = m[b - 1]
        BY <1>13, <3>3 DEF SameHeader, HDRP
      <4>3. /\ GET_SIZE(m, b) \in Nat /\ GET_SIZE(m, b) >= 4 /\ b + GET_SIZE(m, b) <= brk
            /\ NEXT_BLKP(m, b) = b + GET_SIZE(m, b)
        BY <1>2, <1>3, <4>1
      <4>4. b + GET_SIZE(m, b) <= start \/ b >= end
        BY <1>3, <1>4, <1>11, <3>3, <4>1, <4>3
      <4>7. b + GET_SIZE(m, b) - 2 \in Addresses
        BY <1>1, <4>1, <4>3
      <4>5. /\ b + GET_SIZE(m, b) - 2 # start - 1 /\ b + GET_SIZE(m, b) - 2 # cut - 2
            /\ b + GET_SIZE(m, b) - 2 # cut - 1 /\ b + GET_SIZE(m, b) - 2 # end - 2
        BY <1>4, <4>1, <4>3, <4>4
      <4>6. m1[b + GET_SIZE(m, b) - 2] = m[b + GET_SIZE(m, b) - 2]
        BY <1>8, <4>5, <4>7
      <4> QED
        BY <1>2, <1>3, <4>1, <4>2, <4>6
    <3> QED
      BY <1>14, <3>1, <3>2, <3>3
  <2>3. brk \in 4 .. MAX_HEAP
    BY <1>1
  <2> QED
    BY <1>1, <2>1, <2>2, <2>3, TaggedIs, Zenon
<1>19. /\ Layout(m1, brk, B1) /\ cut \notin B
       /\ GET_SIZE(m1, start) = asize /\ GET_ALLOC(m1, start) = yes
       /\ NEXT_BLKP(m1, start) = cut
       /\ GET_ALLOC(m1, cut) = no /\ NEXT_BLKP(m1, cut) = end
       /\ \A b \in B \ {start} : SameHeader(m, m1, b)
  BY <1>8, <1>10, <1>12, <1>13, <1>16, <1>17, <1>18 DEF Layout
<1> QED
  BY <1>19 DEF Splits

\* Behind the last block there is a new one, in place of the old epilogue.
LEMMA Extend ==
  ASSUME AllocatorAssumption, NEW m \in Memory, NEW brk, NEW B, Layout(m, brk, B),
         NEW size \in Nat, Even(size), size >= 4, NEW brk1, brk1 = brk + size, brk1 <= MAX_HEAP,
         NEW yes \in BOOLEAN, NEW no \in BOOLEAN, [size |-> 0, alloc |-> yes] = Epilogue,
         NEW m0, m0 = PutBoth(m, brk, size, no),
         NEW m1, m1 = PUT(m0, HDRP(brk1), 0, yes),
         NEW B1, B1 = B \cup {brk}
  PROVE  /\ Layout(m1, brk1, B1) /\ brk \notin B
         /\ GET_SIZE(m1, brk) = size /\ GET_ALLOC(m1, brk) = no
         /\ NEXT_BLKP(m1, brk) = brk1
         /\ \A b \in B : SameHeader(m, m1, b)
<1>1. /\ brk \in Nat /\ brk <= MAX_HEAP /\ brk >= 4 /\ MAX_HEAP \in Nat /\ Even(brk)
      /\ 2 \in B /\ \A b \in B : b \in Nat /\ 2 <= b /\ b < brk
      /\ Addresses = 0 .. MAX_HEAP - 1
  BY DEF Layout, Tiles, Tagged, AllocatorAssumption, Addresses
<1>2. \A b \in B : /\ NEXT_BLKP(m, b) \in Nat /\ GET_SIZE(m, b) \in Nat
                   /\ NEXT_BLKP(m, b) = b + GET_SIZE(m, b)
                   /\ Even(GET_SIZE(m, b)) /\ Even(b) /\ b < NEXT_BLKP(m, b)
                   /\ NEXT_BLKP(m, b) <= brk /\ NEXT_BLKP(m, b) \in B \cup {brk}
                   /\ b - 1 \in Addresses /\ GET_SIZE(m, b) >= 2
  BY BlockTypes
<1>3. /\ \A b, c \in B : b < c => NEXT_BLKP(m, b) <= c
      /\ \A c \in (B \ {2}) \cup {brk} : \E b \in B : NEXT_BLKP(m, b) = c
      /\ \A b \in B \ {2} : GET_SIZE(m, b) >= 4 /\ m[b + GET_SIZE(m, b) - 2] = m[b - 1]
      /\ m[1] = Prologue /\ m[2] = Prologue /\ m[brk - 1] = Epilogue /\ GET_SIZE(m, 2) = 2
  BY LayoutFacts
<1>4. brk1 \in Nat /\ brk + 4 <= brk1 /\ brk1 >= 4 /\ Even(brk1)
  <2>1. brk1 \in Nat /\ brk + 4 <= brk1 /\ brk1 >= 4
    BY <1>1
  <2>2. Even(brk1)
    BY <1>1 DEF Even
  <2> QED
    BY <2>1, <2>2
<1>5. Changed(m, m0, brk - 1, brk1 - 2, [size |-> size, alloc |-> no])
  <2>1. brk >= 1 /\ size >= 2 /\ brk + size <= MAX_HEAP
    BY <1>1
  <2>2. brk + size - 2 = brk1 - 2
    BY <1>1, <1>4
  <2> QED
    BY <1>1, <2>1, <2>2, PutBothFacts
<1>6. Changed(m0, m1, brk1 - 1, brk1 - 1, [size |-> 0, alloc |-> yes])
  <2>1. brk1 - 1 \in Addresses /\ 0 \in 0 .. MAX_HEAP
    BY <1>1, <1>4
  <2>2. m0 \in Memory
    BY <1>5 DEF Changed
  <2>3. HDRP(brk1) = brk1 - 1
    BY DEF HDRP
  <2> QED
    BY <2>1, <2>2, <2>3, PutFacts
<1>7. /\ m1 \in Memory
      /\ \A a \in Addresses : m1[a] =
           IF a = brk1 - 1 THEN [size |-> 0, alloc |-> yes]
           ELSE IF a = brk - 1 \/ a = brk1 - 2 THEN [size |-> size, alloc |-> no] ELSE m[a]
  BY <1>5, <1>6 DEF Changed
<1>8. /\ m1[brk - 1] = [size |-> size, alloc |-> no] /\ m1[brk1 - 2] = m1[brk - 1]
      /\ m1[brk1 - 1] = Epilogue
  <2>1. brk - 1 \in Addresses /\ brk1 - 2 \in Addresses /\ brk1 - 1 \in Addresses
    BY <1>1, <1>4
  <2>2. brk - 1 # brk1 - 1 /\ brk1 - 2 # brk1 - 1
    BY <1>1, <1>4
  <2> QED
    BY <1>7, <2>1, <2>2
<1>9. GET_SIZE(m1, brk) = size /\ GET_ALLOC(m1, brk) = no /\ NEXT_BLKP(m1, brk) = brk1
  BY <1>8 DEF GET_SIZE, GET_ALLOC, NEXT_BLKP, HDRP
<1>10. ASSUME NEW b \in B  PROVE SameHeader(m, m1, b)
  <2>1. b - 1 \in Addresses /\ b \in Nat /\ b < brk
    BY <1>1, <1>2
  <2>2. b - 1 # brk - 1 /\ b - 1 # brk1 - 1 /\ b - 1 # brk1 - 2
    BY <1>1, <1>4, <2>1
  <2>3. m1[b - 1] = m[b - 1]
    BY <1>7, <2>1, <2>2
  <2> QED
    BY <2>3 DEF SameHeader, GET_SIZE, GET_ALLOC, NEXT_BLKP, HDRP
<1>11. Tiles(m1, brk1, B1)
  <2>1. \A b \in B1 : b \in Nat /\ 2 <= b /\ b < brk1
    BY <1>1, <1>4
  <2>2. brk1 \in Nat /\ 2 \in B1
    BY <1>1, <1>4
  <2>3. ASSUME NEW b \in B1
        PROVE  GET_SIZE(m1, b) \in Nat \ {0} /\ NEXT_BLKP(m1, b) \in B1 \cup {brk1}
    <3>1. CASE b = brk
      BY <1>9, <3>1
    <3>2. CASE b \in B
      <4>1. GET_SIZE(m1, b) = GET_SIZE(m, b) /\ NEXT_BLKP(m1, b) = NEXT_BLKP(m, b)
        BY <1>10, <3>2 DEF SameHeader
      <4>2. GET_SIZE(m, b) \in Nat \ {0} /\ NEXT_BLKP(m, b) \in B \cup {brk}
        BY <1>2, <3>2
      <4> QED
        BY <4>1, <4>2
    <3> QED
      BY <3>1, <3>2
  <2>4. ASSUME NEW b \in B1, NEW c \in B1, b < c
        PROVE  NEXT_BLKP(m1, b) <= c
    <3>1. b \in B
      BY <1>1, <2>4
    <3>2. NEXT_BLKP(m1, b) = NEXT_BLKP(m, b)
      BY <1>10, <3>1 DEF SameHeader
    <3>3. CASE c \in B
      BY <1>3, <2>4, <3>1, <3>2, <3>3
    <3>4. CASE c = brk
      BY <1>2, <3>1, <3>2, <3>4
    <3> QED
      BY <3>3, <3>4
  <2>5. ASSUME NEW c \in (B1 \ {2}) \cup {brk1}
        PROVE  \E b \in B1 : NEXT_BLKP(m1, b) = c
    <3>1. CASE c = brk1
      BY <1>9, <3>1
    <3>2. CASE c # brk1
      <4>1. PICK b \in B : NEXT_BLKP(m, b) = c
        BY <1>3, <3>2
      <4> QED
        BY <1>10, <4>1 DEF SameHeader
    <3> QED
      BY <3>1, <3>2
  <2>6. \A b \in B1 : GET_SIZE(m1, b) \in Nat \ {0} /\ NEXT_BLKP(m1, b) \in B1 \cup {brk1}
    BY <2>3
  <2>7. \A b, c \in B1 : b < c => NEXT_BLKP(m1, b) <= c
    BY <2>4
  <2>8. \A c \in (B1 \ {2}) \cup {brk1} : \E b \in B1 : NEXT_BLKP(m1, b) = c
    BY <2>5
  <2> QED
    BY <2>1, <2>2, <2>6, <2>7, <2>8 DEF Tiles
<1>12. Tagged(m1, brk1, B1)
  <2>1. m1[1] = Prologue /\ m1[2] = Prologue
    <3>1. 1 \in Addresses /\ 2 \in Addresses
      BY <1>1
    <3>2. \A a \in {brk - 1, brk1 - 2, brk1 - 1} : a # 1 /\ a # 2
      BY <1>1, <1>4
    <3> QED
      BY <1>3, <1>7, <3>1, <3>2
  <2>2. ASSUME NEW b \in B1 \ {2}
        PROVE  /\ Even(b) /\ Even(GET_SIZE(m1, b)) /\ GET_SIZE(m1, b) >= 4
               /\ m1[b + GET_SIZE(m1, b) - 2] = m1[b - 1]
    <3>1. CASE b = brk
      <4>1. brk + size - 2 = brk1 - 2
        BY <1>1, <1>4
      <4> QED
        BY <1>1, <1>8, <1>9, <3>1, <4>1
    <3>2. CASE b \in B
      <4>1. b \in B \ {2} /\ b \in Nat
        BY <1>1, <3>2
      <4>2. GET_SIZE(m1, b) = GET_SIZE(m, b) /\ m1[b - 1] = m[b - 1]
        BY <1>10, <3>2 DEF SameHeader, HDRP
      <4>3. GET_SIZE(m, b) \in Nat /\ GET_SIZE(m, b) >= 4 /\ b + GET_SIZE(m, b) <= brk
        BY <1>2, <1>3, <4>1
      <4>4. b + GET_SIZE(m, b) - 2 \in Addresses
        BY <1>1, <4>1, <4>3
      <4>5. /\ b + GET_SIZE(m, b) - 2 # brk - 1 /\ b + GET_SIZE(m, b) - 2 # brk1 - 2
            /\ b + GET_SIZE(m, b) - 2 # brk1 - 1
        BY <1>1, <1>4, <4>1, <4>3
      <4>6. m1[b + GET_SIZE(m, b) - 2] = m[b + GET_SIZE(m, b) - 2]
        BY <1>7, <4>4, <4>5
      <4> QED
        BY <1>2, <1>3, <4>1, <4>2, <4>6
    <3> QED
      BY <3>1, <3>2
  <2>3. brk1 \in 4 .. MAX_HEAP
    BY <1>1, <1>4
  <2> QED
    BY <1>4, <1>8, <2>1, <2>2, <2>3, TaggedIs
<1>13. brk \notin B
  BY <1>1
<1> QED
  BY <1>7, <1>9, <1>10, <1>11, <1>12, <1>13 DEF Layout

Extends(m, brk, B, size, no, m1, brk1, B1) ==
  /\ Layout(m1, brk1, B1) /\ brk \notin B
  /\ GET_SIZE(m1, brk) = size /\ GET_ALLOC(m1, brk) = no /\ NEXT_BLKP(m1, brk) = brk1
  /\ \A b \in B : SameHeader(m, m1, b)

MayExtend(m, brk, B, size, yes, no, m1, brk1, B1) ==
  /\ m \in Memory /\ Layout(m, brk, B) /\ size \in Nat /\ Even(size) /\ size >= 4
  /\ brk1 = brk + size /\ brk1 <= MAX_HEAP /\ yes \in BOOLEAN /\ no \in BOOLEAN
  /\ [size |-> 0, alloc |-> yes] = Epilogue
  /\ m1 = PUT(PutBoth(m, brk, size, no), HDRP(brk1), 0, yes)
  /\ B1 = B \cup {brk}

LEMMA ExtendWorks ==
  ASSUME AllocatorAssumption
  PROVE  \A m, brk, B, size, yes, no, m1, brk1, B1 :
           MayExtend(m, brk, B, size, yes, no, m1, brk1, B1)
             => Extends(m, brk, B, size, no, m1, brk1, B1)
<1> SUFFICES ASSUME NEW m, NEW brk, NEW B, NEW size, NEW yes, NEW no, NEW m1, NEW brk1, NEW B1,
                    MayExtend(m, brk, B, size, yes, no, m1, brk1, B1)
             PROVE  Extends(m, brk, B, size, no, m1, brk1, B1)
  OBVIOUS
<1>1. PICK m0 : m0 = PutBoth(m, brk, size, no)
  OBVIOUS
<1>2. /\ m \in Memory /\ Layout(m, brk, B) /\ size \in Nat /\ Even(size) /\ size >= 4
      /\ brk1 = brk + size /\ brk1 <= MAX_HEAP /\ yes \in BOOLEAN /\ no \in BOOLEAN
      /\ [size |-> 0, alloc |-> yes] = Epilogue
      /\ m1 = PUT(m0, HDRP(brk1), 0, yes) /\ B1 = B \cup {brk}
  BY <1>1 DEF MayExtend
<1>3. /\ Layout(m1, brk1, B1) /\ brk \notin B
      /\ GET_SIZE(m1, brk) = size /\ GET_ALLOC(m1, brk) = no /\ NEXT_BLKP(m1, brk) = brk1
      /\ \A b \in B : SameHeader(m, m1, b)
  BY <1>1, <1>2, Extend
<1> QED
  BY <1>3 DEF Extends

\* A client that writes its block leaves the tags alone.
LEMMA Payload ==
  ASSUME AllocatorAssumption, NEW m \in Memory, NEW brk, NEW B, Layout(m, brk, B),
         NEW bp \in B \ {2}, NEW m1, m1 = Written(m, bp)
  PROVE  Layout(m1, brk, B) /\ \A b \in B : SameHeader(m, m1, b)
<1>1. /\ brk \in Nat /\ brk <= MAX_HEAP /\ brk >= 4 /\ MAX_HEAP \in Nat /\ Even(brk)
      /\ 2 \in B /\ \A b \in B : b \in Nat /\ 2 <= b /\ b < brk
      /\ Addresses = 0 .. MAX_HEAP - 1
  BY DEF Layout, Tiles, Tagged, AllocatorAssumption, Addresses
<1>2. \A b \in B : /\ NEXT_BLKP(m, b) \in Nat /\ GET_SIZE(m, b) \in Nat
                   /\ NEXT_BLKP(m, b) = b + GET_SIZE(m, b)
                   /\ Even(GET_SIZE(m, b)) /\ Even(b) /\ b < NEXT_BLKP(m, b)
                   /\ NEXT_BLKP(m, b) <= brk /\ NEXT_BLKP(m, b) \in B \cup {brk}
                   /\ b - 1 \in Addresses /\ GET_SIZE(m, b) >= 2
  BY BlockTypes
<1>3. /\ \A b, c \in B : b < c => NEXT_BLKP(m, b) <= c
      /\ \A c \in (B \ {2}) \cup {brk} : \E b \in B : NEXT_BLKP(m, b) = c
      /\ \A b \in B \ {2} : GET_SIZE(m, b) >= 4 /\ m[b + GET_SIZE(m, b) - 2] = m[b - 1]
      /\ m[1] = Prologue /\ m[2] = Prologue /\ m[brk - 1] = Epilogue /\ GET_SIZE(m, 2) = 2
  BY LayoutFacts
<1>4. PICK end \in Nat : end = NEXT_BLKP(m, bp)
  BY <1>2
<1>5. bp \in Nat /\ bp > 2 /\ bp < end /\ end <= brk /\ GET_SIZE(m, bp) \in Nat
      /\ bp + GET_SIZE(m, bp) - 2 - 1 = end - 3
  <2>1. bp \in Nat /\ bp > 2 /\ bp < end /\ end <= brk /\ GET_SIZE(m, bp) \in Nat
        /\ end = bp + GET_SIZE(m, bp)
    BY <1>1, <1>2, <1>4
  <2> QED
    BY <2>1
<1>6. m1 = [a \in Addresses |-> IF a \in bp .. end - 3 THEN Junk ELSE m[a]]
  BY <1>5 DEF Written
<1>7. m1 \in Memory /\ \A a \in Addresses : a < bp \/ a > end - 3 => m1[a] = m[a]
  <2>1. Junk \in Tag
    BY <1>1 DEF Junk, Tag
  <2>2. \A a \in Addresses : m[a] \in Tag
    BY DEF Memory
  <2>3. m1 \in Memory
    BY <1>6, <2>1, <2>2 DEF Memory
  <2>4. ASSUME NEW a \in Addresses, a < bp \/ a > end - 3  PROVE m1[a] = m[a]
    <3>1. a \in Nat
      BY <1>1
    <3>2. a \notin bp .. end - 3
      BY <1>5, <2>4, <3>1
    <3> QED
      BY <1>6, <3>2
  <2> QED
    BY <2>3, <2>4
<1>8. ASSUME NEW b \in B
      PROVE  (b <= bp /\ (b # bp => NEXT_BLKP(m, b) <= bp)) \/ b >= end
  <2>1. b \in Nat /\ (b < bp => NEXT_BLKP(m, b) <= bp) /\ (bp < b => end <= b)
    BY <1>1, <1>3, <1>4
  <2> QED
    BY <1>5, <2>1
<1>9. ASSUME NEW b \in B  PROVE SameHeader(m, m1, b)
  <2>1. b - 1 \in Addresses /\ b \in Nat
    BY <1>1, <1>2
  <2>2. b - 1 < bp \/ b - 1 > end - 3
    BY <1>5, <1>8, <2>1
  <2>3. m1[b - 1] = m[b - 1]
    BY <1>7, <2>1, <2>2
  <2> QED
    BY <2>3 DEF SameHeader, GET_SIZE, GET_ALLOC, NEXT_BLKP, HDRP
<1>10. Tiles(m1, brk, B)
  <2>1. \A b \in B : GET_SIZE(m1, b) = GET_SIZE(m, b) /\ NEXT_BLKP(m1, b) = NEXT_BLKP(m, b)
    BY <1>9 DEF SameHeader
  <2>2. Tiles(m, brk, B)
    BY DEF Layout
  <2> QED
    BY <2>1, <2>2 DEF Tiles
<1>11. Tagged(m1, brk, B)
  <2>1. m1[1] = Prologue /\ m1[2] = Prologue /\ m1[brk - 1] = Epilogue
    <3>1. 1 \in Addresses /\ 2 \in Addresses /\ brk - 1 \in Addresses
      BY <1>1
    <3>2. bp > 1 /\ bp > 2 /\ brk - 1 > end - 3
      BY <1>1, <1>5
    <3> QED
      BY <1>3, <1>7, <3>1, <3>2
  <2>2. ASSUME NEW b \in B \ {2}
        PROVE  /\ Even(b) /\ Even(GET_SIZE(m1, b)) /\ GET_SIZE(m1, b) >= 4
               /\ m1[b + GET_SIZE(m1, b) - 2] = m1[b - 1]
    <3>1. GET_SIZE(m1, b) = GET_SIZE(m, b) /\ m1[b - 1] = m[b - 1]
      BY <1>9 DEF SameHeader, HDRP
    <3>2. /\ b \in Nat /\ GET_SIZE(m, b) \in Nat /\ GET_SIZE(m, b) >= 4
          /\ b + GET_SIZE(m, b) <= brk /\ NEXT_BLKP(m, b) = b + GET_SIZE(m, b)
      BY <1>1, <1>2, <1>3
    <3>3. b + GET_SIZE(m, b) - 2 \in Addresses
      BY <1>1, <3>2
    <3>4. b + GET_SIZE(m, b) - 2 < bp \/ b + GET_SIZE(m, b) - 2 > end - 3
      <4>1. b + GET_SIZE(m, b) <= bp \/ b + GET_SIZE(m, b) >= end
        BY <1>4, <1>5, <1>8, <3>2
      <4> QED
        BY <1>5, <3>2, <4>1
    <3>5. m1[b + GET_SIZE(m, b) - 2] = m[b + GET_SIZE(m, b) - 2]
      BY <1>7, <3>3, <3>4
    <3> QED
      BY <1>2, <1>3, <3>1, <3>5
  <2>3. brk \in 4 .. MAX_HEAP
    BY <1>1
  <2> QED
    BY <1>1, <2>1, <2>2, <2>3, TaggedIs
<1> QED
  BY <1>7, <1>9, <1>10, <1>11 DEF Layout

-----------------------------------------------------------------------------
(***************************************************************************)
(* The operations on a whole heap.                                         *)
(***************************************************************************)
Heaps == [mem : Memory, brk : Nat, last_bp : Nat]

HeapOf(h, B) == h \in Heaps /\ Layout(h.mem, h.brk, B)

\* A heap is made of its three parts.
LEMMA HeapParts ==
  ASSUME NEW h \in Heaps
  PROVE  h = [mem |-> h.mem, brk |-> h.brk, last_bp |-> h.last_bp]
BY DEF Heaps

LEMMA Fields ==
  \A g, x, y, z : g = [mem |-> x, brk |-> y, last_bp |-> z]
                   => g.mem = x /\ g.brk = y /\ g.last_bp = z
OBVIOUS

\* The blocks that are in use stay in use and keep their sizes.
Keeps(m, B, m1, B1) ==
  InUse(m1, B1) = InUse(m, B) /\ \A b \in InUse(m, B) : GET_SIZE(m1, b) = GET_SIZE(m, b)

\* The block before bp, from its footer.
LEMMA Before ==
  ASSUME AllocatorAssumption, NEW m \in Memory, NEW brk, NEW B, Layout(m, brk, B),
         NEW bp \in B \ {2}
  PROVE  /\ PREV_BLKP(m, bp) \in B /\ NEXT_BLKP(m, PREV_BLKP(m, bp)) = bp
         /\ m[FTRP(m, PREV_BLKP(m, bp))].alloc = GET_ALLOC(m, PREV_BLKP(m, bp))
         /\ \A b \in B : NEXT_BLKP(m, b) = bp => b = PREV_BLKP(m, bp)
<1>1. /\ brk \in Nat /\ \A b \in B : b \in Nat /\ 2 <= b
  BY DEF Layout, Tiles
<1>2. \A b \in B : /\ NEXT_BLKP(m, b) \in Nat /\ GET_SIZE(m, b) \in Nat
                   /\ NEXT_BLKP(m, b) = b + GET_SIZE(m, b) /\ b < NEXT_BLKP(m, b)
  BY BlockTypes
<1>3. /\ \A b, c \in B : b < c => NEXT_BLKP(m, b) <= c
      /\ \A b \in B \ {2} : m[b + GET_SIZE(m, b) - 2] = m[b - 1]
      /\ m[1] = Prologue /\ m[2] = Prologue /\ GET_SIZE(m, 2) = 2
  BY LayoutFacts
<1>4. PICK p \in B : NEXT_BLKP(m, p) = bp
  BY LayoutFacts
<1>5. p \in Nat /\ GET_SIZE(m, p) \in Nat /\ p + GET_SIZE(m, p) = bp /\ p < bp /\ bp \in Nat
  BY <1>1, <1>2, <1>4
<1>6. m[bp - 2] = m[p - 1]
  <2>1. CASE p = 2
    <3>1. bp = 4
      BY <1>3, <1>5, <2>1
    <3> QED
      BY <1>3, <2>1, <3>1
  <2>2. CASE p # 2
    BY <1>3, <1>5, <2>2
  <2> QED
    BY <2>1, <2>2
<1>7. PREV_BLKP(m, bp) = p
  <2>1. m[bp - 2].size = GET_SIZE(m, p)
    BY <1>6 DEF GET_SIZE, HDRP
  <2> QED
    BY <1>5, <2>1 DEF PREV_BLKP
<1>8. m[FTRP(m, p)].alloc = GET_ALLOC(m, p)
  BY <1>5, <1>6 DEF FTRP, GET_ALLOC, HDRP
<1>9. ASSUME NEW b \in B, NEXT_BLKP(m, b) = bp  PROVE b = p
  <2>1. b \in Nat /\ b < bp
    BY <1>1, <1>2, <1>9
  <2>2. ~(b < p)
    <3>1. b < p => bp <= p
      BY <1>3, <1>9
    <3> QED
      BY <1>5, <3>1
  <2>3. ~(p < b)
    <3>1. p < b => bp <= b
      BY <1>3, <1>4
    <3> QED
      BY <1>5, <2>1, <3>1
  <2> QED
    BY <1>5, <2>1, <2>2, <2>3
<1> QED
  BY <1>4, <1>7, <1>8, <1>9

\* The block behind the last one is the epilogue.
LEMMA AtEnd ==
  ASSUME AllocatorAssumption, NEW m \in Memory, NEW brk, NEW B, Layout(m, brk, B)
  PROVE  GET_SIZE(m, brk) = 0 /\ GET_ALLOC(m, brk) = TRUE /\ NEXT_BLKP(m, brk) = brk /\ brk \notin B
<1>1. m[brk - 1] = Epilogue /\ brk \in Nat /\ \A b \in B : b \in Nat /\ b < brk
  BY DEF Layout, Tagged, Tiles
<1>2. GET_SIZE(m, brk) = 0
  BY <1>1 DEF GET_SIZE, HDRP, Epilogue
<1>3. GET_ALLOC(m, brk) = TRUE
  BY <1>1 DEF GET_ALLOC, HDRP, Epilogue
<1>4. NEXT_BLKP(m, brk) = brk
  BY <1>1, <1>2 DEF NEXT_BLKP
<1>5. brk \notin B
  BY <1>1
<1> QED
  BY <1>2, <1>3, <1>4, <1>5

\* coalesce() by its start and its size.
Parts(h, bp, m, prev, next, start, size, m1) ==
  /\ h \in Heaps /\ m = h.mem /\ prev = PREV_BLKP(m, bp) /\ next = NEXT_BLKP(m, bp)
  /\ start = IF m[FTRP(m, prev)].alloc THEN bp ELSE prev
  /\ size = GET_SIZE(m, bp) + (IF m[FTRP(m, prev)].alloc THEN 0 ELSE GET_SIZE(m, prev))
                            + (IF GET_ALLOC(m, next) THEN 0
                               ELSE IF m[FTRP(m, prev)].alloc THEN GET_SIZE(m, next)
                                    ELSE m[FTRP(m, next)].size)
  /\ m1 = PutBoth(m, start, size, FALSE)

LEMMA CoalesceForm ==
  \A h, bp, m, prev, next, start, size, m1 :
    Parts(h, bp, m, prev, next, start, size, m1) =>
      coalesce(h, bp) = [mem |-> m1, brk |-> h.brk, last_bp |-> start]
<1> SUFFICES ASSUME NEW h, NEW bp, NEW m, NEW prev, NEW next, NEW start, NEW size,
                    NEW m1, Parts(h, bp, m, prev, next, start, size, m1)
             PROVE  coalesce(h, bp) = [mem |-> m1, brk |-> h.brk, last_bp |-> start]
  OBVIOUS
<1>1. coalesce(h, bp) = [h EXCEPT !.mem = m1, !.last_bp = start]
  BY DEF coalesce, Parts
<1>2. h = [mem |-> h.mem, brk |-> h.brk, last_bp |-> h.last_bp]
  BY DEF Heaps, Parts
<1> QED
  BY <1>1, <1>2

\* coalesce() leaves no two free blocks side by side, takes no block from a
\* client, and its rover names the merged block.
Coalesces(h, B, bp, h1, B1) ==
  /\ HeapOf(h1, B1) /\ h1.brk = h.brk /\ Merged(h1.mem, B1) /\ Keeps(h.mem, B, h1.mem, B1)
  /\ h1.last_bp \in B1 \ {2} /\ ~GET_ALLOC(h1.mem, h1.last_bp)
  /\ GET_SIZE(h1.mem, h1.last_bp) >= GET_SIZE(h.mem, bp)

LEMMA CoalesceWorks ==
  ASSUME AllocatorAssumption, NEW h, NEW B, HeapOf(h, B),
         NEW bp \in B \ {2}, ~GET_ALLOC(h.mem, bp), MergedBut(h.mem, B, bp),
         NEW h1, h1 = coalesce(h, bp)
  PROVE  \E B1 : Coalesces(h, B, bp, h1, B1)
<1>0. PICK m \in Memory, brk \in Nat : m = h.mem /\ brk = h.brk /\ Layout(m, brk, B)
  BY DEF HeapOf, Heaps
<1>1. /\ 2 \in B /\ \A b \in B : b \in Nat /\ 2 <= b /\ b < brk
  BY <1>0 DEF Layout, Tiles
<1>2. \A b \in B : /\ NEXT_BLKP(m, b) \in Nat /\ GET_SIZE(m, b) \in Nat /\ GET_SIZE(m, b) >= 2
                   /\ NEXT_BLKP(m, b) = b + GET_SIZE(m, b) /\ b < NEXT_BLKP(m, b)
                   /\ NEXT_BLKP(m, b) <= brk /\ NEXT_BLKP(m, b) \in B \cup {brk}
  BY <1>0, BlockTypes
<1>3. \A b, c \in B : b < c => NEXT_BLKP(m, b) <= c
  BY <1>0, LayoutFacts
<1>4. PICK prev \in B : prev = PREV_BLKP(m, bp) /\ NEXT_BLKP(m, prev) = bp
      /\ m[FTRP(m, prev)].alloc = GET_ALLOC(m, prev)
      /\ \A b \in B : NEXT_BLKP(m, b) = bp => b = prev
  BY <1>0, Before
<1>5. PICK next \in B \cup {brk} : next = NEXT_BLKP(m, bp)
  BY <1>2
<1>6. PICK start : start = IF GET_ALLOC(m, prev) THEN bp ELSE prev
  OBVIOUS
<1>7. PICK size : size = GET_SIZE(m, bp)
                         + (IF GET_ALLOC(m, prev) THEN 0 ELSE GET_SIZE(m, prev))
                         + (IF GET_ALLOC(m, next) THEN 0 ELSE GET_SIZE(m, next))
  OBVIOUS
<1>8. PICK m1 : m1 = PutBoth(m, start, size, FALSE)
  OBVIOUS
<1>9. h1.mem = m1 /\ h1.brk = brk /\ h1.last_bp = start
      /\ h1 = [mem |-> m1, brk |-> brk, last_bp |-> start]
  <2>1. h \in Heaps
    BY DEF HeapOf
  <2>2. prev = PREV_BLKP(m, bp) /\ next = NEXT_BLKP(m, bp)
    BY <1>4, <1>5
  <2>3. start = IF m[FTRP(m, prev)].alloc THEN bp ELSE prev
    BY <1>4, <1>6
  <2>4. size = GET_SIZE(m, bp)
               + (IF m[FTRP(m, prev)].alloc THEN 0 ELSE GET_SIZE(m, prev))
               + (IF GET_ALLOC(m, next) THEN 0 ELSE GET_SIZE(m, next))
    BY <1>4, <1>7
  <2>5. m = h.mem
    BY <1>0
  <2>6. ~GET_ALLOC(m, next) => m[FTRP(m, next)].size = GET_SIZE(m, next)
    <3>1. next = brk => GET_ALLOC(m, next)
      BY <1>0, AtEnd
    <3>2. GET_ALLOC(m, 2)
      BY <1>0, <1>1, BlockFacts
    <3>3. next \in B \ {2} => m[FTRP(m, next)] = m[HDRP(next)]
      BY <1>0 DEF Layout, Tagged, heap_listp, WSIZE
    <3> QED
      BY <1>5, <3>1, <3>2, <3>3 DEF GET_SIZE
  <2>7. size = GET_SIZE(m, bp)
               + (IF m[FTRP(m, prev)].alloc THEN 0 ELSE GET_SIZE(m, prev))
               + (IF GET_ALLOC(m, next) THEN 0
                  ELSE IF m[FTRP(m, prev)].alloc THEN GET_SIZE(m, next) ELSE m[FTRP(m, next)].size)
    BY <2>4, <2>6
  <2>8. Parts(h, bp, m, prev, next, start, size, m1)
    BY <2>1, <2>2, <2>3, <2>7, <2>5, <1>8 DEF Parts
  <2>9. coalesce(h, bp) = [mem |-> m1, brk |-> h.brk, last_bp |-> start]
    BY <2>8, CoalesceForm
  <2> QED
    BY <1>0, <2>9
<1>10. ~GET_ALLOC(m, bp) /\ MergedBut(m, B, bp)
  BY <1>0
<1>11. next = brk => GET_ALLOC(m, next) /\ brk \notin B
  BY <1>0, AtEnd
<1>12. GET_ALLOC(m, 2)
  BY <1>0, <1>1, BlockFacts
<1>13. start \in B \ {2}
  BY <1>6, <1>12
<1>14. PICK end : end = IF GET_ALLOC(m, next) THEN next ELSE NEXT_BLKP(m, next)
  OBVIOUS
<1>15. end \in B \cup {brk} /\ end \in Nat /\ next \in Nat /\ next <= end
  <2>1. CASE GET_ALLOC(m, next)
    BY <1>2, <1>5, <1>14, <2>1
  <2>2. CASE ~GET_ALLOC(m, next)
    BY <1>2, <1>5, <1>11, <1>14, <2>2
  <2> QED
    BY <2>1, <2>2
<1>16. start + size = end /\ size \in Nat /\ start <= bp /\ start \in Nat /\ size >= GET_SIZE(m, bp)
       /\ bp \in Nat /\ prev \in Nat /\ bp < next
  <2>1. /\ bp \in Nat /\ prev \in Nat /\ GET_SIZE(m, bp) \in Nat /\ GET_SIZE(m, prev) \in Nat
        /\ prev + GET_SIZE(m, prev) = bp /\ bp + GET_SIZE(m, bp) = next
        /\ prev < bp /\ bp < next
    BY <1>1, <1>2, <1>4, <1>5
  <2>2. PICK s2 \in Nat : s2 = (IF GET_ALLOC(m, next) THEN 0 ELSE GET_SIZE(m, next))
                          /\ next + s2 = end
    <3>1. CASE GET_ALLOC(m, next)
      BY <1>14, <1>15, <3>1
    <3>2. CASE ~GET_ALLOC(m, next)
      BY <1>2, <1>11, <1>14, <1>15, <3>2
    <3> QED
      BY <3>1, <3>2
  <2>3. CASE GET_ALLOC(m, prev)
    BY <1>6, <1>7, <2>1, <2>2, <2>3
  <2>4. CASE ~GET_ALLOC(m, prev)
    BY <1>6, <1>7, <2>1, <2>2, <2>4
  <2> QED
    BY <2>3, <2>4
<1>17. PICK B1 : B1 = {b \in B : b <= start \/ b >= start + size}
  OBVIOUS
<1>18. PICK no \in BOOLEAN : no = FALSE
  OBVIOUS
<1>19. /\ Layout(m1, brk, B1) /\ start \in B1
       /\ GET_SIZE(m1, start) = size /\ GET_ALLOC(m1, start) = no
       /\ NEXT_BLKP(m1, start) = start + size
       /\ \A b \in B1 \ {start} : SameHeader(m, m1, b)
  <2>1. size > 0
    BY <1>2, <1>16
  <2>2. m1 = PutBoth(m, start, size, no)
    BY <1>8, <1>18
  <2>3. start + size \in B \cup {brk}
    BY <1>15, <1>16
  <2>4. no \in BOOLEAN /\ start \in B \ {2} /\ size \in Nat
    BY <1>13, <1>16, <1>18
  <2>5. m \in Memory /\ Layout(m, brk, B)
    BY <1>0
  <2>6. MayMerge(m, brk, B, start, size, no, m1, B1)
    BY <1>17, <2>1, <2>2, <2>3, <2>4, <2>5 DEF MayMerge
  <2>7. Merges(m, brk, B, start, size, no, m1, B1)
    BY <2>6, MergeWorks
  <2> QED
    BY <2>7 DEF Merges
<1>20. ~GET_ALLOC(m1, start)
  BY <1>18, <1>19
<1>21. \A b \in B1 \ {start} : NEXT_BLKP(m1, b) = NEXT_BLKP(m, b)
         /\ GET_ALLOC(m1, b) = GET_ALLOC(m, b) /\ GET_SIZE(m1, b) = GET_SIZE(m, b)
  BY <1>19 DEF SameHeader
<1>22. ASSUME NEW b \in B, b \notin B1 \ {start}  PROVE ~GET_ALLOC(m, b)
  <2>1. b \in Nat /\ start <= b /\ (b = start \/ b < end)
    BY <1>1, <1>16, <1>17, <1>22
  <2>2. CASE b < bp
    <3>1. start = prev /\ prev < bp /\ ~GET_ALLOC(m, prev)
      BY <1>6, <1>16, <2>1, <2>2
    <3>2. ~(prev < b)
      <4>1. prev < b => bp <= b
        BY <1>3, <1>4
      <4> QED
        BY <1>16, <2>1, <2>2, <4>1
    <3>3. b = prev
      BY <1>16, <2>1, <3>1, <3>2
    <3> QED
      BY <3>1, <3>3
  <2>3. CASE b = bp
    BY <1>10, <2>3
  <2>4. CASE b > bp
    <3>1. next <= b /\ b < end
      BY <1>3, <1>5, <1>16, <2>1, <2>4
    <3>2. ~GET_ALLOC(m, next) /\ end = NEXT_BLKP(m, next) /\ next \in B
      BY <1>11, <1>14, <1>15, <2>1, <3>1
    <3>3. ~(next < b)
      <4>1. next < b => end <= b
        BY <1>3, <3>2
      <4> QED
        BY <1>15, <2>1, <3>1, <4>1
    <3>4. b = next
      BY <1>15, <2>1, <3>1, <3>3
    <3> QED
      BY <3>2, <3>4
  <2> QED
    BY <1>16, <2>1, <2>2, <2>3, <2>4
<1>23. Keeps(m, B, m1, B1)
  <2>1. B1 \subseteq B
    BY <1>17
  <2>2. \A b \in InUse(m1, B1) : b \in InUse(m, B)
    BY <1>20, <1>21, <2>1 DEF InUse
  <2>3. \A b \in InUse(m, B) : b \in InUse(m1, B1) /\ GET_SIZE(m1, b) = GET_SIZE(m, b)
    BY <1>21, <1>22 DEF InUse
  <2> QED
    BY <2>2, <2>3 DEF Keeps
<1>24. Merged(m1, B1)
  <2> SUFFICES ASSUME NEW b \in B1, NEW c \in B1, c = NEXT_BLKP(m1, b)
               PROVE  GET_ALLOC(m1, b) \/ GET_ALLOC(m1, c)
    BY DEF Merged
  <2>1. b \in B /\ c \in B
    BY <1>17
  <2>2. bp \in B1 => bp = start
    <3>1. bp < start + size
      BY <1>15, <1>16
    <3> QED
      BY <1>16, <1>17, <3>1
  <2>3. CASE b = start
    <3>1. c = end /\ c # start
      BY <1>15, <1>16, <1>19, <2>3
    <3>2. GET_ALLOC(m, end)
      <4>1. CASE GET_ALLOC(m, next)
        BY <1>14, <4>1
      <4>2. CASE ~GET_ALLOC(m, next)
        <5>1. next \in B /\ end = NEXT_BLKP(m, next) /\ end \in B /\ next # bp /\ end # bp
          BY <1>11, <1>14, <1>15, <1>16, <2>1, <3>1, <4>2
        <5> QED
          BY <1>10, <4>2, <5>1 DEF MergedBut
      <4> QED
        BY <4>1, <4>2
    <3> QED
      BY <1>21, <3>1, <3>2
  <2>4. CASE b # start /\ c = start
    <3>1. NEXT_BLKP(m, b) = start /\ GET_ALLOC(m1, b) = GET_ALLOC(m, b)
      BY <1>21, <2>4
    <3>2. GET_ALLOC(m, b)
      <4>1. CASE GET_ALLOC(m, prev)
        BY <1>4, <1>6, <2>1, <3>1, <4>1
      <4>2. CASE ~GET_ALLOC(m, prev)
        <5>1. start = prev /\ prev # bp
          BY <1>2, <1>4, <1>6, <1>16, <4>2
        <5>2. b # bp
          BY <2>2, <2>4
        <5> QED
          BY <1>10, <2>1, <3>1, <4>2, <5>1, <5>2 DEF MergedBut
      <4> QED
        BY <4>1, <4>2
    <3> QED
      BY <3>1, <3>2
  <2>5. CASE b # start /\ c # start
    <3>1. /\ NEXT_BLKP(m, b) = c /\ GET_ALLOC(m1, b) = GET_ALLOC(m, b)
          /\ GET_ALLOC(m1, c) = GET_ALLOC(m, c)
      BY <1>21, <2>5
    <3>2. b # bp /\ c # bp
      BY <2>2, <2>5
    <3>3. GET_ALLOC(m, b) \/ GET_ALLOC(m, c)
      BY <1>10, <2>1, <3>1, <3>2 DEF MergedBut
    <3> QED
      BY <3>1, <3>3
  <2> QED
    BY <2>3, <2>4, <2>5
<1>25. HeapOf(h1, B1)
  <2>1. m1 \in Memory
    BY <1>19 DEF Layout
  <2> QED
    BY <1>9, <1>16, <1>19, <2>1 DEF HeapOf, Heaps
<1>26. GET_SIZE(m1, start) >= GET_SIZE(m, bp)
  BY <1>16, <1>19
<1> QED
  BY <1>0, <1>9, <1>13, <1>19, <1>20, <1>23, <1>24, <1>25, <1>26 DEF Coalesces

\* extend_heap() adds a free block, merged with the one before it.
Grows(h, B, words, h1, B1) ==
  /\ HeapOf(h1, B1) /\ h1.brk = h.brk + words /\ Merged(h1.mem, B1)
  /\ Keeps(h.mem, B, h1.mem, B1)
  /\ h1.last_bp \in B1 \ {2} /\ ~GET_ALLOC(h1.mem, h1.last_bp)
  /\ GET_SIZE(h1.mem, h1.last_bp) >= words

LEMMA ExtendHeap ==
  ASSUME AllocatorAssumption, NEW h, NEW B, HeapOf(h, B), Merged(h.mem, B),
         NEW words \in Nat, Even(words), words >= 4, Room(h, words),
         NEW h1, h1 = extend_heap(h, words)
  PROVE  \E B1 : Grows(h, B, words, h1, B1)
<1>1. PICK m \in Memory, brk \in Nat : m = h.mem /\ brk = h.brk /\ Layout(m, brk, B)
  BY DEF HeapOf, Heaps
<1>2. PICK no \in BOOLEAN, yes \in BOOLEAN : no = FALSE /\ yes = TRUE
  OBVIOUS
<1>3. PICK brk1 \in Nat : brk1 = brk + words
  BY <1>1
<1>4. PICK m1 : m1 = PUT(PutBoth(m, brk, words, no), HDRP(brk1), 0, yes)
  OBVIOUS
<1>5. PICK C : C = B \cup {brk}
  OBVIOUS
<1>6. MayExtend(m, brk, B, words, yes, no, m1, brk1, C)
  <2>1. brk1 <= MAX_HEAP
    BY <1>1, <1>3 DEF Room
  <2>2. [size |-> 0, alloc |-> yes] = Epilogue
    BY <1>2 DEF Epilogue
  <2> QED
    BY <1>1, <1>2, <1>3, <1>4, <1>5, <2>1, <2>2 DEF MayExtend
<1>7. Extends(m, brk, B, words, no, m1, brk1, C)
  BY <1>6, ExtendWorks
<1>8. /\ Layout(m1, brk1, C) /\ brk \notin B
      /\ GET_SIZE(m1, brk) = words /\ GET_ALLOC(m1, brk) = no
      /\ NEXT_BLKP(m1, brk) = brk1
  BY <1>7 DEF Extends
<1>9. \A b \in B : NEXT_BLKP(m1, b) = NEXT_BLKP(m, b)
        /\ GET_ALLOC(m1, b) = GET_ALLOC(m, b) /\ GET_SIZE(m1, b) = GET_SIZE(m, b)
  BY <1>7 DEF Extends, SameHeader
<1>10. PICK h0 : h0 = [mem |-> m1, brk |-> brk1, last_bp |-> h.last_bp]
  OBVIOUS
<1>11. h0.mem = m1 /\ h0.brk = brk1 /\ HeapOf(h0, C)
  <2>1. h0.mem = m1 /\ h0.brk = brk1
    BY <1>10
  <2>2. m1 \in Memory /\ h.last_bp \in Nat
    BY <1>8 DEF Layout, HeapOf, Heaps
  <2>3. h0 \in Heaps
    BY <1>3, <1>10, <2>2 DEF Heaps
  <2> QED
    BY <1>8, <2>1, <2>3 DEF HeapOf
<1>12. h1 = coalesce(h0, brk)
  <2>1. words % 2 = 0 /\ words + 0 = words
    BY DEF Even
  <2>2. m1 = PUT(PutBoth(h.mem, h.brk, words, FALSE), HDRP(h.brk + words), 0, TRUE)
    BY <1>1, <1>2, <1>3, <1>4
  <2>3. extend_heap(h, words) = coalesce([h EXCEPT !.mem = m1, !.brk = h.brk + words], h.brk)
    BY <2>1, <2>2 DEF extend_heap
  <2>4. h \in Heaps /\ h.brk + words = brk1
    BY <1>1, <1>3 DEF HeapOf
  <2>5. PICK g : g = [h EXCEPT !.mem = m1, !.brk = brk1]
    OBVIOUS
  <2>9. g = [h EXCEPT !.mem = m1, !.brk = h.brk + words]
    BY <2>4, <2>5
  <2>6. g = [mem |-> m1, brk |-> brk1, last_bp |-> h.last_bp]
    <3>1. h = [mem |-> h.mem, brk |-> h.brk, last_bp |-> h.last_bp]
      BY <2>4, HeapParts
    <3> QED
      BY <2>5, <3>1
  <2>7. extend_heap(h, words) = coalesce(g, h.brk)
    BY <2>3, <2>9
  <2>8. g = h0
    BY <1>10, <2>6
  <2> QED
    BY <1>1, <2>7, <2>8
<1>13. brk \in C \ {2} /\ ~GET_ALLOC(m1, brk)
  BY <1>1, <1>2, <1>5, <1>8 DEF Layout, Tiles
<1>14. MergedBut(m1, C, brk)
  <2> SUFFICES ASSUME NEW b \in C, NEXT_BLKP(m1, b) \in C, b # brk, NEXT_BLKP(m1, b) # brk
               PROVE  GET_ALLOC(m1, b) \/ GET_ALLOC(m1, NEXT_BLKP(m1, b))
    BY DEF MergedBut
  <2>1. b \in B /\ NEXT_BLKP(m, b) \in B /\ NEXT_BLKP(m1, b) = NEXT_BLKP(m, b)
    BY <1>5, <1>9
  <2>2. GET_ALLOC(m, b) \/ GET_ALLOC(m, NEXT_BLKP(m, b))
    BY <1>1, <2>1 DEF Merged
  <2> QED
    BY <1>9, <2>1, <2>2
<1>15. PICK B1 : Coalesces(h0, C, brk, h1, B1)
  BY <1>11, <1>12, <1>13, <1>14, CoalesceWorks
<1>16. /\ HeapOf(h1, B1) /\ h1.brk = brk1 /\ Merged(h1.mem, B1) /\ Keeps(m1, C, h1.mem, B1)
       /\ h1.last_bp \in B1 \ {2} /\ ~GET_ALLOC(h1.mem, h1.last_bp)
       /\ GET_SIZE(h1.mem, h1.last_bp) >= words
  BY <1>8, <1>11, <1>15 DEF Coalesces
<1>17. InUse(m1, C) = InUse(m, B)
  <2>1. \A b \in InUse(m1, C) : b \in InUse(m, B)
    BY <1>5, <1>9, <1>13 DEF InUse
  <2>2. \A b \in InUse(m, B) : b \in InUse(m1, C)
    BY <1>5, <1>9 DEF InUse
  <2> QED
    BY <2>1, <2>2
<1>18. Keeps(m, B, h1.mem, B1)
  <2>1. \A b \in InUse(m, B) : b \in B
    BY DEF InUse
  <2> QED
    BY <1>9, <1>16, <1>17, <2>1 DEF Keeps
<1> QED
  BY <1>1, <1>3, <1>16, <1>18 DEF Grows

\* place() turns a free block that is large enough into one in use, with the
\* rest of it as a free block.
Places(m, brk, B, bp, asize, m1, B1) ==
  /\ Layout(m1, brk, B1) /\ Merged(m1, B1) /\ bp \in B1
  /\ bp \notin InUse(m, B) /\ InUse(m1, B1) = InUse(m, B) \cup {bp}
  /\ GET_SIZE(m1, bp) >= asize
  /\ \A b \in InUse(m, B) : GET_SIZE(m1, b) = GET_SIZE(m, b)

MayPlace(m, brk, B, bp, asize) ==
  /\ m \in Memory /\ Layout(m, brk, B) /\ Merged(m, B) /\ bp \in B \ {2}
  /\ asize \in Nat /\ Even(asize) /\ asize >= 4 /\ Fits(m, bp, asize)

\* The allocated bit by a name, which the provers take better than TRUE and FALSE.
Yes(x) == x = TRUE
No(x) == x = FALSE

\* When the whole block is taken.
LEMMA PlaceWhole ==
  ASSUME AllocatorAssumption, NEW m, NEW brk, NEW B, NEW bp, NEW asize,
         MayPlace(m, brk, B, bp, asize),
         NEW yes \in BOOLEAN, Yes(yes), NEW m1, m1 = PutBoth(m, bp, GET_SIZE(m, bp), yes)
  PROVE  Places(m, brk, B, bp, asize, m1, B)
<1>1. /\ m \in Memory /\ Layout(m, brk, B) /\ Merged(m, B) /\ bp \in B \ {2} /\ asize \in Nat
      /\ ~GET_ALLOC(m, bp) /\ GET_SIZE(m, bp) >= asize
  BY DEF MayPlace, Fits
<1>2. /\ bp \in Nat /\ GET_SIZE(m, bp) \in Nat /\ GET_SIZE(m, bp) >= 2
      /\ NEXT_BLKP(m, bp) = bp + GET_SIZE(m, bp) /\ NEXT_BLKP(m, bp) \in B \cup {brk}
  <2>1. \A b \in B : b \in Nat
    BY <1>1 DEF Layout, Tiles
  <2> QED
    BY <1>1, <2>1, BlockTypes
<1>3. B = {b \in B : b <= bp \/ b >= bp + GET_SIZE(m, bp)}
  <2>1. \A b \in B : b \in Nat /\ (bp < b => NEXT_BLKP(m, bp) <= b)
    BY <1>1 DEF Layout, Tiles
  <2>2. \A b \in B : b <= bp \/ b >= bp + GET_SIZE(m, bp)
    BY <1>2, <2>1
  <2> QED
    BY <2>2
<1>4. MayMerge(m, brk, B, bp, GET_SIZE(m, bp), yes, m1, B)
  <2>1. GET_SIZE(m, bp) > 0
    BY <1>2
  <2> QED
    BY <1>1, <1>2, <1>3, <2>1 DEF MayMerge
<1>5. Merges(m, brk, B, bp, GET_SIZE(m, bp), yes, m1, B)
  BY <1>4, MergeWorks
<1>6. /\ Layout(m1, brk, B) /\ GET_SIZE(m1, bp) = GET_SIZE(m, bp) /\ GET_ALLOC(m1, bp)
      /\ NEXT_BLKP(m1, bp) = NEXT_BLKP(m, bp)
  BY <1>2, <1>5 DEF Merges, Yes
<1>7. \A b \in B \ {bp} : /\ NEXT_BLKP(m1, b) = NEXT_BLKP(m, b) /\ GET_SIZE(m1, b) = GET_SIZE(m, b)
                          /\ GET_ALLOC(m1, b) = GET_ALLOC(m, b)
  BY <1>5 DEF Merges, SameHeader
<1>8. Merged(m1, B)
  BY <1>1, <1>6, <1>7 DEF Merged
<1>9. bp \notin InUse(m, B) /\ InUse(m1, B) = InUse(m, B) \cup {bp}
  <2>1. \A b \in InUse(m1, B) : b \in InUse(m, B) \/ b = bp
    BY <1>7 DEF InUse
  <2>2. \A b \in InUse(m, B) : b \in InUse(m1, B) /\ b # bp
    BY <1>1, <1>7 DEF InUse
  <2>3. bp \in B /\ bp # 2
    BY <1>1
  <2>4. bp \in InUse(m1, B)
    BY <1>6, <2>3 DEF InUse
  <2> QED
    BY <2>1, <2>2, <2>4
<1>10. \A b \in InUse(m, B) : GET_SIZE(m1, b) = GET_SIZE(m, b)
  BY <1>1, <1>7 DEF InUse
<1> QED
  BY <1>1, <1>6, <1>8, <1>9, <1>10 DEF Places

\* When a free block is left behind it.
LEMMA PlacePart ==
  ASSUME AllocatorAssumption, NEW m, NEW brk, NEW B, NEW bp, NEW asize,
         MayPlace(m, brk, B, bp, asize), GET_SIZE(m, bp) - asize >= 4,
         NEW yes \in BOOLEAN, Yes(yes), NEW no \in BOOLEAN, No(no),
         NEW m1, m1 = PutBoth(PutBoth(m, bp, asize, yes), bp + asize, GET_SIZE(m, bp) - asize, no)
  PROVE  \E B1 : Places(m, brk, B, bp, asize, m1, B1)
<1>1. /\ m \in Memory /\ Layout(m, brk, B) /\ Merged(m, B) /\ bp \in B \ {2}
      /\ asize \in Nat /\ Even(asize) /\ asize >= 4 /\ ~GET_ALLOC(m, bp)
  BY DEF MayPlace, Fits
<1>2. PICK cut : cut = bp + asize
  OBVIOUS
<1>3. PICK B1 : B1 = B \cup {cut}
  OBVIOUS
<1>4. MaySplit(m, brk, B, bp, asize, yes, no, m1, B1)
  BY <1>1, <1>2, <1>3 DEF MaySplit
<1>5. Splits(m, brk, B, bp, asize, yes, no, m1, B1)
  BY <1>4, SplitWorks
<1>6. /\ Layout(m1, brk, B1) /\ cut \notin B
      /\ GET_SIZE(m1, bp) = asize /\ GET_ALLOC(m1, bp) /\ NEXT_BLKP(m1, bp) = cut
      /\ ~GET_ALLOC(m1, cut) /\ NEXT_BLKP(m1, cut) = NEXT_BLKP(m, bp)
  BY <1>2, <1>5 DEF Splits, Yes, No
<1>7. \A b \in B \ {bp} : /\ NEXT_BLKP(m1, b) = NEXT_BLKP(m, b) /\ GET_SIZE(m1, b) = GET_SIZE(m, b)
                          /\ GET_ALLOC(m1, b) = GET_ALLOC(m, b)
  BY <1>5 DEF Splits, SameHeader
<1>8. \A b \in B1 : b = cut \/ b = bp \/ b \in B \ {bp}
  BY <1>3
<1>9. \A b \in B : /\ b \in Nat /\ b < NEXT_BLKP(m, b) /\ NEXT_BLKP(m, b) \in B \cup {brk}
                   /\ NEXT_BLKP(m, b) \in Nat
  BY <1>1, BlockTypes DEF Layout, Tiles
<1>10. Merged(m1, B1)
  <2> SUFFICES ASSUME NEW b \in B1, NEW c \in B1, c = NEXT_BLKP(m1, b)
               PROVE  GET_ALLOC(m1, b) \/ GET_ALLOC(m1, c)
    BY DEF Merged
  <2>1. CASE b = bp
    BY <1>6, <2>1
  <2>2. CASE b = cut
    <3>1. c = NEXT_BLKP(m, bp) /\ c \in B1
      BY <1>6, <2>2
    <3>2. cut # brk
      <4>1. cut \in B1 /\ brk \notin B1
        BY <1>1, <1>3, <1>6, AtEnd DEF Layout
      <4> QED
        BY <4>1
    <3>3. brk \notin B1
      BY <1>1, <1>3, <3>2, AtEnd
    <3>4. c \in B /\ c # bp
      <4>1. c \in B
        BY <1>1, <1>9, <3>1, <3>3
      <4>2. bp \in B
        BY <1>1
      <4>3. bp < c /\ bp \in Nat /\ c \in Nat
        BY <1>9, <3>1, <4>2
      <4>4. c # bp
        BY <4>3
      <4> QED
        BY <4>1, <4>4
    <3>5. GET_ALLOC(m, c)
      BY <1>1, <3>1, <3>4 DEF Merged
    <3> QED
      BY <1>7, <3>4, <3>5
  <2>3. CASE b \in B \ {bp}
    <3>1. c = NEXT_BLKP(m, b) /\ GET_ALLOC(m1, b) = GET_ALLOC(m, b)
      BY <1>7, <2>3
    <3>2. c # cut
      <4>1. cut \in B1 /\ brk \notin B1
        BY <1>1, <1>3, <1>6, AtEnd DEF Layout
      <4> QED
        BY <1>6, <1>9, <2>3, <3>1, <4>1
    <3>3. c \in B
      BY <1>3, <3>2
    <3>4. GET_ALLOC(m, b) \/ GET_ALLOC(m, c)
      BY <1>1, <2>3, <3>1, <3>3 DEF Merged
    <3> QED
      BY <1>6, <1>7, <3>1, <3>3, <3>4
  <2> QED
    BY <1>8, <2>1, <2>2, <2>3
<1>11. bp \notin InUse(m, B) /\ InUse(m1, B1) = InUse(m, B) \cup {bp}
  <2>1. \A b \in InUse(m1, B1) : b \in InUse(m, B) \/ b = bp
    BY <1>6, <1>7, <1>8 DEF InUse
  <2>2. \A b \in InUse(m, B) : b \in InUse(m1, B1) /\ b # bp
    BY <1>1, <1>3, <1>7 DEF InUse
  <2>3. bp \in B1 /\ bp # 2
    BY <1>1, <1>3
  <2>4. bp \in InUse(m1, B1)
    BY <1>6, <2>3 DEF InUse
  <2> QED
    BY <2>1, <2>2, <2>4
<1>12. \A b \in InUse(m, B) : GET_SIZE(m1, b) = GET_SIZE(m, b)
  BY <1>1, <1>7 DEF InUse
<1>13. bp \in B1 /\ GET_SIZE(m1, bp) >= asize
  <2>1. bp \in B1
    BY <1>1, <1>3
  <2>2. asize >= asize
    BY <1>1
  <2> QED
    BY <1>6, <2>1, <2>2
<1> QED
  BY <1>6, <1>10, <1>11, <1>12, <1>13 DEF Places

LEMMA PlaceWorks ==
  ASSUME AllocatorAssumption, NEW m, NEW brk, NEW B, NEW bp, NEW asize,
         MayPlace(m, brk, B, bp, asize), NEW m1, m1 = Written(place(m, bp, asize), bp)
  PROVE  \E B1 : Places(m, brk, B, bp, asize, m1, B1)
<1>1. PICK yes \in BOOLEAN, no \in BOOLEAN : Yes(yes) /\ No(no) /\ yes = TRUE /\ no = FALSE
  BY DEF Yes, No
<1>2. PICK m0 : m0 = place(m, bp, asize)
  OBVIOUS
<1>3. PICK B1 : Places(m, brk, B, bp, asize, m0, B1)
  <2>1. CASE GET_SIZE(m, bp) - asize >= 4
    <3>1. m0 = PutBoth(PutBoth(m, bp, asize, TRUE), bp + asize, GET_SIZE(m, bp) - asize, FALSE)
      BY <1>2, <2>1 DEF place
    <3>2. m0 = PutBoth(PutBoth(m, bp, asize, yes), bp + asize, GET_SIZE(m, bp) - asize, no)
      BY <1>1, <3>1
    <3>3. yes \in BOOLEAN /\ no \in BOOLEAN /\ Yes(yes) /\ No(no)
      BY <1>1
    <3> QED
      BY <2>1, <3>2, <3>3, PlacePart
  <2>2. CASE ~(GET_SIZE(m, bp) - asize >= 4)
    <3>1. m0 = PutBoth(m, bp, GET_SIZE(m, bp), TRUE)
      BY <1>2, <2>2 DEF place
    <3>2. m0 = PutBoth(m, bp, GET_SIZE(m, bp), yes)
      BY <1>1, <3>1
    <3>3. yes \in BOOLEAN /\ Yes(yes)
      BY <1>1
    <3> QED
      BY <3>2, <3>3, PlaceWhole
  <2> QED
    BY <2>1, <2>2
<1>4. /\ Layout(m0, brk, B1) /\ Merged(m0, B1) /\ bp \in B1
      /\ bp \notin InUse(m, B) /\ InUse(m0, B1) = InUse(m, B) \cup {bp}
      /\ GET_SIZE(m0, bp) >= asize
      /\ \A b \in InUse(m, B) : GET_SIZE(m0, b) = GET_SIZE(m, b)
  BY <1>3 DEF Places
<1>5. m0 \in Memory /\ bp \in B1 \ {2} /\ m1 = Written(m0, bp)
  BY <1>2, <1>4 DEF Layout, MayPlace
<1>6. Layout(m1, brk, B1) /\ \A b \in B1 : SameHeader(m0, m1, b)
  BY <1>4, <1>5, Payload
<1>7. \A b \in B1 : /\ NEXT_BLKP(m1, b) = NEXT_BLKP(m0, b) /\ GET_SIZE(m1, b) = GET_SIZE(m0, b)
                    /\ GET_ALLOC(m1, b) = GET_ALLOC(m0, b)
  BY <1>6 DEF SameHeader
<1>8. Merged(m1, B1)
  BY <1>4, <1>7 DEF Merged
<1>9. InUse(m1, B1) = InUse(m0, B1)
  BY <1>7 DEF InUse
<1>10. \A b \in InUse(m, B) : GET_SIZE(m1, b) = GET_SIZE(m, b)
  <2>1. \A b \in InUse(m0, B1) : b \in B1
    BY DEF InUse
  <2> QED
    BY <1>4, <1>7, <2>1
<1> QED
  BY <1>4, <1>6, <1>7, <1>8, <1>9, <1>10 DEF Places

\* The rounding leaves room for the two tags.
LEMMA Adjusted ==
  ASSUME NEW size \in Nat \ {0}
  PROVE  /\ adjusted(size) \in Nat /\ Even(adjusted(size))
         /\ adjusted(size) >= 4 /\ adjusted(size) >= size + 2
<1>1. CASE size <= 2
  BY <1>1 DEF adjusted, Even
<1>2. CASE ~(size <= 2)
  <2>1. PICK k \in Nat : k = (size + 3) \div 2 /\ 2 * k >= size + 2
    OBVIOUS
  <2>2. adjusted(size) = 2 * k
    BY <1>2, <2>1 DEF adjusted
  <2>3. (2 * k) % 2 = 0 /\ 2 * k \in Nat /\ 2 * k >= 4
    BY <1>2, <2>1
  <2> QED
    BY <2>1, <2>2, <2>3 DEF Even
<1> QED
  BY <1>1, <1>2

\* The block bp of a heap g is taken, and the rover is left there.
LEMMA PlacedIn ==
  ASSUME AllocatorAssumption, NEW g, NEW B, HeapOf(g, B), NEW bp, NEW asize,
         MayPlace(g.mem, g.brk, B, bp, asize), NEW g1,
         g1 = [g EXCEPT !.mem = Written(place(@, bp, asize), bp), !.last_bp = bp]
  PROVE  \E B1 : /\ HeapOf(g1, B1) /\ g1.brk = g.brk /\ g1.last_bp = bp
                 /\ Places(g.mem, g.brk, B, bp, asize, g1.mem, B1)
<1>1. PICK m1 : m1 = Written(place(g.mem, bp, asize), bp)
  OBVIOUS
<1>2. PICK B1 : Places(g.mem, g.brk, B, bp, asize, m1, B1)
  BY <1>1, PlaceWorks
<1>3. g1 = [g EXCEPT !.mem = m1, !.last_bp = bp]
  BY <1>1
<1>4. g = [mem |-> g.mem, brk |-> g.brk, last_bp |-> g.last_bp]
  BY HeapParts DEF HeapOf
<1>5. g1 = [mem |-> m1, brk |-> g.brk, last_bp |-> bp]
  BY <1>3, <1>4
<1>6. g1.mem = m1 /\ g1.brk = g.brk /\ g1.last_bp = bp
  BY <1>5, Fields, Zenon
<1>7. Layout(m1, g.brk, B1) /\ m1 \in Memory /\ g.brk \in Nat /\ bp \in Nat
  BY <1>2 DEF Places, Layout, MayPlace, Tiles
<1>8. HeapOf(g1, B1)
  BY <1>5, <1>6, <1>7 DEF HeapOf, Heaps
<1> QED
  BY <1>2, <1>6, <1>8

\* mm_malloc() finds or makes a free block, or it leaves everything as it is.
Mallocs(h, B, size, ptr, g, B1) ==
  /\ HeapOf(g, B1) /\ Merged(g.mem, B1)
  /\ ptr \in B1 \ {2} /\ ptr \notin InUse(h.mem, B)
  /\ InUse(g.mem, B1) = InUse(h.mem, B) \cup {ptr}
  /\ GET_SIZE(g.mem, ptr) >= size + 2
  /\ \A b \in InUse(h.mem, B) : GET_SIZE(g.mem, b) = GET_SIZE(h.mem, b)
  /\ g.last_bp = ptr
  /\ g.brk = h.brk \/ \A b \in B : ~Fits(h.mem, b, adjusted(size))

LEMMA MallocFits ==
  ASSUME AllocatorAssumption, NEW h, NEW B, HeapOf(h, B), NEW g, NEW C, HeapOf(g, C),
         Merged(g.mem, C), Keeps(h.mem, B, g.mem, C),
         NEW size \in Nat \ {0}, NEW ptr \in C \ {2}, Fits(g.mem, ptr, adjusted(size)),
         g.brk = h.brk \/ \A b \in B : ~Fits(h.mem, b, adjusted(size)),
         NEW g1, g1 = [g EXCEPT !.mem = Written(place(@, ptr, adjusted(size)), ptr),
                                !.last_bp = ptr]
  PROVE  \E B1 : Mallocs(h, B, size, ptr, g1, B1)
<1>1. PICK asize \in Nat : asize = adjusted(size) /\ Even(asize) /\ asize >= 4 /\ asize >= size + 2
  BY Adjusted
<1>2. MayPlace(g.mem, g.brk, C, ptr, asize)
  BY <1>1 DEF MayPlace, HeapOf, Heaps
<1>3. PICK B1 : /\ HeapOf(g1, B1) /\ g1.brk = g.brk /\ g1.last_bp = ptr
                /\ Places(g.mem, g.brk, C, ptr, asize, g1.mem, B1)
  BY <1>1, <1>2, PlacedIn
<1>4. /\ Layout(g1.mem, g.brk, B1) /\ Merged(g1.mem, B1) /\ ptr \in B1
      /\ ptr \notin InUse(g.mem, C) /\ InUse(g1.mem, B1) = InUse(g.mem, C) \cup {ptr}
      /\ GET_SIZE(g1.mem, ptr) >= asize
      /\ \A b \in InUse(g.mem, C) : GET_SIZE(g1.mem, b) = GET_SIZE(g.mem, b)
  BY <1>3 DEF Places
<1>5. /\ InUse(g.mem, C) = InUse(h.mem, B)
      /\ \A b \in InUse(h.mem, B) : GET_SIZE(g.mem, b) = GET_SIZE(h.mem, b)
  BY DEF Keeps
<1>6. GET_SIZE(g1.mem, ptr) \in Nat
  BY <1>3, <1>4, BlockTypes DEF HeapOf, Heaps
<1>7. GET_SIZE(g1.mem, ptr) >= size + 2
  BY <1>1, <1>4, <1>6
<1>8. ptr \in B1 \ {2} /\ ptr \notin InUse(h.mem, B)
      /\ InUse(g1.mem, B1) = InUse(h.mem, B) \cup {ptr}
      /\ \A b \in InUse(h.mem, B) : GET_SIZE(g1.mem, b) = GET_SIZE(h.mem, b)
  BY <1>4, <1>5
<1>9. g1.brk = h.brk \/ \A b \in B : ~Fits(h.mem, b, adjusted(size))
  BY <1>3
<1> QED
  BY <1>3, <1>4, <1>7, <1>8, <1>9 DEF Mallocs

LEMMA MallocWorks ==
  ASSUME AllocatorAssumption, NEW h, NEW B, HeapOf(h, B), Merged(h.mem, B), h.last_bp \in B,
         NEW size \in Nat \ {0}
  PROVE  \/ malloc(h, size).ptr = NULL /\ malloc(h, size).heap = h
         \/ /\ malloc(h, size).ptr # NULL
            /\ \E B1 : Mallocs(h, B, size, malloc(h, size).ptr, malloc(h, size).heap, B1)
<1>1. PICK asize \in Nat : asize = adjusted(size) /\ Even(asize) /\ asize >= 4
  BY Adjusted
<1>2. PICK fit : fit = find_fit(h, asize)
  OBVIOUS
<1>3. PICK words : words = Larger(asize, CHUNKSIZE)
  OBVIOUS
<1>4. PICK more : more = extend_heap(h, words)
  OBVIOUS
<1> DEFINE placed(g, bp) == [ptr |-> bp, heap |-> [g EXCEPT !.mem = Written(place(@, bp, asize), bp),
                                                            !.last_bp = bp]]
<1>5. malloc(h, size) = IF fit # NULL THEN placed(h, fit)
                        ELSE IF Room(h, words) THEN placed(more, more.last_bp)
                        ELSE [ptr |-> NULL, heap |-> h]
  BY <1>1, <1>2, <1>3, <1>4 DEF malloc
<1>6. h.mem \in Memory /\ Layout(h.mem, h.brk, B)
  BY DEF HeapOf, Heaps
<1>7. \/ fit \in B \ {2} /\ fit # NULL /\ Fits(h.mem, fit, asize)
      \/ fit = NULL /\ \A c \in B : ~Fits(h.mem, c, asize)
  BY <1>2, <1>6, FindsFit
<1>8. CASE fit # NULL
  <2>1. PICK g1 : g1 = [h EXCEPT !.mem = Written(place(@, fit, asize), fit), !.last_bp = fit]
    OBVIOUS
  <2>2. malloc(h, size).ptr = fit /\ malloc(h, size).heap = g1
    BY <1>5, <1>8, <2>1
  <2>3. Keeps(h.mem, B, h.mem, B)
    BY DEF Keeps
  <2>4. \E B1 : Mallocs(h, B, size, fit, g1, B1)
    BY <1>1, <1>7, <1>8, <2>1, <2>3, MallocFits
  <2> QED
    BY <1>8, <2>2, <2>4
<1>9. CASE fit = NULL /\ Room(h, words)
  <2>1. words \in Nat /\ Even(words) /\ words >= 4 /\ words >= asize
    BY <1>1, <1>3 DEF Larger, AllocatorAssumption, Even
  <2>2. PICK C : Grows(h, B, words, more, C)
    BY <1>4, <1>9, <2>1, ExtendHeap
  <2>3. /\ HeapOf(more, C) /\ Merged(more.mem, C) /\ Keeps(h.mem, B, more.mem, C)
        /\ more.last_bp \in C \ {2} /\ ~GET_ALLOC(more.mem, more.last_bp)
        /\ GET_SIZE(more.mem, more.last_bp) >= words
    BY <2>2 DEF Grows
  <2>4. PICK bp \in C \ {2} : bp = more.last_bp
    BY <2>3
  <2>5. Fits(more.mem, bp, asize)
    <3>1. GET_SIZE(more.mem, bp) \in Nat
      BY <2>3, <2>4, BlockTypes DEF HeapOf, Heaps
    <3>2. GET_SIZE(more.mem, bp) >= asize
      BY <2>1, <2>3, <2>4, <3>1
    <3> QED
      BY <2>3, <2>4, <3>2 DEF Fits
  <2>6. PICK g1 : g1 = [more EXCEPT !.mem = Written(place(@, bp, asize), bp), !.last_bp = bp]
    OBVIOUS
  <2>7. malloc(h, size).ptr = bp /\ malloc(h, size).heap = g1
    BY <1>5, <1>9, <2>4, <2>6
  <2>8. \A b \in B : ~Fits(h.mem, b, asize)
    BY <1>7, <1>9
  <2>9. \E B1 : Mallocs(h, B, size, bp, g1, B1)
    BY <1>1, <2>3, <2>5, <2>6, <2>8, MallocFits
  <2>10. bp # NULL
    BY <2>3, <2>4 DEF HeapOf, Layout, Tiles
  <2> QED
    BY <2>7, <2>9, <2>10
<1>10. CASE fit = NULL /\ ~Room(h, words)
  BY <1>5, <1>10
<1> QED
  BY <1>8, <1>9, <1>10

\* mm_free() takes one block from those in use.
Frees(h, B, ptr, h1, B1) ==
  /\ HeapOf(h1, B1) /\ h1.brk = h.brk /\ Merged(h1.mem, B1) /\ h1.last_bp \in B1
  /\ InUse(h1.mem, B1) = InUse(h.mem, B) \ {ptr}
  /\ \A b \in InUse(h.mem, B) \ {ptr} : GET_SIZE(h1.mem, b) = GET_SIZE(h.mem, b)

LEMMA FreeWorks ==
  ASSUME AllocatorAssumption, NEW h, NEW B, HeapOf(h, B), Merged(h.mem, B),
         NEW ptr \in InUse(h.mem, B), NEW h1, h1 = free(h, ptr)
  PROVE  \E B1 : Frees(h, B, ptr, h1, B1)
<1>1. PICK m \in Memory, brk \in Nat : m = h.mem /\ brk = h.brk /\ Layout(m, brk, B) /\ Merged(m, B)
  BY DEF HeapOf, Heaps
<1>2. ptr \in B \ {2}
  BY DEF InUse
<1>3. PICK size \in Nat : size = GET_SIZE(m, ptr) /\ size > 0 /\ NEXT_BLKP(m, ptr) = ptr + size
                          /\ ptr + size \in B \cup {brk}
  BY <1>1, <1>2, BlockTypes
<1>4. PICK no \in BOOLEAN : No(no) /\ no = FALSE
  BY DEF No
<1>5. PICK m1 : m1 = PutBoth(m, ptr, size, no)
  OBVIOUS
<1>6. B = {b \in B : b <= ptr \/ b >= ptr + size}
  <2>1. \A b \in B : b \in Nat /\ (ptr < b => NEXT_BLKP(m, ptr) <= b)
    BY <1>1, <1>2 DEF Layout, Tiles
  <2>2. \A b \in B : b <= ptr \/ b >= ptr + size
    BY <1>2, <1>3, <2>1
  <2> QED
    BY <2>2
<1>7. MayMerge(m, brk, B, ptr, size, no, m1, B)
  <2>1. no \in BOOLEAN
    BY <1>4
  <2> QED
    BY <1>1, <1>2, <1>3, <1>5, <1>6, <2>1 DEF MayMerge
<1>8. Merges(m, brk, B, ptr, size, no, m1, B)
  BY <1>7, MergeWorks
<1>9. /\ Layout(m1, brk, B) /\ GET_SIZE(m1, ptr) = GET_SIZE(m, ptr) /\ ~GET_ALLOC(m1, ptr)
      /\ NEXT_BLKP(m1, ptr) = NEXT_BLKP(m, ptr)
  BY <1>3, <1>4, <1>8 DEF Merges
<1>10. \A b \in B \ {ptr} : /\ NEXT_BLKP(m1, b) = NEXT_BLKP(m, b) /\ GET_SIZE(m1, b) = GET_SIZE(m, b)
                            /\ GET_ALLOC(m1, b) = GET_ALLOC(m, b)
  BY <1>8 DEF Merges, SameHeader
<1>11. MergedBut(m1, B, ptr)
  BY <1>1, <1>9, <1>10 DEF Merged, MergedBut
<1>12. PICK h0 : h0 = [mem |-> m1, brk |-> h.brk, last_bp |-> h.last_bp]
  OBVIOUS
<1>13. h0.mem = m1 /\ h0.brk = brk /\ HeapOf(h0, B)
  <2>1. h0.mem = m1 /\ h0.brk = brk
    BY <1>1, <1>12
  <2>2. m1 \in Memory /\ h.last_bp \in Nat /\ h.brk \in Nat
    BY <1>9 DEF Layout, HeapOf, Heaps
  <2>3. h0 \in Heaps
    BY <1>12, <2>2 DEF Heaps
  <2> QED
    BY <1>9, <2>1, <2>3 DEF HeapOf
<1>14. h1 = coalesce(h0, ptr)
  <2>1. PICK g : g = [h EXCEPT !.mem = m1]
    OBVIOUS
  <2>2. h = [mem |-> h.mem, brk |-> h.brk, last_bp |-> h.last_bp]
    BY HeapParts DEF HeapOf
  <2>3. g = [mem |-> m1, brk |-> h.brk, last_bp |-> h.last_bp]
    BY <2>1, <2>2
  <2>4. m1 = PutBoth(h.mem, ptr, GET_SIZE(h.mem, ptr), FALSE)
    BY <1>1, <1>3, <1>4, <1>5
  <2>5. free(h, ptr) = coalesce(g, ptr)
    BY <2>1, <2>4 DEF free
  <2> QED
    BY <1>12, <2>3, <2>5
<1>15. ~GET_ALLOC(h0.mem, ptr) /\ MergedBut(h0.mem, B, ptr)
  BY <1>9, <1>11, <1>13
<1>16. PICK B1 : Coalesces(h0, B, ptr, h1, B1)
  BY <1>2, <1>13, <1>14, <1>15, CoalesceWorks
<1>17. /\ HeapOf(h1, B1) /\ h1.brk = brk /\ Merged(h1.mem, B1) /\ Keeps(m1, B, h1.mem, B1)
       /\ h1.last_bp \in B1
  BY <1>13, <1>16 DEF Coalesces
<1>18. InUse(m1, B) = InUse(m, B) \ {ptr}
  <2>1. \A b \in InUse(m1, B) : b \in InUse(m, B) /\ b # ptr
    BY <1>9, <1>10 DEF InUse
  <2>2. \A b \in InUse(m, B) \ {ptr} : b \in InUse(m1, B)
    BY <1>10 DEF InUse
  <2> QED
    BY <2>1, <2>2
<1>19. InUse(h1.mem, B1) = InUse(m, B) \ {ptr}
  BY <1>17, <1>18 DEF Keeps
<1>20. ASSUME NEW b \in InUse(m, B) \ {ptr}  PROVE GET_SIZE(h1.mem, b) = GET_SIZE(m, b)
  <2>1. GET_SIZE(h1.mem, b) = GET_SIZE(m1, b)
    BY <1>17, <1>18 DEF Keeps
  <2>2. b \in B \ {ptr}
    BY DEF InUse
  <2> QED
    BY <1>10, <2>1, <2>2
<1> QED
  BY <1>1, <1>17, <1>19, <1>20 DEF Frees

\* The rover is not inside a free block.
RoverRight(m, B, last) ==
  \A b \in B : last \in b + 1 .. NEXT_BLKP(m, b) - 1 => GET_ALLOC(m, b)

LEMMA RoverAtBlock ==
  ASSUME AllocatorAssumption, NEW h, NEW B, HeapOf(h, B), h.last_bp \in B
  PROVE  RoverRight(h.mem, B, h.last_bp)
<1>1. h.mem \in Memory /\ Layout(h.mem, h.brk, B)
  BY DEF HeapOf, Heaps
<1>2. ASSUME NEW b \in B  PROVE h.last_bp \notin b + 1 .. NEXT_BLKP(h.mem, b) - 1
  <2>1. b \in Nat /\ NEXT_BLKP(h.mem, b) \in Nat /\ h.last_bp \in Nat
    BY <1>1, BlockTypes DEF Layout, Tiles
  <2>2. b < h.last_bp => NEXT_BLKP(h.mem, b) <= h.last_bp
    BY <1>1 DEF Layout, Tiles
  <2> QED
    BY <2>1, <2>2
<1> QED
  BY <1>2 DEF RoverRight

\* A block that takes in the free words behind it, where it is.
GrowsTo(h, B, ptr, total, h1, B1) ==
  /\ HeapOf(h1, B1) /\ h1.brk = h.brk /\ h1.last_bp = h.last_bp /\ Merged(h1.mem, B1)
  /\ RoverRight(h1.mem, B1, h1.last_bp)
  /\ InUse(h1.mem, B1) = InUse(h.mem, B) /\ GET_SIZE(h1.mem, ptr) = total
  /\ \A b \in InUse(h.mem, B) \ {ptr} : GET_SIZE(h1.mem, b) = GET_SIZE(h.mem, b)

LEMMA GrowWorks ==
  ASSUME AllocatorAssumption, NEW h, NEW B, HeapOf(h, B), Merged(h.mem, B),
         RoverRight(h.mem, B, h.last_bp),
         NEW ptr \in InUse(h.mem, B), NEW total \in Nat, total > 0,
         ptr + total \in B \cup {h.brk},
         \A b \in B : ptr < b /\ b < ptr + total => ~GET_ALLOC(h.mem, b),
         NEW h1, h1 = [h EXCEPT !.mem = Written(PutBoth(@, ptr, total, TRUE), ptr)]
  PROVE  \E B1 : GrowsTo(h, B, ptr, total, h1, B1)
<1>1. PICK m \in Memory, brk \in Nat, last \in Nat :
        /\ m = h.mem /\ brk = h.brk /\ last = h.last_bp /\ Layout(m, brk, B) /\ Merged(m, B)
        /\ RoverRight(m, B, last) /\ ptr + total \in B \cup {brk}
        /\ \A b \in B : ptr < b /\ b < ptr + total => ~GET_ALLOC(m, b)
  BY DEF HeapOf, Heaps
<1>2. ptr \in B \ {2} /\ GET_ALLOC(m, ptr)
  BY <1>1 DEF InUse
<1>3. PICK yes \in BOOLEAN : Yes(yes) /\ yes = TRUE
  BY DEF Yes
<1>4. PICK m0 : m0 = PutBoth(m, ptr, total, yes)
  OBVIOUS
<1>5. PICK B1 : B1 = {b \in B : b <= ptr \/ b >= ptr + total}
  OBVIOUS
<1>6. MayMerge(m, brk, B, ptr, total, yes, m0, B1)
  <2>1. yes \in BOOLEAN
    BY <1>3
  <2> QED
    BY <1>1, <1>2, <1>4, <1>5, <2>1 DEF MayMerge
<1>7. Merges(m, brk, B, ptr, total, yes, m0, B1)
  BY <1>6, MergeWorks
<1>8. /\ Layout(m0, brk, B1) /\ ptr \in B1 /\ GET_SIZE(m0, ptr) = total /\ GET_ALLOC(m0, ptr)
  BY <1>3, <1>7 DEF Merges
<1>9. PICK m1 : m1 = Written(m0, ptr)
  OBVIOUS
<1>10. Layout(m1, brk, B1) /\ \A b \in B1 : SameHeader(m0, m1, b)
  <2>1. m0 \in Memory /\ ptr \in B1 \ {2}
    BY <1>2, <1>8 DEF Layout
  <2> QED
    BY <1>8, <1>9, <2>1, Payload
<1>11. GET_SIZE(m1, ptr) = total /\ GET_ALLOC(m1, ptr)
  BY <1>8, <1>10 DEF SameHeader
<1>12. \A b \in B1 \ {ptr} : /\ NEXT_BLKP(m1, b) = NEXT_BLKP(m, b) /\ GET_SIZE(m1, b) = GET_SIZE(m, b)
                             /\ GET_ALLOC(m1, b) = GET_ALLOC(m, b)
  BY <1>7, <1>10 DEF Merges, SameHeader
<1>13. B1 \subseteq B /\ \A b \in B : b \notin B1 => ~GET_ALLOC(m, b)
  <2>1. \A b \in B : b \in Nat
    BY <1>1 DEF Layout, Tiles
  <2>2. ASSUME NEW b \in B, b \notin B1  PROVE ~GET_ALLOC(m, b)
    <3>1. ~(b <= ptr) /\ ~(b >= ptr + total)
      BY <1>5, <2>2
    <3>2. ptr < b /\ b < ptr + total
      BY <1>2, <2>1, <3>1
    <3> QED
      BY <1>1, <3>2
  <2> QED
    BY <1>5, <2>2
<1>14. Merged(m1, B1)
  BY <1>1, <1>11, <1>12, <1>13 DEF Merged
<1>15. InUse(m1, B1) = InUse(m, B)
  <2>1. ptr \in InUse(m, B) /\ ptr \in InUse(m1, B1)
    <3>1. ptr # 2 /\ ptr \in B /\ ptr \in B1
      BY <1>2, <1>8
    <3> QED
      BY <1>2, <1>11, <3>1 DEF InUse
  <2>2. \A b \in InUse(m1, B1) : b # ptr => b \in InUse(m, B)
    BY <1>12, <1>13 DEF InUse
  <2>3. \A b \in InUse(m, B) : b # ptr => b \in InUse(m1, B1)
    BY <1>12, <1>13 DEF InUse
  <2>4. \A b : b \in InUse(m1, B1) <=> b \in InUse(m, B)
    BY <2>1, <2>2, <2>3
  <2> QED
    BY <2>4
<1>16. \A b \in InUse(m, B) \ {ptr} : GET_SIZE(m1, b) = GET_SIZE(m, b)
  BY <1>12, <1>13 DEF InUse
<1>17. RoverRight(m1, B1, last)
  BY <1>1, <1>11, <1>12, <1>13 DEF RoverRight
<1>18. h1.mem = m1 /\ h1.brk = brk /\ h1.last_bp = last /\ h1 \in Heaps
  <2>1. h = [mem |-> h.mem, brk |-> h.brk, last_bp |-> h.last_bp]
    BY HeapParts DEF HeapOf
  <2>2. m1 = Written(PutBoth(h.mem, ptr, total, TRUE), ptr)
    BY <1>1, <1>3, <1>4, <1>9
  <2>3. h1 = [h EXCEPT !.mem = m1]
    BY <2>2
  <2>4. h1 = [mem |-> m1, brk |-> h.brk, last_bp |-> h.last_bp]
    BY <2>1, <2>3
  <2>5. m1 \in Memory
    BY <1>10 DEF Layout
  <2>7. h1.mem = m1 /\ h1.brk = h.brk /\ h1.last_bp = h.last_bp
    <3>1. PICK r : r = [mem |-> m1, brk |-> h.brk, last_bp |-> h.last_bp]
      OBVIOUS
    <3>2. r.mem = m1 /\ r.brk = h.brk /\ r.last_bp = h.last_bp
      BY <3>1, Fields
    <3>3. h1 = r
      BY <2>4, <3>1
    <3> QED
      BY <3>2, <3>3, Zenon
  <2>8. [mem |-> m1, brk |-> brk, last_bp |-> last] \in Heaps
    BY <1>1, <2>5 DEF Heaps
  <2> QED
    BY <1>1, <2>4, <2>7, <2>8
<1>19. HeapOf(h1, B1)
  BY <1>10, <1>18 DEF HeapOf
<1> QED
  BY <1>1, <1>11, <1>14, <1>15, <1>16, <1>17, <1>18, <1>19 DEF GrowsTo

-----------------------------------------------------------------------------
(***************************************************************************)
(* The inductive invariant.                                                *)
(***************************************************************************)
\* The heap h with the blocks B serves the clients held.
Sound(h, B, held) ==
  /\ HeapOf(h, B) /\ Merged(h.mem, B) /\ RoverRight(h.mem, B, h.last_bp)
  /\ DOMAIN held = InUse(h.mem, B)
  /\ \A b \in DOMAIN held : held[b] \in Nat /\ GET_SIZE(h.mem, b) >= held[b] + 2

HeapInv ==
  /\ HeapTypeOK
  /\ intact => Sound(heap, Blocks, owner)

LEMMA RoverIsEven ==
  ASSUME AllocatorAssumption, NEW h, NEW B, HeapOf(h, B), h.last_bp \in B
  PROVE  h.last_bp \in 0 .. MAX_HEAP /\ Even(h.last_bp)
<1>1. h.mem \in Memory /\ Layout(h.mem, h.brk, B)
  BY DEF HeapOf, Heaps
<1>2. Even(h.last_bp) /\ h.last_bp \in Nat /\ h.last_bp < h.brk /\ h.brk \in 4 .. MAX_HEAP
  BY <1>1, BlockTypes DEF Layout, Tiles, Tagged
<1> QED
  BY <1>2 DEF AllocatorAssumption

\* What has to be shown of a state, and of a step.
LEMMA SoundTypes ==
  ASSUME AllocatorAssumption, NEW h, NEW B, NEW held, Sound(h, B, held),
         h.last_bp \in 0 .. MAX_HEAP, Even(h.last_bp)
  PROVE  /\ BlocksFrom(h.mem)[heap_listp] = B
         /\ h \in [mem : Memory, brk : {a \in 0 .. MAX_HEAP : a % DSIZE = 0},
                    last_bp : {a \in 0 .. MAX_HEAP : a % DSIZE = 0}]
         /\ DOMAIN held \subseteq {a \in 0 .. MAX_HEAP : a % DSIZE = 0}
<1>1. HeapOf(h, B) /\ h \in Heaps /\ h.mem \in Memory /\ Layout(h.mem, h.brk, B)
      /\ DOMAIN held = InUse(h.mem, B)
  BY DEF Sound, HeapOf, Heaps
<1>2. BlocksFrom(h.mem)[heap_listp] = B
  BY <1>1, WalkFinds
<1>3. h.brk \in 0 .. MAX_HEAP /\ h.brk % DSIZE = 0 /\ h.last_bp % DSIZE = 0
  BY <1>1 DEF Layout, Tagged, Even, AllocatorAssumption
<1>4. \A b \in DOMAIN held : b \in 0 .. MAX_HEAP /\ b % DSIZE = 0
  <2> SUFFICES ASSUME NEW b \in B  PROVE b \in 0 .. MAX_HEAP /\ b % DSIZE = 0
    BY <1>1 DEF InUse
  <2>1. Even(b) /\ b \in Nat /\ b < h.brk
    BY <1>1, BlockTypes DEF Layout, Tiles
  <2> QED
    BY <1>3, <2>1 DEF Even, AllocatorAssumption
<1>5. h \in [mem : Memory, brk : {a \in 0 .. MAX_HEAP : a % DSIZE = 0},
             last_bp : {a \in 0 .. MAX_HEAP : a % DSIZE = 0}]
  BY <1>1, <1>3 DEF Heaps
<1> QED
  BY <1>2, <1>4, <1>5

LEMMA Establish ==
  ASSUME AllocatorAssumption, NEW B, Sound(heap, B, owner), intact = TRUE,
         heap.last_bp \in 0 .. MAX_HEAP, Even(heap.last_bp),
         \A b \in DOMAIN owner : owner[b] \in Sizes
  PROVE  HeapInv
<1>1. /\ BlocksFrom(heap.mem)[heap_listp] = B
      /\ heap \in [mem : Memory, brk : {a \in 0 .. MAX_HEAP : a % DSIZE = 0},
                   last_bp : {a \in 0 .. MAX_HEAP : a % DSIZE = 0}]
      /\ DOMAIN owner \subseteq {a \in 0 .. MAX_HEAP : a % DSIZE = 0}
  BY SoundTypes
<1>2. HeapTypeOK
  BY <1>1 DEF HeapTypeOK, Memory
<1> QED
  BY <1>1, <1>2 DEF HeapInv, Blocks

LEMMA EstablishNext ==
  ASSUME AllocatorAssumption, NEW B, Sound(heap', B, owner'), intact' = TRUE,
         heap'.last_bp \in 0 .. MAX_HEAP, Even(heap'.last_bp),
         \A b \in DOMAIN owner' : owner'[b] \in Sizes
  PROVE  HeapInv'
<1>1. /\ BlocksFrom(heap'.mem)[heap_listp] = B
      /\ heap' \in [mem : Memory, brk : {a \in 0 .. MAX_HEAP : a % DSIZE = 0},
                    last_bp : {a \in 0 .. MAX_HEAP : a % DSIZE = 0}]
      /\ DOMAIN owner' \subseteq {a \in 0 .. MAX_HEAP : a % DSIZE = 0}
  BY SoundTypes
<1>2. HeapTypeOK'
  BY <1>1 DEF HeapTypeOK, Memory
<1> QED
  BY <1>1, <1>2 DEF HeapInv, Blocks

\* The properties of the allocator follow from it.
LEMMA HeapInvGivesRight ==
  ASSUME AllocatorAssumption, HeapInv
  PROVE  HeapRight /\ Served
<1>1. HeapTypeOK
  BY DEF HeapInv
<1>2. ASSUME intact
      PROVE  /\ HeapOf(heap, Blocks) /\ Layout(heap.mem, heap.brk, Blocks) /\ heap.mem \in Memory
             /\ Merged(heap.mem, Blocks) /\ RoverRight(heap.mem, Blocks, heap.last_bp)
             /\ DOMAIN owner = InUse(heap.mem, Blocks)
             /\ \A b \in DOMAIN owner : owner[b] \in Nat
                                        /\ GET_SIZE(heap.mem, b) >= owner[b] + 2
  BY <1>2 DEF HeapInv, Sound, HeapOf, Heaps
<1>3. Tiled
  <2> SUFFICES ASSUME intact
               PROVE  /\ heap.mem[heap.brk - 1] = [size |-> 0, alloc |-> TRUE]
                      /\ heap.brk \in {NEXT_BLKP(heap.mem, b) : b \in Blocks}
                      /\ \A b \in Blocks \ {heap_listp} :
                           /\ GET_SIZE(heap.mem, b) >= 2 * DSIZE
                           /\ NEXT_BLKP(heap.mem, b) <= heap.brk
                           /\ heap.mem[FTRP(heap.mem, b)] = heap.mem[HDRP(b)]
    BY DEF Tiled
  <2>1. heap.mem[heap.brk - 1] = [size |-> 0, alloc |-> TRUE]
    BY <1>2 DEF Layout, Tagged, Epilogue
  <2>2. heap.brk \in {NEXT_BLKP(heap.mem, b) : b \in Blocks}
    BY <1>2, LayoutFacts
  <2>3. ASSUME NEW b \in Blocks \ {heap_listp}
        PROVE  /\ GET_SIZE(heap.mem, b) >= 2 * DSIZE
               /\ heap.mem[FTRP(heap.mem, b)] = heap.mem[HDRP(b)]
    BY <1>2 DEF Layout, Tagged
  <2>4. ASSUME NEW b \in Blocks \ {heap_listp}
        PROVE  NEXT_BLKP(heap.mem, b) <= heap.brk
    BY <1>2, BlockTypes
  <2> QED
    BY <2>1, <2>2, <2>3, <2>4
<1>4. Coalesced
  BY <1>2 DEF Coalesced, Merged
<1>5. LastNotInFree
  BY <1>2 DEF LastNotInFree, RoverRight
<1>6. Served
  <2> SUFFICES ASSUME intact
               PROVE  /\ DOMAIN owner = {b \in Blocks \ {heap_listp} : GET_ALLOC(heap.mem, b)}
                      /\ \A b \in DOMAIN owner : GET_SIZE(heap.mem, b) - DSIZE >= owner[b]
    BY DEF Served
  <2>1. DOMAIN owner = {b \in Blocks \ {heap_listp} : GET_ALLOC(heap.mem, b)}
    BY <1>2 DEF InUse
  <2>2. ASSUME NEW b \in DOMAIN owner  PROVE GET_SIZE(heap.mem, b) - DSIZE >= owner[b]
    <3>1. b \in Blocks
      BY <1>2 DEF InUse
    <3>2. GET_SIZE(heap.mem, b) \in Nat /\ owner[b] \in Nat
          /\ GET_SIZE(heap.mem, b) >= owner[b] + 2
      BY <1>2, <3>1, BlockTypes
    <3> QED
      BY <3>2
  <2> QED
    BY <2>1, <2>2
<1> QED
  BY <1>1, <1>3, <1>4, <1>5, <1>6 DEF HeapRight

\* The heap that mm_init() writes before it extends it: the prologue and the epilogue.
LEMMA OneBlock ==
  ASSUME AllocatorAssumption, NEW m \in Memory,
         m[1] = Prologue, m[2] = Prologue, m[3] = Epilogue
  PROVE  Layout(m, 4, {2})
<1>1. GET_SIZE(m, 2) = 2 /\ NEXT_BLKP(m, 2) = 4
  BY DEF Prologue, GET_SIZE, NEXT_BLKP, HDRP
<1>2. Tiles(m, 4, {2})
  <2>0. PICK B : B = {2}
    OBVIOUS
  <2>1. PICK brk \in Nat : B = {2} /\ brk = 4
    BY <2>0
  <2>2. \A b, c \in B : b < c => NEXT_BLKP(m, b) <= c
    BY <2>1
  <2>3. \A c \in (B \ {2}) \cup {brk} : \E b \in B : NEXT_BLKP(m, b) = c
    BY <1>1, <2>1
  <2>4. 2 \in B /\ \A b \in B : b \in Nat /\ 2 <= b /\ b < brk
    BY <2>1
  <2>5. \A b \in B : GET_SIZE(m, b) \in Nat \ {0} /\ NEXT_BLKP(m, b) \in B \cup {brk}
    BY <1>1, <2>1
  <2>6. brk \in Nat
    BY <2>1
  <2>7. Tiles(m, brk, B)
    BY <2>2, <2>3, <2>4, <2>5, <2>6 DEF Tiles
  <2> QED
    BY <2>1, <2>7
<1>4. Tagged(m, 4, {2})
  <2>1. 4 \in 4 .. MAX_HEAP /\ Even(4)
    BY DEF AllocatorAssumption, Even
  <2>2. m[4 - 1] = Epilogue
    OBVIOUS
  <2> QED
    BY <2>1, <2>2 DEF Tagged
<1> QED
  BY <1>2, <1>4 DEF Layout

LEMMA InitLayout ==
  ASSUME AllocatorAssumption, NEW m,
         m = [[a \in Addresses |-> Junk] EXCEPT ![1] = [size |-> DSIZE, alloc |-> TRUE],
                                                ![2] = [size |-> DSIZE, alloc |-> TRUE],
                                                ![3] = [size |-> 0, alloc |-> TRUE]]
  PROVE  Layout(m, 4, {2})
<1>1. m = [[a \in Addresses |-> Junk] EXCEPT ![1] = Prologue, ![2] = Prologue, ![3] = Epilogue]
  BY DEF Prologue, Epilogue
<1>2. Prologue \in Tag /\ Epilogue \in Tag /\ Junk \in Tag
  BY DEF Prologue, Epilogue, Junk, Tag, AllocatorAssumption
<1>4. 1 \in Addresses /\ 2 \in Addresses /\ 3 \in Addresses
  BY DEF Addresses, AllocatorAssumption
<1>5. m \in Memory /\ m[1] = Prologue /\ m[2] = Prologue /\ m[3] = Epilogue
  <2>1. PICK f : f = [a \in Addresses |-> Junk]
    OBVIOUS
  <2>2. m = [[[f EXCEPT ![1] = Prologue] EXCEPT ![2] = Prologue] EXCEPT ![3] = Epilogue]
    BY <1>1, <2>1
  <2>3. PICK f1 : f1 = [f EXCEPT ![1] = Prologue]
    OBVIOUS
  <2>4. PICK f2 : f2 = [f1 EXCEPT ![2] = Prologue]
    OBVIOUS
  <2>5. f \in Memory
    BY <1>2, <2>1 DEF Memory
  <2>6. f1 \in Memory /\ f1[1] = Prologue
    BY <1>2, <1>4, <2>3, <2>5 DEF Memory
  <2>7. f2 \in Memory /\ f2[1] = Prologue /\ f2[2] = Prologue
    BY <1>2, <1>4, <2>4, <2>6 DEF Memory
  <2>8. PICK f3 : f3 = [f2 EXCEPT ![3] = Epilogue]
    OBVIOUS
  <2>9. f3 \in Memory /\ f3[1] = Prologue /\ f3[2] = Prologue /\ f3[3] = Epilogue
    BY <1>2, <1>4, <2>7, <2>8 DEF Memory
  <2> QED
    BY <2>2, <2>3, <2>4, <2>8, <2>9
<1> QED
  BY <1>5, OneBlock

LEMMA InitHolds ==
  ASSUME AllocatorAssumption, HeapInit
  PROVE  HeapInv
<1>1. PICK m : m = [[a \in Addresses |-> Junk] EXCEPT ![1] = [size |-> DSIZE, alloc |-> TRUE],
                                                      ![2] = [size |-> DSIZE, alloc |-> TRUE],
                                                      ![3] = [size |-> 0, alloc |-> TRUE]]
  OBVIOUS
<1>2. PICK h0 : h0 = [mem |-> m, brk |-> 4, last_bp |-> 2]
  OBVIOUS
<1>3. PICK h1 : h1 = extend_heap(h0, CHUNKSIZE)
  OBVIOUS
<1>4. heap = [h1 EXCEPT !.last_bp = 2] /\ owner = [b \in {} |-> 0] /\ intact = TRUE
  BY <1>1, <1>2, <1>3 DEF HeapInit
<1>5. Layout(m, 4, {2}) /\ m \in Memory
  BY <1>1, InitLayout DEF Layout
<1>6. h0.mem = m /\ h0.brk = 4 /\ HeapOf(h0, {2})
  BY <1>2, <1>5 DEF HeapOf, Heaps
<1>7. Merged(m, {2})
  <2>1. NEXT_BLKP(m, 2) # 2
    BY <1>5, BlockTypes
  <2> QED
    BY <2>1 DEF Merged
<1>8. CHUNKSIZE \in Nat /\ Even(CHUNKSIZE) /\ CHUNKSIZE >= 4 /\ Room(h0, CHUNKSIZE)
  BY <1>6 DEF AllocatorAssumption, Even, Room
<1>9. PICK B1 : Grows(h0, {2}, CHUNKSIZE, h1, B1)
  BY <1>3, <1>6, <1>7, <1>8, ExtendHeap
<1>10. HeapOf(h1, B1) /\ Merged(h1.mem, B1) /\ Keeps(m, {2}, h1.mem, B1)
  BY <1>6, <1>9 DEF Grows
<1>11. heap = [mem |-> h1.mem, brk |-> h1.brk, last_bp |-> 2]
  <2>1. h1 = [mem |-> h1.mem, brk |-> h1.brk, last_bp |-> h1.last_bp]
    BY <1>10, HeapParts DEF HeapOf
  <2> QED
    BY <1>4, <2>1
<1>12. heap.mem = h1.mem /\ heap.brk = h1.brk /\ heap.last_bp = 2
  BY <1>11
<1>13. HeapOf(heap, B1) /\ 2 \in B1
  BY <1>10, <1>11, <1>12 DEF HeapOf, Heaps, Layout, Tiles
<1>14. RoverRight(heap.mem, B1, heap.last_bp)
  BY <1>12, <1>13, RoverAtBlock
<1>15. InUse(heap.mem, B1) = {} /\ DOMAIN owner = {}
  BY <1>4, <1>10, <1>12 DEF Keeps, InUse
<1>16. Sound(heap, B1, owner)
  BY <1>10, <1>12, <1>13, <1>14, <1>15 DEF Sound
<1>17. heap.last_bp \in 0 .. MAX_HEAP /\ Even(heap.last_bp)
  BY <1>12, <1>13, RoverIsEven
<1> QED
  BY <1>4, <1>15, <1>16, <1>17, Establish

\* The body of ExtendOnlyWhenFull.
ExtendStep ==
  \A ptr \in DOMAIN owner' \ DOMAIN owner :
    LET moved == ~(DOMAIN owner \subseteq DOMAIN owner')
        size == owner'[ptr]
        asize == adjusted(IF moved THEN adjusted(size) + BUFFER ELSE size)
    IN  heap'.brk > heap.brk => \A b \in Blocks : ~Fits(heap.mem, b, asize)

\* What holds before a call.
LEMMA BeforeCall ==
  ASSUME AllocatorAssumption, HeapInv, intact = TRUE
  PROVE  /\ Sound(heap, Blocks, owner) /\ HeapOf(heap, Blocks) /\ Merged(heap.mem, Blocks)
         /\ RoverRight(heap.mem, Blocks, heap.last_bp)
         /\ heap.mem \in Memory /\ Layout(heap.mem, heap.brk, Blocks) /\ heap.brk \in Nat
         /\ heap.last_bp \in 0 .. MAX_HEAP /\ Even(heap.last_bp)
         /\ DOMAIN owner = InUse(heap.mem, Blocks)
         /\ \A b \in DOMAIN owner : /\ owner[b] \in Sizes /\ owner[b] \in Nat
                                    /\ GET_SIZE(heap.mem, b) >= owner[b] + 2
<1>1. Sound(heap, Blocks, owner)
  BY DEF HeapInv
<1>2. heap.last_bp \in 0 .. MAX_HEAP /\ Even(heap.last_bp)
      /\ \A b \in DOMAIN owner : owner[b] \in Sizes
  BY DEF HeapInv, HeapTypeOK, Even
<1> QED
  BY <1>1, <1>2 DEF Sound, HeapOf, Heaps

\* No new block, no step of the kind ExtendOnlyWhenFull is about.
LEMMA NoNewBlock ==
  ASSUME DOMAIN owner' \subseteq DOMAIN owner
  PROVE  ExtendStep
BY DEF ExtendStep

LEMMA Unchanged ==
  ASSUME HeapInv, UNCHANGED heap_vars
  PROVE  HeapInv' /\ ExtendStep
<1>1. heap' = heap /\ owner' = owner /\ intact' = intact
  BY DEF heap_vars
<1>2. HeapInv'
  BY <1>1 DEF HeapInv, HeapTypeOK, Blocks
<1> QED
  BY <1>1, <1>2, NoNewBlock

LEMMA AstrayStep ==
  ASSUME HeapInv, Astray
  PROVE  HeapInv' /\ ExtendStep
<1>1. heap' = heap /\ owner' = owner /\ intact' = FALSE
  BY DEF Astray
<1>2. HeapInv'
  BY <1>1 DEF HeapInv, HeapTypeOK
<1> QED
  BY <1>1, <1>2, NoNewBlock

\* A new block of msize words for a client that asked for size.
Gave(held, ptr, size) == [b \in DOMAIN held \cup {ptr} |-> IF b = ptr THEN size ELSE held[b]]

MayGive(h, B, held, msize, size, ptr, g, B1) ==
  /\ Sound(h, B, held) /\ msize \in Nat \ {0} /\ size \in Nat /\ size <= msize
  /\ Mallocs(h, B, msize, ptr, g, B1)

Gives(held, size, ptr, g, B1) ==
  /\ Sound(g, B1, Gave(held, ptr, size)) /\ ptr \notin DOMAIN held
  /\ g.last_bp \in 0 .. MAX_HEAP /\ Even(g.last_bp)

LEMMA GivesBlock ==
  ASSUME AllocatorAssumption
  PROVE  \A h, B, held, msize, size, ptr, g, B1 :
           MayGive(h, B, held, msize, size, ptr, g, B1) => Gives(held, size, ptr, g, B1)
<1> SUFFICES ASSUME NEW h, NEW B, NEW held, NEW msize, NEW size, NEW ptr, NEW g, NEW B1,
                    MayGive(h, B, held, msize, size, ptr, g, B1)
             PROVE  Gives(held, size, ptr, g, B1)
  OBVIOUS
<1>a. PICK held1 : held1 = Gave(held, ptr, size)
  OBVIOUS
<1>b. held1 = [b \in DOMAIN held \cup {ptr} |-> IF b = ptr THEN size ELSE held[b]]
  BY <1>a DEF Gave
<1>c. /\ Sound(h, B, held) /\ msize \in Nat \ {0} /\ size \in Nat /\ size <= msize
      /\ Mallocs(h, B, msize, ptr, g, B1)
  BY DEF MayGive
<1> USE <1>b, <1>c
<1>1. /\ HeapOf(g, B1) /\ Merged(g.mem, B1) /\ ptr \in B1 \ {2} /\ ptr \notin InUse(h.mem, B)
      /\ InUse(g.mem, B1) = InUse(h.mem, B) \cup {ptr} /\ GET_SIZE(g.mem, ptr) >= msize + 2
      /\ \A b \in InUse(h.mem, B) : GET_SIZE(g.mem, b) = GET_SIZE(h.mem, b)
      /\ g.last_bp = ptr
  BY DEF Mallocs
<1>2. /\ DOMAIN held = InUse(h.mem, B)
      /\ \A b \in DOMAIN held : held[b] \in Nat /\ GET_SIZE(h.mem, b) >= held[b] + 2
  BY DEF Sound
<1>3. RoverRight(g.mem, B1, g.last_bp)
  BY <1>1, RoverAtBlock
<1>4. DOMAIN held1 = InUse(g.mem, B1)
  BY <1>1, <1>2
<1>5. ASSUME NEW b \in DOMAIN held1
      PROVE  held1[b] \in Nat /\ GET_SIZE(g.mem, b) >= held1[b] + 2
  <2>1. CASE b = ptr
    <3>1. GET_SIZE(g.mem, ptr) \in Nat
      BY <1>1, BlockTypes DEF HeapOf, Heaps
    <3>2. GET_SIZE(g.mem, ptr) >= size + 2
      BY <1>1, <3>1
    <3>3. held1[b] = size
      BY <2>1
    <3> QED
      BY <2>1, <3>2, <3>3
  <2>2. CASE b # ptr
    <3>1. b \in DOMAIN held /\ held1[b] = held[b]
      BY <2>2
    <3>2. GET_SIZE(g.mem, b) = GET_SIZE(h.mem, b)
      BY <1>1, <1>2, <3>1
    <3> QED
      BY <1>2, <3>1, <3>2
  <2> QED
    BY <2>1, <2>2
<1>6. Sound(g, B1, held1)
  BY <1>1, <1>3, <1>4, <1>5 DEF Sound
<1>7. g.last_bp \in 0 .. MAX_HEAP /\ Even(g.last_bp)
  BY <1>1, RoverIsEven
<1> QED
  BY <1>1, <1>2, <1>6, <1>7, <1>a DEF Gives

LEMMA MallocStep ==
  ASSUME AllocatorAssumption, HeapInv, NEW size \in Sizes, mm_malloc(size)
  PROVE  HeapInv' /\ ExtendStep
<1>1. intact = TRUE
  BY DEF mm_malloc, HeapInv, HeapTypeOK
<1>2. size \in Nat \ {0}
  BY DEF AllocatorAssumption
<1>3. CASE heap.last_bp \notin Blocks /\ Astray
  BY <1>3, AstrayStep
<1>4. CASE /\ heap.last_bp \in Blocks /\ heap' = malloc(heap, size).heap
           /\ owner' = IF malloc(heap, size).ptr = NULL THEN owner
                       ELSE Give(malloc(heap, size).ptr, size)
           /\ UNCHANGED intact
  <2>1. CASE malloc(heap, size).ptr = NULL /\ malloc(heap, size).heap = heap
    <3>1. UNCHANGED heap_vars
      BY <1>4, <2>1 DEF heap_vars
    <3> QED
      BY <3>1, Unchanged
  <2>2. CASE /\ malloc(heap, size).ptr # NULL
             /\ \E B1 : Mallocs(heap, Blocks, size, malloc(heap, size).ptr,
                                malloc(heap, size).heap, B1)
    <3>1. PICK ptr : ptr = malloc(heap, size).ptr
      OBVIOUS
    <3>2. PICK B1 : Mallocs(heap, Blocks, size, ptr, heap', B1)
      BY <1>4, <2>2, <3>1
    <3>3. owner' = [b \in DOMAIN owner \cup {ptr} |-> IF b = ptr THEN size ELSE owner[b]]
      BY <1>4, <2>2, <3>1 DEF Give
    <3>4. /\ Sound(heap', B1, owner') /\ ptr \notin DOMAIN owner
          /\ heap'.last_bp \in 0 .. MAX_HEAP /\ Even(heap'.last_bp)
      <4>1. size \in Nat /\ size <= size /\ Sound(heap, Blocks, owner)
        BY <1>1, <1>2, BeforeCall
      <4>2. owner' = Gave(owner, ptr, size)
        BY <3>3 DEF Gave
      <4>3. MayGive(heap, Blocks, owner, size, size, ptr, heap', B1)
        BY <1>2, <3>2, <4>1 DEF MayGive
      <4>4. Gives(owner, size, ptr, heap', B1)
        BY <4>3, GivesBlock
      <4> QED
        BY <4>2, <4>4 DEF Gives
    <3>5. \A b \in DOMAIN owner' : owner'[b] \in Sizes
      BY <1>1, <3>3, BeforeCall
    <3>6. HeapInv'
      <4>1. intact' = TRUE
        BY <1>1, <1>4
      <4> QED
        BY <3>4, <3>5, <4>1, EstablishNext
    <3>7. ExtendStep
      <4>1. DOMAIN owner' = DOMAIN owner \cup {ptr} /\ owner'[ptr] = size
        BY <3>3
      <4>2. heap'.brk = heap.brk \/ \A b \in Blocks : ~Fits(heap.mem, b, adjusted(size))
        BY <3>2 DEF Mallocs
      <4>3. heap.brk \in Nat
        BY <1>1, BeforeCall
      <4>4. heap'.brk > heap.brk => \A b \in Blocks : ~Fits(heap.mem, b, adjusted(size))
        BY <4>2, <4>3
      <4> QED
        BY <4>1, <4>4 DEF ExtendStep
    <3> QED
      BY <3>6, <3>7
  <2> QED
    <3>1. HeapOf(heap, Blocks) /\ Merged(heap.mem, Blocks) /\ heap.last_bp \in Blocks
      BY <1>1, <1>4, BeforeCall
    <3> QED
      BY <1>2, <2>1, <2>2, <3>1, MallocWorks
<1> QED
  BY <1>3, <1>4 DEF mm_malloc

\* A client gives its block back.
MayTake(h, B, held, ptr, g, B1) ==
  Sound(h, B, held) /\ ptr \in DOMAIN held /\ Frees(h, B, ptr, g, B1)

Takes(held, ptr, g, B1) ==
  Sound(g, B1, Take(held, ptr)) /\ g.last_bp \in 0 .. MAX_HEAP /\ Even(g.last_bp)

LEMMA TakesBlock ==
  ASSUME AllocatorAssumption
  PROVE  \A h, B, held, ptr, g, B1 : MayTake(h, B, held, ptr, g, B1) => Takes(held, ptr, g, B1)
<1> SUFFICES ASSUME NEW h, NEW B, NEW held, NEW ptr, NEW g, NEW B1,
                    MayTake(h, B, held, ptr, g, B1)
             PROVE  Takes(held, ptr, g, B1)
  OBVIOUS
<1>1. /\ HeapOf(g, B1) /\ Merged(g.mem, B1) /\ g.last_bp \in B1
      /\ InUse(g.mem, B1) = InUse(h.mem, B) \ {ptr}
      /\ \A b \in InUse(h.mem, B) \ {ptr} : GET_SIZE(g.mem, b) = GET_SIZE(h.mem, b)
  BY DEF MayTake, Frees
<1>2. /\ DOMAIN held = InUse(h.mem, B)
      /\ \A b \in DOMAIN held : held[b] \in Nat /\ GET_SIZE(h.mem, b) >= held[b] + 2
  BY DEF MayTake, Sound
<1>3. PICK held1 : held1 = [b \in DOMAIN held \ {ptr} |-> held[b]]
  OBVIOUS
<1>4. RoverRight(g.mem, B1, g.last_bp)
  BY <1>1, RoverAtBlock
<1>5. DOMAIN held1 = InUse(g.mem, B1)
  BY <1>1, <1>2, <1>3
<1>6. \A b \in DOMAIN held1 : held1[b] \in Nat /\ GET_SIZE(g.mem, b) >= held1[b] + 2
  BY <1>1, <1>2, <1>3
<1>7. Sound(g, B1, held1)
  BY <1>1, <1>4, <1>5, <1>6 DEF Sound
<1>8. g.last_bp \in 0 .. MAX_HEAP /\ Even(g.last_bp)
  BY <1>1, RoverIsEven
<1> QED
  BY <1>3, <1>7, <1>8 DEF Takes, Take

LEMMA FreeStep ==
  ASSUME AllocatorAssumption, HeapInv, NEW ptr \in DOMAIN owner, mm_free(ptr)
  PROVE  HeapInv' /\ ExtendStep
<1>1. intact = TRUE /\ heap' = free(heap, ptr) /\ owner' = Take(owner, ptr) /\ intact' = intact
  BY DEF mm_free, HeapInv, HeapTypeOK
<1>2. Sound(heap, Blocks, owner) /\ HeapOf(heap, Blocks) /\ Merged(heap.mem, Blocks)
      /\ DOMAIN owner = InUse(heap.mem, Blocks) /\ \A b \in DOMAIN owner : owner[b] \in Sizes
  BY <1>1, BeforeCall
<1>3. PICK B1 : Frees(heap, Blocks, ptr, heap', B1)
  BY <1>1, <1>2, FreeWorks
<1>4. MayTake(heap, Blocks, owner, ptr, heap', B1)
  BY <1>2, <1>3 DEF MayTake
<1>5. Takes(owner, ptr, heap', B1)
  BY <1>4, TakesBlock
<1>6. Sound(heap', B1, owner') /\ heap'.last_bp \in 0 .. MAX_HEAP /\ Even(heap'.last_bp)
  BY <1>1, <1>5 DEF Takes
<1>7. DOMAIN owner' \subseteq DOMAIN owner /\ \A b \in DOMAIN owner' : owner'[b] \in Sizes
  BY <1>1, <1>2 DEF Take
<1> QED
  BY <1>1, <1>6, <1>7, EstablishNext, NoNewBlock

\* A client whose block has grown.
MayHold(h, B, held, ptr, total, size, g, B1) ==
  /\ Sound(h, B, held) /\ ptr \in DOMAIN held /\ GrowsTo(h, B, ptr, total, g, B1)
  /\ size \in Nat /\ total >= size + 2

LEMMA HoldsBlock ==
  ASSUME AllocatorAssumption
  PROVE  \A h, B, held, ptr, total, size, g, B1 :
           MayHold(h, B, held, ptr, total, size, g, B1)
             => Sound(g, B1, [held EXCEPT ![ptr] = size])
<1> SUFFICES ASSUME NEW h, NEW B, NEW held, NEW ptr, NEW total, NEW size, NEW g, NEW B1,
                    MayHold(h, B, held, ptr, total, size, g, B1)
             PROVE  Sound(g, B1, [held EXCEPT ![ptr] = size])
  OBVIOUS
<1>1. /\ HeapOf(g, B1) /\ Merged(g.mem, B1) /\ RoverRight(g.mem, B1, g.last_bp)
      /\ InUse(g.mem, B1) = InUse(h.mem, B) /\ GET_SIZE(g.mem, ptr) = total
      /\ \A b \in InUse(h.mem, B) \ {ptr} : GET_SIZE(g.mem, b) = GET_SIZE(h.mem, b)
      /\ size \in Nat /\ total >= size + 2
  BY DEF MayHold, GrowsTo
<1>2. /\ DOMAIN held = InUse(h.mem, B) /\ ptr \in DOMAIN held
      /\ \A b \in DOMAIN held : held[b] \in Nat /\ GET_SIZE(h.mem, b) >= held[b] + 2
  BY DEF MayHold, Sound
<1>3. PICK held1 : held1 = [held EXCEPT ![ptr] = size]
  OBVIOUS
<1>4. DOMAIN held1 = DOMAIN held /\ \A b \in DOMAIN held : held1[b] = IF b = ptr THEN size ELSE held[b]
  BY <1>2, <1>3
<1>5. DOMAIN held1 = InUse(g.mem, B1)
  BY <1>1, <1>2, <1>4
<1>6. \A b \in DOMAIN held1 : held1[b] \in Nat /\ GET_SIZE(g.mem, b) >= held1[b] + 2
  BY <1>1, <1>2, <1>4
<1>7. Sound(g, B1, held1)
  BY <1>1, <1>5, <1>6 DEF Sound
<1> QED
  BY <1>3, <1>7

\* The block behind a client's, when it is free or the end of the heap.
LEMMA FreeNext ==
  ASSUME AllocatorAssumption, NEW m \in Memory, NEW brk, NEW B, Layout(m, brk, B),
         NEW ptr \in B, NEW next, next = NEXT_BLKP(m, ptr),
         NEW total, total = GET_SIZE(m, ptr) + GET_SIZE(m, next)
  PROVE  /\ total \in Nat /\ total >= 2 /\ ptr \in Nat /\ ptr + total = NEXT_BLKP(m, next)
         /\ ptr + total \in B \cup {brk} /\ brk \in Nat
         /\ GET_SIZE(m, ptr) \in Nat /\ GET_SIZE(m, next) \in Nat
         /\ Even(GET_SIZE(m, ptr)) /\ Even(GET_SIZE(m, next))
         /\ next \in B \cup {brk} /\ next \in Nat /\ ptr < next
         /\ next \in B => GET_SIZE(m, next) >= 2
         /\ \A b \in B : ptr < b /\ b < ptr + total => b = next
<1>1. /\ brk \in Nat /\ \A b \in B : b \in Nat /\ 2 <= b /\ b < brk
  BY DEF Layout, Tiles
<1>2. \A b \in B : /\ NEXT_BLKP(m, b) \in Nat /\ GET_SIZE(m, b) \in Nat /\ GET_SIZE(m, b) >= 2
                   /\ NEXT_BLKP(m, b) = b + GET_SIZE(m, b) /\ b < NEXT_BLKP(m, b)
                   /\ Even(GET_SIZE(m, b)) /\ NEXT_BLKP(m, b) \in B \cup {brk}
  BY BlockTypes
<1>3. \A b, c \in B : b < c => NEXT_BLKP(m, b) <= c
  BY LayoutFacts
<1>4. GET_SIZE(m, brk) = 0 /\ NEXT_BLKP(m, brk) = brk /\ Even(0) /\ brk \notin B
  <2>1. Even(0)
    BY DEF Even
  <2> QED
    BY <2>1, AtEnd
<1>5. ptr \in Nat /\ GET_SIZE(m, ptr) \in Nat /\ Even(GET_SIZE(m, ptr)) /\ GET_SIZE(m, ptr) >= 2
      /\ next = ptr + GET_SIZE(m, ptr) /\ next \in B \cup {brk} /\ next \in Nat /\ ptr < next
  BY <1>1, <1>2
<1>6. GET_SIZE(m, next) \in Nat /\ Even(GET_SIZE(m, next)) /\ NEXT_BLKP(m, next) \in B \cup {brk}
      /\ NEXT_BLKP(m, next) = next + GET_SIZE(m, next) /\ NEXT_BLKP(m, next) \in Nat
      /\ (next \in B => GET_SIZE(m, next) >= 2)
  <2>1. CASE next = brk
    BY <1>1, <1>4, <2>1
  <2>2. CASE next \in B
    BY <1>2, <2>2
  <2> QED
    BY <1>5, <2>1, <2>2
<1>7. total \in Nat /\ total >= 2 /\ ptr + total = NEXT_BLKP(m, next)
  BY <1>5, <1>6
<1>8. ASSUME NEW b \in B, ptr < b, b < ptr + total  PROVE b = next
  <2>1. next <= b /\ b \in Nat /\ b < NEXT_BLKP(m, next)
    BY <1>1, <1>3, <1>7, <1>8
  <2>2. ~(next < b)
    <3>1. CASE next \in B
      <4>1. next < b => NEXT_BLKP(m, next) <= b
        BY <1>3, <3>1
      <4> QED
        BY <1>6, <2>1, <4>1
    <3>2. CASE next = brk
      BY <1>1, <2>1, <3>2
    <3> QED
      BY <1>5, <3>1, <3>2
  <2> QED
    BY <1>5, <2>1, <2>2
<1> QED
  BY <1>1, <1>5, <1>6, <1>7, <1>8

\* After an extension the clients have what they had.
MayAdd(h, B, held, words, g, C) == Sound(h, B, held) /\ Grows(h, B, words, g, C)

LEMMA AddsSound ==
  ASSUME AllocatorAssumption
  PROVE  \A h, B, held, words, g, C : MayAdd(h, B, held, words, g, C) => Sound(g, C, held)
<1> SUFFICES ASSUME NEW h, NEW B, NEW held, NEW words, NEW g, NEW C,
                    MayAdd(h, B, held, words, g, C)
             PROVE  Sound(g, C, held)
  OBVIOUS
<1>1. /\ HeapOf(g, C) /\ Merged(g.mem, C) /\ Keeps(h.mem, B, g.mem, C) /\ g.last_bp \in C
  BY DEF MayAdd, Grows
<1>2. /\ DOMAIN held = InUse(h.mem, B)
      /\ \A b \in DOMAIN held : held[b] \in Nat /\ GET_SIZE(h.mem, b) >= held[b] + 2
  BY DEF MayAdd, Sound
<1>3. RoverRight(g.mem, C, g.last_bp)
  BY <1>1, RoverAtBlock
<1>4. DOMAIN held = InUse(g.mem, C)
      /\ \A b \in DOMAIN held : held[b] \in Nat /\ GET_SIZE(g.mem, b) >= held[b] + 2
  BY <1>1, <1>2 DEF Keeps
<1> QED
  BY <1>1, <1>3, <1>4 DEF Sound

\* What mm_realloc() asks for.
LEMMA NewSize ==
  ASSUME AllocatorAssumption, NEW size \in Sizes,
         NEW new_size, new_size = adjusted(size) + BUFFER
  PROVE  /\ new_size \in Nat \ {0} /\ Even(new_size) /\ new_size >= size + 2
         /\ size \in Nat \ {0} /\ size <= new_size
<1>1. size \in Nat \ {0}
  BY DEF AllocatorAssumption
<1>2. /\ adjusted(size) \in Nat /\ Even(adjusted(size)) /\ adjusted(size) >= 4
      /\ adjusted(size) >= size + 2
  BY <1>1, Adjusted
<1>3. BUFFER \in Nat /\ Even(BUFFER)
  BY DEF AllocatorAssumption, Even
<1>4. PICK a \in Nat : a = adjusted(size) /\ Even(a) /\ a >= 4 /\ a >= size + 2
  BY <1>2
<1>5. new_size = a + BUFFER
  BY <1>4
<1>6. Even(new_size)
  BY <1>3, <1>4, <1>5 DEF Even
<1> QED
  BY <1>1, <1>3, <1>4, <1>5, <1>6

\* mm_realloc(), the block taking in the free one behind it.
LEMMA GrowStep ==
  ASSUME AllocatorAssumption, HeapInv, intact = TRUE, NEW ptr \in DOMAIN owner, NEW size \in Sizes,
         NEW next, next = NEXT_BLKP(heap.mem, ptr),
         NEW total, total = GET_SIZE(heap.mem, ptr) + GET_SIZE(heap.mem, next),
         ~GET_ALLOC(heap.mem, next) \/ GET_SIZE(heap.mem, next) = 0,
         total >= adjusted(size) + BUFFER, Grow(heap, ptr, total, size)
  PROVE  HeapInv' /\ ExtendStep
<1>1. PICK m, brk, B : /\ m \in Memory /\ brk \in Nat
                      /\ m = heap.mem /\ brk = heap.brk /\ B = Blocks
                      /\ Layout(m, brk, B) /\ RoverRight(m, B, heap.last_bp)
                      /\ HeapOf(heap, B) /\ Merged(m, B)
                      /\ Sound(heap, B, owner) /\ DOMAIN owner = InUse(m, B)
  <2>1. /\ heap.mem \in Memory /\ heap.brk \in Nat /\ Layout(heap.mem, heap.brk, Blocks)
        /\ RoverRight(heap.mem, Blocks, heap.last_bp) /\ HeapOf(heap, Blocks)
        /\ Merged(heap.mem, Blocks) /\ Sound(heap, Blocks, owner)
        /\ DOMAIN owner = InUse(heap.mem, Blocks)
    BY BeforeCall
  <2> QED
    BY <2>1
<1>2. ptr \in B /\ ptr \in InUse(m, B)
  BY <1>1 DEF InUse
<1>3. /\ total \in Nat /\ total >= 2 /\ ptr + total \in B \cup {brk}
      /\ next \in B => GET_SIZE(m, next) >= 2
      /\ \A b \in B : ptr < b /\ b < ptr + total => b = next
      /\ GET_SIZE(m, next) \in Nat
  BY <1>1, <1>2, FreeNext
<1>4. \A b \in B : ptr < b /\ b < ptr + total => ~GET_ALLOC(m, b)
  BY <1>1, <1>3
<1>5. heap' = [heap EXCEPT !.mem = Written(PutBoth(@, ptr, total, TRUE), ptr)]
      /\ owner' = [owner EXCEPT ![ptr] = size] /\ intact' = TRUE
  BY DEF Grow
<1>6. PICK B1 : GrowsTo(heap, B, ptr, total, heap', B1)
  <2>1. /\ HeapOf(heap, B) /\ Merged(heap.mem, B) /\ RoverRight(heap.mem, B, heap.last_bp)
        /\ ptr \in InUse(heap.mem, B) /\ total \in Nat /\ total > 0
        /\ ptr + total \in B \cup {heap.brk}
        /\ \A b \in B : ptr < b /\ b < ptr + total => ~GET_ALLOC(heap.mem, b)
    BY <1>1, <1>2, <1>3, <1>4
  <2> QED
    BY <1>5, <2>1, GrowWorks
<1>7. size \in Nat /\ total >= size + 2
  <2>1. PICK n \in Nat : n = adjusted(size) + BUFFER /\ n >= size + 2 /\ size \in Nat
    BY NewSize
  <2> QED
    BY <1>3, <2>1
<1>8. MayHold(heap, B, owner, ptr, total, size, heap', B1)
  BY <1>1, <1>6, <1>7 DEF MayHold
<1>9. Sound(heap', B1, owner')
  BY <1>5, <1>8, HoldsBlock
<1>10. heap'.last_bp \in 0 .. MAX_HEAP /\ Even(heap'.last_bp)
  BY <1>6, BeforeCall DEF GrowsTo
<1>11. DOMAIN owner' = DOMAIN owner /\ \A b \in DOMAIN owner' : owner'[b] \in Sizes
  BY <1>5, BeforeCall
<1> QED
  BY <1>5, <1>9, <1>10, <1>11, EstablishNext, NoNewBlock

\* mm_realloc(), the heap extended behind the block.
LEMMA ExtendGrowStep ==
  ASSUME AllocatorAssumption, HeapInv, intact = TRUE, NEW ptr \in DOMAIN owner, NEW size \in Sizes,
         NEW next, next = NEXT_BLKP(heap.mem, ptr),
         NEW total, total = GET_SIZE(heap.mem, ptr) + GET_SIZE(heap.mem, next),
         ~GET_ALLOC(heap.mem, next) \/ GET_SIZE(heap.mem, next) = 0,
         NEW new_size, new_size = adjusted(size) + BUFFER, total < new_size,
         NEW words, words = Larger(new_size - total, CHUNKSIZE), Room(heap, words),
         NEXT_BLKP(heap.mem, next) = heap.brk,
         Grow(extend_heap(heap, words), ptr, total + words, size)
  PROVE  HeapInv' /\ ExtendStep
<1>1. PICK m, brk, B : /\ m \in Memory /\ brk \in Nat
                      /\ m = heap.mem /\ brk = heap.brk /\ B = Blocks
                      /\ Layout(m, brk, B)
                      /\ HeapOf(heap, B) /\ Merged(m, B)
                      /\ Sound(heap, B, owner) /\ DOMAIN owner = InUse(m, B)
  <2>1. /\ heap.mem \in Memory /\ heap.brk \in Nat /\ Layout(heap.mem, heap.brk, Blocks)
        /\ HeapOf(heap, Blocks)
        /\ Merged(heap.mem, Blocks) /\ Sound(heap, Blocks, owner)
        /\ DOMAIN owner = InUse(heap.mem, Blocks)
    BY BeforeCall
  <2> QED
    BY <2>1
<1>2. ptr \in B /\ ptr \in InUse(m, B)
  BY <1>1 DEF InUse
<1>3. /\ total \in Nat /\ total >= 2 /\ ptr \in Nat /\ ptr + total = brk
      /\ GET_SIZE(m, ptr) \in Nat /\ GET_SIZE(m, next) \in Nat
      /\ Even(GET_SIZE(m, ptr)) /\ Even(GET_SIZE(m, next))
      /\ next \in B => GET_SIZE(m, next) >= 2
      /\ \A b \in B : ptr < b /\ b < ptr + total => b = next
  BY <1>1, <1>2, FreeNext
<1>4. new_size \in Nat /\ Even(new_size) /\ new_size >= size + 2 /\ size \in Nat
  BY NewSize
<1>5. words \in Nat /\ Even(words) /\ words >= 4 /\ total + words >= new_size
  <2>1. CHUNKSIZE \in Nat /\ CHUNKSIZE >= 4 /\ Even(CHUNKSIZE)
    BY DEF AllocatorAssumption, Even
  <2>2. PICK k \in Nat : k = new_size - total
    BY <1>3, <1>4
  <2>3. Even(total)
    <3>1. total = GET_SIZE(m, ptr) + GET_SIZE(m, next)
      BY <1>1
    <3> QED
      BY <1>3, <3>1 DEF Even
  <2>4. Even(k) /\ total + k = new_size
    <3>1. total + k = new_size
      BY <1>3, <1>4, <2>2
    <3> QED
      BY <1>3, <1>4, <2>2, <2>3, <3>1 DEF Even
  <2>5. words = IF k > CHUNKSIZE THEN k ELSE CHUNKSIZE
    BY <2>2 DEF Larger
  <2> QED
    BY <1>3, <2>1, <2>4, <2>5
<1>6. PICK h1 : h1 = extend_heap(heap, words)
  OBVIOUS
<1>7. PICK C : Grows(heap, B, words, h1, C)
  BY <1>1, <1>5, <1>6, ExtendHeap
<1>8. /\ HeapOf(h1, C) /\ h1.brk = brk + words /\ Merged(h1.mem, C) /\ Keeps(m, B, h1.mem, C)
      /\ h1.last_bp \in C
  BY <1>1, <1>7 DEF Grows
<1>9. Sound(h1, C, owner)
  <2>1. MayAdd(heap, B, owner, words, h1, C)
    BY <1>1, <1>7 DEF MayAdd
  <2> QED
    BY <2>1, AddsSound
<1>10. RoverRight(h1.mem, C, h1.last_bp)
  BY <1>8, RoverAtBlock
<1>11. ptr \in InUse(h1.mem, C)
  BY <1>2, <1>8 DEF Keeps
<1>12. PICK more \in Nat : more = total + words /\ more > 0 /\ ptr + more = h1.brk
                           /\ more >= new_size
  <2>1. ptr + (total + words) = brk + words
    BY <1>3, <1>5
  <2> QED
    BY <1>3, <1>5, <1>8, <2>1
<1>13. ASSUME NEW b \in C, ptr < b, b < ptr + more  PROVE ~GET_ALLOC(h1.mem, b)
  <2> SUFFICES ASSUME GET_ALLOC(h1.mem, b)  PROVE FALSE
    OBVIOUS
  <2>1. ptr >= 2
    BY <1>1, <1>2 DEF Layout, Tiles
  <2>2. b # 2
    BY <1>3, <1>13, <2>1
  <2>3. b \in InUse(h1.mem, C)
    BY <2>2 DEF InUse
  <2>4. b \in InUse(m, B)
    BY <1>8, <2>3 DEF Keeps
  <2>5. b \in B /\ GET_ALLOC(m, b) /\ b < brk
    BY <1>1, <2>4 DEF InUse, Layout, Tiles
  <2>6. b = next
    BY <1>3, <1>13, <2>5
  <2> QED
    BY <1>1, <1>3, <2>5, <2>6
<1>14. heap' = [h1 EXCEPT !.mem = Written(PutBoth(@, ptr, more, TRUE), ptr)]
       /\ owner' = [owner EXCEPT ![ptr] = size] /\ intact' = TRUE
  BY <1>6, <1>12 DEF Grow
<1>15. PICK B1 : GrowsTo(h1, C, ptr, more, heap', B1)
  <2>1. ptr + more \in C \cup {h1.brk}
    BY <1>12
  <2>2. more \in Nat /\ more > 0
    BY <1>12
  <2> QED
    BY <1>8, <1>10, <1>11, <1>13, <1>14, <2>1, <2>2, GrowWorks
<1>16. MayHold(h1, C, owner, ptr, more, size, heap', B1)
  <2>1. more >= size + 2
    BY <1>4, <1>12
  <2> QED
    BY <1>4, <1>9, <1>15, <2>1 DEF MayHold
<1>17. Sound(heap', B1, owner')
  BY <1>14, <1>16, HoldsBlock
<1>18. heap'.last_bp \in 0 .. MAX_HEAP /\ Even(heap'.last_bp)
  <2>1. heap'.last_bp = h1.last_bp
    BY <1>15 DEF GrowsTo
  <2>2. h1.last_bp \in 0 .. MAX_HEAP /\ Even(h1.last_bp)
    BY <1>8, RoverIsEven
  <2> QED
    BY <2>1, <2>2
<1>19. DOMAIN owner' = DOMAIN owner /\ \A b \in DOMAIN owner' : owner'[b] \in Sizes
  BY <1>14, BeforeCall
<1> QED
  BY <1>14, <1>17, <1>18, <1>19, EstablishNext, NoNewBlock

\* mm_realloc(), the block moved to a new one.
LEMMA MoveStep ==
  ASSUME AllocatorAssumption, HeapInv, intact = TRUE, NEW ptr \in DOMAIN owner, NEW size \in Sizes,
         NEW new_size, new_size = adjusted(size) + BUFFER, heap.last_bp \in Blocks,
         intact' = intact,
         \/ malloc(heap, new_size).ptr = NULL /\ heap' = heap /\ owner' = owner
         \/ /\ malloc(heap, new_size).ptr # NULL
            /\ heap' = free(malloc(heap, new_size).heap, ptr)
            /\ owner' = Take(Give(malloc(heap, new_size).ptr, size), ptr)
  PROVE  HeapInv' /\ ExtendStep
<1>1. new_size \in Nat \ {0} /\ size \in Nat /\ size <= new_size
  BY NewSize
<1>2. /\ Sound(heap, Blocks, owner) /\ HeapOf(heap, Blocks) /\ Merged(heap.mem, Blocks)
      /\ heap.brk \in Nat /\ DOMAIN owner = InUse(heap.mem, Blocks)
      /\ \A b \in DOMAIN owner : owner[b] \in Sizes
  BY BeforeCall
<1>3. CASE malloc(heap, new_size).ptr = NULL
  <2>1. UNCHANGED heap_vars
    BY <1>3 DEF heap_vars
  <2> QED
    BY <2>1, Unchanged
<1>4. CASE malloc(heap, new_size).ptr # NULL
  <2>1. PICK new, g : new = malloc(heap, new_size).ptr /\ g = malloc(heap, new_size).heap
    OBVIOUS
  <2>2. PICK C : Mallocs(heap, Blocks, new_size, new, g, C)
    BY <1>1, <1>2, <1>4, <2>1, MallocWorks
  <2>3. MayGive(heap, Blocks, owner, new_size, size, new, g, C)
    BY <1>1, <1>2, <2>2 DEF MayGive
  <2>4. Gives(owner, size, new, g, C)
    BY <2>3, GivesBlock
  <2>5. PICK held : held = Gave(owner, new, size)
    OBVIOUS
  <2>6. Sound(g, C, held) /\ new \notin DOMAIN owner
    BY <2>4, <2>5 DEF Gives
  <2>7. DOMAIN held = DOMAIN owner \cup {new} /\ held[new] = size
        /\ \A b \in DOMAIN owner : held[b] = owner[b] \/ held[b] = size
    BY <2>5 DEF Gave
  <2>8. ptr \in DOMAIN held /\ ptr # new
    BY <2>6, <2>7
  <2>9. HeapOf(g, C) /\ Merged(g.mem, C) /\ ptr \in InUse(g.mem, C)
    BY <2>6, <2>8 DEF Sound
  <2>10. heap' = free(g, ptr) /\ owner' = Take(held, ptr)
    BY <1>4, <2>1, <2>5 DEF Give, Gave
  <2>11. PICK B1 : Frees(g, C, ptr, heap', B1)
    BY <2>9, <2>10, FreeWorks
  <2>12. MayTake(g, C, held, ptr, heap', B1)
    BY <2>6, <2>8, <2>11 DEF MayTake
  <2>13. Takes(held, ptr, heap', B1)
    BY <2>12, TakesBlock
  <2>14. Sound(heap', B1, owner') /\ heap'.last_bp \in 0 .. MAX_HEAP /\ Even(heap'.last_bp)
    BY <2>10, <2>13 DEF Takes
  <2>15. owner' = [b \in DOMAIN held \ {ptr} |-> held[b]]
    BY <2>10 DEF Take
  <2>16. \A b \in DOMAIN owner' : owner'[b] \in Sizes
    BY <1>2, <2>7, <2>15
  <2>17. HeapInv'
    BY <2>14, <2>16, EstablishNext
  <2>18. ExtendStep
    <3>1. heap'.brk = g.brk
      BY <2>11 DEF Frees
    <3>2. g.brk = heap.brk \/ \A b \in Blocks : ~Fits(heap.mem, b, adjusted(new_size))
      BY <2>2 DEF Mallocs
    <3>3. heap'.brk > heap.brk => \A b \in Blocks : ~Fits(heap.mem, b, adjusted(new_size))
      BY <1>2, <3>1, <3>2
    <3>4. ~(DOMAIN owner \subseteq DOMAIN owner')
      BY <2>15
    <3>5. \A p \in DOMAIN owner' \ DOMAIN owner : p = new /\ owner'[p] = size
      BY <2>7, <2>15
    <3> QED
      BY <3>3, <3>4, <3>5 DEF ExtendStep
  <2> QED
    BY <2>17, <2>18
<1> QED
  BY <1>3, <1>4

\* mm_realloc() of a block that is large enough.
LEMMA StayStep ==
  ASSUME AllocatorAssumption, HeapInv, intact = TRUE, NEW ptr \in DOMAIN owner, NEW size \in Sizes,
         GET_SIZE(heap.mem, ptr) >= adjusted(size) + BUFFER,
         owner' = [owner EXCEPT ![ptr] = size], heap' = heap, intact' = intact
  PROVE  HeapInv' /\ ExtendStep
<1>1. PICK m, brk, B : /\ m \in Memory /\ brk \in Nat
                      /\ m = heap.mem /\ brk = heap.brk /\ B = Blocks
                      /\ Layout(m, brk, B) /\ RoverRight(m, B, heap.last_bp)
                      /\ HeapOf(heap, B) /\ Merged(m, B)
                      /\ Sound(heap, B, owner) /\ DOMAIN owner = InUse(m, B)
  <2>1. /\ heap.mem \in Memory /\ heap.brk \in Nat /\ Layout(heap.mem, heap.brk, Blocks)
        /\ RoverRight(heap.mem, Blocks, heap.last_bp) /\ HeapOf(heap, Blocks)
        /\ Merged(heap.mem, Blocks) /\ Sound(heap, Blocks, owner)
        /\ DOMAIN owner = InUse(heap.mem, Blocks)
    BY BeforeCall
  <2> QED
    BY <2>1
<1>2. size \in Nat /\ GET_SIZE(m, ptr) \in Nat /\ GET_SIZE(m, ptr) >= size + 2
  <2>1. PICK n \in Nat : n = adjusted(size) + BUFFER /\ n >= size + 2 /\ size \in Nat
    BY NewSize
  <2>2. ptr \in B
    BY <1>1 DEF InUse
  <2>3. GET_SIZE(m, ptr) \in Nat
    BY <1>1, <2>2, BlockTypes
  <2> QED
    BY <1>1, <2>1, <2>3
<1>3. GrowsTo(heap, B, ptr, GET_SIZE(m, ptr), heap, B)
  BY <1>1 DEF GrowsTo
<1>4. MayHold(heap, B, owner, ptr, GET_SIZE(m, ptr), size, heap, B)
  BY <1>1, <1>2, <1>3 DEF MayHold
<1>5. Sound(heap', B, owner')
  BY <1>4, HoldsBlock
<1>6. heap'.last_bp \in 0 .. MAX_HEAP /\ Even(heap'.last_bp)
  BY BeforeCall
<1>7. DOMAIN owner' = DOMAIN owner /\ \A b \in DOMAIN owner' : owner'[b] \in Sizes
  BY BeforeCall
<1> QED
  BY <1>5, <1>6, <1>7, EstablishNext, NoNewBlock

LEMMA ReallocStep ==
  ASSUME AllocatorAssumption, HeapInv, NEW ptr \in DOMAIN owner, NEW size \in Sizes,
         mm_realloc(ptr, size)
  PROVE  HeapInv' /\ ExtendStep
<1> DEFINE m == heap.mem
           new_size == adjusted(size) + BUFFER
           next == NEXT_BLKP(m, ptr)
           total_size == GET_SIZE(m, ptr) + GET_SIZE(m, next)
           extendsize == Larger(new_size - total_size, CHUNKSIZE)
           last == NEXT_BLKP(m, next) = heap.brk
           r == malloc(heap, new_size)
<1>1. intact = TRUE
  BY DEF mm_realloc, HeapInv, HeapTypeOK
<1>2. CASE GET_SIZE(m, ptr) >= new_size
  <2>1. owner' = [owner EXCEPT ![ptr] = size] /\ heap' = heap /\ intact' = intact
    BY <1>2 DEF mm_realloc
  <2> QED
    BY <1>1, <1>2, <2>1, StayStep
<1>3. CASE ~(GET_SIZE(m, ptr) >= new_size)
  <2>1. \/ /\ ~GET_ALLOC(m, next) \/ GET_SIZE(m, next) = 0
           /\ \/ total_size >= new_size /\ Grow(heap, ptr, total_size, size)
              \/ /\ total_size < new_size /\ Room(heap, extendsize) /\ last
                 /\ Grow(extend_heap(heap, extendsize), ptr, total_size + extendsize, size)
              \/ Astray \/ UNCHANGED heap_vars
        \/ Astray
        \/ /\ heap.last_bp \in Blocks
           /\ IF r.ptr = NULL THEN UNCHANGED <<heap, owner>>
              ELSE /\ heap' = free(r.heap, ptr)
                   /\ owner' = Take(Give(r.ptr, size), ptr)
           /\ UNCHANGED intact
    <3> HIDE DEF m, new_size, next, total_size, extendsize, last, r
    <3> QED
      BY <1>3 DEF mm_realloc, m, new_size, next, total_size, extendsize, last, r
  <2>2. CASE Astray
    BY <2>2, AstrayStep
  <2>3. CASE UNCHANGED heap_vars
    BY <2>3, Unchanged
  <2>4. CASE /\ ~GET_ALLOC(m, next) \/ GET_SIZE(m, next) = 0
             /\ total_size >= new_size /\ Grow(heap, ptr, total_size, size)
    BY <1>1, <2>4, GrowStep
  <2>5. CASE /\ ~GET_ALLOC(m, next) \/ GET_SIZE(m, next) = 0
             /\ total_size < new_size /\ Room(heap, extendsize) /\ last
             /\ Grow(extend_heap(heap, extendsize), ptr, total_size + extendsize, size)
    BY <1>1, <2>5, ExtendGrowStep
  <2>6. CASE /\ heap.last_bp \in Blocks
             /\ IF r.ptr = NULL THEN UNCHANGED <<heap, owner>>
                ELSE /\ heap' = free(r.heap, ptr)
                     /\ owner' = Take(Give(r.ptr, size), ptr)
             /\ UNCHANGED intact
    <3>1. \/ r.ptr = NULL /\ heap' = heap /\ owner' = owner
          \/ /\ r.ptr # NULL
             /\ heap' = free(r.heap, ptr)
             /\ owner' = Take(Give(r.ptr, size), ptr)
      <4> HIDE DEF r
      <4> QED
        BY <2>6
    <3> QED
      BY <1>1, <2>6, <3>1, MoveStep
  <2> HIDE DEF m, new_size, next, total_size, extendsize, last, r
  <2> QED
    BY <2>1, <2>2, <2>3, <2>4, <2>5, <2>6
<1> QED
  BY <1>2, <1>3

LEMMA HeapStep ==
  ASSUME AllocatorAssumption, HeapInv, [HeapNext]_heap_vars
  PROVE  HeapInv' /\ ExtendStep
<1>1. CASE UNCHANGED heap_vars
  BY <1>1, Unchanged
<1>2. ASSUME NEW size \in Sizes, mm_malloc(size)
      PROVE  HeapInv' /\ ExtendStep
  BY <1>2, MallocStep
<1>3. ASSUME NEW ptr \in DOMAIN owner, mm_free(ptr)
      PROVE  HeapInv' /\ ExtendStep
  BY <1>3, FreeStep
<1>4. ASSUME NEW ptr \in DOMAIN owner, NEW size \in Sizes, mm_realloc(ptr, size)
      PROVE  HeapInv' /\ ExtendStep
  BY <1>4, ReallocStep
<1> QED
  BY <1>1, <1>2, <1>3, <1>4 DEF HeapNext

\* The invariant holds whatever clients call, in any order.
THEOREM HeapInvariant ==
  ASSUME AllocatorAssumption  PROVE HeapSpec => []HeapInv
<1>1. HeapInit => HeapInv
  BY InitHolds
<1>2. HeapInv /\ [HeapNext]_heap_vars => HeapInv'
  BY HeapStep
<1> QED
  BY <1>1, <1>2, PTL DEF HeapSpec

\* HeapRight: between any two calls the tags describe the heap from both
\* ends, no two free blocks are neighbours, and last_bp is in no free block.
THEOREM HeapIsRight ==
  ASSUME AllocatorAssumption  PROVE HeapSpec => []HeapRight
<1>1. HeapInv => HeapRight
  BY HeapInvGivesRight
<1> QED
  BY <1>1, HeapInvariant, PTL

\* Served: the allocated blocks are the clients', each as large as asked for.
THEOREM ClientsAreServed ==
  ASSUME AllocatorAssumption  PROVE HeapSpec => []Served
<1>1. HeapInv => Served
  BY HeapInvGivesRight
<1> QED
  BY <1>1, HeapInvariant, PTL

\* ExtendOnlyWhenFull: the next-fit search of find_fit() sees every block, so
\* that a call that extends the heap for a new block found no room in it.
THEOREM ExtendsOnlyWhenFull ==
  ASSUME AllocatorAssumption  PROVE HeapSpec => ExtendOnlyWhenFull
<1>1. HeapInv /\ [HeapNext]_heap_vars => [ExtendStep]_heap_vars
  BY HeapStep
<1>2. HeapSpec => [][ExtendStep]_heap_vars
  BY <1>1, HeapInvariant, PTL DEF HeapSpec
<1> QED
  BY <1>2 DEF ExtendStep, ExtendOnlyWhenFull
=============================================================================
