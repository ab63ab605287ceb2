----------------------------- MODULE EventServer -----------------------------
(***************************************************************************)
(* The event-driven stock server of CSE4100 Project_03/task_1: the loop    *)
(* around select() in stockserver.c, its pool of clients, and the clients  *)
(* of multiclient.c and stockclient.c, which wait for an answer before     *)
(* they send again.  A connection is named by its client.                  *)
(*                                                                         *)
(* One stock is kept, and every buy and sell is of one share.  fopen() of  *)
(* stock.txt succeeds (StockSession has its failure).  MAX_COUNT bounds    *)
(* the shares that clients sell.                                           *)
(***************************************************************************)
EXTENDS Integers, Sequences, FiniteSetsExt

CONSTANTS Clients, listenfd, None,
          FD_SETSIZE,              \* slots of the pool
          MAX_COUNT

ASSUME EventAssumption ==
  /\ IsFiniteSet(Clients) /\ {listenfd, None} \cap Clients = {}
  /\ FD_SETSIZE \in Nat \ {0} /\ MAX_COUNT \in Nat

VARIABLES
  status,      \* "up", or how the process ended: "sigint" or "failed"
  pc,          \* "select", "accept", "check", in write_stock() "open" and "print",
               \* and "sigint" in that of the handler
  i,           \* check_clients()'s local i
  clientfd, maxi, read_set, ready_set, nready,   \* the pool
  client_cnt,
  count,       \* the tree
  file,        \* stock.txt, -1 when it is truncated
  backlog,     \* the connections that wait for accept(), in their order
  inbox,       \* the lines that have arrived on each connection
  client       \* "out", "open", "sent" (waits for its answer), "closed", "reset"

pool == <<clientfd, maxi, read_set>>
round == <<ready_set, nready>>
vars == <<status, pc, i, pool, round, client_cnt, count, file, backlog, inbox, client>>

Slots == 0 .. FD_SETSIZE - 1
Waiting == {backlog[k] : k \in DOMAIN backlog}
Requests == {"show", "buy", "sell", "exit", "other", "nosuch"}

-----------------------------------------------------------------------------
init_pool ==
  /\ clientfd = [s \in Slots |-> None] /\ maxi = -1
  /\ read_set = {listenfd} /\ ready_set = {} /\ nready = 0

Init ==
  /\ status = "up" /\ pc = "select" /\ i = 0
  /\ init_pool /\ client_cnt = 0
  /\ count \in 0 .. MAX_COUNT /\ file = count
  /\ backlog = <<>> /\ inbox = [c \in Clients |-> <<>>]
  /\ client = [c \in Clients |-> "out"]

At(l) == status = "up" /\ pc = l

\* exit() in the server: its variables and its connections are gone.
Ends(how) ==
  /\ status' = how /\ pc' = "select" /\ i' = 0
  /\ clientfd' = [s \in Slots |-> None] /\ maxi' = -1
  /\ read_set' = {listenfd} /\ ready_set' = {} /\ nready' = 0
  /\ client_cnt' = 0
  /\ backlog' = <<>> /\ inbox' = [c \in Clients |-> <<>>]
  /\ client' = [c \in Clients |-> "out"]

-----------------------------------------------------------------------------
(* The main loop *)

Readable(fd) ==
  IF fd = listenfd THEN backlog # <<>> ELSE inbox[fd] # <<>> \/ client[fd] \in {"closed", "reset"}

\* Variant: the clients are served before a connection is accepted.
Select_Busy ==
  /\ At("select")
  /\ LET ready == {fd \in read_set : Readable(fd)}
     IN  ready_set' = IF ready = {listenfd} THEN ready ELSE ready \ {listenfd}
  /\ ready_set' # {}
  /\ nready' = Cardinality(ready_set')
  /\ pc' = "accept"
  /\ UNCHANGED <<status, i, pool, client_cnt, count, file, backlog, inbox, client>>

Select ==
  /\ At("select")
  /\ ready_set' = {fd \in read_set : Readable(fd)}
  /\ ready_set' # {}
  /\ nready' = Cardinality(ready_set')
  /\ pc' = "accept"
  /\ UNCHANGED <<status, i, pool, client_cnt, count, file, backlog, inbox, client>>

FreeSlots == {s \in Slots : clientfd[s] = None}

\* Variant: maxi is the slot used last.
add_client_Maxi(c) ==
  LET s == Min(FreeSlots)
  IN  /\ clientfd' = [clientfd EXCEPT ![s] = c]
      /\ maxi' = s
      /\ read_set' = read_set \cup {c}
      /\ client_cnt' = client_cnt + 1

add_client(c) ==
  LET s == Min(FreeSlots)
  IN  /\ clientfd' = [clientfd EXCEPT ![s] = c]
      /\ maxi' = IF s > maxi THEN s ELSE maxi
      /\ read_set' = read_set \cup {c}
      /\ client_cnt' = client_cnt + 1

\* Variant: listenfd stays in the count of ready descriptors.
Accept_Ready(c) ==
  /\ At("accept") /\ listenfd \in ready_set /\ FreeSlots # {}
  /\ backlog # <<>> /\ c = Head(backlog) /\ backlog' = Tail(backlog)
  /\ add_client(c)
  /\ pc' = "check"
  /\ UNCHANGED <<status, i, ready_set, nready, count, file, inbox, client>>

Accept(c) ==
  /\ At("accept") /\ listenfd \in ready_set /\ FreeSlots # {}
  /\ backlog # <<>> /\ c = Head(backlog) /\ backlog' = Tail(backlog)
  /\ nready' = nready - 1
  /\ add_client(c)
  /\ pc' = "check"
  /\ UNCHANGED <<status, i, ready_set, count, file, inbox, client>>

\* Accept() fails, as it does when the process has no descriptor left (with
\* the usual limit of 1024 before the pool is full), or the pool is full.
AcceptFails ==
  /\ At("accept") /\ listenfd \in ready_set
  /\ Ends("failed")
  /\ UNCHANGED <<count, file>>

NoAccept ==
  /\ At("accept") /\ listenfd \notin ready_set
  /\ pc' = "check"
  /\ UNCHANGED <<status, i, pool, round, client_cnt, count, file, backlog, inbox, client>>

-----------------------------------------------------------------------------
(* check_clients() *)

Looping == At("check") /\ i <= maxi /\ nready > 0

NotReady ==
  /\ Looping /\ clientfd[i] \notin ready_set
  /\ i' = i + 1
  /\ UNCHANGED <<status, pc, pool, round, client_cnt, count, file, backlog, inbox, client>>

\* i and ready_set have no further use.
EndOfRound ==
  /\ At("check") /\ ~Looping
  /\ pc' = "select" /\ i' = 0 /\ ready_set' = {}
  /\ UNCHANGED <<status, pool, nready, client_cnt, count, file, backlog, inbox, client>>

\* rio is a copy of the client's buffer: what was read behind the first line
\* is lost with the copy.
Rest(lines) == <<>>

\* The turn of a client that is ready and has sent a line.  The request of one
\* that has gone meanwhile is carried out too.
Turn(c, request) ==
  /\ Looping /\ clientfd[i] = c /\ c \in ready_set
  /\ inbox[c] # <<>> /\ Head(inbox[c]) = request
  /\ inbox' = [inbox EXCEPT ![c] = Rest(@)]
  /\ nready' = nready - 1 /\ i' = i + 1

Answer(c) == client' = [client EXCEPT ![c] = IF @ = "sent" THEN "open" ELSE @]

Show(c) ==
  /\ Turn(c, "show")
  /\ Answer(c)
  /\ UNCHANGED <<status, pc, pool, ready_set, client_cnt, count, file, backlog>>

Buy(c) ==
  /\ Turn(c, "buy")
  /\ count' = IF count >= 1 THEN count - 1 ELSE count
  /\ Answer(c)
  /\ UNCHANGED <<status, pc, pool, ready_set, client_cnt, file, backlog>>

Sell(c) ==
  /\ Turn(c, "sell")
  /\ count' = count + 1
  /\ Answer(c)
  /\ UNCHANGED <<status, pc, pool, ready_set, client_cnt, file, backlog>>

\* A line that is no request is not answered.
Other(c) ==
  /\ Turn(c, "other")
  /\ UNCHANGED <<status, pc, pool, ready_set, client_cnt, count, file, backlog, client>>

\* Variant: saves when one client is left.
Hangup_Early(c) ==
  /\ clientfd' = [clientfd EXCEPT ![i] = None]
  /\ read_set' = read_set \ {c}
  /\ client_cnt' = client_cnt - 1
  /\ pc' = IF client_cnt = 2 THEN "open" ELSE pc
  /\ client' = [client EXCEPT ![c] = "out"]
  /\ UNCHANGED <<status, maxi, ready_set, count, file, backlog>>

\* Close(), FD_CLR() and the end of the client's turn; the last client to go
\* makes the server save.
Hangup(c) ==
  /\ clientfd' = [clientfd EXCEPT ![i] = None]
  /\ read_set' = read_set \ {c}
  /\ client_cnt' = client_cnt - 1
  /\ pc' = IF client_cnt' = 0 THEN "open" ELSE pc
  /\ client' = [client EXCEPT ![c] = "out"]
  /\ UNCHANGED <<status, maxi, ready_set, count, file, backlog>>

Exit(c) == Turn(c, "exit") /\ Hangup(c)

EndOfFile(c) ==
  /\ Looping /\ clientfd[i] = c /\ c \in ready_set
  /\ inbox[c] = <<>> /\ client[c] \in {"closed", "reset"}
  /\ nready' = nready - 1 /\ i' = i + 1
  /\ Hangup(c)
  /\ UNCHANGED inbox

\* An unknown stock, or an error of read() or write(): exit(0) without a save.
Fails(c) ==
  /\ Looping /\ clientfd[i] = c /\ c \in ready_set
  /\ client[c] = "reset" \/ (inbox[c] # <<>> /\ Head(inbox[c]) = "nosuch")
  /\ Ends("failed")
  /\ UNCHANGED <<count, file>>

Open ==
  /\ At("open")
  /\ file' = -1 /\ pc' = "print"
  /\ UNCHANGED <<status, i, pool, round, client_cnt, count, backlog, inbox, client>>

print_tree ==
  /\ At("print")
  /\ file' = count /\ pc' = "check"
  /\ UNCHANGED <<status, i, pool, round, client_cnt, count, backlog, inbox, client>>

\* The handler may interrupt the loop anywhere, and write_stock() too; it opens
\* stock.txt again.
sigint_handler ==
  /\ status = "up" /\ pc # "sigint"
  /\ file' = -1 /\ pc' = "sigint"
  /\ UNCHANGED <<status, i, pool, round, client_cnt, count, backlog, inbox, client>>

\* The loop does not go on before the handler exits, and the stream of the loop
\* that exit() flushes holds lines of the same tree.
HandlerExits ==
  /\ At("sigint")
  /\ file' = count
  /\ Ends("sigint")
  /\ UNCHANGED count

\* The server is started again, and reads stock.txt.
Restart ==
  /\ status # "up"
  /\ status' = "up" /\ count' = file
  /\ UNCHANGED <<pc, i, pool, round, client_cnt, file, backlog, inbox, client>>

-----------------------------------------------------------------------------
(* The clients *)

Connect(c) ==
  /\ status = "up" /\ client[c] = "out"
  /\ client' = [client EXCEPT ![c] = "open"]
  /\ backlog' = Append(backlog, c)
  /\ UNCHANGED <<status, pc, i, pool, round, client_cnt, count, file, inbox>>

Sells == {c \in Clients : \E k \in DOMAIN inbox[c] : inbox[c][k] = "sell"}

\* Variant: a client that sends a second line before its answer.
Send_Ahead(c, request) ==
  /\ client[c] \in {"open", "sent"} /\ Len(inbox[c]) < 2
  /\ request = "sell" => count + Cardinality(Sells) < MAX_COUNT
  /\ client' = [client EXCEPT ![c] = "sent"]
  /\ inbox' = [inbox EXCEPT ![c] = Append(@, request)]
  /\ UNCHANGED <<status, pc, i, pool, round, client_cnt, count, file, backlog>>

Send(c, request) ==
  /\ client[c] = "open"
  /\ request = "sell" => count + Cardinality(Sells) < MAX_COUNT
  /\ client' = [client EXCEPT ![c] = "sent"]
  /\ inbox' = [inbox EXCEPT ![c] = Append(@, request)]
  /\ UNCHANGED <<status, pc, i, pool, round, client_cnt, count, file, backlog>>

Close(c) ==
  /\ client[c] = "open"
  /\ client' = [client EXCEPT ![c] = "closed"]
  /\ UNCHANGED <<status, pc, i, pool, round, client_cnt, count, file, backlog, inbox>>

\* A client that is killed: the server reads the end of the file or an error.
Killed(c) ==
  /\ client[c] \in {"open", "sent"}
  /\ client' = [client EXCEPT ![c] = "reset"]
  /\ UNCHANGED <<status, pc, i, pool, round, client_cnt, count, file, backlog, inbox>>

-----------------------------------------------------------------------------
Server ==
  \/ Select \/ NoAccept \/ NotReady \/ EndOfRound \/ Open \/ print_tree
  \/ AcceptFails \/ HandlerExits
  \/ \E c \in Clients : \/ Accept(c) \/ Show(c) \/ Buy(c) \/ Sell(c) \/ Other(c)
                        \/ Exit(c) \/ EndOfFile(c) \/ Fails(c)

Next ==
  \/ Server \/ sigint_handler \/ Restart
  \/ \E c \in Clients : \/ Connect(c) \/ Close(c) \/ Killed(c)
                        \/ \E request \in Requests : Send(c, request)

\* The kernel runs the server; a client may stop at any point.
Spec == Init /\ [][Next]_vars /\ WF_vars(Server)
=============================================================================
