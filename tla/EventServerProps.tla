-------------------------- MODULE EventServerProps --------------------------
(* The correctness properties of module EventServer. *)
EXTENDS EventServer

\* Type invariant: the descriptors of the pool are clients, and what is left of
\* nready is never below zero.
TypeOK ==
  /\ status \in {"up", "sigint", "failed"}
  /\ pc \in {"select", "accept", "check", "open", "print", "sigint"}
  /\ i \in 0 .. FD_SETSIZE /\ maxi \in -1 .. FD_SETSIZE - 1
  /\ clientfd \in [Slots -> Clients \cup {None}]
  /\ read_set \cup ready_set \subseteq Clients \cup {listenfd}
  /\ {nready, client_cnt} \subseteq 0 .. Cardinality(Clients) + 1
  /\ count \in 0 .. MAX_COUNT /\ file \in -1 .. MAX_COUNT
  /\ backlog \in Seq(Clients)
  /\ \A c \in Clients : inbox[c] \in Seq(Requests)
  /\ client \in [Clients -> {"out", "open", "sent", "closed", "reset"}]

(* The five parts of the pool agree after any sequence of connections and  *)
(* departures: select() watches exactly the connections that have a slot,  *)
(* each has one slot, none beyond maxi, and client_cnt is their number     *)
(* (add_client() and the two exits of check_clients()).                    *)
PoolRight ==
  /\ TypeOK
  /\ status = "up" =>
       LET used == {s \in Slots : clientfd[s] # None}
       IN  /\ read_set = {listenfd} \cup {clientfd[s] : s \in used}
           /\ client_cnt = Cardinality(used)
           /\ Cardinality(read_set) = client_cnt + 1
           /\ \A s \in used : s <= maxi

(* Every descriptor that select() reported has been dealt with when it is  *)
(* called again: nready counts down to zero exactly, although it is        *)
(* decremented in two functions and ends the loop of check_clients().      *)
RoundComplete == status = "up" /\ pc = "select" => nready = 0

(* When no client is connected, stock.txt is the tree: the last client to  *)
(* leave, by "exit" or by closing, has made the server save every trade.   *)
SavedWhenQuiet ==
  status = "up" /\ pc \in {"select", "accept"} /\ client_cnt = 0 => file = count

(* SIGINT saves every trade that was answered, also when it interrupts a   *)
(* save and the loop has emptied the file, and no way the server ends      *)
(* leaves stock.txt truncated.                                             *)
EndSaves ==
  /\ status = "sigint" => file = count
  /\ status = "failed" => file # -1

(* stock.txt has every trade whenever somebody may rely on it: when nobody *)
(* is connected, and when the server has ended.                            *)
FileSaved == SavedWhenQuiet /\ EndSaves

(* A client is answered: the loop comes round to it, and its line is not   *)
(* lost with the copy of rio_t that was read into (line 133), because it   *)
(* sends no second line before the answer to the first.                    *)
Answered ==
  \A c \in Clients :
    (client[c] = "sent" /\ inbox[c] # <<>> /\ inbox[c][Len(inbox[c])] \in {"show", "buy", "sell", "exit"})
      ~> client[c] # "sent"

(* A connection is accepted, or ends with the server, even though only one *)
(* is accepted in a round and every round serves the clients it has.       *)
Accepted == \A c \in Clients : c \in Waiting ~> c \notin Waiting
=============================================================================
