---------------------------- MODULE NetworkServer ----------------------------
(***************************************************************************)
(* One server process of source/network_server.c: the accept loop of the   *)
(* main thread (network_main_loop), a detached client_thread for each      *)
(* connection, the table of clients with its counter, and the end of the   *)
(* process (list_server.c, network_server_close).                          *)
(*                                                                         *)
(* Sections under lock_num_clients in which nobody waits are one step, and *)
(* so is a line of the log with the code next to it: the log's inside is   *)
(* module ServerLog.  What the chain does with a write is module           *)
(* ChainServer; here it is a call to another server, which returns, fails  *)
(* or never comes back, with rls_lock held: by client_thread for a         *)
(* forward, by the callback thread for the connection update makes.        *)
(*                                                                         *)
(* Every access to a thing that is destroyed already leaves the thread in  *)
(* the place "undefined", where nothing more is said of it.                *)
(***************************************************************************)
EXTENDS Integers, FiniteSets

CONSTANTS
  NULL,
  Zk,           \* the callback thread of ZooKeeper
  Conns,        \* the connections that clients may open, each of them once
  MaxClients,   \* NUM_MAX_CLIENTS
  MaxInputs,    \* bound: requests of all clients and changes of /chain
  MaxSignals,   \* bound: how often SIGINT arrives
  MayFail       \* whether accept, pthread_create and the log may fail

ASSUME NetworkAssumption ==
  /\ NULL \notin Conns /\ Zk \notin Conns \cup {NULL}
  /\ IsFiniteSet(Conns)
  /\ MaxClients \in Nat \ {0}
  /\ MaxInputs \in Nat /\ MaxSignals \in Nat
  /\ MayFail \in BOOLEAN

Slots == 1 .. MaxClients

VARIABLES
  main,         \* where the main thread is
  cur,          \* the connection it has accepted
  shutdown,     \* server_shutdown
  backlog,      \* connections that wait for accept
  num_clients,
  client_list,  \* the connection of each slot, or NULL
  slotless,     \* history: the threads that found no free slot
  lock_list,    \* the thread that holds lock_list, or NULL
  rls_lock,     \* the thread that holds rls_lock, or NULL
  upd,          \* where the callback thread is
  thr,          \* where the client_thread of each connection is
  eintr,        \* the threads whose errno is EINTR from an earlier read
  shut,         \* connections that network_server_close has shut down
  client,       \* what each client sees of its connection
  req,          \* the request sent on each connection and not yet answered
  inputs,       \* how many requests and changes of /chain there have been
  signals       \* how many signals there have been

table == <<num_clients, client_list, slotless>>
chain == <<rls_lock, upd>>
environment == <<inputs, signals>>
vars == <<main, cur, shutdown, backlog, table, lock_list, chain, thr, eintr,
          shut, client, req, environment>>

Running == main # "exited"
Looping == main \in {"test", "accept", "check", "create", "ready"}

Occupied == {x \in Slots : client_list[x] # NULL}

-----------------------------------------------------------------------------
(* network_server_init has opened the socket.                              *)
Init ==
  /\ main = "test" /\ cur = NULL /\ shutdown = FALSE
  /\ backlog = {}
  /\ num_clients = 0
  /\ client_list = [x \in Slots |-> NULL]
  /\ slotless = {}
  /\ lock_list = NULL /\ rls_lock = NULL /\ upd = "idle"
  /\ thr = [c \in Conns |-> "none"]
  /\ eintr = {} /\ shut = {}
  /\ client = [c \in Conns |-> "new"]
  /\ req = [c \in Conns |-> "none"]
  /\ inputs = 0 /\ signals = 0

-----------------------------------------------------------------------------
(* network_main_loop *)

TestShutdown ==
  /\ main = "test"
  /\ main' = IF shutdown THEN "clean" ELSE "accept"
  /\ UNCHANGED <<cur, shutdown, backlog, table, lock_list, chain, thr, eintr,
                 shut, client, req, environment>>

(* A connection that arrives after the signal ends the loop, unanswered. *)
Accept(c) ==
  /\ main = "accept" /\ c \in backlog
  /\ backlog' = backlog \ {c}
  /\ cur' = c
  /\ main' = IF shutdown THEN "clean" ELSE "check"
  /\ UNCHANGED <<shutdown, table, lock_list, chain, thr, eintr, shut, client,
                 req, environment>>

(* An error of accept other than EINTR ends the loop without the signal. *)
AcceptFails ==
  /\ main = "accept" /\ MayFail
  /\ main' = "clean"
  /\ UNCHANGED <<cur, shutdown, backlog, table, lock_list, chain, thr, eintr,
                 shut, client, req, environment>>

(* OP_BUSY and the end of the connection. *)
RefuseCur ==
  /\ client' = [client EXCEPT ![cur] = IF @ = "wait" THEN "busy" ELSE @]
  /\ main' = "test"
  /\ cur' = NULL

(* Mutant: the limit is one too low. *)
CheckLimitOffByOne ==
  /\ main = "check"
  /\ \/ /\ num_clients >= MaxClients - 1
        /\ RefuseCur
     \/ /\ num_clients < MaxClients - 1
        /\ main' = "create"
        /\ UNCHANGED <<cur, client>>
  /\ UNCHANGED <<shutdown, backlog, table, lock_list, chain, thr, eintr, shut,
                 req, environment>>

CheckLimit ==
  /\ main = "check"
  /\ \/ /\ num_clients >= MaxClients
        /\ RefuseCur
     \/ /\ num_clients < MaxClients
        /\ main' = "create"
        /\ UNCHANGED <<cur, client>>
  /\ UNCHANGED <<shutdown, backlog, table, lock_list, chain, thr, eintr, shut,
                 req, environment>>

(* Mutant: the failure leaves the connection without an answer. *)
CreateThreadKeepsQuiet ==
  /\ main = "create"
  /\ \/ /\ thr' = [thr EXCEPT ![cur] = "start"]
        /\ main' = "ready"
        /\ UNCHANGED cur
     \/ /\ MayFail
        /\ main' = "test" /\ cur' = NULL
        /\ UNCHANGED thr
  /\ UNCHANGED <<shutdown, backlog, table, lock_list, chain, eintr, shut,
                 client, req, environment>>

CreateThread ==
  /\ main = "create"
  /\ \/ /\ thr' = [thr EXCEPT ![cur] = "start"]
        /\ main' = "ready"
        /\ UNCHANGED <<cur, client>>
     \/ /\ MayFail
        /\ RefuseCur
        /\ UNCHANGED thr
  /\ UNCHANGED <<shutdown, backlog, table, lock_list, chain, eintr, shut, req,
                 environment>>

(* The thread runs already and may have closed the socket: READY is lost   *)
(* then.                                                                   *)
SendReady ==
  /\ main = "ready"
  /\ client' = [client EXCEPT ![cur] = IF @ = "wait" THEN "ready" ELSE @]
  /\ main' = "test"
  /\ cur' = NULL
  /\ UNCHANGED <<shutdown, backlog, table, lock_list, chain, thr, eintr, shut,
                 req, environment>>

(***************************************************************************)
(* SIGINT sets server_shutdown in whatever thread it arrives.  It wakes up *)
(* accept in the main thread only, and only if it is not too early, after  *)
(* the loop's test but before the call.  read_all in a client thread takes *)
(* EINTR as a reason to read again, and leaves it in errno.                *)
(***************************************************************************)
SignalMain ==
  /\ Running /\ signals < MaxSignals
  /\ signals' = signals + 1
  /\ shutdown' = TRUE
  /\ \/ main' = main
     \/ main = "accept" /\ main' = "clean"
  /\ UNCHANGED <<cur, backlog, table, lock_list, chain, thr, eintr, shut,
                 client, req, inputs>>

SignalThread(c) ==
  /\ Running /\ signals < MaxSignals
  /\ thr[c] \notin {"none", "ended", "undefined"}
  /\ signals' = signals + 1
  /\ shutdown' = TRUE
  /\ eintr' = IF thr[c] \in {"recv", "sent"} THEN eintr \cup {c} ELSE eintr
  /\ UNCHANGED <<main, cur, backlog, table, lock_list, chain, thr, shut,
                 client, req, inputs>>

-----------------------------------------------------------------------------
(* client_thread *)

(* What the main thread has destroyed by now. *)
destroyed ==
  IF main \in {"shut", "unlock", "log", "return"}
    THEN {"list"} \cup (IF main \in {"log", "return"} THEN {"lock_list"} ELSE {})
                 \cup (IF main = "return" THEN {"log"} ELSE {})
    ELSE {}

(* Thread c goes on to pc, unless it needs something that is destroyed. *)
Goes(c, pc, needs) ==
  thr' = [thr EXCEPT ![c] =
            IF needs \cap destroyed = {} THEN pc ELSE "undefined"]

(* Mutant: num_clients counts the thread whether it found a slot or not. *)
EnterCountsAlways(c) ==
  /\ Running /\ thr[c] = "start"
  /\ \/ /\ Occupied # Slots
        /\ \E x \in Slots \ Occupied :
             /\ \A y \in 1 .. x - 1 : y \in Occupied
             /\ client_list' = [client_list EXCEPT ![x] = c]
        /\ UNCHANGED slotless
     \/ /\ Occupied = Slots
        /\ slotless' = slotless \cup {c}
        /\ UNCHANGED client_list
  /\ num_clients' = num_clients + 1
  /\ Goes(c, "test", {"log"})
  /\ UNCHANGED <<main, cur, shutdown, backlog, lock_list, chain, eintr, shut,
                 client, req, environment>>

(* The first free slot is taken, the CONNECT line logged.  The thread runs *)
(* without a slot, and is not counted, if there is none.                   *)
Enter(c) ==
  /\ Running /\ thr[c] = "start"
  /\ \/ /\ \E x \in Slots \ Occupied :
             /\ \A y \in 1 .. x - 1 : y \in Occupied
             /\ client_list' = [client_list EXCEPT ![x] = c]
        /\ num_clients' = num_clients + 1
        /\ UNCHANGED slotless
     \/ /\ Occupied = Slots
        /\ slotless' = slotless \cup {c}
        /\ UNCHANGED <<num_clients, client_list>>
  /\ Goes(c, "test", {"log"})
  /\ UNCHANGED <<main, cur, shutdown, backlog, lock_list, chain, eintr, shut,
                 client, req, environment>>

ThreadTests(c) ==
  /\ Running /\ thr[c] = "test"
  /\ Goes(c, IF shutdown THEN "hangup" ELSE "recv", {})
  /\ UNCHANGED <<main, cur, shutdown, backlog, table, lock_list, chain, eintr,
                 shut, client, req, environment>>

(* network_receive and the REQUEST line.  A request is received whatever   *)
(* became of its client, if it has arrived.  At the end of the stream read *)
(* returns 0 and leaves errno alone: a thread that still has EINTR there   *)
(* reads for ever.                                                         *)
Receive(c) ==
  /\ Running /\ thr[c] = "recv"
  /\ \/ /\ req[c] # "none"
        /\ Goes(c, "lock", {"log"})
        /\ UNCHANGED req
     \/ /\ client[c] = "gone" \/ c \in shut
        /\ req' = [req EXCEPT ![c] = "none"]
        /\ \/ Goes(c, "hangup", {})
           \/ c \in eintr /\ Goes(c, "spin", {})
  /\ UNCHANGED <<main, cur, shutdown, backlog, table, lock_list, chain, eintr,
                 shut, client, environment>>

(* A write keeps lock_list over the forward; a read runs invoke at once. *)
TakeListLock(c) ==
  /\ Running /\ thr[c] = "lock" /\ lock_list = NULL
  /\ \/ /\ req[c] = "write"
        /\ lock_list' = c
        /\ Goes(c, "fwd", {"lock_list"})
     \/ /\ req[c] = "read"
        /\ UNCHANGED lock_list
        /\ Goes(c, "send", {"lock_list", "list"})
  /\ UNCHANGED <<main, cur, shutdown, backlog, table, chain, eintr, shut,
                 client, req, environment>>

(* zoo_forward_to_successor: without a successor the write is applied,     *)
(* with one it is sent on and rls_lock kept.                               *)
Forward(c) ==
  /\ Running /\ thr[c] = "fwd" /\ rls_lock = NULL
  /\ \/ Goes(c, "apply", {}) /\ UNCHANGED rls_lock
     \/ Goes(c, "sent", {}) /\ rls_lock' = c
  /\ UNCHANGED <<main, cur, shutdown, backlog, table, lock_list, upd, eintr,
                 shut, client, req, environment>>

(* The successor has answered, or the connection to it is gone. *)
ForwardReturns(c) ==
  /\ Running /\ thr[c] = "sent"
  /\ \/ Goes(c, "apply", {}) /\ rls_lock' = NULL
     \/ Goes(c, "refuse", {}) /\ rls_lock' = NULL
     \/ c \in eintr /\ Goes(c, "spin", {}) /\ UNCHANGED rls_lock
  /\ UNCHANGED <<main, cur, shutdown, backlog, table, lock_list, upd, eintr,
                 shut, client, req, environment>>

(* Mutant: a write that is refused leaves without unlocking. *)
FinishWriteKeepsLock(c) ==
  /\ Running /\ thr[c] \in {"apply", "refuse"}
  /\ lock_list' = IF thr[c] = "apply" THEN NULL ELSE lock_list
  /\ Goes(c, "send",
          {"lock_list"} \cup IF thr[c] = "apply" THEN {"list"} ELSE {})
  /\ UNCHANGED <<main, cur, shutdown, backlog, table, chain, eintr, shut,
                 client, req, environment>>

FinishWrite(c) ==
  /\ Running /\ thr[c] \in {"apply", "refuse"}
  /\ lock_list' = NULL
  /\ Goes(c, "send",
          {"lock_list"} \cup IF thr[c] = "apply" THEN {"list"} ELSE {})
  /\ UNCHANGED <<main, cur, shutdown, backlog, table, chain, eintr, shut,
                 client, req, environment>>

(* network_send; the answer may be too long for a message. *)
Send(c) ==
  /\ Running /\ thr[c] = "send"
  /\ \/ /\ client[c] \in {"read", "write"} /\ c \notin shut
        /\ client' = [client EXCEPT ![c] = "ready"]
        /\ Goes(c, "test", {})
     \/ /\ client[c] = "gone" /\ c \notin shut
        /\ Goes(c, "test", {}) /\ UNCHANGED client
     \/ /\ client[c] = "gone" \/ req[c] = "read" \/ c \in shut
        /\ Goes(c, "hangup", {}) /\ UNCHANGED client
  /\ req' = [req EXCEPT ![c] = "none"]
  /\ UNCHANGED <<main, cur, shutdown, backlog, table, lock_list, chain, eintr,
                 shut, environment>>

(* The CLOSE line and the end of the connection. *)
Hangup(c) ==
  /\ Running /\ thr[c] = "hangup"
  /\ Goes(c, "leave", {"log"})
  /\ client' = [client EXCEPT ![c] = "lost"]
  /\ UNCHANGED <<main, cur, shutdown, backlog, table, lock_list, chain, eintr,
                 shut, req, environment>>

(* Mutant: the slot is not given back. *)
LeaveKeepsSlot(c) ==
  /\ Running /\ thr[c] = "leave"
  /\ num_clients' = num_clients - 1
  /\ Goes(c, "ended", {})
  /\ UNCHANGED <<main, cur, shutdown, backlog, client_list, slotless,
                 lock_list, chain, eintr, shut, client, req, environment>>

(* Mutant: the thread ends without counting down. *)
LeaveKeepsCount(c) ==
  /\ Running /\ thr[c] = "leave"
  /\ client_list' = [x \in Slots |->
                       IF client_list[x] = c THEN NULL ELSE client_list[x]]
  /\ Goes(c, "ended", {})
  /\ UNCHANGED <<main, cur, shutdown, backlog, num_clients, slotless,
                 lock_list, chain, eintr, shut, client, req, environment>>

(* The counter goes down for every thread, the slot only if it had one. *)
Leave(c) ==
  /\ Running /\ thr[c] = "leave"
  /\ num_clients' = num_clients - 1
  /\ client_list' = [x \in Slots |->
                       IF client_list[x] = c THEN NULL ELSE client_list[x]]
  /\ Goes(c, "ended", {})
  /\ eintr' = eintr \ {c}
  /\ UNCHANGED <<main, cur, shutdown, backlog, slotless, lock_list, chain,
                 shut, client, req, environment>>

-----------------------------------------------------------------------------
(* The callback thread: child_watcher and update in chain_server.c         *)

(* /chain has changed; nobody is told any more once the session closes. *)
ChildWatcher ==
  /\ Looping \/ main = "clean"
  /\ upd = "idle" /\ inputs < MaxInputs
  /\ upd' = "lock"
  /\ inputs' = inputs + 1
  /\ UNCHANGED <<main, cur, shutdown, backlog, table, lock_list, rls_lock, thr,
                 eintr, shut, client, req, signals>>

(* update drops the link.  It is done if there is no next server or its    *)
(* znode is gone; else it connects, and keeps rls_lock meanwhile.          *)
UpdateLocks ==
  /\ Running /\ upd = "lock" /\ rls_lock = NULL
  /\ \/ upd' = "idle" /\ UNCHANGED rls_lock
     \/ upd' = "conn" /\ rls_lock' = Zk
  /\ UNCHANGED <<main, cur, shutdown, backlog, table, lock_list, thr, eintr,
                 shut, client, req, environment>>

(* rlist_connect has an answer, or an error. *)
UpdateReturns ==
  /\ Running /\ upd = "conn"
  /\ upd' = "idle"
  /\ rls_lock' = NULL
  /\ UNCHANGED <<main, cur, shutdown, backlog, table, lock_list, thr, eintr,
                 shut, client, req, environment>>

-----------------------------------------------------------------------------
(* The end of main in list_server.c *)

(* zoo_clean_server waits for rls_lock, which a forward or update holds, *)
(* and drops the link.                                                   *)
CleanChain ==
  /\ main = "clean" /\ rls_lock = NULL
  /\ main' = "zkclose"
  /\ UNCHANGED <<cur, shutdown, backlog, table, lock_list, chain, thr, eintr,
                 shut, client, req, environment>>

(* zookeeper_close waits for the callback thread. *)
CloseSession ==
  /\ main = "zkclose" /\ upd = "idle"
  /\ main' = "free"
  /\ UNCHANGED <<cur, shutdown, backlog, table, lock_list, chain, thr, eintr,
                 shut, client, req, environment>>

(* list_skel_destroy, whoever is in invoke. *)
FreeList ==
  /\ main = "free"
  /\ main' = "shut"
  /\ UNCHANGED <<cur, shutdown, backlog, table, lock_list, chain, thr, eintr,
                 shut, client, req, environment>>

(* Mutant: the sockets of the clients are not shut down, and their threads *)
(* are waited for.                                                         *)
ShutJoins ==
  /\ main = "shut" /\ Occupied = {}
  /\ main' = "unlock"
  /\ UNCHANGED <<cur, shutdown, backlog, table, lock_list, chain, thr, eintr,
                 shut, client, req, environment>>

(* network_server_close, with lock_num_clients: the sockets in the table   *)
(* are shut down; pthread_join of a detached thread that has not ended     *)
(* fails at once.  Then the listening socket is closed.                    *)
ShutClients ==
  /\ main = "shut"
  /\ shut' = shut \cup {client_list[x] : x \in Occupied}
  /\ main' = "unlock"
  /\ UNCHANGED <<cur, shutdown, backlog, table, lock_list, chain, thr, eintr,
                 client, req, environment>>

DestroyListLock ==
  /\ main = "unlock"
  /\ main' = "log"
  /\ UNCHANGED <<cur, shutdown, backlog, table, lock_list, chain, thr, eintr,
                 shut, client, req, environment>>

(* The process ends, and with it every connection. *)
ProcessEnds ==
  /\ main' = "exited"
  /\ client' = [c \in Conns |-> "lost"]
  /\ req' = [c \in Conns |-> "none"]
  /\ backlog' = {} /\ eintr' = {}
  /\ lock_list' = NULL /\ rls_lock' = NULL /\ upd' = "idle"
  /\ UNCHANGED <<cur, shutdown, table, thr, shut, environment>>

(* close_server_log.  The result of create_server_log was ignored: if it   *)
(* failed, there is no thread to join and the process may end right there. *)
CloseLog ==
  /\ main = "log"
  /\ \/ /\ main' = "return"
        /\ UNCHANGED <<cur, shutdown, backlog, table, lock_list, chain, thr,
                       eintr, shut, client, req, environment>>
     \/ MayFail /\ ProcessEnds

Exit == main = "return" /\ ProcessEnds

-----------------------------------------------------------------------------
(* The clients *)

Listening == Looping \/ main \in {"clean", "zkclose", "free", "shut"}

Connect(c) ==
  /\ Listening /\ client[c] = "new"
  /\ client' = [client EXCEPT ![c] = "wait"]
  /\ backlog' = backlog \cup {c}
  /\ UNCHANGED <<main, cur, shutdown, table, lock_list, chain, thr, eintr,
                 shut, req, environment>>

Ask(c, kind) ==
  /\ Running /\ client[c] = "ready" /\ inputs < MaxInputs
  /\ client' = [client EXCEPT ![c] = kind]
  /\ req' = [req EXCEPT ![c] = kind]
  /\ inputs' = inputs + 1
  /\ UNCHANGED <<main, cur, shutdown, backlog, table, lock_list, chain, thr,
                 eintr, shut, signals>>

(* A client ends, at any moment; what it has sent may still arrive. *)
Quit(c) ==
  /\ Running /\ client[c] \in {"wait", "ready", "read", "write"}
  /\ client' = [client EXCEPT ![c] = "gone"]
  /\ UNCHANGED <<main, cur, shutdown, backlog, table, lock_list, chain, thr,
                 eintr, shut, req, environment>>

-----------------------------------------------------------------------------
MainStep ==
  \/ TestShutdown \/ (\E c \in Conns : Accept(c)) \/ CheckLimit
  \/ CreateThread \/ SendReady
  \/ CleanChain \/ CloseSession \/ FreeList \/ ShutClients \/ DestroyListLock
  \/ CloseLog \/ Exit

ThreadStep(c) ==
  \/ Enter(c) \/ ThreadTests(c) \/ Receive(c) \/ TakeListLock(c) \/ Forward(c)
  \/ FinishWrite(c) \/ Send(c) \/ Hangup(c) \/ Leave(c)

(* Calls to another server return. *)
CallReturns == UpdateReturns \/ \E c \in Conns : ForwardReturns(c)

Environment ==
  \/ AcceptFails \/ SignalMain \/ ChildWatcher
  \/ \E c \in Conns :
       \/ Connect(c) \/ Quit(c) \/ SignalThread(c)
       \/ \E kind \in {"read", "write"} : Ask(c, kind)

Next ==
  \/ MainStep \/ UpdateLocks \/ (\E c \in Conns : ThreadStep(c))
  \/ CallReturns \/ Environment

Spec == Init /\ [][Next]_vars

(* Every thread runs when it can.  Nothing is assumed of other servers: a  *)
(* call to one may never return.  Mutexes need not be fair: clients make   *)
(* finitely many requests, and /chain changes finitely often.              *)
FairSpec ==
  /\ Spec
  /\ WF_vars(MainStep) /\ WF_vars(UpdateLocks)
  /\ \A c \in Conns : WF_vars(ThreadStep(c))

-----------------------------------------------------------------------------
(* Properties *)

ThreadPlaces == {"none", "start", "test", "recv", "lock", "fwd", "sent",
                 "apply", "refuse", "send", "hangup", "leave", "ended", "spin",
                 "undefined"}

(* Each variable of network_server.c and of its clients has its type.      *)
TypeOK ==
  /\ main \in {"test", "accept", "check", "create", "ready", "clean",
               "zkclose", "free", "shut", "unlock", "log", "return", "exited"}
  /\ cur \in Conns \cup {NULL}
  /\ shutdown \in BOOLEAN
  /\ backlog \subseteq Conns
  /\ num_clients \in -Cardinality(Conns) .. MaxClients
  /\ client_list \in [Slots -> Conns \cup {NULL}]
  /\ slotless \subseteq Conns
  /\ lock_list \in Conns \cup {NULL}
  /\ rls_lock \in Conns \cup {Zk, NULL}
  /\ upd \in {"idle", "lock", "conn"}
  /\ thr \in [Conns -> ThreadPlaces]
  /\ eintr \subseteq Conns /\ shut \subseteq Conns
  /\ client \in [Conns -> {"new", "wait", "ready", "busy", "read", "write",
                          "gone", "lost"}]
  /\ req \in [Conns -> {"none", "read", "write"}]
  /\ inputs \in 0 .. MaxInputs /\ signals \in 0 .. MaxSignals

(* The threads between the two sections of client_thread that change the   *)
(* table of clients.                                                       *)
Inside == {c \in Conns : thr[c] \notin {"none", "start", "ended"}}

(* The table, which network_server_close trusts, holds each thread that    *)
(* runs and found a free slot exactly once, and never a thread that ended, *)
(* in whatever order threads come and go.                                  *)
SlotsMatchThreads ==
  /\ \A x, y \in Occupied : client_list[x] = client_list[y] => x = y
  /\ {client_list[x] : x \in Occupied} = Inside \ slotless

(* num_clients never exceeds the number of slots in use; each thread that  *)
(* ran without a slot has left it one lower, for ever.                     *)
CounterCountsSlots ==
  num_clients = Cardinality(Occupied)
                - Cardinality({c \in slotless : thr[c] = "ended"})

(* The limit refuses a client only when every slot is taken: a place that  *)
(* was given back is offered to the next connection.                       *)
BusyOnlyWhenFull ==
  [][main = "check" /\ main' = "test" => Occupied = Slots]_vars

(* Every connection that waits hears OP_READY or OP_BUSY, or its end, as   *)
(* long as the loop runs.                                                  *)
EveryConnectionAnswered ==
  \A c \in Conns : client[c] = "wait" ~> (client[c] # "wait" \/ ~Looping)

(* A call to another server is under way, with rls_lock held. *)
Calling ==
  \/ upd = "conn"
  \/ \E c \in Conns : thr[c] = "sent" \/ (thr[c] = "spin" /\ rls_lock = c)

(* None of them hangs for ever. *)
CallsReturn == []<>(~Calling)

(***************************************************************************)
(* While the server serves, and as long as no call to another server hangs *)
(* for ever, the thread of a client that is gone ends and gives its slot   *)
(* back, whatever it was in: the request of the client that is still to be *)
(* received, the queue for lock_list or for rls_lock, or the forward.      *)
(***************************************************************************)
EveryThreadEnds ==
  CallsReturn =>
    \A c \in Conns :
      client[c] = "gone" /\ thr[c] # "none"
        ~> (thr[c] = "ended" \/ shutdown \/ ~Looping)

(***************************************************************************)
(* As long as no call to another server hangs for ever, the process ends:  *)
(* zoo_clean_server gets rls_lock, zookeeper_close gets past the callback  *)
(* thread, and network_server_close past the clients that are still        *)
(* connected although it holds lock_num_clients, which the threads it      *)
(* joins need to end.                                                      *)
(***************************************************************************)
CloseReturns == CallsReturn => (main = "clean" ~> ~Running)

(* "limitar numero de clientes activos" (source/network_server.c:548): no  *)
(* more clients are served at a time than NUM_MAX_CLIENTS.  The code tests *)
(* a counter that only the threads increment, later.                       *)
LimitHolds ==
  Cardinality({c \in Conns : client[c] \in {"ready", "read", "write"}})
    <= MaxClients
=============================================================================
