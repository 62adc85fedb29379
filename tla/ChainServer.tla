----------------------------- MODULE ChainServer -----------------------------
(***************************************************************************)
(* The chain of list servers: source/chain_server.c, the client threads of *)
(* source/network_server.c, the main program of source/list_server.c, and  *)
(* the clients of source/chain_client.c that talk to the chain's two ends. *)
(*                                                                         *)
(* A server is named by the number of its znode /chain/node-<n>.  It runs  *)
(*   - a main thread: zoo_init_server, then the accept loop;               *)
(*   - a ZooKeeper callback thread: child_watcher, then update;            *)
(*   - one client_thread per connection: it takes lock_list, forwards a    *)
(*     write to the successor under rls_lock, waits for the answer, runs   *)
(*     invoke and answers.                                                 *)
(* A connection is named by the process that opened it and by what it is   *)
(* for: "head" and "tail" for a client's two, "next" for a server's link   *)
(* to its successor, "fetch" for the one on which init_list runs.          *)
(*                                                                         *)
(* A connection carries one request at a time and TCP keeps it in order,   *)
(* so a request is put straight into the receiving thread and the answer   *)
(* is taken from it: one is lost when, and only when, a process ends.      *)
(*                                                                         *)
(* The log lines of client_thread are the subject of module ServerLog.     *)
(***************************************************************************)
EXTENDS ClientStub, FiniteSets

CONSTANTS
  N,          \* servers 1 .. N may start, in this order
  Boot,       \* servers 1 .. Boot make up the chain from the beginning
  Clients,
  Requests,   \* the requests clients make, each of them once
  Message,    \* Message[r] is the message_t of request r
  FETCH,      \* the request of init_list
  Faults,     \* the kinds of failure that may happen
  MaxFaults,  \* bound: how many of them
  Main, Zk,   \* the two callers of update: zoo_init_server and child_watcher
  Free        \* the holder of a mutex that nobody holds

Servers == 1 .. N
Ends    == Clients \X {"head", "tail"}
Links   == Servers \X {"next", "fetch"}
Conns   == Ends \cup Links
Callers == {Main, Zk}

NextConn(s)   == <<s, "next">>
FetchConn(s)  == <<s, "fetch">>
EndConn(c, e) == <<c, e>>

ASSUME ChainAssumption ==
  /\ N \in Nat /\ Boot \in 1 .. N
  /\ Clients \cap Servers = {}
  /\ FETCH \notin Requests
  /\ Faults \subseteq {"crash", "stop", "busy", "zk", "expire"}
  /\ MaxFaults \in Nat
  /\ Main # Zk
  /\ Free \notin Conns \cup Callers
  /\ Conns \cap Callers = {}

(* What can become of request r when it is answered by add or remove.      *)
WriteAnswers(r) ==
  [opcode : Nat, c_type : Nat, result : Int,
   data : {Message[r].data}, models : {Message[r].models},
   cars : {Message[r].cars}]

(* A request is a message_t, not of opcode OP_ORDER, which no call of the  *)
(* stub sends; one for add or remove is a message that could be sent.      *)
ASSUME RequestAssumption ==
  \A r \in Requests :
    /\ DOMAIN Message[r] = DOMAIN MESSAGE_T__INIT
    /\ Message[r].opcode # OP_ORDER
    /\ Message[r].opcode \in {OP_ADD, OP_DEL} =>
         /\ Message[r] \in WriteAnswers(r) /\ Fits(Message[r])
         /\ NULL \notin WriteAnswers(r)

(* The year of a data_t is an int. *)
ASSUME YearAssumption ==
  \A r \in Requests :
    Message[r].data # NULL => Message[r].data.ano \in Int

VARIABLES
  main,       \* where each server's main thread is
  children,   \* ZooKeeper: the znodes below /chain
  watch,      \* ZooKeeper: the processes with a child watch set
  event,      \* ZooKeeper: those whose watch has fired, not yet delivered
  upd,        \* each call of update on a server: its progress and children_list
  rl_next,    \* rl_next_server: the successor a server is linked to, or 0
  rls_lock,   \* the holder of each server's rls_lock
  lock_list,  \* the holder of each server's lock_list
  thr,        \* the client_thread of each connection: its pc and request
  out,        \* the answer of each thread
  list,       \* each server's list_t
  client,     \* each client: its pc and the request under way
  link,       \* each client's rlh and rlt: the server it is linked to, or 0
  cupd,       \* each client's call of update: its progress and children_list
  todo,       \* the requests not made yet
  reply,      \* what the client got for each request
  faults,     \* how many failures have happened; was one a live expiry
  hist,       \* history: the writes each server's list results from
  seen,       \* history: the hist of the list that init_list was sent
  effect      \* history: the answer of the server that had no successor

server == <<main, upd, rl_next, rls_lock>>
zookeeper == <<children, watch, event>>
lists == <<list, hist, seen, effect>>
threads == <<lock_list, thr, out, lists>>
clients == <<client, link, cupd, todo, reply>>
vars == <<server, zookeeper, threads, clients, faults>>

Nothing == [none |-> TRUE]   \* no answer yet, distinct from every message

-----------------------------------------------------------------------------
(* Shared helpers *)

NoThread == [pc |-> "none", req |-> FETCH]
Waiting  == [pc |-> "recv", req |-> FETCH]

Alive(s)    == main[s] \notin {"off", "down"}
Stopping(s) == main[s] \in {"closing", "cleaned"}   \* server_shutdown is set

MessageOf(r) == IF r = FETCH THEN OrderRequest ELSE Message[r]

needs_forward(r) == MessageOf(r).opcode \in {OP_ADD, OP_DEL, OP_ORDER}

Fail(kind) ==
  /\ kind \in Faults
  /\ faults.n < MaxFaults
  /\ faults' = [n |-> faults.n + 1,
                expired |-> faults.expired \/ kind = "expire"]

(* A call that fails if cond holds, and may fail anyway. *)
FailsIf(cond, kind) ==
  \/ cond /\ UNCHANGED faults
  \/ ~ cond /\ Fail(kind)

(* A change of /chain: every watch that is set fires, once. *)
SetChildren(kids) ==
  /\ children' = kids
  /\ event' = event \cup watch
  /\ watch' = {}

(* The end of a session: its znode goes, and its own watch with it. *)
LoseSession(s) ==
  /\ children' = children \ {s}
  /\ event' = (event \cup watch) \ {s}
  /\ watch' = {}

(***************************************************************************)
(* The other end of connection o to server t: rlist_connect gets READY     *)
(* only from a server in its accept loop, BUSY from one that is full, and  *)
(* an error from one that is gone.  A server that listens but is not in    *)
(* its accept loop keeps the caller waiting.                               *)
(***************************************************************************)
Ready(t) == main[t] = "serving"

Refuses(t) ==
  \/ main[t] = "down" /\ UNCHANGED faults
  \/ main[t] = "serving" /\ Fail("busy")

(* A request sent on connection o to server t is lost, or is t's now. *)
Broken(t, o) == thr[t][o].pc = "none"

(* The thread has answered, or has ended without: network_send_receive     *)
(* returns.  An answer too long for a message ends the thread.             *)
Returns(t, o) == thr[t][o].pc \in {"none", "reply"}

Returned(t, o) ==
  IF thr[t][o].pc = "reply" /\ Fits(out[t][o]) THEN out[t][o] ELSE NULL

(* The thread after that: back to network_receive, unless it ended. *)
AfterReply(t, o) ==
  IF Returned(t, o) # NULL /\ ~ Stopping(t) THEN Waiting ELSE NoThread

-----------------------------------------------------------------------------
(* Joining: zoo_init_server *)

(* The socket listens already; zoo_create gives the server its number. *)
Register(s) ==
  /\ main[s] = "off"
  /\ \A k \in Servers : k < s => main[k] # "off"
  /\ main' = [main EXCEPT ![s] = "watch"]
  /\ SetChildren(children \cup {s})
  /\ UNCHANGED <<upd, rl_next, rls_lock, threads, clients, faults>>

(* Mutant: the first call is zoo_get_children, which sets no watch. *)
GetChildrenOnly(s) ==
  /\ main[s] = "watch"
  /\ \/ /\ s \in children
        /\ upd' = [upd EXCEPT ![s][Main] =
                     [pc |-> "lock", kids |-> children, to |-> 0]]
        /\ main' = [main EXCEPT ![s] = "update"]
        /\ UNCHANGED faults
     \/ /\ FailsIf(s \notin children, "zk")
        /\ main' = [main EXCEPT ![s] = "closing"]
        /\ UNCHANGED upd
  /\ UNCHANGED <<zookeeper, rl_next, rls_lock, threads, clients>>

(* The first zoo_wget_children: a snapshot of /chain and a watch. *)
GetChildren(s) ==
  /\ main[s] = "watch"
  /\ \/ /\ s \in children
        /\ upd' = [upd EXCEPT ![s][Main] =
                     [pc |-> "lock", kids |-> children, to |-> 0]]
        /\ watch' = watch \cup {s}
        /\ main' = [main EXCEPT ![s] = "update"]
        /\ UNCHANGED faults
     \/ /\ FailsIf(s \notin children, "zk")
        /\ main' = [main EXCEPT ![s] = "closing"]
        /\ UNCHANGED <<upd, watch>>
  /\ UNCHANGED <<children, event, rl_next, rls_lock, threads, clients>>

(* init_list: the znode of the predecessor in the same snapshot. *)
IsPrevious(s, kids, t) ==
  t \in kids /\ t < s /\ \A k \in kids : k < s => k <= t

init_list(s) ==
  LET kids == upd[s][Main].kids
  IN  /\ main[s] = "init"
      /\ \/ /\ Cardinality(kids) <= 1 \/ \A k \in kids : k >= s
            /\ main' = [main EXCEPT ![s] = "serving"]
            /\ UNCHANGED <<upd, faults>>
         \/ \E t \in kids :
              /\ Cardinality(kids) > 1 /\ IsPrevious(s, kids, t)
              /\ \/ /\ {s, t} \subseteq children
                    /\ main' = [main EXCEPT ![s] = "connect"]
                    /\ upd' = [upd EXCEPT ![s][Main].to = t]
                    /\ UNCHANGED faults
                 \/ /\ FailsIf(~ {s, t} \subseteq children, "zk")
                    /\ main' = [main EXCEPT ![s] = "closing"]
                    /\ UNCHANGED upd
      /\ UNCHANGED <<zookeeper, rl_next, rls_lock, threads, clients>>

(* rlist_connect to the predecessor and the request for its list. *)
ConnectPrevious(s) ==
  LET t == upd[s][Main].to
  IN  /\ main[s] = "connect"
      /\ \/ /\ Ready(t)
            /\ thr' = [thr EXCEPT ![t][FetchConn(s)] =
                         [pc |-> "got", req |-> FETCH]]
            /\ main' = [main EXCEPT ![s] = "fetch"]
            /\ UNCHANGED faults
         \/ /\ Refuses(t)
            /\ main' = [main EXCEPT ![s] = "closing"]
            /\ UNCHANGED thr
      /\ UNCHANGED <<upd, rl_next, rls_lock, zookeeper, lock_list, out, lists,
                     clients>>

(* The cars of the answer are added one by one, in the answer's order.  A  *)
(* car that is not valid makes the server give up, so that what was added  *)
(* before it does not matter.                                              *)
rlist_get_list_add(res, into) ==
  IF ~ op_success(res, OP_GETLISTBYTEAR, CT_LIST) \/ CopyCars(res.cars) = NULL
    THEN [rc |-> -1, list |-> into]
    ELSE [rc |-> 0,
          list |-> FoldLeft(LAMBDA l, car : list_add(l, car).list,
                            into, res.cars)]

(* The answer is there: fill the list, disconnect, enter the accept loop. *)
LoadList(s) ==
  LET t == upd[s][Main].to
      o == FetchConn(s)
      got == rlist_get_list_add(Returned(t, o), list[s])
  IN  /\ main[s] = "fetch"
      /\ Returns(t, o)
      /\ list' = [list EXCEPT ![s] = got.list]
      /\ hist' = [hist EXCEPT ![s] = IF got.rc = 0 THEN seen[s] ELSE @]
      /\ main' = [main EXCEPT ![s] =
                     IF got.rc = 0 THEN "serving" ELSE "closing"]
      /\ thr' = [thr EXCEPT ![t][o] = NoThread]
      /\ out' = [out EXCEPT ![t][o] = NULL]
      /\ UNCHANGED <<upd, rl_next, rls_lock, zookeeper, lock_list, seen,
                     effect, clients, faults>>

-----------------------------------------------------------------------------
(* Following the membership: child_watcher and update *)

(* Mutant: the watch that has fired is not set again. *)
ChildWatcherOnce(s) ==
  /\ s \in event /\ Alive(s) /\ upd[s][Zk].pc = "idle"
  /\ event' = event \ {s}
  /\ \/ /\ s \in children
        /\ upd' = [upd EXCEPT ![s][Zk] =
                     [pc |-> "lock", kids |-> children, to |-> 0]]
        /\ UNCHANGED faults
     \/ /\ FailsIf(s \notin children, "zk")
        /\ UNCHANGED upd
  /\ UNCHANGED <<children, watch, main, rl_next, rls_lock, threads, clients>>

(* If zoo_wget_children fails, the watch is not set again. *)
child_watcher(s) ==
  /\ s \in event /\ Alive(s) /\ upd[s][Zk].pc = "idle"
  /\ event' = event \ {s}
  /\ \/ /\ s \in children
        /\ watch' = watch \cup {s}
        /\ upd' = [upd EXCEPT ![s][Zk] =
                     [pc |-> "lock", kids |-> children, to |-> 0]]
        /\ UNCHANGED faults
     \/ /\ FailsIf(s \notin children, "zk")
        /\ UNCHANGED <<watch, upd>>
  /\ UNCHANGED <<children, main, rl_next, rls_lock, threads, clients>>

(* Mutant: the comparisons of the predecessor. *)
NextIsPrevious(s, kids, t) == IsPrevious(s, kids, t)

IsNext(s, kids, t) ==
  t \in kids /\ s < t /\ \A k \in kids : s < k => t <= k

(* update returns: its caller goes on. *)
UpdateDone(s, w) ==
  /\ upd' = [upd EXCEPT ![s][w].pc = "idle"]
  /\ main' = IF w = Main THEN [main EXCEPT ![s] = "init"] ELSE main

(* Closing the old link ends the thread at its other end. *)
Disconnect(s) ==
  /\ rl_next' = [rl_next EXCEPT ![s] = 0]
  /\ thr' = IF rl_next[s] = 0 THEN thr
            ELSE [thr EXCEPT ![rl_next[s]][NextConn(s)] = NoThread]

(* Mutant: the old link is dropped only to make place for a new one. *)
UpdateKeepsLastLink(s, w) ==
  LET kids == upd[s][w].kids
  IN  /\ upd[s][w].pc = "lock" /\ rls_lock[s] = Free
      /\ \/ /\ Cardinality(kids) <= 1 \/ \A k \in kids : k <= s
            /\ UpdateDone(s, w)
            /\ UNCHANGED <<rl_next, thr, rls_lock, faults>>
         \/ \E t \in kids :
              /\ Cardinality(kids) > 1 /\ IsNext(s, kids, t)
              /\ Disconnect(s)
              /\ \/ /\ {s, t} \subseteq children
                    /\ rls_lock' = [rls_lock EXCEPT ![s] = w]
                    /\ upd' = [upd EXCEPT ![s][w] =
                                 [pc |-> "conn", kids |-> kids, to |-> t]]
                    /\ UNCHANGED <<main, faults>>
                 \/ /\ FailsIf(~ {s, t} \subseteq children, "zk")
                    /\ UpdateDone(s, w)
                    /\ UNCHANGED rls_lock
      /\ UNCHANGED <<zookeeper, lock_list, out, lists, clients>>

(* Mutant: update does not wait for a forward that holds rls_lock. *)
UpdateWithoutLock(s, w) ==
  LET kids == upd[s][w].kids
  IN  /\ upd[s][w].pc = "lock"
      /\ Disconnect(s)
      /\ \/ /\ Cardinality(kids) <= 1 \/ \A k \in kids : k <= s
            /\ UpdateDone(s, w)
            /\ UNCHANGED rls_lock
         \/ \E t \in kids :
              /\ Cardinality(kids) > 1 /\ IsNext(s, kids, t)
              /\ t \in children
              /\ rls_lock' = [rls_lock EXCEPT ![s] = w]
              /\ upd' = [upd EXCEPT ![s][w] =
                           [pc |-> "conn", kids |-> kids, to |-> t]]
              /\ UNCHANGED main
      /\ UNCHANGED <<zookeeper, lock_list, out, lists, clients, faults>>

(***************************************************************************)
(* update, up to rlist_connect: with rls_lock it drops the old link, picks *)
(* the next number of its snapshot and reads the znode's address.  It      *)
(* returns without a link if there is no such number or no such znode any  *)
(* more.                                                                   *)
(***************************************************************************)
Update(s, w) ==
  LET kids == upd[s][w].kids
  IN  /\ upd[s][w].pc = "lock" /\ rls_lock[s] = Free
      /\ IF kids = {} THEN UNCHANGED <<rl_next, thr>> ELSE Disconnect(s)
      /\ \/ /\ Cardinality(kids) <= 1 \/ \A k \in kids : k <= s
            /\ UpdateDone(s, w)
            /\ UNCHANGED <<rls_lock, faults>>
         \/ \E t \in kids :
              /\ Cardinality(kids) > 1 /\ IsNext(s, kids, t)
              /\ \/ /\ {s, t} \subseteq children
                    /\ rls_lock' = [rls_lock EXCEPT ![s] = w]
                    /\ upd' = [upd EXCEPT ![s][w] =
                                 [pc |-> "conn", kids |-> kids, to |-> t]]
                    /\ UNCHANGED <<main, faults>>
                 \/ /\ FailsIf(~ {s, t} \subseteq children, "zk")
                    /\ UpdateDone(s, w)
                    /\ UNCHANGED rls_lock
      /\ UNCHANGED <<zookeeper, lock_list, out, lists, clients>>

(* Mutant: a refused connection leaves its error code as the link. *)
ConnectStoresError(s, w) ==
  LET t == upd[s][w].to
  IN  /\ upd[s][w].pc = "conn"
      /\ \/ /\ Ready(t)
            /\ rl_next' = [rl_next EXCEPT ![s] = t]
            /\ thr' = [thr EXCEPT ![t][NextConn(s)] = Waiting]
            /\ UNCHANGED faults
         \/ /\ Refuses(t)
            /\ rl_next' = [rl_next EXCEPT ![s] = -1]
            /\ UNCHANGED thr
      /\ rls_lock' = [rls_lock EXCEPT ![s] = Free]
      /\ UpdateDone(s, w)
      /\ UNCHANGED <<zookeeper, lock_list, out, lists, clients>>

(* Mutant: a refused connection returns without unlocking. *)
ConnectKeepsLock(s, w) ==
  LET t == upd[s][w].to
  IN  /\ upd[s][w].pc = "conn"
      /\ \/ /\ Ready(t)
            /\ rl_next' = [rl_next EXCEPT ![s] = t]
            /\ thr' = [thr EXCEPT ![t][NextConn(s)] = Waiting]
            /\ rls_lock' = [rls_lock EXCEPT ![s] = Free]
            /\ UNCHANGED faults
         \/ /\ Refuses(t)
            /\ UNCHANGED <<rl_next, thr, rls_lock>>
      /\ UpdateDone(s, w)
      /\ UNCHANGED <<zookeeper, lock_list, out, lists, clients>>

(* rlist_connect, still with rls_lock, then the end of update. *)
UpdateConnect(s, w) ==
  LET t == upd[s][w].to
  IN  /\ upd[s][w].pc = "conn"
      /\ \/ /\ Ready(t)
            /\ rl_next' = [rl_next EXCEPT ![s] = t]
            /\ thr' = [thr EXCEPT ![t][NextConn(s)] = Waiting]
            /\ UNCHANGED faults
         \/ /\ Refuses(t)
            /\ UNCHANGED <<rl_next, thr>>
      /\ rls_lock' = [rls_lock EXCEPT ![s] = Free]
      /\ UpdateDone(s, w)
      /\ UNCHANGED <<zookeeper, lock_list, out, lists, clients>>

-----------------------------------------------------------------------------
(* Serving: client_thread of connection o on server s *)

(* Mutant: the write goes ahead whoever holds lock_list. *)
TakeNoLock(s, o) ==
  /\ thr[s][o].pc = "got" /\ needs_forward(thr[s][o].req)
  /\ lock_list' = [lock_list EXCEPT ![s] = o]
  /\ thr' = [thr EXCEPT ![s][o].pc = "locked"]
  /\ UNCHANGED <<out, lists, server, zookeeper, clients, faults>>

(* A write takes lock_list and keeps it until it is applied or refused. *)
TakeListLock(s, o) ==
  /\ thr[s][o].pc = "got" /\ needs_forward(thr[s][o].req)
  /\ lock_list[s] = Free
  /\ lock_list' = [lock_list EXCEPT ![s] = o]
  /\ thr' = [thr EXCEPT ![s][o].pc = "locked"]
  /\ UNCHANGED <<out, lists, server, zookeeper, clients, faults>>

(* Any other request takes it just for invoke. *)
Read(s, o) ==
  LET r == thr[s][o].req
      done == invoke(MessageOf(r), list[s])
  IN  /\ thr[s][o].pc = "got" /\ ~ needs_forward(r)
      /\ lock_list[s] = Free
      /\ list' = [list EXCEPT ![s] = done.list]
      /\ out' = [out EXCEPT ![s][o] = done.msg]
      /\ seen' = IF r = FETCH THEN [seen EXCEPT ![o[1]] = hist[s]] ELSE seen
      /\ effect' = IF r = FETCH THEN effect ELSE [effect EXCEPT ![r] = done.msg]
      /\ thr' = [thr EXCEPT ![s][o].pc = "reply"]
      /\ UNCHANGED <<lock_list, hist, server, zookeeper, clients, faults>>

(***************************************************************************)
(* zoo_forward_to_successor, up to the wait for the answer: without a      *)
(* successor the request is applied here (code -2); a link whose other end *)
(* is gone is an error (code -1).                                          *)
(***************************************************************************)
Forward(s, o) ==
  LET t == rl_next[s]
      p == NextConn(s)
  IN  /\ thr[s][o].pc = "locked" /\ rls_lock[s] = Free
      /\ \/ /\ t = 0
            /\ thr' = [thr EXCEPT ![s][o].pc = "local"]
            /\ UNCHANGED rls_lock
         \/ /\ t # 0 /\ Broken(t, p)
            /\ thr' = [thr EXCEPT ![s][o].pc = "error"]
            /\ UNCHANGED rls_lock
         \/ /\ t # 0 /\ ~ Broken(t, p)
            /\ thr' = [thr EXCEPT
                         ![s][o].pc = "fwd",
                         ![t][p] = [pc |-> "got", req |-> thr[s][o].req]]
            /\ rls_lock' = [rls_lock EXCEPT ![s] = o]
      /\ UNCHANGED <<lock_list, out, lists, main, upd, rl_next, zookeeper,
                     clients, faults>>

(* Mutant: the forward does not wait for the answer. *)
ForwardDoesNotWait(s, o) ==
  LET t == rl_next[s]
      p == NextConn(s)
  IN  /\ thr[s][o].pc = "fwd"
      /\ thr' = [thr EXCEPT ![s][o].pc = "apply", ![t][p] = Waiting]
      /\ out' = [out EXCEPT ![t][p] = NULL]
      /\ rls_lock' = [rls_lock EXCEPT ![s] = Free]
      /\ UNCHANGED <<lock_list, lists, main, upd, rl_next, zookeeper, clients,
                     faults>>

(* Mutant: the forward returns without unlocking. *)
ForwardKeepsLock(s, o) ==
  LET t == rl_next[s]
      p == NextConn(s)
  IN  /\ thr[s][o].pc = "fwd"
      /\ Returns(t, p)
      /\ thr' = [thr EXCEPT ![s][o].pc = "apply", ![t][p] = AfterReply(t, p)]
      /\ out' = [out EXCEPT ![t][p] = NULL]
      /\ UNCHANGED <<lock_list, lists, server, zookeeper, clients, faults>>

(* Mutant: a forward that fails is tried again. *)
ForwardRetries(s, o) ==
  LET t == rl_next[s]
      p == NextConn(s)
  IN  /\ thr[s][o].pc = "fwd"
      /\ Returns(t, p)
      /\ thr' = [thr EXCEPT
                   ![s][o].pc = IF Returned(t, p) # NULL THEN "apply"
                                                         ELSE "locked",
                   ![t][p] = AfterReply(t, p)]
      /\ out' = [out EXCEPT ![t][p] = NULL]
      /\ rls_lock' = [rls_lock EXCEPT ![s] = Free]
      /\ UNCHANGED <<lock_list, lists, main, upd, rl_next, zookeeper, clients,
                     faults>>

(* Mutant: a forward does not notice that the other end has closed. *)
ForwardWaitsForReply(s, o) ==
  LET t == rl_next[s]
      p == NextConn(s)
  IN  /\ thr[s][o].pc = "fwd"
      /\ thr[t][p].pc = "reply"
      /\ thr' = [thr EXCEPT
                   ![s][o].pc = IF Returned(t, p) # NULL THEN "apply"
                                                         ELSE "error",
                   ![t][p] = AfterReply(t, p)]
      /\ out' = [out EXCEPT ![t][p] = NULL]
      /\ rls_lock' = [rls_lock EXCEPT ![s] = Free]
      /\ UNCHANGED <<lock_list, lists, main, upd, rl_next, zookeeper, clients,
                     faults>>

(* The successor's answer, whatever it says, counts as success. *)
ForwardReturns(s, o) ==
  LET t == rl_next[s]
      p == NextConn(s)
  IN  /\ thr[s][o].pc = "fwd"
      /\ Returns(t, p)
      /\ thr' = [thr EXCEPT
                   ![s][o].pc = IF Returned(t, p) # NULL THEN "apply"
                                                         ELSE "error",
                   ![t][p] = AfterReply(t, p)]
      /\ out' = [out EXCEPT ![t][p] = NULL]
      /\ rls_lock' = [rls_lock EXCEPT ![s] = Free]
      /\ UNCHANGED <<lock_list, lists, main, upd, rl_next, zookeeper, clients,
                     faults>>

(* Mutant: the case of the last server falls through to the next one. *)
ApplyFallsThrough(s, o) ==
  LET r == thr[s][o].req
      done == invoke(MessageOf(r), list[s])
      last == thr[s][o].pc = "local"
  IN  /\ thr[s][o].pc \in {"local", "apply"}
      /\ list' = [list EXCEPT ![s] = done.list]
      /\ hist' = [hist EXCEPT ![s] = Append(@, r)]
      /\ effect' = IF last THEN [effect EXCEPT ![r] = done.msg] ELSE effect
      /\ out' = [out EXCEPT ![s][o] = done.msg]
      /\ thr' = [thr EXCEPT ![s][o].pc = IF last THEN "apply" ELSE "reply"]
      /\ lock_list' = [lock_list EXCEPT ![s] = IF last THEN @ ELSE Free]
      /\ UNCHANGED <<seen, server, zookeeper, clients, faults>>

(* invoke under lock_list, and its release. *)
Apply(s, o) ==
  LET r == thr[s][o].req
      done == invoke(MessageOf(r), list[s])
  IN  /\ thr[s][o].pc \in {"local", "apply"}
      /\ list' = [list EXCEPT ![s] = done.list]
      /\ hist' = [hist EXCEPT ![s] = Append(@, r)]
      /\ effect' = IF thr[s][o].pc = "local"
                     THEN [effect EXCEPT ![r] = done.msg] ELSE effect
      /\ out' = [out EXCEPT ![s][o] = done.msg]
      /\ thr' = [thr EXCEPT ![s][o].pc = "reply"]
      /\ lock_list' = [lock_list EXCEPT ![s] = Free]
      /\ UNCHANGED <<seen, server, zookeeper, clients, faults>>

(* The forward failed: the answer is an error, the list is left alone. *)
Refuse(s, o) ==
  /\ thr[s][o].pc = "error"
  /\ out' = [out EXCEPT ![s][o] =
               [MessageOf(thr[s][o].req) EXCEPT !.opcode = OP_ERROR,
                                                !.result = -1]]
  /\ thr' = [thr EXCEPT ![s][o].pc = "reply"]
  /\ lock_list' = [lock_list EXCEPT ![s] = Free]
  /\ UNCHANGED <<lists, server, zookeeper, clients, faults>>

(* Reading from, or answering to, a process that is gone ends the thread. *)
Hangup(s, o) ==
  /\ thr[s][o].pc \in {"recv", "reply"}
  /\ \/ o \in Links /\ main[o[1]] = "down"
     \/ o \in Ends /\ client[o[1]].pc = "crashed"
  /\ thr' = [thr EXCEPT ![s][o] = NoThread]
  /\ out' = [out EXCEPT ![s][o] = NULL]
  /\ UNCHANGED <<lock_list, lists, server, zookeeper, clients, faults>>

-----------------------------------------------------------------------------
(* Leaving *)

(* SIGINT: the accept loop and the threads see server_shutdown. *)
Stop(s) ==
  /\ main[s] = "serving" /\ Fail("stop")
  /\ main' = [main EXCEPT ![s] = "closing"]
  /\ UNCHANGED <<upd, rl_next, rls_lock, zookeeper, threads, clients>>

(* zoo_clean_server drops the link, then closes the session; the threads   *)
(* run on in between.  zookeeper_close waits for the callback thread.      *)
zoo_clean_server(s) ==
  /\ main[s] = "closing" /\ rls_lock[s] = Free
  /\ Disconnect(s)
  /\ main' = [main EXCEPT ![s] = "cleaned"]
  /\ UNCHANGED <<upd, rls_lock, zookeeper, lock_list, out, lists, clients,
                 faults>>

(* What the end of process s does to the rest. *)
ProcessEnds(s) ==
  /\ main' = [main EXCEPT ![s] = "down"]
  /\ upd' = [upd EXCEPT ![s] = [w \in Callers |-> [@[w] EXCEPT !.pc = "idle"]]]
  /\ rl_next' = [rl_next EXCEPT ![s] = 0]
  /\ rls_lock' = [rls_lock EXCEPT ![s] = Free]
  /\ lock_list' = [lock_list EXCEPT ![s] = Free]
  /\ thr' = [thr EXCEPT ![s] = [o \in Conns |-> NoThread]]
  /\ out' = [out EXCEPT ![s] = [o \in Conns |-> NULL]]
  /\ UNCHANGED <<lists, clients>>

Exit(s) ==
  /\ main[s] = "cleaned" /\ upd[s][Zk].pc = "idle"
  /\ ProcessEnds(s)
  /\ LoseSession(s)
  /\ UNCHANGED faults

Crash(s) ==
  /\ Alive(s) /\ Fail("crash")
  /\ ProcessEnds(s)
  /\ UNCHANGED zookeeper

(* ZooKeeper drops the znode of a session that has not been heard of for   *)
(* 30 s, and whose process may be gone or alive.                           *)
Expire(s) ==
  /\ s \in children
  /\ FailsIf(main[s] = "down", "expire")
  /\ LoseSession(s)
  /\ UNCHANGED <<server, threads, clients>>

-----------------------------------------------------------------------------
(* The clients *)

(* Mutant: everything goes to the head. *)
AlwaysHead(r) == "head"

(* Writes go to the head, reads to the tail. *)
EndOf(r) == IF MessageOf(r).opcode \in {OP_ADD, OP_DEL} THEN "head" ELSE "tail"

(* The result of request r is known.  A lost remove ends the program. *)
Finish(c, r, res) ==
  /\ reply' = [reply EXCEPT ![r] = res]
  /\ client' = [client EXCEPT ![c] =
       [pc  |-> IF res = NULL /\ MessageOf(r).opcode = OP_DEL
                  THEN "crashed" ELSE "idle",
        req |-> FETCH]]

(* The client does not ignore SIGPIPE: a write to a closed socket may end  *)
(* the program.                                                            *)
Killed(c, r) ==
  /\ reply' = [reply EXCEPT ![r] = NULL]
  /\ client' = [client EXCEPT ![c] = [pc |-> "crashed", req |-> FETCH]]

(* A command holds the client's rls_lock from the request to the result.   *)
(* Without a link it fails at once.                                        *)
ClientSend(c, r) ==
  LET e == EndOf(r)
      t == link[EndConn(c, e)]
  IN  /\ client[c].pc = "idle" /\ cupd[c].pc # "conn" /\ r \in todo
      /\ todo' = todo \ {r}
      /\ \/ /\ t # 0 /\ ~ Broken(t, EndConn(c, e))
            /\ thr' = [thr EXCEPT ![t][EndConn(c, e)] =
                         [pc |-> "got", req |-> r]]
            /\ client' = [client EXCEPT ![c] = [pc |-> "wait", req |-> r]]
            /\ UNCHANGED reply
         \/ /\ t # 0 /\ Broken(t, EndConn(c, e))
            /\ Finish(c, r, NULL) \/ Killed(c, r)
            /\ UNCHANGED thr
         \/ /\ t = 0
            /\ reply' = [reply EXCEPT ![r] = NULL]
            /\ UNCHANGED <<thr, client>>
      /\ UNCHANGED <<link, cupd, lock_list, out, lists, server, zookeeper,
                     faults>>

ClientReceive(c) ==
  LET r == client[c].req
      e == EndOf(r)
      t == link[EndConn(c, e)]
  IN  /\ client[c].pc = "wait"
      /\ Returns(t, EndConn(c, e))
      /\ Finish(c, r, Returned(t, EndConn(c, e)))
      /\ thr' = [thr EXCEPT ![t][EndConn(c, e)] = AfterReply(t, EndConn(c, e))]
      /\ out' = [out EXCEPT ![t][EndConn(c, e)] = NULL]
      /\ UNCHANGED <<link, cupd, todo, lock_list, lists, server, zookeeper,
                     faults>>

(* The client's child_watcher and update: a snapshot, a new watch, and     *)
(* then the head and the tail of the snapshot in turn.                     *)
ClientWatcher(c) ==
  /\ c \in event /\ cupd[c].pc = "idle" /\ client[c].pc # "crashed"
  /\ event' = event \ {c}
  /\ watch' = watch \cup {c}
  /\ cupd' = [cupd EXCEPT ![c].pc = IF children = {} THEN "idle" ELSE "get",
                          ![c].end = "head", ![c].kids = children]
  /\ UNCHANGED <<children, client, link, todo, reply, server, threads, faults>>

IsEnd(e, kids, t) ==
  t \in kids /\ \A k \in kids : IF e = "head" THEN t <= k ELSE k <= t

(* The end of update_remote_list, which leaves link t (0: none). *)
ClientLinked(c, t) ==
  /\ link' = [link EXCEPT ![EndConn(c, cupd[c].end)] = t]
  /\ cupd' = [cupd EXCEPT
                 ![c].pc = IF cupd[c].end = "head" THEN "get" ELSE "idle",
                 ![c].end = "tail"]

(* zoo_get of the znode; the old link stays if it is gone. *)
ClientGet(c) ==
  LET e == cupd[c].end
  IN  /\ cupd[c].pc = "get" /\ client[c].pc # "crashed"
      /\ \E t \in cupd[c].kids :
           /\ IsEnd(e, cupd[c].kids, t)
           /\ \/ /\ t \in children
                 /\ cupd' = [cupd EXCEPT ![c].pc = "lock"]
                 /\ UNCHANGED link
              \/ /\ t \notin children
                 /\ ClientLinked(c, link[EndConn(c, e)])
      /\ UNCHANGED <<client, todo, reply, threads, server, zookeeper, faults>>

(* Between two commands: with the client's rls_lock, drop the old link. *)
ClientDisconnect(c) ==
  LET e == cupd[c].end
  IN  /\ cupd[c].pc = "lock" /\ client[c].pc = "idle"
      /\ cupd' = [cupd EXCEPT ![c].pc = "conn"]
      /\ link' = [link EXCEPT ![EndConn(c, e)] = 0]
      /\ thr' = IF link[EndConn(c, e)] = 0 THEN thr
                ELSE [thr EXCEPT
                        ![link[EndConn(c, e)]][EndConn(c, e)] = NoThread]
      /\ UNCHANGED <<client, todo, reply, lock_list, out, lists, server,
                     zookeeper, faults>>

(* rlist_connect; no command runs until it is over. *)
ClientConnect(c) ==
  LET e == cupd[c].end
  IN  /\ cupd[c].pc = "conn"
      /\ \E t \in cupd[c].kids :
           /\ IsEnd(e, cupd[c].kids, t)
           /\ \/ /\ Ready(t)
                 /\ thr' = [thr EXCEPT ![t][EndConn(c, e)] = Waiting]
                 /\ ClientLinked(c, t)
                 /\ UNCHANGED faults
              \/ /\ Refuses(t)
                 /\ ClientLinked(c, 0)
                 /\ UNCHANGED thr
      /\ UNCHANGED <<client, todo, reply, lock_list, out, lists, server,
                     zookeeper>>

-----------------------------------------------------------------------------
(* The chain 1 .. Boot, linked and serving, as sequential starts leave it. *)
Init ==
  /\ main = [s \in Servers |-> IF s <= Boot THEN "serving" ELSE "off"]
  /\ children = 1 .. Boot
  /\ watch = 1 .. Boot \cup Clients
  /\ event = {}
  /\ upd = [s \in Servers |->
              [w \in Callers |-> [pc |-> "idle", kids |-> {}, to |-> 0]]]
  /\ rl_next = [s \in Servers |-> IF s < Boot THEN s + 1 ELSE 0]
  /\ rls_lock = [s \in Servers |-> Free]
  /\ lock_list = [s \in Servers |-> Free]
  /\ thr = [s \in Servers |-> [o \in Conns |->
              IF \/ s <= Boot /\ o = NextConn(s - 1)
                 \/ s = 1 /\ o \in Clients \X {"head"}
                 \/ s = Boot /\ o \in Clients \X {"tail"}
                THEN Waiting ELSE NoThread]]
  /\ out = [s \in Servers |-> [o \in Conns |-> NULL]]
  /\ list = [s \in Servers |-> list_create]
  /\ client = [c \in Clients |-> [pc |-> "idle", req |-> FETCH]]
  /\ link = [o \in Ends |-> IF o[2] = "head" THEN 1 ELSE Boot]
  /\ cupd = [c \in Clients |-> [pc |-> "idle", end |-> "tail", kids |-> {}]]
  /\ todo = Requests
  /\ reply = [r \in Requests |-> Nothing]
  /\ faults = [n |-> 0, expired |-> FALSE]
  /\ hist = [s \in Servers |-> <<>>]
  /\ seen = [s \in Servers |-> <<>>]
  /\ effect = [r \in Requests |-> Nothing]

MainStep(s) ==
  \/ GetChildren(s) \/ init_list(s) \/ ConnectPrevious(s) \/ LoadList(s)
  \/ zoo_clean_server(s) \/ Exit(s)

UpdateStep(s) ==
  \/ child_watcher(s)
  \/ \E w \in Callers : Update(s, w) \/ UpdateConnect(s, w)

ThreadStep(s, o) ==
  \/ TakeListLock(s, o) \/ Read(s, o) \/ Forward(s, o) \/ ForwardReturns(s, o)
  \/ Apply(s, o) \/ Refuse(s, o) \/ Hangup(s, o)

ClientStep(c) ==
  \/ ClientReceive(c) \/ ClientWatcher(c) \/ ClientGet(c)
  \/ ClientDisconnect(c) \/ ClientConnect(c)

(* What goes on by itself; the rest is up to operators, users and failures. *)
SystemStep ==
  \/ \E s \in Servers :
       \/ MainStep(s) \/ UpdateStep(s)
       \/ \E o \in Conns : ThreadStep(s, o)
       \/ main[s] = "down" /\ Expire(s)
  \/ \E c \in Clients : ClientStep(c)

Environment ==
  \/ \E s \in Servers :
       Register(s) \/ Stop(s) \/ Crash(s) \/ (main[s] # "down" /\ Expire(s))
  \/ \E c \in Clients, r \in Requests : ClientSend(c, r)

(* Every request is answered and nothing moves any more. *)
Quiet ==
  /\ \A s \in Servers, o \in Conns : thr[s][o].pc \in {"none", "recv"}
  /\ \A s \in Servers : main[s] \in {"serving", "down"}
  /\ \A c \in Clients : \/ client[c].pc = "crashed"
                        \/ client[c].pc = "idle" /\ cupd[c].pc = "idle"
  /\ UNCHANGED vars

Next == SystemStep \/ Environment \/ Quiet

Spec == Init /\ [][Next]_vars

(* Threads that can run do run: nothing finer is assumed of the scheduler. *)
FairSpec == Spec /\ WF_vars(SystemStep)

-----------------------------------------------------------------------------
(* The state is well formed.  The contents of lists and messages are left  *)
(* to modules CarList and ListSkel.                                        *)
MainPc == {"off", "watch", "update", "init", "connect", "fetch", "serving",
           "closing", "cleaned", "down"}
HoldsList == {"locked", "fwd", "local", "apply", "error"}
ThreadPc == {"none", "recv", "got", "reply"} \cup HoldsList

UpdateCall ==
  [pc : {"idle", "lock", "conn"}, kids : SUBSET Servers, to : 0 .. N]
Thread == [pc : ThreadPc, req : Requests \cup {FETCH}]
Failures == [n : 0 .. MaxFaults, expired : BOOLEAN]
Client == [pc : {"idle", "wait", "crashed"}, req : Requests \cup {FETCH}]
ClientUpdateCall ==
  [pc : {"idle", "get", "lock", "conn"}, end : {"head", "tail"},
   kids : SUBSET Servers]

ServerTypeOK ==
  /\ main \in [Servers -> MainPc]
  /\ upd \in [Servers -> [Callers -> UpdateCall]]
  /\ rl_next \in [Servers -> 0 .. N]
  /\ rls_lock \in [Servers -> Conns \cup Callers \cup {Free}]
  /\ faults \in Failures

ZooKeeperTypeOK ==
  /\ children \in SUBSET Servers
  /\ watch \in SUBSET (Servers \cup Clients)
  /\ event \in SUBSET (Servers \cup Clients)

ThreadTypeOK ==
  /\ lock_list \in [Servers -> Conns \cup {Free}]
  /\ thr \in [Servers -> [Conns -> Thread]]
  /\ hist \in [Servers -> Seq(Requests)]
  /\ seen \in [Servers -> Seq(Requests)]

ClientTypeOK ==
  /\ client \in [Clients -> Client]
  /\ link \in [Ends -> 0 .. N]
  /\ cupd \in [Clients -> ClientUpdateCall]
  /\ todo \in SUBSET Requests

TypeOK == ServerTypeOK /\ ZooKeeperTypeOK /\ ThreadTypeOK /\ ClientTypeOK

UpdateOwnsRlsLock ==
  \A s \in Servers, w \in Callers : upd[s][w].pc = "conn" <=> rls_lock[s] = w

ForwardOwnsRlsLock ==
  \A s \in Servers, o \in Conns : thr[s][o].pc = "fwd" <=> rls_lock[s] = o

WriteOwnsListLock ==
  \A s \in Servers, o \in Conns : thr[s][o].pc \in HoldsList <=> lock_list[s] = o

(***************************************************************************)
(* The two mutexes of a server are held by the threads whose program       *)
(* counters say so, by one at a time, and every path of update, of         *)
(* zoo_forward_to_successor and of client_thread gives them back.          *)
(***************************************************************************)
LocksAreOwned == UpdateOwnsRlsLock /\ ForwardOwnsRlsLock /\ WriteOwnsListLock

(***************************************************************************)
(* Links go up: whatever servers join, leave or fail, a server is linked   *)
(* to a higher number only, so that a write that waits for an answer while *)
(* it holds lock_list never waits for itself around a cycle.               *)
(***************************************************************************)
LinksGoUp == \A s \in Servers : rl_next[s] # 0 => s < rl_next[s]

(***************************************************************************)
(* Links may be missing but are never wrong: a server that has a watch and *)
(* no snapshot of /chain left to deal with is linked to the server that    *)
(* follows it in /chain, or to none; also when zoo_init_server and         *)
(* child_watcher run update at the same time, in either order, with        *)
(* snapshots of different age, and whichever of their calls fail.  The     *)
(* older snapshot can only take a link away: the server is not serving yet *)
(* while zoo_init_server runs, so that none behind it is ready.            *)
(***************************************************************************)
LinksAreCurrent ==
  \A s \in Servers :
    s \in watch /\ upd[s][Zk].pc # "lock" /\ rl_next[s] # 0
      => IsNext(s, children, rl_next[s])

(***************************************************************************)
(* Without failures no link is missing either: a serving server that has   *)
(* dealt with what it was told is the last one in /chain or has a link,    *)
(* however many servers join meanwhile and whichever of its two calls of   *)
(* update came last.  No join falls between the snapshot of                *)
(* zoo_init_server and the watch that child_watcher waits for.             *)
(***************************************************************************)
NoLinkIsMissing ==
  faults.n = 0 =>
    \A s \in Servers :
      main[s] = "serving" /\ s \notin event /\ upd[s][Zk].pc = "idle"
        => rl_next[s] # 0 \/ \A k \in children : k <= s

Busy(t, o) == thr[t][o].pc \in {"got", "reply"} \cup HoldsList

(* While server s forwards, the thread at the other end of the link has    *)
(* the same request or has ended.                                          *)
ForwardsMatch ==
  \A s \in Servers, o \in Conns :
    thr[s][o].pc = "fwd" =>
      LET next == thr[rl_next[s]][NextConn(s)]
      IN  /\ rl_next[s] # 0
          /\ next.pc # "recv"
          /\ next.pc # "none" => next.req = thr[s][o].req

(* While such a thread is busy, s is forwarding to its server, or is gone. *)
LinksMatch ==
  \A s, t \in Servers :
    Busy(t, NextConn(s)) /\ main[s] # "down" =>
      rl_next[s] = t /\ rls_lock[s] \in Conns

(* A thread that is busy for a client has the request the client waits for. *)
ClientsMatch ==
  \A c \in Clients, t \in Servers, e \in {"head", "tail"} :
    Busy(t, EndConn(c, e)) =>
      /\ link[EndConn(c, e)] = t
      /\ client[c].pc = "wait"
      /\ client[c].req = thr[t][EndConn(c, e)].req
      /\ EndOf(client[c].req) = e

(***************************************************************************)
(* The answer a thread or a client waits for is the answer to its own      *)
(* request: relinking, by update of chain_server.c or of chain_client.c,   *)
(* never lets an answer reach another request.                             *)
(***************************************************************************)
AnswersMatchRequests == ForwardsMatch /\ LinksMatch /\ ClientsMatch

AppliedOnce ==
  \A s \in Servers :
    \A i, j \in DOMAIN hist[s] : hist[s][i] = hist[s][j] => i = j

(***************************************************************************)
(* No server applies a write twice, however forwarding, relinking after a  *)
(* failure and fetching a neighbour's list interleave, as long as          *)
(* ZooKeeper has dropped no session of a process that is alive.            *)
(***************************************************************************)
AtMostOnce == ~ faults.expired => AppliedOnce

(***************************************************************************)
(* With a complete chain two servers never apply two writes in opposite    *)
(* orders: lock_list is held across the forward, so the order at a server  *)
(* is the order at its successor.  A crash may leave a write applied far   *)
(* below and not yet above, and another overtake it on the new link.       *)
(***************************************************************************)
SameOrder ==
  \A s, t \in Servers :
   \A i, j \in DOMAIN hist[s] : \A k, l \in DOMAIN hist[t] :
    hist[s][i] = hist[t][k] /\ hist[s][j] = hist[t][l] /\ i < j => k < l

(***************************************************************************)
(* With a complete chain, a successor is level with its predecessor or     *)
(* ahead by exactly the one write the predecessor is still forwarding or   *)
(* has yet to apply; no other write gets past lock_list meanwhile.         *)
(***************************************************************************)
SuccessorLeadsByOne ==
  \A s \in Servers : rl_next[s] # 0 =>
    \/ hist[rl_next[s]] = hist[s]
    \/ \E o \in Conns :
         /\ thr[s][o].pc \in {"fwd", "apply"}
         /\ hist[rl_next[s]] = Append(hist[s], thr[s][o].req)

(* The client was told that request r succeeded. *)
Succeeded(r) ==
  /\ reply[r] \notin {Nothing, NULL}
  /\ reply[r].opcode # OP_ERROR

Writes == {r \in Requests : needs_forward(r)}

(***************************************************************************)
(* A write that a client was told has succeeded is part of the list of     *)
(* every server that is serving.                                           *)
(***************************************************************************)
AckedIsEverywhere ==
  \A r \in Writes : Succeeded(r) =>
    \A s \in Servers : main[s] = "serving" =>
      \E i \in DOMAIN hist[s] : hist[s][i] = r

(***************************************************************************)
(* A client that waits for an answer gets one, or an error: no write is    *)
(* stuck behind the locks of the chain for ever.                           *)
(***************************************************************************)
EveryRequestAnswered ==
  \A c \in Clients : (client[c].pc = "wait") ~> (client[c].pc # "wait")

(***************************************************************************)
(* After the last failure the links become those of the chain of servers   *)
(* that are left, and stay so: child_watcher misses no change of /chain.   *)
(***************************************************************************)
Serving == {s \in Servers : main[s] = "serving"}
Linked ==
  \A s \in Serving :
    IF \A t \in Serving : t <= s THEN rl_next[s] = 0
                                 ELSE IsNext(s, Serving, rl_next[s])
ChainHeals == <>[]Linked

-----------------------------------------------------------------------------
(* Statements of the repository that the code does not keep.               *)

(***************************************************************************)
(* source/network_server.c, where zoo_forward_to_successor returns -2:     *)
(* "É o último servidor — executa localmente".  A server that applies a    *)
(* write without forwarding it is the last of the serving servers.         *)
(***************************************************************************)
LocalOnlyAtTail ==
  [][\A s \in Servers, o \in Conns :
       thr[s][o].pc = "locked" /\ thr'[s][o].pc = "local" =>
         \A t \in Serving : t <= s]_thr

(***************************************************************************)
(* source/network_server.c, client_thread: "Para garantir atomicidade das  *)
(* operações de modificação, mantemos o lock da lista durante o forward e  *)
(* a aplicação local".  A write answered with an error is in no list of a  *)
(* serving server.                                                         *)
(***************************************************************************)
ErrorMeansNoEffect ==
  \A r \in Writes :
    reply[r] \notin {Nothing, NULL} /\ reply[r].opcode = OP_ERROR =>
      \A s \in Serving : \A i \in DOMAIN hist[s] : hist[s][i] # r

(***************************************************************************)
(* source/chain_server.c, zoo_init_server: "Na primeira vez que ligamos é  *)
(* necessário perguntar, caso haja, ao servidor anterior Pela sua lista e  *)
(* inserir na nossa lista".  A server that has registered gets that list,  *)
(* or gives up.                                                            *)
(***************************************************************************)
JoinFinishes ==
  \A s \in Servers :
    (main[s] = "watch") ~> (main[s] \in {"serving", "down"})
=============================================================================
