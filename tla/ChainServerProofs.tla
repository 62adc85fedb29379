-------------------------- MODULE ChainServerProofs --------------------------
(***************************************************************************)
(* Proofs about module ChainServer, for any number of servers, clients,    *)
(* requests and failures of every kind.                                    *)
(*                                                                         *)
(* None of the properties is inductive alone.  That a mutex belongs to the *)
(* thread whose program counter says so depends on who may end a thread of *)
(* another process: only the other end of its connection, which must know  *)
(* that the thread is not in the middle of a write.  That knowledge is     *)
(* LinksMatch and ClientsMatch, which in turn depend on the mutexes.       *)
(***************************************************************************)
EXTENDS ChainServer, TLAPS

(***************************************************************************)
(* The steps keep the type invariant.  Applying a write adds its request to *)
(* a history, so the proof needs that a thread which holds lock_list has a *)
(* write of some client, and not the request of init_list.                 *)
(***************************************************************************)

HoldersHaveWrites ==
  \A s \in Servers, o \in Conns :
    thr[s][o].pc \in HoldsList => thr[s][o].req \in Writes

(* The connections are there and have different names. *)
LEMMA ConnNames ==
  /\ \A s \in Servers : NextConn(s) \in Conns /\ FetchConn(s) \in Conns
  /\ \A c \in Clients, e \in {"head", "tail"} :
       EndConn(c, e) \in Conns /\ EndConn(c, e) \in Ends
  BY DEF Conns, Ends, Links, NextConn, FetchConn, EndConn

(* No two connections have the same name. *)
LEMMA ConnsDiffer ==
  /\ \A s, t : NextConn(s) = NextConn(t) => s = t
  /\ \A s, t : FetchConn(s) = FetchConn(t) => s = t
  /\ \A s, t : NextConn(s) # FetchConn(t)
  /\ \A c, d, e, f : EndConn(c, e) = EndConn(d, f) => c = d /\ e = f
  /\ \A s, c, e : e \in {"head", "tail"} =>
       NextConn(s) # EndConn(c, e) /\ FetchConn(s) # EndConn(c, e)
  BY DEF NextConn, FetchConn, EndConn

(* The request of init_list is one that client_thread does not forward. *)
LEMMA FetchIsNoWrite == ~ needs_forward(FETCH)
  BY DEF needs_forward, MessageOf, OrderRequest, MESSAGE_T__INIT, OP_ADD,
         OP_DEL, OP_ORDER, OP_GETLISTBYTEAR

(* A request goes to one of a client's two connections. *)
LEMMA EndIsEnd == \A r : EndOf(r) \in {"head", "tail"}
  BY DEF EndOf

(* The threads by server and connection; the calls of update by server and *)
(* caller.                                                                 *)
ThreadTable == [Servers -> [Conns -> Thread]]
UpdateTable == [Servers -> [Callers -> UpdateCall]]

(* Setting one entry of a table of tables leaves it one, and a row that is *)
(* not there, such as the one of link 0, changes nothing.                  *)
LEMMA Except2 ==
  ASSUME NEW A, NEW B, NEW V, NEW f \in [A -> [B -> V]], NEW a, NEW b, NEW v \in V
  PROVE  [f EXCEPT ![a][b] = v] \in [A -> [B -> V]]
  OBVIOUS

(* Setting one thread leaves the threads well formed. *)
LEMMA SetThread ==
  ASSUME NEW f \in ThreadTable, NEW a, NEW b, NEW v \in Thread
  PROVE  [f EXCEPT ![a][b] = v] \in ThreadTable
  BY Except2 DEF ThreadTable

(* Setting the program counter of one thread does so too. *)
LEMMA SetPc ==
  ASSUME NEW f \in ThreadTable, NEW a \in Servers, NEW b \in Conns,
         NEW p \in ThreadPc
  PROVE  [f EXCEPT ![a][b].pc = p] \in ThreadTable
<1>1. f[a][b] \in Thread
  BY DEF ThreadTable
<1>2. [f[a][b] EXCEPT !.pc = p] \in Thread
  BY <1>1 DEF Thread
<1>3. [f EXCEPT ![a][b].pc = p] = [f EXCEPT ![a][b] = [f[a][b] EXCEPT !.pc = p]]
  OBVIOUS
<1> QED BY <1>2, <1>3, SetThread

(* So does setting it together with the thread at the other end. *)
LEMMA SetPcAndThread ==
  ASSUME NEW f \in ThreadTable, NEW a \in Servers, NEW b \in Conns,
         NEW p \in ThreadPc, NEW c, NEW d, NEW v \in Thread
  PROVE  [f EXCEPT ![a][b].pc = p, ![c][d] = v] \in ThreadTable
<1>1. [f EXCEPT ![a][b].pc = p, ![c][d] = v]
        = [[f EXCEPT ![a][b].pc = p] EXCEPT ![c][d] = v]
  OBVIOUS
<1> QED BY <1>1, SetPc, SetThread

(* A new call of update leaves the calls well formed. *)
LEMMA SetUpdate ==
  ASSUME NEW f \in UpdateTable, NEW a, NEW b, NEW v \in UpdateCall
  PROVE  [f EXCEPT ![a][b] = v] \in UpdateTable
  BY Except2 DEF UpdateTable

(* So does the return of one. *)
LEMMA SetUpdatePc ==
  ASSUME NEW f \in UpdateTable, NEW a \in Servers, NEW b \in Callers
  PROVE  [f EXCEPT ![a][b].pc = "idle"] \in UpdateTable
<1>1. f[a][b] \in UpdateCall
  BY DEF UpdateTable
<1>2. [f[a][b] EXCEPT !.pc = "idle"] \in UpdateCall
  BY <1>1 DEF UpdateCall
<1>3. [f EXCEPT ![a][b].pc = "idle"]
        = [f EXCEPT ![a][b] = [f[a][b] EXCEPT !.pc = "idle"]]
  OBVIOUS
<1> QED BY <1>2, <1>3, SetUpdate

(* So does the predecessor that init_list has picked. *)
LEMMA SetUpdateTo ==
  ASSUME NEW f \in UpdateTable, NEW a \in Servers, NEW b \in Callers,
         NEW t \in 0 .. N
  PROVE  [f EXCEPT ![a][b].to = t] \in UpdateTable
<1>1. f[a][b] \in UpdateCall
  BY DEF UpdateTable
<1>2. [f[a][b] EXCEPT !.to = t] \in UpdateCall
  BY <1>1 DEF UpdateCall
<1>3. [f EXCEPT ![a][b].to = t] = [f EXCEPT ![a][b] = [f[a][b] EXCEPT !.to = t]]
  OBVIOUS
<1> QED BY <1>2, <1>3, SetUpdate

(* The two values of a thread that has no request. *)
LEMMA IdleThreads == NoThread \in Thread /\ Waiting \in Thread
  BY DEF NoThread, Waiting, Thread, ThreadPc, HoldsList

(* What is left of a thread that has answered. *)
LEMMA AfterReplyType == \A t, o : AfterReply(t, o) \in Thread
  BY IdleThreads DEF AfterReply

(* update has two callers. *)
LEMMA MainIsCaller == Main \in Callers /\ Zk \in Callers
  BY DEF Callers

(* One more failure leaves their record well formed. *)
LEMMA CountFailure ==
  ASSUME faults \in Failures, faults.n < MaxFaults, NEW kind,
         faults' = [n |-> faults.n + 1,
                    expired |-> faults.expired \/ kind = "expire"]
  PROVE  faults' \in Failures
<1>1. MaxFaults \in Nat
  BY ChainAssumption
<1>2. faults.n + 1 \in 0 .. MaxFaults
  BY <1>1 DEF Failures
<1>3. (faults.expired \/ kind = "expire") \in BOOLEAN
  OBVIOUS
<1> QED BY <1>2, <1>3 DEF Failures

(* Every step of the chain keeps the type invariant. *)
LEMMA TypeNext == TypeOK /\ HoldersHaveWrites /\ [Next]_vars => TypeOK'
<1> SUFFICES ASSUME TypeOK, HoldersHaveWrites, [Next]_vars PROVE TypeOK'
  OBVIOUS
<1> USE DEF TypeOK
<1>1. ASSUME NEW s \in Servers, Register(s) PROVE TypeOK'
  <2> USE <1>1 DEF Register, SetChildren, server, zookeeper, threads, lists,
     clients
  <2>1. ServerTypeOK'
    BY DEF ServerTypeOK, MainPc
  <2>2. ZooKeeperTypeOK'
    BY DEF ZooKeeperTypeOK
  <2>3. ThreadTypeOK'
    BY DEF ThreadTypeOK
  <2>4. ClientTypeOK'
    BY DEF ClientTypeOK
  <2> QED BY <2>1, <2>2, <2>3, <2>4
<1>2. ASSUME NEW s \in Servers, GetChildren(s) PROVE TypeOK'
  <2> USE <1>2 DEF GetChildren, Fail, FailsIf, server, zookeeper, threads,
     lists, clients
  <2>1. ServerTypeOK'
    <3>1. upd' \in UpdateTable
      <4>0. upd \in UpdateTable
        BY DEF ServerTypeOK, UpdateTable
      <4>1. [pc |-> "lock", kids |-> children, to |-> 0] \in UpdateCall
        BY ChainAssumption DEF UpdateCall, ZooKeeperTypeOK
      <4>2. \/ upd' = [upd EXCEPT ![s][Main] =
                           [pc |-> "lock", kids |-> children, to |-> 0]]
            \/ upd' = upd
        OBVIOUS
      <4> QED BY ONLY <4>0, <4>1, <4>2 DEF UpdateTable
    <3>2. main' \in [Servers -> MainPc]
      BY DEF ServerTypeOK, MainPc
    <3>5. rl_next' \in [Servers -> 0 .. N]
      BY ChainAssumption DEF ServerTypeOK, Servers
    <3>3. rls_lock' \in [Servers -> Conns \cup Callers \cup {Free}]
      BY DEF ServerTypeOK
    <3>4. faults' \in Failures
      BY ChainAssumption DEF ServerTypeOK, Failures
    <3> QED BY <3>1, <3>2, <3>3, <3>4, <3>5 DEF ServerTypeOK, UpdateTable
  <2>2. ZooKeeperTypeOK'
    BY DEF ZooKeeperTypeOK
  <2>3. ThreadTypeOK'
    BY DEF ThreadTypeOK
  <2>4. ClientTypeOK'
    BY DEF ClientTypeOK
  <2> QED BY <2>1, <2>2, <2>3, <2>4
<1>3. ASSUME NEW s \in Servers, init_list(s) PROVE TypeOK'
  <2> USE <1>3 DEF init_list, Fail, FailsIf, server, zookeeper, threads,
     lists, clients
  <2>1. ServerTypeOK'
    <3>1. upd' \in UpdateTable
      <4>0. upd \in UpdateTable
        BY DEF ServerTypeOK, UpdateTable
      <4>1. upd[s][Main].kids \subseteq 0 .. N
        BY <4>0, MainIsCaller DEF UpdateTable, UpdateCall, Servers
      <4> QED BY <4>0, <4>1, SetUpdateTo, MainIsCaller
    <3>2. main' \in [Servers -> MainPc]
      BY DEF ServerTypeOK, MainPc
    <3>5. rl_next' \in [Servers -> 0 .. N]
      BY ChainAssumption DEF ServerTypeOK, Servers
    <3>3. rls_lock' \in [Servers -> Conns \cup Callers \cup {Free}]
      BY DEF ServerTypeOK
    <3>4. faults' \in Failures
      BY ChainAssumption DEF ServerTypeOK, Failures
    <3> QED BY <3>1, <3>2, <3>3, <3>4, <3>5 DEF ServerTypeOK, UpdateTable
  <2>2. ZooKeeperTypeOK'
    BY DEF ZooKeeperTypeOK
  <2>3. ThreadTypeOK'
    BY DEF ThreadTypeOK
  <2>4. ClientTypeOK'
    BY DEF ClientTypeOK
  <2> QED BY <2>1, <2>2, <2>3, <2>4
<1>4. ASSUME NEW s \in Servers, ConnectPrevious(s) PROVE TypeOK'
  <2> USE <1>4 DEF ConnectPrevious, Fail, Refuses, server, zookeeper, threads,
     lists, clients
  <2>1. ServerTypeOK'
    <3>1. upd' \in UpdateTable
      BY DEF ServerTypeOK, UpdateTable
    <3>2. main' \in [Servers -> MainPc]
      BY DEF ServerTypeOK, MainPc
    <3>5. rl_next' \in [Servers -> 0 .. N]
      BY ChainAssumption DEF ServerTypeOK, Servers
    <3>3. rls_lock' \in [Servers -> Conns \cup Callers \cup {Free}]
      BY DEF ServerTypeOK
    <3>4. faults' \in Failures
      BY ChainAssumption DEF ServerTypeOK, Failures
    <3> QED BY <3>1, <3>2, <3>3, <3>4, <3>5 DEF ServerTypeOK, UpdateTable
  <2>2. ZooKeeperTypeOK'
    BY DEF ZooKeeperTypeOK
  <2>3. ThreadTypeOK'
    <3>1. thr' \in ThreadTable
      <4>0. thr \in ThreadTable
        BY DEF ThreadTypeOK, ThreadTable
      <4>1. [pc |-> "got", req |-> FETCH] \in Thread
        BY DEF Thread, ThreadPc
      <4>2. \/ \E t, p : thr' = [thr EXCEPT ![t][p] = [pc |-> "got", req |-> FETCH]]
            \/ thr' = thr
        OBVIOUS
      <4> QED BY ONLY <4>0, <4>1, <4>2 DEF ThreadTable
    <3>2. /\ lock_list' \in [Servers -> Conns \cup {Free}]
          /\ hist' \in [Servers -> Seq(Requests)]
          /\ seen' \in [Servers -> Seq(Requests)]
      BY DEF ThreadTypeOK
    <3> QED BY <3>1, <3>2 DEF ThreadTypeOK, ThreadTable
  <2>4. ClientTypeOK'
    BY DEF ClientTypeOK
  <2> QED BY <2>1, <2>2, <2>3, <2>4
<1>5. ASSUME NEW s \in Servers, LoadList(s) PROVE TypeOK'
  <2> USE <1>5 DEF LoadList, server, zookeeper, threads, lists, clients
  <2>1. ServerTypeOK'
    BY DEF ServerTypeOK, MainPc
  <2>2. ZooKeeperTypeOK'
    BY DEF ZooKeeperTypeOK
  <2>3. ThreadTypeOK'
    <3>1. thr' \in ThreadTable
      <4>0. thr \in ThreadTable
        BY DEF ThreadTypeOK, ThreadTable
      <4>1. (\E t, p : thr' = [thr EXCEPT ![t][p] = NoThread]) \/ thr' = thr
        OBVIOUS
      <4> QED BY ONLY <4>0, <4>1, IdleThreads DEF ThreadTable
    <3>2. /\ lock_list' \in [Servers -> Conns \cup {Free}]
          /\ hist' \in [Servers -> Seq(Requests)]
          /\ seen' \in [Servers -> Seq(Requests)]
      BY DEF ThreadTypeOK
    <3> QED BY <3>1, <3>2 DEF ThreadTypeOK, ThreadTable
  <2>4. ClientTypeOK'
    BY DEF ClientTypeOK
  <2> QED BY <2>1, <2>2, <2>3, <2>4
<1>6. ASSUME NEW s \in Servers, child_watcher(s) PROVE TypeOK'
  <2> USE <1>6 DEF child_watcher, Fail, FailsIf, server, zookeeper, threads,
     lists, clients
  <2>1. ServerTypeOK'
    <3>1. upd' \in UpdateTable
      <4>0. upd \in UpdateTable
        BY DEF ServerTypeOK, UpdateTable
      <4>1. [pc |-> "lock", kids |-> children, to |-> 0] \in UpdateCall
        BY ChainAssumption DEF UpdateCall, ZooKeeperTypeOK
      <4>2. \/ upd' = [upd EXCEPT ![s][Zk] =
                           [pc |-> "lock", kids |-> children, to |-> 0]]
            \/ upd' = upd
        OBVIOUS
      <4> QED BY ONLY <4>0, <4>1, <4>2 DEF UpdateTable
    <3>2. main' \in [Servers -> MainPc]
      BY DEF ServerTypeOK, MainPc
    <3>5. rl_next' \in [Servers -> 0 .. N]
      BY ChainAssumption DEF ServerTypeOK, Servers
    <3>3. rls_lock' \in [Servers -> Conns \cup Callers \cup {Free}]
      BY DEF ServerTypeOK
    <3>4. faults' \in Failures
      BY ChainAssumption DEF ServerTypeOK, Failures
    <3> QED BY <3>1, <3>2, <3>3, <3>4, <3>5 DEF ServerTypeOK, UpdateTable
  <2>2. ZooKeeperTypeOK'
    BY DEF ZooKeeperTypeOK
  <2>3. ThreadTypeOK'
    BY DEF ThreadTypeOK
  <2>4. ClientTypeOK'
    BY DEF ClientTypeOK
  <2> QED BY <2>1, <2>2, <2>3, <2>4
<1>7. ASSUME NEW s \in Servers, Stop(s) PROVE TypeOK'
  <2> USE <1>7 DEF Stop, Fail, server, zookeeper, threads, lists, clients
  <2>1. ServerTypeOK'
    <3>1. faults' \in Failures
      BY CountFailure DEF ServerTypeOK
    <3> QED BY <3>1 DEF ServerTypeOK, MainPc
  <2>2. ZooKeeperTypeOK'
    BY DEF ZooKeeperTypeOK
  <2>3. ThreadTypeOK'
    BY DEF ThreadTypeOK
  <2>4. ClientTypeOK'
    BY DEF ClientTypeOK
  <2> QED BY <2>1, <2>2, <2>3, <2>4
<1>8. ASSUME NEW s \in Servers, zoo_clean_server(s) PROVE TypeOK'
  <2> USE <1>8 DEF zoo_clean_server, Disconnect, server, zookeeper, threads,
     lists, clients
  <2>1. ServerTypeOK'
    BY ChainAssumption DEF ServerTypeOK, MainPc
  <2>2. ZooKeeperTypeOK'
    BY DEF ZooKeeperTypeOK
  <2>3. ThreadTypeOK'
    <3>1. thr' \in ThreadTable
      <4>0. thr \in ThreadTable
        BY DEF ThreadTypeOK, ThreadTable
      <4>1. (\E t, p : thr' = [thr EXCEPT ![t][p] = NoThread]) \/ thr' = thr
        OBVIOUS
      <4> QED BY ONLY <4>0, <4>1, IdleThreads DEF ThreadTable
    <3>2. /\ lock_list' \in [Servers -> Conns \cup {Free}]
          /\ hist' \in [Servers -> Seq(Requests)]
          /\ seen' \in [Servers -> Seq(Requests)]
      BY DEF ThreadTypeOK
    <3> QED BY <3>1, <3>2 DEF ThreadTypeOK, ThreadTable
  <2>4. ClientTypeOK'
    BY DEF ClientTypeOK
  <2> QED BY <2>1, <2>2, <2>3, <2>4
<1>9. ASSUME NEW s \in Servers, Exit(s) PROVE TypeOK'
  <2> USE <1>9 DEF Exit, ProcessEnds, LoseSession, server, zookeeper, threads,
     lists, clients
  <2>1. ServerTypeOK'
    <3>1. upd' \in UpdateTable
      <4>0. upd \in UpdateTable
        BY DEF ServerTypeOK, UpdateTable
      <4>1. [w \in Callers |-> [upd[s][w] EXCEPT !.pc = "idle"]] \in [Callers -> UpdateCall]
        <5>1. \A w \in Callers : upd[s][w] \in UpdateCall
          BY <4>0 DEF UpdateTable
        <5>2. \A u \in UpdateCall : [u EXCEPT !.pc = "idle"] \in UpdateCall
          BY ONLY TRUE DEF UpdateCall
        <5> QED BY ONLY <5>1, <5>2
      <4> QED BY <4>0, <4>1 DEF UpdateTable
    <3>2. main' \in [Servers -> MainPc]
      BY DEF ServerTypeOK, MainPc
    <3>5. rl_next' \in [Servers -> 0 .. N]
      BY ChainAssumption DEF ServerTypeOK, Servers
    <3>3. rls_lock' \in [Servers -> Conns \cup Callers \cup {Free}]
      BY DEF ServerTypeOK
    <3>4. faults' \in Failures
      BY ChainAssumption DEF ServerTypeOK, Failures
    <3> QED BY <3>1, <3>2, <3>3, <3>4, <3>5 DEF ServerTypeOK, UpdateTable
  <2>2. ZooKeeperTypeOK'
    BY DEF ZooKeeperTypeOK
  <2>3. ThreadTypeOK'
    BY IdleThreads DEF ThreadTypeOK
  <2>4. ClientTypeOK'
    BY DEF ClientTypeOK
  <2> QED BY <2>1, <2>2, <2>3, <2>4
<1>10. ASSUME NEW s \in Servers, Crash(s) PROVE TypeOK'
  <2> USE <1>10 DEF Crash, ProcessEnds, Fail, server, zookeeper, threads,
     lists, clients
  <2>1. ServerTypeOK'
    <3>1. upd' \in UpdateTable
      <4>0. upd \in UpdateTable
        BY DEF ServerTypeOK, UpdateTable
      <4>1. [w \in Callers |-> [upd[s][w] EXCEPT !.pc = "idle"]] \in [Callers -> UpdateCall]
        <5>1. \A w \in Callers : upd[s][w] \in UpdateCall
          BY <4>0 DEF UpdateTable
        <5>2. \A u \in UpdateCall : [u EXCEPT !.pc = "idle"] \in UpdateCall
          BY ONLY TRUE DEF UpdateCall
        <5> QED BY ONLY <5>1, <5>2
      <4> QED BY <4>0, <4>1 DEF UpdateTable
    <3>2. main' \in [Servers -> MainPc]
      BY DEF ServerTypeOK, MainPc
    <3>5. rl_next' \in [Servers -> 0 .. N]
      BY ChainAssumption DEF ServerTypeOK, Servers
    <3>3. rls_lock' \in [Servers -> Conns \cup Callers \cup {Free}]
      BY DEF ServerTypeOK
    <3>4. faults' \in Failures
      BY ChainAssumption DEF ServerTypeOK, Failures
    <3> QED BY <3>1, <3>2, <3>3, <3>4, <3>5 DEF ServerTypeOK, UpdateTable
  <2>2. ZooKeeperTypeOK'
    BY DEF ZooKeeperTypeOK
  <2>3. ThreadTypeOK'
    BY IdleThreads DEF ThreadTypeOK
  <2>4. ClientTypeOK'
    BY DEF ClientTypeOK
  <2> QED BY <2>1, <2>2, <2>3, <2>4
<1>11. ASSUME NEW s \in Servers, Expire(s) PROVE TypeOK'
  <2> USE <1>11 DEF Expire, LoseSession, FailsIf, Fail, server, zookeeper,
     threads, lists, clients
  <2>1. ServerTypeOK'
    <3>1. faults' \in Failures
      BY CountFailure DEF ServerTypeOK
    <3> QED BY <3>1 DEF ServerTypeOK
  <2>2. ZooKeeperTypeOK'
    BY DEF ZooKeeperTypeOK
  <2>3. ThreadTypeOK'
    BY DEF ThreadTypeOK
  <2>4. ClientTypeOK'
    BY DEF ClientTypeOK
  <2> QED BY <2>1, <2>2, <2>3, <2>4
<1>12. ASSUME NEW s \in Servers, NEW w \in Callers, Update(s, w) PROVE TypeOK'
  <2> USE <1>12 DEF Update, Disconnect, UpdateDone, FailsIf, Fail, IsNext,
     server, zookeeper, threads, lists, clients
  <2>1. ServerTypeOK'
    <3>1. upd' \in UpdateTable
      <4>0. upd \in UpdateTable
        BY DEF ServerTypeOK, UpdateTable
      <4>1. upd[s][w].kids \subseteq 0 .. N /\ upd[s][w].kids \in SUBSET Servers
        BY <4>0 DEF UpdateTable, UpdateCall, Servers
      <4>2. \A t \in upd[s][w].kids :
              [pc |-> "conn", kids |-> upd[s][w].kids, to |-> t] \in UpdateCall
        BY <4>1 DEF UpdateCall
      <4>3. \/ upd' = [upd EXCEPT ![s][w].pc = "idle"]
            \/ \E t \in upd[s][w].kids :
                 upd' = [upd EXCEPT ![s][w] =
                           [pc |-> "conn", kids |-> upd[s][w].kids, to |-> t]]
        OBVIOUS
      <4> QED BY <4>0, <4>2, <4>3, SetUpdate, SetUpdatePc
    <3>2. main' \in [Servers -> MainPc]
      BY DEF ServerTypeOK, MainPc
    <3>5. rl_next' \in [Servers -> 0 .. N]
      <4>1. rl_next' = rl_next \/ rl_next' = [rl_next EXCEPT ![s] = 0]
        OBVIOUS
      <4>2. rl_next \in [Servers -> 0 .. N]
        BY DEF ServerTypeOK
      <4> QED BY ONLY <4>1, <4>2, ChainAssumption
    <3>3. rls_lock' \in [Servers -> Conns \cup Callers \cup {Free}]
      BY DEF ServerTypeOK
    <3>4. faults' \in Failures
      <4>1. faults \in Failures
        BY DEF ServerTypeOK
      <4>2. \/ faults' = faults
            \/ /\ faults.n < MaxFaults
               /\ faults' = [n |-> faults.n + 1,
                             expired |-> faults.expired \/ "zk" = "expire"]
        OBVIOUS
      <4> QED BY <4>1, <4>2, CountFailure
    <3> QED BY <3>1, <3>2, <3>3, <3>4, <3>5 DEF ServerTypeOK, UpdateTable
  <2>2. ZooKeeperTypeOK'
    BY DEF ZooKeeperTypeOK
  <2>3. ThreadTypeOK'
    <3>1. thr' \in ThreadTable
      <4>0. thr \in ThreadTable
        BY DEF ThreadTypeOK, ThreadTable
      <4>1. (\E t, p : thr' = [thr EXCEPT ![t][p] = NoThread]) \/ thr' = thr
        OBVIOUS
      <4> QED BY ONLY <4>0, <4>1, IdleThreads DEF ThreadTable
    <3>2. /\ lock_list' \in [Servers -> Conns \cup {Free}]
          /\ hist' \in [Servers -> Seq(Requests)]
          /\ seen' \in [Servers -> Seq(Requests)]
      BY DEF ThreadTypeOK
    <3> QED BY <3>1, <3>2 DEF ThreadTypeOK, ThreadTable
  <2>4. ClientTypeOK'
    BY DEF ClientTypeOK
  <2> QED BY <2>1, <2>2, <2>3, <2>4
<1>13. ASSUME NEW s \in Servers, NEW w \in Callers, UpdateConnect(s, w) PROVE TypeOK'
  <2> USE <1>13 DEF UpdateConnect, UpdateDone, Refuses, Fail, server,
     zookeeper, threads, lists, clients
  <2>1. ServerTypeOK'
    <3>1. upd' \in UpdateTable
      <4>0. upd \in UpdateTable
        BY DEF ServerTypeOK, UpdateTable
      <4> QED BY <4>0, SetUpdatePc
    <3>2. main' \in [Servers -> MainPc]
      BY DEF ServerTypeOK, MainPc
    <3>5. rl_next' \in [Servers -> 0 .. N]
      <4>1. upd[s][w].to \in 0 .. N
        BY DEF ServerTypeOK, UpdateCall
      <4> QED BY <4>1 DEF ServerTypeOK
    <3>3. rls_lock' \in [Servers -> Conns \cup Callers \cup {Free}]
      BY DEF ServerTypeOK
    <3>4. faults' \in Failures
      BY ChainAssumption DEF ServerTypeOK, Failures
    <3> QED BY <3>1, <3>2, <3>3, <3>4, <3>5 DEF ServerTypeOK, UpdateTable
  <2>2. ZooKeeperTypeOK'
    BY DEF ZooKeeperTypeOK
  <2>3. ThreadTypeOK'
    <3>1. thr' \in ThreadTable
      <4>0. thr \in ThreadTable
        BY DEF ThreadTypeOK, ThreadTable
      <4>1. (\E t, p : thr' = [thr EXCEPT ![t][p] = Waiting]) \/ thr' = thr
        OBVIOUS
      <4> QED BY ONLY <4>0, <4>1, IdleThreads DEF ThreadTable
    <3>2. /\ lock_list' \in [Servers -> Conns \cup {Free}]
          /\ hist' \in [Servers -> Seq(Requests)]
          /\ seen' \in [Servers -> Seq(Requests)]
      BY DEF ThreadTypeOK
    <3> QED BY <3>1, <3>2 DEF ThreadTypeOK, ThreadTable
  <2>4. ClientTypeOK'
    BY DEF ClientTypeOK
  <2> QED BY <2>1, <2>2, <2>3, <2>4
<1>14. ASSUME NEW s \in Servers, NEW o \in Conns, TakeListLock(s, o) PROVE TypeOK'
  <2> USE <1>14 DEF TakeListLock, server, zookeeper, threads, lists, clients
  <2>1. ServerTypeOK'
    BY DEF ServerTypeOK
  <2>2. ZooKeeperTypeOK'
    BY DEF ZooKeeperTypeOK
  <2>3. ThreadTypeOK'
    <3>1. thr' \in ThreadTable
      <4>0. thr \in ThreadTable
        BY DEF ThreadTypeOK, ThreadTable
      <4> QED BY <4>0, SetPc DEF ThreadPc, HoldsList
    <3>2. /\ lock_list' \in [Servers -> Conns \cup {Free}]
          /\ hist' \in [Servers -> Seq(Requests)]
          /\ seen' \in [Servers -> Seq(Requests)]
      BY DEF ThreadTypeOK
    <3> QED BY <3>1, <3>2 DEF ThreadTypeOK, ThreadTable
  <2>4. ClientTypeOK'
    BY DEF ClientTypeOK
  <2> QED BY <2>1, <2>2, <2>3, <2>4
<1>15. ASSUME NEW s \in Servers, NEW o \in Conns, Read(s, o) PROVE TypeOK'
  <2> USE <1>15 DEF Read, server, zookeeper, threads, lists, clients
  <2>1. ServerTypeOK'
    BY DEF ServerTypeOK
  <2>2. ZooKeeperTypeOK'
    BY DEF ZooKeeperTypeOK
  <2>3. ThreadTypeOK'
    <3>1. thr' \in ThreadTable
      <4>0. thr \in ThreadTable
        BY DEF ThreadTypeOK, ThreadTable
      <4> QED BY <4>0, SetPc DEF ThreadPc, HoldsList
    <3>2. /\ lock_list' \in [Servers -> Conns \cup {Free}]
          /\ hist' \in [Servers -> Seq(Requests)]
          /\ seen' \in [Servers -> Seq(Requests)]
      BY DEF ThreadTypeOK
    <3> QED BY <3>1, <3>2 DEF ThreadTypeOK, ThreadTable
  <2>4. ClientTypeOK'
    BY DEF ClientTypeOK
  <2> QED BY <2>1, <2>2, <2>3, <2>4
<1>16. ASSUME NEW s \in Servers, NEW o \in Conns, Forward(s, o) PROVE TypeOK'
  <2> USE <1>16 DEF Forward, server, zookeeper, threads, lists, clients
  <2>1. ServerTypeOK'
    BY DEF ServerTypeOK
  <2>2. ZooKeeperTypeOK'
    BY DEF ZooKeeperTypeOK
  <2>3. ThreadTypeOK'
    <3>1. thr' \in ThreadTable
      <4>0. thr \in ThreadTable
        BY DEF ThreadTypeOK, ThreadTable
      <4>1. [pc |-> "got", req |-> thr[s][o].req] \in Thread
        BY <4>0 DEF ThreadTable, Thread, ThreadPc
      <4>2. \/ \E p \in {"local", "error"} : thr' = [thr EXCEPT ![s][o].pc = p]
            \/ thr' = [thr EXCEPT ![s][o].pc = "fwd",
                         ![rl_next[s]][NextConn(s)] =
                            [pc |-> "got", req |-> thr[s][o].req]]
        OBVIOUS
      <4>3. {"local", "error", "fwd"} \subseteq ThreadPc
        BY DEF ThreadPc, HoldsList
      <4>4. \A p \in ThreadPc : [thr EXCEPT ![s][o].pc = p] \in ThreadTable
        BY ONLY <4>0, SetPc, s \in Servers, o \in Conns
      <4>5. [thr EXCEPT ![s][o].pc = "fwd", ![rl_next[s]][NextConn(s)] =
                            [pc |-> "got", req |-> thr[s][o].req]] \in ThreadTable
        BY ONLY <4>0, <4>1, <4>3, SetPcAndThread, s \in Servers, o \in Conns
      <4> QED BY ONLY <4>2, <4>3, <4>4, <4>5
    <3>2. /\ lock_list' \in [Servers -> Conns \cup {Free}]
          /\ hist' \in [Servers -> Seq(Requests)]
          /\ seen' \in [Servers -> Seq(Requests)]
      BY DEF ThreadTypeOK
    <3> QED BY <3>1, <3>2 DEF ThreadTypeOK, ThreadTable
  <2>4. ClientTypeOK'
    BY DEF ClientTypeOK
  <2> QED BY <2>1, <2>2, <2>3, <2>4
<1>17. ASSUME NEW s \in Servers, NEW o \in Conns, ForwardReturns(s, o) PROVE TypeOK'
  <2> USE <1>17 DEF ForwardReturns, server, zookeeper, threads, lists, clients
  <2>1. ServerTypeOK'
    BY DEF ServerTypeOK
  <2>2. ZooKeeperTypeOK'
    BY DEF ZooKeeperTypeOK
  <2>3. ThreadTypeOK'
    <3>1. thr' \in ThreadTable
      <4>0. thr \in ThreadTable
        BY DEF ThreadTypeOK, ThreadTable
      <4>1. PICK p \in {"apply", "error"} :
              thr' = [thr EXCEPT ![s][o].pc = p,
                        ![rl_next[s]][NextConn(s)] = AfterReply(rl_next[s], NextConn(s))]
        OBVIOUS
      <4>2. p \in ThreadPc
        BY DEF ThreadPc, HoldsList
      <4>3. [thr EXCEPT ![s][o].pc = p,
               ![rl_next[s]][NextConn(s)] = AfterReply(rl_next[s], NextConn(s))]
              \in ThreadTable
        BY ONLY <4>0, <4>2, AfterReplyType, SetPcAndThread, s \in Servers,
           o \in Conns
      <4> QED BY ONLY <4>1, <4>3
    <3>2. /\ lock_list' \in [Servers -> Conns \cup {Free}]
          /\ hist' \in [Servers -> Seq(Requests)]
          /\ seen' \in [Servers -> Seq(Requests)]
      BY DEF ThreadTypeOK
    <3> QED BY <3>1, <3>2 DEF ThreadTypeOK, ThreadTable
  <2>4. ClientTypeOK'
    BY DEF ClientTypeOK
  <2> QED BY <2>1, <2>2, <2>3, <2>4
<1>18. ASSUME NEW s \in Servers, NEW o \in Conns, Apply(s, o) PROVE TypeOK'
  <2> USE <1>18 DEF Apply, server, zookeeper, threads, lists, clients
  <2>1. ServerTypeOK'
    BY DEF ServerTypeOK
  <2>2. ZooKeeperTypeOK'
    BY DEF ZooKeeperTypeOK
  <2>3. ThreadTypeOK'
    <3>1. thr' \in ThreadTable
      <4>0. thr \in ThreadTable
        BY DEF ThreadTypeOK, ThreadTable
      <4> QED BY <4>0, SetPc DEF ThreadPc, HoldsList
    <3>2. /\ lock_list' \in [Servers -> Conns \cup {Free}]
          /\ hist' \in [Servers -> Seq(Requests)]
          /\ seen' \in [Servers -> Seq(Requests)]
      <4>1. thr[s][o].req \in Requests
        BY DEF HoldersHaveWrites, HoldsList, Writes
      <4> QED BY <4>1 DEF ThreadTypeOK
    <3> QED BY <3>1, <3>2 DEF ThreadTypeOK, ThreadTable
  <2>4. ClientTypeOK'
    BY DEF ClientTypeOK
  <2> QED BY <2>1, <2>2, <2>3, <2>4
<1>19. ASSUME NEW s \in Servers, NEW o \in Conns, Refuse(s, o) PROVE TypeOK'
  <2> USE <1>19 DEF Refuse, server, zookeeper, threads, lists, clients
  <2>1. ServerTypeOK'
    BY DEF ServerTypeOK
  <2>2. ZooKeeperTypeOK'
    BY DEF ZooKeeperTypeOK
  <2>3. ThreadTypeOK'
    <3>1. thr' \in ThreadTable
      <4>0. thr \in ThreadTable
        BY DEF ThreadTypeOK, ThreadTable
      <4> QED BY <4>0, SetPc DEF ThreadPc, HoldsList
    <3>2. /\ lock_list' \in [Servers -> Conns \cup {Free}]
          /\ hist' \in [Servers -> Seq(Requests)]
          /\ seen' \in [Servers -> Seq(Requests)]
      BY DEF ThreadTypeOK
    <3> QED BY <3>1, <3>2 DEF ThreadTypeOK, ThreadTable
  <2>4. ClientTypeOK'
    BY DEF ClientTypeOK
  <2> QED BY <2>1, <2>2, <2>3, <2>4
<1>20. ASSUME NEW s \in Servers, NEW o \in Conns, Hangup(s, o) PROVE TypeOK'
  <2> USE <1>20 DEF Hangup, server, zookeeper, threads, lists, clients
  <2>1. ServerTypeOK'
    BY DEF ServerTypeOK
  <2>2. ZooKeeperTypeOK'
    BY DEF ZooKeeperTypeOK
  <2>3. ThreadTypeOK'
    BY IdleThreads DEF ThreadTypeOK
  <2>4. ClientTypeOK'
    BY DEF ClientTypeOK
  <2> QED BY <2>1, <2>2, <2>3, <2>4
<1>21. ASSUME NEW c \in Clients, NEW r \in Requests, ClientSend(c, r) PROVE TypeOK'
  <2> USE <1>21 DEF ClientSend, Finish, Killed, EndOf, server, zookeeper, threads,
     lists, clients
  <2>1. ServerTypeOK'
    BY DEF ServerTypeOK
  <2>2. ZooKeeperTypeOK'
    BY DEF ZooKeeperTypeOK
  <2>3. ThreadTypeOK'
    <3>1. thr' \in ThreadTable
      <4>0. thr \in ThreadTable
        BY DEF ThreadTypeOK, ThreadTable
      <4>1. [pc |-> "got", req |-> r] \in Thread
        BY DEF Thread, ThreadPc
      <4>2. \/ \E t, p : thr' = [thr EXCEPT ![t][p] = [pc |-> "got", req |-> r]]
            \/ thr' = thr
        OBVIOUS
      <4> QED BY ONLY <4>0, <4>1, <4>2 DEF ThreadTable
    <3>2. /\ lock_list' \in [Servers -> Conns \cup {Free}]
          /\ hist' \in [Servers -> Seq(Requests)]
          /\ seen' \in [Servers -> Seq(Requests)]
      BY DEF ThreadTypeOK
    <3> QED BY <3>1, <3>2 DEF ThreadTypeOK, ThreadTable
  <2>4. ClientTypeOK'
    BY DEF ClientTypeOK, Client, ClientUpdateCall
  <2> QED BY <2>1, <2>2, <2>3, <2>4
<1>22. ASSUME NEW c \in Clients, ClientReceive(c) PROVE TypeOK'
  <2> USE <1>22 DEF ClientReceive, Finish, EndOf, server, zookeeper, threads,
     lists, clients
  <2>1. ServerTypeOK'
    BY DEF ServerTypeOK
  <2>2. ZooKeeperTypeOK'
    BY DEF ZooKeeperTypeOK
  <2>3. ThreadTypeOK'
    <3>1. thr' \in ThreadTable
      <4>0. thr \in ThreadTable
        BY DEF ThreadTypeOK, ThreadTable
      <4> QED BY <4>0, SetThread, AfterReplyType
    <3>2. /\ lock_list' \in [Servers -> Conns \cup {Free}]
          /\ hist' \in [Servers -> Seq(Requests)]
          /\ seen' \in [Servers -> Seq(Requests)]
      BY DEF ThreadTypeOK
    <3> QED BY <3>1, <3>2 DEF ThreadTypeOK, ThreadTable
  <2>4. ClientTypeOK'
    BY DEF ClientTypeOK, Client
  <2> QED BY <2>1, <2>2, <2>3, <2>4
<1>23. ASSUME NEW c \in Clients, ClientWatcher(c) PROVE TypeOK'
  <2> USE <1>23 DEF ClientWatcher, server, zookeeper, threads, lists, clients
  <2>1. ServerTypeOK'
    BY DEF ServerTypeOK
  <2>2. ZooKeeperTypeOK'
    BY DEF ZooKeeperTypeOK
  <2>3. ThreadTypeOK'
    BY DEF ThreadTypeOK
  <2>4. ClientTypeOK'
    <3>0. cupd[c] \in ClientUpdateCall
      BY DEF ClientTypeOK
    <3>1. cupd' \in [Clients -> ClientUpdateCall]
      BY <3>0 DEF ClientTypeOK, ClientUpdateCall, ZooKeeperTypeOK
    <3>2. link' \in [Ends -> 0 .. N]
      BY DEF ClientTypeOK
    <3> QED BY <3>1, <3>2 DEF ClientTypeOK
  <2> QED BY <2>1, <2>2, <2>3, <2>4
<1>24. ASSUME NEW c \in Clients, ClientGet(c) PROVE TypeOK'
  <2> USE <1>24 DEF ClientGet, ClientLinked, server, zookeeper, threads,
     lists, clients
  <2>1. ServerTypeOK'
    BY DEF ServerTypeOK
  <2>2. ZooKeeperTypeOK'
    BY DEF ZooKeeperTypeOK
  <2>3. ThreadTypeOK'
    BY DEF ThreadTypeOK
  <2>4. ClientTypeOK'
    <3>0. cupd[c] \in ClientUpdateCall
      BY DEF ClientTypeOK
    <3>1. cupd' \in [Clients -> ClientUpdateCall]
      BY <3>0 DEF ClientTypeOK, ClientUpdateCall
    <3>2. link' \in [Ends -> 0 .. N]
      <4>1. link' = link \/ link' = [link EXCEPT ![EndConn(c, cupd[c].end)] = link[EndConn(c, cupd[c].end)]]
        OBVIOUS
      <4>2. link \in [Ends -> 0 .. N]
        BY DEF ClientTypeOK
      <4> QED BY ONLY <4>1, <4>2
    <3> QED BY <3>1, <3>2 DEF ClientTypeOK
  <2> QED BY <2>1, <2>2, <2>3, <2>4
<1>25. ASSUME NEW c \in Clients, ClientDisconnect(c) PROVE TypeOK'
  <2> USE <1>25 DEF ClientDisconnect, server, zookeeper, threads, lists, clients
  <2>1. ServerTypeOK'
    BY DEF ServerTypeOK
  <2>2. ZooKeeperTypeOK'
    BY DEF ZooKeeperTypeOK
  <2>3. ThreadTypeOK'
    <3>1. thr' \in ThreadTable
      <4>0. thr \in ThreadTable
        BY DEF ThreadTypeOK, ThreadTable
      <4>1. (\E t, p : thr' = [thr EXCEPT ![t][p] = NoThread]) \/ thr' = thr
        OBVIOUS
      <4> QED BY ONLY <4>0, <4>1, IdleThreads DEF ThreadTable
    <3>2. /\ lock_list' \in [Servers -> Conns \cup {Free}]
          /\ hist' \in [Servers -> Seq(Requests)]
          /\ seen' \in [Servers -> Seq(Requests)]
      BY DEF ThreadTypeOK
    <3> QED BY <3>1, <3>2 DEF ThreadTypeOK, ThreadTable
  <2>4. ClientTypeOK'
    <3>0. cupd[c] \in ClientUpdateCall
      BY DEF ClientTypeOK
    <3>1. cupd' \in [Clients -> ClientUpdateCall]
      BY <3>0 DEF ClientTypeOK, ClientUpdateCall
    <3>2. link' \in [Ends -> 0 .. N]
      <4>1. PICK o : link' = [link EXCEPT ![o] = 0]
        OBVIOUS
      <4>2. link \in [Ends -> 0 .. N]
        BY DEF ClientTypeOK
      <4>3. 0 \in 0 .. N
        BY ChainAssumption
      <4> QED BY ONLY <4>1, <4>2, <4>3
    <3> QED BY <3>1, <3>2 DEF ClientTypeOK
  <2> QED BY <2>1, <2>2, <2>3, <2>4
<1>26. ASSUME NEW c \in Clients, ClientConnect(c) PROVE TypeOK'
  <2> USE <1>26 DEF ClientConnect, ClientLinked, Refuses, Fail, IsEnd, server,
     zookeeper, threads, lists, clients
  <2>1. ServerTypeOK'
    BY ChainAssumption DEF ServerTypeOK, Failures
  <2>2. ZooKeeperTypeOK'
    BY DEF ZooKeeperTypeOK
  <2>3. ThreadTypeOK'
    <3>1. thr' \in ThreadTable
      <4>0. thr \in ThreadTable
        BY DEF ThreadTypeOK, ThreadTable
      <4>1. (\E t, p : thr' = [thr EXCEPT ![t][p] = Waiting]) \/ thr' = thr
        OBVIOUS
      <4> QED BY ONLY <4>0, <4>1, IdleThreads DEF ThreadTable
    <3>2. /\ lock_list' \in [Servers -> Conns \cup {Free}]
          /\ hist' \in [Servers -> Seq(Requests)]
          /\ seen' \in [Servers -> Seq(Requests)]
      BY DEF ThreadTypeOK
    <3> QED BY <3>1, <3>2 DEF ThreadTypeOK, ThreadTable
  <2>4. ClientTypeOK'
    <3>0. cupd[c] \in ClientUpdateCall
      BY DEF ClientTypeOK
    <3>1. cupd' \in [Clients -> ClientUpdateCall]
      BY <3>0 DEF ClientTypeOK, ClientUpdateCall
    <3>2. link' \in [Ends -> 0 .. N]
      BY <3>0, ChainAssumption DEF ClientTypeOK, ClientUpdateCall, Servers
    <3> QED BY <3>1, <3>2 DEF ClientTypeOK
  <2> QED BY <2>1, <2>2, <2>3, <2>4
<1>27. CASE UNCHANGED vars
  BY <1>27 DEF vars, server, zookeeper, threads, lists, clients, ServerTypeOK,
     ZooKeeperTypeOK, ThreadTypeOK, ClientTypeOK
<1> QED
  BY <1>1, <1>2, <1>3, <1>4, <1>5, <1>6, <1>7, <1>8, <1>9, <1>10, <1>11,
     <1>12, <1>13, <1>14, <1>15, <1>16, <1>17, <1>18, <1>19, <1>20, <1>21,
     <1>22, <1>23, <1>24, <1>25, <1>26, <1>27
  DEF Next, SystemStep, Environment, Quiet, MainStep, UpdateStep, ThreadStep,
     ClientStep

-----------------------------------------------------------------------------
(* What an update of the table of threads leaves at each connection. *)
LEMMA SetThreadAt ==
  ASSUME NEW f \in ThreadTable, NEW a, NEW b, NEW v, NEW g,
         g = [f EXCEPT ![a][b] = v]
  PROVE  \A x \in Servers, y \in Conns :
           g[x][y] = IF x = a /\ y = b THEN v ELSE f[x][y]
  BY DEF ThreadTable

-----------------------------------------------------------------------------
(***************************************************************************)
(* The locks, the links upwards and the answers to forwards.               *)
(***************************************************************************)

(* A process that is gone has no thread. *)
DeadHaveNoThreads ==
  \A s \in Servers, o \in Conns : main[s] = "down" => thr[s][o].pc = "none"

(* The thread of a "fetch" connection never has a write. *)
FetchersFetch ==
  \A s, t \in Servers : thr[t][FetchConn(s)].req = FETCH

(* A client that is relinking has no command under way. *)
RelinkingIsIdle ==
  \A c \in Clients : cupd[c].pc = "conn" => client[c].pc = "idle"

(* update runs in a live process, for its main thread only while that      *)
(* waits for it, and connects upwards.                                     *)
UpdatesFit ==
  \A s \in Servers :
    /\ upd[s][Main].pc # "idle" => main[s] = "update"
    /\ \A w \in Callers : upd[s][w].pc # "idle" => main[s] # "down"
    /\ \A w \in Callers : upd[s][w].pc = "conn" => s < upd[s][w].to

Safe ==
  /\ ForwardsMatch /\ LinksMatch /\ ClientsMatch
  /\ UpdateOwnsRlsLock /\ ForwardOwnsRlsLock /\ WriteOwnsListLock
  /\ LinksGoUp /\ DeadHaveNoThreads /\ HoldersHaveWrites /\ FetchersFetch
  /\ RelinkingIsIdle /\ UpdatesFit

Inv == TypeOK /\ Safe

-----------------------------------------------------------------------------
(* Consequences of the invariant that several actions rely on. *)

(* What the proofs below use of the type invariant. *)
LEMMA TypeFacts ==
  ASSUME TypeOK
  PROVE  /\ thr \in ThreadTable
         /\ \A s \in Servers : rl_next[s] # 0 => rl_next[s] \in Servers
         /\ \A o \in Ends : link[o] # 0 => link[o] \in Servers
<1>1. thr \in ThreadTable
  BY DEF TypeOK, ThreadTypeOK, ThreadTable
<1>2. \A s \in Servers : rl_next[s] # 0 => rl_next[s] \in Servers
  BY ChainAssumption DEF TypeOK, ServerTypeOK, Servers
<1>3. \A o \in Ends : link[o] # 0 => link[o] \in Servers
  BY ChainAssumption DEF TypeOK, ClientTypeOK, Servers
<1> QED BY <1>1, <1>2, <1>3

(* The thread of a fetch connection holds neither mutex. *)
LEMMA FetchHoldsNoLock ==
  ASSUME Inv
  PROVE  \A s, t \in Servers : thr[t][FetchConn(s)].pc \notin HoldsList
<1>1. \A s \in Servers : FetchConn(s) \in Conns
  BY ConnNames
<1>2. FETCH \notin Writes
  BY FetchIsNoWrite DEF Writes
<1> QED BY <1>1, <1>2 DEF Inv, Safe, FetchersFetch, HoldersHaveWrites

(* No thread is busy with a request of s unless s is forwarding one. *)
LEMMA NextIsNotBusy ==
  ASSUME Inv, NEW s \in Servers, main[s] # "down", rls_lock[s] \notin Conns
  PROVE  \A t \in Servers : ~ Busy(t, NextConn(s))
  BY DEF Inv, Safe, LinksMatch

(* No thread is busy with a request of a client that waits for none. *)
LEMMA EndIsNotBusy ==
  ASSUME Inv, NEW c \in Clients, client[c].pc # "wait"
  PROVE  \A t \in Servers, e \in {"head", "tail"} : ~ Busy(t, EndConn(c, e))
  BY DEF Inv, Safe, ClientsMatch

(* zoo_create: the new server has no thread, no link and no lock yet. *)
LEMMA RegisterInv ==
  ASSUME Inv, NEW s \in Servers,
         Register(s)
  PROVE  Safe'
<1>1. main[s] = "off"
  BY DEF Register
<1>2. \A x \in Servers : main'[x] = IF x = s THEN "watch" ELSE main[x]
  BY DEF Register, Inv, TypeOK, ServerTypeOK
<1>3. UNCHANGED <<upd, rl_next, rls_lock, lock_list, thr, client, link, cupd>>
  BY DEF Register, server, zookeeper, threads, lists, clients
<1>4. /\ ForwardsMatch'
      /\ ClientsMatch'
      /\ UpdateOwnsRlsLock'
      /\ ForwardOwnsRlsLock'
      /\ WriteOwnsListLock'
      /\ LinksGoUp'
      /\ HoldersHaveWrites'
      /\ FetchersFetch'
      /\ RelinkingIsIdle'
  BY <1>3 DEF Inv, Safe, ForwardsMatch, ClientsMatch, UpdateOwnsRlsLock,
     ForwardOwnsRlsLock, WriteOwnsListLock, LinksGoUp, HoldersHaveWrites,
     FetchersFetch, RelinkingIsIdle, Busy
<1>5. LinksMatch'
  BY <1>1, <1>2, <1>3 DEF Inv, Safe, LinksMatch, Busy
<1>6. DeadHaveNoThreads'
  BY <1>1, <1>2, <1>3 DEF Inv, Safe, DeadHaveNoThreads
<1>7. UpdatesFit'
  BY <1>1, <1>2, <1>3 DEF Inv, Safe, UpdatesFit
<1> QED BY <1>4, <1>5, <1>6, <1>7 DEF Safe

(* The first snapshot: update is called for a main thread that had no call. *)
LEMMA GetChildrenInv ==
  ASSUME Inv, NEW s \in Servers,
         GetChildren(s)
  PROVE  Safe'
<1>1. main[s] = "watch"
  BY DEF GetChildren
<1>2. \A x \in Servers : x # s => main'[x] = main[x] /\ upd'[x] = upd[x]
  BY DEF GetChildren, Inv, TypeOK, ServerTypeOK
<1>3. /\ upd'[s][Zk] = upd[s][Zk]
      /\ \/ main'[s] = "update" /\ upd'[s][Main].pc = "lock"
         \/ main'[s] = "closing" /\ upd'[s][Main] = upd[s][Main]
  BY ChainAssumption, MainIsCaller DEF GetChildren, Inv, TypeOK, ServerTypeOK
<1>4. UNCHANGED <<rl_next, rls_lock, lock_list, thr, client, link, cupd>>
  BY DEF GetChildren, server, zookeeper, threads, lists, clients
<1>5. /\ ForwardsMatch'
      /\ ClientsMatch'
      /\ ForwardOwnsRlsLock'
      /\ WriteOwnsListLock'
      /\ LinksGoUp'
      /\ HoldersHaveWrites'
      /\ FetchersFetch'
      /\ RelinkingIsIdle'
  BY <1>4 DEF Inv, Safe, ForwardsMatch, ClientsMatch, ForwardOwnsRlsLock,
     WriteOwnsListLock, LinksGoUp, HoldersHaveWrites, FetchersFetch,
     RelinkingIsIdle, Busy
<1>6. LinksMatch'
  BY <1>1, <1>2, <1>3, <1>4 DEF Inv, Safe, LinksMatch, Busy
<1>7. UpdateOwnsRlsLock'
  BY <1>1, <1>2, <1>3, <1>4
  DEF Inv, Safe, UpdateOwnsRlsLock, UpdatesFit, Callers
<1>8. DeadHaveNoThreads'
  BY <1>1, <1>2, <1>3, <1>4 DEF Inv, Safe, DeadHaveNoThreads
<1>9. UpdatesFit'
  BY <1>1, <1>2, <1>3 DEF Inv, Safe, UpdatesFit, Callers
<1> QED BY <1>5, <1>6, <1>7, <1>8, <1>9 DEF Safe

(* init_list only picks the predecessor. *)
LEMMA init_listInv ==
  ASSUME Inv, NEW s \in Servers,
         init_list(s)
  PROVE  Safe'
<1>1. main[s] = "init"
  BY DEF init_list
<1>2. /\ \A x \in Servers : x # s => main'[x] = main[x] /\ upd'[x] = upd[x]
      /\ main'[s] \in {"serving", "connect", "closing"}
  BY DEF init_list, Inv, TypeOK, ServerTypeOK
<1>3. upd'[s][Zk] = upd[s][Zk] /\ upd'[s][Main].pc = upd[s][Main].pc
  <2>1. upd \in UpdateTable
    BY DEF Inv, TypeOK, ServerTypeOK, UpdateTable
  <2>2. upd' = upd \/ \E t : upd' = [upd EXCEPT ![s][Main].to = t]
    BY DEF init_list
  <2>3. upd[s] \in [Callers -> UpdateCall]
    BY <2>1 DEF UpdateTable
  <2>4. CASE upd' = upd
    BY <2>4
  <2>5. ASSUME NEW t, upd' = [upd EXCEPT ![s][Main].to = t]
        PROVE  upd'[s] = [upd[s] EXCEPT ![Main].to = t]
    BY <2>1, <2>5 DEF UpdateTable
  <2>6. ASSUME NEW t, upd'[s] = [upd[s] EXCEPT ![Main].to = t]
        PROVE  upd'[s][Zk] = upd[s][Zk] /\ upd'[s][Main].pc = upd[s][Main].pc
    <3>1. upd'[s][Zk] = upd[s][Zk]
      BY <2>3, <2>6, MainIsCaller, ChainAssumption
    <3>2. upd'[s][Main] = [upd[s][Main] EXCEPT !.to = t]
      BY <2>3, <2>6, MainIsCaller
    <3>3. upd[s][Main] \in UpdateCall
      BY <2>3, MainIsCaller
    <3> QED BY <3>1, <3>2, <3>3 DEF UpdateCall
  <2> QED BY <2>2, <2>4, <2>5, <2>6
<1>4. UNCHANGED <<rl_next, rls_lock, lock_list, thr, client, link, cupd>>
  BY DEF init_list, server, zookeeper, threads, lists, clients
<1>5. /\ ForwardsMatch'
      /\ ClientsMatch'
      /\ ForwardOwnsRlsLock'
      /\ WriteOwnsListLock'
      /\ LinksGoUp'
      /\ HoldersHaveWrites'
      /\ FetchersFetch'
      /\ RelinkingIsIdle'
  BY <1>4 DEF Inv, Safe, ForwardsMatch, ClientsMatch, ForwardOwnsRlsLock,
     WriteOwnsListLock, LinksGoUp, HoldersHaveWrites, FetchersFetch,
     RelinkingIsIdle, Busy
<1>6. LinksMatch'
  BY <1>1, <1>2, <1>4 DEF Inv, Safe, LinksMatch, Busy
<1>7. UpdateOwnsRlsLock'
  BY <1>2, <1>3, <1>4 DEF Inv, Safe, UpdateOwnsRlsLock, Callers
<1>8. DeadHaveNoThreads'
  BY <1>1, <1>2, <1>4 DEF Inv, Safe, DeadHaveNoThreads
<1>9. UpdatesFit'
  BY <1>1, <1>2, <1>3 DEF Inv, Safe, UpdatesFit, Callers
<1> QED BY <1>5, <1>6, <1>7, <1>8, <1>9 DEF Safe

(* The request of init_list reaches a thread that can hold no lock. *)
LEMMA ConnectPreviousInv ==
  ASSUME Inv, NEW s \in Servers,
         ConnectPrevious(s)
  PROVE  Safe'
<1>1. main[s] = "connect"
  BY DEF ConnectPrevious
<1>2. /\ \A x \in Servers : x # s => main'[x] = main[x]
      /\ main'[s] \in {"fetch", "closing"}
  BY DEF ConnectPrevious, Inv, TypeOK, ServerTypeOK
<1>3. /\ thr \in ThreadTable
      /\ \A x \in Servers : rl_next[x] # 0 => rl_next[x] \in Servers
      /\ \A x \in Ends : link[x] # 0 => link[x] \in Servers
  BY TypeFacts DEF Inv
<1>4. \A x \in Servers, y \in Conns :
        \/ thr'[x][y] = thr[x][y]
        \/ /\ y = FetchConn(s) /\ main[x] = "serving"
           /\ thr'[x][y] = [pc |-> "got", req |-> FETCH]
  <2> DEFINE got == [pc |-> "got", req |-> FETCH]
  <2>1. \/ thr' = thr
        \/ /\ main[upd[s][Main].to] = "serving"
           /\ thr' = [thr EXCEPT ![upd[s][Main].to][FetchConn(s)] = got]
    BY DEF ConnectPrevious, Ready
  <2> HIDE DEF got
  <2>2. \A x \in Servers, y \in Conns :
          \/ thr'[x][y] = thr[x][y]
          \/ y = FetchConn(s) /\ main[x] = "serving" /\ thr'[x][y] = got
    BY <1>3, <2>1 DEF ThreadTable
  <2> QED BY <2>2 DEF got
<1>5. UNCHANGED <<upd, rl_next, rls_lock, lock_list, client, link, cupd>>
  BY DEF ConnectPrevious, server, zookeeper, threads, lists, clients
<1>6. /\ UpdateOwnsRlsLock'
      /\ LinksGoUp'
      /\ RelinkingIsIdle'
  BY <1>5 DEF Inv, Safe, UpdateOwnsRlsLock, LinksGoUp, RelinkingIsIdle
<1>7. ForwardsMatch'
  BY <1>3, <1>4, <1>5, ConnNames, ConnsDiffer DEF Inv, Safe, ForwardsMatch
<1>8. LinksMatch'
  BY <1>1, <1>2, <1>3, <1>4, <1>5, ConnNames, ConnsDiffer
  DEF Inv, Safe, LinksMatch, Busy
<1>9. ClientsMatch'
  BY <1>3, <1>4, <1>5, ConnNames, ConnsDiffer DEF Inv, Safe, ClientsMatch, Busy
<1>10. ForwardOwnsRlsLock'
  BY <1>4, <1>5, FetchHoldsNoLock DEF Inv, Safe, ForwardOwnsRlsLock, HoldsList
<1>11. WriteOwnsListLock'
  BY <1>4, <1>5, FetchHoldsNoLock DEF Inv, Safe, WriteOwnsListLock, HoldsList
<1>12. DeadHaveNoThreads'
  BY <1>1, <1>2, <1>4 DEF Inv, Safe, DeadHaveNoThreads
<1>13. HoldersHaveWrites'
  BY <1>4 DEF Inv, Safe, HoldersHaveWrites, HoldsList
<1>14. FetchersFetch'
  BY <1>4, ConnNames DEF Inv, Safe, FetchersFetch
<1>15. UpdatesFit'
  BY <1>1, <1>2, <1>5 DEF Inv, Safe, UpdatesFit
<1> QED BY <1>6, <1>7, <1>8, <1>9, <1>10, <1>11, <1>12, <1>13, <1>14, <1>15
DEF Safe

(* Ending the fetch connection ends a thread that can hold no lock. *)
LEMMA LoadListInv ==
  ASSUME Inv, NEW s \in Servers,
         LoadList(s)
  PROVE  Safe'
<1>1. main[s] = "fetch"
  BY DEF LoadList
<1>2. /\ \A x \in Servers : x # s => main'[x] = main[x]
      /\ main'[s] \in {"serving", "closing"}
  BY DEF LoadList, Inv, TypeOK, ServerTypeOK
<1>3. /\ thr \in ThreadTable
      /\ \A x \in Servers : rl_next[x] # 0 => rl_next[x] \in Servers
      /\ \A x \in Ends : link[x] # 0 => link[x] \in Servers
  BY TypeFacts DEF Inv
<1>4. \A x \in Servers, y \in Conns :
        \/ thr'[x][y] = thr[x][y]
        \/ y = FetchConn(s) /\ thr'[x][y] = NoThread
  BY <1>3, SetThreadAt DEF LoadList
<1>5. UNCHANGED <<upd, rl_next, rls_lock, lock_list, client, link, cupd>>
  BY DEF LoadList, server, zookeeper, threads, lists, clients
<1>6. /\ UpdateOwnsRlsLock'
      /\ LinksGoUp'
      /\ RelinkingIsIdle'
  BY <1>5 DEF Inv, Safe, UpdateOwnsRlsLock, LinksGoUp, RelinkingIsIdle
<1>7. ForwardsMatch'
  BY <1>3, <1>4, <1>5, ConnNames, ConnsDiffer
  DEF Inv, Safe, ForwardsMatch, NoThread, Waiting
<1>8. LinksMatch'
  BY <1>1, <1>2, <1>3, <1>4, <1>5, ConnNames, ConnsDiffer
  DEF Inv, Safe, LinksMatch, Busy, NoThread, Waiting, HoldsList
<1>9. ClientsMatch'
  BY <1>3, <1>4, <1>5, ConnNames, ConnsDiffer
  DEF Inv, Safe, ClientsMatch, Busy, NoThread, Waiting, HoldsList
<1>10. ForwardOwnsRlsLock'
  BY <1>4, <1>5, FetchHoldsNoLock
  DEF Inv, Safe, ForwardOwnsRlsLock, HoldsList, NoThread, Waiting
<1>11. WriteOwnsListLock'
  BY <1>4, <1>5, FetchHoldsNoLock
  DEF Inv, Safe, WriteOwnsListLock, HoldsList, NoThread, Waiting
<1>12. DeadHaveNoThreads'
  BY <1>1, <1>2, <1>4 DEF Inv, Safe, DeadHaveNoThreads, NoThread, Waiting
<1>13. HoldersHaveWrites'
  BY <1>4 DEF Inv, Safe, HoldersHaveWrites, HoldsList, NoThread, Waiting
<1>14. FetchersFetch'
  BY <1>4, ConnNames DEF Inv, Safe, FetchersFetch, NoThread, Waiting
<1>15. UpdatesFit'
  BY <1>1, <1>2, <1>5 DEF Inv, Safe, UpdatesFit
<1> QED BY <1>6, <1>7, <1>8, <1>9, <1>10, <1>11, <1>12, <1>13, <1>14, <1>15
DEF Safe

(* A new call of update by the callback thread holds no lock yet. *)
LEMMA child_watcherInv ==
  ASSUME Inv, NEW s \in Servers,
         child_watcher(s)
  PROVE  Safe'
<1>1. main[s] \notin {"off", "down"} /\ upd[s][Zk].pc = "idle"
  BY DEF child_watcher, Alive
<1>2. /\ \A x \in Servers : x # s => upd'[x] = upd[x]
      /\ upd'[s][Main] = upd[s][Main]
      /\ upd'[s][Zk].pc \in {"idle", "lock"}
  BY <1>1, ChainAssumption, MainIsCaller
  DEF child_watcher, Inv, TypeOK, ServerTypeOK
<1>3. UNCHANGED <<main, rl_next, rls_lock, lock_list, thr, client, link, cupd>>
  BY DEF child_watcher, server, zookeeper, threads, lists, clients
<1>4. /\ ForwardsMatch'
      /\ LinksMatch'
      /\ ClientsMatch'
      /\ ForwardOwnsRlsLock'
      /\ WriteOwnsListLock'
      /\ LinksGoUp'
      /\ DeadHaveNoThreads'
      /\ HoldersHaveWrites'
      /\ FetchersFetch'
      /\ RelinkingIsIdle'
  BY <1>3 DEF Inv, Safe, ForwardsMatch, LinksMatch, ClientsMatch,
     ForwardOwnsRlsLock, WriteOwnsListLock, LinksGoUp, DeadHaveNoThreads,
     HoldersHaveWrites, FetchersFetch, RelinkingIsIdle, Busy
<1>5. UpdateOwnsRlsLock'
  BY <1>1, <1>2, <1>3 DEF Inv, Safe, UpdateOwnsRlsLock, Callers
<1>6. UpdatesFit'
  BY <1>1, <1>2, <1>3 DEF Inv, Safe, UpdatesFit, Callers
<1> QED BY <1>4, <1>5, <1>6 DEF Safe

(* SIGINT only makes the accept loop end. *)
LEMMA StopInv ==
  ASSUME Inv, NEW s \in Servers,
         Stop(s)
  PROVE  Safe'
<1>1. main[s] = "serving"
  BY DEF Stop
<1>2. \A x \in Servers : main'[x] = IF x = s THEN "closing" ELSE main[x]
  BY DEF Stop, Inv, TypeOK, ServerTypeOK
<1>3. UNCHANGED <<upd, rl_next, rls_lock, lock_list, thr, client, link, cupd>>
  BY DEF Stop, Fail, server, zookeeper, threads, lists, clients
<1>4. /\ ForwardsMatch'
      /\ ClientsMatch'
      /\ UpdateOwnsRlsLock'
      /\ ForwardOwnsRlsLock'
      /\ WriteOwnsListLock'
      /\ LinksGoUp'
      /\ HoldersHaveWrites'
      /\ FetchersFetch'
      /\ RelinkingIsIdle'
  BY <1>3 DEF Inv, Safe, ForwardsMatch, ClientsMatch, UpdateOwnsRlsLock,
     ForwardOwnsRlsLock, WriteOwnsListLock, LinksGoUp, HoldersHaveWrites,
     FetchersFetch, RelinkingIsIdle, Busy
<1>5. LinksMatch'
  BY <1>1, <1>2, <1>3 DEF Inv, Safe, LinksMatch, Busy
<1>6. DeadHaveNoThreads'
  BY <1>1, <1>2, <1>3 DEF Inv, Safe, DeadHaveNoThreads
<1>7. UpdatesFit'
  BY <1>1, <1>2, <1>3 DEF Inv, Safe, UpdatesFit
<1> QED BY <1>4, <1>5, <1>6, <1>7 DEF Safe

(* rls_lock is free, so the link that is dropped carries no request. *)
LEMMA zoo_clean_serverInv ==
  ASSUME Inv, NEW s \in Servers,
         zoo_clean_server(s)
  PROVE  Safe'
<1>1. main[s] = "closing" /\ rls_lock[s] = Free
  BY DEF zoo_clean_server
<1>2. \A t \in Servers : ~ Busy(t, NextConn(s))
  BY <1>1, ChainAssumption, NextIsNotBusy
<1>3. \A y \in Conns : thr[s][y].pc # "fwd"
  BY <1>1, ChainAssumption DEF Inv, Safe, ForwardOwnsRlsLock
<1>4. /\ \A x \in Servers : main'[x] = IF x = s THEN "cleaned" ELSE main[x]
      /\ \A x \in Servers : rl_next'[x] = IF x = s THEN 0 ELSE rl_next[x]
  BY DEF zoo_clean_server, Disconnect, Inv, TypeOK, ServerTypeOK
<1>5. /\ thr \in ThreadTable
      /\ \A x \in Servers : rl_next[x] # 0 => rl_next[x] \in Servers
      /\ \A x \in Ends : link[x] # 0 => link[x] \in Servers
  BY TypeFacts DEF Inv
<1>6. \A x \in Servers, y \in Conns :
        \/ thr'[x][y] = thr[x][y]
        \/ y = NextConn(s) /\ thr'[x][y] = NoThread
  BY <1>5, SetThreadAt DEF zoo_clean_server, Disconnect
<1>7. UNCHANGED <<upd, rls_lock, lock_list, client, link, cupd>>
  BY DEF zoo_clean_server, Disconnect, server, zookeeper, threads, lists,
     clients
<1>8. /\ UpdateOwnsRlsLock'
      /\ RelinkingIsIdle'
  BY <1>7 DEF Inv, Safe, UpdateOwnsRlsLock, RelinkingIsIdle
<1>9. ForwardsMatch'
  BY <1>2, <1>3, <1>4, <1>5, <1>6, ConnNames, ConnsDiffer
  DEF Inv, Safe, ForwardsMatch, NoThread, Waiting
<1>10. LinksMatch'
  BY <1>1, <1>2, <1>3, <1>4, <1>5, <1>6, <1>7, ConnNames, ConnsDiffer
  DEF Inv, Safe, LinksMatch, Busy, NoThread, Waiting, HoldsList
<1>11. ClientsMatch'
  BY <1>2, <1>3, <1>5, <1>6, <1>7, ConnNames, ConnsDiffer
  DEF Inv, Safe, ClientsMatch, Busy, NoThread, Waiting, HoldsList
<1>12. ForwardOwnsRlsLock'
  BY <1>1, <1>2, <1>3, <1>6, <1>7
  DEF Inv, Safe, ForwardOwnsRlsLock, HoldsList, NoThread, Waiting, Busy
<1>13. WriteOwnsListLock'
  BY <1>2, <1>3, <1>6, <1>7
  DEF Inv, Safe, WriteOwnsListLock, HoldsList, NoThread, Waiting, Busy
<1>14. LinksGoUp'
  BY <1>4 DEF Inv, Safe, LinksGoUp
<1>15. DeadHaveNoThreads'
  BY <1>1, <1>2, <1>3, <1>4, <1>6
  DEF Inv, Safe, DeadHaveNoThreads, NoThread, Waiting
<1>16. HoldersHaveWrites'
  BY <1>2, <1>3, <1>6
  DEF Inv, Safe, HoldersHaveWrites, HoldsList, NoThread, Waiting
<1>17. FetchersFetch'
  BY <1>2, <1>3, <1>6, ConnNames DEF Inv, Safe, FetchersFetch, NoThread, Waiting
<1>18. UpdatesFit'
  BY <1>1, <1>4, <1>7 DEF Inv, Safe, UpdatesFit
<1> QED BY <1>8, <1>9, <1>10, <1>11, <1>12, <1>13, <1>14, <1>15, <1>16, <1>17,
   <1>18 DEF Safe

(* The end of a process takes its locks, its threads and its links away. *)
LEMMA ProcessEndsInv ==
  ASSUME Inv, NEW s \in Servers,
         ProcessEnds(s)
  PROVE  Safe'
<1>1. \A x \in Servers :
        /\ main'[x] = IF x = s THEN "down" ELSE main[x]
        /\ rl_next'[x] = IF x = s THEN 0 ELSE rl_next[x]
        /\ rls_lock'[x] = IF x = s THEN Free ELSE rls_lock[x]
        /\ lock_list'[x] = IF x = s THEN Free ELSE lock_list[x]
  BY DEF ProcessEnds, ThreadTypeOK, Inv, TypeOK, ServerTypeOK
<1>2. \A x \in Servers, w \in Callers :
        IF x = s THEN upd'[x][w].pc = "idle" ELSE upd'[x][w] = upd[x][w]
  BY DEF ProcessEnds, UpdateCall, Inv, TypeOK, ServerTypeOK
<1>3. /\ thr \in ThreadTable
      /\ \A x \in Servers : rl_next[x] # 0 => rl_next[x] \in Servers
      /\ \A x \in Ends : link[x] # 0 => link[x] \in Servers
  BY TypeFacts DEF Inv
<1>4. \A x \in Servers, y \in Conns :
        thr'[x][y] = IF x = s THEN NoThread ELSE thr[x][y]
  BY <1>3 DEF ProcessEnds, ThreadTable
<1>5. UNCHANGED <<client, link, cupd>>
  BY DEF ProcessEnds, server, zookeeper, threads, lists, clients
<1>6. /\ RelinkingIsIdle'
  BY <1>5 DEF Inv, Safe, RelinkingIsIdle
<1>7. ForwardsMatch'
  BY <1>1, <1>3, <1>4, ConnNames, ConnsDiffer
  DEF Inv, Safe, ForwardsMatch, NoThread
<1>8. LinksMatch'
  BY <1>1, <1>3, <1>4, ConnNames, ConnsDiffer
  DEF Inv, Safe, LinksMatch, Busy, NoThread, HoldsList
<1>9. ClientsMatch'
  BY <1>3, <1>4, <1>5, ConnNames, ConnsDiffer
  DEF Inv, Safe, ClientsMatch, Busy, NoThread, HoldsList
<1>10. UpdateOwnsRlsLock'
  BY <1>1, <1>2, ChainAssumption DEF Inv, Safe, UpdateOwnsRlsLock
<1>11. ForwardOwnsRlsLock'
  BY <1>1, <1>4, ChainAssumption DEF Inv, Safe, ForwardOwnsRlsLock, NoThread
<1>12. WriteOwnsListLock'
  BY <1>1, <1>4, ChainAssumption
  DEF Inv, Safe, WriteOwnsListLock, NoThread, HoldsList
<1>13. LinksGoUp'
  BY <1>1 DEF Inv, Safe, LinksGoUp
<1>14. DeadHaveNoThreads'
  BY <1>1, <1>4 DEF Inv, Safe, DeadHaveNoThreads, NoThread
<1>15. HoldersHaveWrites'
  BY <1>4 DEF Inv, Safe, HoldersHaveWrites, NoThread, HoldsList
<1>16. FetchersFetch'
  BY <1>4, ConnNames DEF Inv, Safe, FetchersFetch, NoThread
<1>17. UpdatesFit'
  BY <1>1, <1>2, MainIsCaller DEF Inv, Safe, UpdatesFit
<1> QED BY <1>6, <1>7, <1>8, <1>9, <1>10, <1>11, <1>12, <1>13, <1>14, <1>15,
   <1>16, <1>17 DEF Safe

(* rls_lock is free, so the link that is dropped carries no request. *)
LEMMA UpdateInv ==
  ASSUME Inv, NEW s \in Servers, NEW w \in Callers,
         Update(s, w)
  PROVE  Safe'
<1>1. /\ upd[s][w].pc = "lock" /\ main[s] # "down" /\ rls_lock[s] = Free
      /\ w = Main => main[s] = "update"
  BY DEF Update, Inv, Safe, UpdatesFit
<1>2. \A t \in Servers : ~ Busy(t, NextConn(s))
  BY <1>1, ChainAssumption, NextIsNotBusy
<1>3. \A y \in Conns : thr[s][y].pc # "fwd"
  BY <1>1, ChainAssumption DEF Inv, Safe, ForwardOwnsRlsLock
<1>4. \A x \in Servers : x # s => /\ rl_next'[x] = rl_next[x]
                                   /\ rls_lock'[x] = rls_lock[x]
                                   /\ upd'[x] = upd[x]
                                   /\ main'[x] = main[x]
  BY DEF Update, UpdateDone, Disconnect, Inv, TypeOK, ServerTypeOK
<1>5. rl_next'[s] = rl_next[s] \/ rl_next'[s] = 0
  BY DEF Update, Disconnect, Inv, TypeOK, ServerTypeOK
<1>6. /\ \A v \in Callers : v # w => upd'[s][v] = upd[s][v]
      /\ \/ /\ rls_lock'[s] = w /\ main'[s] = main[s]
            /\ upd'[s][w].pc = "conn" /\ s < upd'[s][w].to
         \/ /\ rls_lock'[s] = Free /\ upd'[s][w].pc = "idle"
            /\ main'[s] = IF w = Main THEN "init" ELSE main[s]
  BY DEF Update, UpdateDone, IsNext, UpdateCall, Inv, TypeOK, ServerTypeOK
<1>7. /\ thr \in ThreadTable
      /\ \A x \in Servers : rl_next[x] # 0 => rl_next[x] \in Servers
      /\ \A x \in Ends : link[x] # 0 => link[x] \in Servers
  BY TypeFacts DEF Inv
<1>8. \A x \in Servers, y \in Conns :
        \/ thr'[x][y] = thr[x][y]
        \/ y = NextConn(s) /\ thr'[x][y] = NoThread
  <2>1. thr' = thr \/ thr' = [thr EXCEPT ![rl_next[s]][NextConn(s)] = NoThread]
    BY DEF Update, Disconnect
  <2> QED BY <1>7, <2>1 DEF ThreadTable
<1>9. UNCHANGED <<lock_list, client, link, cupd>>
  BY DEF Update, Disconnect, UpdateDone, server, zookeeper, threads, lists,
     clients
<1>10. /\ RelinkingIsIdle'
  BY <1>9 DEF Inv, Safe, RelinkingIsIdle
<1>11. ForwardsMatch'
  BY <1>2, <1>3, <1>4, <1>5, <1>7, <1>8, ConnNames, ConnsDiffer
  DEF Inv, Safe, ForwardsMatch, NoThread, Waiting
<1>12. LinksMatch'
  BY <1>1, <1>2, <1>3, <1>4, <1>5, <1>6, <1>7, <1>8, ConnNames, ConnsDiffer
  DEF Inv, Safe, LinksMatch, Busy, NoThread, Waiting, HoldsList
<1>13. ClientsMatch'
  BY <1>2, <1>3, <1>7, <1>8, <1>9, ConnNames, ConnsDiffer
  DEF Inv, Safe, ClientsMatch, Busy, NoThread, Waiting, HoldsList
<1>14. UpdateOwnsRlsLock'
  BY <1>1, <1>4, <1>6, ChainAssumption DEF Inv, Safe, UpdateOwnsRlsLock
<1>15. ForwardOwnsRlsLock'
  BY <1>1, <1>2, <1>3, <1>4, <1>6, <1>8, ChainAssumption
  DEF Inv, Safe, ForwardOwnsRlsLock, HoldsList, NoThread, Waiting, Busy
<1>16. WriteOwnsListLock'
  BY <1>2, <1>3, <1>8, <1>9
  DEF Inv, Safe, WriteOwnsListLock, HoldsList, NoThread, Waiting, Busy
<1>17. LinksGoUp'
  BY <1>4, <1>5 DEF Inv, Safe, LinksGoUp
<1>18. DeadHaveNoThreads'
  BY <1>1, <1>2, <1>3, <1>4, <1>6, <1>8
  DEF Inv, Safe, DeadHaveNoThreads, NoThread, Waiting
<1>19. HoldersHaveWrites'
  BY <1>2, <1>3, <1>8
  DEF Inv, Safe, HoldersHaveWrites, HoldsList, NoThread, Waiting
<1>20. FetchersFetch'
  BY <1>2, <1>3, <1>8, ConnNames DEF Inv, Safe, FetchersFetch, NoThread, Waiting
<1>21. UpdatesFit'
  BY <1>1, <1>4, <1>6, MainIsCaller DEF Inv, Safe, UpdatesFit
<1> QED BY <1>10, <1>11, <1>12, <1>13, <1>14, <1>15, <1>16, <1>17, <1>18,
   <1>19, <1>20, <1>21 DEF Safe

(* update holds rls_lock, so the new link replaces none that is busy. *)
LEMMA UpdateConnectInv ==
  ASSUME Inv, NEW s \in Servers, NEW w \in Callers,
         UpdateConnect(s, w)
  PROVE  Safe'
<1>1. /\ upd[s][w].pc = "conn" /\ main[s] # "down" /\ s < upd[s][w].to
      /\ w = Main => main[s] = "update"
      /\ rls_lock[s] = w
  BY DEF UpdateConnect, Inv, Safe, UpdatesFit, UpdateOwnsRlsLock
<1>2. rls_lock[s] \notin Conns
  BY <1>1, ChainAssumption
<1>3. \A t \in Servers : ~ Busy(t, NextConn(s))
  BY <1>1, <1>2, ChainAssumption, NextIsNotBusy
<1>4. \A y \in Conns : thr[s][y].pc # "fwd"
  BY <1>1, <1>2, ChainAssumption DEF Inv, Safe, ForwardOwnsRlsLock
<1>5. \A x \in Servers : x # s => /\ rl_next'[x] = rl_next[x]
                                   /\ rls_lock'[x] = rls_lock[x]
                                   /\ upd'[x] = upd[x]
                                   /\ main'[x] = main[x]
  BY DEF UpdateConnect, UpdateDone, Inv, TypeOK, ServerTypeOK
<1>6. /\ rls_lock'[s] = Free
      /\ rl_next'[s] = rl_next[s] \/ rl_next'[s] = upd[s][w].to
  BY DEF UpdateConnect, Inv, TypeOK, ServerTypeOK
<1>7. /\ \A v \in Callers : v # w => upd'[s][v] = upd[s][v]
      /\ upd'[s][w].pc = "idle"
      /\ main'[s] = IF w = Main THEN "init" ELSE main[s]
  BY DEF UpdateConnect, UpdateDone, UpdateCall, Inv, TypeOK, ServerTypeOK
<1>8. /\ thr \in ThreadTable
      /\ \A x \in Servers : rl_next[x] # 0 => rl_next[x] \in Servers
      /\ \A x \in Ends : link[x] # 0 => link[x] \in Servers
  BY TypeFacts DEF Inv
<1>9. \A x \in Servers, y \in Conns :
        \/ thr'[x][y] = thr[x][y]
        \/ y = NextConn(s) /\ main[x] = "serving" /\ thr'[x][y] = Waiting
  <2>1. \/ thr' = thr
        \/ /\ main[upd[s][w].to] = "serving"
           /\ thr' = [thr EXCEPT ![upd[s][w].to][NextConn(s)] = Waiting]
    BY DEF UpdateConnect, Ready
  <2> QED BY <1>8, <2>1 DEF ThreadTable
<1>10. UNCHANGED <<lock_list, client, link, cupd>>
  BY DEF UpdateConnect, UpdateDone, server, zookeeper, threads, lists, clients
<1>11. /\ RelinkingIsIdle'
  BY <1>10 DEF Inv, Safe, RelinkingIsIdle
<1>12. ForwardsMatch'
  BY <1>3, <1>4, <1>5, <1>6, <1>8, <1>9, ConnNames, ConnsDiffer
  DEF Inv, Safe, ForwardsMatch, NoThread, Waiting
<1>13. LinksMatch'
  BY <1>1, <1>2, <1>3, <1>4, <1>5, <1>6, <1>7, <1>8, <1>9, ConnNames,
     ConnsDiffer DEF Inv, Safe, LinksMatch, Busy, NoThread, Waiting, HoldsList
<1>14. ClientsMatch'
  BY <1>3, <1>4, <1>8, <1>9, <1>10, ConnNames, ConnsDiffer
  DEF Inv, Safe, ClientsMatch, Busy, NoThread, Waiting, HoldsList
<1>15. UpdateOwnsRlsLock'
  BY <1>1, <1>2, <1>5, <1>6, <1>7, ChainAssumption
  DEF Inv, Safe, UpdateOwnsRlsLock
<1>16. ForwardOwnsRlsLock'
  BY <1>1, <1>2, <1>3, <1>4, <1>5, <1>6, <1>9, ChainAssumption
  DEF Inv, Safe, ForwardOwnsRlsLock, HoldsList, NoThread, Waiting, Busy
<1>17. WriteOwnsListLock'
  BY <1>3, <1>4, <1>9, <1>10
  DEF Inv, Safe, WriteOwnsListLock, HoldsList, NoThread, Waiting, Busy
<1>18. LinksGoUp'
  BY <1>1, <1>2, <1>3, <1>4, <1>5, <1>6, <1>7, <1>8, <1>9, <1>10
  DEF Inv, Safe, LinksGoUp
<1>19. DeadHaveNoThreads'
  BY <1>1, <1>3, <1>4, <1>5, <1>7, <1>9
  DEF Inv, Safe, DeadHaveNoThreads, NoThread, Waiting
<1>20. HoldersHaveWrites'
  BY <1>3, <1>4, <1>9
  DEF Inv, Safe, HoldersHaveWrites, HoldsList, NoThread, Waiting
<1>21. FetchersFetch'
  BY <1>3, <1>4, <1>9, ConnNames DEF Inv, Safe, FetchersFetch, NoThread, Waiting
<1>22. UpdatesFit'
  BY <1>1, <1>5, <1>7, MainIsCaller DEF Inv, Safe, UpdatesFit
<1> QED BY <1>11, <1>12, <1>13, <1>14, <1>15, <1>16, <1>17, <1>18, <1>19,
   <1>20, <1>21, <1>22 DEF Safe

(* lock_list was free, and the thread has a write. *)
LEMMA TakeListLockInv ==
  ASSUME Inv, NEW s \in Servers, NEW o \in Conns,
         TakeListLock(s, o)
  PROVE  Safe'
<1>1. /\ thr \in ThreadTable
      /\ \A x \in Servers : rl_next[x] # 0 => rl_next[x] \in Servers
      /\ \A x \in Ends : link[x] # 0 => link[x] \in Servers
  BY TypeFacts DEF Inv
<1>2. /\ thr'[s][o].pc = "locked" /\ thr'[s][o].req = thr[s][o].req
      /\ \A x \in Servers, y \in Conns :
           x # s \/ y # o => thr'[x][y] = thr[x][y]
  <2>1. thr' = [thr EXCEPT ![s][o].pc = "locked"]
    BY DEF TakeListLock
  <2> QED BY <1>1, <2>1 DEF ThreadTable, Thread
<1>3. thr[s][o].pc = "got" /\ lock_list[s] = Free
  BY DEF TakeListLock
<1>4. thr[s][o].req \in Writes
  BY <1>1, FetchIsNoWrite DEF TakeListLock, ThreadTable, Thread, Writes
<1>5. \A x \in Servers : lock_list'[x] = IF x = s THEN o ELSE lock_list[x]
  BY DEF TakeListLock, Inv, TypeOK, ThreadTypeOK
<1>6. UNCHANGED <<main, upd, rl_next, rls_lock, client, link, cupd>>
  BY DEF TakeListLock, server, zookeeper, threads, lists, clients
<1>7. /\ UpdateOwnsRlsLock'
      /\ LinksGoUp'
      /\ RelinkingIsIdle'
      /\ UpdatesFit'
  BY <1>6
  DEF Inv, Safe, UpdateOwnsRlsLock, LinksGoUp, RelinkingIsIdle, UpdatesFit
<1>8. ForwardsMatch'
  BY <1>1, <1>2, <1>3, <1>4, <1>6, ConnNames, ConnsDiffer
  DEF Inv, Safe, ForwardsMatch
<1>9. LinksMatch'
  BY <1>1, <1>2, <1>3, <1>4, <1>6, ConnNames, ConnsDiffer
  DEF Inv, Safe, LinksMatch, Busy, HoldsList
<1>10. ClientsMatch'
  BY <1>1, <1>2, <1>3, <1>4, <1>6, ConnNames, ConnsDiffer
  DEF Inv, Safe, ClientsMatch, Busy, HoldsList
<1>11. ForwardOwnsRlsLock'
  BY <1>2, <1>3, <1>4, <1>6 DEF Inv, Safe, ForwardOwnsRlsLock
<1>12. WriteOwnsListLock'
  BY <1>2, <1>3, <1>4, <1>5, ChainAssumption
  DEF Inv, Safe, WriteOwnsListLock, HoldsList
<1>13. DeadHaveNoThreads'
  BY <1>2, <1>3, <1>4, <1>6 DEF Inv, Safe, DeadHaveNoThreads
<1>14. HoldersHaveWrites'
  BY <1>2, <1>3, <1>4 DEF Inv, Safe, HoldersHaveWrites, HoldsList
<1>15. FetchersFetch'
  BY <1>2, <1>3, <1>4, ConnNames DEF Inv, Safe, FetchersFetch
<1> QED BY <1>7, <1>8, <1>9, <1>10, <1>11, <1>12, <1>13, <1>14, <1>15 DEF Safe

(* invoke on a read: lock_list was free and is free again. *)
LEMMA ReadInv ==
  ASSUME Inv, NEW s \in Servers, NEW o \in Conns,
         Read(s, o)
  PROVE  Safe'
<1>1. /\ thr \in ThreadTable
      /\ \A x \in Servers : rl_next[x] # 0 => rl_next[x] \in Servers
      /\ \A x \in Ends : link[x] # 0 => link[x] \in Servers
  BY TypeFacts DEF Inv
<1>2. /\ thr'[s][o].pc = "reply" /\ thr'[s][o].req = thr[s][o].req
      /\ \A x \in Servers, y \in Conns :
           x # s \/ y # o => thr'[x][y] = thr[x][y]
  <2>1. thr' = [thr EXCEPT ![s][o].pc = "reply"]
    BY DEF Read
  <2> QED BY <1>1, <2>1 DEF ThreadTable, Thread
<1>3. thr[s][o].pc = "got"
  BY DEF Read
<1>4. UNCHANGED <<main, upd, rl_next, rls_lock, lock_list, client, link, cupd>>
  BY DEF Read, server, zookeeper, threads, lists, clients
<1>5. /\ UpdateOwnsRlsLock'
      /\ LinksGoUp'
      /\ RelinkingIsIdle'
      /\ UpdatesFit'
  BY <1>4
  DEF Inv, Safe, UpdateOwnsRlsLock, LinksGoUp, RelinkingIsIdle, UpdatesFit
<1>6. ForwardsMatch'
  BY <1>1, <1>2, <1>3, <1>4, ConnNames, ConnsDiffer DEF Inv, Safe, ForwardsMatch
<1>7. LinksMatch'
  BY <1>1, <1>2, <1>3, <1>4, ConnNames, ConnsDiffer
  DEF Inv, Safe, LinksMatch, Busy, HoldsList
<1>8. ClientsMatch'
  BY <1>1, <1>2, <1>3, <1>4, ConnNames, ConnsDiffer
  DEF Inv, Safe, ClientsMatch, Busy, HoldsList
<1>9. ForwardOwnsRlsLock'
  BY <1>2, <1>3, <1>4 DEF Inv, Safe, ForwardOwnsRlsLock
<1>10. WriteOwnsListLock'
  BY <1>2, <1>3, <1>4 DEF Inv, Safe, WriteOwnsListLock, HoldsList
<1>11. DeadHaveNoThreads'
  BY <1>2, <1>3, <1>4 DEF Inv, Safe, DeadHaveNoThreads
<1>12. HoldersHaveWrites'
  BY <1>2, <1>3 DEF Inv, Safe, HoldersHaveWrites, HoldsList
<1>13. FetchersFetch'
  BY <1>2, <1>3, ConnNames DEF Inv, Safe, FetchersFetch
<1> QED BY <1>5, <1>6, <1>7, <1>8, <1>9, <1>10, <1>11, <1>12, <1>13 DEF Safe

(* The thread that applies a write is the holder of lock_list. *)
LEMMA ApplyInv ==
  ASSUME Inv, NEW s \in Servers, NEW o \in Conns,
         Apply(s, o)
  PROVE  Safe'
<1>1. /\ thr \in ThreadTable
      /\ \A x \in Servers : rl_next[x] # 0 => rl_next[x] \in Servers
      /\ \A x \in Ends : link[x] # 0 => link[x] \in Servers
  BY TypeFacts DEF Inv
<1>2. /\ thr'[s][o].pc = "reply" /\ thr'[s][o].req = thr[s][o].req
      /\ \A x \in Servers, y \in Conns :
           x # s \/ y # o => thr'[x][y] = thr[x][y]
  <2>1. thr' = [thr EXCEPT ![s][o].pc = "reply"]
    BY DEF Apply
  <2> QED BY <1>1, <2>1 DEF ThreadTable, Thread
<1>3. thr[s][o].pc \in {"local", "apply"}
  BY DEF Apply
<1>4. lock_list[s] = o
  BY <1>3 DEF Inv, Safe, WriteOwnsListLock, HoldsList
<1>5. \A x \in Servers : lock_list'[x] = IF x = s THEN Free ELSE lock_list[x]
  BY DEF Apply, Inv, TypeOK, ThreadTypeOK
<1>6. UNCHANGED <<main, upd, rl_next, rls_lock, client, link, cupd>>
  BY DEF Apply, server, zookeeper, threads, lists, clients
<1>7. /\ UpdateOwnsRlsLock'
      /\ LinksGoUp'
      /\ RelinkingIsIdle'
      /\ UpdatesFit'
  BY <1>6
  DEF Inv, Safe, UpdateOwnsRlsLock, LinksGoUp, RelinkingIsIdle, UpdatesFit
<1>8. ForwardsMatch'
  BY <1>1, <1>2, <1>3, <1>6, ConnNames, ConnsDiffer DEF Inv, Safe, ForwardsMatch
<1>9. LinksMatch'
  BY <1>1, <1>2, <1>3, <1>6, ConnNames, ConnsDiffer
  DEF Inv, Safe, LinksMatch, Busy, HoldsList
<1>10. ClientsMatch'
  BY <1>1, <1>2, <1>3, <1>6, ConnNames, ConnsDiffer
  DEF Inv, Safe, ClientsMatch, Busy, HoldsList
<1>11. ForwardOwnsRlsLock'
  BY <1>2, <1>3, <1>6 DEF Inv, Safe, ForwardOwnsRlsLock
<1>12. WriteOwnsListLock'
  BY <1>2, <1>3, <1>4, <1>5, ChainAssumption
  DEF Inv, Safe, WriteOwnsListLock, HoldsList
<1>13. DeadHaveNoThreads'
  BY <1>2, <1>3, <1>6 DEF Inv, Safe, DeadHaveNoThreads
<1>14. HoldersHaveWrites'
  BY <1>2, <1>3 DEF Inv, Safe, HoldersHaveWrites, HoldsList
<1>15. FetchersFetch'
  BY <1>2, <1>3, ConnNames DEF Inv, Safe, FetchersFetch
<1> QED BY <1>7, <1>8, <1>9, <1>10, <1>11, <1>12, <1>13, <1>14, <1>15 DEF Safe

(* The thread that refuses a write is the holder of lock_list. *)
LEMMA RefuseInv ==
  ASSUME Inv, NEW s \in Servers, NEW o \in Conns,
         Refuse(s, o)
  PROVE  Safe'
<1>1. /\ thr \in ThreadTable
      /\ \A x \in Servers : rl_next[x] # 0 => rl_next[x] \in Servers
      /\ \A x \in Ends : link[x] # 0 => link[x] \in Servers
  BY TypeFacts DEF Inv
<1>2. /\ thr'[s][o].pc = "reply" /\ thr'[s][o].req = thr[s][o].req
      /\ \A x \in Servers, y \in Conns :
           x # s \/ y # o => thr'[x][y] = thr[x][y]
  <2>1. thr' = [thr EXCEPT ![s][o].pc = "reply"]
    BY DEF Refuse
  <2> QED BY <1>1, <2>1 DEF ThreadTable, Thread
<1>3. thr[s][o].pc \in {"error"}
  BY DEF Refuse
<1>4. lock_list[s] = o
  BY <1>3 DEF Inv, Safe, WriteOwnsListLock, HoldsList
<1>5. \A x \in Servers : lock_list'[x] = IF x = s THEN Free ELSE lock_list[x]
  BY DEF Refuse, Inv, TypeOK, ThreadTypeOK
<1>6. UNCHANGED <<main, upd, rl_next, rls_lock, client, link, cupd>>
  BY DEF Refuse, server, zookeeper, threads, lists, clients
<1>7. /\ UpdateOwnsRlsLock'
      /\ LinksGoUp'
      /\ RelinkingIsIdle'
      /\ UpdatesFit'
  BY <1>6
  DEF Inv, Safe, UpdateOwnsRlsLock, LinksGoUp, RelinkingIsIdle, UpdatesFit
<1>8. ForwardsMatch'
  BY <1>1, <1>2, <1>3, <1>6, ConnNames, ConnsDiffer DEF Inv, Safe, ForwardsMatch
<1>9. LinksMatch'
  BY <1>1, <1>2, <1>3, <1>6, ConnNames, ConnsDiffer
  DEF Inv, Safe, LinksMatch, Busy, HoldsList
<1>10. ClientsMatch'
  BY <1>1, <1>2, <1>3, <1>6, ConnNames, ConnsDiffer
  DEF Inv, Safe, ClientsMatch, Busy, HoldsList
<1>11. ForwardOwnsRlsLock'
  BY <1>2, <1>3, <1>6 DEF Inv, Safe, ForwardOwnsRlsLock
<1>12. WriteOwnsListLock'
  BY <1>2, <1>3, <1>4, <1>5, ChainAssumption
  DEF Inv, Safe, WriteOwnsListLock, HoldsList
<1>13. DeadHaveNoThreads'
  BY <1>2, <1>3, <1>6 DEF Inv, Safe, DeadHaveNoThreads
<1>14. HoldersHaveWrites'
  BY <1>2, <1>3 DEF Inv, Safe, HoldersHaveWrites, HoldsList
<1>15. FetchersFetch'
  BY <1>2, <1>3, ConnNames DEF Inv, Safe, FetchersFetch
<1> QED BY <1>7, <1>8, <1>9, <1>10, <1>11, <1>12, <1>13, <1>14, <1>15 DEF Safe

(* A write that is not forwarded takes no second lock. *)
LEMMA ForwardNotInv ==
  ASSUME Inv, NEW s \in Servers, NEW o \in Conns,
         Forward(s, o), UNCHANGED rls_lock
  PROVE  Safe'
<1>1. /\ thr \in ThreadTable
      /\ \A x \in Servers : rl_next[x] # 0 => rl_next[x] \in Servers
      /\ \A x \in Ends : link[x] # 0 => link[x] \in Servers
  BY TypeFacts DEF Inv
<1>2. thr[s][o].pc = "locked"
  BY DEF Forward
<1>3. /\ thr'[s][o].pc \in {"local", "error"} /\ thr'[s][o].req = thr[s][o].req
      /\ \A x \in Servers, y \in Conns :
           x # s \/ y # o => thr'[x][y] = thr[x][y]
  <2>1. rls_lock \in [Servers -> Conns \cup Callers \cup {Free}]
    BY DEF Inv, TypeOK, ServerTypeOK
  <2>2. rls_lock' # [rls_lock EXCEPT ![s] = o]
    BY <2>1, ChainAssumption DEF Forward
  <2>3. \E p \in {"local", "error"} : thr' = [thr EXCEPT ![s][o].pc = p]
    BY <2>2 DEF Forward
  <2> QED BY <1>1, <2>3 DEF ThreadTable, Thread
<1>4. UNCHANGED <<main, upd, rl_next, rls_lock, lock_list, client, link, cupd>>
  BY DEF Forward, server, zookeeper, threads, lists, clients
<1>5. /\ UpdateOwnsRlsLock'
      /\ LinksGoUp'
      /\ RelinkingIsIdle'
      /\ UpdatesFit'
  BY <1>4
  DEF Inv, Safe, UpdateOwnsRlsLock, LinksGoUp, RelinkingIsIdle, UpdatesFit
<1>6. ForwardsMatch'
  BY <1>1, <1>2, <1>3, <1>4, ConnNames, ConnsDiffer DEF Inv, Safe, ForwardsMatch
<1>7. LinksMatch'
  BY <1>1, <1>2, <1>3, <1>4, ConnNames, ConnsDiffer
  DEF Inv, Safe, LinksMatch, Busy, HoldsList
<1>8. ClientsMatch'
  BY <1>1, <1>2, <1>3, <1>4, ConnNames, ConnsDiffer
  DEF Inv, Safe, ClientsMatch, Busy, HoldsList
<1>9. ForwardOwnsRlsLock'
  BY <1>2, <1>3, <1>4 DEF Inv, Safe, ForwardOwnsRlsLock
<1>10. WriteOwnsListLock'
  BY <1>2, <1>3, <1>4 DEF Inv, Safe, WriteOwnsListLock, HoldsList
<1>11. DeadHaveNoThreads'
  BY <1>2, <1>3, <1>4 DEF Inv, Safe, DeadHaveNoThreads
<1>12. HoldersHaveWrites'
  BY <1>2, <1>3 DEF Inv, Safe, HoldersHaveWrites, HoldsList
<1>13. FetchersFetch'
  BY <1>2, <1>3, ConnNames DEF Inv, Safe, FetchersFetch
<1> QED BY <1>5, <1>6, <1>7, <1>8, <1>9, <1>10, <1>11, <1>12, <1>13 DEF Safe

(* rls_lock was free, so the successor's thread was waiting for a request. *)
LEMMA ForwardSendsInv ==
  ASSUME Inv, NEW s \in Servers, NEW o \in Conns,
         Forward(s, o), ~ UNCHANGED rls_lock
  PROVE  Safe'
<1>1. /\ thr \in ThreadTable
      /\ \A x \in Servers : rl_next[x] # 0 => rl_next[x] \in Servers
      /\ \A x \in Ends : link[x] # 0 => link[x] \in Servers
  BY TypeFacts DEF Inv
<1>2. thr[s][o].pc = "locked" /\ rls_lock[s] = Free
  BY DEF Forward
<1>3. main[s] # "down"
  BY <1>2 DEF Inv, Safe, DeadHaveNoThreads
<1>4. \A t \in Servers : ~ Busy(t, NextConn(s))
  BY <1>2, <1>3, ChainAssumption, NextIsNotBusy
<1>5. \A y \in Conns : thr[s][y].pc # "fwd"
  BY <1>2, ChainAssumption DEF Inv, Safe, ForwardOwnsRlsLock
<1>6. /\ rl_next[s] \in Servers /\ s < rl_next[s]
      /\ thr[rl_next[s]][NextConn(s)].pc = "recv"
  <2>1. rl_next[s] # 0 /\ thr[rl_next[s]][NextConn(s)].pc # "none"
    BY DEF Forward, Broken
  <2>2. rl_next[s] \in Servers /\ s < rl_next[s]
    BY <1>1, <2>1 DEF Inv, Safe, LinksGoUp
  <2>3. thr[rl_next[s]][NextConn(s)].pc \in ThreadPc
    BY <1>1, <2>2, ConnNames DEF ThreadTable, Thread
  <2> QED BY <1>4, <2>1, <2>2, <2>3 DEF Busy, ThreadPc
<1>7. \A x \in Servers : rls_lock'[x] = IF x = s THEN o ELSE rls_lock[x]
  BY DEF Forward, Inv, TypeOK, ServerTypeOK
<1>8. /\ thr'[s][o].pc = "fwd" /\ thr'[s][o].req = thr[s][o].req
      /\ thr'[rl_next[s]][NextConn(s)].pc = "got"
      /\ thr'[rl_next[s]][NextConn(s)].req = thr[s][o].req
      /\ \A x \in Servers, y \in Conns :
           /\ x # s \/ y # o
           /\ x # rl_next[s] \/ y # NextConn(s)
           => thr'[x][y] = thr[x][y]
  <2>1. thr' = [thr EXCEPT ![s][o].pc = "fwd",
                           ![rl_next[s]][NextConn(s)] =
                              [pc |-> "got", req |-> thr[s][o].req]]
    BY DEF Forward
  <2>2. NextConn(s) \in Conns /\ s # rl_next[s]
    BY <1>6, ConnNames DEF Servers
  <2>3. PICK v : /\ v = [pc |-> "got", req |-> thr[s][o].req]
                 /\ thr' = [thr EXCEPT ![s][o].pc = "fwd",
                                       ![rl_next[s]][NextConn(s)] = v]
    BY <2>1
  <2>4. /\ thr'[s][o].pc = "fwd" /\ thr'[s][o].req = thr[s][o].req
        /\ thr'[rl_next[s]][NextConn(s)] = v
        /\ \A x \in Servers, y \in Conns :
             /\ x # s \/ y # o
             /\ x # rl_next[s] \/ y # NextConn(s)
             => thr'[x][y] = thr[x][y]
    <3> HIDE <2>1
    <3> QED BY <1>1, <1>6, <2>2, <2>3 DEF ThreadTable, Thread
  <2>5. v.pc = "got" /\ v.req = thr[s][o].req
    BY <2>3
  <2> QED BY ONLY <2>4, <2>5
<1>9. UNCHANGED <<main, upd, rl_next, lock_list, client, link, cupd>>
  BY DEF Forward, server, zookeeper, threads, lists, clients
<1>10. /\ LinksGoUp'
      /\ RelinkingIsIdle'
      /\ UpdatesFit'
  BY <1>9 DEF Inv, Safe, LinksGoUp, RelinkingIsIdle, UpdatesFit
<1>11. ForwardsMatch'
  <2> SUFFICES ASSUME NEW x \in Servers, NEW y \in Conns, thr'[x][y].pc = "fwd"
               PROVE  LET next == thr'[rl_next[x]][NextConn(x)]
                      IN  /\ rl_next[x] # 0
                          /\ next.pc # "recv"
                          /\ next.pc # "none" => next.req = thr'[x][y].req
    BY <1>9 DEF ForwardsMatch
  <2>1. CASE x = s
    BY <2>1, <1>5, <1>6, <1>8 DEF Servers
  <2>2. CASE x # s
    <3>1. thr[x][y] = thr'[x][y]
      BY <2>2, <1>8 DEF NoThread, Waiting
    <3>2. /\ rl_next[x] # 0 /\ rl_next[x] \in Servers
          /\ NextConn(x) \in Conns /\ NextConn(x) # NextConn(s)
      BY <1>1, <2>2, <3>1, ConnNames, ConnsDiffer DEF Inv, Safe, ForwardsMatch
    <3>3. LET next == thr[rl_next[x]][NextConn(x)]
          IN  /\ next.pc # "recv"
              /\ next.pc # "none" => next.req = thr'[x][y].req
      BY <3>1 DEF Inv, Safe, ForwardsMatch
    <3>4. CASE rl_next[x] = s /\ NextConn(x) = o
      BY <3>2, <3>3, <3>4, <1>2, <1>8
    <3>5. CASE ~ (rl_next[x] = s /\ NextConn(x) = o)
      BY <3>2, <3>3, <3>5, <1>8
    <3> QED BY <3>2, <3>4, <3>5
  <2> QED BY <2>1, <2>2
<1>12. LinksMatch'
  BY <1>1, <1>2, <1>3, <1>4, <1>5, <1>6, <1>7, <1>8, <1>9, ConnNames,
     ConnsDiffer DEF Inv, Safe, LinksMatch, Busy, HoldsList
<1>13. ClientsMatch'
  BY <1>1, <1>2, <1>4, <1>5, <1>6, <1>8, <1>9, ConnNames, ConnsDiffer
  DEF Inv, Safe, ClientsMatch, Busy, HoldsList
<1>14. UpdateOwnsRlsLock'
  BY <1>2, <1>7, <1>9, ChainAssumption DEF Inv, Safe, UpdateOwnsRlsLock
<1>15. ForwardOwnsRlsLock'
  BY <1>2, <1>4, <1>5, <1>6, <1>7, <1>8, ChainAssumption
  DEF Inv, Safe, ForwardOwnsRlsLock, HoldsList
<1>16. WriteOwnsListLock'
  BY <1>2, <1>4, <1>5, <1>6, <1>8, <1>9
  DEF Inv, Safe, WriteOwnsListLock, HoldsList
<1>17. DeadHaveNoThreads'
  BY <1>2, <1>3, <1>4, <1>5, <1>6, <1>8, <1>9 DEF Inv, Safe, DeadHaveNoThreads
<1>18. HoldersHaveWrites'
  BY <1>2, <1>4, <1>5, <1>6, <1>8 DEF Inv, Safe, HoldersHaveWrites, HoldsList
<1>19. FetchersFetch'
  BY <1>2, <1>4, <1>5, <1>6, <1>8, ConnNames, ConnsDiffer
  DEF Inv, Safe, FetchersFetch
<1> QED BY <1>10, <1>11, <1>12, <1>13, <1>14, <1>15, <1>16, <1>17, <1>18, <1>19
DEF Safe

(* The answer taken from the successor's thread is that of this request. *)
LEMMA ForwardReturnsInv ==
  ASSUME Inv, NEW s \in Servers, NEW o \in Conns,
         ForwardReturns(s, o)
  PROVE  Safe'
<1>1. /\ thr \in ThreadTable
      /\ \A x \in Servers : rl_next[x] # 0 => rl_next[x] \in Servers
      /\ \A x \in Ends : link[x] # 0 => link[x] \in Servers
  BY TypeFacts DEF Inv
<1>2. thr[s][o].pc = "fwd" /\ rls_lock[s] = o
  BY DEF ForwardReturns, Inv, Safe, ForwardOwnsRlsLock
<1>3. main[s] # "down"
  BY <1>2 DEF Inv, Safe, DeadHaveNoThreads
<1>4. /\ rl_next[s] \in Servers /\ s < rl_next[s]
      /\ thr[rl_next[s]][NextConn(s)].pc \in {"none", "reply"}
  <2>1. rl_next[s] # 0
    BY <1>2 DEF Inv, Safe, ForwardsMatch
  <2> QED BY <1>1, <2>1 DEF ForwardReturns, Returns, Inv, Safe, LinksGoUp
<1>5. \A x \in Servers : rls_lock'[x] = IF x = s THEN Free ELSE rls_lock[x]
  BY DEF ForwardReturns, Inv, TypeOK, ServerTypeOK
<1>6. /\ AfterReply(rl_next[s], NextConn(s)) \in {NoThread, Waiting}
      /\ AfterReply(rl_next[s], NextConn(s)) = Waiting =>
           thr[rl_next[s]][NextConn(s)].pc = "reply"
  BY DEF AfterReply, Returned, NoThread, Waiting
<1>7. /\ thr'[s][o].pc \in {"apply", "error"} /\ thr'[s][o].req = thr[s][o].req
      /\ thr'[rl_next[s]][NextConn(s)] = AfterReply(rl_next[s], NextConn(s))
      /\ \A x \in Servers, y \in Conns :
           /\ x # s \/ y # o
           /\ x # rl_next[s] \/ y # NextConn(s)
           => thr'[x][y] = thr[x][y]
  <2>1. PICK p \in {"apply", "error"} :
          thr' = [thr EXCEPT ![s][o].pc = p,
                    ![rl_next[s]][NextConn(s)] = AfterReply(rl_next[s], NextConn(s))]
    BY DEF ForwardReturns
  <2>2. NextConn(s) \in Conns /\ s # rl_next[s]
    BY <1>4, ConnNames DEF Servers
  <2>3. thr'[s] = [thr[s] EXCEPT ![o].pc = p]
    BY <1>1, <2>1, <2>2 DEF ThreadTable
  <2>4. thr'[rl_next[s]] = [thr[rl_next[s]] EXCEPT
          ![NextConn(s)] = AfterReply(rl_next[s], NextConn(s))]
    BY <1>1, <1>4, <2>1, <2>2 DEF ThreadTable
  <2>5. \A x \in Servers : x # s /\ x # rl_next[s] => thr'[x] = thr[x]
    BY <1>1, <2>1 DEF ThreadTable
  <2>6. \A x \in Servers : thr[x] \in [Conns -> Thread]
    BY <1>1 DEF ThreadTable
  <2>7. thr'[s][o].pc = p /\ thr'[s][o].req = thr[s][o].req
    BY <2>3, <2>6 DEF Thread
  <2>8. thr'[rl_next[s]][NextConn(s)] = AfterReply(rl_next[s], NextConn(s))
    BY <1>4, <2>2, <2>4, <2>6
  <2>9. \A y \in Conns : y # o => thr'[s][y] = thr[s][y]
    BY <2>3, <2>6
  <2>10. \A y \in Conns : y # NextConn(s) =>
           thr'[rl_next[s]][y] = thr[rl_next[s]][y]
    BY <1>4, <2>4, <2>6
  <2> QED BY <2>5, <2>7, <2>8, <2>9, <2>10
<1>8. UNCHANGED <<main, upd, rl_next, lock_list, client, link, cupd>>
  BY DEF ForwardReturns, server, zookeeper, threads, lists, clients
<1>9. /\ LinksGoUp'
      /\ RelinkingIsIdle'
      /\ UpdatesFit'
  BY <1>8 DEF Inv, Safe, LinksGoUp, RelinkingIsIdle, UpdatesFit
<1>10. ForwardsMatch'
  <2> SUFFICES ASSUME NEW x \in Servers, NEW y \in Conns, thr'[x][y].pc = "fwd"
               PROVE  LET next == thr'[rl_next[x]][NextConn(x)]
                      IN  /\ rl_next[x] # 0
                          /\ next.pc # "recv"
                          /\ next.pc # "none" => next.req = thr'[x][y].req
    BY <1>8 DEF ForwardsMatch
  <2>1. CASE x = s
    BY <2>1, <1>2, <1>4, <1>7 DEF Inv, Safe, ForwardOwnsRlsLock, Servers
  <2>2. CASE x # s
    <3>1. thr[x][y] = thr'[x][y]
      BY <2>2, <1>6, <1>7 DEF NoThread, Waiting
    <3>2. /\ rl_next[x] # 0 /\ rl_next[x] \in Servers
          /\ NextConn(x) \in Conns /\ NextConn(x) # NextConn(s)
      BY <1>1, <2>2, <3>1, ConnNames, ConnsDiffer DEF Inv, Safe, ForwardsMatch
    <3>3. LET next == thr[rl_next[x]][NextConn(x)]
          IN  /\ next.pc # "recv"
              /\ next.pc # "none" => next.req = thr'[x][y].req
      BY <3>1 DEF Inv, Safe, ForwardsMatch
    <3>4. CASE rl_next[x] = s /\ NextConn(x) = o
      BY <3>2, <3>3, <3>4, <1>2, <1>7
    <3>5. CASE ~ (rl_next[x] = s /\ NextConn(x) = o)
      BY <3>2, <3>3, <3>5, <1>7
    <3> QED BY <3>2, <3>4, <3>5
  <2> QED BY <2>1, <2>2
<1>11. LinksMatch'
  BY <1>1, <1>2, <1>3, <1>4, <1>5, <1>6, <1>7, <1>8, ConnNames, ConnsDiffer
  DEF Inv, Safe, LinksMatch, Busy, HoldsList, NoThread, Waiting
<1>12. ClientsMatch'
  BY <1>1, <1>2, <1>4, <1>6, <1>7, <1>8, ConnNames, ConnsDiffer
  DEF Inv, Safe, ClientsMatch, Busy, HoldsList, NoThread, Waiting
<1>13. UpdateOwnsRlsLock'
  BY <1>2, <1>5, <1>8, ChainAssumption DEF Inv, Safe, UpdateOwnsRlsLock
<1>14. ForwardOwnsRlsLock'
  BY <1>2, <1>4, <1>5, <1>6, <1>7, ChainAssumption
  DEF Inv, Safe, ForwardOwnsRlsLock, HoldsList, NoThread, Waiting
<1>15. WriteOwnsListLock'
  BY <1>2, <1>4, <1>6, <1>7, <1>8
  DEF Inv, Safe, WriteOwnsListLock, HoldsList, NoThread, Waiting
<1>16. DeadHaveNoThreads'
  BY <1>2, <1>3, <1>4, <1>6, <1>7, <1>8
  DEF Inv, Safe, DeadHaveNoThreads, NoThread, Waiting
<1>17. HoldersHaveWrites'
  BY <1>2, <1>4, <1>6, <1>7
  DEF Inv, Safe, HoldersHaveWrites, HoldsList, NoThread, Waiting
<1>18. FetchersFetch'
  BY <1>2, <1>4, <1>6, <1>7, ConnNames, ConnsDiffer
  DEF Inv, Safe, FetchersFetch, NoThread, Waiting
<1> QED BY <1>9, <1>10, <1>11, <1>12, <1>13, <1>14, <1>15, <1>16, <1>17, <1>18
DEF Safe

(* A thread whose other end is gone holds no lock when it notices. *)
LEMMA HangupInv ==
  ASSUME Inv, NEW s \in Servers, NEW o \in Conns,
         Hangup(s, o)
  PROVE  Safe'
<1>1. /\ thr \in ThreadTable
      /\ \A x \in Servers : rl_next[x] # 0 => rl_next[x] \in Servers
      /\ \A x \in Ends : link[x] # 0 => link[x] \in Servers
  BY TypeFacts DEF Inv
<1>2. thr[s][o].pc \in {"recv", "reply"}
  BY DEF Hangup
<1>3. \A x \in Servers, y \in Conns :
        o = NextConn(x) => thr[x][y].pc = "none"
  <2> SUFFICES ASSUME NEW x \in Servers, o = NextConn(x) PROVE main[x] = "down"
    BY DEF Inv, Safe, DeadHaveNoThreads
  <2>1. o \notin Ends
    BY DEF Ends, NextConn
  <2> QED BY <2>1 DEF Hangup, NextConn
<1>4. \A x \in Servers, y \in Conns :
        thr'[x][y] = IF x = s /\ y = o THEN NoThread ELSE thr[x][y]
  BY <1>1 DEF Hangup, ThreadTable
<1>5. UNCHANGED <<main, upd, rl_next, rls_lock, lock_list, client, link, cupd>>
  BY DEF Hangup, server, zookeeper, threads, lists, clients
<1>6. /\ UpdateOwnsRlsLock'
      /\ LinksGoUp'
      /\ RelinkingIsIdle'
      /\ UpdatesFit'
  BY <1>5
  DEF Inv, Safe, UpdateOwnsRlsLock, LinksGoUp, RelinkingIsIdle, UpdatesFit
<1>7. ForwardsMatch'
  BY <1>1, <1>2, <1>3, <1>4, <1>5, ConnNames, ConnsDiffer
  DEF Inv, Safe, ForwardsMatch, NoThread, Waiting
<1>8. LinksMatch'
  BY <1>1, <1>2, <1>3, <1>4, <1>5, ConnNames, ConnsDiffer
  DEF Inv, Safe, LinksMatch, Busy, NoThread, Waiting, HoldsList
<1>9. ClientsMatch'
  BY <1>1, <1>2, <1>3, <1>4, <1>5, ConnNames, ConnsDiffer
  DEF Inv, Safe, ClientsMatch, Busy, NoThread, Waiting, HoldsList
<1>10. ForwardOwnsRlsLock'
  BY <1>2, <1>3, <1>4, <1>5
  DEF Inv, Safe, ForwardOwnsRlsLock, HoldsList, NoThread
<1>11. WriteOwnsListLock'
  BY <1>2, <1>3, <1>4, <1>5
  DEF Inv, Safe, WriteOwnsListLock, HoldsList, NoThread
<1>12. DeadHaveNoThreads'
  BY <1>2, <1>3, <1>4, <1>5 DEF Inv, Safe, DeadHaveNoThreads, NoThread, Waiting
<1>13. HoldersHaveWrites'
  BY <1>2, <1>3, <1>4
  DEF Inv, Safe, HoldersHaveWrites, HoldsList, NoThread, Waiting
<1>14. FetchersFetch'
  BY <1>2, <1>3, <1>4, ConnNames DEF Inv, Safe, FetchersFetch, NoThread, Waiting
<1> QED BY <1>6, <1>7, <1>8, <1>9, <1>10, <1>11, <1>12, <1>13, <1>14 DEF Safe

(* The client was idle, so no thread was busy for it. *)
LEMMA ClientSendInv ==
  ASSUME Inv, NEW c \in Clients, NEW r \in Requests,
         ClientSend(c, r)
  PROVE  Safe'
<1>1. /\ thr \in ThreadTable
      /\ \A x \in Servers : rl_next[x] # 0 => rl_next[x] \in Servers
      /\ \A x \in Ends : link[x] # 0 => link[x] \in Servers
  BY TypeFacts DEF Inv
<1>2. client[c].pc = "idle" /\ cupd[c].pc # "conn"
  BY DEF ClientSend
<1>3. \A t \in Servers, e \in {"head", "tail"} : ~ Busy(t, EndConn(c, e))
  BY <1>2, EndIsNotBusy
<1>4. EndOf(r) \in {"head", "tail"}
  BY EndIsEnd
<1>5. \A d \in Clients : d # c => client'[d] = client[d]
  BY DEF ClientSend, Finish, Killed, Inv, TypeOK, ClientTypeOK
<1>6. \/ /\ link[EndConn(c, EndOf(r))] # 0
         /\ client'[c].pc = "wait" /\ client'[c].req = r
         /\ thr[link[EndConn(c, EndOf(r))]][EndConn(c, EndOf(r))].pc # "none"
         /\ thr' = [thr EXCEPT ![link[EndConn(c, EndOf(r))]][EndConn(c, EndOf(r))] =
                                  [pc |-> "got", req |-> r]]
      \/ thr' = thr /\ client'[c].pc # "wait"
  BY DEF ClientSend, Finish, Killed, Broken, Inv, TypeOK, ClientTypeOK
<1>7. \A x \in Servers, y \in Conns :
        \/ thr'[x][y] = thr[x][y]
        \/ /\ y = EndConn(c, EndOf(r)) /\ x = link[y]
           /\ client'[c].pc = "wait" /\ client'[c].req = r
           /\ thr[x][y].pc # "none"
           /\ thr'[x][y].pc = "got" /\ thr'[x][y].req = r
  BY <1>1, <1>6 DEF ThreadTable
<1>8. UNCHANGED <<main, upd, rl_next, rls_lock, lock_list, link, cupd>>
  BY DEF ClientSend, Finish, Killed, server, zookeeper, threads, lists, clients
<1>9. /\ UpdateOwnsRlsLock'
      /\ LinksGoUp'
      /\ UpdatesFit'
  BY <1>8 DEF Inv, Safe, UpdateOwnsRlsLock, LinksGoUp, UpdatesFit
<1>10. ForwardsMatch'
  BY <1>1, <1>3, <1>4, <1>6, <1>7, <1>8, ConnNames, ConnsDiffer
  DEF Inv, Safe, ForwardsMatch, NoThread, Waiting
<1>11. LinksMatch'
  BY <1>1, <1>3, <1>4, <1>6, <1>7, <1>8, ConnNames, ConnsDiffer
  DEF Inv, Safe, LinksMatch, Busy, NoThread, Waiting, HoldsList
<1>12. ClientsMatch'
  BY <1>1, <1>2, <1>3, <1>4, <1>5, <1>6, <1>7, <1>8, ConnNames, ConnsDiffer
  DEF Inv, Safe, ClientsMatch, Busy, NoThread, Waiting, HoldsList
<1>13. ForwardOwnsRlsLock'
  BY <1>3, <1>4, <1>6, <1>7, <1>8
  DEF Inv, Safe, ForwardOwnsRlsLock, HoldsList, NoThread, Waiting, Busy
<1>14. WriteOwnsListLock'
  BY <1>3, <1>4, <1>6, <1>7, <1>8
  DEF Inv, Safe, WriteOwnsListLock, HoldsList, NoThread, Waiting, Busy
<1>15. DeadHaveNoThreads'
  BY <1>3, <1>4, <1>6, <1>7, <1>8
  DEF Inv, Safe, DeadHaveNoThreads, NoThread, Waiting
<1>16. HoldersHaveWrites'
  BY <1>3, <1>4, <1>6, <1>7
  DEF Inv, Safe, HoldersHaveWrites, HoldsList, NoThread, Waiting
<1>17. FetchersFetch'
  BY <1>3, <1>4, <1>6, <1>7, ConnNames, ConnsDiffer
  DEF Inv, Safe, FetchersFetch, NoThread, Waiting
<1>18. RelinkingIsIdle'
  BY <1>2, <1>4, <1>5, <1>6, <1>7, <1>8 DEF Inv, Safe, RelinkingIsIdle
<1> QED BY <1>9, <1>10, <1>11, <1>12, <1>13, <1>14, <1>15, <1>16, <1>17, <1>18
DEF Safe

(* The answer taken is that of the request the client waits for. *)
LEMMA ClientReceiveInv ==
  ASSUME Inv, NEW c \in Clients,
         ClientReceive(c)
  PROVE  Safe'
<1>1. /\ thr \in ThreadTable
      /\ \A x \in Servers : rl_next[x] # 0 => rl_next[x] \in Servers
      /\ \A x \in Ends : link[x] # 0 => link[x] \in Servers
  BY TypeFacts DEF Inv
<1>2. client[c].pc = "wait"
  BY DEF ClientReceive
<1>3. EndOf(client[c].req) \in {"head", "tail"}
  BY EndIsEnd
<1>4. /\ \A d \in Clients : d # c => client'[d] = client[d]
      /\ client'[c].pc # "wait"
  BY DEF ClientReceive, Finish, Inv, TypeOK, ClientTypeOK
<1>5. \A t, o : /\ AfterReply(t, o) \in {NoThread, Waiting}
                /\ AfterReply(t, o) = Waiting => thr[t][o].pc = "reply"
  BY DEF AfterReply, Returned, NoThread, Waiting
<1>6. LET e == EndOf(client[c].req)
          t == link[EndConn(c, e)]
      IN  /\ thr[t][EndConn(c, e)].pc \in {"none", "reply"}
          /\ thr' = [thr EXCEPT ![t][EndConn(c, e)] = AfterReply(t, EndConn(c, e))]
  BY DEF ClientReceive, Returns
<1>7. \A x \in Servers, y \in Conns :
        IF y = EndConn(c, EndOf(client[c].req)) /\ x = link[y]
          THEN /\ thr[x][y].pc \in {"none", "reply"}
               /\ thr'[x][y] \in {NoThread, Waiting}
               /\ thr'[x][y] = Waiting => thr[x][y].pc = "reply"
          ELSE thr'[x][y] = thr[x][y]
  <2>1. \A x \in Servers, y \in Conns :
          thr'[x][y] = IF y = EndConn(c, EndOf(client[c].req)) /\ x = link[y]
                         THEN AfterReply(x, y) ELSE thr[x][y]
    BY <1>1, <1>6 DEF ThreadTable
  <2> QED BY <1>5, <1>6, <2>1
<1>8. UNCHANGED <<main, upd, rl_next, rls_lock, lock_list, link, cupd>>
  BY DEF ClientReceive, Finish, server, zookeeper, threads, lists, clients
<1>9. /\ UpdateOwnsRlsLock'
      /\ LinksGoUp'
      /\ UpdatesFit'
  BY <1>8 DEF Inv, Safe, UpdateOwnsRlsLock, LinksGoUp, UpdatesFit
<1>10. ForwardsMatch'
  BY <1>1, <1>2, <1>3, <1>4, <1>7, <1>8, ConnNames, ConnsDiffer
  DEF Inv, Safe, ForwardsMatch, NoThread, Waiting
<1>11. LinksMatch'
  BY <1>1, <1>7, <1>8, ConnNames, ConnsDiffer
  DEF Inv, Safe, LinksMatch, Busy, NoThread, Waiting, HoldsList
<1>12. ClientsMatch'
  BY <1>1, <1>2, <1>3, <1>4, <1>7, <1>8, ConnNames, ConnsDiffer
  DEF Inv, Safe, ClientsMatch, Busy, NoThread, Waiting, HoldsList
<1>13. ForwardOwnsRlsLock'
  BY <1>7, <1>8
  DEF Inv, Safe, ForwardOwnsRlsLock, HoldsList, NoThread, Waiting, Busy
<1>14. WriteOwnsListLock'
  BY <1>7, <1>8
  DEF Inv, Safe, WriteOwnsListLock, HoldsList, NoThread, Waiting, Busy
<1>15. DeadHaveNoThreads'
  BY <1>7, <1>8 DEF Inv, Safe, DeadHaveNoThreads, NoThread, Waiting
<1>16. HoldersHaveWrites'
  BY <1>7
  DEF Inv, Safe, HoldersHaveWrites, HoldsList, NoThread, Waiting
<1>17. FetchersFetch'
  BY <1>7, ConnNames, ConnsDiffer
  DEF Inv, Safe, FetchersFetch, NoThread, Waiting
<1>18. RelinkingIsIdle'
  BY <1>2, <1>3, <1>4, <1>8 DEF Inv, Safe, RelinkingIsIdle
<1> QED BY <1>9, <1>10, <1>11, <1>12, <1>13, <1>14, <1>15, <1>16, <1>17, <1>18
DEF Safe

(* A new call of the client's update touches no connection. *)
LEMMA ClientWatcherInv ==
  ASSUME Inv, NEW c \in Clients,
         ClientWatcher(c)
  PROVE  Safe'
<1>1. /\ \A d \in Clients : d # c => cupd'[d] = cupd[d]
      /\ cupd'[c].pc # "conn"
  BY DEF ClientWatcher, Inv, TypeOK, ClientTypeOK, ClientUpdateCall
<1>2. UNCHANGED <<main, upd, rl_next, rls_lock, lock_list, thr, client, link>>
  BY DEF ClientWatcher, server, zookeeper, threads, lists, clients
<1>3. /\ ForwardsMatch'
      /\ LinksMatch'
      /\ ClientsMatch'
      /\ UpdateOwnsRlsLock'
      /\ ForwardOwnsRlsLock'
      /\ WriteOwnsListLock'
      /\ LinksGoUp'
      /\ DeadHaveNoThreads'
      /\ HoldersHaveWrites'
      /\ FetchersFetch'
      /\ UpdatesFit'
  BY <1>2 DEF Inv, Safe, ForwardsMatch, LinksMatch, ClientsMatch,
     UpdateOwnsRlsLock, ForwardOwnsRlsLock, WriteOwnsListLock, LinksGoUp,
     DeadHaveNoThreads, HoldersHaveWrites, FetchersFetch, UpdatesFit, Busy
<1>4. RelinkingIsIdle'
  BY <1>1, <1>2 DEF Inv, Safe, RelinkingIsIdle
<1> QED BY <1>3, <1>4 DEF Safe

(* Reading a znode touches no connection. *)
LEMMA ClientGetInv ==
  ASSUME Inv, NEW c \in Clients,
         ClientGet(c)
  PROVE  Safe'
<1>1. /\ \A d \in Clients : d # c => cupd'[d] = cupd[d]
      /\ cupd'[c].pc # "conn"
  BY DEF ClientGet, ClientLinked, Inv, TypeOK, ClientTypeOK, ClientUpdateCall
<1>2. link' = link
  <2>1. link \in [Ends -> 0 .. N]
    BY DEF Inv, TypeOK, ClientTypeOK
  <2>2. PICK o : link' = link \/ link' = [link EXCEPT ![o] = link[o]]
    BY DEF ClientGet, ClientLinked
  <2> QED BY <2>1, <2>2
<1>3. UNCHANGED <<main, upd, rl_next, rls_lock, lock_list, thr, client>>
  BY DEF ClientGet, ClientLinked, server, zookeeper, threads, lists, clients
<1>4. /\ ForwardsMatch'
      /\ LinksMatch'
      /\ UpdateOwnsRlsLock'
      /\ ForwardOwnsRlsLock'
      /\ WriteOwnsListLock'
      /\ LinksGoUp'
      /\ DeadHaveNoThreads'
      /\ HoldersHaveWrites'
      /\ FetchersFetch'
      /\ UpdatesFit'
  BY <1>3 DEF Inv, Safe, ForwardsMatch, LinksMatch, UpdateOwnsRlsLock,
     ForwardOwnsRlsLock, WriteOwnsListLock, LinksGoUp, DeadHaveNoThreads,
     HoldersHaveWrites, FetchersFetch, UpdatesFit, Busy
<1>5. ClientsMatch'
  BY <1>2, <1>3 DEF Inv, Safe, ClientsMatch, Busy
<1>6. RelinkingIsIdle'
  BY <1>1, <1>3 DEF Inv, Safe, RelinkingIsIdle
<1> QED BY <1>4, <1>5, <1>6 DEF Safe

(* The client is idle, so the link that is dropped carries no request. *)
LEMMA ClientDisconnectInv ==
  ASSUME Inv, NEW c \in Clients,
         ClientDisconnect(c)
  PROVE  Safe'
<1>1. /\ thr \in ThreadTable
      /\ \A x \in Servers : rl_next[x] # 0 => rl_next[x] \in Servers
      /\ \A x \in Ends : link[x] # 0 => link[x] \in Servers
  BY TypeFacts DEF Inv
<1>2. client[c].pc = "idle" /\ cupd[c].end \in {"head", "tail"}
  BY DEF ClientDisconnect, Inv, Safe, RelinkingIsIdle, TypeOK, ClientTypeOK,
     ClientUpdateCall
<1>3. \A t \in Servers, e \in {"head", "tail"} : ~ Busy(t, EndConn(c, e))
  BY <1>2, EndIsNotBusy
<1>4. \A d \in Clients : d # c => cupd'[d] = cupd[d]
  BY DEF ClientDisconnect, ClientLinked, Inv, TypeOK, ClientTypeOK,
     ClientUpdateCall
<1>5. \A x \in Ends : x # EndConn(c, cupd[c].end) => link'[x] = link[x]
  <2>1. link \in [Ends -> 0 .. N]
    BY DEF Inv, TypeOK, ClientTypeOK
  <2>2. PICK t : link' = [link EXCEPT ![EndConn(c, cupd[c].end)] = t]
    BY DEF ClientDisconnect, ClientLinked
  <2> QED BY <2>1, <2>2
<1>6. \A x \in Servers, y \in Conns :
        \/ thr'[x][y] = thr[x][y]
        \/ y = EndConn(c, cupd[c].end) /\ thr'[x][y] = NoThread
  <2>1. \/ thr' = thr
        \/ \E t : thr' = [thr EXCEPT ![t][EndConn(c, cupd[c].end)] = NoThread]
    BY DEF ClientDisconnect
  <2> QED BY <1>1, <2>1 DEF ThreadTable
<1>7. UNCHANGED <<main, upd, rl_next, rls_lock, lock_list, client>>
  BY DEF ClientDisconnect, server, zookeeper, threads, lists, clients
<1>8. /\ UpdateOwnsRlsLock'
      /\ LinksGoUp'
      /\ UpdatesFit'
  BY <1>7 DEF Inv, Safe, UpdateOwnsRlsLock, LinksGoUp, UpdatesFit
<1>9. ForwardsMatch'
  BY <1>1, <1>3, <1>6, <1>7, ConnNames, ConnsDiffer
  DEF Inv, Safe, ForwardsMatch, NoThread, Waiting
<1>10. LinksMatch'
  BY <1>1, <1>3, <1>6, <1>7, ConnNames, ConnsDiffer
  DEF Inv, Safe, LinksMatch, Busy, NoThread, Waiting, HoldsList
<1>11. ClientsMatch'
  BY <1>1, <1>2, <1>3, <1>5, <1>6, <1>7, ConnNames, ConnsDiffer
  DEF Inv, Safe, ClientsMatch, Busy, NoThread, Waiting, HoldsList
<1>12. ForwardOwnsRlsLock'
  BY <1>1, <1>2, <1>3, <1>4, <1>5, <1>6, <1>7
  DEF Inv, Safe, ForwardOwnsRlsLock, HoldsList, NoThread, Waiting, Busy
<1>13. WriteOwnsListLock'
  BY <1>1, <1>2, <1>3, <1>4, <1>5, <1>6, <1>7
  DEF Inv, Safe, WriteOwnsListLock, HoldsList, NoThread, Waiting, Busy
<1>14. DeadHaveNoThreads'
  BY <1>3, <1>6, <1>7 DEF Inv, Safe, DeadHaveNoThreads, NoThread, Waiting
<1>15. HoldersHaveWrites'
  BY <1>3, <1>6 DEF Inv, Safe, HoldersHaveWrites, HoldsList, NoThread, Waiting
<1>16. FetchersFetch'
  BY <1>3, <1>6, ConnNames, ConnsDiffer
  DEF Inv, Safe, FetchersFetch, NoThread, Waiting
<1>17. RelinkingIsIdle'
  BY <1>2, <1>4, <1>7 DEF Inv, Safe, RelinkingIsIdle
<1> QED BY <1>8, <1>9, <1>10, <1>11, <1>12, <1>13, <1>14, <1>15, <1>16, <1>17
DEF Safe

(* No command runs while the client connects, so no thread is busy for it. *)
LEMMA ClientConnectInv ==
  ASSUME Inv, NEW c \in Clients,
         ClientConnect(c)
  PROVE  Safe'
<1>1. /\ thr \in ThreadTable
      /\ \A x \in Servers : rl_next[x] # 0 => rl_next[x] \in Servers
      /\ \A x \in Ends : link[x] # 0 => link[x] \in Servers
  BY TypeFacts DEF Inv
<1>2. client[c].pc = "idle" /\ cupd[c].end \in {"head", "tail"}
  BY DEF ClientConnect, Inv, Safe, RelinkingIsIdle, TypeOK, ClientTypeOK,
     ClientUpdateCall
<1>3. \A t \in Servers, e \in {"head", "tail"} : ~ Busy(t, EndConn(c, e))
  BY <1>2, EndIsNotBusy
<1>4. \A d \in Clients : d # c => cupd'[d] = cupd[d]
  BY DEF ClientConnect, ClientLinked, Inv, TypeOK, ClientTypeOK,
     ClientUpdateCall
<1>5. \A x \in Ends : x # EndConn(c, cupd[c].end) => link'[x] = link[x]
  <2>1. link \in [Ends -> 0 .. N]
    BY DEF Inv, TypeOK, ClientTypeOK
  <2>2. PICK t : link' = [link EXCEPT ![EndConn(c, cupd[c].end)] = t]
    BY DEF ClientConnect, ClientLinked
  <2> QED BY <2>1, <2>2
<1>6. cupd'[c].pc # "conn"
  BY DEF ClientConnect, ClientLinked, Inv, TypeOK, ClientTypeOK,
     ClientUpdateCall
<1>7. \A x \in Servers, y \in Conns :
        \/ thr'[x][y] = thr[x][y]
        \/ y = EndConn(c, cupd[c].end) /\ main[x] = "serving" /\ thr'[x][y] = Waiting
  <2>1. \/ thr' = thr
        \/ \E t : /\ main[t] = "serving"
                  /\ thr' = [thr EXCEPT ![t][EndConn(c, cupd[c].end)] = Waiting]
    BY DEF ClientConnect, Ready
  <2> QED BY <1>1, <2>1 DEF ThreadTable
<1>8. UNCHANGED <<main, upd, rl_next, rls_lock, lock_list, client>>
  BY DEF ClientConnect, ClientLinked, server, zookeeper, threads, lists, clients
<1>9. /\ UpdateOwnsRlsLock'
      /\ LinksGoUp'
      /\ UpdatesFit'
  BY <1>8 DEF Inv, Safe, UpdateOwnsRlsLock, LinksGoUp, UpdatesFit
<1>10. ForwardsMatch'
  BY <1>1, <1>2, <1>3, <1>4, <1>5, <1>6, <1>7, <1>8, ConnNames, ConnsDiffer
  DEF Inv, Safe, ForwardsMatch, NoThread, Waiting
<1>11. LinksMatch'
  BY <1>1, <1>3, <1>7, <1>8, ConnNames, ConnsDiffer
  DEF Inv, Safe, LinksMatch, Busy, NoThread, Waiting, HoldsList
<1>12. ClientsMatch'
  BY <1>1, <1>2, <1>3, <1>5, <1>7, <1>8, ConnNames, ConnsDiffer
  DEF Inv, Safe, ClientsMatch, Busy, NoThread, Waiting, HoldsList
<1>13. ForwardOwnsRlsLock'
  BY <1>1, <1>2, <1>3, <1>4, <1>5, <1>6, <1>7, <1>8
  DEF Inv, Safe, ForwardOwnsRlsLock, HoldsList, NoThread, Waiting, Busy
<1>14. WriteOwnsListLock'
  BY <1>1, <1>2, <1>3, <1>4, <1>5, <1>6, <1>7, <1>8
  DEF Inv, Safe, WriteOwnsListLock, HoldsList, NoThread, Waiting, Busy
<1>15. DeadHaveNoThreads'
  BY <1>3, <1>7, <1>8 DEF Inv, Safe, DeadHaveNoThreads, NoThread, Waiting
<1>16. HoldersHaveWrites'
  BY <1>3, <1>7 DEF Inv, Safe, HoldersHaveWrites, HoldsList, NoThread, Waiting
<1>17. FetchersFetch'
  BY <1>3, <1>7, ConnNames, ConnsDiffer
  DEF Inv, Safe, FetchersFetch, NoThread, Waiting
<1>18. RelinkingIsIdle'
  BY <1>2, <1>4, <1>6, <1>8 DEF Inv, Safe, RelinkingIsIdle
<1> QED BY <1>9, <1>10, <1>11, <1>12, <1>13, <1>14, <1>15, <1>16, <1>17, <1>18
DEF Safe

(* A step that leaves these variables alone leaves the invariant alone. *)
LEMMA SafeUnchanged ==
  ASSUME Safe,
         UNCHANGED <<main, upd, rl_next, rls_lock, lock_list, thr, client, link,
                     cupd>>
  PROVE  Safe'
<1>1. ForwardsMatch' /\ LinksMatch' /\ ClientsMatch'
  BY DEF Safe, ForwardsMatch, LinksMatch, ClientsMatch, Busy
<1>2. UpdateOwnsRlsLock' /\ ForwardOwnsRlsLock' /\ WriteOwnsListLock'
  BY DEF Safe, UpdateOwnsRlsLock, ForwardOwnsRlsLock, WriteOwnsListLock
<1>3. LinksGoUp' /\ DeadHaveNoThreads' /\ HoldersHaveWrites' /\ FetchersFetch'
  BY DEF Safe, LinksGoUp, DeadHaveNoThreads, HoldersHaveWrites, FetchersFetch
<1>4. RelinkingIsIdle' /\ UpdatesFit'
  BY DEF Safe, RelinkingIsIdle, UpdatesFit
<1> QED BY <1>1, <1>2, <1>3, <1>4 DEF Safe

(* Every step preserves the invariant. *)
LEMMA NextInv == Inv /\ [Next]_vars => Inv'
<1> SUFFICES ASSUME Inv, [Next]_vars PROVE Inv'
  OBVIOUS
<1>1. TypeOK'
  BY TypeNext DEF Inv, Safe
<1>2. ASSUME NEW s \in Servers,
             \/ Register(s) \/ Stop(s) \/ Expire(s) \/ MainStep(s) \/ Crash(s)
             \/ child_watcher(s)
      PROVE  Safe'
  <2>1. CASE Expire(s)
    <3>1. UNCHANGED <<main, upd, rl_next, rls_lock, lock_list, thr, client, link,
                      cupd>>
      BY <2>1 DEF Expire, server, threads, clients
    <3> QED BY <3>1, SafeUnchanged DEF Inv
  <2>2. CASE Crash(s) \/ Exit(s)
    BY <2>2, ProcessEndsInv DEF Crash, Exit
  <2> QED
    BY <1>2, <2>1, <2>2, RegisterInv, StopInv, GetChildrenInv, init_listInv,
       ConnectPreviousInv, LoadListInv, zoo_clean_serverInv, child_watcherInv
    DEF MainStep
<1>3. ASSUME NEW s \in Servers, NEW w \in Callers,
             Update(s, w) \/ UpdateConnect(s, w)
      PROVE  Safe'
  BY <1>3, UpdateInv, UpdateConnectInv
<1>4. ASSUME NEW s \in Servers, NEW o \in Conns, ThreadStep(s, o) PROVE Safe'
  BY <1>4, TakeListLockInv, ReadInv, ForwardNotInv, ForwardSendsInv,
     ForwardReturnsInv, ApplyInv, RefuseInv, HangupInv
  DEF ThreadStep
<1>5. ASSUME NEW c \in Clients, ClientStep(c) PROVE Safe'
  BY <1>5, ClientReceiveInv, ClientWatcherInv, ClientGetInv,
     ClientDisconnectInv, ClientConnectInv
  DEF ClientStep
<1>6. ASSUME NEW c \in Clients, NEW r \in Requests, ClientSend(c, r) PROVE Safe'
  BY <1>6, ClientSendInv
<1>7. ASSUME UNCHANGED vars PROVE Safe'
  <2>1. UNCHANGED <<main, upd, rl_next, rls_lock, lock_list, thr, client, link,
                    cupd>>
    BY <1>7 DEF vars, server, threads, clients
  <2> QED BY <2>1, SafeUnchanged DEF Inv
<1>8. Safe'
  <2>1. CASE SystemStep
    BY <2>1, <1>2, <1>3, <1>4, <1>5, Zenon DEF SystemStep, UpdateStep
  <2>2. CASE Environment
    BY <2>2, <1>2, <1>6, Zenon DEF Environment
  <2>3. CASE Quiet
    BY <2>3, <1>7 DEF Quiet
  <2> QED BY <1>7, <2>1, <2>2, <2>3 DEF Next
<1> QED BY <1>1, <1>8 DEF Inv

-----------------------------------------------------------------------------
(* The chain as sequential starts leave it is well formed. *)
LEMMA InitType == Init => TypeOK
<1> SUFFICES ASSUME Init PROVE TypeOK
  OBVIOUS
<1>1. ServerTypeOK
  <2>1. [pc |-> "idle", kids |-> {}, to |-> 0] \in UpdateCall
    BY ChainAssumption DEF UpdateCall
  <2>2. upd \in [Servers -> [Callers -> UpdateCall]]
    BY <2>1 DEF Init
  <2>3. main \in [Servers -> MainPc] /\ rl_next \in [Servers -> 0 .. N]
    BY ChainAssumption DEF Init, MainPc, Servers
  <2>4. /\ rls_lock \in [Servers -> Conns \cup Callers \cup {Free}]
        /\ faults \in Failures
    BY ChainAssumption DEF Init, Failures
  <2> QED BY <2>2, <2>3, <2>4 DEF ServerTypeOK
<1>2. ZooKeeperTypeOK
  BY ChainAssumption DEF Init, ZooKeeperTypeOK, Servers
<1>3. ThreadTypeOK
  <2>1. thr \in [Servers -> [Conns -> Thread]]
    BY IdleThreads DEF Init
  <2> QED BY <2>1 DEF Init, ThreadTypeOK
<1>4. ClientTypeOK
  <2>1. link \in [Ends -> 0 .. N]
    BY ChainAssumption DEF Init
  <2>2. client \in [Clients -> Client] /\ cupd \in [Clients -> ClientUpdateCall]
    BY DEF Init, Client, ClientUpdateCall
  <2> QED BY <2>1, <2>2 DEF Init, ClientTypeOK
<1> QED BY <1>1, <1>2, <1>3, <1>4 DEF TypeOK

(* No request is under way and no lock is held in that chain. *)
LEMMA InitInv == Init => Inv
<1> SUFFICES ASSUME Init PROVE Inv
  OBVIOUS
<1>1. \A s \in Servers, o \in Conns : thr[s][o] \in {NoThread, Waiting}
  BY DEF Init
<1>2. \A s \in Servers, o \in Conns :
        thr[s][o].pc \in {"none", "recv"} /\ thr[s][o].req = FETCH
  BY <1>1 DEF NoThread, Waiting
<1>3. \A s \in Servers, w \in Callers : upd[s][w].pc = "idle"
  BY DEF Init
<1>4. \A s \in Servers : /\ main[s] # "down"
                         /\ rls_lock[s] = Free /\ lock_list[s] = Free
                         /\ rl_next[s] # 0 => s < rl_next[s]
  BY DEF Init, Servers
<1>5. \A c \in Clients : cupd[c].pc = "idle"
  BY DEF Init
<1>6. ForwardsMatch /\ LinksMatch /\ ClientsMatch
  BY <1>2, ConnNames
  DEF ForwardsMatch, LinksMatch, ClientsMatch, Busy, HoldsList
<1>7. UpdateOwnsRlsLock /\ ForwardOwnsRlsLock /\ WriteOwnsListLock
  BY <1>2, <1>3, <1>4, ChainAssumption
  DEF UpdateOwnsRlsLock, ForwardOwnsRlsLock, WriteOwnsListLock, HoldsList
<1>8. LinksGoUp /\ DeadHaveNoThreads /\ HoldersHaveWrites /\ FetchersFetch
  BY <1>2, <1>4, ConnNames
  DEF LinksGoUp, DeadHaveNoThreads, HoldersHaveWrites, FetchersFetch, HoldsList
<1>9. RelinkingIsIdle /\ UpdatesFit
  BY <1>3, <1>5, MainIsCaller DEF RelinkingIsIdle, UpdatesFit
<1> QED BY <1>6, <1>7, <1>8, <1>9, InitType DEF Inv, Safe

(* The invariant holds in every state of every behaviour. *)
LEMMA AlwaysInv == Spec => []Inv
  BY InitInv, NextInv, PTL DEF Spec

(* However servers join, leave and fail, every variable of the chain keeps *)
(* its type: the histories hold requests of clients only, links and        *)
(* snapshots name servers, and the bound on failures is kept.              *)
THEOREM ChainTypeCorrect == Spec => []TypeOK
<1>1. Inv => TypeOK
  BY DEF Inv
<1> QED BY <1>1, AlwaysInv, PTL

(* In a chain of any length rls_lock and lock_list are each held by one    *)
(* thread, which knows it: no path of update, zoo_forward_to_successor and *)
(* client_thread keeps a mutex or releases one that is not its own.        *)
THEOREM ChainLocksAreOwned == Spec => []LocksAreOwned
<1>1. Inv => LocksAreOwned
  BY DEF Inv, Safe, LocksAreOwned
<1> QED BY <1>1, AlwaysInv, PTL

(* The links of update lead to higher numbers only, so a write that waits  *)
(* for its successor can never be part of a cycle of waiting forwards.     *)
THEOREM ChainLinksGoUp == Spec => []LinksGoUp
<1>1. Inv => LinksGoUp
  BY DEF Inv, Safe
<1> QED BY <1>1, AlwaysInv, PTL

(* No answer ever reaches a request other than its own, whatever update    *)
(* does to the links of servers and clients meanwhile.                     *)
THEOREM ChainAnswersMatchRequests == Spec => []AnswersMatchRequests
<1>1. Inv => AnswersMatchRequests
  BY DEF Inv, Safe, AnswersMatchRequests
<1> QED BY <1>1, AlwaysInv, PTL
=============================================================================
