--------------------------- MODULE ChainOnceProofs ---------------------------
(***************************************************************************)
(* Two proofs about module ChainServer that rest on its invariant: a link  *)
(* is never one to the wrong server, and no server applies a write twice.  *)
(***************************************************************************)
EXTENDS ChainServerProofs

(***************************************************************************)
(* Proof about module ChainServer, for any number of servers, clients,     *)
(* requests and failures of every kind: a link is never one to the wrong   *)
(* server.                                                                 *)
(*                                                                         *)
(* LinksAreCurrent speaks of the state between two calls of update.  Of a  *)
(* call under way it has to be known that what it is about to connect to   *)
(* is current too (CallsAreCurrent), and that depends on what an old       *)
(* snapshot tells: the numbers of znodes only grow, so that a server which *)
(* is missing from it is above all that are in it (SnapshotsFit).          *)
(***************************************************************************)

(* Servers register in the order of their numbers, and only they have a    *)
(* znode.                                                                  *)
StartsInOrder ==
  /\ \A k \in children : main[k] # "off"
  /\ \A j, k \in Servers : main[k] = "off" /\ k < j => main[j] = "off"

(* The snapshot of a call of update under way: its server is in it, and    *)
(* whoever is in /chain but not in it came later.                          *)
SnapshotsFit ==
  \A s \in Servers, w \in Callers : upd[s][w].pc # "idle" =>
    LET kids == upd[s][w].kids
    IN  /\ s \in kids
        /\ \A j \in kids : main[j] # "off"
        /\ \A k \in children \ kids, j \in kids : j < k

(* Before its first look at /chain a server follows no change of it. *)
FirstLookIsFirst ==
  \A s \in Servers : main[s] \in {"off", "watch"} =>
    /\ rl_next[s] = 0 /\ upd[s][Zk].pc = "idle"
    /\ s \notin watch /\ s \notin event

(* What update is about to connect to, as LinksAreCurrent has it. *)
CallsAreCurrent ==
  \A s \in Servers, w \in Callers :
    s \in watch /\ upd[s][Zk].pc # "lock" /\ upd[s][w].pc = "conn"
      => IsNext(s, children, upd[s][w].to)

LinkInv ==
  /\ StartsInOrder /\ SnapshotsFit /\ FirstLookIsFirst /\ CallsAreCurrent
  /\ LinksAreCurrent

-----------------------------------------------------------------------------
(* The same call of update, as far as LinkInv tells. *)
SameCall(s, w) ==
  /\ upd'[s][w].pc = upd[s][w].pc /\ upd'[s][w].kids = upd[s][w].kids
  /\ upd[s][w].pc = "conn" => upd'[s][w].to = upd[s][w].to

(* What all steps have in common that neither look at /chain nor follow a  *)
(* look: znodes and links may go, and a process may end its calls.         *)
OnlyDrops ==
  /\ children' \subseteq children
  /\ \/ /\ children' = children
        /\ \A s \in Servers : /\ s \in watch' <=> s \in watch
                              /\ s \in event' => s \in event
     \/ \A s \in Servers : /\ s \notin watch'
                           /\ s \in event' => s \in event \cup watch
  /\ \A s \in Servers :
       /\ \/ main'[s] = main[s]
          \/ main[s] # "off" /\ main'[s] \notin {"off", "watch"}
       /\ rl_next'[s] \in {0, rl_next[s]}
       /\ \/ \A w \in Callers : SameCall(s, w)
          \/ /\ rl_next'[s] = 0
             /\ \A w \in Callers : upd'[s][w].pc = "idle"

(* Such a step makes no link wrong. *)
LEMMA OnlyDropsLinks ==
  ASSUME TypeOK, LinkInv, OnlyDrops
  PROVE  LinkInv'
<1>1. StartsInOrder'
  BY DEF LinkInv, StartsInOrder, OnlyDrops, TypeOK, ZooKeeperTypeOK
<1>2. SnapshotsFit'
  <2> SUFFICES ASSUME NEW s \in Servers, NEW w \in Callers,
                      upd'[s][w].pc # "idle"
               PROVE  LET kids == upd'[s][w].kids
                      IN  /\ s \in kids
                          /\ \A j \in kids : main'[j] # "off"
                          /\ \A k \in children' \ kids, j \in kids : j < k
    BY DEF SnapshotsFit
  <2>1. SameCall(s, w)
    BY DEF OnlyDrops
  <2>2. upd[s][w].pc # "idle" /\ upd'[s][w].kids = upd[s][w].kids
    BY <2>1 DEF SameCall
  <2>3. upd[s][w].kids \subseteq Servers
    BY DEF TypeOK, ServerTypeOK, UpdateCall
  <2> QED BY <2>2, <2>3 DEF LinkInv, SnapshotsFit, OnlyDrops
<1>3. FirstLookIsFirst'
  <2> SUFFICES ASSUME NEW s \in Servers, main'[s] \in {"off", "watch"}
               PROVE  /\ rl_next'[s] = 0 /\ upd'[s][Zk].pc = "idle"
                      /\ s \notin watch' /\ s \notin event'
    BY DEF FirstLookIsFirst
  <2>1. main'[s] = main[s]
    BY DEF OnlyDrops
  <2> QED BY <2>1, MainIsCaller
          DEF LinkInv, FirstLookIsFirst, OnlyDrops, SameCall
<1>4. ASSUME NEW s \in Servers, s \in watch'
      PROVE  s \in watch /\ children' = children
  BY <1>4 DEF OnlyDrops
<1>5. CallsAreCurrent'
  <2> SUFFICES ASSUME NEW s \in Servers, NEW w \in Callers, s \in watch',
                      upd'[s][Zk].pc # "lock", upd'[s][w].pc = "conn"
               PROVE  IsNext(s, children', upd'[s][w].to)
    BY DEF CallsAreCurrent, IsNext
  <2>1. SameCall(s, w) /\ SameCall(s, Zk)
    BY MainIsCaller DEF OnlyDrops
  <2> QED BY <1>4, <2>1 DEF LinkInv, CallsAreCurrent, SameCall
<1>6. LinksAreCurrent'
  <2> SUFFICES ASSUME NEW s \in Servers, s \in watch',
                      upd'[s][Zk].pc # "lock", rl_next'[s] # 0
               PROVE  IsNext(s, children', rl_next'[s])
    BY DEF LinksAreCurrent, IsNext
  <2>1. SameCall(s, Zk) /\ rl_next'[s] = rl_next[s]
    BY MainIsCaller DEF OnlyDrops
  <2> QED BY <1>4, <2>1 DEF LinkInv, LinksAreCurrent, SameCall
<1> QED BY <1>1, <1>2, <1>3, <1>5, <1>6 DEF LinkInv

(* zoo_create: the new znode has a higher number than all others, and every *)
(* server hears of it.                                                     *)
LEMMA RegisterLinks ==
  ASSUME TypeOK, LinkInv, NEW s \in Servers, Register(s)
  PROVE  LinkInv'
<1>1. /\ main[s] = "off" /\ \A k \in Servers : k < s => main[k] # "off"
      /\ \A x \in Servers : main'[x] = IF x = s THEN "watch" ELSE main[x]
  BY DEF Register, TypeOK, ServerTypeOK
<1>2. /\ children' = children \cup {s} /\ watch' = {}
      /\ event' = event \cup watch
      /\ upd' = upd /\ rl_next' = rl_next
  BY DEF Register, SetChildren
<1>3. children \subseteq Servers
  BY DEF TypeOK, ZooKeeperTypeOK
<1>4. StartsInOrder'
  BY <1>1, <1>2, <1>3 DEF LinkInv, StartsInOrder, Servers
<1>5. SnapshotsFit'
  <2> SUFFICES ASSUME NEW x \in Servers, NEW w \in Callers,
                      upd[x][w].pc # "idle"
               PROVE  LET kids == upd[x][w].kids
                      IN  /\ x \in kids
                          /\ \A j \in kids : main'[j] # "off"
                          /\ \A k \in children' \ kids, j \in kids : j < k
    BY <1>2 DEF SnapshotsFit
  <2>1. upd[x][w].kids \subseteq Servers
    BY DEF TypeOK, ServerTypeOK, UpdateCall
  <2>2. /\ x \in upd[x][w].kids
        /\ \A j \in upd[x][w].kids : main[j] # "off"
        /\ \A k \in children \ upd[x][w].kids, j \in upd[x][w].kids : j < k
    BY DEF LinkInv, SnapshotsFit
  <2>3. \A j \in upd[x][w].kids : j < s
    BY <1>1, <2>1, <2>2 DEF LinkInv, StartsInOrder, Servers
  <2> QED BY <1>1, <1>2, <2>1, <2>2, <2>3
<1>6. FirstLookIsFirst'
  BY <1>1, <1>2 DEF LinkInv, FirstLookIsFirst
<1>7. CallsAreCurrent' /\ LinksAreCurrent'
  BY <1>2 DEF CallsAreCurrent, LinksAreCurrent
<1> QED BY <1>4, <1>5, <1>6, <1>7 DEF LinkInv

(* A look at /chain, by zoo_init_server or by child_watcher: the snapshot  *)
(* is what /chain holds, and update has yet to deal with it.               *)
LEMMA LookLinks ==
  ASSUME TypeOK, LinkInv, NEW s \in Servers, NEW w \in Callers,
         upd[s][w].pc = "idle", s \in children,
         UNCHANGED <<children, rl_next>>,
         watch' = watch \cup {s}, event' \subseteq event,
         upd' = [upd EXCEPT ![s][w] =
                   [pc |-> "lock", kids |-> children, to |-> 0]],
         \A x \in Servers : x # s => main'[x] = main[x],
         main[s] # "off", main'[s] \notin {"off", "watch"},
         w = Main => /\ rl_next[s] = 0
                     /\ \A v \in Callers : upd[s][v].pc # "conn"
  PROVE  LinkInv'
<1>1. /\ \A x \in Servers, v \in Callers :
           x # s \/ v # w => upd'[x][v] = upd[x][v]
      /\ upd'[s][w].pc = "lock" /\ upd'[s][w].kids = children
  BY DEF TypeOK, ServerTypeOK
<1>2. \A k \in Servers : main'[k] = "off" <=> main[k] = "off"
  OBVIOUS
<1>3. children \subseteq Servers /\ \A k \in children : main[k] # "off"
  BY DEF TypeOK, ZooKeeperTypeOK, LinkInv, StartsInOrder
<1>4. StartsInOrder'
  BY <1>2, <1>3 DEF LinkInv, StartsInOrder
<1>5. SnapshotsFit'
  <2> SUFFICES ASSUME NEW x \in Servers, NEW v \in Callers,
                      upd'[x][v].pc # "idle"
               PROVE  LET kids == upd'[x][v].kids
                      IN  /\ x \in kids
                          /\ \A j \in kids : main'[j] # "off"
                          /\ \A k \in children' \ kids, j \in kids : j < k
    BY DEF SnapshotsFit
  <2>1. CASE x = s /\ v = w
    BY <1>1, <1>2, <1>3, <2>1
  <2>2. CASE ~ (x = s /\ v = w)
    <3>1. upd'[x][v] = upd[x][v]
      BY <1>1, <2>2
    <3>2. upd[x][v].kids \subseteq Servers
      BY DEF TypeOK, ServerTypeOK, UpdateCall
    <3> QED BY <1>2, <3>1, <3>2 DEF LinkInv, SnapshotsFit
  <2> QED BY <2>1, <2>2
<1>6. FirstLookIsFirst'
  BY <1>1, MainIsCaller DEF LinkInv, FirstLookIsFirst
<1>7. CallsAreCurrent'
  <2> SUFFICES ASSUME NEW x \in Servers, NEW v \in Callers, x \in watch',
                      upd'[x][Zk].pc # "lock", upd'[x][v].pc = "conn"
               PROVE  IsNext(x, children', upd'[x][v].to)
    BY DEF CallsAreCurrent, IsNext
  <2>1. x # s
    BY <1>1, MainIsCaller DEF Callers
  <2> QED BY <1>1, <2>1, MainIsCaller DEF LinkInv, CallsAreCurrent
<1>8. LinksAreCurrent'
  <2> SUFFICES ASSUME NEW x \in Servers, x \in watch',
                      upd'[x][Zk].pc # "lock", rl_next'[x] # 0
               PROVE  IsNext(x, children', rl_next'[x])
    BY DEF LinksAreCurrent, IsNext
  <2>1. x # s
    BY <1>1, MainIsCaller DEF Callers
  <2> QED BY <1>1, <2>1, MainIsCaller DEF LinkInv, LinksAreCurrent
<1> QED BY <1>4, <1>5, <1>6, <1>7, <1>8 DEF LinkInv

(* The first look, which no call of update precedes. *)
LEMMA GetChildrenLinks ==
  ASSUME Inv, LinkInv, NEW s \in Servers, GetChildren(s)
  PROVE  LinkInv'
<1>1. TypeOK /\ main[s] = "watch"
  BY DEF Inv, GetChildren
<1>2. /\ \A x \in Servers : x # s => main'[x] = main[x]
      /\ main'[s] \in {"update", "closing"}
      /\ UNCHANGED <<children, event, rl_next>>
  BY <1>1 DEF GetChildren, TypeOK, ServerTypeOK
<1>3. /\ upd[s][Main].pc = "idle" /\ upd[s][Zk].pc = "idle"
      /\ rl_next[s] = 0
  BY <1>1 DEF Inv, Safe, UpdatesFit, LinkInv, FirstLookIsFirst
<1>4. CASE /\ s \in children /\ watch' = watch \cup {s}
           /\ upd' = [upd EXCEPT ![s][Main] =
                        [pc |-> "lock", kids |-> children, to |-> 0]]
  <2>1. \A v \in Callers : upd[s][v].pc # "conn"
    BY <1>3 DEF Callers
  <2> QED BY <1>1, <1>2, <1>3, <1>4, <2>1, LookLinks, MainIsCaller
<1>5. CASE UNCHANGED <<upd, watch>>
  <2>1. OnlyDrops
    BY <1>1, <1>2, <1>5 DEF OnlyDrops, SameCall
  <2> QED BY <1>1, <2>1, OnlyDropsLinks
<1> QED BY <1>4, <1>5 DEF GetChildren

(* A later look, by a server that has had its first one. *)
LEMMA child_watcherLinks ==
  ASSUME TypeOK, LinkInv, NEW s \in Servers, child_watcher(s)
  PROVE  LinkInv'
<1>1. /\ s \in event /\ event' = event \ {s} /\ upd[s][Zk].pc = "idle"
      /\ UNCHANGED <<children, main, rl_next>>
  BY DEF child_watcher
<1>2. main[s] \notin {"off", "watch"}
  BY <1>1 DEF LinkInv, FirstLookIsFirst
<1>3. CASE /\ s \in children /\ watch' = watch \cup {s}
           /\ upd' = [upd EXCEPT ![s][Zk] =
                        [pc |-> "lock", kids |-> children, to |-> 0]]
  BY <1>1, <1>2, <1>3, LookLinks, MainIsCaller, ChainAssumption
<1>4. CASE UNCHANGED <<watch, upd>>
  <2>1. OnlyDrops
    BY <1>1, <1>4 DEF OnlyDrops, SameCall
  <2> QED BY <2>1, OnlyDropsLinks
<1> QED BY <1>3, <1>4 DEF child_watcher

(* update drops the old link.  The server after s in the snapshot, if it   *)
(* still has a znode, is the one after s in /chain.                        *)
LEMMA UpdateLinks ==
  ASSUME Inv, LinkInv, NEW s \in Servers, NEW w \in Callers, Update(s, w)
  PROVE  LinkInv'
<1> DEFINE kids == upd[s][w].kids
<1>1. /\ upd[s][w].pc = "lock" /\ rls_lock[s] = Free
      /\ UNCHANGED <<children, watch, event>>
  BY DEF Update, zookeeper
<1>2. /\ s \in kids /\ kids \subseteq Servers
      /\ \A k \in children \ kids, j \in kids : j < k
  BY <1>1 DEF Inv, TypeOK, ServerTypeOK, UpdateCall, LinkInv, SnapshotsFit
<1>3. /\ rl_next'[s] = 0
      /\ \A x \in Servers : x # s => rl_next'[x] = rl_next[x]
  BY <1>2 DEF Update, Disconnect, Inv, TypeOK, ServerTypeOK
<1>4. \A v \in Callers : upd[s][v].pc # "conn"
  BY <1>1, ChainAssumption DEF Inv, Safe, UpdateOwnsRlsLock
<1>5. /\ \A x \in Servers, v \in Callers :
           x # s \/ v # w => upd'[x][v] = upd[x][v]
      /\ upd'[s][w].kids = kids
      /\ \/ upd'[s][w].pc = "idle"
         \/ /\ upd'[s][w].pc = "conn" /\ upd'[s][w].to \in children
            /\ IsNext(s, kids, upd'[s][w].to)
  <2>1. upd \in UpdateTable /\ upd[s][w] \in UpdateCall
    BY DEF Inv, TypeOK, ServerTypeOK, UpdateTable
  <2>2. CASE upd' = [upd EXCEPT ![s][w].pc = "idle"]
    BY <2>1, <2>2 DEF UpdateTable, UpdateCall
  <2>3. ASSUME NEW t \in kids, IsNext(s, kids, t), t \in children,
               upd' = [upd EXCEPT ![s][w] =
                         [pc |-> "conn", kids |-> kids, to |-> t]]
        PROVE  /\ \A x \in Servers, v \in Callers :
                    x # s \/ v # w => upd'[x][v] = upd[x][v]
               /\ upd'[s][w] = [pc |-> "conn", kids |-> kids, to |-> t]
    BY <2>1, <2>3 DEF UpdateTable
  <2> QED BY <2>2, <2>3 DEF Update, UpdateDone
<1>6. \A x \in Servers :
        \/ main'[x] = main[x]
        \/ main[x] \notin {"off", "watch"} /\ main'[x] = "init"
  BY <1>1 DEF Update, UpdateDone, Inv, Safe, UpdatesFit, TypeOK, ServerTypeOK
<1>7. StartsInOrder'
  BY <1>1, <1>6 DEF LinkInv, StartsInOrder, Inv, TypeOK, ZooKeeperTypeOK
<1>8. SnapshotsFit'
  <2> SUFFICES ASSUME NEW x \in Servers, NEW v \in Callers,
                      upd'[x][v].pc # "idle"
               PROVE  /\ x \in upd'[x][v].kids
                      /\ \A j \in upd'[x][v].kids : main'[j] # "off"
                      /\ \A k \in children' \ upd'[x][v].kids :
                           \A j \in upd'[x][v].kids : j < k
    BY DEF SnapshotsFit
  <2>1. upd[x][v].pc # "idle" /\ upd'[x][v].kids = upd[x][v].kids
    BY <1>1, <1>5
  <2>2. upd[x][v].kids \subseteq Servers
    BY DEF Inv, TypeOK, ServerTypeOK, UpdateCall
  <2> QED BY <1>1, <1>6, <2>1, <2>2 DEF LinkInv, SnapshotsFit
<1>9. FirstLookIsFirst'
  BY <1>1, <1>3, <1>5, <1>6, MainIsCaller DEF LinkInv, FirstLookIsFirst
<1>10. CallsAreCurrent'
  <2> SUFFICES ASSUME NEW x \in Servers, NEW v \in Callers, x \in watch,
                      upd'[x][Zk].pc # "lock", upd'[x][v].pc = "conn"
               PROVE  IsNext(x, children, upd'[x][v].to)
    BY <1>1 DEF CallsAreCurrent
  <2>1. CASE x = s
    BY <1>2, <1>4, <1>5, <2>1
    DEF IsNext, Inv, TypeOK, ZooKeeperTypeOK, Servers
  <2>2. CASE x # s
    BY <1>5, <2>2, MainIsCaller DEF LinkInv, CallsAreCurrent
  <2> QED BY <2>1, <2>2
<1>11. LinksAreCurrent'
  BY <1>1, <1>3, <1>5, MainIsCaller DEF LinkInv, LinksAreCurrent, IsNext
<1> QED BY <1>7, <1>8, <1>9, <1>10, <1>11 DEF LinkInv

(* What update connects to is current, unless a look is still to be dealt  *)
(* with.                                                                   *)
LEMMA UpdateConnectLinks ==
  ASSUME Inv, LinkInv, NEW s \in Servers, NEW w \in Callers,
         UpdateConnect(s, w)
  PROVE  LinkInv'
<1>1. /\ upd[s][w].pc = "conn"
      /\ UNCHANGED <<children, watch, event>>
      /\ upd' = [upd EXCEPT ![s][w].pc = "idle"]
  BY DEF UpdateConnect, UpdateDone, zookeeper
<1>2. /\ \A x \in Servers : x # s => rl_next'[x] = rl_next[x]
      /\ rl_next'[s] \in {rl_next[s], upd[s][w].to}
  BY DEF UpdateConnect, Inv, TypeOK, ServerTypeOK
<1>3. /\ \A x \in Servers, v \in Callers :
           x # s \/ v # w => upd'[x][v] = upd[x][v]
      /\ upd'[s][w].pc = "idle"
  <2>1. upd \in UpdateTable /\ upd[s][w] \in UpdateCall
    BY DEF Inv, TypeOK, ServerTypeOK, UpdateTable
  <2> QED BY <1>1, <2>1 DEF UpdateTable, UpdateCall
<1>4. \A x \in Servers :
        \/ main'[x] = main[x]
        \/ main[x] \notin {"off", "watch"} /\ main'[x] = "init"
  BY <1>1 DEF UpdateConnect, UpdateDone, Inv, Safe, UpdatesFit, TypeOK,
     ServerTypeOK
<1>5. StartsInOrder'
  BY <1>1, <1>4 DEF LinkInv, StartsInOrder, Inv, TypeOK, ZooKeeperTypeOK
<1>6. SnapshotsFit'
  <2> SUFFICES ASSUME NEW x \in Servers, NEW v \in Callers,
                      upd'[x][v].pc # "idle"
               PROVE  /\ x \in upd'[x][v].kids
                      /\ \A j \in upd'[x][v].kids : main'[j] # "off"
                      /\ \A k \in children' \ upd'[x][v].kids :
                           \A j \in upd'[x][v].kids : j < k
    BY DEF SnapshotsFit
  <2>1. upd'[x][v] = upd[x][v]
    BY <1>3
  <2>2. upd[x][v].kids \subseteq Servers
    BY DEF Inv, TypeOK, ServerTypeOK, UpdateCall
  <2> QED BY <1>1, <1>4, <2>1, <2>2 DEF LinkInv, SnapshotsFit
<1>7. main[s] \notin {"off", "watch"}
  <2>1. CASE w = Main
    BY <1>1, <2>1 DEF Inv, Safe, UpdatesFit
  <2>2. CASE w = Zk
    BY <1>1, <2>2 DEF LinkInv, FirstLookIsFirst
  <2> QED BY <2>1, <2>2 DEF Callers
<1>8. FirstLookIsFirst'
  BY <1>1, <1>2, <1>3, <1>4, <1>7, MainIsCaller
  DEF LinkInv, FirstLookIsFirst
<1>9. \A x \in Servers : upd'[x][Zk].pc # "lock" => upd[x][Zk].pc # "lock"
  BY <1>1, <1>3, MainIsCaller
<1>10. CallsAreCurrent'
  BY <1>1, <1>3, <1>9 DEF LinkInv, CallsAreCurrent, IsNext
<1>11. LinksAreCurrent'
  BY <1>1, <1>2, <1>9 DEF LinkInv, LinksAreCurrent, CallsAreCurrent, IsNext
<1> QED BY <1>5, <1>6, <1>8, <1>10, <1>11 DEF LinkInv

(* The end of a process ends its calls of update and its link.             *)
LEMMA ProcessEndsLinks ==
  ASSUME TypeOK, LinkInv, NEW s \in Servers, Exit(s) \/ Crash(s)
  PROVE  LinkInv'
<1>1. /\ main[s] # "off"
      /\ main' = [main EXCEPT ![s] = "down"]
      /\ rl_next' = [rl_next EXCEPT ![s] = 0]
      /\ upd' = [upd EXCEPT ![s] =
                   [w \in Callers |-> [@[w] EXCEPT !.pc = "idle"]]]
  BY DEF Exit, Crash, Alive, ProcessEnds
<1>2. /\ children' \subseteq children
      /\ \/ UNCHANGED zookeeper
         \/ watch' = {} /\ event' \subseteq event \cup watch
  BY DEF Exit, Crash, LoseSession, zookeeper
<1>3. \A w \in Callers : upd'[s][w].pc = "idle"
  <2>1. /\ \A w \in Callers : upd[s][w] \in UpdateCall
        /\ upd'[s] = [w \in Callers |-> [upd[s][w] EXCEPT !.pc = "idle"]]
    BY <1>1 DEF TypeOK, ServerTypeOK
  <2> QED BY <2>1 DEF UpdateCall
<1>4. \A x \in Servers : x # s => upd'[x] = upd[x]
  BY <1>1 DEF TypeOK, ServerTypeOK
<1>5. OnlyDrops
  BY <1>1, <1>2, <1>3, <1>4
  DEF OnlyDrops, SameCall, zookeeper, TypeOK, ServerTypeOK
<1> QED BY <1>5, OnlyDropsLinks

(* init_list picks the predecessor when update is over. *)
LEMMA init_listLinks ==
  ASSUME Inv, LinkInv, NEW s \in Servers, init_list(s)
  PROVE  LinkInv'
<1>1. /\ main[s] = "init" /\ UNCHANGED <<zookeeper, rl_next>>
      /\ \A x \in Servers : \/ main'[x] = main[x]
                            \/ main[x] = "init" /\ main'[x] \notin {"off", "watch"}
  BY DEF init_list, Inv, TypeOK, ServerTypeOK
<1>2. upd[s][Main].pc = "idle"
  BY <1>1 DEF Inv, Safe, UpdatesFit
<1>3. upd' = upd \/ \E t : upd' = [upd EXCEPT ![s][Main].to = t]
  BY DEF init_list
<1>4. \A x \in Servers, w \in Callers : SameCall(x, w)
  <2>1. upd \in UpdateTable /\ upd[s][Main] \in UpdateCall
    BY MainIsCaller DEF Inv, TypeOK, ServerTypeOK, UpdateTable
  <2>2. ASSUME NEW t, upd' = [upd EXCEPT ![s][Main].to = t]
        PROVE  /\ \A x \in Servers, w \in Callers :
                    x # s \/ w # Main => upd'[x][w] = upd[x][w]
               /\ upd'[s][Main].pc = upd[s][Main].pc
               /\ upd'[s][Main].kids = upd[s][Main].kids
    BY <2>1, <2>2, MainIsCaller DEF UpdateTable, UpdateCall
  <2> QED BY <1>2, <1>3, <2>2 DEF SameCall
<1>5. OnlyDrops
  BY <1>1, <1>4 DEF OnlyDrops, zookeeper
<1> QED BY <1>5, OnlyDropsLinks DEF Inv

(* The other steps of the main thread, and the loss of a session. *)
LEMMA MainDrops ==
  ASSUME TypeOK, NEW s \in Servers,
         \/ ConnectPrevious(s) \/ LoadList(s) \/ zoo_clean_server(s)
         \/ Stop(s) \/ Expire(s)
  PROVE  OnlyDrops
<1>1. UNCHANGED upd
  BY DEF ConnectPrevious, LoadList, zoo_clean_server, Stop, Expire, server
<1>2. \A x \in Servers : rl_next'[x] \in {0, rl_next[x]}
  BY DEF ConnectPrevious, LoadList, zoo_clean_server, Disconnect, Stop, Expire,
     server, TypeOK, ServerTypeOK
<1>3. \A x \in Servers :
        \/ main'[x] = main[x]
        \/ main[x] # "off" /\ main'[x] \notin {"off", "watch"}
  BY DEF ConnectPrevious, LoadList, zoo_clean_server, Stop, Expire, server,
     TypeOK, ServerTypeOK
<1>4. \/ UNCHANGED <<children, watch, event>>
      \/ /\ children' \subseteq children /\ watch' = {}
         /\ event' \subseteq event \cup watch
  BY DEF ConnectPrevious, LoadList, zoo_clean_server, Stop, Expire, LoseSession,
     zookeeper
<1> QED BY <1>1, <1>2, <1>3, <1>4 DEF OnlyDrops, SameCall

(* A client_thread leaves links and membership alone. *)
LEMMA ThreadDrops ==
  ASSUME NEW s \in Servers, NEW o \in Conns, ThreadStep(s, o)
  PROVE  OnlyDrops
<1>1. UNCHANGED <<main, upd, rl_next, children, watch, event>>
  BY DEF ThreadStep, TakeListLock, Read, Forward, ForwardReturns, Apply,
     Refuse, Hangup, server, zookeeper
<1> QED BY <1>1 DEF OnlyDrops, SameCall

(* A client has a watch of its own, and is no server. *)
LEMMA ClientDrops ==
  ASSUME NEW c \in Clients,
         ClientStep(c) \/ \E r \in Requests : ClientSend(c, r)
  PROVE  OnlyDrops
<1>1. UNCHANGED <<main, upd, rl_next, children>>
  BY DEF ClientStep, ClientSend, ClientReceive, ClientWatcher, ClientGet,
     ClientDisconnect, ClientConnect, server, zookeeper
<1>2. \/ UNCHANGED <<watch, event>>
      \/ watch' = watch \cup {c} /\ event' = event \ {c}
  BY DEF ClientStep, ClientSend, ClientReceive, ClientWatcher, ClientGet,
     ClientDisconnect, ClientConnect, zookeeper
<1>3. c \notin Servers
  BY ChainAssumption
<1> QED BY <1>1, <1>2, <1>3 DEF OnlyDrops, SameCall

(* Every step makes no link wrong. *)
LEMMA NextLinks == Inv /\ LinkInv /\ [Next]_vars => LinkInv'
<1> SUFFICES ASSUME Inv, LinkInv, [Next]_vars PROVE LinkInv'
  OBVIOUS
<1>1. TypeOK
  BY DEF Inv
<1>2. ASSUME NEW s \in Servers,
             \/ Register(s) \/ Stop(s) \/ Expire(s) \/ MainStep(s) \/ Crash(s)
             \/ child_watcher(s)
      PROVE  LinkInv'
  <2>1. CASE ConnectPrevious(s) \/ LoadList(s) \/ zoo_clean_server(s)
             \/ Stop(s) \/ Expire(s)
    BY <1>1, <2>1, MainDrops, OnlyDropsLinks
  <2> QED
    BY <1>1, <1>2, <2>1, RegisterLinks, GetChildrenLinks, init_listLinks,
       child_watcherLinks, ProcessEndsLinks
    DEF MainStep
<1>3. ASSUME NEW s \in Servers, NEW w \in Callers,
             Update(s, w) \/ UpdateConnect(s, w)
      PROVE  LinkInv'
  BY <1>3, UpdateLinks, UpdateConnectLinks
<1>4. ASSUME NEW s \in Servers, NEW o \in Conns, ThreadStep(s, o) PROVE LinkInv'
  BY <1>1, <1>4, ThreadDrops, OnlyDropsLinks
<1>5. ASSUME NEW c \in Clients,
             ClientStep(c) \/ \E r \in Requests : ClientSend(c, r)
      PROVE  LinkInv'
  BY <1>1, <1>5, ClientDrops, OnlyDropsLinks
<1>6. ASSUME UNCHANGED vars PROVE LinkInv'
  <2>1. OnlyDrops
    BY <1>6 DEF vars, server, zookeeper, OnlyDrops, SameCall
  <2> QED BY <1>1, <2>1, OnlyDropsLinks
<1>7. CASE SystemStep
  BY <1>7, <1>2, <1>3, <1>4, <1>5, Zenon DEF SystemStep, UpdateStep
<1>8. CASE Environment
  BY <1>8, <1>2, <1>5, Zenon DEF Environment
<1>9. CASE Quiet
  BY <1>9, <1>6 DEF Quiet
<1> QED BY <1>6, <1>7, <1>8, <1>9 DEF Next

(* The chain as sequential starts leave it has the links it should have. *)
LEMMA InitLinks == Init => LinkInv
<1> SUFFICES ASSUME Init PROVE LinkInv
  OBVIOUS
<1>1. /\ children = 1 .. Boot /\ watch \subseteq 1 .. Boot \cup Clients
      /\ event = {}
      /\ \A s \in Servers :
           /\ main[s] = IF s <= Boot THEN "serving" ELSE "off"
           /\ rl_next[s] = IF s < Boot THEN s + 1 ELSE 0
           /\ \A w \in Callers : upd[s][w].pc = "idle"
  BY DEF Init
<1>2. Boot \in 1 .. N /\ N \in Nat /\ Clients \cap Servers = {}
  BY ChainAssumption
<1>3. StartsInOrder
  BY <1>1, <1>2 DEF StartsInOrder, Servers
<1>4. SnapshotsFit
  BY <1>1 DEF SnapshotsFit
<1>5. FirstLookIsFirst
  BY <1>1, <1>2, MainIsCaller DEF FirstLookIsFirst, Servers
<1>6. CallsAreCurrent
  BY <1>1 DEF CallsAreCurrent
<1>7. LinksAreCurrent
  BY <1>1, <1>2 DEF LinksAreCurrent, IsNext, Servers
<1> QED BY <1>3, <1>4, <1>5, <1>6, <1>7 DEF LinkInv

(* In a chain of any length, with failures of any kind, update never       *)
(* leaves a link that passes over a server or leads to one that is gone,   *)
(* once the changes its watches reported have been dealt with.             *)
THEOREM ChainLinksAreCurrent == Spec => []LinksAreCurrent
<1>1. Init => LinkInv
  BY InitLinks
<1>2. Inv /\ LinkInv /\ [Next]_vars => LinkInv'
  BY NextLinks
<1>3. LinkInv => LinksAreCurrent
  BY DEF LinkInv
<1> QED BY <1>1, <1>2, <1>3, AlwaysInv, PTL DEF Spec

-----------------------------------------------------------------------------
(***************************************************************************)
(* Proof about module ChainServer, for any number of servers, clients and  *)
(* requests, and for crashes, stops, refusals, failing calls of ZooKeeper  *)
(* and joins in any number and order: no server applies a write twice.     *)
(*                                                                         *)
(* A write is one token that moves up the chain.  The server that has it   *)
(* foremost is above all others that still have to apply it, and no list   *)
(* from that server on contains it (FrontierInv).  A list that is fetched  *)
(* would break that if it came from below the token: it does not, because  *)
(* a joining server fetches from the last live server before it (JoinInv). *)
(*                                                                         *)
(* This last fact is why sessions of live processes must not expire: when  *)
(* the znode of a server goes while it has a write in its hands, a joining *)
(* server passes it over, fetches a list with the write from below it, and *)
(* can then be sent the write once more.                                   *)
(***************************************************************************)

(* ZooKeeper has dropped no session of a process that is alive. *)
NoLiveExpiry == ~ faults.expired

Holds(h, r) == \E i \in DOMAIN h : h[i] = r

(* Thread o of server s has write r to pass on, or only to apply. *)
ForemostPc == {"got", "locked", "local"}
PendingPc == ForemostPc \cup {"fwd", "apply"}

Foremost(s, o, r) == thr[s][o].req = r /\ thr[s][o].pc \in ForemostPc
Pending(s, o, r) == thr[s][o].req = r /\ thr[s][o].pc \in PendingPc

-----------------------------------------------------------------------------
(* What is known of a server that has not entered its accept loop. *)
StartingPc == {"off", "watch", "update", "init", "connect", "fetch"}

AliveHaveZnodes == \A s \in Servers : Alive(s) => s \in children

StartingHaveNoThreads ==
  \A s \in Servers, o \in Conns :
    main[s] \in StartingPc => thr[s][o].pc = "none"

(* Its snapshot has every live server that registered before it, so the    *)
(* predecessor it picks is the last of them, or one that died meanwhile.   *)
SnapshotsHaveAlive ==
  \A j, v \in Servers :
    main[j] \in {"update", "init", "connect", "fetch"} /\ v < j /\ Alive(v)
      => v \in upd[j][Main].kids

PreviousIsChosen ==
  \A j \in Servers : main[j] \in {"connect", "fetch"} =>
    IsPrevious(j, upd[j][Main].kids, upd[j][Main].to)

(* The request of init_list is where init_list waits for its answer. *)
FetchesMatch ==
  \A t \in Servers, o \in Conns :
    thr[t][o].pc = "got" /\ thr[t][o].req = FETCH =>
      \E j \in Servers :
        /\ o = FetchConn(j)
        /\ main[j] = "down" \/ (main[j] = "fetch" /\ upd[j][Main].to = t)

NothingSeenYet ==
  \A j \in Servers : main[j] \in StartingPc \ {"fetch"} => seen[j] = <<>>

JoinInv ==
  /\ AliveHaveZnodes /\ StartingHaveNoThreads /\ SnapshotsHaveAlive
  /\ PreviousIsChosen /\ FetchesMatch /\ NothingSeenYet

(* Where the writes are. *)
TodoIsFresh ==
  \A r \in todo, s \in Servers :
    /\ \A o \in Conns : ~ Pending(s, o, r)
    /\ ~ Holds(hist[s], r) /\ ~ Holds(seen[s], r)

PendingIsNew ==
  \A r \in Requests, s \in Servers, o \in Conns :
    Pending(s, o, r) => ~ Holds(hist[s], r)

PendingIsOne ==
  \A r \in Requests, s \in Servers, o, p \in Conns :
    Pending(s, o, r) /\ Pending(s, p, r) => o = p

ForemostIsLast ==
  \A r \in Requests, s, t \in Servers, o, p \in Conns :
    Foremost(t, p, r) /\ Pending(s, o, r) => s < t \/ (s = t /\ o = p)

ForemostIsNew ==
  \A r \in Requests, s, t \in Servers, o \in Conns :
    Foremost(s, o, r) /\ s <= t =>
      /\ ~ Holds(hist[t], r)
      /\ main[t] = "fetch" => ~ Holds(seen[t], r)

SeenOnce ==
  \A s \in Servers :
    \A i, j \in DOMAIN seen[s] : seen[s][i] = seen[s][j] => i = j

FrontierInv ==
  /\ TodoIsFresh /\ PendingIsNew /\ PendingIsOne /\ ForemostIsLast
  /\ ForemostIsNew /\ SeenOnce /\ AppliedOnce

-----------------------------------------------------------------------------
(* How the steps of client_thread change the threads. *)

(* The program counter of one thread moves. *)
LEMMA PcMoves ==
  ASSUME TypeOK, NEW s \in Servers, NEW o \in Conns, NEW p,
         thr' = [thr EXCEPT ![s][o].pc = p]
  PROVE  /\ \A x \in Servers, y \in Conns : thr'[x][y].req = thr[x][y].req
         /\ \A x \in Servers, y \in Conns :
              x # s \/ y # o => thr'[x][y] = thr[x][y]
         /\ thr'[s][o].pc = p
<1>1. thr \in ThreadTable
  BY DEF TypeOK, ThreadTypeOK, ThreadTable
<1> QED BY <1>1 DEF ThreadTable, Thread

(* One thread is set. *)
LEMMA ThreadIsSet ==
  ASSUME TypeOK, NEW a, NEW b, NEW v, thr' = [thr EXCEPT ![a][b] = v]
  PROVE  \A x \in Servers, y \in Conns :
           thr'[x][y] = IF x = a /\ y = b THEN v ELSE thr[x][y]
<1>1. thr \in ThreadTable
  BY DEF TypeOK, ThreadTypeOK, ThreadTable
<1> QED BY <1>1 DEF ThreadTable

(* The same of two threads, of different processes. *)
TwoThreadsMove(s, o, p, t, q, v) ==
  /\ thr'[s][o].pc = p /\ thr'[s][o].req = thr[s][o].req
  /\ thr'[t][q] = v
  /\ \A x \in Servers, y \in Conns :
       ~ (x = s /\ y = o) /\ ~ (x = t /\ y = q) => thr'[x][y] = thr[x][y]

(* The write goes to a thread of the successor that waits for one. *)
LEMMA ForwardSendsMoves ==
  ASSUME Inv, NEW s \in Servers, NEW o \in Conns, Forward(s, o),
         thr'[s][o].pc = "fwd"
  PROVE  LET t == rl_next[s]
             q == NextConn(s)
         IN  /\ t \in Servers /\ s < t /\ thr[t][q].pc = "recv"
             /\ TwoThreadsMove(s, o, "fwd", t, q,
                               [pc |-> "got", req |-> thr[s][o].req])
<1>1. thr[s][o].pc = "locked" /\ rls_lock[s] = Free /\ TypeOK
  BY DEF Forward, Inv
<1>2. rl_next[s] # 0 /\ ~ Broken(rl_next[s], NextConn(s))
  <2>1. ASSUME NEW p \in {"local", "error"}, thr' = [thr EXCEPT ![s][o].pc = p]
        PROVE  FALSE
    BY <1>1, <2>1, PcMoves
  <2> QED BY <2>1 DEF Forward
<1>3. PICK t \in Servers : t = rl_next[s] /\ s < t /\ s # t
  BY <1>2, TypeFacts DEF Inv, Safe, LinksGoUp, Servers
<1>4. thr[t][NextConn(s)].pc = "recv"
  <2>1. main[s] # "down" /\ rls_lock[s] \notin Conns
    BY <1>1, ChainAssumption DEF Inv, Safe, DeadHaveNoThreads
  <2>2. ~ Busy(t, NextConn(s))
    BY <2>1, NextIsNotBusy
  <2>3. thr[t][NextConn(s)].pc \in ThreadPc
    BY ConnNames DEF Inv, TypeOK, ThreadTypeOK, Thread
  <2> QED BY <1>2, <1>3, <2>2, <2>3 DEF Broken, Busy, ThreadPc
<1>5. PICK v, q :
        /\ v = [pc |-> "got", req |-> thr[s][o].req] /\ q = NextConn(s)
        /\ thr' = [thr EXCEPT ![s][o].pc = "fwd", ![t][q] = v]
  BY <1>2, <1>3 DEF Forward
<1>6. TwoThreadsMove(s, o, "fwd", t, q, v)
  <2>1. q \in Conns /\ thr \in [Servers -> [Conns -> Thread]]
    BY <1>1, <1>5, ConnNames DEF TypeOK, ThreadTypeOK
  <2>2. thr'[s] = [thr[s] EXCEPT ![o].pc = "fwd"]
    BY <1>3, <1>5, <2>1
  <2>3. thr'[t] = [thr[t] EXCEPT ![q] = v]
    BY <1>3, <1>5, <2>1
  <2>4. \A x \in Servers : x # s /\ x # t => thr'[x] = thr[x]
    BY <1>5, <2>1
  <2>5. /\ thr'[s][o].pc = "fwd" /\ thr'[s][o].req = thr[s][o].req
        /\ \A y \in Conns : y # o => thr'[s][y] = thr[s][y]
    BY <2>1, <2>2 DEF Thread
  <2> QED BY <2>1, <2>3, <2>4, <2>5 DEF TwoThreadsMove
<1> QED BY <1>3, <1>4, <1>5, <1>6

(* The answer is taken from the successor's thread. *)
LEMMA ForwardReturnsMoves ==
  ASSUME Inv, NEW s \in Servers, NEW o \in Conns, ForwardReturns(s, o)
  PROVE  LET t == rl_next[s]
             q == NextConn(s)
         IN  /\ t \in Servers /\ s < t
             /\ thr[t][q].pc \in {"none", "reply"}
             /\ TwoThreadsMove(s, o,
                  IF Returned(t, q) # NULL THEN "apply" ELSE "error",
                  t, q, AfterReply(t, q))
<1>1. /\ thr[s][o].pc = "fwd" /\ TypeOK
      /\ thr[rl_next[s]][NextConn(s)].pc \in {"none", "reply"}
  BY DEF ForwardReturns, Returns, Inv
<1>2. PICK t \in Servers : t = rl_next[s] /\ s < t /\ s # t
  BY <1>1, TypeFacts DEF Inv, Safe, ForwardsMatch, LinksGoUp, Servers
<1>3. PICK p, v, q :
        /\ p = IF Returned(t, q) # NULL THEN "apply" ELSE "error"
        /\ v = AfterReply(t, q) /\ q = NextConn(s)
        /\ thr' = [thr EXCEPT ![s][o].pc = p, ![t][q] = v]
  BY <1>2 DEF ForwardReturns
<1>4. TwoThreadsMove(s, o, p, t, q, v)
  <2>1. q \in Conns /\ thr \in [Servers -> [Conns -> Thread]]
    BY <1>1, <1>3, ConnNames DEF TypeOK, ThreadTypeOK
  <2>2. thr'[s] = [thr[s] EXCEPT ![o].pc = p]
    BY <1>2, <1>3, <2>1
  <2>3. thr'[t] = [thr[t] EXCEPT ![q] = v]
    BY <1>2, <1>3, <2>1
  <2>4. \A x \in Servers : x # s /\ x # t => thr'[x] = thr[x]
    BY <1>3, <2>1
  <2>5. /\ thr'[s][o].pc = p /\ thr'[s][o].req = thr[s][o].req
        /\ \A y \in Conns : y # o => thr'[s][y] = thr[s][y]
    BY <2>1, <2>2 DEF Thread
  <2> QED BY <2>1, <2>3, <2>4, <2>5 DEF TwoThreadsMove
<1> QED BY <1>1, <1>2, <1>3, <1>4

-----------------------------------------------------------------------------
(* What most steps have in common.                                         *)

SnapshotPc == {"update", "init", "connect", "fetch"}

(* The main thread of j gets no further with zoo_init_server than the      *)
(* invariant already says, and j keeps its znode as long as it lives.      *)
JoinsNoFurther(j) ==
  /\ main'[j] \in StartingPc => main[j] \in StartingPc
  /\ main'[j] \in StartingPc \ {"fetch"} =>
       main[j] \in StartingPc \ {"fetch"} /\ seen'[j] = seen[j]
  /\ main'[j] \in SnapshotPc =>
       main[j] \in SnapshotPc /\ upd'[j][Main].kids = upd[j][Main].kids
  /\ main'[j] \in {"connect", "fetch"} =>
       /\ main[j] \in {"connect", "fetch"}
       /\ upd'[j][Main].to = upd[j][Main].to
  /\ main[j] = "down" => main'[j] = "down"
  /\ main[j] = "fetch" => main'[j] \in {"fetch", "down"}
  /\ main'[j] \notin {"off", "down"} =>
       Alive(j) /\ (j \in children => j \in children')

(* A thread starts in the accept loop, and gets no request of init_list. *)
NoNewFetch(x, y) ==
  /\ thr'[x][y].pc # "none" => thr[x][y].pc # "none" \/ main[x] = "serving"
  /\ thr'[x][y].pc = "got" /\ thr'[x][y].req = FETCH => thr'[x][y] = thr[x][y]

(* A thread gets no write, and one that has a write moves on with it. *)
NoNewWrite(x, y) ==
  \A r \in Requests : /\ Pending(x, y, r)' => Pending(x, y, r)
                      /\ Foremost(x, y, r)' => Foremost(x, y, r)

(* A thread ends, or goes back to network_receive. *)
OnlyEnds(x, y) ==
  \/ thr'[x][y] \in {thr[x][y], NoThread}
  \/ thr'[x][y] = Waiting /\ (thr[x][y].pc # "none" \/ main[x] = "serving")

LEMMA EndsAreCalm ==
  ASSUME NEW x, NEW y, OnlyEnds(x, y)
  PROVE  NoNewFetch(x, y) /\ NoNewWrite(x, y)
BY DEF OnlyEnds, NoThread, Waiting, NoNewFetch, NoNewWrite, Pending, Foremost,
   PendingPc, ForemostPc

LEMMA JoinFrame ==
  ASSUME JoinInv,
         \A j \in Servers : JoinsNoFurther(j),
         \A x \in Servers, y \in Conns : NoNewFetch(x, y)
  PROVE  JoinInv'
<1>1. AliveHaveZnodes'
  BY DEF JoinInv, AliveHaveZnodes, JoinsNoFurther, Alive
<1>2. StartingHaveNoThreads'
  BY DEF JoinInv, StartingHaveNoThreads, JoinsNoFurther, NoNewFetch, StartingPc
<1>3. SnapshotsHaveAlive'
  BY DEF JoinInv, SnapshotsHaveAlive, JoinsNoFurther, Alive, SnapshotPc
<1>4. PreviousIsChosen'
  BY DEF JoinInv, PreviousIsChosen, JoinsNoFurther, SnapshotPc, IsPrevious
<1>5. FetchesMatch'
  BY DEF JoinInv, FetchesMatch, JoinsNoFurther, NoNewFetch
<1>6. NothingSeenYet'
  BY DEF JoinInv, NothingSeenYet, JoinsNoFurther
<1> QED BY <1>1, <1>2, <1>3, <1>4, <1>5, <1>6 DEF JoinInv

LEMMA OnceFrame ==
  ASSUME FrontierInv,
         \A x \in Servers, y \in Conns : NoNewWrite(x, y),
         UNCHANGED <<hist, seen>>, todo' \subseteq todo, todo \subseteq Requests,
         \A x \in Servers : main'[x] = "fetch" =>
           main[x] = "fetch" \/ seen[x] = <<>>
  PROVE  FrontierInv'
<1>1. TodoIsFresh'
  BY DEF FrontierInv, TodoIsFresh, NoNewWrite, Holds
<1>2. PendingIsNew' /\ PendingIsOne'
  BY DEF FrontierInv, PendingIsNew, PendingIsOne, NoNewWrite, Holds
<1>3. ForemostIsLast'
  BY DEF FrontierInv, ForemostIsLast, NoNewWrite
<1>4. ForemostIsNew'
  BY DEF FrontierInv, ForemostIsNew, NoNewWrite, Holds
<1>5. SeenOnce' /\ AppliedOnce'
  BY DEF FrontierInv, SeenOnce, AppliedOnce
<1> QED BY <1>1, <1>2, <1>3, <1>4, <1>5 DEF FrontierInv

-----------------------------------------------------------------------------
(* Joining, step by step. *)

(* The new server has the highest number, so no snapshot should have it. *)
LEMMA RegisterJoin ==
  ASSUME Inv, LinkInv, JoinInv, NEW s \in Servers, Register(s)
  PROVE  JoinInv'
<1>1. /\ main[s] = "off"
      /\ \A x \in Servers : main'[x] = IF x = s THEN "watch" ELSE main[x]
      /\ children' = children \cup {s}
      /\ UNCHANGED <<upd, thr, seen>>
  BY DEF Register, SetChildren, threads, lists, Inv, TypeOK, ServerTypeOK
<1>2. AliveHaveZnodes' /\ StartingHaveNoThreads' /\ PreviousIsChosen'
  BY <1>1 DEF JoinInv, AliveHaveZnodes, StartingHaveNoThreads, StartingPc,
     PreviousIsChosen, IsPrevious, Alive
<1>3. SnapshotsHaveAlive'
  <2> SUFFICES ASSUME NEW j \in Servers, NEW v \in Servers,
                      main'[j] \in SnapshotPc, v < j,
                      main'[v] \notin {"off", "down"}
               PROVE  v \in upd[j][Main].kids
    BY <1>1 DEF SnapshotsHaveAlive, Alive, SnapshotPc
  <2>1. j # s /\ main[j] \in SnapshotPc
    BY <1>1 DEF SnapshotPc
  <2>2. v # s
    BY <1>1, <2>1 DEF LinkInv, StartsInOrder, SnapshotPc
  <2> QED BY <1>1, <2>1, <2>2 DEF JoinInv, SnapshotsHaveAlive, Alive, SnapshotPc
<1>4. FetchesMatch' /\ NothingSeenYet'
  BY <1>1 DEF JoinInv, FetchesMatch, NothingSeenYet, StartingPc
<1> QED BY <1>2, <1>3, <1>4 DEF JoinInv

(* The snapshot is all of /chain, where whoever is alive has a znode. *)
LEMMA GetChildrenJoin ==
  ASSUME Inv, JoinInv, NEW s \in Servers, GetChildren(s)
  PROVE  JoinInv'
<1>1. /\ main[s] = "watch"
      /\ \A x \in Servers : x # s => main'[x] = main[x] /\ upd'[x] = upd[x]
      /\ \/ main'[s] = "update" /\ upd'[s][Main].kids = children
         \/ main'[s] = "closing"
      /\ UNCHANGED <<children, thr, seen>>
  BY MainIsCaller
  DEF GetChildren, threads, lists, Inv, TypeOK, ServerTypeOK
<1>2. AliveHaveZnodes' /\ StartingHaveNoThreads' /\ PreviousIsChosen'
  BY <1>1 DEF JoinInv, AliveHaveZnodes, StartingHaveNoThreads, StartingPc,
     PreviousIsChosen, IsPrevious, Alive
<1>3. SnapshotsHaveAlive'
  <2> SUFFICES ASSUME NEW j \in Servers, NEW v \in Servers,
                      main'[j] \in SnapshotPc, v < j,
                      main'[v] \notin {"off", "down"}
               PROVE  v \in upd'[j][Main].kids
    BY DEF SnapshotsHaveAlive, Alive, SnapshotPc
  <2>1. Alive(v)
    BY <1>1 DEF Alive
  <2>2. CASE j = s
    BY <1>1, <2>1, <2>2 DEF JoinInv, AliveHaveZnodes, SnapshotPc
  <2>3. CASE j # s
    BY <1>1, <2>1, <2>3 DEF JoinInv, SnapshotsHaveAlive, SnapshotPc
  <2> QED BY <2>2, <2>3
<1>4. FetchesMatch' /\ NothingSeenYet'
  BY <1>1 DEF JoinInv, FetchesMatch, NothingSeenYet, StartingPc
<1> QED BY <1>2, <1>3, <1>4 DEF JoinInv

(* The predecessor is picked from the snapshot. *)
LEMMA init_listJoin ==
  ASSUME Inv, JoinInv, NEW s \in Servers, init_list(s)
  PROVE  JoinInv'
<1>1. /\ main[s] = "init"
      /\ \A x \in Servers : x # s => main'[x] = main[x]
      /\ UNCHANGED <<children, thr, seen>>
  BY DEF init_list, zookeeper, threads, lists, Inv, TypeOK, ServerTypeOK
<1>2. /\ \A x \in Servers : x # s => upd'[x] = upd[x]
      /\ \/ main'[s] \in {"serving", "closing"}
         \/ /\ main'[s] = "connect"
            /\ upd'[s][Main].kids = upd[s][Main].kids
            /\ IsPrevious(s, upd[s][Main].kids, upd'[s][Main].to)
  <2>1. upd \in UpdateTable /\ upd[s][Main] \in UpdateCall
    BY MainIsCaller DEF Inv, TypeOK, ServerTypeOK, UpdateTable
  <2>2. CASE main' = [main EXCEPT ![s] = "connect"]
    <3>1. PICK t \in upd[s][Main].kids :
            /\ IsPrevious(s, upd[s][Main].kids, t)
            /\ upd' = [upd EXCEPT ![s][Main].to = t]
      BY <1>1, <2>2 DEF init_list, Inv, TypeOK, ServerTypeOK
    <3>2. upd'[s][Main] = [upd[s][Main] EXCEPT !.to = t]
      BY <2>1, <3>1, MainIsCaller DEF UpdateTable
    <3>3. upd'[s][Main].kids = upd[s][Main].kids /\ upd'[s][Main].to = t
      BY <2>1, <3>2 DEF UpdateCall
    <3>4. main'[s] = "connect" /\ \A x \in Servers : x # s => upd'[x] = upd[x]
      BY <2>1, <2>2, <3>1 DEF UpdateTable, Inv, TypeOK, ServerTypeOK
    <3> QED BY <3>1, <3>3, <3>4
  <2>3. CASE main' # [main EXCEPT ![s] = "connect"]
    BY <2>3 DEF init_list, Inv, TypeOK, ServerTypeOK
  <2> QED BY <2>2, <2>3
<1>3. AliveHaveZnodes' /\ StartingHaveNoThreads'
  BY <1>1, <1>2 DEF JoinInv, AliveHaveZnodes, StartingHaveNoThreads,
     StartingPc, Alive
<1>4. SnapshotsHaveAlive'
  BY <1>1, <1>2 DEF JoinInv, SnapshotsHaveAlive, Alive
<1>5. PreviousIsChosen'
  BY <1>1, <1>2 DEF JoinInv, PreviousIsChosen, IsPrevious
<1>6. FetchesMatch' /\ NothingSeenYet'
  BY <1>1, <1>2 DEF JoinInv, FetchesMatch, NothingSeenYet, StartingPc
<1> QED BY <1>3, <1>4, <1>5, <1>6 DEF JoinInv

(* The request of init_list is there, and init_list waits for the answer. *)
LEMMA ConnectPreviousJoin ==
  ASSUME Inv, JoinInv, NEW s \in Servers, ConnectPrevious(s)
  PROVE  JoinInv'
<1>1. /\ main[s] = "connect"
      /\ \A x \in Servers : x # s => main'[x] = main[x]
      /\ UNCHANGED <<children, upd, seen>>
  BY DEF ConnectPrevious, zookeeper, lists, Inv, TypeOK, ServerTypeOK
<1>2. \/ main'[s] = "closing" /\ thr' = thr
      \/ /\ main'[s] = "fetch" /\ main[upd[s][Main].to] = "serving"
         /\ \A x \in Servers, y \in Conns :
              thr'[x][y] = IF x = upd[s][Main].to /\ y = FetchConn(s)
                             THEN [pc |-> "got", req |-> FETCH] ELSE thr[x][y]
  <2>1. TypeOK
    BY DEF Inv
  <2>2. CASE main' = [main EXCEPT ![s] = "fetch"]
    <3>1. PICK v, a, b :
            /\ v = [pc |-> "got", req |-> FETCH]
            /\ a = upd[s][Main].to /\ b = FetchConn(s)
            /\ thr' = [thr EXCEPT ![a][b] = v]
      BY <1>1, <2>1, <2>2 DEF ConnectPrevious, TypeOK, ServerTypeOK
    <3>2. main'[s] = "fetch" /\ main[upd[s][Main].to] = "serving"
      BY <2>1, <2>2 DEF ConnectPrevious, Ready, TypeOK, ServerTypeOK
    <3>3. \A x \in Servers, y \in Conns :
            thr'[x][y] = IF x = a /\ y = b THEN v ELSE thr[x][y]
      <4>1. thr' = [thr EXCEPT ![a][b] = v] /\ thr \in ThreadTable
        BY <2>1, <3>1 DEF TypeOK, ThreadTypeOK, ThreadTable
      <4> QED BY <4>1 DEF ThreadTable
    <3> QED BY <3>1, <3>2, <3>3
  <2>3. CASE main' # [main EXCEPT ![s] = "fetch"]
    BY <2>1, <2>3 DEF ConnectPrevious, TypeOK, ServerTypeOK
  <2> QED BY <2>2, <2>3
<1>3. AliveHaveZnodes' /\ SnapshotsHaveAlive' /\ PreviousIsChosen'
  BY <1>1, <1>2 DEF JoinInv, AliveHaveZnodes, SnapshotsHaveAlive,
     PreviousIsChosen, IsPrevious, Alive
<1>4. StartingHaveNoThreads'
  BY <1>1, <1>2 DEF JoinInv, StartingHaveNoThreads, StartingPc
<1>5. FetchesMatch'
  BY <1>1, <1>2 DEF JoinInv, FetchesMatch
<1>6. NothingSeenYet'
  BY <1>1, <1>2 DEF JoinInv, NothingSeenYet, StartingPc
<1> QED BY <1>3, <1>4, <1>5, <1>6 DEF JoinInv

(* The answer is there, so the request is no longer under way. *)
LEMMA LoadListJoin ==
  ASSUME Inv, JoinInv, NEW s \in Servers, LoadList(s)
  PROVE  JoinInv'
<1>1. /\ main[s] = "fetch" /\ main'[s] \in {"serving", "closing"}
      /\ \A x \in Servers : x # s => main'[x] = main[x]
      /\ UNCHANGED <<children, upd, seen>>
  BY DEF LoadList, zookeeper, Inv, TypeOK, ServerTypeOK
<1>2. \A x \in Servers, y \in Conns :
        thr'[x][y] = IF x = upd[s][Main].to /\ y = FetchConn(s)
                       THEN NoThread ELSE thr[x][y]
  <2>1. PICK a, b : a = upd[s][Main].to /\ b = FetchConn(s)
    OBVIOUS
  <2>2. thr' = [thr EXCEPT ![a][b] = NoThread] /\ thr \in ThreadTable
    BY <2>1 DEF LoadList, Inv, TypeOK, ThreadTypeOK, ThreadTable
  <2>3. \A x \in Servers, y \in Conns :
          thr'[x][y] = IF x = a /\ y = b THEN NoThread ELSE thr[x][y]
    BY <2>2 DEF ThreadTable
  <2> QED BY <2>1, <2>3
<1>3. AliveHaveZnodes' /\ SnapshotsHaveAlive' /\ PreviousIsChosen'
  BY <1>1, <1>2 DEF JoinInv, AliveHaveZnodes, SnapshotsHaveAlive,
     PreviousIsChosen, IsPrevious, Alive
<1>4. StartingHaveNoThreads'
  BY <1>1, <1>2 DEF JoinInv, StartingHaveNoThreads, StartingPc, NoThread
<1>5. FetchesMatch'
  <2> SUFFICES ASSUME NEW t \in Servers, NEW o \in Conns,
                      thr'[t][o].pc = "got", thr'[t][o].req = FETCH
               PROVE  \E j \in Servers :
                        /\ o = FetchConn(j)
                        /\ \/ main'[j] = "down"
                           \/ main'[j] = "fetch" /\ upd[j][Main].to = t
    BY <1>1 DEF FetchesMatch
  <2>1. thr'[t][o] = thr[t][o] /\ ~ (t = upd[s][Main].to /\ o = FetchConn(s))
    BY <1>2 DEF NoThread
  <2>2. PICK j \in Servers :
          /\ o = FetchConn(j)
          /\ main[j] = "down" \/ (main[j] = "fetch" /\ upd[j][Main].to = t)
    BY <2>1 DEF JoinInv, FetchesMatch
  <2>3. j # s
    BY <1>1, <2>1, <2>2
  <2> QED BY <1>1, <2>2, <2>3
<1>6. NothingSeenYet'
  BY <1>1 DEF JoinInv, NothingSeenYet, StartingPc
<1> QED BY <1>3, <1>4, <1>5, <1>6 DEF JoinInv

(* The other steps of the main thread, of the callback thread and of       *)
(* ZooKeeper get no server further.  The end of a session takes the znode  *)
(* of a process that has ended.                                            *)
LEMMA UpdateJoin ==
  ASSUME Inv, NEW s \in Servers, NEW w \in Callers,
         Update(s, w) \/ UpdateConnect(s, w)
  PROVE  \A j \in Servers : JoinsNoFurther(j)
<1>1. TypeOK /\ upd \in UpdateTable /\ upd[s][w] \in UpdateCall
  BY DEF Inv, TypeOK, ServerTypeOK, UpdateTable
<1>2. UNCHANGED <<children, seen>> /\ upd[s][w].pc # "idle"
  BY DEF Update, UpdateConnect, zookeeper, lists
<1>3. \A j \in Servers :
        \/ main'[j] = main[j]
        \/ j = s /\ w = Main /\ main[j] = "update" /\ main'[j] = "init"
  BY <1>2 DEF Update, UpdateConnect, UpdateDone, Inv, Safe, UpdatesFit, TypeOK,
     ServerTypeOK
<1>4. /\ \A x \in Servers, v \in Callers :
           x # s \/ v # w => upd'[x][v] = upd[x][v]
      /\ upd'[s][w].kids = upd[s][w].kids
  <2>1. CASE upd' = [upd EXCEPT ![s][w].pc = "idle"]
    BY <1>1, <2>1 DEF UpdateTable, UpdateCall
  <2>2. ASSUME NEW t,
               upd' = [upd EXCEPT ![s][w] =
                         [pc |-> "conn", kids |-> upd[s][w].kids, to |-> t]]
        PROVE  /\ \A x \in Servers, v \in Callers :
                    x # s \/ v # w => upd'[x][v] = upd[x][v]
               /\ upd'[s][w].kids = upd[s][w].kids
    BY <1>1, <2>2 DEF UpdateTable
  <2> QED BY <2>1, <2>2 DEF Update, UpdateConnect, UpdateDone
<1>5. w = Main => main[s] = "update"
  BY <1>2 DEF Inv, Safe, UpdatesFit
<1> QED BY <1>2, <1>3, <1>4, <1>5, MainIsCaller
        DEF JoinsNoFurther, StartingPc, SnapshotPc, Alive

LEMMA MembershipJoin ==
  ASSUME Inv, NoLiveExpiry', NEW s \in Servers,
         \/ child_watcher(s) \/ Stop(s) \/ zoo_clean_server(s)
         \/ Exit(s) \/ Crash(s) \/ Expire(s)
  PROVE  \A j \in Servers : JoinsNoFurther(j)
<1>1. /\ UNCHANGED seen
      /\ \A j \in Servers :
           \/ main'[j] = main[j]
           \/ j = s /\ main'[j] = "down"
           \/ /\ j = s /\ main[j] \notin StartingPc \cup {"down"}
              /\ main'[j] \in {"closing", "cleaned"}
  BY DEF child_watcher, Stop, zoo_clean_server, Exit, Crash, Expire,
     ProcessEnds, server, threads, lists, StartingPc, Inv, TypeOK, ServerTypeOK
<1>2. \A j \in Servers : main'[j] # "down" => upd'[j][Main] = upd[j][Main]
  <2>1. upd \in UpdateTable
    BY DEF Inv, TypeOK, ServerTypeOK, UpdateTable
  <2>2. CASE child_watcher(s)
    BY <2>1, <2>2, MainIsCaller, ChainAssumption DEF child_watcher, UpdateTable
  <2>3. CASE Exit(s) \/ Crash(s)
    BY <2>1, <2>3 DEF Exit, Crash, ProcessEnds, UpdateTable, Inv, TypeOK,
       ServerTypeOK
  <2> QED BY <2>2, <2>3 DEF Stop, zoo_clean_server, Expire, server
<1>3. \A j \in Servers :
        main'[j] # "down" /\ j \in children => j \in children'
  <2>1. CASE Exit(s)
    BY <2>1 DEF Exit, ProcessEnds, LoseSession, Inv, TypeOK, ServerTypeOK
  <2>2. CASE Expire(s)
    <3>1. ~ Fail("expire")
      <4>1. (faults.expired \/ "expire" = "expire") = TRUE
        BY Zenon
      <4>2. Fail("expire") => faults' = [n |-> faults.n + 1, expired |-> TRUE]
        BY <4>1, Zenon DEF Fail
      <4>3. Fail("expire") => faults'.expired = TRUE
        BY <4>2
      <4> QED BY <4>3 DEF NoLiveExpiry
    <3>2. main[s] = "down"
      BY <2>2, <3>1 DEF Expire, FailsIf
    <3> QED BY <2>2, <3>2 DEF Expire, LoseSession, server
  <2> QED BY <2>1, <2>2
          DEF child_watcher, Stop, zoo_clean_server, Crash, zookeeper
<1>4. \A j \in Servers : main[j] = "down" => main'[j] = "down"
  BY <1>1
<1>5. \A j \in Servers : main'[j] \notin {"off", "down"} => Alive(j)
  BY <1>1 DEF Alive, StartingPc
<1> QED BY <1>1, <1>2, <1>3, <1>4, <1>5
        DEF JoinsNoFurther, StartingPc, SnapshotPc

(* A step that is none of a main thread changes the membership of nobody. *)
LEMMA SameMembers ==
  ASSUME UNCHANGED <<main, upd, children>>,
         \A j \in Servers : seen'[j] = seen[j] \/ main[j] \in {"fetch", "down"}
  PROVE  \A j \in Servers : JoinsNoFurther(j)
BY DEF JoinsNoFurther, Alive, StartingPc

(* Threads that end, or go back to network_receive. *)
LEMMA EndingSteps ==
  ASSUME Inv, NEW s \in Servers,
         \/ child_watcher(s) \/ Stop(s) \/ zoo_clean_server(s)
         \/ Exit(s) \/ Crash(s) \/ Expire(s)
         \/ Register(s) \/ GetChildren(s) \/ init_list(s) \/ LoadList(s)
         \/ \E w \in Callers : Update(s, w) \/ UpdateConnect(s, w)
         \/ \E o \in Conns : Hangup(s, o)
  PROVE  \A x \in Servers, y \in Conns :
           OnlyEnds(x, y)
<1>1. TypeOK
  BY DEF Inv
<1>2. CASE thr' = thr
  BY <1>2 DEF OnlyEnds
<1>3. ASSUME NEW a, NEW b, thr' = [thr EXCEPT ![a][b] = NoThread]
      PROVE  \A x \in Servers, y \in Conns : OnlyEnds(x, y)
  BY <1>1, <1>3, ThreadIsSet DEF OnlyEnds
<1>4. ASSUME NEW a, NEW b, main[a] = "serving",
             thr' = [thr EXCEPT ![a][b] = Waiting]
      PROVE  \A x \in Servers, y \in Conns : OnlyEnds(x, y)
  BY <1>1, <1>4, ThreadIsSet DEF OnlyEnds
<1>5. CASE thr' = [thr EXCEPT ![s] = [o \in Conns |-> NoThread]]
  <2>1. thr \in ThreadTable
    BY <1>1 DEF TypeOK, ThreadTypeOK, ThreadTable
  <2> QED BY <1>5, <2>1 DEF ThreadTable, OnlyEnds
<1>6. CASE child_watcher(s) \/ Stop(s) \/ Expire(s) \/ Register(s)
           \/ GetChildren(s) \/ init_list(s)
  BY <1>6, <1>2
  DEF child_watcher, Stop, Expire, Register, GetChildren, init_list, threads
<1>7. CASE zoo_clean_server(s) \/ \E w \in Callers : Update(s, w)
  BY <1>7, <1>2, <1>3 DEF zoo_clean_server, Update, Disconnect
<1>8. CASE Exit(s) \/ Crash(s)
  BY <1>8, <1>5 DEF Exit, Crash, ProcessEnds
<1>9. CASE LoadList(s) \/ \E o \in Conns : Hangup(s, o)
  BY <1>9, <1>3 DEF LoadList, Hangup
<1>10. CASE \E w \in Callers : UpdateConnect(s, w)
  BY <1>10, <1>2, <1>4 DEF UpdateConnect, Ready
<1> QED BY <1>6, <1>7, <1>8, <1>9, <1>10

(* A client_thread gets no request of init_list, and only a forward gives  *)
(* another one a write.                                                    *)
LEMMA ThreadSteps ==
  ASSUME Inv, NEW s \in Servers, NEW o \in Conns, ThreadStep(s, o)
  PROVE  /\ \A x \in Servers, y \in Conns : NoNewFetch(x, y)
         /\ \/ Forward(s, o) /\ thr'[s][o].pc = "fwd"
            \/ \A x \in Servers, y \in Conns : NoNewWrite(x, y)
<1>1. TypeOK
  BY DEF Inv
<1>2. ASSUME NEW p, thr' = [thr EXCEPT ![s][o].pc = p],
             thr[s][o].pc # "none", p # "got",
             p \in PendingPc => thr[s][o].pc \in PendingPc,
             p \in ForemostPc => thr[s][o].pc \in ForemostPc
      PROVE  \A x \in Servers, y \in Conns : NoNewFetch(x, y) /\ NoNewWrite(x, y)
  BY <1>1, <1>2, PcMoves DEF NoNewFetch, NoNewWrite, Pending, Foremost
<1>3. CASE TakeListLock(s, o) \/ Read(s, o) \/ Apply(s, o) \/ Refuse(s, o)
  BY <1>2, <1>3
  DEF TakeListLock, Read, Apply, Refuse, PendingPc, ForemostPc
<1>4. CASE Hangup(s, o)
  BY <1>4, EndingSteps, EndsAreCalm
<1>5. CASE Forward(s, o) /\ thr'[s][o].pc # "fwd"
  <2>1. \E p \in {"local", "error"} : thr' = [thr EXCEPT ![s][o].pc = p]
    <3>1. CASE thr' = [thr EXCEPT ![s][o].pc = "local"]
               \/ thr' = [thr EXCEPT ![s][o].pc = "error"]
      BY <3>1
    <3>2. CASE rl_next[s] # 0 /\ ~ Broken(rl_next[s], NextConn(s))
      <4>1. PICK t \in Servers : t = rl_next[s] /\ s # t
        BY <1>1, <3>2, TypeFacts DEF Inv, Safe, LinksGoUp, Servers
      <4>2. PICK v, q : thr' = [thr EXCEPT ![s][o].pc = "fwd", ![t][q] = v]
        BY <1>5, <3>2, <4>1 DEF Forward
      <4>3. thr'[s] = [thr[s] EXCEPT ![o].pc = "fwd"]
        BY <1>1, <4>1, <4>2 DEF TypeOK, ThreadTypeOK
      <4>4. thr'[s][o].pc = "fwd"
        BY <1>1, <4>3 DEF TypeOK, ThreadTypeOK, Thread
      <4> QED BY <1>5, <4>4
    <3> QED BY <1>5, <3>1, <3>2 DEF Forward
  <2>2. thr[s][o].pc = "locked"
    BY <1>5 DEF Forward
  <2> QED BY <1>2, <2>1, <2>2 DEF PendingPc, ForemostPc
<1>6. CASE Forward(s, o) /\ thr'[s][o].pc = "fwd"
  <2>1. PICK t \in Servers, q \in Conns :
          /\ thr[t][q].pc = "recv"
          /\ TwoThreadsMove(s, o, "fwd", t, q,
                            [pc |-> "got", req |-> thr[s][o].req])
    BY <1>6, ForwardSendsMoves, ConnNames
  <2>2. thr[s][o].pc = "locked" /\ thr[s][o].req # FETCH
    BY <1>6, FetchIsNoWrite
    DEF Forward, Inv, Safe, HoldersHaveWrites, HoldsList, Writes
  <2> QED BY <1>6, <2>1, <2>2 DEF TwoThreadsMove, NoNewFetch
<1>7. CASE ForwardReturns(s, o)
  <2>1. PICK t \in Servers, q \in Conns, p \in {"apply", "error"} :
          /\ thr[t][q].pc \in {"none", "reply"}
          /\ Returned(t, q) # NULL => thr[t][q].pc = "reply"
          /\ TwoThreadsMove(s, o, p, t, q, AfterReply(t, q))
    BY <1>7, ForwardReturnsMoves, ConnNames DEF Returned
  <2>2. OnlyEnds(t, q)
    BY <2>1 DEF TwoThreadsMove, OnlyEnds, AfterReply
  <2>3. NoNewFetch(t, q) /\ NoNewWrite(t, q)
    BY <2>2, EndsAreCalm
  <2>4. thr[s][o].pc = "fwd"
    BY <1>7 DEF ForwardReturns
  <2>5. NoNewFetch(s, o) /\ NoNewWrite(s, o)
    BY <2>1, <2>4 DEF TwoThreadsMove, NoNewFetch, NoNewWrite, Pending, Foremost,
       PendingPc, ForemostPc
  <2>6. ASSUME NEW x \in Servers, NEW y \in Conns,
               ~ (x = s /\ y = o), ~ (x = t /\ y = q)
        PROVE  NoNewFetch(x, y) /\ NoNewWrite(x, y)
    BY <2>1, <2>6 DEF TwoThreadsMove, NoNewFetch, NoNewWrite, Pending, Foremost
  <2> QED BY <2>3, <2>5, <2>6
<1> QED BY <1>3, <1>4, <1>5, <1>6, <1>7 DEF ThreadStep

(* A step of a client. *)
LEMMA ClientSteps ==
  ASSUME Inv, NEW c \in Clients,
         ClientStep(c) \/ \E r \in Requests : ClientSend(c, r)
  PROVE  \A x \in Servers, y \in Conns : NoNewFetch(x, y)
<1>1. TypeOK
  BY DEF Inv
<1>2. ASSUME NEW a, NEW b, NEW v, thr' = [thr EXCEPT ![a][b] = v],
             \/ v = NoThread
             \/ v = Waiting /\ (thr[a][b].pc # "none" \/ main[a] = "serving")
             \/ v.req \in Requests /\ thr[a][b].pc # "none"
      PROVE  \A x \in Servers, y \in Conns : NoNewFetch(x, y)
  BY <1>1, <1>2, ThreadIsSet, ChainAssumption DEF NoNewFetch, NoThread, Waiting
<1>3. CASE thr' = thr
  BY <1>3 DEF NoNewFetch
<1>4. CASE ClientWatcher(c) \/ ClientGet(c)
  BY <1>3, <1>4 DEF ClientWatcher, ClientGet, threads
<1>5. CASE ClientReceive(c)
  <2>1. PICK a, b : thr' = [thr EXCEPT ![a][b] = AfterReply(a, b)]
    BY <1>5 DEF ClientReceive
  <2>2. \/ AfterReply(a, b) = NoThread
        \/ AfterReply(a, b) = Waiting /\ thr[a][b].pc # "none"
    BY DEF AfterReply, Returned
  <2> QED BY <1>2, <2>1, <2>2
<1>6. CASE ClientDisconnect(c)
  BY <1>2, <1>3, <1>6 DEF ClientDisconnect
<1>7. CASE ClientConnect(c)
  <2>1. PICK t, b : \/ thr' = thr
                    \/ /\ main[t] = "serving"
                       /\ thr' = [thr EXCEPT ![t][b] = Waiting]
    BY <1>7 DEF ClientConnect, Ready
  <2> QED BY <1>2, <1>3, <2>1
<1>8. ASSUME NEW r \in Requests, ClientSend(c, r)
      PROVE  \A x \in Servers, y \in Conns : NoNewFetch(x, y)
  <2> DEFINE o == EndConn(c, EndOf(r))
             v == [pc |-> "got", req |-> r]
  <2>1. \/ thr' = thr
        \/ /\ thr[link[o]][o].pc # "none"
           /\ thr' = [thr EXCEPT ![link[o]][o] = v]
    BY <1>8 DEF ClientSend, Broken
  <2>2. v.req \in Requests
    OBVIOUS
  <2> HIDE DEF o, v
  <2> QED BY <1>2, <1>3, <2>1, <2>2
<1> QED BY <1>4, <1>5, <1>6, <1>7, <1>8 DEF ClientStep

LEMMA NextJoin ==
  Inv /\ LinkInv /\ JoinInv /\ NoLiveExpiry' /\ [Next]_vars => JoinInv'
<1> SUFFICES ASSUME Inv, LinkInv, JoinInv, NoLiveExpiry', [Next]_vars
             PROVE  JoinInv'
  OBVIOUS
<1>1. ASSUME NEW s \in Servers,
             \/ child_watcher(s) \/ Stop(s) \/ zoo_clean_server(s)
             \/ Exit(s) \/ Crash(s) \/ Expire(s)
      PROVE  JoinInv'
  <2>1. \A j \in Servers : JoinsNoFurther(j)
    BY <1>1, MembershipJoin
  <2>2. \A x \in Servers, y \in Conns : NoNewFetch(x, y)
    BY <1>1, EndingSteps, EndsAreCalm
  <2> QED BY <2>1, <2>2, JoinFrame
<1>2. ASSUME NEW s \in Servers, Register(s) \/ MainStep(s) PROVE JoinInv'
  BY <1>1, <1>2, RegisterJoin, GetChildrenJoin, init_listJoin,
     ConnectPreviousJoin, LoadListJoin
  DEF MainStep
<1>3. ASSUME NEW s \in Servers, NEW w \in Callers,
             Update(s, w) \/ UpdateConnect(s, w)
      PROVE  JoinInv'
  <2>1. \A j \in Servers : JoinsNoFurther(j)
    BY <1>3, UpdateJoin
  <2>2. \A x \in Servers, y \in Conns : NoNewFetch(x, y)
    BY <1>3, EndingSteps, EndsAreCalm
  <2> QED BY <2>1, <2>2, JoinFrame
<1>4. ASSUME NEW s \in Servers, NEW o \in Conns, ThreadStep(s, o)
      PROVE  JoinInv'
  <2>1. UNCHANGED <<main, upd, children>>
    BY <1>4 DEF ThreadStep, TakeListLock, Read, Forward, ForwardReturns, Apply,
       Refuse, Hangup, server, zookeeper
  <2>2. \A j \in Servers : seen'[j] = seen[j] \/ main[j] \in {"fetch", "down"}
    <3>1. CASE seen' = seen
      BY <3>1
    <3>2. CASE Read(s, o) /\ thr[s][o].req = FETCH
      <4>1. PICK j \in Servers : o = FetchConn(j) /\ main[j] \in {"fetch", "down"}
        BY <3>2 DEF Read, JoinInv, FetchesMatch
      <4>2. o[1] = j
        BY <4>1 DEF FetchConn
      <4>3. \A x \in Servers : x # j => seen'[x] = seen[x]
        BY <3>2, <4>2 DEF Read, Inv, TypeOK, ThreadTypeOK
      <4> QED BY <4>1, <4>3
    <3>3. CASE Read(s, o) /\ thr[s][o].req # FETCH
      BY <3>1, <3>3 DEF Read
    <3> QED BY <1>4, <3>1, <3>2, <3>3
            DEF ThreadStep, TakeListLock, Forward, ForwardReturns, Apply,
            Refuse, Hangup, lists
  <2> QED BY <1>4, <2>1, <2>2, SameMembers, ThreadSteps, JoinFrame
<1>5. ASSUME NEW c \in Clients,
             ClientStep(c) \/ \E r \in Requests : ClientSend(c, r)
      PROVE  JoinInv'
  <2>1. UNCHANGED <<main, upd, children, seen>>
    BY <1>5 DEF ClientStep, ClientSend, ClientReceive, ClientWatcher, ClientGet,
       ClientDisconnect, ClientConnect, server, zookeeper, threads, lists
  <2> QED BY <1>5, <2>1, SameMembers, ClientSteps, JoinFrame
<1>6. ASSUME UNCHANGED vars PROVE JoinInv'
  <2>1. /\ UNCHANGED <<main, upd, children, seen>>
        /\ \A x \in Servers, y \in Conns : NoNewFetch(x, y)
    BY <1>6 DEF vars, server, zookeeper, threads, lists, NoNewFetch
  <2> QED BY <2>1, SameMembers, JoinFrame
<1>7. CASE SystemStep
  BY <1>7, <1>1, <1>2, <1>3, <1>4, <1>5, Zenon DEF SystemStep, UpdateStep
<1>8. CASE Environment
  BY <1>8, <1>1, <1>2, <1>5, Zenon DEF Environment
<1>9. CASE Quiet
  BY <1>9, <1>6 DEF Quiet
<1> QED BY <1>6, <1>7, <1>8, <1>9 DEF Next

-----------------------------------------------------------------------------
(* The steps that move a write, or a list that has it. *)

(* A new request is nowhere yet. *)
LEMMA ClientSendOnce ==
  ASSUME Inv, FrontierInv, NEW c \in Clients, NEW r \in Requests,
         ClientSend(c, r)
  PROVE  FrontierInv'
<1>1. /\ r \in todo /\ todo' = todo \ {r} /\ TypeOK /\ todo \subseteq Requests
      /\ UNCHANGED <<main, hist, seen>>
  BY DEF ClientSend, lists, server, Inv, TypeOK, ClientTypeOK
<1>2. CASE thr' = thr
  BY <1>1, <1>2, OnceFrame DEF NoNewWrite, Pending, Foremost
<1>3. ASSUME NEW a, NEW b, NEW v, v = [pc |-> "got", req |-> r],
             thr' = [thr EXCEPT ![a][b] = v]
      PROVE  FrontierInv'
  <2>1. \A x \in Servers, y \in Conns :
          thr'[x][y] = IF x = a /\ y = b THEN v ELSE thr[x][y]
    <3>1. thr \in ThreadTable
      BY <1>1 DEF TypeOK, ThreadTypeOK, ThreadTable
    <3> QED BY <1>3, <3>1 DEF ThreadTable
  <2>2. \A x \in Servers, y \in Conns, q \in Requests :
          /\ Pending(x, y, q)' =>
               IF q = r THEN x = a /\ y = b ELSE Pending(x, y, q)
          /\ Foremost(x, y, q)' =>
               IF q = r THEN x = a /\ y = b ELSE Foremost(x, y, q)
    <3>1. \A x \in Servers, y \in Conns : ~ Pending(x, y, r) /\ ~ Foremost(x, y, r)
      BY <1>1 DEF FrontierInv, TodoIsFresh, Pending, Foremost, PendingPc
    <3>2. \A x \in Servers, y \in Conns, q \in Requests :
            ~ (x = a /\ y = b) => /\ Pending(x, y, q)' <=> Pending(x, y, q)
                                  /\ Foremost(x, y, q)' <=> Foremost(x, y, q)
      BY <2>1 DEF Pending, Foremost
    <3>3. \A x \in Servers, y \in Conns, q \in Requests :
            x = a /\ y = b /\ (Pending(x, y, q)' \/ Foremost(x, y, q)') => q = r
      BY <1>3, <2>1 DEF Pending, Foremost
    <3> QED BY <3>1, <3>2, <3>3
  <2>3. TodoIsFresh'
    BY <1>1, <2>2 DEF FrontierInv, TodoIsFresh, Holds
  <2>4. PendingIsNew' /\ PendingIsOne'
    BY <1>1, <2>2
    DEF FrontierInv, TodoIsFresh, PendingIsNew, PendingIsOne, Holds
  <2>5. ForemostIsLast'
    BY <2>2 DEF FrontierInv, ForemostIsLast
  <2>6. ForemostIsNew'
    BY <1>1, <2>2 DEF FrontierInv, TodoIsFresh, ForemostIsNew, Holds
  <2>7. SeenOnce' /\ AppliedOnce'
    BY <1>1 DEF FrontierInv, SeenOnce, AppliedOnce
  <2> QED BY <2>3, <2>4, <2>5, <2>6, <2>7 DEF FrontierInv
<1> DEFINE o == EndConn(c, EndOf(r))
           w == [pc |-> "got", req |-> r]
<1>4. thr' = thr \/ thr' = [thr EXCEPT ![link[o]][o] = w]
  BY DEF ClientSend
<1>5. w = [pc |-> "got", req |-> r]
  OBVIOUS
<1>6. CASE thr' = [thr EXCEPT ![link[o]][o] = w]
  <2> HIDE DEF o, w
  <2> QED BY <1>3, <1>5, <1>6
<1> QED BY <1>2, <1>4, <1>6

(* The successor is above all that have the write, and its list is without *)
(* it.                                                                     *)
LEMMA ForwardOnce ==
  ASSUME Inv, FrontierInv, NEW s \in Servers, NEW o \in Conns,
         Forward(s, o), thr'[s][o].pc = "fwd"
  PROVE  FrontierInv'
<1>1. PICK t \in Servers, q \in Conns, v \in Thread :
        /\ s < t /\ thr[t][q].pc = "recv"
        /\ v = [pc |-> "got", req |-> thr[s][o].req]
        /\ TwoThreadsMove(s, o, "fwd", t, q, v)
  <2>1. [pc |-> "got", req |-> thr[s][o].req] \in Thread
    BY DEF Inv, TypeOK, ThreadTypeOK, Thread, ThreadPc
  <2> QED BY <2>1, ForwardSendsMoves, ConnNames
<1>2. PICK r \in Requests : r = thr[s][o].req /\ thr[s][o].pc = "locked"
  BY DEF Forward, Inv, Safe, HoldersHaveWrites, HoldsList, Writes
<1>3. UNCHANGED <<main, hist, seen, todo>>
  BY DEF Forward, lists, clients
<1>4. Foremost(s, o, r) /\ Pending(s, o, r)
  BY <1>2 DEF Foremost, Pending, ForemostPc, PendingPc
<1>5. \A x \in Servers, y \in Conns, k \in Requests :
        /\ Pending(x, y, k)' => \/ x = t /\ y = q /\ k = r
                                \/ Pending(x, y, k)
        /\ Foremost(x, y, k)' => \/ x = t /\ y = q /\ k = r
                                 \/ Foremost(x, y, k) /\ ~ (x = s /\ y = o)
  BY <1>1, <1>2 DEF TwoThreadsMove, Pending, Foremost, PendingPc, ForemostPc
<1>6. \A x \in Servers, y \in Conns : Pending(x, y, r) => x < s \/ (x = s /\ y = o)
  BY <1>4 DEF FrontierInv, ForemostIsLast
<1>7. \A x \in Servers, y \in Conns :
        Foremost(x, y, r) => x = s /\ y = o
  <2>1. \A x \in Servers, y \in Conns :
          Foremost(x, y, r) => s < x \/ (x = s /\ y = o)
    BY <1>4 DEF FrontierInv, ForemostIsLast
  <2>2. \A x \in Servers, y \in Conns : Foremost(x, y, r) => Pending(x, y, r)
    BY DEF Foremost, Pending, PendingPc
  <2> QED BY <1>6, <2>1, <2>2 DEF Servers
<1>8. TodoIsFresh'
  BY <1>3, <1>4, <1>5 DEF FrontierInv, TodoIsFresh, Holds, Inv, TypeOK, ClientTypeOK
<1>9. \A u \in Servers :
        s <= u => /\ ~ Holds(hist[u], r)
                  /\ main[u] = "fetch" => ~ Holds(seen[u], r)
  BY <1>4 DEF FrontierInv, ForemostIsNew
<1>10. PendingIsNew'
  <2> SUFFICES ASSUME NEW k \in Requests, NEW x \in Servers, NEW y \in Conns,
                      Pending(x, y, k)'
               PROVE  ~ Holds(hist[x], k)
    BY <1>3 DEF PendingIsNew, Holds
  <2> QED BY <1>1, <1>5, <1>9 DEF FrontierInv, PendingIsNew, Servers
<1>11. PendingIsOne'
  BY <1>1, <1>5, <1>6 DEF FrontierInv, PendingIsOne, Servers
<1>12. ForemostIsLast'
  <2> SUFFICES ASSUME NEW k \in Requests, NEW x \in Servers, NEW z \in Servers,
                      NEW y \in Conns, NEW w \in Conns,
                      Foremost(x, y, k)', Pending(z, w, k)'
               PROVE  z < x \/ (z = x /\ w = y)
    BY DEF ForemostIsLast
  <2>1. CASE x = t /\ y = q /\ k = r
    BY <1>1, <1>5, <1>6, <2>1 DEF Servers
  <2>2. CASE Foremost(x, y, k) /\ ~ (x = s /\ y = o)
    <3>1. k # r
      BY <1>7, <2>2
    <3> QED BY <1>5, <2>2, <3>1 DEF FrontierInv, ForemostIsLast
  <2> QED BY <1>5, <2>1, <2>2
<1>13. ForemostIsNew'
  <2> SUFFICES ASSUME NEW k \in Requests, NEW x \in Servers, NEW u \in Servers,
                      NEW y \in Conns, Foremost(x, y, k)', x <= u
               PROVE  /\ ~ Holds(hist[u], k)
                      /\ main[u] = "fetch" => ~ Holds(seen[u], k)
    BY <1>3 DEF ForemostIsNew, Holds
  <2>1. CASE x = t /\ y = q /\ k = r
    BY <1>1, <1>9, <2>1 DEF Servers
  <2>2. CASE Foremost(x, y, k)
    BY <2>2 DEF FrontierInv, ForemostIsNew
  <2> QED BY <1>5, <2>1, <2>2
<1>14. SeenOnce' /\ AppliedOnce'
  BY <1>3 DEF FrontierInv, SeenOnce, AppliedOnce
<1> QED BY <1>8, <1>10, <1>11, <1>12, <1>13, <1>14 DEF FrontierInv

(* Only one thread has the write at this server, and none has it foremost  *)
(* at this one or below.                                                   *)
LEMMA ApplyOnce ==
  ASSUME Inv, FrontierInv, NEW s \in Servers, NEW o \in Conns, Apply(s, o)
  PROVE  FrontierInv'
<1>1. PICK r \in Requests : r = thr[s][o].req /\ thr[s][o].pc \in {"local", "apply"}
  BY DEF Apply, Inv, Safe, HoldersHaveWrites, HoldsList, Writes
<1>2. /\ UNCHANGED <<main, seen, todo>>
      /\ \A x \in Servers :
           hist'[x] = IF x = s THEN Append(hist[s], r) ELSE hist[x]
      /\ hist[s] \in Seq(Requests) /\ todo \subseteq Requests
  <2>1. hist' = [hist EXCEPT ![s] = Append(hist[s], r)]
    BY <1>1 DEF Apply
  <2>2. hist \in [Servers -> Seq(Requests)] /\ todo \subseteq Requests
    BY DEF Inv, TypeOK, ThreadTypeOK, ClientTypeOK
  <2>3. UNCHANGED <<main, seen, todo>>
    BY DEF Apply, server, clients
  <2> QED BY <2>1, <2>2, <2>3
<1>3. Pending(s, o, r)
  BY <1>1 DEF Pending, PendingPc, ForemostPc
<1>4. \A x \in Servers, y \in Conns, k \in Requests :
        /\ Pending(x, y, k)' => Pending(x, y, k) /\ ~ (x = s /\ y = o)
        /\ Foremost(x, y, k)' => Foremost(x, y, k) /\ ~ (x = s /\ y = o)
  <2>1. thr \in ThreadTable /\ thr' = [thr EXCEPT ![s][o].pc = "reply"]
    BY TypeFacts DEF Apply, Inv
  <2>2. /\ \A x \in Servers, y \in Conns :
             x # s \/ y # o => thr'[x][y] = thr[x][y]
        /\ thr'[s][o].pc = "reply"
    BY <2>1 DEF ThreadTable, Thread
  <2> QED BY <2>2 DEF Pending, Foremost, PendingPc, ForemostPc
<1>5. /\ \A k \in Requests : Holds(hist'[s], k) <=> k = r \/ Holds(hist[s], k)
      /\ \A x \in Servers : x # s => hist'[x] = hist[x]
  <2>1. PICK h, n : h = hist[s] /\ n = Len(h)
    OBVIOUS
  <2>2. h \in Seq(Requests) /\ hist'[s] = Append(h, r)
    BY <1>2, <2>1
  <2>3. /\ n \in Nat /\ DOMAIN h = 1 .. n /\ DOMAIN hist'[s] = 1 .. (n + 1)
        /\ \A m \in 1 .. n : hist'[s][m] = h[m]
        /\ hist'[s][n + 1] = r
    BY <2>1, <2>2
  <2>4. \A k \in Requests : Holds(hist'[s], k) <=> k = r \/ Holds(h, k)
    <3>1. 1 .. (n + 1) = 1 .. n \cup {n + 1}
      BY <2>3
    <3> QED BY <2>3, <3>1 DEF Holds
  <2> QED BY <1>2, <2>1, <2>4
<1>6. r \notin todo /\ ~ Holds(hist[s], r)
  BY <1>3 DEF FrontierInv, TodoIsFresh, PendingIsNew
<1>7. TodoIsFresh'
  <2> SUFFICES ASSUME NEW k \in todo, NEW x \in Servers
               PROVE  /\ \A y \in Conns : ~ Pending(x, y, k)'
                      /\ ~ Holds(hist'[x], k) /\ ~ Holds(seen[x], k)
    BY <1>2 DEF TodoIsFresh, Holds
  <2> QED BY <1>2, <1>4, <1>5, <1>6 DEF FrontierInv, TodoIsFresh
<1>8. PendingIsNew'
  <2> SUFFICES ASSUME NEW k \in Requests, NEW x \in Servers, NEW y \in Conns,
                      Pending(x, y, k)'
               PROVE  ~ Holds(hist'[x], k)
    BY DEF PendingIsNew, Holds
  <2>1. Pending(x, y, k) /\ ~ (x = s /\ y = o)
    BY <1>4
  <2>2. x = s => k # r
    BY <1>3, <2>1 DEF FrontierInv, PendingIsOne
  <2> QED BY <1>5, <2>1, <2>2 DEF FrontierInv, PendingIsNew
<1>9. PendingIsOne'
  BY <1>4 DEF FrontierInv, PendingIsOne
<1>10. ForemostIsLast'
  BY <1>4 DEF FrontierInv, ForemostIsLast
<1>11. ForemostIsNew'
  <2> SUFFICES ASSUME NEW k \in Requests, NEW x \in Servers, NEW u \in Servers,
                      NEW y \in Conns, Foremost(x, y, k)', x <= u
               PROVE  /\ ~ Holds(hist'[u], k)
                      /\ main[u] = "fetch" => ~ Holds(seen[u], k)
    BY <1>2 DEF ForemostIsNew, Holds
  <2>1. Foremost(x, y, k) /\ ~ (x = s /\ y = o)
    BY <1>4
  <2>2. u = s => k # r
    BY <1>3, <2>1 DEF FrontierInv, ForemostIsLast, Servers
  <2> QED BY <1>5, <2>1, <2>2 DEF FrontierInv, ForemostIsNew
<1>12. SeenOnce'
  BY <1>2 DEF FrontierInv, SeenOnce
<1>13. AppliedOnce'
  <2> SUFFICES ASSUME NEW x \in Servers, NEW i \in DOMAIN hist'[x],
                      NEW j \in DOMAIN hist'[x], hist'[x][i] = hist'[x][j]
               PROVE  i = j
    BY DEF AppliedOnce
  <2>1. CASE x # s
    BY <1>5, <2>1 DEF FrontierInv, AppliedOnce
  <2>2. CASE x = s
    <3>1. \A m, n \in 1 .. Len(hist[s]) : hist[s][m] = hist[s][n] => m = n
      BY <1>2 DEF FrontierInv, AppliedOnce
    <3>2. \A m \in 1 .. Len(hist[s]) : hist[s][m] # r
      BY <1>2, <1>6 DEF Holds
    <3>3. /\ DOMAIN hist'[s] = 1 .. (Len(hist[s]) + 1)
          /\ \A m \in 1 .. Len(hist[s]) : hist'[s][m] = hist[s][m]
          /\ hist'[s][Len(hist[s]) + 1] = r
          /\ Len(hist[s]) \in Nat
      <4>1. hist'[s] = Append(hist[s], r) /\ hist[s] \in Seq(Requests)
        BY <1>2
      <4> QED BY <4>1
    <3> QED BY <2>2, <3>1, <3>2, <3>3
  <2> QED BY <2>1, <2>2
<1> QED BY <1>7, <1>8, <1>9, <1>10, <1>11, <1>12, <1>13 DEF FrontierInv

(* The list that is sent to a joining server comes from the last live      *)
(* server before it: whoever has a write foremost is at or below that one. *)
LEMMA ReadOnce ==
  ASSUME Inv, JoinInv, FrontierInv, NEW s \in Servers, NEW o \in Conns,
         Read(s, o)
  PROVE  FrontierInv'
<1>1. /\ UNCHANGED <<main, hist, todo>> /\ todo \subseteq Requests
      /\ \A x \in Servers, y \in Conns : NoNewWrite(x, y)
  <2>1. thr' = [thr EXCEPT ![s][o].pc = "reply"] /\ TypeOK
    BY DEF Read, Inv
  <2>2. \A x \in Servers, y \in Conns : NoNewWrite(x, y)
    BY <2>1, PcMoves DEF NoNewWrite, Pending, Foremost, PendingPc, ForemostPc
  <2> QED BY <2>2 DEF Read, server, clients, Inv, TypeOK, ClientTypeOK
<1>2. CASE thr[s][o].req # FETCH
  BY <1>1, <1>2, OnceFrame DEF Read
<1>3. CASE thr[s][o].req = FETCH
  <2>1. PICK j \in Servers :
          /\ o = FetchConn(j)
          /\ main[j] = "down" \/ (main[j] = "fetch" /\ upd[j][Main].to = s)
    BY <1>3 DEF Read, JoinInv, FetchesMatch
  <2>2. o[1] = j
    BY <2>1 DEF FetchConn
  <2>3. /\ seen'[j] = hist[s]
        /\ \A x \in Servers : x # j => seen'[x] = seen[x]
    BY <1>3, <2>2 DEF Read, Inv, TypeOK, ThreadTypeOK
  <2>4. TodoIsFresh'
    <3> SUFFICES ASSUME NEW k \in todo, NEW x \in Servers
                 PROVE  /\ \A y \in Conns : ~ Pending(x, y, k)'
                        /\ ~ Holds(hist[x], k) /\ ~ Holds(seen'[x], k)
      BY <1>1 DEF TodoIsFresh, Holds
    <3> QED BY <1>1, <2>3 DEF FrontierInv, TodoIsFresh, NoNewWrite
  <2>5. PendingIsNew' /\ PendingIsOne'
    BY <1>1 DEF FrontierInv, PendingIsNew, PendingIsOne, NoNewWrite, Holds
  <2>6. ForemostIsLast'
    BY <1>1 DEF FrontierInv, ForemostIsLast, NoNewWrite
  <2>7. ForemostIsNew'
    <3> SUFFICES ASSUME NEW k \in Requests, NEW x \in Servers, NEW u \in Servers,
                        NEW y \in Conns, Foremost(x, y, k), x <= u
                 PROVE  /\ ~ Holds(hist[u], k)
                        /\ main[u] = "fetch" => ~ Holds(seen'[u], k)
      BY <1>1 DEF ForemostIsNew, NoNewWrite, Holds
    <3>1. ~ Holds(hist[u], k) /\ (main[u] = "fetch" => ~ Holds(seen[u], k))
      BY DEF FrontierInv, ForemostIsNew
    <3>2. ASSUME u = j, main[j] = "fetch" PROVE ~ Holds(hist[s], k)
      <4>1. thr[x][y].pc # "none"
        BY DEF Foremost, ForemostPc
      <4>2. main[x] \notin StartingPc \cup {"down"}
        BY <4>1 DEF JoinInv, StartingHaveNoThreads, Inv, Safe, DeadHaveNoThreads
      <4>3. x # j /\ Alive(x)
        BY <3>2, <4>2 DEF Alive, StartingPc
      <4>4. x < j
        BY <3>2, <4>3 DEF Servers
      <4>5. x \in upd[j][Main].kids
        BY <3>2, <4>3, <4>4 DEF JoinInv, SnapshotsHaveAlive
      <4>6. x <= s
        BY <2>1, <3>2, <4>4, <4>5 DEF JoinInv, PreviousIsChosen, IsPrevious
      <4> QED BY <4>6 DEF FrontierInv, ForemostIsNew
    <3> QED BY <2>3, <3>1, <3>2
  <2>8. SeenOnce'
    BY <2>3 DEF FrontierInv, SeenOnce, AppliedOnce
  <2>9. AppliedOnce'
    BY <1>1 DEF FrontierInv, AppliedOnce
  <2> QED BY <2>4, <2>5, <2>6, <2>7, <2>8, <2>9 DEF FrontierInv
<1> QED BY <1>2, <1>3

(* The list that was sent has no write that is foremost below, and the     *)
(* joining server has no thread yet.                                       *)
LEMMA LoadListOnce ==
  ASSUME Inv, JoinInv, FrontierInv, NEW s \in Servers, LoadList(s)
  PROVE  FrontierInv'
<1>1. /\ main[s] = "fetch" /\ main'[s] # "fetch"
      /\ \A x \in Servers : x # s => main'[x] = main[x] /\ hist'[x] = hist[x]
      /\ hist'[s] \in {hist[s], seen[s]}
      /\ UNCHANGED <<seen, todo>> /\ todo \subseteq Requests
  BY DEF LoadList, clients, Inv, TypeOK, ServerTypeOK, ThreadTypeOK,
     ClientTypeOK
<1>2. \A x \in Servers, y \in Conns : NoNewWrite(x, y)
  BY EndingSteps, EndsAreCalm
<1>3. \A y \in Conns, k \in Requests : ~ Pending(s, y, k)
  BY <1>1 DEF JoinInv, StartingHaveNoThreads, StartingPc, Pending, PendingPc,
     ForemostPc
<1>4. TodoIsFresh'
  <2> SUFFICES ASSUME NEW k \in todo, NEW x \in Servers
               PROVE  /\ \A y \in Conns : ~ Pending(x, y, k)'
                      /\ ~ Holds(hist'[x], k) /\ ~ Holds(seen[x], k)
    BY <1>1 DEF TodoIsFresh, Holds
  <2> QED BY <1>1, <1>2 DEF FrontierInv, TodoIsFresh, NoNewWrite
<1>5. PendingIsNew'
  <2> SUFFICES ASSUME NEW k \in Requests, NEW x \in Servers, NEW y \in Conns,
                      Pending(x, y, k)
               PROVE  ~ Holds(hist'[x], k)
    BY <1>2 DEF PendingIsNew, NoNewWrite, Holds
  <2> QED BY <1>1, <1>3 DEF FrontierInv, PendingIsNew
<1>6. PendingIsOne' /\ ForemostIsLast'
  BY <1>2 DEF FrontierInv, PendingIsOne, ForemostIsLast, NoNewWrite
<1>7. ForemostIsNew'
  <2> SUFFICES ASSUME NEW k \in Requests, NEW x \in Servers, NEW u \in Servers,
                      NEW y \in Conns, Foremost(x, y, k), x <= u
               PROVE  /\ ~ Holds(hist'[u], k)
                      /\ main'[u] = "fetch" => ~ Holds(seen[u], k)
    BY <1>1, <1>2 DEF ForemostIsNew, NoNewWrite, Holds
  <2>1. ~ Holds(hist[u], k) /\ (main[u] = "fetch" => ~ Holds(seen[u], k))
    BY DEF FrontierInv, ForemostIsNew
  <2> QED BY <1>1, <2>1
<1>8. SeenOnce'
  BY <1>1 DEF FrontierInv, SeenOnce
<1>9. AppliedOnce'
  <2> SUFFICES ASSUME NEW x \in Servers
               PROVE  \A i, j \in DOMAIN hist'[x] :
                        hist'[x][i] = hist'[x][j] => i = j
    BY DEF AppliedOnce
  <2> QED BY <1>1 DEF FrontierInv, AppliedOnce, SeenOnce
<1> QED BY <1>4, <1>5, <1>6, <1>7, <1>8, <1>9 DEF FrontierInv

LEMMA NextOnce ==
  Inv /\ JoinInv /\ FrontierInv /\ [Next]_vars => FrontierInv'
<1> SUFFICES ASSUME Inv, JoinInv, FrontierInv, [Next]_vars PROVE FrontierInv'
  OBVIOUS
<1>1. todo \subseteq Requests
  BY DEF Inv, TypeOK, ClientTypeOK
<1>2. ASSUME NEW s \in Servers,
             \/ child_watcher(s) \/ Stop(s) \/ zoo_clean_server(s)
             \/ Exit(s) \/ Crash(s) \/ Expire(s)
             \/ Register(s) \/ GetChildren(s) \/ init_list(s)
             \/ \E w \in Callers : Update(s, w) \/ UpdateConnect(s, w)
             \/ \E o \in Conns : Hangup(s, o)
      PROVE  FrontierInv'
  <2>1. \A x \in Servers, y \in Conns : NoNewWrite(x, y)
    BY <1>2, EndingSteps, EndsAreCalm
  <2>2. UNCHANGED <<hist, seen, todo>>
    BY <1>2 DEF child_watcher, Stop, zoo_clean_server, Exit, Crash, Expire,
       ProcessEnds, Register, GetChildren, init_list, Update, UpdateConnect,
       Hangup, threads, lists, clients
  <2>3. \A x \in Servers : main'[x] = "fetch" => main[x] = "fetch"
    BY <1>2 DEF child_watcher, Stop, zoo_clean_server, Exit, Crash, Expire,
       ProcessEnds, Register, GetChildren, init_list, Update, UpdateConnect,
       UpdateDone, Hangup, server, Inv, TypeOK, ServerTypeOK
  <2> QED BY <1>1, <2>1, <2>2, <2>3, OnceFrame
<1>3. ASSUME NEW s \in Servers, ConnectPrevious(s) PROVE FrontierInv'
  <2>1. main[s] = "connect" /\ UNCHANGED <<hist, seen, todo>>
    BY <1>3 DEF ConnectPrevious, lists, clients
  <2>2. \A x \in Servers : main'[x] = "fetch" => main[x] = "fetch" \/ x = s
    BY <1>3 DEF ConnectPrevious, Inv, TypeOK, ServerTypeOK
  <2>3. seen[s] = <<>>
    BY <2>1 DEF JoinInv, NothingSeenYet, StartingPc
  <2>4. \A x \in Servers, y \in Conns : NoNewWrite(x, y)
    <3> DEFINE v == [pc |-> "got", req |-> FETCH]
    <3>1. PICK a, b : thr' = thr \/ thr' = [thr EXCEPT ![a][b] = v]
      BY <1>3 DEF ConnectPrevious
    <3>2. \A x \in Servers, y \in Conns : thr'[x][y] = thr[x][y] \/ thr'[x][y] = v
      <4>1. thr \in ThreadTable
        BY TypeFacts DEF Inv
      <4> QED BY <3>1, <4>1 DEF ThreadTable
    <3>3. v.req \notin Requests
      BY ChainAssumption
    <3> QED BY <3>2, <3>3 DEF NoNewWrite, Pending, Foremost
  <2> QED BY <1>1, <2>1, <2>2, <2>3, <2>4, OnceFrame
<1>4. ASSUME NEW s \in Servers, MainStep(s) PROVE FrontierInv'
  BY <1>2, <1>3, <1>4, LoadListOnce DEF MainStep
<1>5. ASSUME NEW s \in Servers, NEW o \in Conns, ThreadStep(s, o)
      PROVE  FrontierInv'
  <2>1. CASE Hangup(s, o)
    BY <1>2, <2>1
  <2>2. CASE Forward(s, o) /\ thr'[s][o].pc = "fwd"
    BY <2>2, ForwardOnce
  <2>3. CASE \/ TakeListLock(s, o) \/ ForwardReturns(s, o) \/ Refuse(s, o)
             \/ Forward(s, o) /\ thr'[s][o].pc # "fwd"
    <3>1. UNCHANGED <<main, hist, seen, todo>>
      BY <2>3 DEF TakeListLock, Forward, ForwardReturns, Refuse, server, lists,
         clients
    <3>2. \A x \in Servers, y \in Conns : NoNewWrite(x, y)
      <4>1. CASE Forward(s, o) /\ thr'[s][o].pc # "fwd"
        BY <4>1, <1>5, ThreadSteps
      <4>2. CASE TakeListLock(s, o) \/ ForwardReturns(s, o) \/ Refuse(s, o)
        <5>1. ~ (Forward(s, o) /\ thr'[s][o].pc = "fwd")
          <6>1. thr[s][o].pc = "locked" \/ ~ Forward(s, o)
            BY DEF Forward
          <6> QED BY <4>2, <6>1 DEF TakeListLock, ForwardReturns, Refuse
        <5> QED BY <1>5, <5>1, ThreadSteps
      <4> QED BY <2>3, <4>1, <4>2
    <3> QED BY <1>1, <3>1, <3>2, OnceFrame
  <2> QED BY <1>5, <2>1, <2>2, <2>3, ApplyOnce, ReadOnce DEF ThreadStep
<1>6. ASSUME NEW c \in Clients, ClientStep(c) PROVE FrontierInv'
  <2>1. UNCHANGED <<main, hist, seen, todo>>
    BY <1>6 DEF ClientStep, ClientReceive, ClientWatcher, ClientGet,
       ClientDisconnect, ClientConnect, server, lists, threads
  <2>2. \A x \in Servers, y \in Conns : NoNewWrite(x, y)
    <3>1. PICK a, b, v : /\ v \in {NoThread, Waiting}
                         /\ thr' = thr \/ thr' = [thr EXCEPT ![a][b] = v]
      BY <1>6 DEF ClientStep, ClientReceive, ClientWatcher, ClientGet,
         ClientDisconnect, ClientConnect, threads, AfterReply
    <3>2. \A x \in Servers, y \in Conns : thr'[x][y] = thr[x][y] \/ thr'[x][y] = v
      <4>1. thr \in ThreadTable
        BY TypeFacts DEF Inv
      <4> QED BY <3>1, <4>1 DEF ThreadTable
    <3> QED BY <3>1, <3>2 DEF NoNewWrite, Pending, Foremost, PendingPc,
            ForemostPc, NoThread, Waiting
  <2> QED BY <1>1, <2>1, <2>2, OnceFrame
<1>7. ASSUME NEW c \in Clients, NEW r \in Requests, ClientSend(c, r)
      PROVE  FrontierInv'
  BY <1>7, ClientSendOnce
<1>8. ASSUME UNCHANGED vars PROVE FrontierInv'
  <2>1. /\ UNCHANGED <<main, hist, seen, todo>>
        /\ \A x \in Servers, y \in Conns : NoNewWrite(x, y)
    BY <1>8 DEF vars, server, threads, lists, clients, NoNewWrite, Pending,
       Foremost
  <2> QED BY <1>1, <2>1, OnceFrame
<1>9. CASE SystemStep
  BY <1>9, <1>2, <1>4, <1>5, <1>6, Zenon DEF SystemStep, UpdateStep
<1>10. CASE Environment
  BY <1>10, <1>2, <1>7, Zenon DEF Environment
<1>11. CASE Quiet
  BY <1>11, <1>8 DEF Quiet
<1> QED BY <1>8, <1>9, <1>10, <1>11 DEF Next

(* An expired session is not forgotten. *)
LEMMA ExpiryStays == TypeOK /\ NoLiveExpiry' /\ [Next]_vars => NoLiveExpiry
<1> DEFINE Counted == UNCHANGED faults \/ \E kind : Fail(kind)
<1> SUFFICES ASSUME TypeOK, NoLiveExpiry', [Next]_vars PROVE NoLiveExpiry
  OBVIOUS
<1>1. ASSUME Counted PROVE NoLiveExpiry
  BY <1>1 DEF Fail, NoLiveExpiry, TypeOK, ServerTypeOK, Failures
<1>2. ASSUME NEW s \in Servers, MainStep(s) PROVE Counted
  BY <1>2 DEF MainStep, GetChildren, init_list, ConnectPrevious, LoadList,
     zoo_clean_server, Exit, FailsIf, Refuses
<1>3. ASSUME NEW s \in Servers, UpdateStep(s) PROVE Counted
  BY <1>3 DEF UpdateStep, child_watcher, Update, UpdateConnect, FailsIf, Refuses
<1>4. ASSUME NEW s \in Servers, NEW o \in Conns, ThreadStep(s, o)
      PROVE  Counted
  BY <1>4 DEF ThreadStep, TakeListLock, Read, Forward, ForwardReturns, Apply,
     Refuse, Hangup
<1>5. ASSUME NEW s \in Servers, Register(s) \/ Stop(s) \/ Crash(s) \/ Expire(s)
      PROVE  Counted
  BY <1>5 DEF Register, Stop, Crash, Expire, FailsIf
<1>6. ASSUME NEW c \in Clients,
             ClientStep(c) \/ \E r \in Requests : ClientSend(c, r)
      PROVE  Counted
  BY <1>6 DEF ClientStep, ClientSend, ClientReceive, ClientWatcher, ClientGet,
     ClientDisconnect, ClientConnect, Refuses
<1>7. CASE UNCHANGED vars
  BY <1>7 DEF vars, NoLiveExpiry
<1> HIDE DEF Counted
<1>8. CASE SystemStep
  BY <1>8, <1>1, <1>2, <1>3, <1>4, <1>5, <1>6, Zenon DEF SystemStep
<1>9. CASE Environment
  BY <1>9, <1>1, <1>5, <1>6, Zenon DEF Environment
<1> QED BY <1>7, <1>8, <1>9 DEF Next, Quiet

(* In the chain as it starts no request has been made. *)
LEMMA InitOnce == Init => JoinInv /\ FrontierInv
<1> SUFFICES ASSUME Init PROVE JoinInv /\ FrontierInv
  OBVIOUS
<1>1. /\ children = 1 .. Boot
      /\ \A s \in Servers :
           /\ main[s] = IF s <= Boot THEN "serving" ELSE "off"
           /\ hist[s] = <<>> /\ seen[s] = <<>>
           /\ \A o \in Conns :
                /\ thr[s][o] \in {Waiting, NoThread}
                /\ s > Boot => thr[s][o] = NoThread
  <2>1. /\ children = 1 .. Boot
        /\ \A s \in Servers :
             /\ main[s] = IF s <= Boot THEN "serving" ELSE "off"
             /\ hist[s] = <<>> /\ seen[s] = <<>>
    BY DEF Init
  <2>2. ASSUME NEW s \in Servers, NEW o \in Conns
        PROVE  /\ thr[s][o] \in {Waiting, NoThread}
               /\ s > Boot => thr[s][o] = NoThread
    <3>1. Boot \in Nat /\ Boot >= 1
      BY ChainAssumption
    <3>2. thr[s][o] = IF \/ s <= Boot /\ o = NextConn(s - 1)
                         \/ s = 1 /\ o \in Clients \X {"head"}
                         \/ s = Boot /\ o \in Clients \X {"tail"}
                        THEN Waiting ELSE NoThread
      BY DEF Init
    <3> QED BY <3>1, <3>2 DEF Servers
  <2> QED BY <2>1, <2>2
<1>2. Boot \in 1 .. N /\ N \in Nat
  BY ChainAssumption
<1>3. AliveHaveZnodes
  BY <1>1, <1>2 DEF AliveHaveZnodes, Alive, Servers
<1>4. StartingHaveNoThreads /\ SnapshotsHaveAlive /\ PreviousIsChosen
  BY <1>1, <1>2 DEF StartingHaveNoThreads, StartingPc, SnapshotsHaveAlive,
     PreviousIsChosen, Servers, NoThread
<1>5. FetchesMatch /\ NothingSeenYet
  BY <1>1 DEF FetchesMatch, NothingSeenYet, NoThread, Waiting
<1>6. \A s \in Servers, o \in Conns, r \in Requests :
        ~ Pending(s, o, r) /\ ~ Foremost(s, o, r)
  BY <1>1 DEF Pending, Foremost, PendingPc, ForemostPc, NoThread, Waiting
<1>7. \A s \in Servers, r \in Requests : ~ Holds(hist[s], r) /\ ~ Holds(seen[s], r)
  BY <1>1 DEF Holds
<1>8. FrontierInv
  <2>1. todo = Requests
    BY DEF Init
  <2> QED BY <1>1, <1>6, <1>7, <2>1
          DEF FrontierInv, TodoIsFresh, PendingIsNew, PendingIsOne,
          ForemostIsLast, ForemostIsNew, SeenOnce, AppliedOnce
<1> QED BY <1>3, <1>4, <1>5, <1>8 DEF JoinInv

LEMMA AlwaysOnce == Spec => [](NoLiveExpiry => JoinInv /\ FrontierInv)
<1> DEFINE OnceInv == NoLiveExpiry => JoinInv /\ FrontierInv
<1>1. Init => LinkInv /\ OnceInv
  BY InitLinks, InitOnce
<1>2. Inv /\ (LinkInv /\ OnceInv) /\ [Next]_vars => (LinkInv /\ OnceInv)'
  <2> SUFFICES ASSUME Inv, LinkInv, OnceInv, [Next]_vars
               PROVE  LinkInv' /\ (NoLiveExpiry' => JoinInv' /\ FrontierInv')
    OBVIOUS
  <2>1. LinkInv'
    BY NextLinks
  <2>2. ASSUME NoLiveExpiry' PROVE JoinInv' /\ FrontierInv'
    <3>1. NoLiveExpiry
      BY <2>2, ExpiryStays DEF Inv
    <3> QED BY <2>2, <3>1, NextJoin, NextOnce
  <2> QED BY <2>1, <2>2
<1> SUFFICES Spec => []OnceInv
  OBVIOUS
<1> HIDE DEF OnceInv
<1> QED BY <1>1, <1>2, AlwaysInv, PTL DEF Spec

(* No server applies a write twice: in a chain of any length, whatever     *)
(* joins, stops, crashes, refused connections and failed calls of          *)
(* ZooKeeper come between the forwards, as long as ZooKeeper drops no      *)
(* session of a process that is alive.                                     *)
THEOREM ChainAtMostOnce == Spec => []AtMostOnce
<1>1. (NoLiveExpiry => JoinInv /\ FrontierInv) => AtMostOnce
  BY DEF FrontierInv, AtMostOnce, NoLiveExpiry
<1> QED BY <1>1, AlwaysOnce, PTL
=============================================================================
