-------------------------- MODULE ChainClientProofs --------------------------
(***************************************************************************)
(* Proofs about module ChainClient, for any number of servers, failures    *)
(* and commands: no link is freed twice or used after, a command keeps its *)
(* link, and a settled client is linked to the ends of /chain.             *)
(***************************************************************************)
EXTENDS ChainClient, TLAPS

(* A call of update. *)
Call == [pc : {"idle", "get", "lock", "connect", "wait", "spin"}, end : Ends,
         kids : SUBSET Servers]

(* Who may hold rls_lock: a call that replaces a link, or a command; and   *)
(* the main thread calls update only before the first prompt.              *)
LocksFit ==
  /\ \A w \in Callers : upd[w].pc \in Connecting => rls_lock = w
  /\ main \in {"command", "spin"} => rls_lock = Main
  /\ upd[Main].pc # "idle" => main \in {"update", "undefined"}

(* Call w has not dealt with end e yet. *)
Due(w, e) == upd[w].pc # "idle" /\ (upd[w].end = "head" \/ e = "tail")

(* Before zoo_init_client has set the watch nothing runs.  From then on,   *)
(* while the watch has not fired, the last snapshot is still /chain.       *)
SnapshotIsCurrent ==
  /\ main = "start" =>
       /\ ~ watch /\ ~ event
       /\ \A w \in Callers : upd[w].pc = "idle"
  /\ ~ overlap => upd[Main].pc = "idle" \/ upd[Zk].pc = "idle"
  /\ watch /\ ~ overlap => \A w \in Callers :
       upd[w].pc # "idle" => upd[w].kids = children

(* An end that no call has yet to deal with has the link it should have. *)
DoneIsCurrent ==
  watch /\ ~ overlap /\ children # {} =>
    \A e \in Ends \ kept :
      (\A w \in Callers : ~ Due(w, e)) /\ link[e] # 0
        => IsEnd(e, children, link[e])

-----------------------------------------------------------------------------
(* What the helpers of update do to the calls *)

(* A call that begins, of the main thread or of the callback. *)
LEMMA BeginFields ==
  ASSUME TypeOK, NEW w \in Callers, Begin(w)
  PROVE  /\ upd' \in [Callers -> Call]
         /\ \A v \in Callers \ {w} : upd'[v] = upd[v]
         /\ upd'[w] = IF children = {} THEN Idle
                      ELSE [pc |-> "get", end |-> "head", kids |-> children]
<1>1. Idle \in Call
  BY DEF Idle, Call, Ends
<1>2. [pc |-> "get", end |-> "head", kids |-> children] \in Call
  BY DEF Call, Ends, TypeOK
<1>3. upd \in [Callers -> Call]
  BY DEF TypeOK, Call
<1> QED BY <1>1, <1>2, <1>3 DEF Begin

(* A call that goes on to the tail, or ends. *)
LEMMA NextEndFields ==
  ASSUME TypeOK, NEW w \in Callers, NextEnd(w)
  PROVE  /\ upd' \in [Callers -> Call]
         /\ \A v \in Callers \ {w} : upd'[v] = upd[v]
         /\ upd[w].end = "head" => /\ upd'[w].pc = "get"
                                   /\ upd'[w].end = "tail"
                                   /\ upd'[w].kids = upd[w].kids
         /\ upd[w].end = "tail" => upd'[w].pc = "idle"
<1>1. Idle \in Call /\ Idle.pc = "idle"
  BY DEF Idle, Call, Ends
<1>2. upd \in [Callers -> Call] /\ upd[w] \in Call
  BY DEF TypeOK, Call
<1>3. [upd[w] EXCEPT !.pc = "get", !.end = "tail"] \in Call
  BY <1>2 DEF Call, Ends
<1>4. upd[w].end \in {"head", "tail"}
  BY <1>2 DEF Call, Ends
<1>5. upd' = [upd EXCEPT ![w] =
                IF upd[w].end = "head"
                  THEN [upd[w] EXCEPT !.pc = "get", !.end = "tail"]
                  ELSE Idle]
  BY DEF NextEnd
<1>6. /\ [upd[w] EXCEPT !.pc = "get", !.end = "tail"].pc = "get"
      /\ [upd[w] EXCEPT !.pc = "get", !.end = "tail"].end = "tail"
      /\ [upd[w] EXCEPT !.pc = "get", !.end = "tail"].kids = upd[w].kids
  BY <1>2 DEF Call
<1>7. upd'[w] = IF upd[w].end = "head"
                  THEN [upd[w] EXCEPT !.pc = "get", !.end = "tail"]
                  ELSE Idle
  BY <1>2, <1>5
<1> QED BY <1>1, <1>2, <1>3, <1>4, <1>5, <1>6, <1>7

(* A call whose progress alone changes. *)
Progress == {"lock", "connect", "wait", "spin"}

LEMMA ProgressFields ==
  ASSUME TypeOK, NEW w \in Callers, NEW p \in Progress,
         upd' = [upd EXCEPT ![w].pc = p]
  PROVE  /\ upd' \in [Callers -> Call]
         /\ \A v \in Callers \ {w} : upd'[v] = upd[v]
         /\ upd'[w].pc = p /\ upd'[w].end = upd[w].end
         /\ upd'[w].kids = upd[w].kids
<1>1. upd \in [Callers -> Call] /\ upd[w] \in Call
  BY DEF TypeOK, Call
<1>2. upd'[w] = [upd[w] EXCEPT !.pc = p]
  BY <1>1
<1>3. [upd[w] EXCEPT !.pc = p] \in Call
  BY <1>1 DEF Call, Progress
<1> QED BY <1>1, <1>2, <1>3 DEF Call

(* A failure that is counted stays within its bound. *)
LEMMA FailCounts ==
  ASSUME TypeOK, NEW kind, Fail(kind)
  PROVE  faults' \in 0 .. MaxFaults
<1>1. faults \in 0 .. MaxFaults
  BY DEF TypeOK
<1> QED BY <1>1, ClientAssumption DEF Fail

-----------------------------------------------------------------------------
(* Types *)

(* zoo_init_client and the callback begin a call with types as they were. *)
LEMMA BeginType ==
  ASSUME TypeOK, Start \/ child_watcher
  PROVE  TypeOK'
<1>0. Main \in Callers /\ Zk \in Callers /\ upd \in [Callers -> Call]
  BY DEF Callers, TypeOK, Call
<1>1. CASE Start
  <2>1. upd' \in [Callers -> Call]
    BY <1>0, <1>1, BeginFields DEF Start
  <2>2. faults' \in 0 .. MaxFaults
    BY <1>1, FailCounts DEF Start, TypeOK
  <2> QED BY <1>1, <2>1, <2>2 DEF Start, links, sigint, TypeOK, Call
<1>2. CASE child_watcher
  <2>1. upd' \in [Callers -> Call]
    BY <1>0, <1>2, BeginFields DEF child_watcher
  <2>2. faults' \in 0 .. MaxFaults
    BY <1>2, FailCounts DEF child_watcher, TypeOK
  <2>3. overlap' \in BOOLEAN
    BY <1>2 DEF child_watcher, TypeOK
  <2>4. watch' \in BOOLEAN /\ event' \in BOOLEAN
    BY <1>2 DEF child_watcher, TypeOK
  <2> QED BY <1>2, <2>1, <2>2, <2>3, <2>4
          DEF child_watcher, links, sigint, TypeOK, Call
<1> QED BY <1>1, <1>2

(* A signal that is counted stays within its bound. *)
LEMMA SigintType ==
  ASSUME TypeOK, NEW ws \in SUBSET Callers, Sigint(ws)
  PROVE  /\ shutdown' \in BOOLEAN /\ eintr' \subseteq Callers
         /\ signals' \in 0 .. MaxSignals
<1>1. signals \in 0 .. MaxSignals /\ eintr \subseteq Callers
  BY DEF TypeOK
<1>2. signals' \in 0 .. MaxSignals
  BY <1>1, ClientAssumption DEF Sigint
<1> QED BY <1>1, <1>2 DEF Sigint

(* A new link, or none: the pointer is not to a freed one any more. *)
LEMMA RelinkType ==
  ASSUME TypeOK, NEW w \in Callers, NEW t \in 0 .. N, Relink(w, t)
  PROVE  /\ upd' \in [Callers -> Call]
         /\ link' \in [Ends -> 0 .. N]
         /\ freed' \subseteq {e \in Ends : link'[e] # 0}
         /\ kept' \subseteq Ends
         /\ rls_lock' \in Callers \cup {Free}
<1>1. upd[w].end \in Ends
  BY DEF TypeOK
<1>2. upd' \in [Callers -> Call]
  BY NextEndFields DEF Relink
<1> QED BY <1>1, <1>2 DEF Relink, TypeOK

(* A call that still has no answer. *)
LEMMA WaitsType ==
  ASSUME TypeOK, NEW w \in Callers, Waits(w) \/ UpdateSpins(w)
  PROVE  /\ upd' \in [Callers -> Call]
         /\ link' \in [Ends -> 0 .. N]
         /\ freed' \subseteq {e \in Ends : link'[e] # 0}
         /\ kept' \subseteq Ends
         /\ rls_lock' \in Callers \cup {Free}
<1>1. upd' \in [Callers -> Call]
  BY ProgressFields DEF Waits, UpdateSpins, Progress
<1> QED BY <1>1 DEF Waits, UpdateSpins, TypeOK

(* The steps of update for one end keep the types. *)
LEMMA UpdateType ==
  ASSUME TypeOK, NEW w \in Callers, UpdateStep(w) \/ LinkReady(w)
  PROVE  TypeOK'
<1>0. upd[w] \in Call /\ upd[w].end \in Ends /\ upd[w].kids \subseteq Servers
  BY DEF TypeOK, Call
<1>1. CASE GetNode(w)
  <2>1. upd' \in [Callers -> Call]
    BY <1>1, ProgressFields, NextEndFields DEF GetNode, Progress
  <2>2. faults' \in 0 .. MaxFaults
    BY <1>1, FailCounts DEF GetNode, FailsIf, TypeOK
  <2>3. kept' \subseteq Ends
    BY <1>0, <1>1 DEF GetNode, TypeOK
  <2> QED BY <1>1, <2>1, <2>2, <2>3
          DEF GetNode, zookeeper, sigint, TypeOK, Call
<1>2. CASE DropLink(w)
  <2>1. upd' \in [Callers -> Call]
    BY <1>2, ProgressFields DEF DropLink, Progress
  <2>2. freed' \subseteq {e \in Ends : link[e] # 0}
    BY <1>0, <1>2 DEF DropLink, FreeLink, TypeOK
  <2>3. main' \in {main, "undefined"}
    BY <1>2 DEF DropLink, FreeLink
  <2> QED BY <1>2, <2>1, <2>2, <2>3
          DEF DropLink, zookeeper, sigint, TypeOK, Call
<1>3. ASSUME ConnectLink(w) \/ LinkReady(w)
      PROVE  (\E t \in 0 .. N : Relink(w, t)) \/ Waits(w) \/ UpdateSpins(w)
  <2>1. \A t \in upd[w].kids : t \in 0 .. N
    BY <1>0, ClientAssumption DEF Servers
  <2>2. 0 \in 0 .. N
    BY ClientAssumption
  <2> QED BY <1>3, <2>1, <2>2 DEF ConnectLink, LinkReady
<1>4. ASSUME ConnectLink(w) \/ LinkReady(w)
      PROVE  /\ upd' \in [Callers -> Call]
             /\ link' \in [Ends -> 0 .. N]
             /\ freed' \subseteq {e \in Ends : link'[e] # 0}
             /\ kept' \subseteq Ends
             /\ rls_lock' \in Callers \cup {Free}
  BY <1>3, <1>4, RelinkType, WaitsType
<1>5. CASE ConnectLink(w)
  <2>1. /\ shutdown' \in BOOLEAN /\ eintr' \subseteq Callers
        /\ signals' \in 0 .. MaxSignals
    BY <1>5, SigintType DEF ConnectLink, sigint, TypeOK
  <2> QED BY <1>4, <1>5, <2>1 DEF ConnectLink, zookeeper, TypeOK, Call
<1>6. CASE LinkReady(w)
  <2>1. faults' \in 0 .. MaxFaults
    BY <1>6, FailCounts DEF LinkReady, TypeOK
  <2>2. ebusy' \in BOOLEAN
    BY <1>6 DEF LinkReady, TypeOK
  <2> QED BY <1>4, <1>6, <2>1, <2>2
          DEF LinkReady, zookeeper, sigint, TypeOK, Call
<1> QED BY <1>1, <1>2, <1>5, <1>6 DEF UpdateStep

(* The rest of the main thread, its user and its signals. *)
MainMove ==
  \/ MainStep \/ CommandReturns \/ CommandSpins
  \/ \E e \in Ends : Command(e)
  \/ Quit \/ Signal

LEMMA MainType ==
  ASSUME TypeOK, MainMove
  PROVE  TypeOK'
<1>1. CASE Start
  BY <1>1, BeginType
<1>2. CASE CheckLinks
  BY <1>2 DEF CheckLinks, TypeOK, zookeeper, links, sigint
<1>3. CASE TakeLock
  BY <1>3 DEF TakeLock, TypeOK, zookeeper, links, sigint, Callers
<1>4. CASE CommandReturns
  BY <1>4 DEF CommandReturns, TypeOK, zookeeper, links, sigint, Ends
<1>5. CASE FreeHead \/ FreeTail
  <2>1. /\ freed' \subseteq {e \in Ends : link[e] # 0}
        /\ main' \in {"free tail", "closing", "undefined"}
    BY <1>5 DEF FreeHead, FreeTail, FreeLink, TypeOK, Ends
  <2> QED BY <1>5, <2>1 DEF FreeHead, FreeTail, TypeOK, zookeeper, sigint
<1>6. CASE zoo_clean_client
  BY <1>6 DEF zoo_clean_client, TypeOK, zookeeper, links, sigint
<1>7. ASSUME NEW e \in Ends, Command(e) PROVE TypeOK'
  <2>1. cmds' \in 0 .. MaxCmds
    BY <1>7, ClientAssumption DEF Command, TypeOK
  <2> QED BY <1>7, <2>1 DEF Command, TypeOK, zookeeper, links, sigint
<1>8. CASE Quit \/ CommandSpins
  BY <1>8 DEF Quit, CommandSpins, TypeOK, zookeeper, links, sigint
<1>9. CASE Signal
  <2>1. PICK ws \in SUBSET Callers : Sigint(ws)
    BY <1>9 DEF Signal, Callers
  <2> QED BY <1>9, <2>1, SigintType DEF Signal, TypeOK, zookeeper, links
<1> QED BY <1>1, <1>2, <1>3, <1>4, <1>5, <1>6, <1>7, <1>8, <1>9
        DEF MainMove, MainStep

(* What a server or ZooKeeper may do. *)
ServerMove ==
  \E t \in Servers : Join(t) \/ Serve(t) \/ Leave(t) \/ Expire(t)

(* It touches nothing of the client's. *)
LEMMA MoveType ==
  ASSUME TypeOK, ServerMove
  PROVE  TypeOK'
<1> SUFFICES ASSUME NEW t \in Servers,
                    Join(t) \/ Serve(t) \/ Leave(t) \/ Expire(t)
             PROVE  TypeOK'
  BY DEF ServerMove
<1>1. UNCHANGED client
  BY DEF Join, Serve, Leave, Expire
<1>2. server' \in [Servers -> {"new", "joining", "serving", "gone"}]
  BY DEF Join, Serve, Leave, Expire, TypeOK
<1>3. children' \subseteq Servers
  BY DEF Join, Serve, Leave, Expire, SetChildren, TypeOK, zookeeper
<1>4. watch' \in BOOLEAN /\ event' \in BOOLEAN
  BY DEF Join, Serve, Leave, Expire, SetChildren, TypeOK, zookeeper
<1>5. faults' \in 0 .. MaxFaults
  BY FailCounts DEF Join, Serve, Leave, Expire, FailsIf, TypeOK
<1> QED BY <1>1, <1>2, <1>3, <1>4, <1>5 DEF client, links, sigint, TypeOK

-----------------------------------------------------------------------------
(* The lock and the links it protects *)

LockInv == LocksFit /\ FreedOnlyUnderLock

(* Nobody replaces a link while rls_lock is free or with a command. *)
LEMMA NobodyReplaces ==
  ASSUME LockInv,
         rls_lock = Free \/ main \in {"command", "spin"}
  PROVE  /\ \A w \in Callers : upd[w].pc \notin Connecting
         /\ Running /\ ~ Quitting => freed = {}
<1>1. \A w \in Callers :
        rls_lock = w => w = Main /\ main \in {"command", "spin"}
  BY ClientAssumption DEF LockInv, LocksFit
<1>2. main \in {"command", "spin"} => upd[Main].pc \notin Connecting
  BY DEF LockInv, LocksFit, Connecting
<1>3. \A w \in Callers : upd[w].pc \notin Connecting
  BY <1>1, <1>2 DEF LockInv, LocksFit
<1> QED BY <1>3 DEF LockInv, FreedOnlyUnderLock, TypeOK

(* A call that begins, or reads its znode, replaces no link yet. *)
LEMMA LookLock ==
  ASSUME TypeOK, LockInv,
         Start \/ child_watcher \/ (\E w \in Callers : GetNode(w))
  PROVE  LockInv'
<1>1. ASSUME NEW w \in Callers, upd[w].pc \notin Connecting,
             UNCHANGED <<rls_lock, freed>>,
             \A v \in Callers \ {w} : upd'[v] = upd[v],
             upd'[w].pc \notin Connecting,
             \/ UNCHANGED main
             \/ main = "start" /\ main' \in {"update", "closing"},
             w = Main /\ upd'[w].pc # "idle" => main' \in {"update", "undefined"}
      PROVE  LockInv'
  <2>1. \A v \in Callers :
          upd[v].pc \in Connecting <=> upd'[v].pc \in Connecting
    BY <1>1
  <2>2. \A v \in Callers : upd[v].pc \in Connecting => upd'[v] = upd[v]
    BY <1>1
  <2>3. upd'[Main].pc # "idle" => main' \in {"update", "undefined"}
    <3>1. CASE w = Main
      BY <1>1, <3>1
    <3>2. CASE w # Main
      BY <1>1, <3>2 DEF Callers, LockInv, LocksFit
    <3> QED BY <3>1, <3>2
  <2>4. LocksFit'
    BY <1>1, <2>1, <2>3 DEF LockInv, LocksFit
  <2>5. Running' /\ ~ Quitting' => Running /\ ~ Quitting
    BY <1>1 DEF Running, Quitting
  <2>6. FreedOnlyUnderLock'
    BY <1>1, <2>2, <2>5 DEF LockInv, FreedOnlyUnderLock
  <2> QED BY <2>4, <2>6 DEF LockInv
<1>2. Main \in Callers /\ Zk \in Callers /\ Main # Zk
  BY ClientAssumption DEF Callers
<1>3. /\ Idle.pc \notin Connecting
      /\ "idle" \notin Connecting /\ "get" \notin Connecting
      /\ "lock" \notin Connecting
  BY DEF Idle, Connecting
<1>4. CASE Start
  <2>1. /\ main = "start" /\ main' \in {"update", "closing"}
        /\ UNCHANGED <<rls_lock, freed>>
    BY <1>4 DEF Start, links
  <2>2. upd[Main].pc = "idle"
    BY <2>1 DEF LockInv, LocksFit
  <2>3. CASE Begin(Main) /\ main' = "update"
    <3>1. upd'[Main].pc \notin Connecting
      BY <1>2, <1>3, <2>3, BeginFields
    <3> QED BY <1>1, <1>2, <1>3, <2>1, <2>2, <2>3, <3>1, BeginFields
  <2>4. CASE UNCHANGED upd
    BY <1>1, <1>2, <1>3, <2>1, <2>2, <2>4
  <2> QED BY <1>4, <2>3, <2>4 DEF Start
<1>5. CASE child_watcher
  <2>1. /\ upd[Zk].pc = "idle" /\ UNCHANGED <<main, rls_lock, freed>>
    BY <1>5 DEF child_watcher, links
  <2>2. CASE Begin(Zk)
    <3>1. upd'[Zk].pc \notin Connecting
      BY <1>2, <1>3, <2>2, BeginFields
    <3> QED BY <1>1, <1>2, <1>3, <2>1, <2>2, <3>1, BeginFields
  <2>3. CASE UNCHANGED upd
    BY <1>1, <1>2, <1>3, <2>1, <2>3
  <2> QED BY <1>5, <2>2, <2>3 DEF child_watcher
<1>6. ASSUME NEW w \in Callers, GetNode(w) PROVE LockInv'
  <2>1. /\ upd[w].pc = "get" /\ UNCHANGED <<main, rls_lock, freed>>
    BY <1>6 DEF GetNode
  <2>2. w = Main => main' \in {"update", "undefined"}
    BY <2>1 DEF LockInv, LocksFit
  <2>3. CASE upd' = [upd EXCEPT ![w].pc = "lock"]
    BY <1>1, <1>3, <2>1, <2>2, <2>3, ProgressFields
  <2>4. CASE NextEnd(w)
    <3>1. upd[w].end \in {"head", "tail"}
      BY DEF TypeOK, Ends
    <3>2. upd'[w].pc \notin Connecting
      BY <1>3, <2>4, <3>1, NextEndFields
    <3> QED BY <1>1, <1>3, <2>1, <2>2, <2>4, <3>2, NextEndFields
  <2> QED BY <1>6, <2>3, <2>4 DEF GetNode
<1> QED BY <1>4, <1>5, <1>6

(* rlist_disconnect: the lock was free, so no link was freed before. *)
LEMMA DropLock ==
  ASSUME TypeOK, LockInv, NEW w \in Callers, DropLink(w)
  PROVE  LockInv'
<1>1. /\ upd[w].pc = "lock" /\ rls_lock = Free /\ rls_lock' = w
      /\ main' \in {main, "undefined"}
      /\ freed' \subseteq freed \cup {upd[w].end}
  BY DEF DropLink, FreeLink
<1>2. /\ \A v \in Callers \ {w} : upd'[v] = upd[v]
      /\ upd'[w].pc = "connect" /\ upd'[w].end = upd[w].end
  BY ProgressFields DEF DropLink, Progress
<1>3. /\ \A v \in Callers : upd[v].pc \notin Connecting
      /\ Running /\ ~ Quitting => freed = {}
  BY <1>1, NobodyReplaces
<1>4. main \notin {"command", "spin"}
  BY <1>1, ClientAssumption DEF LockInv, LocksFit, Callers
<1>5. upd'[Main].pc # "idle" => main' \in {"update", "undefined"}
  <2>1. upd'[Main].pc # "idle" => upd[Main].pc # "idle"
    BY <1>1, <1>2 DEF Callers
  <2> QED BY <1>1, <2>1 DEF LockInv, LocksFit
<1>6. LocksFit'
  BY <1>1, <1>2, <1>3, <1>4, <1>5 DEF LocksFit
<1>7. FreedOnlyUnderLock'
  BY <1>1, <1>2, <1>3 DEF FreedOnlyUnderLock, Running, Quitting, Connecting
<1> QED BY <1>6, <1>7 DEF LockInv

(* The new link: the pointer to the freed one is gone when the lock is. *)
LEMMA RelinkLock ==
  ASSUME TypeOK, LockInv, NEW w \in Callers, upd[w].pc \in Connecting,
         NEW t, Relink(w, t), UNCHANGED main
  PROVE  LockInv'
<1>1. /\ rls_lock = w /\ freed' = freed \ {upd[w].end}
  BY DEF Relink, LockInv, LocksFit
<1>2. /\ \A v \in Callers \ {w} : upd'[v] = upd[v]
      /\ upd'[w].pc \notin Connecting
  <2>1. upd[w].end \in {"head", "tail"} /\ NextEnd(w)
    BY DEF Relink, TypeOK, Ends
  <2> QED BY <2>1, NextEndFields DEF Connecting
<1>3. \A v \in Callers \ {w} : upd[v].pc \notin Connecting
  BY <1>1 DEF LockInv, LocksFit
<1>4. main \notin {"command", "spin"}
  BY NobodyReplaces
<1>5. upd'[Main].pc # "idle" => main' \in {"update", "undefined"}
  <2>1. upd'[Main].pc # "idle" => upd[Main].pc # "idle"
    BY <1>2 DEF Callers, Connecting
  <2> QED BY <2>1 DEF LockInv, LocksFit
<1>6. LocksFit'
  BY <1>2, <1>3, <1>4, <1>5 DEF LocksFit
<1>7. Running /\ ~ Quitting => freed' = {}
  BY <1>1, <1>3 DEF LockInv, FreedOnlyUnderLock
<1>8. FreedOnlyUnderLock'
  BY <1>7 DEF FreedOnlyUnderLock, Running, Quitting
<1> QED BY <1>6, <1>8 DEF LockInv

(* While rlist_connect waits the lock and the pointers are as they were. *)
LEMMA WaitsLock ==
  ASSUME TypeOK, LockInv, NEW w \in Callers, upd[w].pc \in Connecting,
         Waits(w) \/ UpdateSpins(w), UNCHANGED main
  PROVE  LockInv'
<1>1. /\ UNCHANGED <<rls_lock, freed>>
      /\ \A v \in Callers \ {w} : upd'[v] = upd[v]
      /\ upd'[w].pc \in Connecting /\ upd'[w].end = upd[w].end
  BY ProgressFields DEF Waits, UpdateSpins, Progress, Connecting
<1>2. \A v \in Callers :
        /\ upd'[v].pc \in Connecting <=> upd[v].pc \in Connecting
        /\ upd'[v].end = upd[v].end
  BY <1>1
<1>3. upd'[Main].pc # "idle" => upd[Main].pc # "idle"
  BY <1>1 DEF Callers, Connecting
<1>4. LocksFit'
  BY <1>1, <1>2, <1>3 DEF LockInv, LocksFit
<1>5. FreedOnlyUnderLock'
  BY <1>1, <1>2 DEF LockInv, FreedOnlyUnderLock, Running, Quitting
<1> QED BY <1>4, <1>5 DEF LockInv

LEMMA ConnectLock ==
  ASSUME TypeOK, LockInv, NEW w \in Callers, ConnectLink(w) \/ LinkReady(w)
  PROVE  LockInv'
<1>1. upd[w].pc \in Connecting /\ UNCHANGED main
  BY DEF ConnectLink, LinkReady, Connecting
<1>2. (\E t : Relink(w, t)) \/ Waits(w) \/ UpdateSpins(w)
  BY DEF ConnectLink, LinkReady
<1> QED BY <1>1, <1>2, RelinkLock, WaitsLock

(* The rest of the main thread: a command takes the lock and gives it back. *)
LEMMA MainLock ==
  ASSUME TypeOK, LockInv, MainMove
  PROVE  LockInv'
<1>1. CASE Start
  BY <1>1, LookLock
<1>2. CASE \/ CheckLinks \/ Quit \/ FreeHead \/ FreeTail \/ zoo_clean_client
           \/ \E e \in Ends : Command(e)
  <2>1. UNCHANGED <<upd, rls_lock>> /\ main' \notin {"command", "spin"}
    BY <1>2 DEF CheckLinks, Quit, FreeHead, FreeTail, FreeLink,
       zoo_clean_client, Command
  <2>2. upd[Main].pc = "idle"
    BY <1>2 DEF CheckLinks, Quit, FreeHead, FreeTail, zoo_clean_client,
       Command, LockInv, LocksFit
  <2>3. LocksFit'
    BY <2>1, <2>2 DEF LockInv, LocksFit
  <2>4. Running' /\ ~ Quitting' =>
          Running /\ ~ Quitting /\ UNCHANGED freed
    BY <1>2 DEF CheckLinks, Quit, FreeHead, FreeTail, FreeLink,
       zoo_clean_client, Command, Running, Quitting, links
  <2>5. FreedOnlyUnderLock'
    BY <2>1, <2>4 DEF LockInv, FreedOnlyUnderLock
  <2> QED BY <2>3, <2>5 DEF LockInv
<1>3. CASE TakeLock \/ CommandReturns \/ CommandSpins
  <2>1. /\ rls_lock = Free \/ main \in {"command", "spin"}
        /\ main \in {"want", "command"} /\ UNCHANGED <<upd, freed>>
        /\ main' = "command" => rls_lock' = Main
        /\ main' = "spin" => main = "command" /\ UNCHANGED rls_lock
    BY <1>3 DEF TakeLock, CommandReturns, CommandSpins, links
  <2>2. /\ \A v \in Callers : upd[v].pc \notin Connecting
        /\ freed = {}
    BY <2>1, NobodyReplaces DEF Running, Quitting
  <2>3. upd[Main].pc = "idle"
    BY <2>1 DEF LockInv, LocksFit
  <2>4. main = "command" => rls_lock = Main
    BY DEF LockInv, LocksFit
  <2>5. LocksFit'
    BY <2>1, <2>2, <2>3, <2>4 DEF LocksFit
  <2>6. FreedOnlyUnderLock'
    BY <2>1, <2>2 DEF FreedOnlyUnderLock
  <2> QED BY <2>5, <2>6 DEF LockInv
<1>4. CASE Signal
  BY <1>4 DEF Signal, links, LockInv, LocksFit, FreedOnlyUnderLock, Running,
     Quitting
<1> QED BY <1>1, <1>2, <1>3, <1>4 DEF MainMove, MainStep

(* A step that is not the client's. *)
LEMMA MoveLock ==
  ASSUME LockInv, UNCHANGED <<main, upd, rls_lock, freed>>
  PROVE  LockInv'
BY DEF LockInv, LocksFit, FreedOnlyUnderLock, Running, Quitting

-----------------------------------------------------------------------------
(* Snapshots *)

SnapInv == SnapshotIsCurrent /\ DoneIsCurrent

(* A step that neither looks at /chain nor relinks, nor changes /chain. *)
LEMMA SnapStays ==
  ASSUME SnapInv, UNCHANGED <<zookeeper, upd, link, kept, overlap>>,
         main' # "start" \/ UNCHANGED main
  PROVE  SnapInv'
<1>1. UNCHANGED <<children, watch, event>>
  BY DEF zookeeper
<1>2. \A w \in Callers, e \in Ends : Due(w, e)' <=> Due(w, e)
  BY DEF Due
<1>3. SnapshotIsCurrent'
  BY <1>1 DEF SnapInv, SnapshotIsCurrent
<1>4. DoneIsCurrent'
  BY <1>1, <1>2 DEF SnapInv, DoneIsCurrent
<1> QED BY <1>3, <1>4 DEF SnapInv

(* A change of /chain makes the watch fire. *)
LEMMA SnapChanges ==
  ASSUME SnapInv, NEW kids, SetChildren(kids), UNCHANGED <<main, upd, overlap>>
  PROVE  SnapInv'
BY DEF SnapInv, SnapshotIsCurrent, DoneIsCurrent, SetChildren

(* A new snapshot, when no other call is under way: each end is due. *)
LEMMA SnapBegins ==
  ASSUME TypeOK, NEW w \in Callers, Begin(w), main' # "start",
         UNCHANGED children,
         ~ overlap' => \A v \in Callers \ {w} : upd[v].pc = "idle"
  PROVE  SnapInv'
<1>1. \A v \in Callers \ {w} : upd'[v] = upd[v]
  BY BeginFields
<1>2. children = {} => upd'[w].pc = "idle"
  BY BeginFields DEF Idle
<1>3. children # {} => /\ upd'[w].pc = "get" /\ upd'[w].end = "head"
                       /\ upd'[w].kids = children
  BY BeginFields
<1>4. SnapshotIsCurrent'
  <2>1. ~ overlap' => upd'[Main].pc = "idle" \/ upd'[Zk].pc = "idle"
    <3>1. Main # Zk /\ Main \in Callers /\ Zk \in Callers
      BY ClientAssumption DEF Callers
    <3> QED BY <1>1, <3>1
  <2>2. ~ overlap' => \A v \in Callers :
          upd'[v].pc # "idle" => upd'[v].kids = children'
    BY <1>1, <1>2, <1>3
  <2> QED BY <2>1, <2>2 DEF SnapshotIsCurrent
<1>5. children # {} => \A e \in Ends : Due(w, e)'
  BY <1>3 DEF Due
<1>6. DoneIsCurrent'
  BY <1>5 DEF DoneIsCurrent
<1> QED BY <1>4, <1>6 DEF SnapInv

(* zoo_init_client and the callback. *)
LEMMA BeginSnap ==
  ASSUME TypeOK, LockInv, SnapInv, Start \/ child_watcher
  PROVE  SnapInv'
<1>0. Main \in Callers /\ Zk \in Callers /\ Callers \ {Main} = {Zk}
      /\ Callers \ {Zk} = {Main}
  BY ClientAssumption DEF Callers
<1>1. CASE Start
  <2>1. main = "start" /\ main' # "start" /\ UNCHANGED children
        /\ upd[Zk].pc = "idle"
    BY <1>0, <1>1 DEF Start, SnapInv, SnapshotIsCurrent
  <2>2. CASE Begin(Main)
    BY <1>0, <2>1, <2>2, SnapBegins
  <2>3. CASE UNCHANGED <<watch, upd>>
    <3>1. UNCHANGED <<zookeeper, upd, link, kept, overlap>>
      BY <1>1, <2>3 DEF Start, links, zookeeper
    <3> QED BY <2>1, <3>1, SnapStays
  <2> QED BY <1>1, <2>2, <2>3 DEF Start
<1>2. CASE child_watcher
  <2>1. /\ main # "start" /\ UNCHANGED <<main, children>> /\ event
        /\ main # "undefined"
    BY <1>2 DEF child_watcher, SnapInv, SnapshotIsCurrent, Running
  <2>2. CASE /\ Begin(Zk)
             /\ overlap' = (main = "update" /\ upd[Main].pc # "idle")
    <3>1. ~ overlap' => upd[Main].pc = "idle"
      BY <2>1, <2>2 DEF LockInv, LocksFit
    <3> QED BY <1>0, <2>1, <2>2, <3>1, SnapBegins
  <2>3. CASE UNCHANGED <<watch, upd, overlap>>
    <3>1. UNCHANGED <<link, kept>>
      BY <1>2 DEF child_watcher, links
    <3>2. \A w \in Callers, e \in Ends : Due(w, e)' <=> Due(w, e)
      BY <2>3 DEF Due
    <3>3. SnapshotIsCurrent'
      BY <2>1, <2>3 DEF SnapInv, SnapshotIsCurrent
    <3>4. DoneIsCurrent'
      BY <2>1, <2>3, <3>1, <3>2 DEF SnapInv, DoneIsCurrent
    <3> QED BY <3>3, <3>4 DEF SnapInv
  <2> QED BY <1>2, <2>2, <2>3 DEF child_watcher
<1> QED BY <1>1, <1>2

(* A step of a call for its end leaves the other end as due as it was; it  *)
(* may leave its own end done if that has no link of an older snapshot.    *)
LEMMA SnapUpdates ==
  ASSUME TypeOK, SnapInv, NEW w \in Callers, upd[w].pc # "idle",
         NEW x \in Ends, upd[w].end = x,
         UNCHANGED <<zookeeper, overlap>>, UNCHANGED main \/ main' # "start",
         (\E p \in Progress : upd' = [upd EXCEPT ![w].pc = p]) \/ NextEnd(w),
         \A e \in Ends \ {x} :
           link'[e] = link[e] /\ (e \in kept' <=> e \in kept),
         \/ Due(w, x)'
         \/ x \in kept'
         \/ link'[x] # 0 => IsEnd(x, upd[w].kids, link'[x])
  PROVE  SnapInv'
<1>0. upd[w].end \in {"head", "tail"} /\ Ends = {"head", "tail"}
      /\ UNCHANGED <<children, watch, event>>
  BY DEF TypeOK, Ends, zookeeper
<1>1. /\ \A v \in Callers \ {w} : upd'[v] = upd[v]
      /\ upd'[w].pc # "idle" => upd'[w].kids = upd[w].kids
  <2>1. CASE \E p \in Progress : upd' = [upd EXCEPT ![w].pc = p]
    BY <2>1, ProgressFields
  <2>2. CASE NextEnd(w)
    BY <1>0, <2>2, NextEndFields
  <2> QED BY <2>1, <2>2
<1>2. \A e \in Ends \ {x} : Due(w, e)' <=> Due(w, e)
  <2>1. CASE \E p \in Progress : upd' = [upd EXCEPT ![w].pc = p]
    <3>1. upd'[w].pc # "idle" /\ upd'[w].end = upd[w].end
      BY <2>1, ProgressFields DEF Progress
    <3> QED BY <3>1 DEF Due
  <2>2. CASE NextEnd(w) /\ upd[w].end = "head"
    <3>1. upd'[w].pc # "idle" /\ upd'[w].end = "tail"
      BY <2>2, NextEndFields
    <3> QED BY <1>0, <2>2, <3>1 DEF Due
  <2>3. CASE NextEnd(w) /\ upd[w].end = "tail"
    <3>1. upd'[w].pc = "idle"
      BY <2>3, NextEndFields
    <3> QED BY <1>0, <2>3, <3>1 DEF Due
  <2> QED BY <1>0, <2>1, <2>2, <2>3
<1>3. \A v \in Callers \ {w}, e \in Ends : Due(v, e)' <=> Due(v, e)
  BY <1>1 DEF Due
<1>4. main # "start" /\ main' # "start"
  BY DEF SnapInv, SnapshotIsCurrent
<1>5. SnapshotIsCurrent'
  <2>1. \A v \in Callers : upd[v].pc = "idle" => upd'[v].pc = "idle"
    BY <1>1
  <2>2. Main \in Callers /\ Zk \in Callers
    BY DEF Callers
  <2>3. ~ overlap' => upd'[Main].pc = "idle" \/ upd'[Zk].pc = "idle"
    BY <2>1, <2>2 DEF SnapInv, SnapshotIsCurrent
  <2>4. watch' /\ ~ overlap' => \A v \in Callers :
          upd'[v].pc # "idle" => upd'[v].kids = children'
    BY <1>0, <1>1 DEF SnapInv, SnapshotIsCurrent
  <2> QED BY <1>4, <2>3, <2>4 DEF SnapshotIsCurrent
<1>6. DoneIsCurrent'
  <2> SUFFICES ASSUME watch', ~ overlap', children' # {},
                      NEW e \in Ends, e \notin kept',
                      \A v \in Callers : ~ Due(v, e)', link'[e] # 0
               PROVE  IsEnd(e, children', link'[e])
    BY DEF DoneIsCurrent, IsEnd
  <2>1. CASE e = x
    <3>1. upd[w].kids = children'
      BY <1>0 DEF SnapInv, SnapshotIsCurrent
    <3> QED BY <2>1, <3>1
  <2>2. CASE e # x
    <3>1. \A v \in Callers : ~ Due(v, e)
      BY <1>2, <1>3, <2>2
    <3>2. link'[e] = link[e] /\ e \notin kept
      BY <2>2
    <3> QED BY <1>0, <3>1, <3>2 DEF SnapInv, DoneIsCurrent
  <2> QED BY <2>1, <2>2
<1> QED BY <1>5, <1>6 DEF SnapInv

(* A new link is the end of the snapshot, or none. *)
LEMMA RelinkSnap ==
  ASSUME TypeOK, SnapInv, NEW w \in Callers, upd[w].pc # "idle",
         UNCHANGED <<zookeeper, overlap, main>>, NEW t, Relink(w, t),
         t # 0 => IsEnd(upd[w].end, upd[w].kids, t)
  PROVE  SnapInv'
<1>0. PICK x \in Ends : upd[w].end = x
  BY DEF TypeOK
<1>1. NextEnd(w) /\ kept' = kept \ {x} /\ link' = [link EXCEPT ![x] = t]
  BY <1>0 DEF Relink
<1>2. x \in DOMAIN link /\ DOMAIN link = Ends
  BY DEF TypeOK
<1>3. link'[x] = t /\ \A e \in Ends \ {x} : link'[e] = link[e]
  BY <1>1, <1>2
<1>4. link'[x] # 0 => IsEnd(x, upd[w].kids, link'[x])
  BY <1>0, <1>3
<1>5. \A e \in Ends \ {x} :
        link'[e] = link[e] /\ (e \in kept' <=> e \in kept)
  BY <1>1, <1>3
<1>6. UNCHANGED <<zookeeper, overlap>> /\ UNCHANGED main
  OBVIOUS
<1> QED BY ONLY TypeOK, SnapInv, w \in Callers, upd[w].pc # "idle", x \in Ends,
                <1>0, <1>1, <1>4, <1>5, <1>6, SnapUpdates

(* A step of a call that leaves its end to be dealt with. *)
LEMMA StillDue ==
  ASSUME TypeOK, SnapInv, NEW w \in Callers, upd[w].pc # "idle",
         UNCHANGED <<zookeeper, overlap, link, kept>>,
         UNCHANGED main \/ main' # "start",
         NEW p \in Progress, upd' = [upd EXCEPT ![w].pc = p]
  PROVE  SnapInv'
<1>0. PICK x \in Ends : upd[w].end = x
  BY DEF TypeOK
<1>1. upd'[w].pc = p /\ upd'[w].end = x
  BY <1>0, ProgressFields
<1>2. Due(w, x)'
  BY <1>1 DEF Due, Ends, Progress
<1> QED BY <1>0, <1>2, SnapUpdates

(* The steps of update for one end. *)
LEMMA UpdateSnap ==
  ASSUME TypeOK, SnapInv, NEW w \in Callers, UpdateStep(w) \/ LinkReady(w)
  PROVE  SnapInv'
<1>0. PICK x \in Ends : upd[w].end = x
  BY DEF TypeOK
<1>1. CASE GetNode(w)
  <2>1. /\ upd[w].pc # "idle" /\ UNCHANGED <<zookeeper, overlap, main, link>>
    BY <1>1 DEF GetNode
  <2>2. CASE upd' = [upd EXCEPT ![w].pc = "lock"] /\ UNCHANGED kept
    BY <2>1, <2>2, StillDue DEF Progress
  <2>3. CASE NextEnd(w) /\ kept' = kept \cup {x}
    BY <1>0, <2>1, <2>3, SnapUpdates
  <2> QED BY <1>0, <1>1, <2>2, <2>3 DEF GetNode
<1>2. CASE DropLink(w)
  <2>1. /\ upd[w].pc # "idle" /\ UNCHANGED <<zookeeper, overlap, link, kept>>
        /\ UNCHANGED main \/ main' # "start"
        /\ upd' = [upd EXCEPT ![w].pc = "connect"]
    BY <1>2 DEF DropLink, FreeLink
  <2> QED BY <2>1, StillDue DEF Progress
<1>3. CASE ConnectLink(w) \/ LinkReady(w)
  <2>1. upd[w].pc # "idle" /\ UNCHANGED <<zookeeper, overlap, main>>
    BY <1>3 DEF ConnectLink, LinkReady
  <2>2. CASE \E t \in upd[w].kids :
               IsEnd(upd[w].end, upd[w].kids, t) /\ Relink(w, t)
    BY <2>1, <2>2, RelinkSnap
  <2>3. CASE Relink(w, 0)
    BY <2>1, <2>3, RelinkSnap
  <2>4. CASE Waits(w) \/ UpdateSpins(w)
    BY <2>1, <2>4, StillDue DEF Waits, UpdateSpins, Progress
  <2> QED BY <1>3, <2>2, <2>3, <2>4 DEF ConnectLink, LinkReady
<1> QED BY <1>1, <1>2, <1>3 DEF UpdateStep

-----------------------------------------------------------------------------
(* The invariant *)

(* The program starts without links, locks or calls. *)
LEMMA ClientInit == Init => TypeOK /\ LockInv /\ SnapInv
<1> SUFFICES ASSUME Init PROVE TypeOK /\ LockInv /\ SnapInv
  OBVIOUS
<1>1. /\ main = "start" /\ upd = [w \in Callers |-> Idle] /\ rls_lock = Free
      /\ freed = {} /\ kept = {} /\ link = [e \in Ends |-> 0]
      /\ children = 1 .. Boot /\ faults = 0 /\ cmds = 0 /\ on = "head"
  BY DEF Init
<1>2. watch = FALSE /\ event = FALSE /\ ebusy = FALSE /\ overlap = FALSE
  BY Zenon DEF Init
<1>3. Idle \in Call /\ Idle.pc = "idle"
  BY DEF Idle, Call, Ends
<1>4. \A w \in Callers : upd[w].pc = "idle"
  BY <1>1, <1>3
<1>5. TypeOK
  <2>1. upd \in [Callers -> Call] /\ link \in [Ends -> 0 .. N]
    <3>1. 0 \in 0 .. N
      BY ClientAssumption
    <3> QED BY <1>1, <1>3, <3>1
  <2>2. server \in [Servers -> {"new", "joining", "serving", "gone"}]
    BY DEF Init
  <2>3. children \subseteq Servers
    BY <1>1, ClientAssumption DEF Servers
  <2>4. faults \in 0 .. MaxFaults /\ cmds \in 0 .. MaxCmds
    BY <1>1, ClientAssumption
  <2>5. watch \in BOOLEAN /\ event \in BOOLEAN /\ ebusy \in BOOLEAN
        /\ overlap \in BOOLEAN
    BY <1>2
  <2>6. /\ shutdown \in BOOLEAN /\ eintr \subseteq Callers
        /\ signals \in 0 .. MaxSignals
    <3>1. shutdown = FALSE
      BY Zenon DEF Init
    <3>2. eintr = {} /\ signals = 0
      BY DEF Init
    <3>3. 0 \in 0 .. MaxSignals
      BY ClientAssumption
    <3> QED BY <3>1, <3>2, <3>3
  <2> QED BY <1>1, <2>1, <2>2, <2>3, <2>4, <2>5, <2>6 DEF TypeOK, Call, Ends
<1>6. LockInv
  <2>1. upd[Main].pc = "idle"
    BY <1>4 DEF Callers
  <2> QED BY <1>1, <1>4, <2>1
          DEF LockInv, LocksFit, FreedOnlyUnderLock, Connecting
<1>7. SnapInv
  <2>1. upd[Main].pc = "idle"
    BY <1>4 DEF Callers
  <2> QED BY <1>2, <1>4, <2>1 DEF SnapInv, SnapshotIsCurrent, DoneIsCurrent
<1> QED BY <1>5, <1>6, <1>7

(* Every step of the client, the servers and ZooKeeper keeps it. *)
LEMMA ClientNext ==
  TypeOK /\ LockInv /\ SnapInv /\ [Next]_vars
    => TypeOK' /\ LockInv' /\ SnapInv'
<1> SUFFICES ASSUME TypeOK, LockInv, SnapInv, [Next]_vars
             PROVE  TypeOK' /\ LockInv' /\ SnapInv'
  OBVIOUS
<1>1. CASE Start \/ child_watcher
  BY <1>1, BeginType, LookLock, BeginSnap
<1>2. ASSUME NEW w \in Callers, UpdateStep(w) \/ LinkReady(w)
      PROVE  TypeOK' /\ LockInv' /\ SnapInv'
  <2>1. LockInv'
    BY <1>2, LookLock, DropLock, ConnectLock DEF UpdateStep
  <2> QED BY <1>2, <2>1, UpdateType, UpdateSnap
<1>3. CASE MainMove /\ ~ Start
  <2>1. /\ UNCHANGED <<zookeeper, upd, link, kept, overlap>>
        /\ main' # "start" \/ UNCHANGED main
    BY <1>3 DEF MainMove, MainStep, CheckLinks, TakeLock, CommandReturns,
       CommandSpins, FreeHead, FreeTail, FreeLink, zoo_clean_client, Command,
       Quit, Signal, links
  <2>2. SnapInv'
    BY <2>1, SnapStays
  <2> QED BY <1>3, <2>2, MainType, MainLock
<1>4. CASE ServerMove
  <2>1. UNCHANGED client
    BY <1>4 DEF ServerMove, Join, Serve, Leave, Expire
  <2>2. UNCHANGED <<main, upd, rls_lock, link, freed, kept, overlap>>
    BY <2>1 DEF client, links
  <2>3. UNCHANGED zookeeper \/ \E kids : SetChildren(kids)
    BY <1>4 DEF ServerMove, Join, Serve, Leave, Expire
  <2>4. SnapInv'
    BY <2>2, <2>3, SnapStays, SnapChanges
  <2> QED BY <1>4, <2>2, <2>4, MoveType, MoveLock
<1>5. CASE UNCHANGED vars
  <2>1. UNCHANGED <<zookeeper, main, upd, rls_lock, link, freed, kept, overlap>>
    BY <1>5 DEF vars, links
  <2>2. TypeOK'
    BY <1>5 DEF vars, links, zookeeper, sigint, TypeOK
  <2> QED BY <2>1, <2>2, SnapStays, MoveLock
<1>6. Next =>
        \/ MainMove \/ child_watcher \/ ServerMove
        \/ \E w \in Callers : UpdateStep(w) \/ LinkReady(w)
  BY DEF Next, MainMove, CallReturns, ExpireGone, Environment, ServerMove,
     MainStep
<1> QED BY <1>1, <1>2, <1>3, <1>4, <1>5, <1>6

(* The whole invariant holds in every behaviour. *)
LEMMA ClientAlways == Spec => [](TypeOK /\ LockInv /\ SnapInv)
BY ClientInit, ClientNext, PTL DEF Spec

(* Each variable of the client program has its type, whatever fails. *)
THEOREM ClientTypeCorrect == Spec => []TypeOK
BY ClientAlways, PTL

(* Until the program ends, a pointer to a link that rlist_disconnect freed *)
(* exists only in update_remote_list between that call and the assignment, *)
(* with rls_lock held: no link is freed twice, and no command uses one.    *)
THEOREM ClientFreesUnderLock == Spec => []FreedOnlyUnderLock
<1>1. LockInv => FreedOnlyUnderLock
  BY DEF LockInv
<1> QED BY <1>1, ClientAlways, PTL

(* No callback replaces the link that a command of list_client.c uses.     *)
THEOREM ClientCommandKeepsItsLink == Spec => CommandKeepsItsLink
<1>1. LockInv /\ SnapInv /\ [Next]_vars =>
        [main = "command" /\ main' = "command" => link'[on] = link[on]]_vars
  <2> SUFFICES ASSUME LockInv, Next, main = "command", main' = "command"
               PROVE  UNCHANGED link
    BY DEF vars
  <2>1. \A w \in Callers : upd[w].pc \notin Connecting
    BY NobodyReplaces
  <2>2. ~ Start
    BY DEF Start
  <2>3. CASE MainStep \/ CommandReturns \/ CommandSpins
    BY <2>2, <2>3 DEF MainStep, CheckLinks, TakeLock, CommandReturns,
       CommandSpins, FreeHead, FreeTail, zoo_clean_client, links
  <2>4. CASE child_watcher
    BY <2>4 DEF child_watcher, links
  <2>5. ASSUME NEW w \in Callers, UpdateStep(w) \/ LinkReady(w)
        PROVE  UNCHANGED link
    BY <2>1, <2>5 DEF UpdateStep, GetNode, DropLink, ConnectLink, LinkReady,
       Connecting
  <2>6. CASE ExpireGone \/ Environment
    BY <2>6 DEF ExpireGone, Environment, Join, Serve, Leave, Expire, Command,
       Quit, Signal, client, links
  <2> QED BY <2>3, <2>4, <2>5, <2>6 DEF Next, CallReturns
<1> QED BY <1>1, ClientAlways, PTL DEF Spec, CommandKeepsItsLink

(* A client whose watch is set and whose callback has nothing to do is     *)
(* linked to the first and the last server of /chain, or to none, unless   *)
(* zoo_get failed or the callback met zoo_init_client.                     *)
THEOREM ClientEndsAreCurrent == Spec => []EndsAreCurrent
<1>1. SnapInv => EndsAreCurrent
  <2> SUFFICES ASSUME SnapInv, Settled, ~ overlap
               PROVE  \A e \in Ends \ kept :
                        link[e] # 0 => IsEnd(e, children, link[e])
    BY DEF EndsAreCurrent
  <2>1. /\ watch /\ children # {}
        /\ \A w \in Callers, e \in Ends : ~ Due(w, e)
    BY DEF Settled, Due
  <2> QED BY <2>1 DEF SnapInv, DoneIsCurrent
<1> QED BY <1>1, ClientAlways, PTL
=============================================================================
