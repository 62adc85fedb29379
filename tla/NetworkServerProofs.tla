------------------------- MODULE NetworkServerProofs -------------------------
(***************************************************************************)
(* Proofs about module NetworkServer, for any number of connections and of *)
(* slots: the table of clients is that of the threads, and num_clients is  *)
(* the number of slots in use less the threads without a slot that ended.  *)
(*                                                                         *)
(* Both depend on a connection getting no second thread, which is what     *)
(* ConnectionsFit says, and on who has no slot having looked for one.      *)
(***************************************************************************)
EXTENDS NetworkServer, FiniteSetTheorems, TLAPS

(* TypeOK, with the range of num_clients left to CounterCountsSlots. *)
MainPlaces == {"test", "accept", "check", "create", "ready", "clean",
               "zkclose", "free", "shut", "unlock", "log", "return", "exited"}
Sees == {"new", "wait", "ready", "busy", "read", "write", "gone", "lost"}

TypeInv ==
  /\ main \in MainPlaces
  /\ cur \in Conns \cup {NULL}
  /\ shutdown \in BOOLEAN
  /\ backlog \subseteq Conns
  /\ num_clients \in Int
  /\ client_list \in [Slots -> Conns \cup {NULL}]
  /\ slotless \subseteq Conns
  /\ lock_list \in Conns \cup {NULL}
  /\ rls_lock \in Conns \cup {Zk, NULL}
  /\ upd \in {"idle", "lock", "conn"}
  /\ thr \in [Conns -> ThreadPlaces]
  /\ eintr \subseteq Conns /\ shut \subseteq Conns
  /\ client \in [Conns -> Sees]
  /\ req \in [Conns -> {"none", "read", "write"}]
  /\ inputs \in 0 .. MaxInputs /\ signals \in 0 .. MaxSignals

(* A connection that has no thread yet is in one place only: not opened, in *)
(* the backlog, or in the hands of the accept loop.                        *)
ConnectionsFit ==
  /\ \A c \in Conns : client[c] = "new" =>
       thr[c] = "none" /\ c \notin backlog /\ c # cur
  /\ \A c \in backlog : thr[c] = "none" /\ c # cur
  /\ main \in {"check", "create", "ready"} => cur \in Conns
  /\ main \in {"check", "create"} => thr[cur] = "none"

(* Who has no slot has looked for one. *)
SlotlessRan == \A c \in slotless : thr[c] \notin {"none", "start"}

TableInv == SlotlessRan /\ SlotsMatchThreads /\ CounterCountsSlots

NetInv == TypeInv /\ ConnectionsFit /\ TableInv

(* The sets that num_clients is computed from. *)
EndedSlotless == {c \in slotless : thr[c] = "ended"}

(* They are finite. *)
LEMMA CountedSets ==
  ASSUME TypeInv
  PROVE  /\ IsFiniteSet(Occupied) /\ IsFiniteSet(EndedSlotless)
         /\ Cardinality(Occupied) \in 0 .. MaxClients
         /\ Cardinality(EndedSlotless) \in 0 .. Cardinality(Conns)
<1>1. IsFiniteSet(Slots) /\ Cardinality(Slots) = MaxClients
  BY NetworkAssumption, FS_Interval DEF Slots
<1>2. Occupied \subseteq Slots /\ EndedSlotless \subseteq Conns
  BY DEF Occupied, EndedSlotless, TypeInv
<1>3. /\ IsFiniteSet(Occupied) /\ IsFiniteSet(EndedSlotless)
      /\ Cardinality(Occupied) <= MaxClients
      /\ Cardinality(EndedSlotless) <= Cardinality(Conns)
  BY <1>1, <1>2, FS_Subset, NetworkAssumption
<1>4. /\ Cardinality(Occupied) \in Nat /\ Cardinality(EndedSlotless) \in Nat
      /\ Cardinality(Conns) \in Nat /\ MaxClients \in Nat
  BY <1>3, FS_CardinalityType, NetworkAssumption
<1> QED BY <1>3, <1>4

(* What num_clients may be. *)
LEMMA TypeFollows == TypeInv /\ CounterCountsSlots => TypeOK
<1> SUFFICES ASSUME TypeInv, CounterCountsSlots PROVE TypeOK
  OBVIOUS
<1>1. Cardinality(Conns) \in Nat /\ MaxClients \in Nat
  BY FS_CardinalityType, NetworkAssumption
<1>2. num_clients = Cardinality(Occupied) - Cardinality(EndedSlotless)
  BY DEF CounterCountsSlots, EndedSlotless
<1>3. num_clients \in -Cardinality(Conns) .. MaxClients
  BY <1>1, <1>2, CountedSets
<1> QED BY <1>3 DEF TypeInv, TypeOK, MainPlaces, Sees

-----------------------------------------------------------------------------
(* client_thread *)

(* The places between the two sections that change the table. *)
InsidePlaces == ThreadPlaces \ {"none", "start", "ended"}

(* A step of a thread between those two sections leaves the table right. *)
LEMMA InsideStep ==
  ASSUME NetInv, NEW c \in Conns, NEW p \in InsidePlaces,
         thr[c] \in InsidePlaces,
         thr' = [thr EXCEPT ![c] = p],
         UNCHANGED table
  PROVE  TableInv'
<1>1. /\ client_list' = client_list /\ slotless' = slotless
      /\ num_clients' = num_clients
      /\ \A d \in Conns : d # c => thr'[d] = thr[d]
      /\ thr'[c] = p
  BY DEF table, NetInv, TypeInv
<1>2. Inside' = Inside /\ EndedSlotless' = EndedSlotless /\ Occupied' = Occupied
  BY <1>1 DEF Inside, EndedSlotless, Occupied, InsidePlaces, ThreadPlaces,
     NetInv, TypeInv
<1>3. SlotlessRan'
  BY <1>1 DEF NetInv, TableInv, SlotlessRan, InsidePlaces, TypeInv
<1>4. SlotsMatchThreads'
  BY <1>1, <1>2 DEF NetInv, TableInv, SlotsMatchThreads
<1>5. CounterCountsSlots'
  BY <1>1, <1>2 DEF NetInv, TableInv, CounterCountsSlots, EndedSlotless
<1> QED BY <1>3, <1>4, <1>5 DEF TableInv

(* The first section of client_thread, with a free slot or without. *)
LEMMA EnterTable ==
  ASSUME NetInv, NEW c \in Conns, Enter(c)
  PROVE  TableInv'
<1>1. /\ thr[c] = "start" /\ c \notin slotless /\ c \notin Inside
      /\ \A d \in Conns : d # c => thr'[d] = thr[d]
      /\ thr'[c] \in {"test", "undefined"}
  BY DEF Enter, Goes, NetInv, TypeInv, TableInv, SlotlessRan, Inside
<1>2. Inside' = Inside \cup {c}
  BY <1>1 DEF Inside
<1>3. CASE /\ slotless' = slotless /\ num_clients' = num_clients + 1
           /\ \E x \in Slots \ Occupied :
                client_list' = [client_list EXCEPT ![x] = c]
  <2>1. PICK x \in Slots \ Occupied :
               client_list' = [client_list EXCEPT ![x] = c]
    BY <1>3
  <2>2. /\ \A y \in Slots : y # x => client_list'[y] = client_list[y]
        /\ client_list'[x] = c /\ c # NULL
    BY <2>1, NetworkAssumption DEF NetInv, TypeInv
  <2>3. Occupied' = Occupied \cup {x} /\ x \notin Occupied
    BY <2>1, <2>2 DEF Occupied
  <2>4. EndedSlotless' = EndedSlotless
    BY <1>1, <1>3 DEF EndedSlotless, NetInv, TypeInv
  <2>5. Cardinality(Occupied') = Cardinality(Occupied) + 1
    BY <2>3, FS_AddElement, CountedSets DEF NetInv
  <2>6. CounterCountsSlots'
    <3>1. num_clients = Cardinality(Occupied) - Cardinality(EndedSlotless)
      BY DEF NetInv, TableInv, CounterCountsSlots, EndedSlotless
    <3>2. /\ Cardinality(Occupied) \in Int
          /\ Cardinality(EndedSlotless) \in Int
      BY CountedSets, FS_CardinalityType DEF NetInv
    <3>3. num_clients' = Cardinality(Occupied') - Cardinality(EndedSlotless')
      BY <1>3, <2>4, <2>5, <3>1, <3>2
    <3> QED BY <3>3 DEF CounterCountsSlots, EndedSlotless
  <2>7. SlotlessRan'
    BY <1>1, <1>3 DEF NetInv, TableInv, SlotlessRan, TypeInv
  <2>8. {client_list'[y] : y \in Occupied'}
          = {client_list[y] : y \in Occupied} \cup {c}
    BY <2>1, <2>2, <2>3 DEF Occupied
  <2>9. SlotsMatchThreads'
    <3>1. \A y \in Occupied : client_list[y] # c
      BY <1>1 DEF NetInv, TableInv, SlotsMatchThreads
    <3>2. \A y \in Occupied : client_list'[y] = client_list[y]
      BY <2>1, <2>2 DEF Occupied
    <3>3. \A y, z \in Occupied' : client_list'[y] = client_list'[z] => y = z
      BY <2>2, <2>3, <3>1, <3>2 DEF NetInv, TableInv, SlotsMatchThreads
    <3>4. {client_list'[y] : y \in Occupied'} = Inside' \ slotless'
      BY <1>1, <1>2, <1>3, <2>8 DEF NetInv, TableInv, SlotsMatchThreads
    <3> QED BY <3>3, <3>4 DEF SlotsMatchThreads
  <2> QED BY <2>6, <2>7, <2>9 DEF TableInv
<1>4. CASE /\ slotless' = slotless \cup {c}
           /\ UNCHANGED <<num_clients, client_list>>
  <2>1. Occupied' = Occupied /\ EndedSlotless' = EndedSlotless
    BY <1>1, <1>4 DEF Occupied, EndedSlotless, NetInv, TypeInv
  <2>2. CounterCountsSlots'
    BY <1>4, <2>1 DEF NetInv, TableInv, CounterCountsSlots, EndedSlotless
  <2>3. SlotlessRan'
    BY <1>1, <1>4 DEF NetInv, TableInv, SlotlessRan, TypeInv
  <2>4. SlotsMatchThreads'
    BY <1>1, <1>2, <1>4, <2>1 DEF NetInv, TableInv, SlotsMatchThreads
  <2> QED BY <2>2, <2>3, <2>4 DEF TableInv
<1> QED BY <1>3, <1>4 DEF Enter

(* The last section: the thread gives its slot back if it has one, and     *)
(* counts down in any case.                                                *)
LEMMA LeaveTable ==
  ASSUME NetInv, NEW c \in Conns, Leave(c)
  PROVE  TableInv'
<1>1. /\ thr[c] = "leave" /\ c \in Inside /\ c # NULL
      /\ \A d \in Conns : d # c => thr'[d] = thr[d]
      /\ thr'[c] = "ended"
      /\ num_clients' = num_clients - 1 /\ slotless' = slotless
      /\ \A y \in Slots :
           client_list'[y] = IF client_list[y] = c THEN NULL ELSE client_list[y]
  BY NetworkAssumption DEF Leave, Goes, NetInv, TypeInv, Inside
<1>2. Inside' = Inside \ {c}
  BY <1>1 DEF Inside
<1>3. SlotlessRan'
  BY <1>1 DEF NetInv, TableInv, SlotlessRan, TypeInv
<1>4. Occupied' = {y \in Occupied : client_list[y] # c}
  BY <1>1 DEF Occupied
<1>5. SlotsMatchThreads'
  <2>1. \A y \in Occupied' : y \in Occupied /\ client_list'[y] = client_list[y]
    BY <1>1, <1>4 DEF Occupied
  <2>2. \A y, z \in Occupied' : client_list'[y] = client_list'[z] => y = z
    BY <2>1 DEF NetInv, TableInv, SlotsMatchThreads
  <2>3. {client_list'[y] : y \in Occupied'}
          = {client_list[y] : y \in Occupied} \ {c}
    BY <1>4, <2>1
  <2>4. {client_list'[y] : y \in Occupied'} = Inside' \ slotless'
    BY <1>1, <1>2, <2>3 DEF NetInv, TableInv, SlotsMatchThreads
  <2> QED BY <2>2, <2>4 DEF SlotsMatchThreads
<1>6. num_clients = Cardinality(Occupied) - Cardinality(EndedSlotless)
  BY DEF NetInv, TableInv, CounterCountsSlots, EndedSlotless
<1>7. /\ IsFiniteSet(Occupied) /\ IsFiniteSet(EndedSlotless)
      /\ Cardinality(Occupied) \in Int /\ Cardinality(EndedSlotless) \in Int
  BY CountedSets, FS_CardinalityType DEF NetInv
<1>8. num_clients' = Cardinality(Occupied') - Cardinality(EndedSlotless')
  <2>1. CASE c \in slotless
    <3>1. Occupied' = Occupied
      BY <1>4, <2>1 DEF NetInv, TableInv, SlotsMatchThreads
    <3>2. EndedSlotless' = EndedSlotless \cup {c} /\ c \notin EndedSlotless
      BY <1>1, <2>1 DEF EndedSlotless, NetInv, TypeInv
    <3>3. Cardinality(EndedSlotless') = Cardinality(EndedSlotless) + 1
      BY <1>7, <3>2, FS_AddElement
    <3> QED BY <1>1, <1>6, <1>7, <3>1, <3>3
  <2>2. CASE c \notin slotless
    <3>1. PICK x \in Occupied : client_list[x] = c
      BY <1>1, <2>2 DEF NetInv, TableInv, SlotsMatchThreads
    <3>2. Occupied' = Occupied \ {x}
      BY <1>4, <3>1 DEF NetInv, TableInv, SlotsMatchThreads
    <3>3. EndedSlotless' = EndedSlotless
      BY <1>1, <2>2 DEF EndedSlotless, NetInv, TypeInv
    <3>4. Cardinality(Occupied') = Cardinality(Occupied) - 1
      BY <1>7, <3>1, <3>2, FS_RemoveElement
    <3> QED BY <1>1, <1>6, <1>7, <3>3, <3>4
  <2> QED BY <2>1, <2>2
<1>9. CounterCountsSlots'
  BY <1>8 DEF CounterCountsSlots, EndedSlotless
<1> QED BY <1>3, <1>5, <1>9 DEF TableInv

-----------------------------------------------------------------------------
(* The other steps *)

(* A step that leaves alone who runs leaves the table right. *)
LEMMA TableStays ==
  ASSUME TableInv, UNCHANGED <<table, thr>>
  PROVE  TableInv'
BY DEF TableInv, SlotlessRan, SlotsMatchThreads, CounterCountsSlots, Occupied,
   Inside, table

(* A new thread has not looked for a slot yet. *)
LEMMA CreateTable ==
  ASSUME NetInv, CreateThread
  PROVE  TableInv'
<1>1. CASE UNCHANGED thr
  BY <1>1, TableStays DEF CreateThread, NetInv
<1>2. CASE thr' = [thr EXCEPT ![cur] = "start"]
  <2>1. /\ cur \in Conns /\ thr[cur] = "none" /\ cur \notin slotless
        /\ \A d \in Conns : d # cur => thr'[d] = thr[d]
        /\ thr'[cur] = "start"
        /\ UNCHANGED <<num_clients, client_list, slotless>>
    BY <1>2 DEF CreateThread, NetInv, TypeInv, ConnectionsFit, TableInv,
       SlotlessRan, table
  <2>2. /\ Inside' = Inside /\ Occupied' = Occupied
        /\ EndedSlotless' = EndedSlotless
    BY <2>1 DEF Inside, Occupied, EndedSlotless, NetInv, TypeInv
  <2>3. SlotlessRan'
    BY <2>1 DEF NetInv, TableInv, SlotlessRan, TypeInv
  <2>4. SlotsMatchThreads' /\ CounterCountsSlots'
    BY <2>1, <2>2 DEF NetInv, TableInv, SlotsMatchThreads, CounterCountsSlots,
       EndedSlotless
  <2> QED BY <2>3, <2>4 DEF TableInv
<1> QED BY <1>1, <1>2 DEF CreateThread

(* What client_thread does, the return of a forward included. *)
OwnStep(c) == ThreadStep(c) \/ ForwardReturns(c)

(* The table after each step of a thread. *)
LEMMA ThreadTable ==
  ASSUME NetInv, NEW c \in Conns, OwnStep(c)
  PROVE  TableInv'
<1>1. CASE Enter(c)
  BY <1>1, EnterTable
<1>2. CASE Leave(c)
  BY <1>2, LeaveTable
<1>3. CASE ThreadTests(c) \/ Receive(c) \/ TakeListLock(c)
  <2>1. UNCHANGED table /\ thr[c] \in InsidePlaces
    BY <1>3 DEF ThreadTests, Receive, TakeListLock, InsidePlaces, ThreadPlaces
  <2>2. \E p \in InsidePlaces : thr' = [thr EXCEPT ![c] = p]
    BY <1>3 DEF ThreadTests, Receive, TakeListLock, Goes, InsidePlaces,
       ThreadPlaces
  <2> QED BY <2>1, <2>2, InsideStep
<1>4. CASE Forward(c) \/ ForwardReturns(c) \/ FinishWrite(c)
  <2>1. UNCHANGED table /\ thr[c] \in InsidePlaces
    BY <1>4 DEF Forward, ForwardReturns, FinishWrite, InsidePlaces,
       ThreadPlaces
  <2>2. \E p \in InsidePlaces : thr' = [thr EXCEPT ![c] = p]
    BY <1>4 DEF Forward, ForwardReturns, FinishWrite, Goes, InsidePlaces,
       ThreadPlaces
  <2> QED BY <2>1, <2>2, InsideStep
<1>5. CASE Send(c) \/ Hangup(c)
  <2>1. UNCHANGED table /\ thr[c] \in InsidePlaces
    BY <1>5 DEF Send, Hangup, InsidePlaces, ThreadPlaces
  <2>2. \E p \in InsidePlaces : thr' = [thr EXCEPT ![c] = p]
    BY <1>5 DEF Send, Hangup, Goes, InsidePlaces, ThreadPlaces
  <2> QED BY <2>1, <2>2, InsideStep
<1> QED BY <1>1, <1>2, <1>3, <1>4, <1>5 DEF ThreadStep, OwnStep

(* The table after each step. *)
LEMMA TableNext == NetInv /\ [Next]_vars => TableInv'
<1> SUFFICES ASSUME NetInv, [Next]_vars PROVE TableInv'
  OBVIOUS
<1>1. CASE CreateThread
  BY <1>1, CreateTable
<1>2. ASSUME NEW c \in Conns, OwnStep(c) PROVE TableInv'
  BY <1>2, ThreadTable
<1>3. CASE MainStep /\ ~CreateThread
  <2>1. UNCHANGED <<table, thr>>
    BY <1>3 DEF MainStep, TestShutdown, Accept, CheckLimit, SendReady,
       CleanChain, CloseSession, FreeList, ShutClients, DestroyListLock,
       CloseLog, Exit, ProcessEnds
  <2> QED BY <2>1, TableStays DEF NetInv
<1>4. CASE Environment \/ UpdateLocks \/ UpdateReturns
  <2>1. UNCHANGED <<table, thr>>
    BY <1>4 DEF Environment, AcceptFails, SignalMain, ChildWatcher, Connect,
       Quit, SignalThread, Ask, UpdateLocks, UpdateReturns
  <2> QED BY <2>1, TableStays DEF NetInv
<1>5. CASE UNCHANGED vars
  BY <1>5, TableStays DEF NetInv, vars
<1> QED BY <1>1, <1>2, <1>3, <1>4, <1>5 DEF Next, CallReturns, OwnStep

-----------------------------------------------------------------------------
(* Types, and the connections *)

(* A step of a thread keeps the types. *)
LEMMA ThreadType ==
  ASSUME TypeInv, NEW c \in Conns, OwnStep(c)
  PROVE  TypeInv'
<1>1. CASE Enter(c)
  BY <1>1 DEF Enter, Goes, TypeInv, ThreadPlaces, chain, environment
<1>2. CASE Leave(c)
  BY <1>2 DEF Leave, Goes, TypeInv, ThreadPlaces, chain, environment
<1>3. CASE ThreadTests(c) \/ Receive(c)
  BY <1>3 DEF ThreadTests, Receive, Goes, TypeInv, ThreadPlaces, table, chain,
     environment
<1>4. CASE TakeListLock(c)
  BY <1>4 DEF TakeListLock, Goes, TypeInv, ThreadPlaces, table, chain, environment
<1>5. CASE Forward(c) \/ ForwardReturns(c)
  BY <1>5 DEF Forward, ForwardReturns, Goes, TypeInv, ThreadPlaces, table, chain,
     environment
<1>8. CASE FinishWrite(c)
  BY <1>8 DEF FinishWrite, Goes, TypeInv, ThreadPlaces, table, chain,
     environment
<1>6. CASE Send(c)
  BY <1>6 DEF Send, Goes, TypeInv, ThreadPlaces, Sees, table, chain, environment
<1>7. CASE Hangup(c)
  BY <1>7 DEF Hangup, Goes, TypeInv, ThreadPlaces, Sees, table, chain, environment
<1> QED BY <1>1, <1>2, <1>3, <1>4, <1>5, <1>6, <1>7, <1>8 DEF ThreadStep,
   OwnStep

(* A step of a thread concerns a connection that has its thread already. *)
LEMMA ThreadFit ==
  ASSUME TypeInv, ConnectionsFit, NEW c \in Conns, OwnStep(c)
  PROVE  ConnectionsFit'
<1>1. /\ thr[c] # "none" /\ UNCHANGED <<main, cur, backlog>>
      /\ \E p \in ThreadPlaces \ {"none"} : thr' = [thr EXCEPT ![c] = p]
  BY DEF OwnStep, ThreadStep, Enter, ThreadTests, Receive, TakeListLock,
     Forward, ForwardReturns, FinishWrite, Send, Hangup, Leave, Goes, ThreadPlaces
<1>2. \A d \in Conns : client'[d] = "new" => client[d] = "new"
  BY DEF OwnStep, ThreadStep, Enter, ThreadTests, Receive, TakeListLock,
     Forward, ForwardReturns, FinishWrite, Send, Hangup, Leave, TypeInv
<1>3. \A d \in Conns : thr[d] = "none" => d # c /\ thr'[d] = "none"
  BY <1>1 DEF TypeInv
<1> QED BY <1>1, <1>2, <1>3 DEF ConnectionsFit, TypeInv

(* The accept loop takes a connection from the backlog once. *)
LEMMA LoopStep ==
  ASSUME TypeInv, ConnectionsFit,
         TestShutdown \/ (\E c \in Conns : Accept(c)) \/ CheckLimit
           \/ CreateThread \/ SendReady
  PROVE  TypeInv' /\ ConnectionsFit'
<1>1. CASE TestShutdown
  BY <1>1 DEF TestShutdown, TypeInv, ConnectionsFit, MainPlaces, table, chain,
     environment
<1>2. ASSUME NEW c \in Conns, Accept(c) PROVE TypeInv' /\ ConnectionsFit'
  BY <1>2 DEF Accept, TypeInv, ConnectionsFit, MainPlaces, table, chain, environment
<1>3. ASSUME RefuseCur, main \in {"check", "create"},
             UNCHANGED <<shutdown, backlog, table, lock_list, chain, thr,
                         eintr, shut, req, environment>>
      PROVE  TypeInv' /\ ConnectionsFit'
  <2>1. TypeInv'
    BY <1>3 DEF RefuseCur, TypeInv, MainPlaces, Sees, table, chain, environment
  <2>2. \A d \in Conns : client'[d] = "new" => client[d] = "new"
    BY <1>3 DEF RefuseCur, TypeInv
  <2>3. ConnectionsFit'
    BY <1>3, <2>2, NetworkAssumption DEF RefuseCur, TypeInv, ConnectionsFit
  <2> QED BY <2>1, <2>3
<1>4. CASE CheckLimit
  <2>1. CASE RefuseCur
    BY <1>3, <1>4, <2>1 DEF CheckLimit
  <2>2. CASE main' = "create" /\ UNCHANGED <<cur, client>>
    BY <1>4, <2>2 DEF CheckLimit, TypeInv, ConnectionsFit, MainPlaces, table, chain,
       environment
  <2> QED BY <1>4, <2>1, <2>2 DEF CheckLimit
<1>5. CASE CreateThread
  <2>1. CASE RefuseCur /\ UNCHANGED thr
    BY <1>3, <1>5, <2>1 DEF CreateThread
  <2>2. CASE /\ thr' = [thr EXCEPT ![cur] = "start"] /\ main' = "ready"
             /\ UNCHANGED <<cur, client>>
    <3>1. cur \in Conns
      BY <1>5 DEF CreateThread, ConnectionsFit
    <3> QED
      BY <1>5, <2>2, <3>1 DEF CreateThread, TypeInv, ConnectionsFit,
         MainPlaces, ThreadPlaces, table, chain, environment
  <2> QED BY <1>5, <2>1, <2>2 DEF CreateThread
<1>6. CASE SendReady
  <2>1. TypeInv'
    BY <1>6 DEF SendReady, TypeInv, MainPlaces, Sees, table, chain, environment
  <2>2. \A d \in Conns : client'[d] = "new" => client[d] = "new"
    BY <1>6 DEF SendReady, TypeInv
  <2>3. ConnectionsFit'
    BY <1>6, <2>2, NetworkAssumption DEF SendReady, TypeInv, ConnectionsFit
  <2> QED BY <2>1, <2>3
<1> QED BY <1>1, <1>2, <1>4, <1>5, <1>6

(* The end of the process opens no connection and starts no thread. *)
LEMMA EndStep ==
  ASSUME TypeInv, ConnectionsFit,
         CleanChain \/ CloseSession \/ FreeList \/ ShutClients
           \/ DestroyListLock \/ CloseLog \/ Exit
  PROVE  TypeInv' /\ ConnectionsFit'
<1>1. CASE ProcessEnds
  BY <1>1 DEF ProcessEnds, TypeInv, ConnectionsFit, MainPlaces, Sees, table,
     environment
<1>2. CASE ~ ProcessEnds
  <2>1. /\ UNCHANGED <<cur, shutdown, backlog, table, lock_list, chain, thr,
                       eintr, client, req, environment>>
        /\ main' \in {"zkclose", "free", "shut", "unlock", "log", "return"}
    BY <1>2 DEF CleanChain, CloseSession, FreeList, ShutClients,
       DestroyListLock, CloseLog, Exit
  <2>2. shut' \subseteq Conns
    BY <1>2 DEF CleanChain, CloseSession, FreeList, ShutClients,
       DestroyListLock, CloseLog, Exit, TypeInv, Occupied
  <2> QED BY <2>1, <2>2 DEF TypeInv, ConnectionsFit, MainPlaces, table, chain,
     environment
<1> QED BY <1>1, <1>2

(* The callback thread changes nothing but its place and its lock. *)
LEMMA UpdateStep ==
  ASSUME TypeInv, ConnectionsFit, ChildWatcher \/ UpdateLocks \/ UpdateReturns
  PROVE  TypeInv' /\ ConnectionsFit'
<1>1. /\ UNCHANGED <<main, cur, shutdown, backlog, table, lock_list, thr, eintr,
                     shut, client, req, signals>>
      /\ rls_lock' \in {rls_lock, Zk, NULL}
      /\ upd' \in {"idle", "lock", "conn"}
      /\ inputs' \in 0 .. MaxInputs
  BY NetworkAssumption DEF ChildWatcher, UpdateLocks, UpdateReturns, TypeInv,
     environment
<1> QED BY <1>1 DEF TypeInv, ConnectionsFit, table

(* Clients and signals: a client opens its connection once. *)
LEMMA EnvironmentStep ==
  ASSUME TypeInv, ConnectionsFit, Environment
  PROVE  TypeInv' /\ ConnectionsFit'
<1>0. MaxInputs \in Nat /\ MaxSignals \in Nat
  BY NetworkAssumption
<1>1. CASE AcceptFails
  BY <1>1 DEF AcceptFails, TypeInv, ConnectionsFit, MainPlaces, table, chain,
     environment
<1>2. CASE SignalMain
  BY <1>0, <1>2 DEF SignalMain, TypeInv, ConnectionsFit, MainPlaces, table, chain
<1>3. ASSUME NEW c \in Conns, Connect(c) PROVE TypeInv' /\ ConnectionsFit'
  BY <1>3 DEF Connect, TypeInv, ConnectionsFit, Sees, table, chain, environment
<1>4. ASSUME NEW c \in Conns, Quit(c) PROVE TypeInv' /\ ConnectionsFit'
  BY <1>4 DEF Quit, TypeInv, ConnectionsFit, Sees, table, chain, environment
<1>5. ASSUME NEW c \in Conns, SignalThread(c)
      PROVE  TypeInv' /\ ConnectionsFit'
  BY <1>0, <1>5 DEF SignalThread, TypeInv, ConnectionsFit, table, chain
<1>6. ASSUME NEW c \in Conns, NEW kind \in {"read", "write"}, Ask(c, kind)
      PROVE  TypeInv' /\ ConnectionsFit'
  BY <1>0, <1>6 DEF Ask, TypeInv, ConnectionsFit, Sees, table, chain
<1>7. CASE ChildWatcher
  BY <1>7, UpdateStep
<1> QED BY <1>1, <1>2, <1>3, <1>4, <1>5, <1>6, <1>7 DEF Environment

-----------------------------------------------------------------------------
(* The invariant *)

(* network_server_init leaves an empty table and no thread. *)
LEMMA NetInvInit == Init => NetInv
<1> SUFFICES ASSUME Init PROVE NetInv
  OBVIOUS
<1>1. TypeInv
  <2>1. inputs \in 0 .. MaxInputs /\ signals \in 0 .. MaxSignals
    BY NetworkAssumption DEF Init
  <2>2. /\ client_list \in [Slots -> Conns \cup {NULL}]
        /\ thr \in [Conns -> ThreadPlaces] /\ client \in [Conns -> Sees]
        /\ req \in [Conns -> {"none", "read", "write"}]
    BY DEF Init, ThreadPlaces, Sees
  <2>3. /\ num_clients \in Int
        /\ cur \in Conns \cup {NULL} /\ lock_list \in Conns \cup {NULL}
        /\ rls_lock \in Conns \cup {Zk, NULL}
        /\ upd \in {"idle", "lock", "conn"}
    BY DEF Init
  <2>4. main \in MainPlaces
    BY DEF Init, MainPlaces
  <2>5. /\ backlog \subseteq Conns /\ slotless \subseteq Conns
        /\ eintr \subseteq Conns /\ shut \subseteq Conns
    BY DEF Init
  <2>6. shutdown \in BOOLEAN
    BY Zenon DEF Init
  <2> QED BY <2>1, <2>2, <2>3, <2>4, <2>5, <2>6 DEF TypeInv
<1>2. ConnectionsFit
  BY NetworkAssumption DEF Init, ConnectionsFit
<1>3. Occupied = {} /\ Inside = {} /\ EndedSlotless = {}
  BY DEF Init, Occupied, Inside, EndedSlotless
<1>4. SlotlessRan /\ SlotsMatchThreads
  BY <1>3 DEF Init, SlotlessRan, SlotsMatchThreads
<1>5. CounterCountsSlots
  BY <1>3, FS_EmptySet DEF Init, CounterCountsSlots, EndedSlotless
<1> QED BY <1>1, <1>2, <1>4, <1>5 DEF NetInv, TableInv

(* Every step of the server, its threads and its clients keeps it. *)
LEMMA NetInvNext == NetInv /\ [Next]_vars => NetInv'
<1> SUFFICES ASSUME NetInv, [Next]_vars PROVE NetInv'
  OBVIOUS
<1>1. TableInv'
  BY TableNext
<1>2. ASSUME NEW c \in Conns, OwnStep(c) PROVE TypeInv' /\ ConnectionsFit'
  BY <1>2, ThreadType, ThreadFit DEF NetInv
<1>3. CASE MainStep
  BY <1>1, <1>3, LoopStep, EndStep DEF MainStep, NetInv
<1>4. CASE Environment
  BY <1>1, <1>4, EnvironmentStep DEF NetInv
<1>5. CASE UNCHANGED vars
  BY <1>1, <1>5 DEF NetInv, TypeInv, ConnectionsFit, vars, table, chain,
     environment
<1>6. CASE UpdateLocks \/ UpdateReturns
  BY <1>1, <1>6, UpdateStep DEF NetInv
<1> QED BY <1>1, <1>2, <1>3, <1>4, <1>5, <1>6 DEF Next, CallReturns, OwnStep,
   NetInv

(* The whole invariant holds in every behaviour. *)
LEMMA NetInvAlways == Spec => []NetInv
BY NetInvInit, NetInvNext, PTL DEF Spec

(* Each variable has its type, and num_clients its bounds: never above     *)
(* NUM_MAX_CLIENTS, below zero by at most one for each connection.         *)
THEOREM NetTypeCorrect == Spec => []TypeOK
<1>1. NetInv => TypeOK
  BY TypeFollows DEF NetInv, TableInv
<1> QED BY <1>1, NetInvAlways, PTL

(* The table that network_server_close goes through holds each running     *)
(* client_thread that found a free slot exactly once, and no other.        *)
THEOREM NetSlotsMatchThreads == Spec => []SlotsMatchThreads
<1>1. NetInv => SlotsMatchThreads
  BY DEF NetInv, TableInv
<1> QED BY <1>1, NetInvAlways, PTL

(* num_clients is the number of slots in use, less the threads that found  *)
(* no slot and counted down all the same when they ended.                  *)
THEOREM NetCounterCountsSlots == Spec => []CounterCountsSlots
<1>1. NetInv => CounterCountsSlots
  BY DEF NetInv, TableInv
<1> QED BY <1>1, NetInvAlways, PTL

(* The accept loop refuses a connection only with every slot in use: the   *)
(* counter is never above their number.                                    *)
THEOREM NetBusyOnlyWhenFull == Spec => BusyOnlyWhenFull
<1>1. NetInv /\ [Next]_vars =>
        [main = "check" /\ main' = "test" => Occupied = Slots]_vars
  <2> SUFFICES ASSUME NetInv, Next, main = "check", main' = "test"
               PROVE  Occupied = Slots
    BY DEF vars
  <2>1. \A c \in Conns : ~ OwnStep(c)
    BY DEF OwnStep, ThreadStep, Enter, ThreadTests, Receive, TakeListLock,
       Forward, ForwardReturns, FinishWrite, Send, Hangup, Leave
  <2>2. ~ Environment /\ ~ UpdateLocks /\ ~ UpdateReturns
    BY DEF Environment, AcceptFails, SignalMain, ChildWatcher, Connect, Quit,
       SignalThread, Ask, UpdateLocks, UpdateReturns
  <2>3. CheckLimit /\ num_clients >= MaxClients
    BY <2>1, <2>2 DEF Next, CallReturns, OwnStep, MainStep, TestShutdown,
       Accept, CheckLimit, CreateThread, SendReady, CleanChain, CloseSession,
       FreeList, ShutClients, DestroyListLock, CloseLog, Exit, ProcessEnds
  <2>4. num_clients = Cardinality(Occupied) - Cardinality(EndedSlotless)
    BY DEF NetInv, TableInv, CounterCountsSlots, EndedSlotless
  <2>5. /\ Cardinality(Occupied) \in 0 .. MaxClients
        /\ Cardinality(EndedSlotless) \in Nat /\ MaxClients \in Nat
    BY CountedSets, FS_CardinalityType, NetworkAssumption DEF NetInv
  <2>6. Cardinality(Occupied) = MaxClients
    BY <2>3, <2>4, <2>5
  <2>7. IsFiniteSet(Slots) /\ Cardinality(Slots) = MaxClients
    BY NetworkAssumption, FS_Interval DEF Slots
  <2>8. Occupied \subseteq Slots
    BY DEF Occupied
  <2> QED BY <2>6, <2>7, <2>8, FS_Subset
<1> QED BY <1>1, NetInvAlways, PTL DEF Spec, BusyOnlyWhenFull
=============================================================================
