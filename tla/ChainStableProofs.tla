-------------------------- MODULE ChainStableProofs --------------------------
(***************************************************************************)
(* Proofs about module ChainServer for a complete chain: all N servers     *)
(* make it up from the beginning and none fails, for any N, any clients    *)
(* and any requests.                                                       *)
(*                                                                         *)
(* Nothing moves then but client threads and commands (Settled).  A write  *)
(* that is applied below and not yet here is that of the one thread that   *)
(* holds lock_list here and waits in the forward, or is about to apply     *)
(* (Lead); so the history of a server is that of its successor, less the   *)
(* last write, and a beginning of the history of every server further down *)
(* (Prefix).  An answer that gets back to the first server leaves its      *)
(* write applied at every server it passed (AnswersAreApplied).            *)
(***************************************************************************)
EXTENDS ChainOnceProofs, ChainRefinement, CarListProofs

(* The chain starts complete and nothing fails. *)
Complete == Boot = N /\ Faults = {}

(* The servers serve, linked in a row; the clients are linked to its ends. *)
Settled ==
  /\ event = {} /\ ~ faults.expired
  /\ \A s \in Servers :
       /\ main[s] = "serving"
       /\ \A w \in Callers : upd[s][w].pc = "idle"
       /\ rl_next[s] = IF s < N THEN s + 1 ELSE 0
  /\ \A c \in Clients :
       /\ cupd[c].pc = "idle"
       /\ link[EndConn(c, "head")] = 1
       /\ link[EndConn(c, "tail")] = N

(* The tables of answers have an entry for every thread and request. *)
TablesFit ==
  /\ out = [s \in Servers |-> [o \in Conns |-> out[s][o]]]
  /\ reply = [r \in Requests |-> reply[r]]

(* No link is ever cut. *)
LinksHold ==
  \A s, t \in Servers : t = s + 1 => thr[t][NextConn(s)].pc # "none"

(* Only the last server applies a write that it did not forward, and no    *)
(* forward fails.                                                          *)
ForwardsSucceed ==
  \A s \in Servers, o \in Conns :
    /\ thr[s][o].pc = "local" => s = N
    /\ thr[s][o].pc \in {"fwd", "apply"} => s < N
    /\ thr[s][o].pc # "error"

(* A write is answered when it has been applied, by a message that fits. *)
AnswersAreApplied ==
  \A s \in Servers, o \in Conns :
    thr[s][o].pc = "reply" /\ thr[s][o].req \in Writes =>
      /\ out[s][o] \in WriteAnswers(thr[s][o].req)
      /\ Holds(hist[s], thr[s][o].req)

(* The write of thread o of server s has been applied below, not here. *)
Ahead(s, o) ==
  \/ thr[s][o].pc = "apply"
  \/ /\ thr[s][o].pc = "fwd"
     /\ thr[rl_next[s]][NextConn(s)].pc = "reply"

(* A step after which each write is as far ahead as it was. *)
AheadStays ==
  \A x \in Servers, y \in Conns :
    /\ Ahead(x, y)' <=> Ahead(x, y)
    /\ Ahead(x, y) => thr'[x][y].req = thr[x][y].req

(* A step of client_thread that gives no answer and ends no thread. *)
ThreadsGoOn ==
  \A x \in Servers, y \in Conns :
    /\ thr'[x][y].pc = "reply" =>
         thr'[x][y] = thr[x][y] /\ out'[x][y] = out[x][y]
    /\ thr'[x][y].pc = "got" =>
         thr'[x][y] = thr[x][y] \/ thr'[x][y].req \in Writes
    /\ thr[x][y].pc # "none" => thr'[x][y].pc # "none"

Lead ==
  \A s, t \in Servers : t = s + 1 =>
    /\ \A o \in Conns : Ahead(s, o) => hist[t] = Append(hist[s], thr[s][o].req)
    /\ (\A o \in Conns : ~ Ahead(s, o)) => hist[t] = hist[s]

IsBeginning(g, h) ==
  /\ DOMAIN g \subseteq DOMAIN h
  /\ \A i \in DOMAIN g : g[i] = h[i]

Prefix == \A s, t \in Servers : s <= t => IsBeginning(hist[s], hist[t])

(* A write that got an answer has been applied by the first server. *)
AckedAtHead ==
  \A r \in Writes : reply[r] \notin {Nothing, NULL} => Holds(hist[1], r)

RowInv ==
  /\ LinksHold /\ ForwardsSucceed /\ AnswersAreApplied /\ Lead /\ Prefix

StableInv == Settled /\ TablesFit /\ RowInv /\ AckedAtHead

-----------------------------------------------------------------------------
(* Setting the three fields that an answer sets keeps the others. *)
LEMMA SetAnswer ==
  ASSUME NEW d, NEW ms, NEW cs, NEW S,
         S = [opcode : Nat, c_type : Nat, result : Int,
              data : {d}, models : {ms}, cars : {cs}],
         NEW m \in S, NEW op \in Nat, NEW ct \in Nat, NEW rc \in Int
  PROVE  [m EXCEPT !.opcode = op, !.c_type = ct, !.result = rc] \in S
  OBVIOUS

(* What add and remove answer has the length of the request. *)
LEMMA WriteAnswer ==
  ASSUME NEW r \in Writes, NEW l
  PROVE  /\ invoke(MessageOf(r), l).msg \in WriteAnswers(r)
         /\ \A m \in WriteAnswers(r) : m # NULL /\ Fits(m)
<1>1. /\ r \in Requests /\ MessageOf(r) = Message[r]
      /\ Message[r].opcode \in {OP_ADD, OP_DEL}
  BY ChainAssumption, RequestAssumption DEF Writes, needs_forward, MessageOf
<1>2. /\ Message[r] \in WriteAnswers(r) /\ Fits(Message[r])
      /\ NULL \notin WriteAnswers(r)
  BY <1>1, RequestAssumption
<1> SUFFICES invoke(MessageOf(r), l).msg \in WriteAnswers(r)
  BY <1>2 DEF WriteAnswers, Fits
<1>3. PICK m : m = Message[r]
  OBVIOUS
<1> DEFINE Answer(op, ct, rc) ==
             [m EXCEPT !.opcode = op, !.c_type = ct, !.result = rc]
<1>4. \A op \in Nat, ct \in Nat, rc \in Int : Answer(op, ct, rc) \in WriteAnswers(r)
  <2>1. PICK S : S = WriteAnswers(r) /\ m \in S
    BY <1>2, <1>3
  <2> QED BY <2>1, SetAnswer DEF WriteAnswers
<1>5. m.opcode + 1 \in Nat
  BY <1>1, <1>3 DEF OP_ADD, OP_DEL
<1>6. CASE m.opcode = OP_ADD
  <2>1. invoke(m, l) = InvokeAdd(m, l)
    BY <1>6 DEF invoke, OP_ADD, OP_SIZE, OP_GET, OP_GETLISTBYTEAR,
       OP_GETMODELS, OP_DEL
  <2>2. \/ InvokeAdd(m, l).msg = Answer(m.opcode + 1, CT_NONE, 0)
        \/ InvokeAdd(m, l).msg = Answer(OP_ERROR, CT_NONE, -1)
    BY DEF InvokeAdd, ErrorReply
  <2> HIDE DEF Answer
  <2> QED BY <1>1, <1>3, <1>4, <1>5, <2>1, <2>2 DEF OP_ERROR, CT_NONE
<1>7. CASE m.opcode = OP_DEL
  <2>1. invoke(m, l) = InvokeDel(m, l)
    BY <1>7 DEF invoke, OP_ADD, OP_SIZE, OP_GET, OP_GETLISTBYTEAR,
       OP_GETMODELS, OP_DEL
  <2>2. PICK rc \in Int :
          \/ InvokeDel(m, l).msg = Answer(m.opcode + 1, CT_RESULT, rc)
          \/ InvokeDel(m, l).msg = Answer(OP_ERROR, CT_NONE, -1)
    <3>1. PICK del : del = list_remove_by_model(l, m.models[1])
      OBVIOUS
    <3>2. del.rc \in Int
      BY <3>1 DEF list_remove_by_model
    <3>3. \/ InvokeDel(m, l).msg = Answer(m.opcode + 1, CT_RESULT, del.rc)
          \/ InvokeDel(m, l).msg = Answer(OP_ERROR, CT_NONE, -1)
      BY <3>1 DEF InvokeDel, ErrorReply
    <3> QED BY <3>2, <3>3
  <2> HIDE DEF Answer
  <2> QED BY <1>1, <1>3, <1>4, <1>5, <2>1, <2>2
          DEF OP_ERROR, CT_NONE, CT_RESULT
<1> QED BY <1>1, <1>3, <1>6, <1>7

(* Nothing moves but client threads and commands. *)
LEMMA StableStep ==
  ASSUME Complete, Settled, ForwardsSucceed, [Next]_vars
  PROVE  \/ \E s \in Servers, o \in Conns :
              \/ TakeListLock(s, o) \/ Read(s, o) \/ Forward(s, o)
              \/ ForwardReturns(s, o) \/ Apply(s, o) \/ Hangup(s, o)
         \/ \E c \in Clients :
              ClientReceive(c) \/ \E r \in Requests : ClientSend(c, r)
         \/ UNCHANGED vars
<1>1. \A kind : ~ Fail(kind)
  BY DEF Fail, Complete
<1>2. \A s \in Servers : ~ MainStep(s) /\ ~ Register(s)
  BY DEF Settled, MainStep, GetChildren, init_list, ConnectPrevious, LoadList,
     zoo_clean_server, Exit, Register
<1>3. \A s \in Servers : ~ UpdateStep(s)
  BY DEF Settled, UpdateStep, child_watcher, Update, UpdateConnect
<1>4. \A s \in Servers : ~ Stop(s) /\ ~ Crash(s) /\ ~ Expire(s)
  BY <1>1 DEF Settled, Stop, Crash, Expire, FailsIf
<1>5. \A s \in Servers, o \in Conns : ~ Refuse(s, o)
  BY DEF Refuse, ForwardsSucceed
<1>6. \A c \in Clients : /\ ~ ClientWatcher(c) /\ ~ ClientGet(c)
                         /\ ~ ClientDisconnect(c) /\ ~ ClientConnect(c)
  BY DEF Settled, ClientWatcher, ClientGet, ClientDisconnect, ClientConnect
<1>7. CASE SystemStep
  BY <1>7, <1>2, <1>3, <1>4, <1>5, <1>6, Zenon
  DEF SystemStep, ThreadStep, ClientStep
<1>8. CASE Environment
  BY <1>8, <1>2, <1>4, Zenon DEF Environment
<1> QED BY <1>7, <1>8 DEF Next, Quiet

-----------------------------------------------------------------------------
(* Who holds lock_list of a server that is not the first has the write of  *)
(* a thread of the server before it that waits in the forward.             *)
LEMMA WriterIsNext ==
  ASSUME Inv, Settled, NEW s \in Servers, NEW t \in Servers, t = s + 1,
         NEW o \in Conns, thr[t][o].pc \in HoldsList
  PROVE  /\ o = NextConn(s)
         /\ \E p \in Conns : /\ thr[s][p].pc = "fwd"
                             /\ thr[s][p].req = thr[t][o].req
<1>1. Busy(t, o) /\ thr[t][o].req \in Writes
  BY DEF Busy, Inv, Safe, HoldersHaveWrites
<1>2. o \notin Ends
  <2> SUFFICES ASSUME NEW c \in Clients, NEW e \in {"head", "tail"},
                      o = EndConn(c, e)
               PROVE  FALSE
    BY DEF Ends, EndConn
  <2>1. link[EndConn(c, e)] = t /\ EndOf(thr[t][o].req) = e
    BY <1>1 DEF Inv, Safe, ClientsMatch
  <2>2. EndOf(thr[t][o].req) = "head"
    BY <1>1, RequestAssumption, ChainAssumption
    DEF EndOf, Writes, needs_forward, MessageOf
  <2> QED BY <2>1, <2>2 DEF Settled, Servers
<1>3. \A k \in Servers : o # FetchConn(k)
  BY FetchHoldsNoLock
<1>4. PICK k \in Servers : o = NextConn(k)
  <2>1. PICK k \in Servers, e \in {"next", "fetch"} : o = <<k, e>>
    BY <1>2 DEF Conns, Links
  <2> QED BY <1>3, <2>1 DEF NextConn, FetchConn
<1>5. rl_next[k] = t /\ rls_lock[k] \in Conns
  BY <1>1, <1>4 DEF Settled, Inv, Safe, LinksMatch
<1>6. k = s
  BY <1>5, ChainAssumption DEF Settled, Servers
<1>7. PICK p \in Conns : thr[s][p].pc = "fwd"
  BY <1>5, <1>6 DEF Inv, Safe, ForwardOwnsRlsLock
<1>8. thr[s][p].req = thr[t][o].req
  BY <1>4, <1>5, <1>6, <1>7 DEF Inv, Safe, ForwardsMatch, HoldsList
<1> QED BY <1>4, <1>6, <1>7, <1>8

(* At most one thread of a server is ahead of its list. *)
LEMMA OneHolder ==
  ASSUME Inv, NEW s \in Servers, NEW o \in Conns, NEW p \in Conns,
         thr[s][o].pc \in HoldsList, thr[s][p].pc \in HoldsList
  PROVE  o = p
  BY DEF Inv, Safe, WriteOwnsListLock

(* A step of one thread that neither is nor gets in the hands of lock_list *)
(* past its beginning, and gives no answer to a write.                     *)
LEMMA QuietStep ==
  ASSUME Inv, Settled, RowInv, UNCHANGED <<rl_next, hist>>,
         NEW s \in Servers, NEW o \in Conns,
         \A x \in Servers, y \in Conns : ~ (x = s /\ y = o) =>
           thr'[x][y] = thr[x][y] /\ out'[x][y] = out[x][y],
         thr[s][o].pc \in {"none", "recv", "got", "reply"},
         thr'[s][o].pc \in {"none", "recv", "got", "locked", "reply"},
         thr'[s][o].pc = "reply" => thr'[s][o].req \notin Writes,
         \/ o \in Ends
         \/ /\ thr[s][o].pc # "none" /\ thr'[s][o].pc # "none"
            /\ \/ thr[s][o].pc # "reply" /\ thr'[s][o].pc # "reply"
               \/ thr[s][o].req \notin Writes
  PROVE  RowInv' /\ AheadStays
<1>1. \A k \in Servers : NextConn(k) \in Conns /\ NextConn(k) \notin Ends
  <2>1. \A k \in Servers, y \in Ends : NextConn(k)[2] # y[2]
    BY DEF Ends, NextConn
  <2> QED BY <2>1, ConnNames
<1>2. LinksHold'
  BY <1>1 DEF RowInv, LinksHold
<1>3. ForwardsSucceed'
  BY DEF RowInv, ForwardsSucceed
<1>4. AnswersAreApplied'
  BY DEF RowInv, AnswersAreApplied
<1>5. \A x \in Servers, y \in Conns : Ahead(x, y)' <=> Ahead(x, y)
  <2> SUFFICES ASSUME NEW x \in Servers, NEW y \in Conns
               PROVE  Ahead(x, y)' <=> Ahead(x, y)
    OBVIOUS
  <2>1. CASE thr[x][y].pc = "fwd" /\ ~ (x = s /\ y = o)
    <3>1. PICK t \in Servers : t = rl_next[x]
      BY <2>1, TypeFacts DEF Inv, Safe, ForwardsMatch
    <3>2. /\ thr[x][y].req \in Writes
          /\ \/ thr[t][NextConn(x)].pc = "none"
             \/ thr[t][NextConn(x)].req = thr[x][y].req
      BY <2>1, <3>1 DEF Inv, Safe, ForwardsMatch, HoldersHaveWrites, HoldsList
    <3>3. thr'[t][NextConn(x)].pc = "reply" <=> thr[t][NextConn(x)].pc = "reply"
      BY <1>1, <3>2
    <3> QED BY <2>1, <3>1, <3>3 DEF Ahead
  <2>2. CASE thr[x][y].pc # "fwd" \/ (x = s /\ y = o)
    BY <2>2 DEF Ahead
  <2> QED BY <2>1, <2>2
<1>6. \A x \in Servers, y \in Conns :
        Ahead(x, y) => thr'[x][y].req = thr[x][y].req
  BY DEF Ahead
<1>7. Lead'
  BY <1>5, <1>6 DEF RowInv, Lead
<1>8. Prefix'
  BY DEF RowInv, Prefix, IsBeginning
<1> QED BY <1>2, <1>3, <1>4, <1>5, <1>6, <1>7, <1>8 DEF RowInv, AheadStays

(* There is a set of all the answers. *)
LEMMA AnswersOf ==
  ASSUME TablesFit, NEW v
  PROVE  \E V : v \in V /\ out \in [Servers -> [Conns -> V]]
<1> DEFINE V == (UNION {{out[s][o] : o \in Conns} : s \in Servers}) \cup {v}
<1>1. ASSUME NEW s \in Servers, NEW o \in Conns PROVE out[s][o] \in V
  <2>1. out[s][o] \in {out[s][p] : p \in Conns}
    OBVIOUS
  <2> QED BY <2>1
<1>2. v \in V
  OBVIOUS
<1> HIDE DEF V
<1>3. [s \in Servers |-> [o \in Conns |-> out[s][o]]]
        \in [Servers -> [Conns -> V]]
  BY <1>1
<1>4. out \in [Servers -> [Conns -> V]]
  BY <1>3, Zenon DEF TablesFit
<1> QED BY <1>2, <1>4

(* One answer is set. *)
LEMMA AnswerIsSet ==
  ASSUME TablesFit, NEW a, NEW b, NEW v, out' = [out EXCEPT ![a][b] = v]
  PROVE  /\ \A x \in Servers, y \in Conns :
              /\ x = a /\ y = b => out'[x][y] = v
              /\ ~ (x = a /\ y = b) => out'[x][y] = out[x][y]
         /\ out' = [s \in Servers |-> [o \in Conns |-> out'[s][o]]]
<1>1. PICK V : v \in V /\ out \in [Servers -> [Conns -> V]]
  BY AnswersOf
<1>2. out' \in [Servers -> [Conns -> V]]
  BY <1>1, Except2
<1> QED BY <1>1, <1>2

(* Taking lock_list, reading, and the threads of a client that has gone. *)
LEMMA QuietThreadRows ==
  ASSUME Inv, Settled, TablesFit, RowInv, NEW s \in Servers, NEW o \in Conns,
         TakeListLock(s, o) \/ Read(s, o) \/ Hangup(s, o)
  PROVE  RowInv' /\ AheadStays
<1>1. TypeOK /\ UNCHANGED <<rl_next, hist>>
  BY DEF TakeListLock, Read, Hangup, server, lists, Inv
<1>2. CASE TakeListLock(s, o)
  <2>1. /\ thr[s][o].pc = "got" /\ UNCHANGED out
        /\ thr' = [thr EXCEPT ![s][o].pc = "locked"]
    BY <1>2 DEF TakeListLock
  <2> QED BY <1>1, <2>1, PcMoves, QuietStep
<1>3. CASE Read(s, o)
  <2>1. /\ thr[s][o].pc = "got" /\ thr[s][o].req \notin Writes
        /\ thr' = [thr EXCEPT ![s][o].pc = "reply"]
    BY <1>3 DEF Read, Writes
  <2>2. \A x \in Servers, y \in Conns :
          ~ (x = s /\ y = o) => out'[x][y] = out[x][y]
    <3>1. PICK m : out' = [out EXCEPT ![s][o] = m]
      BY <1>3 DEF Read
    <3> QED BY <3>1, AnswerIsSet
  <2> QED BY <1>1, <2>1, <2>2, PcMoves, QuietStep
<1>4. CASE Hangup(s, o)
  <2>1. /\ thr[s][o].pc \in {"recv", "reply"} /\ o \in Ends
        /\ thr' = [thr EXCEPT ![s][o] = NoThread]
        /\ out' = [out EXCEPT ![s][o] = NULL]
    <3>1. o \in Links => o[1] \in Servers
      BY DEF Links
    <3> QED BY <1>4, <3>1 DEF Hangup, Settled
  <2>2. NoThread.pc = "none"
    BY DEF NoThread
  <2>3. \A x \in Servers, y \in Conns :
          thr'[x][y] = IF x = s /\ y = o THEN NoThread ELSE thr[x][y]
    BY <1>1, <2>1, TypeFacts DEF ThreadTable
  <2>4. \A x \in Servers, y \in Conns :
          ~ (x = s /\ y = o) => out'[x][y] = out[x][y]
    BY <2>1, AnswerIsSet
  <2> QED BY <1>1, <2>1, <2>2, <2>3, <2>4, QuietStep
<1> QED BY <1>2, <1>3, <1>4

(* Sending a command and getting its answer. *)
LEMMA CommandRows ==
  ASSUME Inv, Settled, TablesFit, RowInv, NEW c \in Clients,
         ClientReceive(c) \/ \E r \in Requests : ClientSend(c, r)
  PROVE  RowInv' /\ AheadStays
<1>1. TypeOK /\ UNCHANGED <<rl_next, hist>>
  BY DEF ClientReceive, ClientSend, server, lists, Inv
<1>2. \A r : EndConn(c, EndOf(r)) \in Ends /\ EndConn(c, EndOf(r)) \in Conns
  BY ConnNames, EndIsEnd
<1>3. ASSUME NEW r \in Requests, ClientSend(c, r) PROVE RowInv' /\ AheadStays
  <2>1. PICK o, t : o = EndConn(c, EndOf(r)) /\ t = link[o]
    OBVIOUS
  <2>2. UNCHANGED out
    BY <1>3 DEF ClientSend
  <2>3. CASE thr' = thr
    BY <1>1, <2>2, <2>3 DEF RowInv, LinksHold, ForwardsSucceed,
       AnswersAreApplied, Lead, Ahead, Prefix, IsBeginning, AheadStays
  <2>4. CASE thr' # thr
    <3>1. /\ t # 0 /\ client[c].pc = "idle" /\ thr[t][o].pc # "none"
          /\ thr' = [thr EXCEPT ![t][o] = [pc |-> "got", req |-> r]]
      BY <1>3, <2>1, <2>4 DEF ClientSend, Broken
    <3>2. t \in Servers /\ thr[t][o].pc \in ThreadPc
      BY <1>1, <1>2, <2>1, <3>1, TypeFacts DEF TypeOK, ThreadTypeOK, Thread
    <3>3. thr[t][o].pc = "recv"
      BY <2>1, <3>1, <3>2, EndIsNotBusy, EndIsEnd DEF Busy, ThreadPc
    <3>4. PICK v : v.pc = "got" /\ thr' = [thr EXCEPT ![t][o] = v]
      BY <3>1
    <3>5. \A x \in Servers, y \in Conns :
            thr'[x][y] = IF x = t /\ y = o THEN v ELSE thr[x][y]
      BY <1>1, <3>4, TypeFacts DEF ThreadTable
    <3> QED BY <1>1, <1>2, <2>1, <2>2, <3>2, <3>3, <3>4, <3>5, QuietStep
  <2> QED BY <2>3, <2>4
<1>4. CASE ClientReceive(c)
  <2>1. PICK o, t : /\ o = EndConn(c, EndOf(client[c].req)) /\ t = link[o]
                    /\ thr[t][o].pc \in {"none", "reply"}
                    /\ thr' = [thr EXCEPT ![t][o] = AfterReply(t, o)]
                    /\ out' = [out EXCEPT ![t][o] = NULL]
    BY <1>4 DEF ClientReceive, Returns
  <2>2. t \in Servers /\ o \in Conns /\ o \in Ends
    <3>1. N \in Servers /\ 1 \in Servers
      BY ChainAssumption DEF Servers
    <3> QED BY <1>2, <2>1, <3>1, EndIsEnd DEF Settled
  <2>3. PICK v : v = AfterReply(t, o)
    OBVIOUS
  <2>4. /\ v.pc \in {"none", "recv"}
        /\ \A x \in Servers, y \in Conns :
             thr'[x][y] = IF x = t /\ y = o THEN v ELSE thr[x][y]
    <3>1. v.pc \in {"none", "recv"}
      <4>1. v \in {Waiting, NoThread}
        BY <2>3 DEF AfterReply
      <4> QED BY <4>1 DEF Waiting, NoThread
    <3>2. thr' = [thr EXCEPT ![t][o] = v]
      BY <2>1, <2>3
    <3> QED BY <1>1, <3>1, <3>2, TypeFacts DEF ThreadTable
  <2>5. \A x \in Servers, y \in Conns :
          ~ (x = t /\ y = o) => out'[x][y] = out[x][y]
    BY <2>1, AnswerIsSet
  <2>6. thr[t][o].pc \in {"none", "reply"} /\ thr'[t][o].pc \in {"none", "recv"}
    BY <2>1, <2>2, <2>4
  <2>7. \A x \in Servers, y \in Conns :
          ~ (x = t /\ y = o) => thr'[x][y] = thr[x][y]
    BY <2>4
  <2> HIDE <2>1, <2>4
  <2> QED BY <1>1, <2>2, <2>5, <2>6, <2>7, QuietStep
<1> QED BY <1>3, <1>4
(* A longer history has what the shorter one has. *)
LEMMA Extends ==
  ASSUME NEW h \in Seq(Requests), NEW r \in Requests
  PROVE  /\ Holds(Append(h, r), r)
         /\ \A w : Holds(h, w) => Holds(Append(h, r), w)
         /\ \A g : IsBeginning(g, h) => IsBeginning(g, Append(h, r))
<1>1. PICK n \in Nat : n = Len(h) /\ DOMAIN h = 1 .. n
  OBVIOUS
<1>2. PICK l : l = Append(h, r)
  OBVIOUS
<1>3. /\ DOMAIN l = 1 .. (n + 1)
      /\ \A i \in 1 .. n : l[i] = h[i]
      /\ l[n + 1] = r
  BY <1>1, <1>2
<1>4. n + 1 \in 1 .. (n + 1) /\ 1 .. n \subseteq 1 .. (n + 1)
  BY <1>1
<1> QED BY <1>1, <1>2, <1>3, <1>4 DEF Holds, IsBeginning

(* A step of the threads that changes no list, and whose write is as far   *)
(* ahead after it as before.                                               *)
LEMMA SameRows ==
  ASSUME RowInv, UNCHANGED <<rl_next, hist>>, LinksHold', ForwardsSucceed',
         \A x \in Servers, y \in Conns :
           thr'[x][y].pc = "reply" =>
             thr'[x][y] = thr[x][y] /\ out'[x][y] = out[x][y],
         AheadStays
  PROVE  RowInv'
<1>1. AnswersAreApplied'
  BY DEF RowInv, AnswersAreApplied
<1>2. Lead'
  BY DEF RowInv, Lead, AheadStays
<1>3. Prefix'
  BY DEF RowInv, Prefix, IsBeginning
<1> QED BY <1>1, <1>2, <1>3 DEF RowInv

(* The write is sent on, or is to be applied by the last server. *)
LEMMA ForwardRows ==
  ASSUME Inv, Settled, RowInv, NEW s \in Servers, NEW o \in Conns, Forward(s, o)
  PROVE  RowInv' /\ AheadStays /\ ThreadsGoOn
<1>1. /\ TypeOK /\ thr[s][o].pc = "locked" /\ UNCHANGED <<rl_next, hist, out>>
      /\ \A k \in Servers : NextConn(k) \in Conns
  BY ConnNames DEF Forward, lists, Inv
<1>2. CASE s = N
  <2>1. rl_next[s] = 0
    BY <1>2, ChainAssumption DEF Settled
  <2>2. thr' = [thr EXCEPT ![s][o].pc = "local"]
    BY <2>1 DEF Forward
  <2>3. /\ \A x \in Servers, y \in Conns : thr'[x][y].req = thr[x][y].req
        /\ \A x \in Servers, y \in Conns :
             x # s \/ y # o => thr'[x][y] = thr[x][y]
        /\ thr'[s][o].pc = "local"
    BY <1>1, <2>2, TypeFacts DEF ThreadTable, Thread
  <2>4. LinksHold' /\ ForwardsSucceed'
    BY <1>1, <1>2, <2>3 DEF RowInv, LinksHold, ForwardsSucceed
  <2>5. \A x \in Servers, y \in Conns : Ahead(x, y)' <=> Ahead(x, y)
    <3> SUFFICES ASSUME NEW x \in Servers, NEW y \in Conns
                 PROVE  Ahead(x, y)' <=> Ahead(x, y)
      OBVIOUS
    <3>1. CASE thr[x][y].pc = "fwd"
      <4>1. PICK t \in Servers : t = rl_next[x]
        BY <1>1, <3>1, TypeFacts DEF Inv, Safe, ForwardsMatch
      <4> QED BY <1>1, <2>3, <3>1, <4>1 DEF Ahead
    <3>2. CASE thr[x][y].pc # "fwd"
      BY <1>1, <2>3, <3>2 DEF Ahead
    <3> QED BY <3>1, <3>2
  <2>6. AheadStays
    BY <2>3, <2>5 DEF AheadStays
  <2>7. ThreadsGoOn
    BY <1>1, <2>3 DEF ThreadsGoOn
  <2> QED BY <1>1, <2>3, <2>4, <2>6, <2>7, SameRows
<1>3. CASE s # N
  <2>1. PICK t \in Servers : t = rl_next[s] /\ t = s + 1
    BY <1>3, ChainAssumption DEF Settled, Servers
  <2>2. PICK q : q = NextConn(s) /\ q \in Conns
    BY <1>1
  <2>3. thr'[s][o].pc = "fwd"
    <3>1. rl_next[s] # 0 /\ ~ Broken(rl_next[s], NextConn(s))
      BY <2>1, ChainAssumption DEF RowInv, LinksHold, Broken, Servers
    <3>2. PICK v : thr' = [thr EXCEPT ![s][o].pc = "fwd", ![t][q] = v]
      BY <2>1, <2>2, <3>1 DEF Forward
    <3>3. s # t
      BY <2>1 DEF Servers
    <3> QED BY <1>1, <3>2, <3>3, TypeFacts DEF ThreadTable, Thread
  <2>4. /\ thr[t][q].pc = "recv"
        /\ thr'[s][o].req = thr[s][o].req
        /\ thr'[t][q].pc = "got" /\ thr'[t][q].req = thr[s][o].req
        /\ \A x \in Servers, y \in Conns :
             ~ (x = s /\ y = o) /\ ~ (x = t /\ y = q) => thr'[x][y] = thr[x][y]
    <3>1. PICK v : v = [pc |-> "got", req |-> thr[s][o].req]
      OBVIOUS
    <3>2. thr[t][q].pc = "recv" /\ TwoThreadsMove(s, o, "fwd", t, q, v)
      BY <2>1, <2>2, <2>3, <3>1, ForwardSendsMoves
    <3>3. v.pc = "got" /\ v.req = thr[s][o].req
      BY <3>1
    <3> QED BY <3>2, <3>3 DEF TwoThreadsMove
  <2>5. LinksHold'
    BY <1>1, <2>3, <2>4 DEF RowInv, LinksHold
  <2>6. ForwardsSucceed'
    <3>1. s < N
      BY <1>3, ChainAssumption DEF Servers
    <3> QED BY <2>3, <2>4, <3>1 DEF RowInv, ForwardsSucceed
  <2>7. \A x \in Servers, y \in Conns : Ahead(x, y)' <=> Ahead(x, y)
    <3> SUFFICES ASSUME NEW x \in Servers, NEW y \in Conns
                 PROVE  Ahead(x, y)' <=> Ahead(x, y)
      OBVIOUS
    <3>1. CASE x = s /\ y = o
      BY <1>1, <2>1, <2>2, <2>3, <2>4, <3>1 DEF Ahead
    <3>2. CASE thr[x][y].pc = "fwd" /\ ~ (x = s /\ y = o)
      <4>1. PICK u \in Servers : u = rl_next[x]
        BY <1>1, <3>2, TypeFacts DEF Inv, Safe, ForwardsMatch
      <4>2. thr'[u][NextConn(x)].pc = "reply" <=> thr[u][NextConn(x)].pc = "reply"
        BY <1>1, <2>3, <2>4
      <4> QED BY <1>1, <2>4, <3>2, <4>1, <4>2 DEF Ahead
    <3>3. CASE thr[x][y].pc # "fwd" /\ ~ (x = s /\ y = o)
      BY <1>1, <2>4, <3>3 DEF Ahead
    <3> QED BY <3>1, <3>2, <3>3
  <2>8. AheadStays
    BY <2>3, <2>4, <2>7 DEF AheadStays, Ahead
  <2>9. ThreadsGoOn
    <3>1. thr[s][o].req \in Writes
      BY <1>1 DEF Inv, Safe, HoldersHaveWrites, HoldsList
    <3> QED BY <1>1, <2>3, <2>4, <3>1 DEF ThreadsGoOn
  <2> QED BY <1>1, <2>3, <2>4, <2>5, <2>6, <2>8, <2>9, SameRows
<1> QED BY <1>2, <1>3

(* The successor has applied the write, and its answer gets through. *)
LEMMA ForwardReturnsRows ==
  ASSUME Inv, Settled, TablesFit, RowInv, NEW s \in Servers, NEW o \in Conns,
         ForwardReturns(s, o)
  PROVE  RowInv' /\ AheadStays /\ ThreadsGoOn
<1>1. /\ TypeOK /\ thr[s][o].pc = "fwd" /\ UNCHANGED <<rl_next, hist>>
      /\ \A k \in Servers : NextConn(k) \in Conns
  BY ConnNames DEF ForwardReturns, lists, Inv
<1>2. PICK t \in Servers : t = rl_next[s] /\ t = s + 1
  BY <1>1, TypeFacts DEF Settled, Inv, Safe, ForwardsMatch
<1>3. PICK q \in Conns : q = NextConn(s)
  BY <1>1
<1>4. thr[t][q].pc = "reply"
  BY <1>2, <1>3, ForwardReturnsMoves DEF RowInv, LinksHold
<1>5. thr[t][q].req \in Writes
  BY <1>1, <1>2, <1>3, <1>4 DEF Inv, Safe, ForwardsMatch, HoldersHaveWrites,
     HoldsList
<1>6. Returned(t, q) # NULL
  <2>1. out[t][q] \in WriteAnswers(thr[t][q].req)
    BY <1>4, <1>5 DEF RowInv, AnswersAreApplied
  <2> QED BY <1>4, <1>5, <2>1, WriteAnswer DEF Returned
<1>7. AfterReply(t, q) = Waiting
  BY <1>6 DEF AfterReply, Stopping, Settled
<1>8. TwoThreadsMove(s, o, "apply", t, q, Waiting)
  BY <1>2, <1>3, <1>6, <1>7, ForwardReturnsMoves
<1>9. /\ thr'[s][o].pc = "apply" /\ thr'[s][o].req = thr[s][o].req
      /\ thr'[t][q].pc = "recv"
      /\ \A x \in Servers, y \in Conns :
           ~ (x = s /\ y = o) /\ ~ (x = t /\ y = q) => thr'[x][y] = thr[x][y]
  BY <1>8 DEF TwoThreadsMove, Waiting
<1>10. \A x \in Servers, y \in Conns :
         ~ (x = t /\ y = q) => out'[x][y] = out[x][y]
  <2>1. out' = [out EXCEPT ![t][q] = NULL]
    BY <1>2, <1>3 DEF ForwardReturns
  <2> QED BY <2>1, AnswerIsSet
<1>11. LinksHold'
  BY <1>1, <1>9 DEF RowInv, LinksHold
<1>12. ForwardsSucceed'
  BY <1>1, <1>9 DEF RowInv, ForwardsSucceed
<1>13. \A x \in Servers, y \in Conns : Ahead(x, y)' <=> Ahead(x, y)
  <2> SUFFICES ASSUME NEW x \in Servers, NEW y \in Conns
               PROVE  Ahead(x, y)' <=> Ahead(x, y)
    OBVIOUS
  <2>1. CASE x = s /\ y = o
    BY <1>1, <1>2, <1>3, <1>4, <1>9, <2>1 DEF Ahead
  <2>2. CASE thr[x][y].pc = "fwd" /\ ~ (x = s /\ y = o)
    <3>1. PICK u \in Servers : u = rl_next[x]
      BY <1>1, <2>2, TypeFacts DEF Inv, Safe, ForwardsMatch
    <3>2. x # s
      BY <1>1, <2>2, OneHolder DEF HoldsList
    <3>3. NextConn(x) # q
      BY <1>3, <3>2, ConnsDiffer
    <3>4. thr'[u][NextConn(x)].pc = "reply" <=> thr[u][NextConn(x)].pc = "reply"
      BY <1>1, <1>9, <3>3
    <3>5. thr'[x][y].pc = "fwd"
      BY <1>4, <1>9, <2>2
    <3> QED BY <1>1, <2>2, <3>1, <3>4, <3>5 DEF Ahead
  <2>3. CASE thr[x][y].pc # "fwd" /\ ~ (x = s /\ y = o)
    BY <1>1, <1>4, <1>9, <2>3 DEF Ahead
  <2> QED BY <2>1, <2>2, <2>3
<1>14. \A x \in Servers, y \in Conns :
         thr'[x][y].pc = "reply" =>
           thr'[x][y] = thr[x][y] /\ out'[x][y] = out[x][y]
  BY <1>9, <1>10
<1>15. AheadStays
  BY <1>4, <1>9, <1>13 DEF AheadStays, Ahead
<1>16. ThreadsGoOn
  BY <1>9, <1>10 DEF ThreadsGoOn
<1> QED BY <1>1, <1>11, <1>12, <1>14, <1>15, <1>16, SameRows
(* Applying a write ends its lead here and begins it at the server before. *)
LEMMA ApplyAhead ==
  ASSUME Inv, Settled, RowInv, NEW s \in Servers, NEW o \in Conns, Apply(s, o)
  PROVE  /\ thr[s][o].pc = "apply" => Ahead(s, o)
         /\ \A y \in Conns : ~ Ahead(s, y)'
         /\ \A a \in Servers : s = a + 1 =>
              /\ \A y \in Conns : ~ Ahead(a, y)
              /\ \E y \in Conns : Ahead(a, y)'
              /\ \A y \in Conns : Ahead(a, y)' => thr'[a][y].req = thr[s][o].req
         /\ \A a, b \in Servers : b = a + 1 /\ a # s /\ b # s =>
              \A y \in Conns : /\ Ahead(a, y)' <=> Ahead(a, y)
                               /\ thr'[a][y] = thr[a][y]
<1>1. /\ TypeOK /\ thr[s][o].pc \in {"local", "apply"} /\ UNCHANGED rl_next
      /\ \A k \in Servers : NextConn(k) \in Conns
  BY ConnNames DEF Apply, server, Inv
<1>2. /\ thr'[s][o].pc = "reply"
      /\ \A x \in Servers, y \in Conns :
           ~ (x = s /\ y = o) => thr'[x][y] = thr[x][y]
  BY <1>1, TypeFacts DEF Apply, ThreadTable, Thread
<1>3. \A y \in Conns : thr[s][y].pc \in HoldsList => y = o
  BY <1>1, OneHolder DEF HoldsList
<1>4. thr[s][o].pc = "apply" => Ahead(s, o)
  BY DEF Ahead
<1>5. \A y \in Conns : ~ Ahead(s, y)'
  BY <1>2, <1>3 DEF Ahead, HoldsList
<1>6. ASSUME NEW a \in Servers, s = a + 1
      PROVE  /\ \A y \in Conns : ~ Ahead(a, y)
             /\ \E y \in Conns : Ahead(a, y)'
             /\ \A y \in Conns : Ahead(a, y)' => thr'[a][y].req = thr[s][o].req
  <2>1. a # s /\ rl_next[a] = s
    BY <1>6, ChainAssumption DEF Settled, Servers
  <2>2. /\ o = NextConn(a)
        /\ \E p \in Conns : /\ thr[a][p].pc = "fwd"
                            /\ thr[a][p].req = thr[s][o].req
    BY <1>1, <1>6, WriterIsNext DEF HoldsList
  <2>3. PICK p \in Conns : thr[a][p].pc = "fwd" /\ thr[a][p].req = thr[s][o].req
    BY <2>2
  <2>4. \A y \in Conns : thr[a][y].pc \in {"fwd", "apply"} => y = p
    BY <2>3, OneHolder DEF HoldsList
  <2>5. \A y \in Conns : ~ Ahead(a, y)
    BY <1>1, <2>1, <2>2, <2>3, <2>4 DEF Ahead
  <2>6. \A y \in Conns : thr'[a][y] = thr[a][y]
    BY <1>2, <2>1
  <2>7. Ahead(a, p)'
    BY <1>1, <1>2, <2>1, <2>2, <2>3, <2>6 DEF Ahead
  <2>8. \A y \in Conns : Ahead(a, y)' => thr'[a][y].req = thr[s][o].req
    BY <2>3, <2>4, <2>6 DEF Ahead
  <2> QED BY <2>5, <2>7, <2>8
<1>7. ASSUME NEW a \in Servers, NEW b \in Servers, b = a + 1, a # s, b # s,
             NEW y \in Conns
      PROVE  /\ Ahead(a, y)' <=> Ahead(a, y)
             /\ thr'[a][y] = thr[a][y]
  <2>1. rl_next[a] = b
    BY <1>7, ChainAssumption DEF Settled, Servers
  <2>2. PICK q \in Conns : q = NextConn(a)
    BY <1>1
  <2>3. thr'[a][y] = thr[a][y] /\ thr'[b][q] = thr[b][q]
    BY <1>2, <1>7
  <2> QED BY <1>1, <2>1, <2>2, <2>3 DEF Ahead
<1> QED BY <1>4, <1>5, <1>6, <1>7

(* The write is applied: at the last server, or right after the successor. *)
LEMMA ApplyRows ==
  ASSUME Inv, Settled, TablesFit, RowInv, NEW s \in Servers, NEW o \in Conns,
         Apply(s, o)
  PROVE  RowInv'
<1> DEFINE r == thr[s][o].req
<1>1. /\ TypeOK /\ thr[s][o].pc \in {"local", "apply"} /\ UNCHANGED rl_next
      /\ r \in Writes /\ r \in Requests
      /\ \A k \in Servers : NextConn(k) \in Conns
  BY ConnNames DEF Apply, server, Inv, Safe, HoldersHaveWrites, HoldsList, Writes
<1>2. /\ thr'[s][o].pc = "reply" /\ thr'[s][o].req = r
      /\ \A x \in Servers, y \in Conns :
           ~ (x = s /\ y = o) => thr'[x][y] = thr[x][y]
  BY <1>1, TypeFacts DEF Apply, ThreadTable, Thread
<1>3. /\ out'[s][o] \in WriteAnswers(r)
      /\ \A x \in Servers, y \in Conns :
           ~ (x = s /\ y = o) => out'[x][y] = out[x][y]
  <2> HIDE DEF r
  <2>1. PICK m : /\ m = invoke(MessageOf(r), list[s]).msg
                 /\ out' = [out EXCEPT ![s][o] = m]
    BY DEF Apply, r
  <2>2. m \in WriteAnswers(r)
    BY <1>1, <2>1, WriteAnswer
  <2>3. \A x \in Servers, y \in Conns :
          /\ x = s /\ y = o => out'[x][y] = m
          /\ ~ (x = s /\ y = o) => out'[x][y] = out[x][y]
    <3>1. PICK V : out \in [Servers -> [Conns -> V]]
      BY AnswersOf
    <3> QED BY <2>1, <3>1
  <2> QED BY <2>2, <2>3
<1>4. PICK h \in Seq(Requests) : h = hist[s]
  BY <1>1 DEF TypeOK, ThreadTypeOK
<1>5. /\ hist'[s] = Append(h, r)
      /\ \A x \in Servers : x # s => hist'[x] = hist[x]
  BY <1>1, <1>4 DEF Apply, TypeOK, ThreadTypeOK
<1>6. /\ Holds(hist'[s], r)
      /\ \A w : Holds(hist[s], w) => Holds(hist'[s], w)
      /\ \A g : IsBeginning(g, hist[s]) => IsBeginning(g, hist'[s])
  BY <1>1, <1>4, <1>5, Extends
<1> HIDE DEF r
<1>7. thr[s][o].pc = "apply" =>
        \E t \in Servers : t = s + 1 /\ hist[t] = Append(h, r)
  <2> SUFFICES ASSUME thr[s][o].pc = "apply"
               PROVE  \E t \in Servers : t = s + 1 /\ hist[t] = Append(h, r)
    OBVIOUS
  <2>1. s < N
    BY DEF RowInv, ForwardsSucceed
  <2>2. PICK t \in Servers : t = s + 1
    BY <2>1, ChainAssumption DEF Servers
  <2>3. Ahead(s, o)
    BY DEF Ahead
  <2>4. hist[t] = Append(hist[s], thr[s][o].req)
    BY <2>2, <2>3 DEF RowInv, Lead
  <2> QED BY <1>4, <2>2, <2>4 DEF r
<1>8. LinksHold' /\ ForwardsSucceed'
  BY <1>1, <1>2 DEF RowInv, LinksHold, ForwardsSucceed
<1>9. AnswersAreApplied'
  <2> SUFFICES ASSUME NEW x \in Servers, NEW y \in Conns,
                      thr'[x][y].pc = "reply", thr'[x][y].req \in Writes
               PROVE  /\ out'[x][y] \in WriteAnswers(thr'[x][y].req)
                      /\ Holds(hist'[x], thr'[x][y].req)
    BY DEF AnswersAreApplied, WriteAnswers
  <2>1. CASE x = s /\ y = o
    BY <1>2, <1>3, <1>6, <2>1
  <2>2. CASE ~ (x = s /\ y = o)
    <3>1. thr'[x][y] = thr[x][y] /\ out'[x][y] = out[x][y]
      BY <1>2, <1>3, <2>2
    <3>2. out[x][y] \in WriteAnswers(thr[x][y].req) /\ Holds(hist[x], thr[x][y].req)
      BY <3>1 DEF RowInv, AnswersAreApplied
    <3>3. Holds(hist[x], thr[x][y].req) => Holds(hist'[x], thr[x][y].req)
      BY <1>5, <1>6
    <3> QED BY <3>1, <3>2, <3>3
  <2> QED BY <2>1, <2>2
<1>10. Lead'
  <2> SUFFICES ASSUME NEW a \in Servers, NEW b \in Servers, b = a + 1
               PROVE  /\ \A y \in Conns : Ahead(a, y)' =>
                           hist'[b] = Append(hist'[a], thr'[a][y].req)
                      /\ (\A y \in Conns : ~ Ahead(a, y)') => hist'[b] = hist'[a]
    BY DEF Lead
  <2>1. a # b
    BY DEF Servers
  <2>2. /\ \A y \in Conns : Ahead(a, y) => hist[b] = Append(hist[a], thr[a][y].req)
        /\ (\A y \in Conns : ~ Ahead(a, y)) => hist[b] = hist[a]
    BY DEF RowInv, Lead
  <2>3. CASE a = s
    <3>1. thr[s][o].pc = "apply"
      <4>1. a # N
        BY ChainAssumption DEF Servers
      <4> QED BY <1>1, <2>3, <4>1 DEF RowInv, ForwardsSucceed
    <3>2. hist'[b] = hist'[a]
      BY <1>5, <1>7, <2>1, <2>3, <3>1
    <3>3. \A y \in Conns : ~ Ahead(a, y)'
      BY <2>3, ApplyAhead
    <3> QED BY <3>2, <3>3
  <2>4. CASE b = s
    <3>1. /\ \A y \in Conns : ~ Ahead(a, y)
          /\ \E y \in Conns : Ahead(a, y)'
          /\ \A y \in Conns : Ahead(a, y)' => thr'[a][y].req = r
      BY <2>4, ApplyAhead DEF r
    <3>2. hist'[b] = Append(hist'[a], r)
      BY <1>4, <1>5, <2>1, <2>2, <2>4, <3>1
    <3> QED BY <3>1, <3>2
  <2>5. CASE a # s /\ b # s
    <3>1. \A y \in Conns : /\ Ahead(a, y)' <=> Ahead(a, y)
                           /\ thr'[a][y] = thr[a][y]
      BY <2>5, ApplyAhead
    <3> QED BY <1>5, <2>2, <2>5, <3>1
  <2> QED BY <2>3, <2>4, <2>5
<1>11. Prefix'
  <2> SUFFICES ASSUME NEW x \in Servers, NEW y \in Servers, x <= y
               PROVE  IsBeginning(hist'[x], hist'[y])
    BY DEF Prefix, IsBeginning
  <2>1. IsBeginning(hist[x], hist[y])
    BY DEF RowInv, Prefix
  <2>2. CASE x = y
    BY <2>2 DEF IsBeginning
  <2>3. CASE x = s /\ x # y
    <3>1. s # N
      BY <2>3, ChainAssumption DEF Servers
    <3>2. thr[s][o].pc = "apply"
      BY <1>1, <3>1 DEF RowInv, ForwardsSucceed
    <3>3. PICK t \in Servers : t = s + 1 /\ hist[t] = Append(h, r)
      BY <1>7, <3>2
    <3>4. t <= y
      BY <2>3, <3>3 DEF Servers
    <3>5. IsBeginning(hist[t], hist[y])
      BY <3>4 DEF RowInv, Prefix
    <3> QED BY <1>5, <2>3, <3>3, <3>5
  <2>4. CASE y = s /\ x # y
    BY <1>5, <1>6, <2>1, <2>4
  <2>5. CASE x # s /\ y # s
    BY <1>5, <2>1, <2>5
  <2> QED BY <2>2, <2>3, <2>4, <2>5
<1> QED BY <1>8, <1>9, <1>10, <1>11 DEF RowInv
-----------------------------------------------------------------------------
(* The steps that are left, all together. *)
Moves ==
  \/ \E s \in Servers, o \in Conns :
       \/ TakeListLock(s, o) \/ Read(s, o) \/ Forward(s, o)
       \/ ForwardReturns(s, o) \/ Apply(s, o) \/ Hangup(s, o)
  \/ \E c \in Clients :
       ClientReceive(c) \/ \E r \in Requests : ClientSend(c, r)
  \/ UNCHANGED vars

LEMMA MovesSettled ==
  ASSUME Settled, Moves
  PROVE  Settled'
<1>1. UNCHANGED <<event, main, upd, rl_next, cupd, link, faults>>
  <2>1. ASSUME NEW s \in Servers, NEW o \in Conns,
               \/ TakeListLock(s, o) \/ Read(s, o) \/ Forward(s, o)
               \/ ForwardReturns(s, o) \/ Apply(s, o) \/ Hangup(s, o)
        PROVE  UNCHANGED <<event, main, upd, rl_next, cupd, link, faults>>
    BY <2>1 DEF TakeListLock, Read, Forward, ForwardReturns, Apply, Hangup,
       server, zookeeper, clients
  <2>2. ASSUME NEW c \in Clients,
               ClientReceive(c) \/ \E r \in Requests : ClientSend(c, r)
        PROVE  UNCHANGED <<event, main, upd, rl_next, cupd, link, faults>>
    BY <2>2 DEF ClientReceive, ClientSend, server, zookeeper
  <2>3. CASE UNCHANGED vars
    BY <2>3 DEF vars, server, zookeeper, clients
  <2> QED BY <2>1, <2>2, <2>3 DEF Moves
<1> QED BY <1>1 DEF Settled

LEMMA MovesTables ==
  ASSUME TablesFit, Moves
  PROVE  TablesFit'
<1>1. out' = [s \in Servers |-> [o \in Conns |-> out'[s][o]]]
  <2>1. CASE UNCHANGED out
    BY <2>1 DEF TablesFit
  <2>2. ASSUME NEW a, NEW b, NEW v, out' = [out EXCEPT ![a][b] = v]
        PROVE  out' = [s \in Servers |-> [o \in Conns |-> out'[s][o]]]
    BY <2>2, AnswerIsSet
  <2>3. \/ UNCHANGED out
        \/ \E a, b, v : out' = [out EXCEPT ![a][b] = v]
    <3>1. ASSUME NEW s \in Servers, NEW o \in Conns,
                 TakeListLock(s, o) \/ Forward(s, o)
          PROVE  UNCHANGED out
      BY <3>1 DEF TakeListLock, Forward
    <3>2. ASSUME NEW s \in Servers, NEW o \in Conns,
                 \/ Read(s, o) \/ ForwardReturns(s, o)
                 \/ Apply(s, o) \/ Hangup(s, o)
          PROVE  \E a, b, v : out' = [out EXCEPT ![a][b] = v]
      <4>1. CASE Read(s, o)
        BY <4>1 DEF Read
      <4>2. CASE ForwardReturns(s, o)
        BY <4>2 DEF ForwardReturns
      <4>3. CASE Apply(s, o)
        BY <4>3 DEF Apply
      <4>4. CASE Hangup(s, o)
        BY <4>4 DEF Hangup
      <4> QED BY <3>2, <4>1, <4>2, <4>3, <4>4
    <3>3. ASSUME NEW c \in Clients, ClientReceive(c)
          PROVE  \E a, b, v : out' = [out EXCEPT ![a][b] = v]
      BY <3>3 DEF ClientReceive
    <3>4. ASSUME NEW c \in Clients, NEW r \in Requests, ClientSend(c, r)
          PROVE  UNCHANGED out
      BY <3>4 DEF ClientSend
    <3>5. CASE UNCHANGED vars
      BY <3>5 DEF vars, threads
    <3> QED BY <3>1, <3>2, <3>3, <3>4, <3>5, Zenon DEF Moves
  <2> QED BY <2>1, <2>2, <2>3
<1>2. reply' = [r \in Requests |-> reply'[r]]
  <2>1. \/ UNCHANGED reply
        \/ \E r, v : reply' = [reply EXCEPT ![r] = v]
    <3>1. ASSUME NEW s \in Servers, NEW o \in Conns,
                 \/ TakeListLock(s, o) \/ Read(s, o) \/ Forward(s, o)
                 \/ ForwardReturns(s, o) \/ Apply(s, o) \/ Hangup(s, o)
          PROVE  UNCHANGED reply
      BY <3>1 DEF TakeListLock, Read, Forward, ForwardReturns, Apply, Hangup,
         clients
    <3>2. ASSUME NEW c \in Clients, ClientReceive(c)
          PROVE  \E r, v : reply' = [reply EXCEPT ![r] = v]
      BY <3>2 DEF ClientReceive, Finish
    <3>3. ASSUME NEW c \in Clients, NEW r \in Requests, ClientSend(c, r)
          PROVE  \/ UNCHANGED reply
                 \/ \E w, v : reply' = [reply EXCEPT ![w] = v]
      BY <3>3 DEF ClientSend, Finish, Killed
    <3>4. CASE UNCHANGED vars
      BY <3>4 DEF vars, clients
    <3> QED BY <3>1, <3>2, <3>3, <3>4, Zenon DEF Moves
  <2>2. \A r, v : [reply EXCEPT ![r] = v]
          = [w \in Requests |-> [reply EXCEPT ![r] = v][w]]
    BY DEF TablesFit
  <2>3. CASE UNCHANGED reply
    BY <2>3 DEF TablesFit
  <2>4. CASE \E r, v : reply' = [reply EXCEPT ![r] = v]
    BY <2>2, <2>4
  <2> QED BY <2>1, <2>3, <2>4
<1> QED BY <1>1, <1>2 DEF TablesFit

LEMMA MovesRows ==
  ASSUME Inv, Settled, TablesFit, RowInv, Moves
  PROVE  RowInv'
<1>1. CASE UNCHANGED vars
  BY <1>1 DEF vars, server, threads, lists, RowInv, LinksHold, ForwardsSucceed,
     AnswersAreApplied, Lead, Ahead, Prefix, IsBeginning
<1>2. ASSUME NEW s \in Servers, NEW o \in Conns,
             \/ TakeListLock(s, o) \/ Read(s, o) \/ Forward(s, o)
             \/ ForwardReturns(s, o) \/ Apply(s, o) \/ Hangup(s, o)
      PROVE  RowInv'
  BY <1>2, QuietThreadRows, ForwardRows, ForwardReturnsRows, ApplyRows
<1>3. ASSUME NEW c \in Clients,
             ClientReceive(c) \/ \E r \in Requests : ClientSend(c, r)
      PROVE  RowInv'
  BY <1>3, CommandRows
<1> QED BY <1>1, <1>2, <1>3, Zenon DEF Moves

(* A client gets its answer to a write from the first server. *)
LEMMA MovesAcked ==
  ASSUME Inv, Settled, TablesFit, RowInv, AckedAtHead, Moves
  PROVE  AckedAtHead'
<1>1. 1 \in Servers
  BY ChainAssumption DEF Servers
<1>2. \A w : Holds(hist[1], w) => Holds(hist'[1], w)
  <2>1. CASE hist' = hist
    BY <2>1
  <2>2. ASSUME NEW s \in Servers, NEW o \in Conns, Apply(s, o)
        PROVE  \A w : Holds(hist[1], w) => Holds(hist'[1], w)
    <3>1. PICK r \in Requests : hist' = [hist EXCEPT ![s] = Append(hist[s], r)]
      <4>1. thr[s][o].req \in Writes
        BY <2>2 DEF Apply, Inv, Safe, HoldersHaveWrites, HoldsList
      <4> QED BY <2>2, <4>1 DEF Apply, Writes
    <3>2. PICK h \in Seq(Requests) : h = hist[1]
      BY <1>1 DEF Inv, TypeOK, ThreadTypeOK
    <3>3. CASE s = 1
      <4>1. hist'[1] = Append(h, r)
        BY <1>1, <3>1, <3>2, <3>3 DEF Inv, TypeOK, ThreadTypeOK
      <4> QED BY <3>2, <4>1, Extends
    <3>4. CASE s # 1
      BY <1>1, <3>1, <3>4 DEF Inv, TypeOK, ThreadTypeOK
    <3> QED BY <3>3, <3>4
  <2>3. hist' = hist \/ \E s \in Servers, o \in Conns : Apply(s, o)
    <3>1. ASSUME NEW s \in Servers, NEW o \in Conns,
                 \/ TakeListLock(s, o) \/ Read(s, o) \/ Forward(s, o)
                 \/ ForwardReturns(s, o) \/ Hangup(s, o)
          PROVE  hist' = hist
      BY <3>1 DEF TakeListLock, Read, Forward, ForwardReturns, Hangup, lists
    <3>2. ASSUME NEW c \in Clients,
                 ClientReceive(c) \/ \E r \in Requests : ClientSend(c, r)
          PROVE  hist' = hist
      BY <3>2 DEF ClientReceive, ClientSend, lists
    <3>3. CASE UNCHANGED vars
      BY <3>3 DEF vars, threads, lists
    <3> QED BY <3>1, <3>2, <3>3, Zenon DEF Moves
  <2> QED BY <2>1, <2>2, <2>3
<1>3. CASE UNCHANGED reply
  BY <1>2, <1>3 DEF AckedAtHead
<1>4. ASSUME NEW r, reply' = [reply EXCEPT ![r] = NULL]
      PROVE  AckedAtHead'
  BY <1>2, <1>4 DEF AckedAtHead, TablesFit, Writes
<1>5. ASSUME NEW c \in Clients, ClientReceive(c)
      PROVE  AckedAtHead'
  <2>1. PICK r, o, t, v :
          /\ r = client[c].req /\ o = EndConn(c, EndOf(r)) /\ t = link[o]
          /\ v = Returned(t, o)
          /\ reply' = [reply EXCEPT ![r] = v]
    BY <1>5 DEF ClientReceive, Finish
  <2>2. \A w \in Requests : reply'[w] = IF w = r THEN v ELSE reply[w]
    BY <2>1 DEF TablesFit
  <2>3. ASSUME r \in Writes, v # NULL PROVE Holds(hist[1], r)
    <3>1. EndOf(r) = "head"
      BY <2>3, RequestAssumption, ChainAssumption
      DEF EndOf, Writes, needs_forward, MessageOf
    <3>2. o = EndConn(c, "head") /\ o \in Conns /\ t = 1
      BY <2>1, <3>1, ConnNames DEF Settled
    <3>3. thr[t][o].pc = "reply"
      BY <2>1, <2>3 DEF Returned
    <3>4. thr[t][o].req = r
      BY <1>1, <2>1, <3>2, <3>3 DEF Busy, Inv, Safe, ClientsMatch
    <3> QED BY <1>1, <2>3, <3>2, <3>3, <3>4 DEF RowInv, AnswersAreApplied
  <2> QED BY <1>2, <2>2, <2>3 DEF AckedAtHead, Writes
<1>6. \/ UNCHANGED reply
      \/ \E r : reply' = [reply EXCEPT ![r] = NULL]
      \/ \E c \in Clients : ClientReceive(c)
  <2>1. ASSUME NEW c \in Clients, NEW r \in Requests, ClientSend(c, r)
        PROVE  UNCHANGED reply \/ reply' = [reply EXCEPT ![r] = NULL]
    BY <2>1 DEF ClientSend, Finish, Killed
  <2>2. ASSUME NEW s \in Servers, NEW o \in Conns,
               \/ TakeListLock(s, o) \/ Read(s, o) \/ Forward(s, o)
               \/ ForwardReturns(s, o) \/ Apply(s, o) \/ Hangup(s, o)
        PROVE  UNCHANGED reply
    BY <2>2 DEF TakeListLock, Read, Forward, ForwardReturns, Apply, Hangup,
       clients
  <2>3. CASE UNCHANGED vars
    BY <2>3 DEF vars, clients
  <2> QED BY <2>1, <2>2, <2>3, Zenon DEF Moves
<1> QED BY <1>3, <1>4, <1>5, <1>6

LEMMA NextStable ==
  ASSUME Complete, Inv, StableInv, [Next]_vars
  PROVE  StableInv'
<1>1. Moves
  BY StableStep DEF StableInv, RowInv, Moves
<1> QED BY <1>1, MovesSettled, MovesTables, MovesRows, MovesAcked DEF StableInv

LEMMA InitStable ==
  ASSUME Complete, Init
  PROVE  StableInv
<1>1. Settled
  BY DEF Complete, Init, Settled, Servers, Ends, EndConn
<1>2. TablesFit
  BY DEF Init, TablesFit
<1>3. /\ \A s \in Servers, o \in Conns : thr[s][o].pc \in {"none", "recv"}
      /\ \A s \in Servers : hist[s] = <<>>
  BY DEF Init, Waiting, NoThread
<1>4. LinksHold
  BY ConnNames DEF Init, LinksHold, Waiting, NoThread, Complete, Servers
<1>5. ForwardsSucceed /\ AnswersAreApplied /\ Lead /\ Prefix
  BY <1>3 DEF ForwardsSucceed, AnswersAreApplied, Lead, Ahead, Prefix,
     IsBeginning
<1>6. AckedAtHead
  BY DEF Init, AckedAtHead, Writes
<1> QED BY <1>1, <1>2, <1>4, <1>5, <1>6 DEF StableInv, RowInv

LEMMA AlwaysStable ==
  ASSUME Complete
  PROVE  Spec => []StableInv
<1>1. Init => StableInv
  BY InitStable
<1>2. Inv /\ StableInv /\ [Next]_vars => StableInv'
  BY NextStable
<1>3. Spec => []Inv
  BY AlwaysInv
<1> QED BY <1>1, <1>2, <1>3, PTL DEF Spec

-----------------------------------------------------------------------------
(***************************************************************************)
(* With a complete chain that does not fail, the successor of a server is  *)
(* level with it, or ahead by the one write that client_thread has under   *)
(* lock_list, between its forward and its invoke.                          *)
(***************************************************************************)
THEOREM ChainSuccessorLeads ==
  ASSUME Complete
  PROVE  Spec => []SuccessorLeadsByOne
<1>1. StableInv => SuccessorLeadsByOne
  <2> SUFFICES ASSUME StableInv, NEW s \in Servers, NEW t, t = rl_next[s], t # 0
               PROVE  \/ hist[t] = hist[s]
                      \/ \E o \in Conns :
                           /\ thr[s][o].pc \in {"fwd", "apply"}
                           /\ hist[t] = Append(hist[s], thr[s][o].req)
    BY DEF SuccessorLeadsByOne
  <2>1. t = s + 1 /\ t \in Servers
    BY ChainAssumption DEF StableInv, Settled, Servers
  <2> QED BY <2>1 DEF StableInv, RowInv, Lead, Ahead
<1> QED BY <1>1, AlwaysStable, PTL

(***************************************************************************)
(* With a complete chain that does not fail, a write whose success a       *)
(* client was told of is in the list of every server: the answer has come  *)
(* up through all of them, and each applied the write before it answered.  *)
(***************************************************************************)
THEOREM ChainAckedIsEverywhere ==
  ASSUME Complete
  PROVE  Spec => []AckedIsEverywhere
<1>1. StableInv => AckedIsEverywhere
  <2> SUFFICES ASSUME StableInv, NEW r \in Writes, Succeeded(r),
                      NEW s \in Servers
               PROVE  Holds(hist[s], r)
    BY DEF AckedIsEverywhere, Holds
  <2>1. Holds(hist[1], r)
    BY DEF StableInv, AckedAtHead, Succeeded
  <2>2. 1 \in Servers /\ 1 <= s
    BY ChainAssumption DEF Servers
  <2>3. IsBeginning(hist[1], hist[s])
    BY <2>2 DEF StableInv, RowInv, Prefix
  <2> QED BY <2>1, <2>3 DEF Holds, IsBeginning
<1> QED BY <1>1, AlwaysStable, PTL

(***************************************************************************)
(* With a complete chain that does not fail, all servers apply the writes  *)
(* in one order: the history of a server is a beginning of the history of  *)
(* every server below it, and has no write twice.                          *)
(***************************************************************************)
THEOREM ChainSameOrder ==
  ASSUME Complete
  PROVE  Spec => []SameOrder
<1>1. StableInv /\ AtMostOnce /\ TypeOK => SameOrder
  <2> SUFFICES ASSUME StableInv, AtMostOnce, TypeOK,
                      NEW s \in Servers, NEW t \in Servers,
                      NEW i \in DOMAIN hist[s], NEW j \in DOMAIN hist[s],
                      NEW k \in DOMAIN hist[t], NEW l \in DOMAIN hist[t],
                      hist[s][i] = hist[t][k], hist[s][j] = hist[t][l], i < j
               PROVE  k < l
    BY DEF SameOrder
  <2>1. AppliedOnce
    BY DEF AtMostOnce, StableInv, Settled
  <2>2. CASE s <= t
    <3>1. IsBeginning(hist[s], hist[t])
      BY <2>2 DEF StableInv, RowInv, Prefix
    <3>2. /\ i \in DOMAIN hist[t] /\ hist[t][i] = hist[t][k]
          /\ j \in DOMAIN hist[t] /\ hist[t][j] = hist[t][l]
      BY <3>1 DEF IsBeginning
    <3> QED BY <2>1, <3>2 DEF AppliedOnce
  <2>3. CASE t <= s
    <3>1. IsBeginning(hist[t], hist[s])
      BY <2>3 DEF StableInv, RowInv, Prefix
    <3>2. /\ k \in DOMAIN hist[s] /\ hist[s][k] = hist[s][i]
          /\ l \in DOMAIN hist[s] /\ hist[s][l] = hist[s][j]
      BY <3>1 DEF IsBeginning
    <3> QED BY <2>1, <3>2 DEF AppliedOnce
  <2> QED BY <2>2, <2>3 DEF Servers
<1>2. Spec => []TypeOK
  BY AlwaysInv, PTL DEF Inv
<1> QED BY <1>1, <1>2, AlwaysStable, ChainAtMostOnce, PTL
-----------------------------------------------------------------------------
(* The condition of the refinement: no answer that waits is too long. *)
AnswersGetThrough ==
  \A s \in Servers, o \in Conns :
    thr[s][o].pc = "reply" => Returned(s, o) # NULL

(* A request that is not made yet has no answer and no effect. *)
TodoIsOpen == \A r \in todo : reply[r] = Nothing /\ effect[r] = Nothing

(* A client waits for a request of its own that has no answer yet. *)
WaitsAreOpen ==
  \A c \in Clients : client[c].pc = "wait" =>
    /\ client[c].req \in Requests \ todo
    /\ reply[client[c].req] = Nothing

WaitsAreOne ==
  \A c, d \in Clients :
    client[c].pc = "wait" /\ client[d].pc = "wait"
      /\ client[c].req = client[d].req => c = d

(* No client crashes, and none of its links is cut. *)
ClientsHold ==
  \A c \in Clients :
    /\ client[c].pc # "crashed"
    /\ \A e \in {"head", "tail"} :
         thr[link[EndConn(c, e)]][EndConn(c, e)].pc # "none"

(* What has taken effect is not read again, and is applied at the tail. *)
ReadsAreNew ==
  \A s \in Servers, o \in Conns :
    thr[s][o].pc = "got" /\ thr[s][o].req \in Requests \ Writes =>
      effect[thr[s][o].req] = Nothing

EffectsAreApplied ==
  \A r \in Writes : effect[r] # Nothing => Holds(hist[N], r)

AnsweredIsDone ==
  \A r \in Requests : reply[r] # Nothing => effect[r] # Nothing

(* Every server answers what the last one did. *)
RepliesAreEffects ==
  \A s \in Servers, o \in Conns :
    thr[s][o].pc = "reply" =>
      /\ thr[s][o].req \in Requests
      /\ effect[thr[s][o].req] # Nothing
      /\ out[s][o] = effect[thr[s][o].req]

(* The cars that the requests may put into a list. *)
RequestedCars ==
  {[ano |-> Message[r].data.ano, preco |-> Message[r].data.preco,
    marca |-> Message[r].data.marca, modelo |-> Message[r].data.modelo,
    combustivel |-> Message[r].data.combustivel] :
     r \in {q \in Requests : Message[q].data # NULL}}

CarLists == [size : Int, cars : Seq(RequestedCars)]

ListsHoldCars == \A s \in Servers : list[s] \in CarLists

(* A list has as many cars of every model as that of the successor, but    *)
(* for the write that is ahead: the order may differ, since a read sorts   *)
(* the list of the last server, and with it which car of a model goes.     *)
ListsLead ==
  \A s, t \in Servers : t = s + 1 =>
    /\ \A o \in Conns : Ahead(s, o) =>
         LET done == invoke(MessageOf(thr[s][o].req), list[s])
         IN  /\ SameModels(list[t].cars, done.list.cars)
             /\ effect[thr[s][o].req] = done.msg
    /\ (\A o \in Conns : ~ Ahead(s, o)) =>
         SameModels(list[t].cars, list[s].cars)

ListsFit ==
  /\ list = [s \in Servers |-> list[s]]
  /\ effect = [r \in Requests |-> effect[r]]

ServiceInv ==
  /\ TodoIsOpen /\ WaitsAreOpen /\ WaitsAreOne /\ ClientsHold /\ ReadsAreNew
  /\ EffectsAreApplied /\ AnsweredIsDone /\ RepliesAreEffects /\ ListsLead
  /\ ListsFit /\ ListsHoldCars
-----------------------------------------------------------------------------
(* invoke makes the answer from the message of the request. *)
LEMMA AnswerIsMessage ==
  ASSUME NEW r \in Requests, NEW l
  PROVE  invoke(MessageOf(r), l).msg # Nothing
<1>1. /\ MessageOf(r) = Message[r]
      /\ DOMAIN Message[r] = DOMAIN MESSAGE_T__INIT
  BY ChainAssumption, RequestAssumption DEF MessageOf
<1>2. PICK m : m = Message[r] /\ DOMAIN m = DOMAIN MESSAGE_T__INIT
  BY <1>1
<1>3. DOMAIN invoke(m, l).msg = DOMAIN m
  <2>1. DOMAIN ErrorReply(m) = DOMAIN m
    BY DEF ErrorReply
  <2>2. /\ DOMAIN InvokeSize(m, l).msg = DOMAIN m
        /\ DOMAIN InvokeAdd(m, l).msg = DOMAIN m
        /\ DOMAIN InvokeGet(m, l).msg = DOMAIN m
        /\ DOMAIN InvokeGetListByYear(m, l).msg = DOMAIN m
        /\ DOMAIN InvokeGetModels(m, l).msg = DOMAIN m
        /\ DOMAIN InvokeDel(m, l).msg = DOMAIN m
    BY <2>1 DEF InvokeSize, InvokeAdd, InvokeGet, InvokeGetListByYear,
       InvokeGetModels, InvokeDel
  <2> QED BY <2>1, <2>2 DEF invoke
<1>4. "opcode" \in DOMAIN m /\ "opcode" \notin DOMAIN Nothing
  BY <1>2 DEF MESSAGE_T__INIT, Nothing
<1> QED BY <1>1, <1>2, <1>3, <1>4

(* The cars are those of requests, and their years are numbers. *)
LEMMA RequestedYears == HaveYears(RequestedCars)
BY YearAssumption DEF HaveYears, RequestedCars

(* What add does to the list does not depend on the list. *)
LEMMA AddIs ==
  ASSUME NEW r \in Requests, NEW m, m = Message[r]
  PROVE  \/ \A l : InvokeAdd(m, l) = [msg |-> ErrorReply(m), list |-> l]
         \/ \E car \in RequestedCars : \E ans : \A l :
              InvokeAdd(m, l) = [msg  |-> ans,
                                 list |-> [size |-> l.size + 1,
                                           cars |-> Append(l.cars, car)]]
<1>1. PICK car : car = IF m.data = NULL THEN NULL
                       ELSE data_create(m.data.ano, m.data.preco, m.data.marca,
                                        m.data.modelo, m.data.combustivel)
  OBVIOUS
<1>2. CASE car = NULL \/ data_dup(car) = NULL
  <2>1. \A l : list_add(l, car).rc = -1
    BY <1>2 DEF list_add
  <2> QED BY <1>1, <2>1 DEF InvokeAdd
<1>3. CASE ~ (car = NULL \/ data_dup(car) = NULL)
  <2>1. /\ m.data # NULL
        /\ car = [ano |-> m.data.ano, preco |-> m.data.preco,
                  marca |-> m.data.marca, modelo |-> m.data.modelo,
                  combustivel |-> m.data.combustivel]
    BY <1>1, <1>3 DEF data_create
  <2>2. car \in RequestedCars
    BY <2>1 DEF RequestedCars
  <2>3. data_dup(car) = car
    BY <1>3, <2>1 DEF data_dup, data_create
  <2>4. PICK ans : ans = [m EXCEPT !.opcode = @ + 1, !.c_type = CT_NONE,
                                         !.result = 0]
    OBVIOUS
  <2>5. \A l : list_add(l, car) =
          [rc |-> 0, list |-> [size |-> l.size + 1, cars |-> Append(l.cars, car)]]
    BY <1>3, <2>3 DEF list_add
  <2>6. ASSUME NEW l
        PROVE  InvokeAdd(m, l) = [msg  |-> ans,
                                  list |-> [size |-> l.size + 1,
                                            cars |-> Append(l.cars, car)]]
    <3>1. PICK add : add = list_add(l, car)
      OBVIOUS
    <3>2. InvokeAdd(m, l) = IF add.rc = 0
                              THEN [msg |-> ans, list |-> add.list]
                              ELSE [msg |-> ErrorReply(m), list |-> l]
      BY <1>1, <2>4, <3>1, Zenon DEF InvokeAdd
    <3>3. add = [rc |-> 0, list |-> [size |-> l.size + 1,
                                     cars |-> Append(l.cars, car)]]
      BY <2>5, <3>1, Zenon
    <3> QED BY <3>2, <3>3
  <2> QED BY <2>2, <2>6, Zenon
<1> QED BY <1>2, <1>3

(* Remove takes one car of the model away, if there is one. *)
LEMMA RemoveCounts ==
  ASSUME NEW l \in CarLists, NEW modelo, NEW del,
         del = list_remove_by_model(l, modelo)
  PROVE  /\ del.list \in CarLists
         /\ del.rc = IF HowMany(l.cars, modelo) = 0 THEN 1 ELSE 0
         /\ \A x : HowMany(del.list.cars, x) =
              IF x = modelo /\ HowMany(l.cars, modelo) # 0
                THEN HowMany(l.cars, x) - 1 ELSE HowMany(l.cars, x)
<1>1. l.cars \in Seq(RequestedCars) /\ l.size \in Int
  BY DEF CarLists
<1>2. CASE /\ del.rc = 1 /\ del.list = l
           /\ \A i \in DOMAIN l.cars : ~ (l.cars[i].modelo = modelo)
  <2>1. HowMany(l.cars, modelo) = 0
    BY <1>1, <1>2, HowManyIs
  <2> QED BY <1>2, <2>1
<1>3. ASSUME del.rc = 0, NEW i \in DOMAIN l.cars,
             FirstOfModel(l.cars, modelo, i),
             del.list = [size |-> l.size - 1, cars |-> RemoveAt(l.cars, i)]
      PROVE  /\ del.list \in CarLists
             /\ del.rc = IF HowMany(l.cars, modelo) = 0 THEN 1 ELSE 0
             /\ \A x : HowMany(del.list.cars, x) =
                  IF x = modelo /\ HowMany(l.cars, modelo) # 0
                    THEN HowMany(l.cars, x) - 1 ELSE HowMany(l.cars, x)
  <2>1. l.cars[i].modelo = modelo
    BY <1>3 DEF FirstOfModel
  <2>2. HowMany(l.cars, modelo) # 0
    BY <1>1, <2>1, HowManyIs
  <2>3. PICK t : t = RemoveAt(l.cars, i)
    OBVIOUS
  <2>4. t \in Seq(RequestedCars) /\ WithoutPosition(l.cars, t, i)
    BY <1>1, <2>3, RemoveAtPosition
  <2>5. \A x : HowMany(t, x) = IF x = modelo THEN HowMany(l.cars, x) - 1
                                             ELSE HowMany(l.cars, x)
    BY <1>1, <2>1, <2>4, WithoutCounts
  <2>6. del.list = [size |-> l.size - 1, cars |-> t]
    BY <1>3, <2>3
  <2>7. del.list \in CarLists
    BY <1>1, <2>4, <2>6 DEF CarLists
  <2> QED BY <1>3, <2>2, <2>5, <2>6, <2>7
<1> QED BY <1>1, <1>2, <1>3, RemoveByModel

(* A write does the same to two lists that differ in their order only, or  *)
(* in which car of a model they have: same answer, as many of every model. *)
LEMMA WritesAgree ==
  ASSUME NEW r \in Writes, NEW k \in CarLists, NEW l \in CarLists,
         SameModels(k.cars, l.cars), NEW a, NEW b,
         a = invoke(MessageOf(r), k), b = invoke(MessageOf(r), l)
  PROVE  /\ a.msg = b.msg /\ SameModels(a.list.cars, b.list.cars)
         /\ a.list \in CarLists
<1>1. PICK m : /\ m = Message[r] /\ m = MessageOf(r)
               /\ m.opcode \in {OP_ADD, OP_DEL} /\ r \in Requests
  BY ChainAssumption, RequestAssumption DEF Writes, needs_forward, MessageOf
<1>2. /\ k.cars \in Seq(RequestedCars) /\ l.cars \in Seq(RequestedCars)
      /\ k.size \in Int
  BY DEF CarLists
<1>3. CASE m.opcode = OP_ADD
  <2>1. \A x : invoke(m, x) = InvokeAdd(m, x)
    BY <1>3 DEF invoke, OP_ADD, OP_SIZE, OP_GET, OP_GETLISTBYTEAR,
       OP_GETMODELS, OP_DEL
  <2>2. CASE \A x : InvokeAdd(m, x) = [msg |-> ErrorReply(m), list |-> x]
    <3>1. /\ a = [msg |-> ErrorReply(m), list |-> k]
          /\ b = [msg |-> ErrorReply(m), list |-> l]
      BY <1>1, <2>1, <2>2, Zenon
    <3> QED BY <3>1
  <2>3. ASSUME NEW car \in RequestedCars, NEW ans,
               \A x : InvokeAdd(m, x) =
                 [msg  |-> ans, list |-> [size |-> x.size + 1,
                                             cars |-> Append(x.cars, car)]]
        PROVE  /\ a.msg = b.msg /\ SameModels(a.list.cars, b.list.cars)
               /\ a.list \in CarLists
    <3>1. /\ a = [msg |-> ans, list |-> [size |-> k.size + 1,
                                          cars |-> Append(k.cars, car)]]
          /\ b = [msg |-> ans, list |-> [size |-> l.size + 1,
                                          cars |-> Append(l.cars, car)]]
      BY <1>1, <2>1, <2>3, Zenon
    <3>2. a.list \in CarLists
      BY <1>2, <3>1 DEF CarLists
    <3>3. SameModels(Append(k.cars, car), Append(l.cars, car))
      BY <1>2, AppendCounts DEF SameModels
    <3>4. /\ a.msg = b.msg /\ a.list.cars = Append(k.cars, car)
          /\ b.list.cars = Append(l.cars, car)
      BY <3>1
    <3> QED BY <3>2, <3>3, <3>4, Zenon
  <2> QED BY <1>1, <2>2, <2>3, AddIs, Zenon
<1>4. CASE m.opcode = OP_DEL
  <2>1. \A x : invoke(m, x) = InvokeDel(m, x)
    BY <1>4 DEF invoke, OP_ADD, OP_SIZE, OP_GET, OP_GETLISTBYTEAR,
       OP_GETMODELS, OP_DEL
  <2>2. CASE Len(m.models) # 1
    BY <1>1, <2>1, <2>2 DEF InvokeDel
  <2>3. CASE Len(m.models) = 1
    <3>1. PICK modelo, p, q : /\ modelo = m.models[1]
                              /\ p = list_remove_by_model(k, modelo)
                              /\ q = list_remove_by_model(l, modelo)
      OBVIOUS
    <3> DEFINE Answer(rc) == [m EXCEPT !.opcode = @ + 1,
                                       !.c_type = CT_RESULT, !.result = rc]
    <3>2. /\ a = [msg |-> Answer(p.rc), list |-> p.list]
          /\ b = [msg |-> Answer(q.rc), list |-> q.list]
      BY <1>1, <2>1, <2>3, <3>1, Zenon DEF InvokeDel
    <3> HIDE DEF Answer
    <3>3. p.list \in CarLists /\ p.rc = q.rc
      BY <3>1, RemoveCounts DEF SameModels
    <3>4. SameModels(p.list.cars, q.list.cars)
      BY <3>1, RemoveCounts DEF SameModels
    <3> QED BY <3>2, <3>3, <3>4
  <2> QED BY <2>2, <2>3
<1> QED BY <1>1, <1>3, <1>4

(* What is not forwarded leaves the cars in the list: it may sort them. *)
LEMMA QueryKeepsModels ==
  ASSUME NEW r \in Requests \ Writes, NEW l \in CarLists,
         NEW done, done = invoke(MessageOf(r), l)
  PROVE  done.list \in CarLists /\ SameModels(done.list.cars, l.cars)
<1>1. PICK m : m = MessageOf(r) /\ m.opcode \notin {OP_ADD, OP_DEL}
  BY ChainAssumption DEF MessageOf, Writes, needs_forward
<1>2. l = [size |-> l.size, cars |-> l.cars] /\ l.size \in Int
      /\ l.cars \in Seq(RequestedCars)
  BY DEF CarLists
<1>3. PICK t : t = SortByYear(l.cars)
  OBVIOUS
<1>4. t \in Seq(RequestedCars) /\ SameModels(t, l.cars)
  <2>1. t \in Seq(RequestedCars) /\ StableShuffle(l.cars, t)
    BY <1>2, <1>3, RequestedYears, SortByYearSorts DEF StablySorted
  <2> QED BY <1>2, <2>1, ShuffleCounts
<1>5. list_order_by_year(l) = [size |-> l.size, cars |-> t]
  BY <1>2, <1>3 DEF list_order_by_year
<1>6. done.list = l \/ done.list = list_order_by_year(l)
  BY <1>1 DEF invoke, InvokeSize, InvokeGet, InvokeGetModels,
     InvokeGetListByYear, OP_SIZE, OP_ADD, OP_GET, OP_DEL, OP_GETMODELS,
     OP_GETLISTBYTEAR
<1>7. CASE done.list = l
  BY <1>7 DEF SameModels
<1>8. CASE done.list = [size |-> l.size, cars |-> t]
  BY <1>2, <1>4, <1>8 DEF CarLists
<1> QED BY <1>5, <1>6, <1>7, <1>8

(* A read that has arrived was sent by a client, to the last server. *)
LEMMA ReaderIsClient ==
  ASSUME Inv, Settled, NEW s \in Servers, NEW o \in Conns,
         thr[s][o].pc = "got", thr[s][o].req \in Requests \ Writes
  PROVE  /\ s = N
         /\ \E c \in Clients : /\ o = EndConn(c, "tail")
                               /\ client[c].pc = "wait"
                               /\ client[c].req = thr[s][o].req
<1>1. Busy(s, o)
  BY DEF Busy
<1>2. \A k \in Servers : o # FetchConn(k)
  BY ChainAssumption DEF Inv, Safe, FetchersFetch
<1>3. \A k \in Servers : o # NextConn(k)
  <2> SUFFICES ASSUME NEW k \in Servers, o = NextConn(k)
               PROVE  FALSE
    OBVIOUS
  <2>1. rl_next[k] = s /\ rls_lock[k] \in Conns
    BY <1>1 DEF Settled, Inv, Safe, LinksMatch
  <2>2. PICK p \in Conns : thr[k][p].pc = "fwd"
    BY <2>1 DEF Inv, Safe, ForwardOwnsRlsLock
  <2>3. thr[k][p].req = thr[s][o].req
    BY <2>1, <2>2 DEF Inv, Safe, ForwardsMatch
  <2> QED BY <2>2, <2>3 DEF Inv, Safe, HoldersHaveWrites, HoldsList
<1>4. PICK c \in Clients, e \in {"head", "tail"} : o = EndConn(c, e)
  <2>1. o \notin Links
    BY <1>2, <1>3 DEF Links, NextConn, FetchConn
  <2> QED BY <2>1 DEF Conns, Ends, EndConn
<1>5. /\ link[o] = s /\ client[c].pc = "wait" /\ client[c].req = thr[s][o].req
      /\ EndOf(thr[s][o].req) = e
  BY <1>1, <1>4 DEF Inv, Safe, ClientsMatch
<1>6. e = "tail"
  BY <1>5 DEF EndOf, Writes, needs_forward
<1> QED BY <1>4, <1>5, <1>6 DEF Settled

(* The threads of a client wait for it as long as it runs. *)
LEMMA NoHangup ==
  ASSUME Settled, ClientsHold, NEW s \in Servers, NEW o \in Conns
  PROVE  ~ Hangup(s, o)
<1>1. o \in Links => main[o[1]] = "serving"
  BY DEF Links, Settled
<1>2. o \in Ends => client[o[1]].pc # "crashed"
  BY DEF Ends, ClientsHold
<1> QED BY <1>1, <1>2 DEF Hangup

(* A client's two links lead to servers. *)
LEMMA LinkedThreads ==
  ASSUME Settled, NEW c \in Clients, NEW e \in {"head", "tail"}
  PROVE  link[EndConn(c, e)] \in Servers /\ EndConn(c, e) \in Conns
<1>1. 1 \in Servers /\ N \in Servers
  BY ChainAssumption DEF Servers
<1> QED BY <1>1, ConnNames DEF Settled

(* Taking lock_list and forwarding. *)
LEMMA ServiceFrame ==
  ASSUME Settled, ServiceInv, AheadStays, ThreadsGoOn,
         UNCHANGED <<client, link, todo, reply, list, effect, hist>>
  PROVE  ServiceInv'
<1>1. TodoIsOpen' /\ WaitsAreOpen' /\ WaitsAreOne'
  BY DEF ServiceInv, TodoIsOpen, WaitsAreOpen, WaitsAreOne
<1>2. ClientsHold'
  BY LinkedThreads DEF ServiceInv, ClientsHold, ThreadsGoOn
<1>3. ReadsAreNew'
  BY DEF ServiceInv, ReadsAreNew, ThreadsGoOn
<1>4. EffectsAreApplied' /\ AnsweredIsDone' /\ ListsFit' /\ ListsHoldCars'
  BY DEF ServiceInv, EffectsAreApplied, AnsweredIsDone, ListsFit,
     ListsHoldCars, Holds
<1>5. RepliesAreEffects'
  BY DEF ServiceInv, RepliesAreEffects, ThreadsGoOn
<1>6. ListsLead'
  BY DEF ServiceInv, ListsLead, AheadStays
<1> QED BY <1>1, <1>2, <1>3, <1>4, <1>5, <1>6 DEF ServiceInv

LEMMA ForwardingKeepsService ==
  ASSUME Inv, Settled, TablesFit, RowInv, ServiceInv,
         NEW s \in Servers, NEW o \in Conns,
         TakeListLock(s, o) \/ Forward(s, o) \/ ForwardReturns(s, o)
  PROVE  ServiceInv' /\ UNCHANGED <<todo, reply, list, effect>>
<1>1. UNCHANGED <<client, link, todo, reply, list, effect, hist>>
  BY DEF TakeListLock, Forward, ForwardReturns, lists, clients
<1>2. AheadStays
  BY QuietThreadRows, ForwardRows, ForwardReturnsRows
<1>3. ThreadsGoOn
  <2>1. CASE TakeListLock(s, o)
    <3>1. /\ thr[s][o].pc = "got" /\ UNCHANGED out
          /\ thr' = [thr EXCEPT ![s][o].pc = "locked"]
      BY <2>1 DEF TakeListLock
    <3>2. TypeOK
      BY DEF Inv
    <3> QED BY <3>1, <3>2, PcMoves DEF ThreadsGoOn
  <2>2. CASE Forward(s, o) \/ ForwardReturns(s, o)
    BY <2>2, ForwardRows, ForwardReturnsRows
  <2> QED BY <2>1, <2>2
<1> QED BY <1>1, <1>2, <1>3, ServiceFrame
(* What the steps of the chain do to the one list. *)
CallStep(r) ==
  /\ r \in todo /\ todo' = todo \ {r}
  /\ UNCHANGED <<reply, list, effect>>

PerformStep(r) ==
  LET done == invoke(MessageOf(r), list[N])
  IN  /\ r \notin todo /\ reply[r] = Nothing /\ effect[r] = Nothing
      /\ list'[N] = done.list
      /\ effect' = [effect EXCEPT ![r] = done.msg]
      /\ UNCHANGED <<todo, reply>>

ReturnStep(r) ==
  /\ r \notin todo /\ reply[r] = Nothing /\ effect[r] # Nothing
  /\ reply' = [reply EXCEPT ![r] = effect[r]]
  /\ UNCHANGED <<todo, list, effect>>

(* A read takes effect at the last server, where its client is linked. *)
LEMMA ReadKeepsService ==
  ASSUME Inv, Settled, TablesFit, RowInv, FetchesMatch, ServiceInv,
         NEW s \in Servers, NEW o \in Conns, Read(s, o)
  PROVE  ServiceInv' /\ PerformStep(thr[s][o].req)
<1>1. PICK r : r = thr[s][o].req
  OBVIOUS
<1>2. /\ TypeOK /\ thr[s][o].pc = "got" /\ ~ needs_forward(r)
      /\ UNCHANGED <<client, link, todo, reply, hist>>
  BY <1>1 DEF Read, clients, Inv
<1>3. r \in Requests \ Writes
  <2>1. r # FETCH
    BY <1>1, <1>2 DEF FetchesMatch, Settled
  <2>2. r \in Requests \cup {FETCH}
    BY <1>1, <1>2, TypeFacts DEF ThreadTable, Thread
  <2> QED BY <1>2, <2>1, <2>2 DEF Writes
<1>4. PICK c \in Clients : /\ s = N /\ o = EndConn(c, "tail")
                           /\ client[c].pc = "wait" /\ client[c].req = r
  BY <1>1, <1>2, <1>3, ReaderIsClient
<1>5. r \notin todo /\ reply[r] = Nothing /\ effect[r] = Nothing
  BY <1>1, <1>2, <1>3, <1>4 DEF ServiceInv, WaitsAreOpen, ReadsAreNew
<1>6. PICK done : done = invoke(MessageOf(r), list[s])
  OBVIOUS
<1>7. /\ list' = [list EXCEPT ![s] = done.list]
      /\ out' = [out EXCEPT ![s][o] = done.msg]
      /\ effect' = [effect EXCEPT ![r] = done.msg]
      /\ thr' = [thr EXCEPT ![s][o].pc = "reply"]
  BY <1>1, <1>3, <1>6, ChainAssumption DEF Read
<1>8. /\ done.list \in CarLists /\ SameModels(done.list.cars, list[s].cars)
      /\ list'[s] = done.list /\ \A x \in Servers : x # s => list'[x] = list[x]
      /\ list' = [x \in Servers |-> list'[x]] /\ done.msg # Nothing
      /\ \A w \in Requests : effect'[w] = IF w = r THEN done.msg ELSE effect[w]
      /\ effect' = [w \in Requests |-> effect'[w]]
  <2>1. done.list \in CarLists /\ SameModels(done.list.cars, list[s].cars)
    BY <1>3, <1>6, QueryKeepsModels DEF ServiceInv, ListsHoldCars
  <2>2. done.msg # Nothing
    BY <1>3, <1>6, AnswerIsMessage
  <2> QED BY <1>7, <2>1, <2>2 DEF ServiceInv, ListsFit
<1>9. /\ \A x \in Servers, y \in Conns : thr'[x][y].req = thr[x][y].req
      /\ \A x \in Servers, y \in Conns :
           x # s \/ y # o => thr'[x][y] = thr[x][y]
      /\ thr'[s][o].pc = "reply"
  BY <1>2, <1>7, TypeFacts DEF ThreadTable, Thread
<1>10. /\ out'[s][o] = done.msg
       /\ \A x \in Servers, y \in Conns :
            x # s \/ y # o => out'[x][y] = out[x][y]
  <2>1. PICK V : out \in [Servers -> [Conns -> V]]
    BY AnswersOf
  <2> QED BY <1>7, <2>1
<1>11. TodoIsOpen' /\ WaitsAreOpen' /\ WaitsAreOne'
  <2>1. todo \subseteq Requests
    BY <1>2 DEF TypeOK, ClientTypeOK
  <2> QED BY <1>2, <1>5, <1>8, <2>1
          DEF ServiceInv, TodoIsOpen, WaitsAreOpen, WaitsAreOne
<1>12. ClientsHold'
  <2>1. \A x \in Servers, y \in Conns :
          thr[x][y].pc # "none" => thr'[x][y].pc # "none"
    BY <1>9
  <2> QED BY <1>2, <2>1, LinkedThreads DEF ServiceInv, ClientsHold
<1>13. ReadsAreNew'
  <2> SUFFICES ASSUME NEW x \in Servers, NEW y \in Conns, thr'[x][y].pc = "got",
                      thr'[x][y].req \in Requests \ Writes
               PROVE  effect'[thr'[x][y].req] = Nothing
    BY DEF ReadsAreNew, Writes
  <2>1. (x # s \/ y # o) /\ thr'[x][y] = thr[x][y]
    BY <1>9
  <2>2. PICK d \in Clients : /\ x = N /\ y = EndConn(d, "tail")
                             /\ client[d].pc = "wait"
                             /\ client[d].req = thr[x][y].req
    BY <2>1, ReaderIsClient
  <2>3. thr[x][y].req # r
    BY <1>4, <2>1, <2>2 DEF ServiceInv, WaitsAreOne
  <2> QED BY <1>8, <2>1, <2>3 DEF ServiceInv, ReadsAreNew
<1>14. EffectsAreApplied'
  BY <1>2, <1>3, <1>8 DEF ServiceInv, EffectsAreApplied, Writes
<1>15. AnsweredIsDone'
  BY <1>2, <1>8 DEF ServiceInv, AnsweredIsDone
<1>16. RepliesAreEffects'
  <2> SUFFICES ASSUME NEW x \in Servers, NEW y \in Conns, thr'[x][y].pc = "reply"
               PROVE  /\ thr'[x][y].req \in Requests
                      /\ effect'[thr'[x][y].req] # Nothing
                      /\ out'[x][y] = effect'[thr'[x][y].req]
    BY DEF RepliesAreEffects
  <2>1. CASE x = s /\ y = o
    BY <1>1, <1>3, <1>8, <1>9, <1>10, <2>1
  <2>2. CASE x # s \/ y # o
    <3>1. thr'[x][y] = thr[x][y] /\ out'[x][y] = out[x][y]
      BY <1>9, <1>10, <2>2
    <3> QED BY <1>5, <1>8, <3>1 DEF ServiceInv, RepliesAreEffects
  <2> QED BY <2>1, <2>2
<1>17. ListsLead'
  <2>1. AheadStays
    BY QuietThreadRows
  <2>2. \A x \in Servers, y \in Conns :
          Ahead(x, y) => effect'[thr[x][y].req] = effect[thr[x][y].req]
    <3>1. \A x \in Servers, y \in Conns : Ahead(x, y) => thr[x][y].req \in Writes
      BY DEF Ahead, Inv, Safe, HoldersHaveWrites, HoldsList
    <3> QED BY <1>3, <1>8, <3>1 DEF Writes
  <2> SUFFICES ASSUME NEW a \in Servers, NEW b \in Servers, b = a + 1
               PROVE  /\ \A y \in Conns : Ahead(a, y)' =>
                           LET d == invoke(MessageOf(thr'[a][y].req), list'[a])
                           IN  /\ SameModels(list'[b].cars, d.list.cars)
                               /\ effect'[thr'[a][y].req] = d.msg
                      /\ (\A y \in Conns : ~ Ahead(a, y)') =>
                           SameModels(list'[b].cars, list'[a].cars)
    BY Zenon DEF ListsLead
  <2>3. list'[a] = list[a]
    <3>1. a # N
      BY ChainAssumption DEF Servers
    <3> QED BY <1>4, <1>8, <3>1
  <2>4. SameModels(list'[b].cars, list[b].cars)
    BY <1>8 DEF SameModels
  <2>5. /\ \A y \in Conns : Ahead(a, y) =>
             LET d == invoke(MessageOf(thr[a][y].req), list[a])
             IN  /\ SameModels(list[b].cars, d.list.cars)
                 /\ effect[thr[a][y].req] = d.msg
        /\ (\A y \in Conns : ~ Ahead(a, y)) =>
             SameModels(list[b].cars, list[a].cars)
    BY DEF ServiceInv, ListsLead
  <2> QED BY <2>1, <2>2, <2>3, <2>4, <2>5 DEF AheadStays, SameModels
<1>18. ListsFit' /\ ListsHoldCars'
  BY <1>8 DEF ServiceInv, ListsFit, ListsHoldCars
<1>19. PerformStep(r)
  BY <1>2, <1>4, <1>5, <1>6, <1>7, <1>8 DEF PerformStep
<1> QED BY <1>1, <1>11, <1>12, <1>13, <1>14, <1>15, <1>16, <1>17, <1>18, <1>19
        DEF ServiceInv
(* A write takes effect when the last server applies it; then the others   *)
(* do, and come to the same list and answer.                               *)
LEMMA ApplyKeepsService ==
  ASSUME Inv, Settled, TablesFit, RowInv, FrontierInv, AckedAtHead, ServiceInv,
         NEW s \in Servers, NEW o \in Conns, Apply(s, o)
  PROVE  /\ ServiceInv'
         /\ \/ PerformStep(thr[s][o].req)
            \/ UNCHANGED <<todo, reply, list[N], effect>>
<1>1. PICK r : r = thr[s][o].req
  OBVIOUS
<1>2. /\ TypeOK /\ thr[s][o].pc \in {"local", "apply"}
      /\ UNCHANGED <<client, link, todo, reply>>
      /\ r \in Writes /\ r \in Requests
  BY <1>1 DEF Apply, clients, Inv, Safe, HoldersHaveWrites, HoldsList, Writes
<1>3. PICK done : done = invoke(MessageOf(r), list[s])
  OBVIOUS
<1>4. /\ list' = [list EXCEPT ![s] = done.list]
      /\ out' = [out EXCEPT ![s][o] = done.msg]
      /\ effect' = IF thr[s][o].pc = "local"
                     THEN [effect EXCEPT ![r] = done.msg] ELSE effect
      /\ thr' = [thr EXCEPT ![s][o].pc = "reply"]
      /\ hist' = [hist EXCEPT ![s] = Append(hist[s], r)]
  BY <1>1, <1>3 DEF Apply
<1>5. r \notin todo /\ ~ Holds(hist[s], r)
  BY <1>1, <1>2 DEF FrontierInv, TodoIsFresh, PendingIsNew, Pending, PendingPc,
     ForemostPc
<1>6. N \in Servers /\ 1 \in Servers /\ \A x \in Servers : 1 <= x /\ x <= N
  BY ChainAssumption DEF Servers
<1>7. thr[s][o].pc = "local" => s = N /\ effect[r] = Nothing
  <2>1. thr[s][o].pc = "local" => s = N
    BY DEF RowInv, ForwardsSucceed
  <2> QED BY <1>2, <1>5, <2>1 DEF ServiceInv, EffectsAreApplied
<1>8. thr[s][o].pc = "apply" =>
        \E t \in Servers : /\ t = s + 1
                           /\ SameModels(list[t].cars, done.list.cars)
                           /\ effect[r] = done.msg
  <2> SUFFICES ASSUME thr[s][o].pc = "apply"
               PROVE  \E t \in Servers :
                        /\ t = s + 1 /\ effect[r] = done.msg
                        /\ SameModels(list[t].cars, done.list.cars)
    OBVIOUS
  <2>1. s < N
    BY DEF RowInv, ForwardsSucceed
  <2>2. PICK t \in Servers : t = s + 1
    BY <2>1, ChainAssumption DEF Servers
  <2>3. Ahead(s, o)
    BY DEF Ahead
  <2> QED BY <1>1, <1>3, <2>2, <2>3 DEF ServiceInv, ListsLead
<1>9. /\ list'[s] = done.list /\ \A x \in Servers : x # s => list'[x] = list[x]
      /\ list' = [x \in Servers |-> list'[x]]
  BY <1>4 DEF ServiceInv, ListsFit
<1>10. /\ done.msg # Nothing /\ effect'[r] = done.msg
       /\ \A w \in Requests :
            /\ w # r => effect'[w] = effect[w]
            /\ effect[w] # Nothing => effect'[w] = effect[w]
       /\ effect' = [w \in Requests |-> effect'[w]]
  <2>1. done.msg # Nothing
    BY <1>2, <1>3, AnswerIsMessage
  <2>2. CASE thr[s][o].pc = "local"
    BY <1>2, <1>4, <1>7, <2>1, <2>2 DEF ServiceInv, ListsFit
  <2>3. CASE thr[s][o].pc = "apply"
    BY <1>4, <1>8, <2>1, <2>3 DEF ServiceInv, ListsFit
  <2> QED BY <1>2, <2>2, <2>3
<1>11. /\ \A x \in Servers, y \in Conns :
            x # s \/ y # o => thr'[x][y] = thr[x][y] /\ out'[x][y] = out[x][y]
       /\ thr'[s][o].pc = "reply" /\ thr'[s][o].req = r
       /\ out'[s][o] = done.msg
  <2>1. PICK V : out \in [Servers -> [Conns -> V]]
    BY AnswersOf
  <2>2. /\ \A x \in Servers, y \in Conns :
             x # s \/ y # o => out'[x][y] = out[x][y]
        /\ out'[s][o] = done.msg
    BY <1>4, <2>1
  <2>3. /\ \A x \in Servers, y \in Conns :
             x # s \/ y # o => thr'[x][y] = thr[x][y]
        /\ thr'[s][o].pc = "reply" /\ thr'[s][o].req = r
    BY <1>1, <1>2, <1>4, TypeFacts DEF ThreadTable, Thread
  <2> QED BY <2>2, <2>3
<1>12. TodoIsOpen' /\ WaitsAreOpen' /\ WaitsAreOne'
  <2>1. todo \subseteq Requests
    BY <1>2 DEF TypeOK, ClientTypeOK
  <2> QED BY <1>2, <1>5, <1>10, <2>1
          DEF ServiceInv, TodoIsOpen, WaitsAreOpen, WaitsAreOne
<1>13. ClientsHold'
  <2>1. \A x \in Servers, y \in Conns :
          thr[x][y].pc # "none" => thr'[x][y].pc # "none"
    BY <1>11
  <2> QED BY <1>2, <2>1, LinkedThreads DEF ServiceInv, ClientsHold
<1>14. ReadsAreNew'
  BY <1>2, <1>10, <1>11 DEF ServiceInv, ReadsAreNew
<1>15. EffectsAreApplied'
  <2> SUFFICES ASSUME NEW w \in Writes, effect'[w] # Nothing
               PROVE  Holds(hist'[N], w)
    BY DEF EffectsAreApplied, Writes
  <2>1. PICK h \in Seq(Requests) : h = hist[s]
    BY <1>2 DEF TypeOK, ThreadTypeOK
  <2>2. hist'[s] = Append(h, r) /\ \A x \in Servers : x # s => hist'[x] = hist[x]
    BY <1>2, <1>4, <2>1 DEF TypeOK, ThreadTypeOK
  <2>3. Holds(hist[N], w) => Holds(hist'[N], w)
    BY <1>2, <1>6, <2>1, <2>2, Extends
  <2>4. CASE effect[w] # Nothing
    BY <2>3, <2>4 DEF ServiceInv, EffectsAreApplied
  <2>5. CASE effect[w] = Nothing
    <3>1. w = r
      BY <1>10, <2>5 DEF Writes
    <3>2. s = N
      BY <1>2, <1>7, <1>8, <1>10, <2>5, <3>1
    <3>3. Holds(Append(h, r), r) /\ hist'[N] = Append(h, r)
      BY <1>2, <2>1, <2>2, <3>2, Extends
    <3> QED BY <3>1, <3>3 DEF Holds
  <2> QED BY <2>4, <2>5
<1>16. AnsweredIsDone'
  BY <1>2, <1>10 DEF ServiceInv, AnsweredIsDone
<1>17. RepliesAreEffects'
  <2> SUFFICES ASSUME NEW x \in Servers, NEW y \in Conns, thr'[x][y].pc = "reply"
               PROVE  /\ thr'[x][y].req \in Requests
                      /\ effect'[thr'[x][y].req] # Nothing
                      /\ out'[x][y] = effect'[thr'[x][y].req]
    BY DEF RepliesAreEffects
  <2>1. CASE x = s /\ y = o
    BY <1>2, <1>10, <1>11, <2>1
  <2>2. CASE x # s \/ y # o
    <3>1. thr'[x][y] = thr[x][y] /\ out'[x][y] = out[x][y]
      BY <1>11, <2>2
    <3> QED BY <1>10, <3>1 DEF ServiceInv, RepliesAreEffects
  <2> QED BY <2>1, <2>2
<1>18. ListsLead'
  <2> SUFFICES ASSUME NEW a \in Servers, NEW b \in Servers, b = a + 1
               PROVE  /\ \A y \in Conns : Ahead(a, y)' =>
                           LET d == invoke(MessageOf(thr'[a][y].req), list'[a])
                           IN  /\ SameModels(list'[b].cars, d.list.cars)
                               /\ effect'[thr'[a][y].req] = d.msg
                      /\ (\A y \in Conns : ~ Ahead(a, y)') =>
                           SameModels(list'[b].cars, list'[a].cars)
    BY Zenon DEF ListsLead
  <2>1. a # b
    BY DEF Servers
  <2>2. /\ \A y \in Conns : Ahead(a, y) =>
             LET d == invoke(MessageOf(thr[a][y].req), list[a])
             IN  /\ SameModels(list[b].cars, d.list.cars)
                 /\ effect[thr[a][y].req] = d.msg
        /\ (\A y \in Conns : ~ Ahead(a, y)) =>
             SameModels(list[b].cars, list[a].cars)
    BY DEF ServiceInv, ListsLead
  <2>3. CASE a = s
    <3>1. thr[s][o].pc = "apply"
      <4>1. a # N
        BY ChainAssumption DEF Servers
      <4> QED BY <1>2, <2>3, <4>1 DEF RowInv, ForwardsSucceed
    <3>2. SameModels(list'[b].cars, list'[a].cars)
      BY <1>8, <1>9, <2>1, <2>3, <3>1
    <3>3. \A y \in Conns : ~ Ahead(a, y)'
      BY <2>3, ApplyAhead
    <3> QED BY <3>2, <3>3
  <2>4. CASE b = s
    <3>1. /\ \A y \in Conns : ~ Ahead(a, y)
          /\ \E y \in Conns : Ahead(a, y)'
          /\ \A y \in Conns : Ahead(a, y)' => thr'[a][y].req = r
      BY <1>1, <2>4, ApplyAhead
    <3>2. /\ list'[a] = list[a] /\ list'[b] = done.list
          /\ effect'[r] = done.msg
          /\ SameModels(list[s].cars, list[a].cars)
      BY <1>9, <1>10, <2>1, <2>2, <2>4, <3>1
    <3>3. PICK d : d = invoke(MessageOf(r), list[a])
      OBVIOUS
    <3>4. list[s] \in CarLists /\ list[a] \in CarLists
      BY DEF ServiceInv, ListsHoldCars
    <3>5. done.msg = d.msg /\ SameModels(done.list.cars, d.list.cars)
      BY <1>2, <1>3, <3>2, <3>3, <3>4, WritesAgree
    <3> QED BY <3>1, <3>2, <3>3, <3>5
  <2>5. CASE a # s /\ b # s
    <3>1. \A y \in Conns : /\ Ahead(a, y)' <=> Ahead(a, y)
                           /\ thr'[a][y] = thr[a][y]
      BY <2>5, ApplyAhead
    <3>2. list'[a] = list[a] /\ list'[b] = list[b]
      BY <1>9, <2>5
    <3>3. \A y \in Conns : Ahead(a, y) =>
            effect'[thr[a][y].req] = effect[thr[a][y].req]
      <4> SUFFICES ASSUME NEW y \in Conns, Ahead(a, y)
                   PROVE  effect'[thr[a][y].req] = effect[thr[a][y].req]
        OBVIOUS
      <4>1. thr[a][y].req \in Requests
        BY DEF Ahead, Inv, Safe, HoldersHaveWrites, HoldsList, Writes
      <4>2. effect[thr[a][y].req] # Nothing
        BY <2>2, <4>1, AnswerIsMessage
      <4> QED BY <1>10, <4>1, <4>2
    <3> QED BY <2>2, <3>1, <3>2, <3>3
  <2> QED BY <2>3, <2>4, <2>5
<1>19. ListsFit' /\ ListsHoldCars'
  <2>1. list[s] \in CarLists
    BY DEF ServiceInv, ListsHoldCars
  <2>2. done.list \in CarLists
    BY <1>2, <1>3, <2>1, WritesAgree DEF SameModels
  <2> QED BY <1>9, <1>10, <2>2 DEF ServiceInv, ListsFit, ListsHoldCars
<1>20. PerformStep(r) \/ UNCHANGED <<todo, reply, list[N], effect>>
  <2>1. CASE thr[s][o].pc = "local"
    <3>1. reply[r] = Nothing
      BY <1>2, <1>7, <2>1 DEF ServiceInv, AnsweredIsDone
    <3> QED BY <1>2, <1>3, <1>4, <1>5, <1>7, <1>9, <2>1, <3>1 DEF PerformStep
  <2>2. CASE thr[s][o].pc = "apply"
    <3>1. s # N
      BY <2>2 DEF RowInv, ForwardsSucceed, Servers
    <3> QED BY <1>2, <1>4, <1>6, <1>9, <2>2, <3>1
  <2> QED BY <1>2, <2>1, <2>2
<1> QED BY <1>1, <1>12, <1>13, <1>14, <1>15, <1>16, <1>17, <1>18, <1>19, <1>20
        DEF ServiceInv
(* A command is sent: its thread is there. *)
LEMMA SendKeepsService ==
  ASSUME Inv, Settled, TablesFit, RowInv, ServiceInv,
         NEW c \in Clients, NEW r \in Requests, ClientSend(c, r)
  PROVE  ServiceInv' /\ CallStep(r)
<1>1. PICK o, t : o = EndConn(c, EndOf(r)) /\ t = link[o]
  OBVIOUS
<1>2. o \in Conns /\ t \in Servers /\ t # 0
  BY <1>1, LinkedThreads, EndIsEnd DEF Servers
<1>3. thr[t][o].pc # "none"
  BY <1>1, EndIsEnd DEF ServiceInv, ClientsHold
<1>4. /\ TypeOK /\ r \in todo /\ todo' = todo \ {r} /\ client[c].pc = "idle"
      /\ thr' = [thr EXCEPT ![t][o] = [pc |-> "got", req |-> r]]
      /\ client' = [client EXCEPT ![c] = [pc |-> "wait", req |-> r]]
      /\ UNCHANGED <<reply, link, out, list, effect, hist>>
  BY <1>1, <1>2, <1>3 DEF ClientSend, Broken, lists, Inv
<1>5. /\ client'[c].pc = "wait" /\ client'[c].req = r
      /\ \A d \in Clients : d # c => client'[d] = client[d]
  BY <1>4 DEF TypeOK, ClientTypeOK
<1>6. /\ thr'[t][o].pc = "got" /\ thr'[t][o].req = r
      /\ \A x \in Servers, y \in Conns :
           x # t \/ y # o => thr'[x][y] = thr[x][y]
  BY <1>2, <1>4, TypeFacts DEF ThreadTable
<1>7. reply[r] = Nothing /\ effect[r] = Nothing
  BY <1>4 DEF ServiceInv, TodoIsOpen
<1>8. TodoIsOpen'
  BY <1>4 DEF ServiceInv, TodoIsOpen
<1>9. WaitsAreOpen' /\ WaitsAreOne'
  BY <1>4, <1>5, <1>7 DEF ServiceInv, WaitsAreOpen, WaitsAreOne
<1>10. ClientsHold'
  <2>1. \A d \in Clients : client'[d].pc # "crashed"
    BY <1>5 DEF ServiceInv, ClientsHold
  <2>2. \A x \in Servers, y \in Conns :
          thr[x][y].pc # "none" => thr'[x][y].pc # "none"
    BY <1>6
  <2> QED BY <1>4, <2>1, <2>2, LinkedThreads DEF ServiceInv, ClientsHold
<1>11. ReadsAreNew'
  BY <1>4, <1>6, <1>7 DEF ServiceInv, ReadsAreNew
<1>12. EffectsAreApplied' /\ AnsweredIsDone' /\ ListsFit' /\ ListsHoldCars'
  BY <1>4 DEF ServiceInv, EffectsAreApplied, AnsweredIsDone, ListsFit,
     ListsHoldCars, Holds
<1>13. RepliesAreEffects'
  BY <1>4, <1>6 DEF ServiceInv, RepliesAreEffects
<1>14. ListsLead'
  <2>1. AheadStays
    BY CommandRows
  <2> QED BY <1>4, <2>1 DEF ServiceInv, ListsLead, AheadStays
<1>15. CallStep(r)
  BY <1>4 DEF CallStep
<1> QED BY <1>8, <1>9, <1>10, <1>11, <1>12, <1>13, <1>14, <1>15 DEF ServiceInv

(* A client gets the answer that was given where its request took effect. *)
LEMMA ReceiveKeepsService ==
  ASSUME Inv, Settled, TablesFit, RowInv, AnswersGetThrough, ServiceInv,
         NEW c \in Clients, ClientReceive(c)
  PROVE  ServiceInv' /\ ReturnStep(client[c].req)
<1>1. PICK r, o, t : /\ r = client[c].req
                     /\ o = EndConn(c, EndOf(r)) /\ t = link[o]
  OBVIOUS
<1>2. o \in Conns /\ t \in Servers
  BY <1>1, LinkedThreads, EndIsEnd
<1>3. PICK res, after : res = Returned(t, o) /\ after = AfterReply(t, o)
  OBVIOUS
<1>4. /\ TypeOK /\ client[c].pc = "wait" /\ thr[t][o].pc \in {"none", "reply"}
      /\ reply' = [reply EXCEPT ![r] = res]
      /\ client' = [client EXCEPT ![c] =
           [pc |-> IF res = NULL /\ MessageOf(r).opcode = OP_DEL
                     THEN "crashed" ELSE "idle", req |-> FETCH]]
      /\ thr' = [thr EXCEPT ![t][o] = after]
      /\ out' = [out EXCEPT ![t][o] = NULL]
      /\ UNCHANGED <<link, todo, list, effect, hist>>
  BY <1>1, <1>3 DEF ClientReceive, Finish, Returns, lists, Inv
<1>5. thr[t][o].pc = "reply"
  BY <1>1, <1>4, EndIsEnd DEF ServiceInv, ClientsHold
<1>6. r \in Requests \ todo /\ reply[r] = Nothing
  BY <1>1, <1>4 DEF ServiceInv, WaitsAreOpen
<1>7. thr[t][o].req = r
  <2>1. Busy(t, o)
    BY <1>5 DEF Busy
  <2> QED BY <1>1, <1>2, <2>1, EndIsEnd DEF Inv, Safe, ClientsMatch
<1>8. res = effect[r] /\ res # NULL /\ effect[r] # Nothing
  <2>1. res # NULL
    BY <1>2, <1>3, <1>5 DEF AnswersGetThrough
  <2>2. res = out[t][o]
    BY <1>3, <2>1 DEF Returned
  <2> QED BY <1>2, <1>5, <1>7, <2>1, <2>2 DEF ServiceInv, RepliesAreEffects
<1>9. after.pc = "recv"
  <2>1. ~ Stopping(t)
    BY <1>2 DEF Settled, Stopping
  <2> QED BY <1>3, <1>8, <2>1 DEF AfterReply, Waiting
<1>10. /\ client'[c].pc = "idle"
       /\ \A d \in Clients : d # c => client'[d] = client[d]
  BY <1>4, <1>8 DEF TypeOK, ClientTypeOK
<1>11. /\ thr'[t][o].pc = "recv"
       /\ \A x \in Servers, y \in Conns :
            x # t \/ y # o => /\ thr'[x][y] = thr[x][y]
                              /\ out'[x][y] = out[x][y]
  <2>1. /\ thr'[t][o].pc = "recv"
        /\ \A x \in Servers, y \in Conns :
             x # t \/ y # o => thr'[x][y] = thr[x][y]
    BY <1>2, <1>4, <1>9, TypeFacts DEF ThreadTable
  <2>2. \A x \in Servers, y \in Conns :
          x # t \/ y # o => out'[x][y] = out[x][y]
    BY <1>4, AnswerIsSet
  <2> QED BY <2>1, <2>2
<1>12. reply'[r] = effect[r] /\ \A w \in Requests : w # r => reply'[w] = reply[w]
  BY <1>4, <1>6, <1>8 DEF TablesFit
<1>13. TodoIsOpen'
  <2>1. todo \subseteq Requests
    BY <1>4 DEF TypeOK, ClientTypeOK
  <2> QED BY <1>4, <1>6, <1>12, <2>1 DEF ServiceInv, TodoIsOpen
<1>14. WaitsAreOpen' /\ WaitsAreOne'
  <2>1. \A d \in Clients : client'[d].pc = "wait" =>
          d # c /\ client'[d] = client[d] /\ client[d].req # r
    BY <1>1, <1>4, <1>10 DEF ServiceInv, WaitsAreOne
  <2> QED BY <1>4, <1>12, <2>1 DEF ServiceInv, WaitsAreOpen, WaitsAreOne
<1>15. ClientsHold'
  <2>1. \A d \in Clients : client'[d].pc # "crashed"
    BY <1>10 DEF ServiceInv, ClientsHold
  <2>2. \A x \in Servers, y \in Conns :
          thr[x][y].pc # "none" => thr'[x][y].pc # "none"
    BY <1>11
  <2> QED BY <1>4, <2>1, <2>2, LinkedThreads DEF ServiceInv, ClientsHold
<1>16. ReadsAreNew'
  BY <1>4, <1>11 DEF ServiceInv, ReadsAreNew
<1>17. EffectsAreApplied' /\ ListsFit' /\ ListsHoldCars'
  BY <1>4 DEF ServiceInv, EffectsAreApplied, ListsFit, ListsHoldCars, Holds
<1>18. AnsweredIsDone'
  BY <1>4, <1>8, <1>12 DEF ServiceInv, AnsweredIsDone
<1>19. RepliesAreEffects'
  BY <1>4, <1>11 DEF ServiceInv, RepliesAreEffects
<1>20. ListsLead'
  <2>1. AheadStays
    BY CommandRows
  <2> QED BY <1>4, <2>1 DEF ServiceInv, ListsLead, AheadStays
<1>21. ReturnStep(r)
  BY <1>4, <1>6, <1>8 DEF ReturnStep
<1> QED BY <1>1, <1>13, <1>14, <1>15, <1>16, <1>17, <1>18, <1>19, <1>20, <1>21
        DEF ServiceInv
(* What any step does to the one list. *)
ServiceStep ==
  \/ \E r \in Requests : CallStep(r) \/ PerformStep(r) \/ ReturnStep(r)
  \/ UNCHANGED <<todo, reply, list[N], effect>>

LEMMA NextService ==
  ASSUME Complete, Inv, StableInv, JoinInv, FrontierInv,
         AnswersGetThrough, ServiceInv, [Next]_vars
  PROVE  ServiceInv' /\ ServiceStep
<1>1. Settled /\ TablesFit /\ RowInv /\ AckedAtHead /\ FetchesMatch
  BY DEF StableInv, JoinInv
<1>2. Moves
  BY <1>1, StableStep DEF RowInv, Moves
<1>3. ASSUME NEW s \in Servers, NEW o \in Conns,
             TakeListLock(s, o) \/ Forward(s, o) \/ ForwardReturns(s, o)
      PROVE  ServiceInv' /\ ServiceStep
  <2>1. ServiceInv' /\ UNCHANGED <<todo, reply, list, effect>>
    BY <1>1, <1>3, ForwardingKeepsService
  <2> QED BY <2>1 DEF ServiceStep
<1>4. ASSUME NEW s \in Servers, NEW o \in Conns, Read(s, o)
      PROVE  ServiceInv' /\ ServiceStep
  <2>1. ServiceInv' /\ PerformStep(thr[s][o].req)
    BY <1>1, <1>4, ReadKeepsService
  <2>2. thr[s][o].req \in Requests
    <3>1. /\ thr[s][o].pc = "got"
          /\ thr[s][o].req \in Requests \cup {FETCH}
      BY <1>4, TypeFacts DEF Read, Inv, ThreadTable, Thread
    <3>2. thr[s][o].req # FETCH
      BY <1>1, <3>1 DEF FetchesMatch, Settled
    <3> QED BY <3>1, <3>2
  <2> QED BY <2>1, <2>2 DEF ServiceStep
<1>5. ASSUME NEW s \in Servers, NEW o \in Conns, Apply(s, o)
      PROVE  ServiceInv' /\ ServiceStep
  <2>1. /\ ServiceInv'
        /\ \/ PerformStep(thr[s][o].req)
           \/ UNCHANGED <<todo, reply, list[N], effect>>
    BY <1>1, <1>5, ApplyKeepsService
  <2>2. thr[s][o].req \in Requests
    BY <1>5 DEF Apply, Inv, Safe, HoldersHaveWrites, HoldsList, Writes
  <2> QED BY <2>1, <2>2 DEF ServiceStep
<1>6. ASSUME NEW c \in Clients, ClientReceive(c)
      PROVE  ServiceInv' /\ ServiceStep
  <2>1. ServiceInv' /\ ReturnStep(client[c].req)
    BY <1>1, <1>6, ReceiveKeepsService
  <2>2. client[c].req \in Requests
    BY <1>6 DEF ClientReceive, ServiceInv, WaitsAreOpen
  <2> QED BY <2>1, <2>2 DEF ServiceStep
<1>7. ASSUME NEW c \in Clients, NEW r \in Requests, ClientSend(c, r)
      PROVE  ServiceInv' /\ ServiceStep
  <2>1. ServiceInv' /\ CallStep(r)
    BY <1>1, <1>7, SendKeepsService
  <2> QED BY <2>1 DEF ServiceStep
<1>8. CASE UNCHANGED vars
  <2>1. UNCHANGED <<client, link, thr, out, rl_next, todo, reply, list, effect,
                    hist>>
    BY <1>8 DEF vars, threads, lists, clients, server
  <2>2. AheadStays /\ ThreadsGoOn
    BY <2>1 DEF AheadStays, Ahead, ThreadsGoOn
  <2> QED BY <1>1, <2>1, <2>2, ServiceFrame DEF ServiceStep
<1>9. \A s \in Servers, o \in Conns : ~ Hangup(s, o)
  BY <1>1, NoHangup DEF ServiceInv
<1> QED BY <1>2, <1>3, <1>4, <1>5, <1>6, <1>7, <1>8, <1>9, Zenon DEF Moves

LEMMA InitService ==
  ASSUME Complete, Init
  PROVE  ServiceInv
<1>1. 1 \in Servers /\ N \in Servers
  BY ChainAssumption DEF Servers
<1>2. /\ \A s \in Servers, o \in Conns : thr[s][o].pc \in {"none", "recv"}
      /\ \A c \in Clients : client[c].pc = "idle"
      /\ \A r \in Requests : reply[r] = Nothing /\ effect[r] = Nothing
      /\ \A s, t \in Servers : list[s] = list[t]
      /\ todo = Requests
  BY DEF Init, Waiting, NoThread
<1>3. ClientsHold
  <2>1. ASSUME NEW c \in Clients
        PROVE  /\ thr[1][EndConn(c, "head")].pc # "none"
               /\ thr[N][EndConn(c, "tail")].pc # "none"
    <3>1. /\ EndConn(c, "head") \in Conns /\ EndConn(c, "tail") \in Conns
          /\ EndConn(c, "head") \in Clients \X {"head"}
          /\ EndConn(c, "tail") \in Clients \X {"tail"}
      BY ConnNames DEF EndConn
    <3>2. /\ thr[1][EndConn(c, "head")] = Waiting
          /\ thr[N][EndConn(c, "tail")] = Waiting
      BY <1>1, <3>1 DEF Init, Complete
    <3> QED BY <3>2 DEF Waiting
  <2>2. \A c \in Clients : /\ link[EndConn(c, "head")] = 1
                           /\ link[EndConn(c, "tail")] = N
    BY InitStable DEF StableInv, Settled
  <2> QED BY <1>2, <2>1, <2>2 DEF ClientsHold
<1>4. ListsFit /\ ListsHoldCars
  BY DEF Init, ListsFit, ListsHoldCars, CarLists, list_create
<1>5. TodoIsOpen /\ WaitsAreOpen /\ WaitsAreOne
  BY <1>2 DEF TodoIsOpen, WaitsAreOpen, WaitsAreOne
<1>6. ReadsAreNew /\ EffectsAreApplied /\ AnsweredIsDone /\ RepliesAreEffects
  BY <1>2 DEF ReadsAreNew, EffectsAreApplied, AnsweredIsDone,
     RepliesAreEffects, Writes
<1>7. ListsLead
  BY <1>2 DEF ListsLead, Ahead, SameModels
<1> QED BY <1>3, <1>4, <1>5, <1>6, <1>7 DEF ServiceInv
-----------------------------------------------------------------------------
(* The operations of list_skel.c under the names of the one list. *)
LEMMA SameMessages ==
  /\ \A m : Service!ErrorReply(m) = ErrorReply(m)
  /\ Service!OP_SIZE = OP_SIZE /\ Service!OP_ADD = OP_ADD
  /\ Service!OP_GET = OP_GET /\ Service!OP_GETLISTBYTEAR = OP_GETLISTBYTEAR
  /\ Service!OP_GETMODELS = OP_GETMODELS /\ Service!OP_DEL = OP_DEL
  /\ Service!OP_ERROR = OP_ERROR
  /\ Service!CT_NONE = CT_NONE /\ Service!CT_RESULT = CT_RESULT
  /\ Service!CT_MARCA = CT_MARCA /\ Service!CT_DATA = CT_DATA
  /\ Service!CT_LIST = CT_LIST /\ Service!CT_MODEL = CT_MODEL
BY DEF Service!ErrorReply, ErrorReply, Service!OP_SIZE, OP_SIZE,
   Service!OP_ADD, OP_ADD, Service!OP_GET, OP_GET, Service!OP_GETLISTBYTEAR,
   OP_GETLISTBYTEAR, Service!OP_GETMODELS, OP_GETMODELS, Service!OP_DEL,
   OP_DEL, Service!OP_ERROR, OP_ERROR, Service!CT_NONE, CT_NONE,
   Service!CT_RESULT, CT_RESULT, Service!CT_MARCA, CT_MARCA, Service!CT_DATA,
   CT_DATA, Service!CT_LIST, CT_LIST, Service!CT_MODEL, CT_MODEL

LEMMA SameAdd == \A m, l : Service!InvokeAdd(m, l) = InvokeAdd(m, l)
BY DEF Service!InvokeAdd, InvokeAdd, Service!data_create, data_create,
   Service!data_dup, data_dup, Service!list_add, list_add,
   Service!ErrorReply, ErrorReply, Service!validar_dados, validar_dados,
   Service!MARCA_TOYOTA, MARCA_TOYOTA, Service!MARCA_MERCEDES, MARCA_MERCEDES,
   Service!COMBUSTIVEL_GASOLINA, COMBUSTIVEL_GASOLINA,
   Service!COMBUSTIVEL_HIBRIDO, COMBUSTIVEL_HIBRIDO,
   Service!OP_ERROR, OP_ERROR, Service!CT_NONE, CT_NONE

LEMMA SameDel == \A m, l : Service!InvokeDel(m, l) = InvokeDel(m, l)
<1>1. \A l, x : Service!list_remove_by_model(l, x) = list_remove_by_model(l, x)
  BY DEF Service!list_remove_by_model, list_remove_by_model,
     Service!SelectInSeq, SelectInSeq, Service!RemoveAt, RemoveAt,
     Service!Min, Min
<1> QED BY <1>1, SameMessages DEF Service!InvokeDel, InvokeDel

LEMMA SameGet == \A m, l : Service!InvokeGet(m, l) = InvokeGet(m, l)
<1>1. \A l, x : Service!list_get_by_marca(l, x) = list_get_by_marca(l, x)
  BY DEF Service!list_get_by_marca, list_get_by_marca,
     Service!SelectInSeq, SelectInSeq, Service!Min, Min
<1> QED BY <1>1, SameMessages DEF Service!InvokeGet, InvokeGet

LEMMA SameGetList ==
  \A m, l : Service!InvokeGetListByYear(m, l) = InvokeGetListByYear(m, l)
<1>1. \A l, x : Service!list_get_by_year(l, x) = list_get_by_year(l, x)
  BY DEF Service!list_get_by_year, list_get_by_year, Service!Collect, Collect
<1>2. \A s : Service!SortByYear(s) = SortByYear(s)
  BY DEF Service!SortByYear, SortByYear, Service!Walk, Walk,
     Service!Exchange, Exchange, Service!ToSet, ToSet
<1>3. \A l : Service!list_order_by_year(l) = list_order_by_year(l)
  BY <1>2 DEF Service!list_order_by_year, list_order_by_year
<1> QED BY <1>1, <1>3, SameMessages
        DEF Service!InvokeGetListByYear, InvokeGetListByYear,
            Service!list_get_all, list_get_all

LEMMA SameRest ==
  \A m, l : /\ Service!InvokeSize(m, l) = InvokeSize(m, l)
            /\ Service!InvokeGetModels(m, l) = InvokeGetModels(m, l)
BY SameMessages DEF Service!InvokeSize, InvokeSize, Service!InvokeGetModels,
   InvokeGetModels, Service!list_size, list_size,
   Service!list_get_model_list, list_get_model_list

LEMMA SameInvoke ==
  ASSUME NEW r \in Requests, NEW l
  PROVE  Service!invoke(Message[r], l) = invoke(MessageOf(r), l)
<1>1. MessageOf(r) = Message[r]
  BY ChainAssumption DEF MessageOf
<1>2. \A m : Service!invoke(m, l) = invoke(m, l)
  BY SameMessages, SameAdd, SameDel, SameGet, SameGetList, SameRest
  DEF Service!invoke, invoke
<1> QED BY <1>1, <1>2
(* Where a request stands and what it was answered, by the guards. *)
AnswerOf(r) == IF reply[r] # Nothing THEN reply[r] ELSE effect[r]

LEMMA StatusIs ==
  ASSUME NEW r
  PROVE  /\ r \in todo /\ reply[r] = Nothing => Status(r) = "todo"
         /\ r \notin todo =>
              /\ reply[r] # Nothing => Status(r) = "answered"
              /\ reply[r] = Nothing /\ effect[r] # Nothing => Status(r) = "done"
              /\ reply[r] = Nothing /\ effect[r] = Nothing => Status(r) = "open"
BY DEF Status

LEMMA StatusIsNext ==
  ASSUME NEW r
  PROVE  /\ r \in todo' /\ reply'[r] = Nothing => Status(r)' = "todo"
         /\ r \notin todo' =>
              /\ reply'[r] # Nothing => Status(r)' = "answered"
              /\ reply'[r] = Nothing /\ effect'[r] # Nothing
                   => Status(r)' = "done"
              /\ reply'[r] = Nothing /\ effect'[r] = Nothing
                   => Status(r)' = "open"
BY DEF Status

(* A function that differs in one place is an EXCEPT. *)
LEMMA OnePlace ==
  ASSUME NEW S, NEW f, NEW g, NEW a \in S, NEW v,
         DOMAIN f = S, f = [x \in S |-> f[x]], g = [x \in S |-> g[x]],
         \A x \in S : g[x] = IF x = a THEN v ELSE f[x]
  PROVE  g = [f EXCEPT ![a] = v]
OBVIOUS

(* Each step of the chain is one of the one list, or leaves it alone. *)
LEMMA StepRefines ==
  ASSUME TablesFit, TypeOK, ServiceInv, ServiceInv', ServiceStep
  PROVE  [Service!Next]_<<list[N], [r \in Requests |-> Status(r)],
           [r \in Requests |-> IF reply[r] # Nothing THEN reply[r]
                                                     ELSE effect[r]]>>
<1>1. PICK st, st2, an, an2, l, l2 :
        /\ st = [r \in Requests |-> Status(r)]
        /\ st2 = [r \in Requests |-> Status(r)']
        /\ an = [r \in Requests |-> AnswerOf(r)]
        /\ an2 = [r \in Requests |-> AnswerOf(r)']
        /\ l = list[N] /\ l2 = list'[N]
  OBVIOUS
<1>2. /\ DOMAIN st = Requests /\ st = [r \in Requests |-> st[r]]
      /\ st2 = [r \in Requests |-> st2[r]]
      /\ DOMAIN an = Requests /\ an = [r \in Requests |-> an[r]]
      /\ an2 = [r \in Requests |-> an2[r]]
  BY <1>1
<1>3. \A w \in Requests :
        /\ st[w] = Status(w) /\ st2[w] = Status(w)'
        /\ an[w] = IF reply[w] # Nothing THEN reply[w] ELSE effect[w]
        /\ an2[w] = IF reply'[w] # Nothing THEN reply'[w] ELSE effect'[w]
  BY <1>1 DEF AnswerOf
<1>4. \A w \in Requests :
        (w \in todo' <=> w \in todo) /\ reply'[w] = reply[w]
          /\ effect'[w] = effect[w]
        => st2[w] = st[w] /\ an2[w] = an[w]
  <2>1. \A w \in todo : reply[w] = Nothing
    BY DEF ServiceInv, TodoIsOpen
  <2> SUFFICES ASSUME NEW w \in Requests, w \in todo' <=> w \in todo,
                      reply'[w] = reply[w], effect'[w] = effect[w]
               PROVE  st2[w] = st[w] /\ an2[w] = an[w]
    OBVIOUS
  <2>2. Status(w)' = Status(w)
    BY <2>1, StatusIs, StatusIsNext
  <2> QED BY <1>3, <2>2
<1> DEFINE Step(r) ==
      \/ /\ st[r] = "todo" /\ st2 = [st EXCEPT ![r] = "open"]
         /\ l2 = l /\ an2 = an
      \/ /\ st[r] = "open" /\ st2 = [st EXCEPT ![r] = "done"]
         /\ l2 = Service!invoke(Message[r], l).list
         /\ an2 = [an EXCEPT ![r] = Service!invoke(Message[r], l).msg]
      \/ /\ st[r] = "done" /\ st2 = [st EXCEPT ![r] = "answered"]
         /\ l2 = l /\ an2 = an
<1>5. ASSUME NEW r \in Requests, CallStep(r) PROVE Step(r)
  <2>1. /\ r \in todo /\ todo' = todo \ {r}
        /\ UNCHANGED <<reply, list, effect>>
        /\ reply[r] = Nothing /\ effect[r] = Nothing
    BY <1>5 DEF CallStep, ServiceInv, TodoIsOpen
  <2>2. st[r] = "todo" /\ st2[r] = "open" /\ an2[r] = an[r]
    BY <1>3, <2>1, StatusIs, StatusIsNext
  <2>3. \A w \in Requests : w # r => st2[w] = st[w] /\ an2[w] = an[w]
    BY <1>4, <2>1
  <2>4. \A w \in Requests : st2[w] = IF w = r THEN "open" ELSE st[w]
    BY <2>2, <2>3
  <2>5. st2 = [st EXCEPT ![r] = "open"]
    BY <1>2, <2>4, OnePlace
  <2>6. an2 = an
    BY <1>2, <2>2, <2>3
  <2>7. l2 = l
    BY <1>1, <2>1
  <2> QED BY <2>2, <2>5, <2>6, <2>7
<1>6. ASSUME NEW r \in Requests, PerformStep(r) PROVE Step(r)
  <2>1. PICK done : done = invoke(MessageOf(r), list[N])
    OBVIOUS
  <2>2. /\ r \notin todo /\ reply[r] = Nothing /\ effect[r] = Nothing
        /\ l2 = done.list /\ effect' = [effect EXCEPT ![r] = done.msg]
        /\ UNCHANGED <<todo, reply>>
    BY <1>1, <1>6, <2>1 DEF PerformStep
  <2>3. done.msg # Nothing
    BY <2>1, AnswerIsMessage
  <2>4. /\ effect'[r] = done.msg
        /\ \A w \in Requests : w # r => effect'[w] = effect[w]
    BY <2>2 DEF ServiceInv, ListsFit
  <2>5. st[r] = "open" /\ st2[r] = "done" /\ an2[r] = done.msg
    BY <1>3, <2>2, <2>3, <2>4, StatusIs, StatusIsNext
  <2>6. \A w \in Requests : w # r => st2[w] = st[w] /\ an2[w] = an[w]
    BY <1>4, <2>2, <2>4
  <2>7. \A w \in Requests : /\ st2[w] = IF w = r THEN "done" ELSE st[w]
                            /\ an2[w] = IF w = r THEN done.msg ELSE an[w]
    BY <2>5, <2>6
  <2>8. st2 = [st EXCEPT ![r] = "done"]
    BY <1>2, <2>7, OnePlace
  <2>9. an2 = [an EXCEPT ![r] = done.msg]
    BY <1>2, <2>7, OnePlace
  <2>10. Service!invoke(Message[r], l) = done
    BY <1>1, <2>1, SameInvoke
  <2> QED BY <2>2, <2>5, <2>8, <2>9, <2>10
<1>7. ASSUME NEW r \in Requests, ReturnStep(r) PROVE Step(r)
  <2>1. /\ r \notin todo /\ reply[r] = Nothing /\ effect[r] # Nothing
        /\ reply' = [reply EXCEPT ![r] = effect[r]]
        /\ UNCHANGED <<todo, list, effect>>
    BY <1>7 DEF ReturnStep
  <2>2. /\ reply'[r] = effect[r]
        /\ \A w \in Requests : w # r => reply'[w] = reply[w]
    BY <2>1 DEF TablesFit
  <2>3. st[r] = "done" /\ st2[r] = "answered" /\ an2[r] = an[r]
    BY <1>3, <2>1, <2>2, StatusIs, StatusIsNext
  <2>4. \A w \in Requests : w # r => st2[w] = st[w] /\ an2[w] = an[w]
    BY <1>4, <2>1, <2>2
  <2>5. \A w \in Requests : st2[w] = IF w = r THEN "answered" ELSE st[w]
    BY <2>3, <2>4
  <2>6. st2 = [st EXCEPT ![r] = "answered"]
    BY <1>2, <2>5, OnePlace
  <2>7. an2 = an
    BY <1>2, <2>3, <2>4
  <2>8. l2 = l
    BY <1>1, <2>1
  <2> QED BY <2>3, <2>6, <2>7, <2>8
<1>8. ASSUME UNCHANGED <<todo, reply, list[N], effect>>
      PROVE  st2 = st /\ an2 = an /\ l2 = l
  <2>1. \A w \in Requests : st2[w] = st[w] /\ an2[w] = an[w]
    BY <1>4, <1>8
  <2> QED BY <1>1, <1>2, <1>8, <2>1
<1>9. (\E r \in Requests : Step(r)) \/ (st2 = st /\ an2 = an /\ l2 = l)
  <2> HIDE DEF Step
  <2> QED BY <1>5, <1>6, <1>7, <1>8 DEF ServiceStep
<1>10. /\ an = [r \in Requests |-> IF reply[r] # Nothing THEN reply[r]
                                                        ELSE effect[r]]
       /\ an2 = [r \in Requests |-> IF reply'[r] # Nothing THEN reply'[r]
                                                           ELSE effect'[r]]
  BY <1>1 DEF AnswerOf
<1> QED BY <1>1, <1>9, <1>10
        DEF Service!Next, Service!Call, Service!Perform, Service!Return
LEMMA InitRefines ==
  ASSUME Init
  PROVE  Service!Init
<1>1. N \in Servers
  BY ChainAssumption DEF Servers
<1>2. list[N] = Service!list_create
  BY <1>1 DEF Init, list_create, Service!list_create
<1>3. \A r \in Requests :
        /\ Status(r) = "todo"
        /\ reply[r] = Nothing /\ effect[r] = Nothing
  <2>1. \A r \in Requests :
          r \in todo /\ reply[r] = Nothing /\ effect[r] = Nothing
    BY DEF Init
  <2> QED BY <2>1, StatusIs
<1>4. [r \in Requests |-> Status(r)] = [r \in Requests |-> "todo"]
  BY <1>3
<1>5. [r \in Requests |-> IF reply[r] # Nothing THEN reply[r] ELSE effect[r]]
        = [r \in Requests |-> [none |-> TRUE]]
  BY <1>3 DEF Nothing
<1> QED BY <1>2, <1>4, <1>5 DEF Service!Init

(***************************************************************************)
(* A complete chain that does not fail cannot be told from one list by its *)
(* clients: with any number of servers, clients and requests, each request *)
(* takes effect once, on the list of the last server, between its call and *)
(* its return, and the answer that comes back from the first server is the *)
(* one that invoke gave at the last.                                       *)
(*                                                                         *)
(* The condition is that no answer is too long to be sent.  A read may     *)
(* sort the list of the last server, and none but that one: the answers    *)
(* to writes agree all the same, since they depend on the models only.     *)
(***************************************************************************)
THEOREM ChainImplementsService ==
  ASSUME Complete
  PROVE  Spec /\ []AnswersGetThrough => ImplementsListService
<1> DEFINE OnceInv == NoLiveExpiry => JoinInv /\ FrontierInv
<1>1. Init => ServiceInv /\ Service!Init
  BY InitService, InitRefines
<1>2. ASSUME Inv, StableInv, OnceInv, AnswersGetThrough, ServiceInv, [Next]_vars
      PROVE  /\ ServiceInv'
             /\ [Service!Next]_<<list[N], [r \in Requests |-> Status(r)],
                  [r \in Requests |-> IF reply[r] # Nothing THEN reply[r]
                                                            ELSE effect[r]]>>
  <2>1. JoinInv /\ FrontierInv
    BY <1>2 DEF StableInv, Settled, NoLiveExpiry
  <2>2. ServiceInv' /\ ServiceStep
    BY <1>2, <2>1, NextService
  <2> QED BY <1>2, <2>2, StepRefines DEF StableInv, Inv
<1>3. Inv /\ StableInv /\ OnceInv /\ AnswersGetThrough /\ ServiceInv
        /\ [Next]_vars
      => ServiceInv'
  BY <1>2
<1>4. Inv /\ StableInv /\ OnceInv /\ AnswersGetThrough /\ ServiceInv
        /\ [Next]_vars
      => [Service!Next]_<<list[N], [r \in Requests |-> Status(r)],
           [r \in Requests |-> IF reply[r] # Nothing THEN reply[r]
                                                     ELSE effect[r]]>>
  BY <1>2
<1>5. Spec => []Inv /\ []StableInv /\ []OnceInv
  BY AlwaysInv, AlwaysStable, AlwaysOnce
<1> HIDE DEF OnceInv
<1> QED BY <1>1, <1>3, <1>4, <1>5, PTL
        DEF Spec, ImplementsListService, Service!Spec
-----------------------------------------------------------------------------
(* When no request is under way, no list is ahead of another. *)
LEMMA IdleListsAgree ==
  ASSUME ServiceInv, \A s \in Servers, o \in Conns : thr[s][o].pc \in {"none", "recv"}
  PROVE  \A s, t \in Servers : SameModels(list[s].cars, list[t].cars)
<1>1. \A s, t \in Servers : t = s + 1 => SameModels(list[t].cars, list[s].cars)
  <2>1. \A s \in Servers, o \in Conns : ~ Ahead(s, o)
    BY DEF Ahead
  <2> QED BY <2>1 DEF ServiceInv, ListsLead
<1> DEFINE T == {n \in Nat : n + 1 \in Servers =>
                               SameModels(list[n + 1].cars, list[1].cars)}
<1>2. 0 \in T
  BY DEF SameModels
<1>3. ASSUME NEW n \in Nat, n \in T PROVE n + 1 \in T
  <2> SUFFICES ASSUME n + 1 + 1 \in Servers
               PROVE  SameModels(list[n + 1 + 1].cars, list[1].cars)
    OBVIOUS
  <2>1. n + 1 \in Servers /\ n + 1 + 1 = (n + 1) + 1
    BY ChainAssumption DEF Servers
  <2>2. SameModels(list[n + 1 + 1].cars, list[n + 1].cars)
    BY <1>1, <2>1
  <2>3. SameModels(list[n + 1].cars, list[1].cars)
    BY <1>3, <2>1
  <2> QED BY <2>2, <2>3 DEF SameModels
<1>4. \A s \in Servers : SameModels(list[s].cars, list[1].cars)
  <2> SUFFICES ASSUME NEW s \in Servers
               PROVE  SameModels(list[s].cars, list[1].cars)
    OBVIOUS
  <2>1. Nat \subseteq T
    <3> HIDE DEF T
    <3> QED BY <1>2, <1>3, NumbersByInduction
  <2>2. s - 1 \in Nat /\ (s - 1) + 1 = s
    BY ChainAssumption DEF Servers
  <2> QED BY <2>1, <2>2
<1> QED BY <1>4 DEF SameModels

(***************************************************************************)
(* A complete chain of any length that does not fail: when no request is   *)
(* under way, all servers hold as many cars of every model, although their *)
(* lists may be in different orders (a read sorts the last server's list)  *)
(* and hold different cars of a model (a remove takes the first one).      *)
(***************************************************************************)
THEOREM ChainSameModels ==
  ASSUME Complete
  PROVE  Spec /\ []AnswersGetThrough => []ReplicasHoldSameModels
<1> DEFINE OnceInv == NoLiveExpiry => JoinInv /\ FrontierInv
<1>1. Init => ServiceInv
  BY InitService
<1>2. Inv /\ StableInv /\ OnceInv /\ AnswersGetThrough /\ ServiceInv
        /\ [Next]_vars
      => ServiceInv'
  BY NextService DEF StableInv, Settled, NoLiveExpiry
<1>3. ServiceInv => ReplicasHoldSameModels
  <2> SUFFICES ASSUME ServiceInv,
                      \A s \in Servers, o \in Conns :
                        thr[s][o].pc \in {"none", "recv"},
                      NEW s \in Servers, NEW t \in Servers, NEW modelo
               PROVE  CountOfModel(s, modelo) = CountOfModel(t, modelo)
    BY DEF ReplicasHoldSameModels
  <2>1. HowMany(list[s].cars, modelo) = HowMany(list[t].cars, modelo)
    BY IdleListsAgree DEF SameModels
  <2>2. ASSUME NEW u \in Servers
        PROVE  CountOfModel(u, modelo) = HowMany(list[u].cars, modelo)
    <3>1. DOMAIN list[u].cars = 1 .. Len(list[u].cars)
      BY DEF ServiceInv, ListsHoldCars, CarLists
    <3> QED BY <3>1 DEF CountOfModel, HowMany, Positions
  <2> QED BY <2>1, <2>2
<1>4. Spec => []Inv /\ []StableInv /\ []OnceInv
  BY AlwaysInv, AlwaysStable, AlwaysOnce
<1> HIDE DEF OnceInv
<1> QED BY <1>1, <1>2, <1>3, <1>4, PTL DEF Spec
-----------------------------------------------------------------------------
(* For requests that are answered briefly whatever is in the list, such as *)
(* all but those for lists and models, no answer is lost.                  *)
ShortAnswers ==
  \A r \in Requests : \A l :
    LET answer == invoke(MessageOf(r), l).msg
    IN  answer # NULL /\ Fits(answer)

EffectsAreAnswers ==
  \A r \in Requests : effect[r] # Nothing =>
    \E l : effect[r] = invoke(MessageOf(r), l).msg

LEMMA ShortGetThrough ==
  ASSUME ShortAnswers, ServiceInv, EffectsAreAnswers
  PROVE  AnswersGetThrough
<1> SUFFICES ASSUME NEW s \in Servers, NEW o \in Conns, thr[s][o].pc = "reply"
             PROVE  Returned(s, o) # NULL
  BY DEF AnswersGetThrough
<1>1. PICK r \in Requests : effect[r] # Nothing /\ out[s][o] = effect[r]
  BY DEF ServiceInv, RepliesAreEffects
<1>2. PICK l : out[s][o] = invoke(MessageOf(r), l).msg
  BY <1>1 DEF EffectsAreAnswers
<1>3. PICK a : a = invoke(MessageOf(r), l).msg
  OBVIOUS
<1>4. a # NULL /\ Fits(a) /\ out[s][o] = a
  BY <1>2, <1>3 DEF ShortAnswers
<1> QED BY <1>4 DEF Returned

LEMMA AnswersStay ==
  ASSUME ServiceInv, EffectsAreAnswers, ServiceStep
  PROVE  EffectsAreAnswers'
<1>1. CASE UNCHANGED effect
  BY <1>1 DEF EffectsAreAnswers
<1>2. ASSUME NEW r \in Requests, PerformStep(r)
      PROVE  EffectsAreAnswers'
  <2>1. PICK m, l : m = invoke(MessageOf(r), l).msg
                    /\ effect' = [effect EXCEPT ![r] = m]
    BY <1>2 DEF PerformStep
  <2>2. effect'[r] = m /\ \A w \in Requests : w # r => effect'[w] = effect[w]
    BY <2>1 DEF ServiceInv, ListsFit
  <2> QED BY <2>1, <2>2 DEF EffectsAreAnswers
<1> QED BY <1>1, <1>2 DEF ServiceStep, CallStep, ReturnStep

(* The same without a condition on the run, for requests whose answers are *)
(* short: a complete chain of any length that does not fail is one list.   *)
THEOREM ShortChainImplementsService ==
  ASSUME Complete, ShortAnswers
  PROVE  Spec => ImplementsListService
<1> DEFINE OnceInv == NoLiveExpiry => JoinInv /\ FrontierInv
<1>1. Init => ServiceInv /\ EffectsAreAnswers
  <2>1. Init => EffectsAreAnswers
    BY DEF Init, EffectsAreAnswers
  <2> QED BY <2>1, InitService
<1>2. Inv /\ StableInv /\ OnceInv /\ (ServiceInv /\ EffectsAreAnswers)
        /\ [Next]_vars
      => (ServiceInv /\ EffectsAreAnswers)'
  <2> SUFFICES ASSUME Inv, StableInv, OnceInv, ServiceInv, EffectsAreAnswers,
                      [Next]_vars
               PROVE  ServiceInv' /\ EffectsAreAnswers'
    OBVIOUS
  <2>1. JoinInv /\ FrontierInv
    BY DEF StableInv, Settled, NoLiveExpiry
  <2>2. ServiceInv' /\ ServiceStep
    BY <2>1, ShortGetThrough, NextService
  <2> QED BY <2>2, AnswersStay
<1>3. ServiceInv /\ EffectsAreAnswers => AnswersGetThrough
  BY ShortGetThrough
<1>4. Spec => []Inv /\ []StableInv /\ []OnceInv
  BY AlwaysInv, AlwaysStable, AlwaysOnce
<1>5. Spec /\ []AnswersGetThrough => ImplementsListService
  BY ChainImplementsService
<1> HIDE DEF OnceInv
<1> QED BY <1>1, <1>2, <1>3, <1>4, <1>5, PTL DEF Spec
=============================================================================
