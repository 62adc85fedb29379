--------------------------- MODULE ServerLogProofs ---------------------------
(***************************************************************************)
(* Proofs about module ServerLog, for any threads, lines and bounds.       *)
(*                                                                         *)
(* NoLineIsLost is inductive with TypeOK and what ties log_tail and the    *)
(* freed nodes to the lines taken: log_tail is the last node as long as    *)
(* one is left and null otherwise, so that it never is a freed one.        *)
(***************************************************************************)
EXTENDS ServerLog, SequenceTheorems, TLAPS

EndsFit ==
  closer # "closed" =>
    /\ log_tail = IF Len(taken) = Len(str) THEN 0 ELSE Len(str)
    /\ freed \subseteq 1 .. Len(taken) /\ node <= Len(taken)
    /\ \A k \in 1 .. MaxLines : k > Len(str) => next[k] = 0

Inv == TypeOK /\ NoLineIsLost /\ EndsFit /\ NoLostWakeup

(* The log starts with an empty queue and a writer that is awake. *)
LEMMA InitInv == Init => Inv
<1> SUFFICES ASSUME Init PROVE Inv
  OBVIOUS
<1>1. TypeOK
  <2>1. <<>> \in Seq(Lines) /\ Len(<<>>) = 0 /\ DOMAIN <<>> = {}
    BY EmptySeq
  <2>2. thread \in [Threads -> {"running", "ended", "undefined"}]
    BY DEF Init
  <2>3. writer_running \in BOOLEAN /\ failed \in BOOLEAN
    BY Zenon DEF Init
  <2>4. /\ next \in [1 .. MaxLines -> 0 .. Len(str)]
        /\ log_head \in 0 .. Len(str) /\ log_tail \in 0 .. Len(str)
        /\ node \in 0 .. Len(str) /\ Len(str) <= MaxLines
        /\ freed \subseteq DOMAIN str
    BY <2>1, LogAssumption DEF Init
  <2> QED BY <2>1, <2>2, <2>3, <2>4 DEF Init, TypeOK
<1>2. NoLineIsLost
  BY DEF Init, NoLineIsLost
<1>3. NoLostWakeup
  BY DEF Init, NoLostWakeup
<1>4. EndsFit
  BY DEF Init, EndsFit
<1> QED BY <1>1, <1>2, <1>3, <1>4 DEF Inv

(* A line is hung on the last node, or is the first of an empty queue. *)
LEMMA WriteInv ==
  ASSUME Inv, NEW t \in Threads, NEW line \in Lines,
         write_in_server_log(t, line)
  PROVE  Inv'
<1> DEFINE n == Len(str)
           m == Len(taken)
<1>1. /\ str \in Seq(Lines) /\ taken \in Seq(Lines)
      /\ n \in Nat /\ m \in Nat /\ m <= n /\ n + 1 <= MaxLines
      /\ MaxLines \in Nat
  BY LogAssumption DEF Inv, TypeOK, NoLineIsLost, write_in_server_log
<1>2. /\ str' \in Seq(Lines) /\ Len(str') = n + 1
      /\ \A i \in 1 .. n : str'[i] = str[i]
      /\ DOMAIN str = 1 .. n /\ DOMAIN str' = 1 .. (n + 1)
  <2>1. str' = Append(str, line)
    BY DEF write_in_server_log
  <2> QED BY ONLY <1>1, <2>1, line \in Lines
<1>3. /\ closer # "closed" /\ thread[t] = "running"
      /\ UNCHANGED <<taken, freed, writer_running, node, file, closer, failed>>
      /\ log_tail' = n + 1
      /\ log_head' = IF log_tail = 0 THEN n + 1 ELSE log_head
      /\ next' = IF log_tail = 0 THEN next
                                 ELSE [next EXCEPT ![log_tail] = n + 1]
      /\ thread' = IF log_tail \in freed THEN [thread EXCEPT ![t] = "undefined"]
                                         ELSE thread
      /\ writer' = IF writer = "wait" THEN "start" ELSE writer
  BY <1>2 DEF write_in_server_log, Signal
<1>4. /\ log_tail = IF m = n THEN 0 ELSE n
      /\ freed \subseteq 1 .. m
      /\ log_head = IF m = n THEN 0 ELSE m + 1
      /\ \A k \in m + 1 .. n : next[k] = IF k = n THEN 0 ELSE k + 1
      /\ next \in [1 .. MaxLines -> 0 .. n]
      /\ \A k \in 1 .. MaxLines : k > n => next[k] = 0
      /\ node <= m
  BY <1>1, <1>3 DEF Inv, TypeOK, EndsFit, NoLineIsLost
<1> HIDE DEF n, m
<1>5. log_tail \notin freed
  BY <1>1, <1>4
<1>6. next' \in [1 .. MaxLines -> 0 .. (n + 1)]
  BY <1>1, <1>3, <1>4
<1>7. \A k \in m + 1 .. n + 1 : next'[k] = IF k = n + 1 THEN 0 ELSE k + 1
  <2>1. CASE m = n
    BY <1>1, <1>3, <1>4, <2>1
  <2>2. CASE m # n
    <3>1. \A k \in m + 1 .. n + 1 : k \in 1 .. MaxLines
      BY <1>1
    <3>2. \A k \in m + 1 .. n + 1 : k = n + 1 \/ k = n \/ k \in m + 1 .. n - 1
      BY <1>1
    <3> QED BY <1>1, <1>3, <1>4, <2>2, <3>1, <3>2
  <2> QED BY <2>1, <2>2
<1>8. TypeOK'
  <2>1. log_head' \in 0 .. (n + 1) /\ log_tail' \in 0 .. (n + 1)
    BY <1>1, <1>3, <1>4
  <2>2. /\ node' \in 0 .. (n + 1) /\ (writer' = "write" <=> node' # 0)
        /\ writer' \in {"start", "wait", "write", "ended"}
    <3>1. node \in 0 .. n /\ writer \in {"start", "wait", "write", "ended"}
          /\ (writer = "write" <=> node # 0)
      BY DEF Inv, TypeOK, n
    <3>2. node \in 0 .. (n + 1)
      BY <1>1, <3>1
    <3> QED BY <1>3, <3>1, <3>2
  <2>3. freed' \subseteq 1 .. (n + 1)
    BY <1>1, <1>3, <1>4
  <2>4. thread' \in [Threads -> {"running", "ended", "undefined"}]
    BY <1>3, <1>5 DEF Inv, TypeOK
  <2>5. /\ taken' \in Seq(Lines) /\ writer_running' \in BOOLEAN
        /\ failed' \in BOOLEAN /\ closer' \in {"open", "join", "free", "closed"}
    BY <1>3 DEF Inv, TypeOK
  <2> QED BY <1>1, <1>2, <1>6, <2>1, <2>2, <2>3, <2>4, <2>5 DEF TypeOK
<1>9. NoLineIsLost'
  <2>1. \A i \in 1 .. m : taken[i] = str'[i]
    <3>1. \A i \in 1 .. m : taken[i] = str[i]
      BY <1>3 DEF Inv, NoLineIsLost, m
    <3>2. \A i \in 1 .. m : i \in 1 .. n
      BY <1>1
    <3> QED BY <1>2, <3>1, <3>2
  <2>2. log_head' = IF m = n + 1 THEN 0 ELSE m + 1
    BY <1>1, <1>3, <1>4
  <2>3. \A u \in Threads : thread'[u] # "undefined"
    BY <1>3, <1>5 DEF Inv, NoLineIsLost
  <2>4. taken' = taken /\ Len(taken) = m /\ m <= n + 1
    BY <1>1, <1>3 DEF m
  <2> QED BY <1>2, <1>7, <2>1, <2>2, <2>3, <2>4 DEF NoLineIsLost
<1>10. EndsFit'
  <2>1. \A k \in 1 .. MaxLines : k > n + 1 => next'[k] = 0
    BY <1>1, <1>3, <1>4
  <2> QED BY <1>1, <1>2, <1>3, <1>4, <2>1 DEF EndsFit, m
<1>11. NoLostWakeup'
  BY <1>3 DEF Inv, TypeOK, NoLostWakeup
<1> QED BY <1>8, <1>9, <1>10, <1>11 DEF Inv

(* The first node is taken; the queue is empty after the last one. *)
LEMMA TakeInv == Inv /\ WriterTakes => Inv'
<1> SUFFICES ASSUME Inv, WriterTakes PROVE Inv'
  OBVIOUS
<1> DEFINE n == Len(str)
           m == Len(taken)
<1>1. /\ str \in Seq(Lines) /\ taken \in Seq(Lines)
      /\ n \in Nat /\ m \in Nat /\ n <= MaxLines /\ MaxLines \in Nat
      /\ DOMAIN str = 1 .. n
  BY LogAssumption DEF Inv, TypeOK
<1>2. log_head # 0 /\ log_head \in 1 .. n /\ next \in [1 .. MaxLines -> 0 .. n]
  BY <1>1 DEF Inv, TypeOK, WriterTakes
<1>3. next[log_head] \in 0 .. n /\ str[log_head] \in Lines
  <2>1. log_head \in 1 .. MaxLines
    BY <1>1, <1>2
  <2> QED BY <1>1, <1>2, <2>1
<1>4. /\ taken' = Append(taken, str[log_head]) /\ node' = log_head
      /\ log_head' = next[log_head] /\ writer = "start" /\ writer' = "write"
      /\ log_tail' = IF log_head' = 0 THEN 0 ELSE log_tail
      /\ UNCHANGED <<str, next, freed, writer_running, file, closer, thread,
                     failed>>
  BY DEF WriterTakes
<1>5. /\ taken' \in Seq(Lines) /\ Len(taken') = m + 1
      /\ taken'[m + 1] = str[log_head] /\ \A i \in 1 .. m : taken'[i] = taken[i]
  BY <1>1, <1>3, <1>4
<1>6. TypeOK'
  <2>1. log_tail' \in 0 .. n
    BY <1>1, <1>4 DEF Inv, TypeOK
  <2>2. thread' \in [Threads -> {"running", "ended", "undefined"}]
    BY <1>4 DEF Inv, TypeOK
  <2>3. node' \in 0 .. n /\ node' # 0 /\ log_head' \in 0 .. n
    BY <1>1, <1>2, <1>3, <1>4
  <2> QED BY <1>1, <1>2, <1>4, <1>5, <2>1, <2>2, <2>3 DEF Inv, TypeOK
<1>7. CASE closer = "closed"
  BY <1>4, <1>6, <1>7 DEF Inv, NoLineIsLost, EndsFit, NoLostWakeup
<1> HIDE DEF n, m
<1>8. CASE closer # "closed"
  <2>1. /\ m < n /\ log_head = m + 1
        /\ \A k \in m + 1 .. n : next[k] = IF k = n THEN 0 ELSE k + 1
        /\ \A i \in 1 .. m : taken[i] = str[i]
        /\ \A t \in Threads : thread[t] # "undefined"
    <3>1. /\ m <= n /\ log_head = IF m = n THEN 0 ELSE m + 1
          /\ \A k \in m + 1 .. n : next[k] = IF k = n THEN 0 ELSE k + 1
          /\ \A i \in 1 .. m : taken[i] = str[i]
          /\ \A t \in Threads : thread[t] # "undefined"
      BY <1>8, Zenon DEF Inv, NoLineIsLost, n, m
    <3>2. m < n
      BY <1>1, <1>2, <3>1
    <3>3. log_head = m + 1
      BY <1>1, <3>1, <3>2
    <3> QED BY <3>1, <3>2, <3>3, Zenon
  <2>2. /\ log_tail = n /\ freed \subseteq 1 .. m
        /\ \A k \in 1 .. MaxLines : k > n => next[k] = 0
    <3>1. /\ log_tail = IF m = n THEN 0 ELSE n
          /\ freed \subseteq 1 .. m
          /\ \A k \in 1 .. MaxLines : k > n => next[k] = 0
      BY <1>8, Zenon DEF Inv, EndsFit, n, m
    <3>2. log_tail = n
      BY <1>1, <2>1, <3>1
    <3> QED BY <3>1, <3>2, Zenon
  <2>3. log_head' = IF m + 1 = n THEN 0 ELSE m + 2
    <3>1. m + 1 \in m + 1 .. n
      BY <1>1, <2>1
    <3>2. next[m + 1] = IF m + 1 = n THEN 0 ELSE (m + 1) + 1
      BY <2>1, <3>1, Zenon
    <3> QED BY <1>1, <1>4, <2>1, <3>2
  <2>4. NoLineIsLost'
    <3>1. \A i \in 1 .. (m + 1) : taken'[i] = str[i]
      <4>1. \A i \in 1 .. (m + 1) : i = m + 1 \/ i \in 1 .. m
        BY <1>1
      <4> QED BY <1>5, <2>1, <4>1
    <3>2. \A k \in m + 2 .. n : next[k] = IF k = n THEN 0 ELSE k + 1
      BY <1>1, <2>1
    <3>3. Len(str') = n /\ m + 1 <= n /\ (m + 1) + 1 = m + 2
      <4>1. Len(str') = n
        BY <1>4 DEF n
      <4> QED BY <1>1, <2>1, <4>1
    <3> QED BY <1>4, <1>5, <2>1, <2>3, <3>1, <3>2, <3>3 DEF NoLineIsLost
  <2>5. EndsFit'
    <3>1. Len(str') = n
      BY <1>4 DEF n
    <3>2. freed' \subseteq 1 .. (m + 1)
      BY <1>1, <1>4, <2>2
    <3>3. log_tail' = IF m + 1 = n THEN 0 ELSE n
      BY <1>1, <1>4, <2>1, <2>2, <2>3
    <3>4. node' <= m + 1
      BY <1>1, <1>4, <2>1
    <3>5. Len(taken') = m + 1 /\ next' = next
      BY <1>4, <1>5
    <3> QED BY <2>2, <3>1, <3>2, <3>3, <3>4, <3>5, Zenon DEF EndsFit
  <2>6. NoLostWakeup'
    BY <1>4 DEF Inv, NoLostWakeup
  <2> QED BY <1>6, <2>4, <2>5, <2>6 DEF Inv
<1> QED BY <1>7, <1>8

(* The node that is freed is one of those taken, never the last of the queue. *)
LEMMA WriterWritesInv == Inv /\ WriterWrites => Inv'
<1> SUFFICES ASSUME Inv, WriterWrites PROVE Inv'
  OBVIOUS
<1>1. /\ UNCHANGED <<str, next, log_head, log_tail, writer_running, closer,
                     thread, taken>>
      /\ freed' = freed \cup {node} /\ node' = 0
      /\ writer = "write" /\ writer' = "start"
  BY DEF WriterWrites
<1>2. failed' \in BOOLEAN
  BY DEF WriterWrites, Inv, TypeOK
<1>3. node \in 1 .. Len(str) /\ Len(str) \in Nat /\ DOMAIN str = 1 .. Len(str)
  BY <1>1 DEF Inv, TypeOK
<1>4. TypeOK'
  BY <1>1, <1>2, <1>3 DEF Inv, TypeOK
<1>5. NoLineIsLost'
  BY <1>1 DEF Inv, NoLineIsLost
<1>6. EndsFit'
  BY <1>1, <1>3 DEF Inv, EndsFit
<1>7. NoLostWakeup'
  BY <1>1 DEF Inv, NoLostWakeup
<1> QED BY <1>4, <1>5, <1>6, <1>7 DEF Inv

(* Every step of the writer, the client threads and the closer keeps Inv. *)
LEMMA NextInv == Inv /\ [Next]_vars => Inv'
<1> SUFFICES ASSUME Inv, [Next]_vars PROVE Inv'
  OBVIOUS
<1> USE DEF Inv
<1>1. ASSUME NEW t \in Threads, NEW line \in Lines, write_in_server_log(t, line)
      PROVE  Inv'
  BY <1>1, WriteInv
<1>2. ASSUME NEW t \in Threads, NEW line \in Lines, LogAfterClose(t, line)
      PROVE  Inv'
  BY <1>2 DEF LogAfterClose, nodes, TypeOK, NoLineIsLost, EndsFit, NoLostWakeup
<1>3. ASSUME NEW t \in Threads, ThreadEnds(t) PROVE Inv'
  BY <1>3 DEF ThreadEnds, nodes, TypeOK, NoLineIsLost, EndsFit, NoLostWakeup
<1>4. CASE WriterWaits
  BY <1>4 DEF WriterWaits, nodes, TypeOK, NoLineIsLost, EndsFit, NoLostWakeup
<1>5. CASE WriterWakes
  BY <1>5 DEF WriterWakes, nodes, TypeOK, NoLineIsLost, EndsFit, NoLostWakeup
<1>6. CASE WriterEnds
  BY <1>6 DEF WriterEnds, nodes, TypeOK, NoLineIsLost, EndsFit, NoLostWakeup
<1>7. CASE WriterTakes
  BY <1>7, TakeInv
<1>8. CASE WriterWrites
  BY <1>8, WriterWritesInv
<1>9. CASE CloseSignals
  BY <1>9 DEF CloseSignals, Signal, nodes, TypeOK, NoLineIsLost, EndsFit,
              NoLostWakeup
<1>10. CASE CloseJoins
  BY <1>10 DEF CloseJoins, nodes, TypeOK, NoLineIsLost, EndsFit, NoLostWakeup
<1>11. CASE CloseFrees
  BY <1>11 DEF CloseFrees, TypeOK, NoLineIsLost, EndsFit, NoLostWakeup
<1>12. CASE UNCHANGED vars
  BY <1>12 DEF vars, nodes, TypeOK, NoLineIsLost, EndsFit, NoLostWakeup
<1> QED
  BY <1>1, <1>2, <1>3, <1>4, <1>5, <1>6, <1>7, <1>8, <1>9, <1>10, <1>11, <1>12
  DEF Next, WriterStep, CloseStep

(* Every reachable state of the log is well formed. *)
THEOREM LogTypeCorrect == Spec => []TypeOK
<1>1. Inv => TypeOK
  BY DEF Inv
<1> QED BY <1>1, InitInv, NextInv, PTL DEF Spec

(***************************************************************************)
(* The linked list between the client threads and the writer loses,        *)
(* doubles and reorders no line until close_server_log frees it, and no    *)
(* line is hung on a freed node: log_head and log_tail fit the nodes       *)
(* after any interleaving of any number of threads and lines, with failing *)
(* writes and spurious wakeups.                                            *)
(***************************************************************************)
THEOREM LogKeepsLines == Spec => []NoLineIsLost
<1>1. Inv => NoLineIsLost
  BY DEF Inv
<1> QED BY <1>1, InitInv, NextInv, PTL DEF Spec

(***************************************************************************)
(* No signal is missed: the writer never sleeps on a line in the queue or  *)
(* on the order to stop, for any number of threads and lines.              *)
(***************************************************************************)
THEOREM LogWakesWriter == Spec => []NoLostWakeup
<1>1. Inv => NoLostWakeup
  BY DEF Inv
<1> QED BY <1>1, InitInv, NextInv, PTL DEF Spec

-----------------------------------------------------------------------------
(* A node that is taken off the queue is written if it has a line. *)
LEMMA LineTaken ==
  ASSUME NEW S, NEW s \in Seq(S), NEW t \in Seq(S), NEW line \in S,
         line # NULL, AreTheLinesOf(s, t)
  PROVE  AreTheLinesOf(Append(s, line), Append(t, line))
<1>1. PICK at \in [DOMAIN s -> DOMAIN t] :
        /\ \A i, j \in DOMAIN s : i < j => at[i] < at[j]
        /\ \A i \in DOMAIN s : s[i] = t[at[i]]
        /\ {at[i] : i \in DOMAIN s} = {k \in DOMAIN t : t[k] # NULL}
  BY DEF AreTheLinesOf
<1>2. PICK n \in Nat, m \in Nat : /\ n = Len(s) /\ DOMAIN s = 1 .. n
                                  /\ m = Len(t) /\ DOMAIN t = 1 .. m
  OBVIOUS
<1>3. PICK u, v : u = Append(s, line) /\ v = Append(t, line)
  OBVIOUS
<1>4. /\ DOMAIN u = 1 .. (n + 1) /\ u[n + 1] = line
      /\ \A i \in 1 .. n : u[i] = s[i]
      /\ DOMAIN v = 1 .. (m + 1) /\ v[m + 1] = line
      /\ \A k \in 1 .. m : v[k] = t[k]
  BY <1>2, <1>3
<1>5. /\ \A i, j \in 1 .. n : i < j => at[i] < at[j]
      /\ \A i \in 1 .. n : at[i] \in 1 .. m /\ s[i] = t[at[i]]
      /\ \A k \in 1 .. m : t[k] # NULL <=> \E i \in 1 .. n : at[i] = k
  <2>1. \A k \in DOMAIN t : t[k] # NULL <=> k \in {at[i] : i \in DOMAIN s}
    BY <1>1, Zenon
  <2>2. \A k \in 1 .. m : t[k] # NULL <=> \E i \in 1 .. n : at[i] = k
    BY <1>2, <2>1
  <2>3. at \in [1 .. n -> 1 .. m]
    BY <1>1, <1>2
  <2> QED BY <1>1, <1>2, <2>2, <2>3
<1> HIDE <1>1
<1>6. PICK f : /\ f \in [1 .. (n + 1) -> 1 .. (m + 1)]
               /\ f[n + 1] = m + 1
               /\ \A i \in 1 .. n : f[i] = at[i]
  <2> DEFINE g == [i \in 1 .. (n + 1) |-> IF i = n + 1 THEN m + 1 ELSE at[i]]
  <2>1. \A i \in 1 .. (n + 1) : i = n + 1 \/ i \in 1 .. n
    OBVIOUS
  <2>2. g \in [1 .. (n + 1) -> 1 .. (m + 1)]
    BY <1>5, <2>1
  <2>3. g[n + 1] = m + 1 /\ \A i \in 1 .. n : g[i] = at[i]
    OBVIOUS
  <2> HIDE DEF g
  <2> QED BY <2>2, <2>3
<1>7. \A i \in 1 .. (n + 1) : i = n + 1 \/ (i \in 1 .. n /\ i < n + 1)
  OBVIOUS
<1>8. \A k \in 1 .. (m + 1) : k = m + 1 \/ (k \in 1 .. m /\ k < m + 1)
  OBVIOUS
<1>9. \A i, j \in 1 .. (n + 1) : i < j => f[i] < f[j]
  <2> SUFFICES ASSUME NEW i \in 1 .. (n + 1), NEW j \in 1 .. (n + 1), i < j
               PROVE  f[i] < f[j]
    OBVIOUS
  <2>1. i \in 1 .. n
    OBVIOUS
  <2>2. f[i] = at[i] /\ at[i] \in 1 .. m
    BY <1>5, <1>6, <2>1
  <2>3. CASE j = n + 1
    BY <1>6, <2>2, <2>3
  <2>4. CASE j \in 1 .. n
    BY <1>5, <1>6, <2>1, <2>4
  <2> QED BY <1>7, <2>3, <2>4
<1>10. \A i \in 1 .. (n + 1) : u[i] = v[f[i]]
  <2>1. ASSUME NEW i \in 1 .. n PROVE u[i] = v[f[i]]
    <3>1. PICK k \in 1 .. m : k = at[i] /\ f[i] = k /\ s[i] = t[k]
      BY <1>5, <1>6
    <3>2. u[i] = s[i] /\ v[k] = t[k]
      BY <1>4
    <3> QED BY <3>1, <3>2
  <2> QED BY <1>4, <1>6, <1>7, <2>1
<1>11. \A k \in 1 .. (m + 1) :
         v[k] # NULL <=> \E i \in 1 .. (n + 1) : f[i] = k
  <2> SUFFICES ASSUME NEW k \in 1 .. (m + 1)
               PROVE  v[k] # NULL <=> \E i \in 1 .. (n + 1) : f[i] = k
    OBVIOUS
  <2>1. CASE k = m + 1
    <3>1. n + 1 \in 1 .. (n + 1)
      OBVIOUS
    <3> QED BY <1>4, <1>6, <2>1, <3>1
  <2>2. CASE k \in 1 .. m
    <3>1. v[k] # NULL <=> \E i \in 1 .. n : at[i] = k
      BY <1>4, <1>5, <2>2
    <3>2. f[n + 1] # k
      BY <1>6, <2>2
    <3>3. (\E i \in 1 .. (n + 1) : f[i] = k) <=> \E i \in 1 .. n : at[i] = k
      <4>1. 1 .. n \subseteq 1 .. (n + 1)
        OBVIOUS
      <4> QED BY <1>6, <1>7, <3>2, <4>1
    <3> QED BY <3>1, <3>3
  <2> QED BY <1>8, <2>1, <2>2
<1>12. {f[i] : i \in DOMAIN u} = {k \in DOMAIN v : v[k] # NULL}
  <2>1. \A i \in 1 .. (n + 1) : f[i] \in 1 .. (m + 1)
    BY <1>6
  <2>2. \A k : k \in {f[i] : i \in 1 .. (n + 1)} <=>
               k \in {j \in 1 .. (m + 1) : v[j] # NULL}
    BY <1>11, <2>1, Zenon
  <2>3. {f[i] : i \in 1 .. (n + 1)} = {j \in 1 .. (m + 1) : v[j] # NULL}
    BY <2>2, Zenon
  <2> QED BY <1>4, <2>3
<1>13. AreTheLinesOf(u, v)
  <2>1. f \in [DOMAIN u -> DOMAIN v]
    BY <1>4, <1>6
  <2> QED BY <1>4, <1>9, <1>10, <1>12, <2>1 DEF AreTheLinesOf
<1> QED BY <1>3, <1>13

(* A node without a line is taken off and leaves no trace. *)
LEMMA NothingTaken ==
  ASSUME NEW S, NEW s, NEW t \in Seq(S), NULL \in S, AreTheLinesOf(s, t)
  PROVE  AreTheLinesOf(s, Append(t, NULL))
<1>1. PICK at \in [DOMAIN s -> DOMAIN t] :
        /\ \A i, j \in DOMAIN s : i < j => at[i] < at[j]
        /\ \A i \in DOMAIN s : s[i] = t[at[i]]
        /\ {at[i] : i \in DOMAIN s} = {k \in DOMAIN t : t[k] # NULL}
  BY DEF AreTheLinesOf
<1>2. PICK m \in Nat : m = Len(t) /\ DOMAIN t = 1 .. m
  OBVIOUS
<1>3. PICK v : v = Append(t, NULL)
  OBVIOUS
<1>4. /\ DOMAIN v = 1 .. (m + 1) /\ v[m + 1] = NULL
      /\ \A k \in 1 .. m : v[k] = t[k]
      /\ 1 .. m \subseteq 1 .. (m + 1)
  BY <1>2, <1>3
<1>5. at \in [DOMAIN s -> DOMAIN v] /\ \A i \in DOMAIN s : at[i] \in 1 .. m
  BY <1>1, <1>2, <1>4
<1>6. \A i \in DOMAIN s : s[i] = v[at[i]]
  BY <1>1, <1>4, <1>5
<1>7. {k \in DOMAIN v : v[k] # NULL} = {k \in DOMAIN t : t[k] # NULL}
  BY <1>2, <1>4
<1>8. AreTheLinesOf(s, v)
  BY <1>1, <1>5, <1>6, <1>7 DEF AreTheLinesOf
<1> QED BY <1>3, <1>8

(* With the file of lines, FileFollowsQueue is inductive. *)
FileInv == file \in Seq(Lines) /\ FileFollowsQueue

LEMMA NextFile == Inv /\ FileInv /\ [Next]_vars => FileInv'
<1> SUFFICES ASSUME Inv, FileInv, [Next]_vars PROVE FileInv'
  OBVIOUS
<1>1. CASE WriterTakes
  <2>1. PICK line : line = str[log_head]
    OBVIOUS
  <2>2. /\ writer = "start" /\ str'[node'] = line
        /\ taken \in Seq(Lines) /\ line \in Lines /\ file \in Seq(Lines)
        /\ taken' = Append(taken, line) /\ writer' = "write"
        /\ UNCHANGED <<file, failed>>
    BY <1>1, <2>1 DEF WriterTakes, Inv, TypeOK, FileInv
  <2>3. ~ failed => AreTheLinesOf(file, taken)
    BY <2>2 DEF FileInv, FileFollowsQueue
  <2>4. CASE line = NULL
    <3>1. ~ failed => AreTheLinesOf(file, Append(taken, NULL))
      BY <2>2, <2>3, <2>4, NothingTaken
    <3>2. ~ failed' => AreTheLinesOf(file', taken')
      BY <2>2, <2>4, <3>1
    <3> QED BY <2>2, <2>4, <3>2 DEF FileInv, FileFollowsQueue
  <2>5. CASE line # NULL
    <3>1. ~ failed => AreTheLinesOf(Append(file, line), Append(taken, line))
      BY <2>2, <2>3, <2>5, LineTaken
    <3>2. ~ failed' => AreTheLinesOf(Append(file', str'[node']), taken')
      BY <2>2, <3>1
    <3> QED BY <2>2, <2>5, <3>2 DEF FileInv, FileFollowsQueue
  <2> QED BY <2>4, <2>5
<1>2. CASE WriterWrites
  <2>1. /\ writer = "write" /\ writer' = "start" /\ UNCHANGED taken
        /\ str[node] \in Lines
    BY <1>2 DEF WriterWrites, Inv, TypeOK
  <2>2. file' \in Seq(Lines)
    <3>1. file' = file \/ file' = Append(file, str[node])
      BY <1>2, Zenon DEF WriterWrites
    <3> QED BY <2>1, <3>1 DEF FileInv
  <2>3. ASSUME ~ failed' PROVE AreTheLinesOf(file', taken')
    <3>1. /\ ~ failed
          /\ file' = IF str[node] # NULL THEN Append(file, str[node]) ELSE file
      BY <1>2, <2>3 DEF WriterWrites, Inv, TypeOK
    <3> QED BY <2>1, <3>1 DEF FileInv, FileFollowsQueue
  <2> QED BY <2>1, <2>2, <2>3 DEF FileInv, FileFollowsQueue
<1>3. ASSUME UNCHANGED <<file, taken, failed>>, writer # "write",
             writer' # "write"
      PROVE  FileInv'
  BY <1>3 DEF FileInv, FileFollowsQueue
<1>4. ASSUME UNCHANGED <<file, taken, failed, writer>>, str'[node'] = str[node]
      PROVE  FileInv'
  BY <1>4 DEF FileInv, FileFollowsQueue
<1>5. CASE \E t \in Threads, line \in Lines : write_in_server_log(t, line)
  <2>1. /\ UNCHANGED <<file, taken, failed, node>>
        /\ writer' = IF writer = "wait" THEN "start" ELSE writer
    BY <1>5 DEF write_in_server_log, Signal
  <2>2. CASE writer = "write"
    <3>1. PICK line : str' = Append(str, line)
      BY <1>5 DEF write_in_server_log
    <3>2. str \in Seq(Lines) /\ node \in 1 .. Len(str)
      BY <2>2 DEF Inv, TypeOK
    <3>3. Append(str, line)[node] = str[node]
      BY ONLY <3>2
    <3> QED BY <1>4, <2>1, <2>2, <3>1, <3>3
  <2> QED BY <1>3, <2>1, <2>2
<1>6. CASE CloseSignals
  <2>1. /\ UNCHANGED <<file, taken, failed, node, str>>
        /\ writer' = IF writer = "wait" THEN "start" ELSE writer
    BY <1>6 DEF CloseSignals, Signal, nodes
  <2> QED BY <1>3, <1>4, <2>1
<1>7. CASE \/ \E t \in Threads : \/ ThreadEnds(t)
                                 \/ \E line \in Lines : LogAfterClose(t, line)
           \/ CloseJoins \/ CloseFrees \/ UNCHANGED vars
  BY <1>4, <1>7 DEF ThreadEnds, LogAfterClose, CloseJoins, CloseFrees, vars, nodes
<1>8. CASE WriterWaits \/ WriterWakes \/ WriterEnds
  BY <1>3, <1>8 DEF WriterWaits, WriterWakes, WriterEnds
<1> QED BY <1>1, <1>2, <1>5, <1>6, <1>7, <1>8 DEF Next, WriterStep, CloseStep

(***************************************************************************)
(* While write() does not fail, the file is the sequence of the lines that *)
(* the writer has taken off the queue: outside lock_log, it writes each    *)
(* once and in order, and none for a node that has no line.                *)
(***************************************************************************)
THEOREM LogFileFollowsQueue == Spec => []FileFollowsQueue
<1>1. Init => FileInv
  <2> SUFFICES ASSUME Init PROVE FileInv
    OBVIOUS
  <2>1. AreTheLinesOf(file, taken)
    <3>1. PICK e : e = <<>> /\ file = e /\ taken = e
      BY DEF Init
    <3>2. PICK f : f = [i \in {} |-> i]
      OBVIOUS
    <3>3. DOMAIN e = {} /\ f \in [{} -> {}] /\ DOMAIN f = {}
      BY <3>1, <3>2
    <3>4. {f[i] : i \in {}} = {} /\ {k \in {} : e[k] # NULL} = {}
      OBVIOUS
    <3> QED BY <3>1, <3>3, <3>4 DEF AreTheLinesOf
  <2>2. writer = "start" /\ file \in Seq(Lines)
    BY EmptySeq DEF Init
  <2> QED BY <2>1, <2>2 DEF FileInv, FileFollowsQueue
<1>2. FileInv => FileFollowsQueue
  BY DEF FileInv
<1> QED BY <1>1, <1>2, InitInv, NextInv, NextFile, PTL DEF Spec
=============================================================================
