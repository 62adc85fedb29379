------------------------------ MODULE ServerLog ------------------------------
(***************************************************************************)
(* The log of source/network_server.c: client threads queue lines          *)
(* (write_in_server_log), one writer thread takes them off and writes them *)
(* to the file (handle_writing), and the main thread starts and stops the  *)
(* writer (create_server_log, close_server_log).                           *)
(*                                                                         *)
(* A section under lock_log in which nobody waits is one step.  The writer *)
(* waits inside its section, so it has a step up to pthread_cond_wait and  *)
(* one from its return on.  A line is NULL when the opcode of the message  *)
(* has no format: the node is queued and the writer skips it.              *)
(*                                                                         *)
(* The queue is the linked list of the code.  Its nodes are numbered in    *)
(* the order in which they are queued: node k has the line str[k] and the  *)
(* pointer next[k], and 0 is the null pointer.                             *)
(***************************************************************************)
EXTENDS Integers, Sequences

CONSTANTS
  NULL,
  Threads,    \* the client threads
  Lines,      \* the lines they log; NULL may be one of them
  MaxLines,   \* bound: lines logged in all
  MayFail     \* whether write() may fail

ASSUME LogAssumption == MaxLines \in Nat /\ MayFail \in BOOLEAN

VARIABLES
  str,             \* the nodes' lines: every node ever queued
  next,            \* the nodes' pointers
  freed,           \* the nodes that are freed
  log_head,
  log_tail,
  writer_running,
  writer,          \* the writer thread: where it is
  node,            \* the node it has taken off the queue
  file,            \* what was written to the log file
  closer,          \* close_server_log: where the main thread is
  thread,          \* where each client thread is
  taken,           \* history: every line taken off the queue
  failed           \* history: a write() has failed

nodes == <<str, next, freed, log_head, log_tail>>

vars == <<nodes, writer_running, writer, node, file, closer, thread, taken,
          failed>>

(* create_server_log has opened the file and started the writer. *)
Init ==
  /\ str = <<>> /\ next = [k \in 1 .. MaxLines |-> 0] /\ freed = {}
  /\ log_head = 0 /\ log_tail = 0
  /\ taken = <<>> /\ file = <<>>
  /\ writer_running = TRUE
  /\ writer = "start" /\ node = 0
  /\ closer = "open"
  /\ thread = [t \in Threads |-> "running"]
  /\ failed = FALSE

(* Mutant: the signal is left out. *)
NoSignal == UNCHANGED writer

(* pthread_cond_signal: only the writer ever waits on cond_log. *)
Signal == writer' = IF writer = "wait" THEN "start" ELSE writer

-----------------------------------------------------------------------------
(* The queue's section of write_in_server_log, after the line is made.  To *)
(* write to the last node after it was freed is undefined.                 *)
write_in_server_log(t, line) ==
  /\ thread[t] = "running" /\ closer # "closed"
  /\ Len(str) < MaxLines
  /\ str' = Append(str, line)
  /\ log_tail' = Len(str')
  /\ log_head' = IF log_tail = 0 THEN Len(str') ELSE log_head
  /\ next' = IF log_tail = 0 THEN next ELSE [next EXCEPT ![log_tail] = Len(str')]
  /\ thread' = IF log_tail \in freed THEN [thread EXCEPT ![t] = "undefined"]
                                     ELSE thread
  /\ Signal
  /\ UNCHANGED <<freed, writer_running, node, file, closer, taken, failed>>

(* The same call once lock_log and cond_log are destroyed. *)
LogAfterClose(t, line) ==
  /\ thread[t] = "running" /\ closer = "closed"
  /\ thread' = [thread EXCEPT ![t] = "undefined"]
  /\ UNCHANGED <<nodes, writer_running, writer, node, file, closer, taken, failed>>

(* The last line of a client thread is its CLOSE line. *)
ThreadEnds(t) ==
  /\ thread[t] = "running"
  /\ thread' = [thread EXCEPT ![t] = "ended"]
  /\ UNCHANGED <<nodes, writer_running, writer, node, file, closer, taken, failed>>

-----------------------------------------------------------------------------
(* handle_writing *)

(* Nothing to write and still running: wait, and give up the lock. *)
WriterWaits ==
  /\ writer = "start" /\ log_head = 0 /\ writer_running
  /\ writer' = "wait"
  /\ UNCHANGED <<nodes, writer_running, node, file, closer, thread, taken, failed>>

(* A condition variable may wake up by itself: the loop tests again. *)
WriterWakes ==
  /\ writer = "wait"
  /\ writer' = "start"
  /\ UNCHANGED <<nodes, writer_running, node, file, closer, thread, taken, failed>>

(* Mutant: the order to stop ends the writer with lines in the queue. *)
WriterEndsAtOnce ==
  /\ writer = "start" /\ ~ writer_running
  /\ writer' = "ended"
  /\ UNCHANGED <<nodes, writer_running, node, file, closer, thread, taken, failed>>

WriterEnds ==
  /\ writer = "start" /\ log_head = 0 /\ ~ writer_running
  /\ writer' = "ended"
  /\ UNCHANGED <<nodes, writer_running, node, file, closer, thread, taken, failed>>

(* Mutant: log_tail is left on the node that is taken. *)
WriterKeepsTail ==
  /\ writer = "start" /\ log_head # 0
  /\ node' = log_head
  /\ log_head' = next[log_head]
  /\ taken' = Append(taken, str[log_head])
  /\ writer' = "write"
  /\ UNCHANGED <<str, next, freed, log_tail, writer_running, file, closer,
                 thread, failed>>

WriterTakes ==
  /\ writer = "start" /\ log_head # 0
  /\ node' = log_head
  /\ log_head' = next[log_head]
  /\ log_tail' = IF log_head' = 0 THEN 0 ELSE log_tail
  /\ taken' = Append(taken, str[log_head])
  /\ writer' = "write"
  /\ UNCHANGED <<str, next, freed, writer_running, file, closer, thread, failed>>

(* Mutant: the node is written and not freed, and used again. *)
WriterKeepsNode ==
  /\ writer = "write"
  /\ file' = IF str[node] = NULL THEN file ELSE Append(file, str[node])
  /\ writer' = "start"
  /\ UNCHANGED <<nodes, writer_running, node, closer, thread, taken, failed>>

(* Mutant: a node without a line is written too. *)
WriterWritesNull ==
  /\ writer = "write"
  /\ file' = Append(file, str[node])
  /\ freed' = freed \cup {node}
  /\ node' = 0
  /\ writer' = "start"
  /\ UNCHANGED <<str, next, log_head, log_tail, writer_running, closer, thread,
                 taken, failed>>

(* Outside the lock: the write loop, until all is written or write fails;  *)
(* then the node is freed.                                                 *)
WriterWrites ==
  /\ writer = "write"
  /\ \/ /\ file' = IF str[node] = NULL THEN file ELSE Append(file, str[node])
        /\ UNCHANGED failed
     \/ /\ MayFail /\ str[node] # NULL
        /\ failed' = TRUE
        /\ UNCHANGED file
  /\ freed' = freed \cup {node}
  /\ node' = 0
  /\ writer' = "start"
  /\ UNCHANGED <<str, next, log_head, log_tail, writer_running, closer, thread,
                 taken>>

-----------------------------------------------------------------------------
(* close_server_log *)

(* Mutant: the writer is told to stop but not woken up. *)
CloseWithoutSignal ==
  /\ closer = "open"
  /\ writer_running' = FALSE
  /\ closer' = "join"
  /\ UNCHANGED <<nodes, writer, node, file, thread, taken, failed>>

CloseSignals ==
  /\ closer = "open"
  /\ writer_running' = FALSE
  /\ Signal
  /\ closer' = "join"
  /\ UNCHANGED <<nodes, node, file, thread, taken, failed>>

(* pthread_join. *)
CloseJoins ==
  /\ closer = "join" /\ writer = "ended"
  /\ closer' = "free"
  /\ UNCHANGED <<nodes, writer_running, writer, node, file, thread, taken, failed>>

(* The nodes that are left are freed, the mutex is destroyed. *)
CloseFrees ==
  /\ closer = "free"
  /\ log_head' = 0 /\ log_tail' = 0
  /\ freed' = DOMAIN str
  /\ closer' = "closed"
  /\ UNCHANGED <<str, next, writer_running, writer, node, file, thread, taken,
                 failed>>

-----------------------------------------------------------------------------
WriterStep == WriterWaits \/ WriterEnds \/ WriterTakes \/ WriterWrites
CloseStep  == CloseJoins \/ CloseFrees

Next ==
  \/ \E t \in Threads :
       \/ \E line \in Lines : write_in_server_log(t, line) \/ LogAfterClose(t, line)
       \/ ThreadEnds(t)
  \/ WriterStep \/ WriterWakes
  \/ CloseSignals \/ CloseStep

Spec == Init /\ [][Next]_vars

(* The writer and the main thread run when they can; no spurious wakeup,   *)
(* no call of close_server_log and no line is ever owed.                   *)
FairSpec == Spec /\ WF_vars(WriterStep) /\ WF_vars(CloseStep)

-----------------------------------------------------------------------------
(* The state is well formed; the writer has a node only while it writes. *)
TypeOK ==
  /\ str \in Seq(Lines) /\ Len(str) <= MaxLines /\ taken \in Seq(Lines)
  /\ next \in [1 .. MaxLines -> 0 .. Len(str)]
  /\ freed \subseteq DOMAIN str
  /\ log_head \in 0 .. Len(str) /\ log_tail \in 0 .. Len(str)
  /\ writer_running \in BOOLEAN /\ failed \in BOOLEAN
  /\ writer \in {"start", "wait", "write", "ended"}
  /\ node \in 0 .. Len(str) /\ (writer = "write" <=> node # 0)
  /\ closer \in {"open", "join", "free", "closed"}
  /\ thread \in [Threads -> {"running", "ended", "undefined"}]

(***************************************************************************)
(* Until close_server_log frees what is left, every line queued by any     *)
(* client thread has been taken by the writer once, in the order of the    *)
(* calls, or is reached from log_head along the nodes' pointers, in that   *)
(* order: none is lost, doubled or overtaken, and no client thread has     *)
(* hung its line on a node that the writer has freed.                      *)
(***************************************************************************)
NoLineIsLost ==
  closer # "closed" =>
    /\ Len(taken) <= Len(str)
    /\ \A i \in 1 .. Len(taken) : taken[i] = str[i]
    /\ log_head = IF Len(taken) = Len(str) THEN 0 ELSE Len(taken) + 1
    /\ \A k \in Len(taken) + 1 .. Len(str) :
         next[k] = IF k = Len(str) THEN 0 ELSE k + 1
    /\ \A t \in Threads : thread[t] # "undefined"

(* Sequence s is what is left of sequence t without the nodes that have no *)
(* line, in the order of t.                                                *)
AreTheLinesOf(s, t) ==
  \E at \in [DOMAIN s -> DOMAIN t] :
    /\ \A i, j \in DOMAIN s : i < j => at[i] < at[j]
    /\ \A i \in DOMAIN s : s[i] = t[at[i]]
    /\ {at[i] : i \in DOMAIN s} = {k \in DOMAIN t : t[k] # NULL}

(***************************************************************************)
(* The file holds the lines taken off the queue in their order, without    *)
(* the one being written and without the nodes that have no line.          *)
(***************************************************************************)
FileFollowsQueue ==
  ~ failed =>
    AreTheLinesOf(IF writer = "write" /\ str[node] # NULL
                  THEN Append(file, str[node]) ELSE file, taken)

(***************************************************************************)
(* The writer sleeps only when there is nothing to do: with a line in the  *)
(* queue, or after the order to stop, it is awake, and it ends only after  *)
(* that order.  So no signal of the two signallers is missed.              *)
(***************************************************************************)
NoLostWakeup ==
  /\ writer = "wait" => log_head = 0 /\ writer_running
  /\ writer = "ended" => ~ writer_running
  /\ writer_running <=> closer = "open"

(***************************************************************************)
(* A line queued while the log is open gets to the file, or its write has  *)
(* failed: the writer drains the queue before it ends.                     *)
(***************************************************************************)
LinesAreTaken ==
  \A n \in 1 .. MaxLines :
    (Len(str) = n /\ closer = "open") ~> (Len(taken) >= n /\ writer # "write")

(* close_server_log returns: its pthread_join waits for a thread that ends *)
(* once the lines already queued are written.                              *)
CloseReturns == (closer = "join") ~> (closer = "closed")
=============================================================================
