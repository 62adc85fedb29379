----------------------------- MODULE ChainClient -----------------------------
(***************************************************************************)
(* One client program: source/chain_client.c with the command loop of      *)
(* source/list_client.c.                                                   *)
(*                                                                         *)
(* Two threads call update: the main thread from zoo_init_client, and the  *)
(* ZooKeeper callback thread from child_watcher.  Both replace the links   *)
(* rlh and rlt under rls_lock, which the commands of the main thread take  *)
(* as well; the end of the program does not.                               *)
(*                                                                         *)
(* The servers are the environment: here they come, serve and go.  What    *)
(* they do with a request is module ChainServer, which has this client     *)
(* too, started already and without its end; here it is a call that        *)
(* returns or never does.                                                  *)
(***************************************************************************)
EXTENDS Integers, FiniteSets

CONSTANTS
  N,          \* servers 1 .. N may start, in this order
  Boot,       \* servers 1 .. Boot serve from the beginning
  Faults,     \* the kinds of failure that may happen
  MaxFaults,  \* bound: how many of them
  MaxCmds,    \* bound: how many commands the user gives
  MaxSignals, \* bound: how often SIGINT arrives
  Main, Zk,   \* the two threads
  Free        \* the holder of a mutex that nobody holds

Servers == 1 .. N
Callers == {Main, Zk}
Ends == {"head", "tail"}

ASSUME ClientAssumption ==
  /\ N \in Nat /\ Boot \in 0 .. N
  /\ Faults \subseteq {"zk", "busy", "expire"}
  /\ MaxFaults \in Nat /\ MaxCmds \in Nat /\ MaxSignals \in Nat
  /\ Main # Zk /\ Free \notin Callers

VARIABLES
  server,     \* each server: "new", "joining", "serving" or "gone"
  children,   \* ZooKeeper: the znodes below /chain
  watch,      \* ZooKeeper: whether the client's child watch is set
  event,      \* ZooKeeper: whether it has fired, not yet delivered
  main,       \* where the main thread is
  on,         \* the end that the main thread's command is for
  upd,        \* each thread's call of update: its progress and children_list
  rls_lock,   \* its holder
  link,       \* rlh and rlt: the server the pointer's link goes to, or 0
  freed,      \* the ends whose pointer is to a link that was freed
  ebusy,      \* whether zoo_init_client may find EBUSY in errno
  shutdown,   \* g_client_shutdown
  eintr,      \* the threads whose errno is EINTR from an earlier read
  faults,     \* how many failures have happened
  cmds,       \* how many commands were given
  signals,    \* how many signals there have been
  kept,       \* history: the ends whose last update could not read the znode
  overlap     \* history: whether the last child_watcher met zoo_init_client

zookeeper == <<children, watch, event>>
links == <<link, freed, kept>>
sigint == <<shutdown, eintr, signals>>
vars == <<server, zookeeper, main, on, upd, rls_lock, links, ebusy, sigint,
          faults, cmds, overlap>>

Running == main \notin {"exited", "crashed", "undefined"}

-----------------------------------------------------------------------------
Fail(kind) ==
  /\ kind \in Faults
  /\ faults < MaxFaults
  /\ faults' = faults + 1

(* A call that fails if cond holds, and may fail anyway. *)
FailsIf(cond, kind) ==
  \/ cond /\ UNCHANGED faults
  \/ ~ cond /\ Fail(kind)

(* A change of /chain: the watch fires, once. *)
SetChildren(kids) ==
  /\ children' = kids
  /\ event' = (event \/ watch)
  /\ watch' = FALSE

(* SIGINT arrives, in read or connect of the threads ws, or elsewhere. *)
Sigint(ws) ==
  /\ signals < MaxSignals
  /\ signals' = signals + 1
  /\ shutdown' = TRUE
  /\ eintr' = eintr \cup ws

(* rlist_connect waits for a server that listens but is not ready yet. *)
Ready(t) == server[t] = "serving"

IsEnd(e, kids, t) ==
  t \in kids /\ \A k \in kids : IF e = "head" THEN t <= k ELSE k <= t

Idle == [pc |-> "idle", end |-> "tail", kids |-> {}]

(* A call of update begins; it does nothing for an empty list. *)
Begin(w) ==
  upd' = [upd EXCEPT ![w] =
            IF children = {} THEN Idle
            ELSE [pc |-> "get", end |-> "head", kids |-> children]]

(* The head is done, then the tail. *)
NextEnd(w) ==
  upd' = [upd EXCEPT ![w] =
            IF @.end = "head" THEN [@ EXCEPT !.pc = "get", !.end = "tail"]
                              ELSE Idle]

-----------------------------------------------------------------------------
(* zoo_init_client *)

(* The session, /chain, the first watch and the first snapshot. *)
Start ==
  /\ main = "start"
  /\ \/ /\ watch' = TRUE
        /\ Begin(Main)
        /\ main' = "update"
        /\ UNCHANGED faults
     \/ /\ Fail("zk")
        /\ main' = "closing"
        /\ UNCHANGED <<watch, upd>>
  /\ UNCHANGED <<server, children, event, on, rls_lock, links, ebusy, sigint,
                 cmds, overlap>>

(* The program gives up without a link for each end.  It reads both        *)
(* pointers without rls_lock, and errno without knowing who set it.        *)
CheckLinks ==
  /\ main = "update" /\ upd[Main].pc = "idle"
  /\ \/ /\ \A e \in Ends : link[e] # 0
        /\ main' = "prompt"
     \/ /\ ebusy \/ \E e \in Ends : link[e] = 0
        /\ main' = "closing"
  /\ ebusy' = FALSE
  /\ UNCHANGED <<server, zookeeper, on, upd, rls_lock, links, sigint, faults,
                 cmds, overlap>>

-----------------------------------------------------------------------------
(* child_watcher and update *)

(* If zoo_wget_children fails, the watch is not set again. *)
child_watcher ==
  /\ Running /\ event /\ upd[Zk].pc = "idle"
  /\ event' = FALSE
  /\ \/ /\ watch' = TRUE
        /\ Begin(Zk)
        /\ overlap' = (main = "update" /\ upd[Main].pc # "idle")
        /\ UNCHANGED faults
     \/ /\ Fail("zk")
        /\ UNCHANGED <<watch, upd, overlap>>
  /\ UNCHANGED <<server, children, main, on, rls_lock, links, ebusy, sigint,
                 cmds>>

(* zoo_get of the znode; the old link stays if it fails. *)
GetNode(w) ==
  LET e == upd[w].end
  IN  /\ Running /\ upd[w].pc = "get"
      /\ \E t \in upd[w].kids :
           /\ IsEnd(e, upd[w].kids, t)
           /\ \/ /\ t \in children
                 /\ upd' = [upd EXCEPT ![w].pc = "lock"]
                 /\ UNCHANGED <<faults, kept>>
              \/ /\ FailsIf(t \notin children, "zk")
                 /\ NextEnd(w)
                 /\ kept' = kept \cup {e}
      /\ UNCHANGED <<server, zookeeper, main, on, rls_lock, link, freed,
                     ebusy, sigint, cmds, overlap>>

(* rlist_disconnect of a link that is freed already: nothing more is said. *)
FreeLink(e, goon) ==
  IF e \in freed
    THEN main' = "undefined" /\ UNCHANGED freed
    ELSE /\ main' = goon
         /\ freed' = IF link[e] = 0 THEN freed ELSE freed \cup {e}

(* Mutant: the link is dropped before rls_lock is taken. *)
DropWithoutLock(w) ==
  /\ Running /\ upd[w].pc = "lock"
  /\ FreeLink(upd[w].end, main)
  /\ rls_lock' = w
  /\ upd' = [upd EXCEPT ![w].pc = "connect"]
  /\ UNCHANGED <<server, zookeeper, on, link, kept, ebusy, sigint, faults,
                 cmds, overlap>>

(* The old link goes; the pointer to it stays until rlist_connect returns. *)
DropLink(w) ==
  /\ Running /\ upd[w].pc = "lock" /\ rls_lock = Free
  /\ FreeLink(upd[w].end, main)
  /\ rls_lock' = w
  /\ upd' = [upd EXCEPT ![w].pc = "connect"]
  /\ UNCHANGED <<server, zookeeper, on, link, kept, ebusy, sigint, faults,
                 cmds, overlap>>

(* Mutant: a call without a new link leaves the old pointer. *)
RelinkKeepsPointer(w, t) ==
  LET e == upd[w].end
  IN  /\ link' = [link EXCEPT ![e] = IF t = 0 THEN @ ELSE t]
      /\ freed' = IF t = 0 THEN freed ELSE freed \ {e}
      /\ kept' = kept \ {e}
      /\ rls_lock' = Free
      /\ NextEnd(w)

(* Mutant: a call without a new link leaves an error code as the link. *)
RelinkStoresError(w, t) ==
  LET e == upd[w].end
  IN  /\ link' = [link EXCEPT ![e] = IF t = 0 THEN -1 ELSE t]
      /\ freed' = freed \ {e}
      /\ kept' = kept \ {e}
      /\ rls_lock' = Free
      /\ NextEnd(w)

(* Mutant: a call without a new link returns without unlocking. *)
RelinkKeepsLock(w, t) ==
  LET e == upd[w].end
  IN  /\ link' = [link EXCEPT ![e] = t]
      /\ freed' = freed \ {e}
      /\ kept' = kept \ {e}
      /\ rls_lock' = IF t = 0 THEN rls_lock ELSE Free
      /\ NextEnd(w)

(* rlist_connect has returned: the pointer is replaced in any case. *)
Relink(w, t) ==
  LET e == upd[w].end
  IN  /\ link' = [link EXCEPT ![e] = t]
      /\ freed' = freed \ {e}
      /\ kept' = kept \ {e}
      /\ rls_lock' = Free
      /\ NextEnd(w)

Waits(w) ==
  /\ upd' = [upd EXCEPT ![w].pc = "wait"]
  /\ UNCHANGED <<link, freed, kept, rls_lock>>

(* connect(): a server listens before it has its znode, one that is gone   *)
(* refuses, and SIGINT makes the call fail.                                *)
ConnectLink(w) ==
  /\ Running /\ upd[w].pc = "connect"
  /\ \E t \in upd[w].kids :
       /\ IsEnd(upd[w].end, upd[w].kids, t)
       /\ \/ server[t] # "gone" /\ Waits(w) /\ UNCHANGED sigint
          \/ server[t] = "gone" /\ Relink(w, 0) /\ UNCHANGED sigint
          \/ Sigint({w}) /\ Relink(w, 0)
  /\ UNCHANGED <<server, zookeeper, main, on, ebusy, faults, cmds, overlap>>

(* read_all goes on at the end of the stream if errno still is EINTR. *)
UpdateSpins(w) ==
  /\ w \in eintr
  /\ upd' = [upd EXCEPT ![w].pc = "spin"]
  /\ UNCHANGED <<link, freed, kept, rls_lock>>

(* A server in its accept loop sends READY, or BUSY if it is full. *)
LinkReady(w) ==
  /\ Running /\ upd[w].pc = "wait"
  /\ \E t \in upd[w].kids :
       /\ IsEnd(upd[w].end, upd[w].kids, t)
       /\ \/ Ready(t) /\ Relink(w, t) /\ UNCHANGED <<ebusy, faults>>
          \/ /\ Ready(t) /\ Fail("busy") /\ Relink(w, 0)
             /\ ebusy' = (ebusy \/ w = Main)
          \/ /\ server[t] = "gone"
             /\ Relink(w, 0) \/ UpdateSpins(w)
             /\ UNCHANGED <<ebusy, faults>>
  /\ UNCHANGED <<server, zookeeper, main, on, sigint, cmds, overlap>>

-----------------------------------------------------------------------------
(* The command loop of list_client.c *)

(* A line is read, and no SIGINT before: a command for an end. *)
Command(e) ==
  /\ main = "prompt" /\ ~ shutdown /\ cmds < MaxCmds
  /\ cmds' = cmds + 1
  /\ on' = e
  /\ main' = "want"
  /\ UNCHANGED <<server, zookeeper, upd, rls_lock, links, ebusy, sigint,
                 faults, overlap>>

TakeLock ==
  /\ main = "want" /\ rls_lock = Free
  /\ rls_lock' = Main
  /\ main' = "command"
  /\ UNCHANGED <<server, zookeeper, on, upd, links, ebusy, sigint, faults,
                 cmds, overlap>>

(* The call of the stub returns.  On a link whose server is gone it may    *)
(* end the program (SIGPIPE; the missing answer of a remove).              *)
CommandReturns ==
  /\ main = "command"
  /\ \/ /\ main' = IF on \in freed THEN "undefined" ELSE "prompt"
     \/ /\ link[on] # 0 /\ server[link[on]] = "gone"
        /\ main' = "crashed"
  /\ rls_lock' = Free
  /\ on' = "head"
  /\ UNCHANGED <<server, zookeeper, upd, links, ebusy, sigint, faults, cmds,
                 overlap>>

(* The answer will never come, and read_all does not notice: the command   *)
(* keeps rls_lock.                                                         *)
CommandSpins ==
  /\ main = "command" /\ Main \in eintr
  /\ link[on] # 0 /\ server[link[on]] = "gone"
  /\ main' = "spin"
  /\ UNCHANGED <<server, zookeeper, on, upd, rls_lock, links, ebusy, sigint,
                 faults, cmds, overlap>>

(***************************************************************************)
(* SIGINT, in whatever thread.  The handler is set without SA_RESTART:     *)
(* read_all takes EINTR as a reason to read again, and leaves it in errno. *)
(***************************************************************************)
Signal ==
  /\ Running
  /\ \/ Sigint({})
     \/ \E w \in Callers : upd[w].pc = "wait" /\ Sigint({w})
     \/ main = "command" /\ link[on] # 0 /\ Sigint({Main})
  /\ UNCHANGED <<server, zookeeper, main, on, upd, rls_lock, links, ebusy,
                 faults, cmds, overlap>>

(* quit, or SIGINT noticed after fgets. *)
Quit ==
  /\ main = "prompt"
  /\ main' = "free head"
  /\ UNCHANGED <<server, zookeeper, on, upd, rls_lock, links, ebusy, sigint,
                 faults, cmds, overlap>>

(* Mutant: the end of main takes rls_lock and keeps it. *)
FreeHeadTakesLock ==
  /\ main = "free head" /\ rls_lock = Free
  /\ rls_lock' = Main
  /\ FreeLink("head", "free tail")
  /\ UNCHANGED <<server, zookeeper, on, upd, link, kept, ebusy, sigint,
                 faults, cmds, overlap>>

(* The end of main disconnects both links without rls_lock, and leaves the *)
(* pointers to a callback that may still run.                              *)
FreeHead ==
  /\ main = "free head"
  /\ FreeLink("head", "free tail")
  /\ UNCHANGED <<server, zookeeper, on, upd, rls_lock, link, kept, ebusy,
                 sigint, faults, cmds, overlap>>

FreeTail ==
  /\ main = "free tail"
  /\ FreeLink("tail", "closing")
  /\ UNCHANGED <<server, zookeeper, on, upd, rls_lock, link, kept, ebusy,
                 sigint, faults, cmds, overlap>>

(* zookeeper_close waits for the callback thread. *)
zoo_clean_client ==
  /\ main = "closing" /\ upd[Zk].pc = "idle"
  /\ main' = "exited"
  /\ UNCHANGED <<server, zookeeper, on, upd, rls_lock, links, ebusy, sigint,
                 faults, cmds, overlap>>

-----------------------------------------------------------------------------
(* The servers *)

client == <<main, on, upd, rls_lock, links, ebusy, sigint, cmds, overlap>>

Join(t) ==
  /\ Running /\ server[t] = "new"
  /\ \A k \in Servers : k < t => server[k] # "new"
  /\ server' = [server EXCEPT ![t] = "joining"]
  /\ SetChildren(children \cup {t})
  /\ UNCHANGED <<client, faults>>

Serve(t) ==
  /\ Running /\ server[t] = "joining"
  /\ server' = [server EXCEPT ![t] = "serving"]
  /\ UNCHANGED <<client, zookeeper, faults>>

Leave(t) ==
  /\ Running /\ server[t] \in {"joining", "serving"}
  /\ server' = [server EXCEPT ![t] = "gone"]
  /\ UNCHANGED <<client, zookeeper, faults>>

(* A znode goes after its process, or with a session that expires. *)
Expire(t) ==
  /\ Running /\ t \in children
  /\ FailsIf(server[t] = "gone", "expire")
  /\ SetChildren(children \ {t})
  /\ UNCHANGED <<client, server>>

-----------------------------------------------------------------------------
Init ==
  /\ server = [t \in Servers |-> IF t <= Boot THEN "serving" ELSE "new"]
  /\ children = 1 .. Boot
  /\ watch = FALSE /\ event = FALSE
  /\ main = "start" /\ on = "head"
  /\ upd = [w \in Callers |-> Idle]
  /\ rls_lock = Free
  /\ link = [e \in Ends |-> 0]
  /\ freed = {} /\ kept = {}
  /\ ebusy = FALSE /\ overlap = FALSE
  /\ shutdown = FALSE /\ eintr = {}
  /\ faults = 0 /\ cmds = 0 /\ signals = 0

(* A call of the stub without a link returns at once. *)
MainStep ==
  \/ Start \/ CheckLinks \/ TakeLock \/ (link[on] = 0 /\ CommandReturns)
  \/ FreeHead \/ FreeTail \/ zoo_clean_client

UpdateStep(w) == GetNode(w) \/ DropLink(w) \/ ConnectLink(w)

(* A call to a server has an answer, or an error, or will have neither. *)
CallReturns ==
  \/ link[on] # 0 /\ CommandReturns
  \/ CommandSpins
  \/ \E w \in Callers : LinkReady(w)

(* The znode of a process that is gone goes in the end. *)
ExpireGone == \E t \in Servers : server[t] = "gone" /\ Expire(t)

Environment ==
  \/ \E t \in Servers :
       Join(t) \/ Serve(t) \/ Leave(t) \/ (server[t] # "gone" /\ Expire(t))
  \/ \E e \in Ends : Command(e)
  \/ Quit \/ Signal

Next ==
  \/ MainStep \/ child_watcher \/ (\E w \in Callers : UpdateStep(w))
  \/ CallReturns \/ ExpireGone \/ Environment

Spec == Init /\ [][Next]_vars

(* Both threads run when they can, and ZooKeeper does its part.  Nothing   *)
(* is assumed of the servers: one that joins may never serve, and a call   *)
(* to one may never return.                                                *)
FairSpec ==
  /\ Spec
  /\ WF_vars(MainStep) /\ WF_vars(child_watcher)
  /\ \A w \in Callers : WF_vars(UpdateStep(w))
  /\ WF_vars(ExpireGone)

-----------------------------------------------------------------------------
(* Properties *)

(* Each variable of chain_client.c and list_client.c has its type.         *)
TypeOK ==
  /\ server \in [Servers -> {"new", "joining", "serving", "gone"}]
  /\ children \subseteq Servers
  /\ watch \in BOOLEAN /\ event \in BOOLEAN
  /\ main \in {"start", "update", "prompt", "want", "command", "spin",
               "free head", "free tail", "closing", "exited", "crashed",
               "undefined"}
  /\ on \in Ends
  /\ upd \in [Callers -> [pc : {"idle", "get", "lock", "connect", "wait",
                                "spin"},
                          end : Ends, kids : SUBSET Servers]]
  /\ rls_lock \in Callers \cup {Free}
  /\ link \in [Ends -> 0 .. N]
  /\ freed \subseteq {e \in Ends : link[e] # 0} /\ kept \subseteq Ends
  /\ ebusy \in BOOLEAN /\ overlap \in BOOLEAN
  /\ shutdown \in BOOLEAN /\ eintr \subseteq Callers
  /\ faults \in 0 .. MaxFaults /\ cmds \in 0 .. MaxCmds
  /\ signals \in 0 .. MaxSignals

(* update_remote_list between rlist_disconnect and the new link. *)
Connecting == {"connect", "wait", "spin"}

Quitting == main \in {"free head", "free tail", "closing"}

(* A pointer to a freed link exists only inside update's section under     *)
(* rls_lock, so that no two calls free one link and no command uses it;    *)
(* the end of the program, which takes no lock, is left out.               *)
FreedOnlyUnderLock ==
  Running /\ ~ Quitting =>
    \A e \in freed : \E w \in Callers :
      upd[w].pc \in Connecting /\ upd[w].end = e /\ rls_lock = w

(* While a command uses its link, no update replaces it.                   *)
CommandKeepsItsLink ==
  [][main = "command" /\ main' = "command" => link'[on] = link[on]]_vars

(* No update is under way or due, and the watch is set. *)
Settled ==
  /\ Running /\ ~ Quitting
  /\ watch /\ \A w \in Callers : upd[w].pc = "idle"
  /\ children # {}

(* A settled client is linked to the head and to the tail of /chain, or to *)
(* none, unless its last call of zoo_get failed or child_watcher met       *)
(* zoo_init_client.  In that case the older snapshot may be the last to be *)
(* acted upon: reads go to a server that is the tail no more, until /chain *)
(* changes again.                                                          *)
EndsAreCurrent ==
  Settled /\ ~ overlap =>
    \A e \in Ends \ kept : link[e] # 0 => IsEnd(e, children, link[e])

(* A call to a server is under way: a command, or rlist_connect. *)
Calling ==
  \/ main = "spin"
  \/ main = "command" /\ link[on] # 0
  \/ \E w \in Callers : upd[w].pc \in {"wait", "spin"}

(* None of them hangs for ever. *)
CallsReturn == []<>(~ Calling)

(* As long as no call to a server hangs for ever, a command that waits for *)
(* rls_lock gets it and returns: update_remote_list, in the callback       *)
(* thread, gives it back on every path.                                    *)
EveryCommandReturns ==
  CallsReturn => (main = "want" ~> (main = "prompt" \/ ~Running))

(* As long as no call to a server hangs for ever, a client that quits      *)
(* ends: zookeeper_close gets past the callback thread, which may be at    *)
(* any place of update.  A link that both of them free is an end here too. *)
QuitEnds == CallsReturn => (Quitting ~> ~Running)
=============================================================================
