# List server: TLA+ models, model checking and proofs

This directory describes the list server of `src/` — a list of cars kept by a
chain of servers under ZooKeeper, with clients that write at one end of the
chain and read at the other — as TLA+ modules, checks them with TLC on small
instances, and proves with TLAPS, for all instances, the invariants of the
list with its stub, of the chain, of a server process, of its log and of a
client process, that the sort sorts, and that a complete chain implements one
list. Paths below are relative to `src/`.

    tlasany M.tla                          parse
    tlc -workers 2 -config X.cfg M         one of the runs below
    tlapm M.tla                            check the proofs of module M

## 1. The system

A server is a process `list_server`; a client is a process `list_client`.
ZooKeeper holds one ephemeral sequential znode `/chain/node-<n>` per server,
with the server's address. The order of the numbers is the order of the chain.
Writes (add, remove) go to the first server, which forwards them to the second,
and so on; the last applies first, answers, and its predecessors apply on the
way back. Reads go to the last server.

| component | files | state | operations | interacts with |
|---|---|---|---|---|
| list of cars | `source/list.c`, `source/data.c` | `list_t`: linked nodes, `size` | create, add, remove by model, get by marca, get by year, order by year, model list, destroy | called by the skeleton, under `lock_list` |
| skeleton | `source/list_skel.c` | none | `invoke`: one case per opcode, turns the request message into the answer | called by client threads |
| client stub | `source/client_stub.c`, `source/network_client.c` | `rlist_t`: the socket | connect (waits for READY or BUSY), one call per operation, disconnect | sends to a server; used by clients, and by servers for the link to the successor |
| client program | `source/list_client.c` | none of its own | reads commands, checks them, calls the stub | stub, client membership |
| client membership | `source/chain_client.c` | `rlh`, `rlt`, `rls_lock` | ZooKeeper child watcher; update of head and tail | ZooKeeper callback thread and command loop share `rls_lock` |
| server membership and chain | `source/chain_server.c`, `source/list_server.c` | `rl_next_server`, `rls_lock`, the znode | register, child watcher, update (relink), init_list (fetch the predecessor's list), forward to the successor, clean up | ZooKeeper callback thread, main thread and client threads share `rls_lock` |
| client threads | `source/network_server.c` | `lock_list`, `num_clients`, `client_list`, `server_shutdown` | accept loop with READY/BUSY; `client_thread`: receive, lock, forward, invoke, answer; `network_server_close` | chain, skeleton, log |
| server log | `source/network_server.c` | queue `log_head`..`log_tail`, `writer_running`, `lock_log`, `cond_log` | `write_in_server_log`, `handle_writing`, `create_server_log`, `close_server_log` | client threads produce, a writer thread consumes |
| transport | `source/message-private.c` | `errno` | `read_all`, `write_all`, 16-bit length prefix | under stub and server |
| message code | `source/sdmessage.pb-c.c`, `include/sdmessage.pb-c.h` | none | generated packing and unpacking | |
| build and documentation | `README.md`, `Makefile`, headers | | | |

What is hard here, and what makes each part correct:

* **Chain.** A write holds `lock_list` of every server on its way while it
  waits for the answer of the next one, and `rls_lock` for the forward itself;
  `update` takes `rls_lock` on another thread to drop and remake the link, and
  `init_list` of a new server takes `lock_list` of its predecessor. Correct
  means: locks are given back on every path, links never form a cycle, an
  answer goes to the request it answers, no write is applied twice or out of
  order, clients see one list, every request ends, and the links heal after a
  failure.
* **Membership.** Watches fire once; a snapshot of `/chain` may be old by the
  time it is used; a crashed server's znode outlives it by the session timeout.
* **List and skeleton.** `size` and the nodes must agree after any history
  (arrays are allocated from the one and filled from the other); a read may
  sort the list in place; the stub's return values must mean what its header
  says, also when the answer does not arrive.
* **Log.** No line lost, doubled or overtaken; no wakeup missed; closing ends
  and is safe against threads that are still running.
* **Accept loop.** `num_clients` is tested by one thread and counted by another;
  threads are detached, yet joined at the end under a mutex they need; the list,
  its mutex and the log are destroyed while they may run. Correct means: the
  table is that of the threads that run, every connection is answered, a slot
  that was given back is offered again, and the end of the process ends.
* **Client.** The ZooKeeper callback replaces `rlh` and `rlt` under the feet of
  the command loop. Correct means: no link is freed twice or used after, the
  links are the ends of `/chain`, commands and the end of the program return.
* **Transport.** `errno` is read where it was not set.

`PROJECT.json` lists each hazard with its line and the properties on it.

## 2. The modules

| module | models | uses |
|---|---|---|
| `CarList` | the list and the validation of cars, as operators on `[cars, size]` | |
| `ListSkel` | messages and `invoke` | `CarList` |
| `ClientStub` | requests, what each stub call makes of an answer, `Fits` (the 16-bit length) | `ListSkel` |
| `RemoteList`, `MCRemoteList` | one client and one server: the state machine of client commands | `ClientStub` |
| `ChainServer`, `MCChainServer` | the whole chain: servers, ZooKeeper, clients, failures | `ClientStub` |
| `ListService` | the abstract service: one list, each request takes effect at one moment | `ListSkel` |
| `ChainRefinement` | the mapping from `ChainServer` to `ListService` | `ChainServer` |
| `ServerLog`, `MCServerLog` | the log's queue, writer and closer | |
| `NetworkServer` | one server process: accept loop, threads, table of clients, the end of `main` | |
| `ChainClient` | one client process: `zoo_init_client`, callback, command loop, the end of `main` | |
| `CarListProofs` | what the operators of `CarList` compute, for lists of any length | `CarList` |
| `RemoteListProofs` | proofs about `RemoteList` | `CarListProofs` |
| `ChainServerProofs`, `ChainOnceProofs` | proofs about `ChainServer`, the second on top of the first | |
| `ChainStableProofs` | proofs about a complete chain, and that it implements `ListService` | `ChainOnceProofs`, `ChainRefinement`, `CarListProofs` |
| `ServerLogProofs` | proofs about `ServerLog` | |
| `NetworkServerProofs` | proofs about `NetworkServer` | |
| `ChainClientProofs` | proofs about `ChainClient` | |

Operators marked *Mutant* in the modules are faulty variants of the definition
that follows them. No specification uses them; each shows that a property would
notice that fault in the code.

### CarList, ListSkel, ClientStub, RemoteList

`list_add`, `list_remove_by_model`, `list_order_by_year` and the queries return
the new list and the return value of the C function. `list_add` validates
(`validar_dados`); the sort is the bubble sort of the code: walks that exchange
neighbours (`Exchange`, `Walk`) until one of them exchanges nothing, checked
against "sorted, stable, the same cars" (`StablySorted`). The walk, the loop of
walks and the loop of `list_get_by_year` are recursive functions, so that both
TLC and the proofs work with them. `invoke` keeps the opcode arithmetic (`opcode + 1` on
success, `OP_ERROR` otherwise) and the case in which year -1 asks for the whole
list, sorted in place. `RemoteList` runs any sequence of client commands, valid
or turned down by the client, on one server, with answers that may be too long
to be sent. A command is three steps: its request is sent (`Send`), carried out
(`Invoke`), and answered (`Return`, `ReturnLost`). The server may stop between
any two of them (`ServerStops`), so that a write may be carried out and its
answer lost: the stub then returns -1, or reads an answer that is not there,
although the list has changed.

### ChainServer

| variable | code |
|---|---|
| `main` | the main thread's place in `zoo_init_server`, accept loop, `zoo_clean_server` |
| `children`, `watch`, `event` | the znodes, the watches set, the watches fired and not yet delivered |
| `upd` | a call of `update` by `zoo_init_server` (`Main`) or `child_watcher` (`Zk`): its progress and its snapshot `children_list` |
| `rl_next`, `rls_lock` | `rl_next_server`, and who holds `rls_lock` |
| `lock_list`, `thr`, `out`, `list` | `lock_list`, each `client_thread` with its request, its answer, the list |
| `client`, `link`, `cupd` | a client's command, its `rlh` and `rlt`, its call of `update` |
| `todo`, `reply` | requests not made yet; what the client got |
| `faults` | how many failures there have been; whether one was the expiry of a live session |
| `hist`, `seen`, `effect` | history only: writes applied, the history of the list fetched, the last server's answer |

Grain of the actions: one action per stretch of code between two points where a
thread waits (a mutex, an answer, READY) or where another process can notice.
`TakeListLock`, `Forward`, `ForwardReturns`, `Apply`/`Refuse` are one write in
`client_thread`; `Read` is any other request. `Update` and `UpdateConnect` are
`update` before and after `rlist_connect`, with `rls_lock` held in between, as
in the code. `Register`, `GetChildren`, `init_list`, `ConnectPrevious`,
`LoadList` are `zoo_init_server`; `Stop`, `zoo_clean_server`, `Exit` the end of
a server; `ClientSend`, `ClientReceive` a command; `ClientWatcher`, `ClientGet`,
`ClientDisconnect`, `ClientConnect` the client's update of one end after the
other. `Crash`, `Expire`, and the failing branches guarded by `Fail(kind)` are
the failures, bounded by `MaxFaults`.

A connection carries one request at a time and TCP keeps it in order, so a
request is put straight into the receiving thread; it, or its answer, is lost
exactly when a process ends, a link is closed, or the answer is too long.

Taken as given, and named here because the properties lean on it:

* a connection to a process that is gone is refused at once: there are no
  network partitions and no hosts that vanish without a reset;
* a process ends right after `zookeeper_close`: what `list_skel_destroy` and
  `network_server_close` do after it is the subject of `NetworkServer`;
* SIGINT arrives while the main thread is in the accept loop: one that comes
  earlier sets a flag which the loop tests first, so that the server is
  "serving" and then stops with nothing in between;
* a server that fails before it has its znode is one that never started. (The
  first two servers of all may both find no `/chain`; the one whose
  `zoo_create` comes second gives up, `source/chain_server.c:391`.)
* memory does not run out; `zoo_wget_children` and `zoo_get` of a *client* fail
  only because a znode is gone, and a client is started already and does not
  quit: both are in `ChainClient`;
* ZooKeeper itself does not fail, and its numbers do not pass `INT_MAX`;
* clients make each request once (`todo`): the client program repeats none.

The branch of `Update` for an empty snapshot is kept as in the code although
`child_watcher` never passes one: a server's own znode is in it.

### ListService and ChainRefinement

`ListService` has one list; a request is called, takes effect, returns. The
mapping takes the list of the last server, and the moment it applies the
request, for a complete chain without failures.

### ServerLog

| variable | code |
|---|---|
| `str`, `next` | each node's line and its pointer to the next node |
| `log_head`, `log_tail`, `freed` | the two pointers to the queue's ends; the nodes that were freed |
| `writer_running`, `writer`, `node` | the order to go on; the writer thread and the node it holds |
| `file`, `closer`, `thread` | the log file, `close_server_log`, the client threads |
| `taken`, `failed` | history only: the lines taken off the queue; whether a `write` failed |

The queue is the linked list of the code: nodes are numbered in the order of the
calls, 0 is the null pointer. `write_in_server_log` hangs the new node on
`log_tail`, or makes it both ends if `log_tail` is NULL; `WriterTakes` moves
`log_head` on and resets `log_tail` with the last node. A `log_tail` left behind
would show as a line that `log_head` does not lead to, or as a line hung on a
freed node ("undefined").

One action per critical section of `lock_log`; `handle_writing` is cut at
`pthread_cond_wait` and at the write outside the lock. Spurious wakeups are
there (`WriterWakes`), so is a failing `write`. A node whose message has no
format carries NULL, as in the code. `create_server_log` is the initial state.

### NetworkServer

| variable | code |
|---|---|
| `main`, `cur`, `backlog` | the main thread in `network_main_loop` and at the end of `main`; the connection accepted; those that wait for `accept` |
| `shutdown`, `eintr` | `server_shutdown`; the threads whose `errno` still is EINTR |
| `num_clients`, `client_list` | the counter and the table of slots (a slot holds a connection or NULL) |
| `slotless` | history only: threads that found no slot |
| `lock_list`, `thr` | the mutex; each `client_thread` |
| `rls_lock`, `upd` | the mutex of the link to the successor; the ZooKeeper callback thread in `update` |
| `shut`, `client` | sockets shut down by `network_server_close`; what each client sees: waiting, ready, busy, a read or a write under way, lost, gone |
| `req` | the request sent on each connection and not yet answered |
| `inputs`, `signals` | bounds: requests and changes of `/chain`; SIGINTs |

`TestShutdown`, `Accept`, `CheckLimit`, `CreateThread`, `SendReady` are one turn
of the accept loop; `Enter`, `ThreadTests`, `Receive`, `TakeListLock`,
`Forward`, `ForwardReturns`, `FinishWrite`, `Send`, `Hangup`, `Leave` one
thread, with the two sections that change the table; `ChildWatcher`,
`UpdateLocks`, `UpdateReturns` the callback thread; `CleanChain`,
`CloseSession`, `FreeList`, `ShutClients`, `DestroyListLock`, `CloseLog`, `Exit`
the end of `main`. SIGINT may be taken by any thread: by the main thread, where
it wakes up `accept` or comes just too early for that (`SignalMain`), or by
another, where `read_all` goes on reading (`SignalThread`). A request that has
arrived is received and carried out also when its client is gone since.

What another server does is a call, made with `rls_lock` held, that returns,
fails or never does either: a forward, with `lock_list` held too, and the
connection that `update` makes. While one of them is under way another write
waits in `Forward`, and `zoo_clean_server` in `CleanChain`, for `rls_lock`;
`zookeeper_close` (`CloseSession`) waits for the callback thread.

Two things happen after which the model says nothing more of a thread: it uses
the list, `lock_list` or the log after they were destroyed (place "undefined");
it reads for ever at the end of its stream because `errno` is EINTR from an
earlier read ("spin"), keeping its locks if the read is that of a forward. And
the process may end in `close_server_log`, which joins a thread that
`create_server_log` may have failed to create. All three are
reached, and the properties are stated so that they hold with them.
`pthread_join` of a detached thread, undefined in POSIX, returns at once in
glibc, and does so here.

### ChainClient

| variable | code |
|---|---|
| `main`, `on` | the main thread: `zoo_init_client`, prompt, command, end; the end its command is for |
| `upd`, `rls_lock` | a call of `update` by the main thread (`Main`) or by `child_watcher` (`Zk`); the mutex |
| `link`, `freed` | `rlh` and `rlt`; those whose pointer is to a link freed by `rlist_disconnect` |
| `ebusy` | whether the main thread's `errno` may be EBUSY |
| `shutdown`, `eintr`, `signals` | `g_client_shutdown`; the threads whose `errno` still is EINTR; how often SIGINT came |
| `server`, `children`, `watch`, `event` | the servers and ZooKeeper, which here come and go |
| `kept`, `overlap` | history only: the ends whose last `zoo_get` failed; whether the last `child_watcher` met `zoo_init_client` |

`ChainServer` has the client as the chain sees it: started, never quitting, one
call of `update` at a time. This module has the rest: the two threads that may
both be in `update`, the pointer that dangles between `rlist_disconnect` and the
assignment of the new link (`DropLink`, `Relink`), the tests of
`zoo_init_client` (`CheckLinks`), SIGINT, and the end of `main`, which takes no
lock. `ConnectLink` is `connect()`, which a server that has gone refuses, one
that joins accepts, and a SIGINT interrupts; `LinkReady` is the wait for READY or
BUSY, which a server sends from its accept loop, and thus perhaps never.
`FreeLink` of a link that is freed already ends in "undefined". A thread in the
place "spin" reads for ever at the end of its stream, as in `NetworkServer`, and
keeps `rls_lock`.

## 3. The runs that pass

| run | instance | what it shows |
|---|---|---|
| `remote_list` | 5 cars, lists of up to 4, answers of up to 3 cars, a server that stops at any moment | writes report what they did, also when the answer is lost; queries describe the list, `size` counts the nodes, no query loses a car |
| `chain_stable` | 3 servers, 2 clients, 5 requests, no failures | a successor is level or one write ahead; an acknowledged write is everywhere; all servers apply the writes in one order; all hold as many cars of every model; every request is answered; the chain implements `ListService`, also with a request that sorts the list |
| `chain_crash` | 3 servers, 1 client, an add, any two servers crash | no write applied twice; the request does not wait for ever; the links become those of the survivors and stay so, after the second change of `/chain` as after the first |
| `chain_any` | a chain of one, 1 client, two writes; a second server joins, with any two failures of any kind and one write or one failure and both, or a second and a third, with any one and a silent client | the invariants that are proved, at-most-once while a server fetches a list, and that no link is missing without a failure, with every branch of every action taken |
| `server_log` | 2 client threads, 4 lines, failing writes | no line lost or hung on a freed node, the file follows the queue, no wakeup missed, the queue is drained, closing returns |
| `net_server` | 2 connections, 1 slot, 2 requests or changes of `/chain`, 1 signal, failing calls | the table is that of the threads, the counter that of the slots less the threads without one that have ended, BUSY only when all slots are taken; every connection is answered; unless a call to another server hangs for ever, the thread of a client that is gone ends, and so does the process |
| `chain_client` | 2 servers, 1 of them joins, 2 failures, 1 command, 1 signal | no link is freed twice or used after while the program runs, the links are the ends of `/chain`; unless a call to a server hangs for ever, commands return and the program ends |

Why the bounds are enough to be interesting. Three servers are the least with a
first, a middle and a last one: in the middle a server is both a target and a
source of forwards, and its crash leaves a write applied behind it and not
before it. Two clients are the least for two writes to meet at the first server
and a read to meet a write at the last. Two crashes in `chain_crash` are the
least for a second change of `/chain`: a server that does not set its watch
again deals with the first and misses the second, and the one that is left in
the end may have lost both neighbours, in either order, before or after it was
told. One write is there for the crashes to fall into; how several writes meet
is the subject of `chain_stable`. `Requests` is a set of requests each
made once and at any time; the cars collide in model ("golf" twice) or year. In
`chain_stable` the newer golf may come first, so that the read that sorts makes
the last server remove another car than the servers before it.
`MaxItems` (cars that fit in an answer; 0xFFFF bytes in the code) and `MaxLen`
are such that in `remote_list` lists pass the limit. In `chain_any` `MaxItems`
is 1, so that a server can fail to fetch a list that is too long. Two failures
in `chain_any` cover a failure and a second one while the first is being
handled. Its third server is there for server 2: it calls `update` from
`zoo_init_server` and from `child_watcher`, and only a server after it makes the
two calls differ, one with a snapshot without server 3 and one with it, either
of which may be the last to act. So that the run stays within its time, the
third server joins only while the clients are silent and at most one failure
has happened (`ThirdServerAlone`), and both requests are made only in behaviours
with at most one failure (`LastRequestAlone`); what a third server, and a second
write, mean for writes is proved, for all bounds. The two requests of `chain_any` add the same car and are
interchangeable (`RequestSymmetry`). In `net_server` the second connection finds the only slot taken, just
given back, or taken by a thread that has not counted itself yet: the cases of
six slots (`NUM_MAX_CLIENTS`) and seven connections. Two inputs let two writes
meet at `lock_list`, or a write and the callback's `update` at `rls_lock`. In `chain_client` the head
and the tail are one server, and become two and one again. Each of `zoo_get`,
`zoo_wget_children`, `rlist_connect` and a session may fail, two of them in one
behaviour.

`CHECK_DEADLOCK FALSE` stands where the system may stop: clients that ended, a
stopped server, a closed log, and, in `chain_any`, the join that never ends
(finding 2). In `chain_stable` and `chain_crash` deadlock *is* checked: `Quiet`
allows a state to stutter only if no request is under way and nobody is joining
or leaving.

### Fairness

`FairSpec` of `ChainServer` is `Spec /\ WF_vars(SystemStep)`: while some thread,
callback or client can go on by itself, some such step is eventually taken.
This is weaker than fairness for each thread: it says that the machine is not
stopped. It is enough since requests and failures are finite in number, so the
steps of the system run out. The steps of the environment — starting and
stopping a server, a crash, the expiry of a *live* session, a user's command —
are owed by nobody. The znode of a dead process does go, by the session timeout
of ZooKeeper. Mutexes are not assumed to be fair.

In `ServerLog` the writer and the main thread each run when they can; no line,
no call of `close_server_log` and no spurious wakeup is owed. So a lost signal
would show as a violation of `LinesAreTaken` or `CloseReturns`.

In `NetworkServer` and `ChainClient` every thread of the process runs when it
can, and ZooKeeper removes the znode of a process that has ended. Nothing is
assumed of other servers: one that joins may never serve, and a call to one may
never return, as finding 2 shows. What depends on it says so: `EveryThreadEnds`,
`CloseReturns`, `EveryCommandReturns` and `QuitEnds` have the premise
`CallsReturn`, that no call to another server hangs for ever. They then say that
the process itself adds no wait without end: each path gives its locks back, no
thread waits for one that waits for it, and the calls that the end of `main`
waits for are only those. Without the premise they are false, by finding 2 and
by the reads that never end (section 4). Mutexes are not fair, and need not be:
clients make finitely many requests, and `/chain` changes finitely often. No
command, signal, connection, join or failure is owed.

## 4. Where the code and its comments part

Each of the first five runs ends in a counterexample to one statement of the
repository.

1. `chain_v_local` — "É o último servidor — executa localmente"
   (`source/network_server.c:471`). Between a new server's fetch of the list and
   the old one's callback, the old server still has no successor: it applies and
   acknowledges a write which the new server, now the tail, never gets.
2. `chain_v_join` — a server that starts is to get its predecessor's list
   (`source/chain_server.c:431`). The predecessor's `update` waits, with
   `rls_lock`, for a READY that comes only after the fetch; a write that reaches
   the predecessor meanwhile holds `lock_list` and waits for `rls_lock`; the
   fetch waits for `lock_list`. All three wait for ever. With them wait the end
   of the predecessor, for `rls_lock` in `zoo_clean_server`, and every client
   whose `update` connects to the server that joins.
3. `chain_v_error` — "Para garantir atomicidade das operações de modificação"
   (`source/network_server.c:463`). A crash in the middle leaves a write that
   was answered with an error in the lists behind the crash.
4. `chain_v_order` — requests other than add, remove and order are "Operações
   não mutáveis" (`source/network_server.c:492`). The read of the ordered list
   sorts the tail's list and only the tail's; a later remove, which takes the
   first car of a model, removes different cars at head and tail. What holds
   instead is `ReplicasHoldSameModels`: the servers hold as many cars of every
   model. Clients do not notice, since they read at the tail and the answer to a
   write depends on the models only.
5. `net_v_limit` — "limitar número de clientes activos"
   (`source/network_server.c:548`). The accept loop tests a counter that only
   the new thread increments: two connections in a row pass the test with one
   slot free. The thread without a slot is not counted, but counts down at its
   end, so that the counter is too low from then on (`CounterCountsSlots` says
   by how much).

Three more have no run of their own; `PROJECT.json` quotes the lines.

6. "Fechar o server log de maneira segura" (`source/network_server.c:676`).
   Client threads are detached; one that is still running locks the destroyed
   mutex (`LogAfterClose` of `ServerLog`, "undefined" of `NetworkServer`).
7. `rlist_remove_by_model` returns 0, 1 or -1 (`include/client_stub.h:40`). On
   a lost connection it reads the answer that is not there (CRASH in
   `RemoteList`), and the car may be gone from the server's list.
8. `include/network_server.h:46` says that the shutdown signal closes
   descriptors to unblock accept and read; the code only sets a flag. A SIGINT
   that a client thread takes, or that comes between the test and `accept`, does
   not end the server before the next connection.

Other disagreements, read off the code and not the subject of a run:

* `README.md:134` accepts years up to the current year + 1; `source/data.c:109`
  turns the next year down. `CarList` follows the code.
* `rlist_get_by_year` with year -1 returns every car, sorted, where its header
  speaks of the cars of that year; `QueriesDescribeTheList` states what happens.
* A write that reaches a server after `zoo_clean_server` dropped the link finds
  no successor and is applied there alone, as in finding 1.
* `source/chain_server.c:256` speaks of the list owning the car; `list_add`
  stores a copy and the original is not freed.

And behaviour that no text of the repository speaks of, found by the models and
the proofs:

* `ChainServer`: with four servers, s to v, one crash makes two servers apply
  two writes in opposite orders. u crashes after it has forwarded a write to v;
  t answers with an error, and s, to which any answer is a success
  (`source/chain_server.c`, `zoo_forward_to_successor`), applies the write. The
  next write goes from s to t and, over t's new link, to v, which may apply it
  before the first one, whose thread at v is still running. So `SameOrder` is a
  property of chains without failures.
* `ChainServer`: two servers that join together may wait for each other. If the
  znode of 3 is there before the first `update` of 2 has ended
  (`source/chain_server.c:429`), 2's main thread waits, itself or for `rls_lock`,
  for the READY of 3; 3 wants the list of 2 first, and waits for the READY of 2.
* `ChainServer`: with five servers, a session that expires while its process is
  alive can make a server apply a write twice. The write is on its way at server
  4; 3 crashes, 2 answers with an error, 1 takes that for success and applies.
  5 registers, and 4 starts to link to it. Now 4's session expires and 2
  crashes; 5 finds 1 to be its predecessor, fetches a list that has the write,
  and serves; 4's link comes about, and 4 forwards the write to 5. Hence the
  condition of `AtMostOnce`.
* `ChainClient`: if `child_watcher` runs while `zoo_init_client` is in `update`,
  the call with the older snapshot may act last; the client then reads from a
  server that is the tail no more until `/chain` changes again. `EndsAreCurrent`
  is false without its `overlap`.
* `ChainClient`: at the end of `main` (`source/list_client.c:278`) a link is
  freed without `rls_lock`; a callback in `update_remote_list` may free it a
  second time.
* `NetworkServer`: after a SIGINT taken by a client thread, the end of its
  client's stream is read for ever: `read` returns 0, and `errno` is EINTR still
  (`source/message-private.c:25`). If the read is that of a forward, the thread
  holds `lock_list` and `rls_lock`, and `zoo_clean_server` never returns. The
  client's handler is set the same way, without SA_RESTART
  (`source/list_client.c:82`): a command whose server ends after a SIGINT reads
  for ever and keeps `rls_lock` (`ChainClient`).
* `NetworkServer`: `create_server_log`'s result is ignored
  (`source/network_server.c:416`); `close_server_log` then joins a thread that
  does not exist.

## 5. What is proved

All theorems hold for every value of the constants under `ChainAssumption`
(numbers of servers, kinds of names, disjointness of names),
`RequestAssumption` (a request has the fields of a message and is not for the
opcode no stub call sends; one for add or remove fits a message, and is not the
null pointer) and `YearAssumption` (the year of a car is an `int`);
`AnoAtualAssumption` and `RemoteListAssumption` (a car has the fields of a
`data_t`, a car or a message is not the null pointer, and the answer to remove
fits a message); `LogAssumption`,
`NetworkAssumption` (finitely many connections, at least one slot) or
`ClientAssumption`.

| theorem | statement |
|---|---|
| `SortByYearSorts` | `StablySorted(s, SortByYear(s))`, for a sequence `s` of any length of elements with a year |
| `RemoteTypeCorrect` | `Spec => []TypeOK` |
| `RemoteSizeCountsNodes` | `Spec => []SizeCountsNodes` |
| `RemoteWritesReport` | `Spec => []WritesReportWhatTheyDid` |
| `RemoteQueriesDescribe` | `Spec => []QueriesDescribeTheList` |
| `RemoteQueriesKeepTheCars` | `Spec => QueriesKeepTheCars` |
| `ChainTypeCorrect` | `Spec => []TypeOK` |
| `ChainLocksAreOwned` | `Spec => []LocksAreOwned` |
| `ChainLinksGoUp` | `Spec => []LinksGoUp` |
| `ChainAnswersMatchRequests` | `Spec => []AnswersMatchRequests` |
| `ChainLinksAreCurrent` | `Spec => []LinksAreCurrent` |
| `ChainAtMostOnce` | `Spec => []AtMostOnce` |
| `ChainSuccessorLeads` | `Complete` implies `Spec => []SuccessorLeadsByOne` |
| `ChainAckedIsEverywhere` | `Complete` implies `Spec => []AckedIsEverywhere` |
| `ChainSameOrder` | `Complete` implies `Spec => []SameOrder` |
| `ChainImplementsService` | `Complete` implies `Spec /\ []AnswersGetThrough => ImplementsListService` |
| `ShortChainImplementsService` | `Complete` and `ShortAnswers` imply `Spec => ImplementsListService` |
| `ChainSameModels` | `Complete` implies `Spec /\ []AnswersGetThrough => []ReplicasHoldSameModels` |
| `LogTypeCorrect` | `Spec => []TypeOK` |
| `LogKeepsLines` | `Spec => []NoLineIsLost` |
| `LogWakesWriter` | `Spec => []NoLostWakeup` |
| `LogFileFollowsQueue` | `Spec => []FileFollowsQueue` |
| `NetTypeCorrect` | `Spec => []TypeOK` |
| `NetSlotsMatchThreads` | `Spec => []SlotsMatchThreads` |
| `NetCounterCountsSlots` | `Spec => []CounterCountsSlots` |
| `NetBusyOnlyWhenFull` | `Spec => BusyOnlyWhenFull` |
| `ClientTypeCorrect` | `Spec => []TypeOK` |
| `ClientFreesUnderLock` | `Spec => []FreedOnlyUnderLock` |
| `ClientCommandKeepsItsLink` | `Spec => CommandKeepsItsLink` |
| `ClientEndsAreCurrent` | `Spec => []EndsAreCurrent` |

**The list.** `CarListProofs` says what the operators compute, for lists of any
length. Two things stand in the way of a proof about a recursive function: that
there is such a function at all, and an induction. The library's induction
theorems take an operator as a parameter, which no prover here can instantiate;
instead, the induction is over a *set* of numbers that has 0 and with n also
n + 1 (`NumbersByInduction`), which follows from the well-foundedness of `<`.
With it,

* `WalkedDef` and `ArrayDef`: the walk and the loop of `list_get_by_year` are
  functions, each determined up to node n + 1 if it is up to node n;
* `SortedByDef`: the loop of walks is one, too, whether or not it ends — each
  list is mapped to one that walks reach from it and leave alone, if there is
  one (`Results`), and a list and its walk have the same `Results`;
* `WalkedShuffles`: along a walk the list is a stable shuffle of what it was,
  since an exchange of neighbours of different years is one
  (`ShuffleExchange`) and stable shuffles compose (`ShuffleTransitive`);
* `WalkSorts`: if all cars from some position on are in place, one more is after
  a walk — the invariant inside the walk is `Placed`: what the walk carries along
  is the newest car so far. So the loop ends after at most as many walks as there
  are cars, which is the induction of `SortByYearSorts`.

`RemoteListProofs` builds on it. The invariant is `ListLike` (the cars passed
`validar_dados`, and `size` is their number), `CallFits` (while a command is
under way the list is what it was, or what `invoke` has made of it, and the
answer that waits is the one `invoke` gave), `Reports` (what the last command
returned is true of the list before and after it) and `Ends`. Each command has
lemmas that follow it through its request, `invoke`, the answer, which may be too
long or lost, and what the stub makes of it. That the server may stop between
`Invoke` and the answer is why `RemoteWritesReport` cannot say that a write that
failed has done nothing: after a lost connection the list is what it was, or that
with the one effect asked for (`NothingOr`), and nothing else. A car that
passed `validar_dados` is copied unchanged by each of the conversions on the
way (`DupIsCar`, `CopyIsSame`), which is why the list has what the client sent
and the client gets what the list has.

**The chain.** `ChainServerProofs` has the type invariant, one lemma per action,
and proves that `TypeOK /\ Safe` is inductive, one lemma per action again;
`Safe` has the three properties and what they need:

* `DeadHaveNoThreads` — a process that is gone has no thread: a link to it is
  broken, and nobody waits for it with a request of its own left in it;
* `FetchersFetch` — a thread on a *fetch* connection has the request of
  `init_list`, so that it never holds `lock_list` across a step, and a joining
  server that drops the connection ends no write;
* `RelinkingIsIdle` — a client that is relinking has no command under way, which
  is what its `rls_lock` is for: it ends no thread that is working for it;
* `UpdatesFit` — a call of `update` runs in a live process, for the main thread
  only while that waits for it, and connects to a higher number, which is what
  `LinksGoUp` comes from;
* `HoldersHaveWrites` — who holds `lock_list` carries a write.

`AnswersMatchRequests` is not inductive by itself: that the thread behind a link
is busy only while the link's server forwards depends on `rls_lock` being held
by exactly that forward (`LocksAreOwned`), and that `update` cannot drop the
link meanwhile depends on it again. `LinksGoUp` gives that a server is not its
own successor, so that the two ends of a link are two entries of `thr`.

`ChainOnceProofs` adds `LinksAreCurrent`: whatever fails, and however the calls
of `update` by `zoo_init_server` and by `child_watcher` interleave, a server
that has been told of every change of `/chain` and has dealt with it is linked
to the server after it in `/chain`, or to none. The invariant that carries it:

* `StartsInOrder` — numbers are given in order and only started servers have a
  znode, so that a znode missing from an old snapshot is above all that are in
  it (`SnapshotsFit`): the next server of an old snapshot, if it still has a
  znode, is the next one in `/chain`;
* `CallsAreCurrent` — the same of what a call between `zoo_get` and the
  assignment of the link is about to connect to;
* `FirstLookIsFirst` — before its first look a server has no link and no watch.

All steps that neither look at `/chain` nor relink have one lemma
(`OnlyDropsLinks`): znodes, links and calls only go.

Its second part is `AtMostOnce`, for chains of any length in which servers
join, stop and crash. A write is seen as one token that moves up the numbers.
Of the threads that still have to apply it (`Pending`), one is foremost: it has
not sent it on yet. `FrontierInv` says that there is one, that it is at the
highest number, that no list at or above that number has the write, and that a
server that still has to apply it has not done so. A forward moves the token to
a higher number (`LinksGoUp`); an answer that gets lost leaves it where it is;
applying it puts the write behind the frontier. What could break this is a list
that is *fetched* from below the token by a server above it. `JoinInv` excludes
that: the snapshot of a joining server has every live server that registered
before it, so that the predecessor it picks is the last of them or one that has
died; nobody between the two has a write in hand. A live server without a znode
would be passed over, which is the counterexample of section 4 and the reason
for the condition `~ faults.expired`.

These proofs about the chain say nothing of the contents of lists and messages;
they hold whatever `invoke` computes.

`ChainStableProofs` is about a chain that is complete from the beginning and does
not fail (`Complete`: `Boot = N` and `Faults = {}`), with any number of servers,
clients and requests. Nothing but client threads and commands moves then
(`Settled`, `StableStep`). The invariant is about neighbours in the row:

* `Lead` — the history of the next server is that of this one, with the one
  write more that a thread here has forwarded and got, or is about to get, an
  answer for (`Ahead`), if there is such a thread; `lock_list` lets there be one
  only. `SuccessorLeadsByOne` is `Lead` at one moment.
* `Prefix` — hence the history of a server is a beginning of that of every
  server further down; with `AtMostOnce`, this is `SameOrder`.
* `AnswersAreApplied` — an answer to a write that waits in a thread is one that
  fits a message, and its write is in this server's history; so every forward
  succeeds (`ForwardsSucceed`), and what the client gets has been applied by the
  first server (`AckedAtHead`), hence by all of them: `AckedIsEverywhere`.

**The chain is one list.** The last part of `ChainStableProofs` proves, step by
step, that the complete chain implements `ListService` under the mapping of
`ChainRefinement`: sending a request is `Call`; a read at the last server, and
a write applied there, is `Perform`; the client's receipt of the answer is
`Return`; every other step changes nothing (`NextService`, `StepRefines`). That
the answer the first server sends is the one that the last one gave is the hard
part. It needs `ListsLead`, the counterpart of `Lead` for the lists
themselves. That two neighbours have the same list, or that the next one's is
what `invoke` makes of this one's, would be enough, but is false: a read may
sort the list of the last server, and of no other (finding 4); then the order
differs, and a remove takes different cars of a model. What is inductive is
that neighbours hold as many cars of every model (`SameModels`), and, while a
write is ahead, that the next one's list has as many as what `invoke` makes of
this list and that write, *and the answer given at the last server* is the one
`invoke` gives here. It carries the refinement because the answer to a write
depends on the models only (`WritesAgree`): add validates the car, remove finds
a car of the model or none. That adds, removes and sorts keep `SameModels` is
counting: `AppendCounts`, `WithoutCounts` and `ShuffleCounts` of
`CarListProofs`, the last from what is proved of the sort. The rest of
`ServiceInv` says where requests are: who waits has one that is called and not
answered, no two clients the same one, and what has taken effect does not do so
again. `ListsLead` along the whole row, at a moment when no request is under
way, is `ChainSameModels`.

`AnswersGetThrough` is the one condition on the run: no answer waits that is too
long for a message; one that is lost ends a link, and the chain is no longer
settled. `ShortChainImplementsService` needs no such condition: for requests
whose answer is short whatever the list holds (`ShortAnswers`; add, remove, get
by marca and size are such), that no answer is lost is part of the invariant.

**The log.** `NoLineIsLost` says where `log_head` and the nodes' pointers lead;
it needs `EndsFit`: `log_tail` is the last node, or NULL once all are taken, only
nodes already taken are freed, and no pointer leads beyond the last node. So a
line is never hung on a freed node, and `log_head` is set again exactly when the
queue was empty. `FileFollowsQueue` says by an increasing
map of positions, not by a recursive filter, that the file has the lines taken
off the queue and no others; the writer's two steps extend that map by one
place or leave it (`LineTaken`, `NothingTaken`).

**A server process.** `SlotsMatchThreads` and `CounterCountsSlots` need that a
connection gets no second thread (`ConnectionsFit`: without a thread, it is in
one place only — not opened, in the backlog, or in the hands of the accept
loop) and that who has no slot has looked for one (`SlotlessRan`: else a thread
that has not started could be counted as one without a slot). The table changes
in two steps only, `Enter` and `Leave`; each adds or removes one element of
`Occupied`, or of the set of ended threads without a slot, and the counter with
it. The lower bound of `num_clients` in `TypeOK` comes from that count, and
`BusyOnlyWhenFull` from the counter never being above the number of slots in
use. Calls to other servers need no assumption: they do not touch the table.

**A client process.** `LocksFit` says who may hold `rls_lock`: a call between
`DropLink` and the new link (`Connecting`: in `connect()`, waiting for READY, or
reading for ever), or a command, which may read for ever too; and that the main thread calls
`update` only before the first prompt, so that the two never are the same
holder. `FreedOnlyUnderLock` is inductive with it, and `CommandKeepsItsLink`
follows. `EndsAreCurrent` needs what holds while a call is half done:
`SnapshotIsCurrent` (while the watch has not fired, every call under way has
`/chain` as it is now for its snapshot; two calls at once only after `overlap`)
and `DoneIsCurrent` (an end that no call has yet to deal with has the link it
should have).

**Model-checked only.** Liveness (`EveryRequestAnswered`, `ChainHeals`,
`LinesAreTaken`, `CloseReturns`, and those of `NetworkServer` and
`ChainClient`): it rests on fairness, and so on ENABLED, which the provers do
not treat. So is `NoLinkIsMissing`: it is about chains without failures in which
servers join. Every other invariant and every action property of a passing run is
proved, as is the refinement, for runs in which no answer is too long.

## 6. Mutants

Each property of a passing run is paired in `PROJECT.json` with a faulty variant
of one definition that breaks it: a forward that does not wait or is retried, a
lock not taken or not given back on one path, a link kept after it was closed,
a signal left out, a size not counted down, a sort that stops after one walk, a
car overwritten where two should change places, a slot not given back, a link
dropped before its lock is taken, `log_tail` left on a node that is taken off the
queue, a watch that is set once only or not with the first look at `/chain`. They show that the properties depend on the code they are about.

## 7. Not modelled

* Generated message code: packing and unpacking are taken to be inverse.
* Partial reads and writes: the loops of `read_all` and `write_all` put a
  message together again whatever pieces TCP makes of it, and a message that
  ends early is a lost one. What is kept of the transport is which calls fail,
  which answers are too long, and EINTR.
* Descriptor numbers, which the system gives out again after `close`: READY sent
  on a descriptor that belongs to another connection by then
  (`source/network_server.c:589`), and the search for a thread's slot, which
  compares the descriptor after it was closed.
* What comes before a server's znode, `/chain` itself, numbers past `INT_MAX`.
* The end of a client's own session: nothing in the code answers to it.
* The build, command parsing and printing, `data_replace` (never called),
  out-of-memory paths, the text of log lines.

Components that are modelled in part are named with their gaps in
`PROJECT.json`.

## 8. Where the project stands

In place: the list with its client and stub (`CarList` to `RemoteList`), the
chain with what it promises (`ChainServer`, `ListService`, `ChainRefinement`),
the log (`ServerLog`), one server process (`NetworkServer`), one client process
(`ChainClient`), and proofs about each of them.

What would be worth adding, if the code changes: the client's answer to the end
of its own session, once there is one; and the chain with answers too long for
a message (`AnswersGetThrough`), where a read that fails at the last server
breaks the client's link and leaves the servers' row as it was.
