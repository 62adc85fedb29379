----------------------------- MODULE RemoteList -----------------------------
(***************************************************************************)
(* One client program and one server: the command loop of                  *)
(* source/list_client.c calls the stub, the server's thread runs invoke on *)
(* the request and sends the answer back, and the stub turns it into a     *)
(* return value.  The client runs one command at a time and waits for it;  *)
(* what several clients and servers do to each other is the subject of     *)
(* module ChainServer.                                                     *)
(*                                                                         *)
(* The connection is lost when the server stops, at any moment, and when   *)
(* the answer is too long for one message: the thread then closes the      *)
(* socket.  In both cases the request may have been carried out.           *)
(***************************************************************************)
EXTENDS ClientStub

CONSTANTS
  Cars,      \* the arguments of add, valid and not
  Models,    \* the arguments of remove
  Marcas,    \* the arguments of get_by_marca
  Years,     \* the arguments of get_by_year
  MaxLen     \* bound: add is not called on a longer list

(* What add and remove send and what they are answered with. *)
WriteMessages ==
  [opcode : Nat, c_type : Nat, data : Cars \cup {NULL}, result : Int,
   models : Seq(Models), cars : {<<>>}]

(* A car has the fields of a data_t; a car or a message is not the null    *)
(* pointer; the answer to remove fits a message, as its request did; and   *)
(* a process that has ended returns nothing.                               *)
ASSUME RemoteListAssumption ==
  /\ \A car \in Cars :
       car \in [ano : Int, preco : {car.preco}, marca : Int,
                modelo : {car.modelo}, combustivel : Int]
  /\ NULL \notin Cars \cup WriteMessages
  /\ MaxItems >= 1
  /\ CRASH \notin {0, 1}

VARIABLES
  list,      \* the server's list_t
  link,      \* "up" or "closed"
  client,    \* "running" or "crashed"
  call,      \* the command under way: its request is sent, or it is done
             \* and the answer on its way; NULL if there is none
  last       \* the last command with the list before it and its return value

vars == <<list, link, client, call, last>>

Commands ==
       [cmd : {"add"}, arg : Cars]
  \cup [cmd : {"remove"}, arg : Models]
  \cup [cmd : {"get_by_marca"}, arg : Marcas]
  \cup [cmd : {"get_by_year"}, arg : Years]
  \cup [cmd : {"get_list_ordered_by_year", "size", "get_model_list"},
        arg : {NULL}]

-----------------------------------------------------------------------------
(* The request of a command; NULL if the client refuses to send one. *)
Request(c) ==
  CASE c.cmd = "add" ->
         IF data_dup(c.arg) = NULL THEN NULL ELSE AddRequest(c.arg)
    [] c.cmd = "remove"       -> RemoveRequest(c.arg)
    [] c.cmd = "get_by_marca" ->
         IF marca_to_proto(c.arg) = -1 THEN NULL ELSE GetByMarcaRequest(c.arg)
    [] c.cmd = "get_by_year"  -> GetByYearRequest(c.arg)
    [] c.cmd = "get_list_ordered_by_year" -> OrderRequest
    [] c.cmd = "size"           -> SizeRequest
    [] c.cmd = "get_model_list" -> GetModelListRequest

(* The return value of a command whose answer is res. *)
Returned(c, res) ==
  CASE c.cmd = "add"            -> rlist_add(res)
    [] c.cmd = "remove"         -> rlist_remove_by_model(res)
    [] c.cmd = "get_by_marca"   -> rlist_get_by_marca(res)
    [] c.cmd = "get_by_year"    -> rlist_get_by_year(res)
    [] c.cmd = "get_list_ordered_by_year" -> rlist_order_by_year(res)
    [] c.cmd = "size"           -> rlist_size(res)
    [] c.cmd = "get_model_list" -> rlist_get_model_list(res)

Record(c, before, ret) ==
  last' = [cmd |-> c.cmd, arg |-> c.arg, before |-> before, ret |-> ret]

-----------------------------------------------------------------------------
Init ==
  /\ list = list_create
  /\ link = "up"
  /\ client = "running"
  /\ call = NULL
  /\ last = NULL

(* A command the client turns down with its usage line. *)
Refuse(c) ==
  /\ client = "running" /\ call = NULL
  /\ Request(c) = NULL
  /\ Record(c, list, IF c.cmd = "add" THEN -1 ELSE NULL)
  /\ UNCHANGED <<list, link, client, call>>

(* A command whose request is written to the connection. *)
Send(c) ==
  /\ client = "running" /\ link = "up" /\ call = NULL
  /\ Request(c) # NULL
  /\ c.cmd = "add" => Len(list.cars) < MaxLen
  /\ call' = [c |-> c, pc |-> "sent", before |-> list, msg |-> NULL]
  /\ last' = NULL
  /\ UNCHANGED <<list, link, client>>

(* The server's thread receives the request and carries it out. *)
Invoke ==
  /\ call # NULL /\ call.pc = "sent" /\ link = "up"
  /\ LET done == invoke(Request(call.c), list)
     IN  /\ list' = done.list
         /\ call' = [call EXCEPT !.pc = "done", !.msg = done.msg]
  /\ UNCHANGED <<link, client, last>>

(* network_send fails for an answer that is too long: the thread ends. *)
SendFails ==
  /\ call # NULL /\ call.pc = "done" /\ link = "up"
  /\ ~ Fits(call.msg)
  /\ link' = "closed"
  /\ UNCHANGED <<list, client, call, last>>

(* The answer arrives.  The server may have stopped after it sent it. *)
Return ==
  /\ call # NULL /\ call.pc = "done"
  /\ Fits(call.msg)
  /\ Record(call.c, call.before, Returned(call.c, call.msg))
  /\ call' = NULL
  /\ UNCHANGED <<list, link, client>>

(* No answer arrives on a connection that is closed: it was not sent, *)
(* whether or not the request was carried out.                        *)
ReturnLost ==
  /\ call # NULL /\ link = "closed"
  /\ Record(call.c, call.before, Returned(call.c, NULL))
  /\ client' = IF Returned(call.c, NULL) = CRASH THEN "crashed" ELSE "running"
  /\ call' = NULL
  /\ UNCHANGED <<list, link>>

(* A command on a connection the server has closed: the read fails, or the *)
(* write raises SIGPIPE, which the client does not ignore.                 *)
CallClosed(c) ==
  /\ client = "running" /\ link = "closed" /\ call = NULL
  /\ Request(c) # NULL
  /\ \/ /\ client' = IF Returned(c, NULL) = CRASH THEN "crashed" ELSE "running"
        /\ Record(c, list, Returned(c, NULL))
     \/ /\ client' = "crashed"
        /\ UNCHANGED last
  /\ UNCHANGED <<list, link, call>>

(* The server process ends. *)
ServerStops ==
  /\ link = "up"
  /\ link' = "closed"
  /\ UNCHANGED <<list, client, call, last>>

Next ==
  \/ \E c \in Commands : Refuse(c) \/ Send(c) \/ CallClosed(c)
  \/ Invoke \/ SendFails \/ Return \/ ReturnLost
  \/ ServerStops

Spec == Init /\ [][Next]_vars

-----------------------------------------------------------------------------
(* The state is well formed: every car in the list passed validar_dados. *)
TypeOK ==
  /\ list.size \in Nat
  /\ \A i \in DOMAIN list.cars : data_dup(list.cars[i]) = list.cars[i]
  /\ link \in {"up", "closed"}
  /\ client \in {"running", "crashed"}
  /\ call # NULL => call.c \in Commands /\ call.pc \in {"sent", "done"}

(***************************************************************************)
(* list_get_all and list_get_model_list allocate list->size + 1 entries    *)
(* and then write one per node: after any history of adds, removals and    *)
(* sorts the size field is the number of nodes.                            *)
(***************************************************************************)
SizeCountsNodes == list.size = Len(list.cars)

(* The first car of the model is gone, and nothing else. *)
FirstRemoved(before, after, modelo) ==
  LET OfModel(car) == car.modelo = modelo
  IN  \E i \in DOMAIN before : /\ FirstSuch(before, OfModel, i)
                               /\ WithoutPosition(before, after, i)

(***************************************************************************)
(* A write reports what it did.  add returns 0 only if the car went to the *)
(* end of the list; remove returns 0 only if the first car of the model    *)
(* went away, 1 only if there is none.  Any other return value means the   *)
(* list is as it was, unless the connection was lost: then the write may   *)
(* have been carried out as well, once and as it should.                   *)
(***************************************************************************)
WritesReportWhatTheyDid ==
  last # NULL =>
    LET before == last.before.cars
        after  == list.cars
        NothingOr(effect) == after = before \/ (link = "closed" /\ effect)
    IN  /\ last.cmd = "add" =>
             LET added == after = Append(before, last.arg)
             IN  IF last.ret = 0 THEN added ELSE NothingOr(added)
        /\ last.cmd = "remove" =>
             LET removed == FirstRemoved(before, after, last.arg)
             IN  CASE last.ret = 0 -> removed
                   [] last.ret = 1 ->
                        /\ after = before
                        /\ \A i \in DOMAIN before : before[i].modelo # last.arg
                   [] OTHER -> NothingOr(removed)

(* The answer ret to command cmd describes the cars in the list. *)
Describes(cmd, arg, ret, cars) ==
  /\ cmd = "get_by_marca" /\ ret # NULL =>
       LET OfMarca(car) == car.marca = arg
       IN  \E i \in DOMAIN cars : FirstSuch(cars, OfMarca, i) /\ ret = cars[i]
  /\ cmd = "get_by_year" /\ ret # NULL =>
       IF arg = -1 THEN StablySorted(cars, ret) ELSE CarsOfYear(cars, ret, arg)
  /\ cmd = "get_list_ordered_by_year" /\ ret.rc = 0 =>
       StablySorted(cars, ret.shown)
  /\ cmd = "size" /\ ret # -1 => ret = Len(cars)
  /\ cmd = "get_model_list" /\ ret # NULL =>
       /\ Len(ret) = Len(cars)
       /\ \A i \in DOMAIN ret : ret[i] = cars[i].modelo

(***************************************************************************)
(* A query that returns something returns what the list held when it was   *)
(* asked: the first car of the marca, exactly the cars of the year in list *)
(* order, all the cars oldest first, the number of cars, the models in     *)
(* list order.  Asked for year -1, get_by_year returns what                *)
(* get_list_ordered_by_year does.                                          *)
(***************************************************************************)
QueriesDescribeTheList ==
  last # NULL => Describes(last.cmd, last.arg, last.ret, last.before.cars)

(***************************************************************************)
(* No query adds or loses a car: at most it changes the order, and then to *)
(* the stable order by year, whatever the query is and whether or not its  *)
(* answer arrives.                                                         *)
(***************************************************************************)
QueriesKeepTheCars ==
  [][call # NULL /\ call.c.cmd \notin {"add", "remove"} =>
       list'.cars = list.cars \/ StablySorted(list.cars, list'.cars)]_list
=============================================================================
