----------------------------- MODULE ClientStub -----------------------------
(***************************************************************************)
(* The stub of source/client_stub.c: for every remote operation, the       *)
(* request it sends and what it makes of the answer.  The answer NULL is   *)
(* what network_send_receive returns when the connection fails.            *)
(*                                                                         *)
(* The two users of the stub are the client program and a chain server     *)
(* that talks to its neighbours.                                           *)
(***************************************************************************)
EXTENDS ListSkel

CONSTANTS
  MaxItems,   \* cars and models that fit a message of 0xFFFF bytes
  CRASH       \* the process dereferences a null pointer

ASSUME MaxItemsAssumption == MaxItems \in Nat

(* The length of a message travels in 16 bits: a longer one is not sent. *)
Fits(msg) == Len(msg.cars) + Len(msg.models) <= MaxItems

(* The message enums have the numbers of the list's enums. *)
marca_to_proto(marca) ==
  IF marca \in MARCA_TOYOTA .. MARCA_MERCEDES THEN marca ELSE -1

combustivel_to_proto(combustivel) ==
  IF combustivel \in COMBUSTIVEL_GASOLINA .. COMBUSTIVEL_HIBRIDO
    THEN combustivel ELSE -1

op_success(res, opcode, ctype) ==
  /\ res # NULL
  /\ res.opcode = opcode + 1
  /\ res.opcode # OP_BAD
  /\ res.c_type = ctype

(* The local copies of the cars of an answer: NULL if one is not valid. *)
CopyCars(cars) ==
  IF \E i \in DOMAIN cars : data_dup(cars[i]) = NULL
    THEN NULL
    ELSE [i \in DOMAIN cars |-> data_dup(cars[i])]

-----------------------------------------------------------------------------
(* The requests. *)

AddRequest(car) ==
  [MESSAGE_T__INIT EXCEPT !.opcode = OP_ADD, !.c_type = CT_DATA,
     !.data = [car EXCEPT !.marca = marca_to_proto(@),
                          !.combustivel = combustivel_to_proto(@)]]

RemoveRequest(modelo) ==
  [MESSAGE_T__INIT EXCEPT !.opcode = OP_DEL, !.c_type = CT_MODEL,
                          !.models = <<modelo>>]

GetByMarcaRequest(marca) ==
  [MESSAGE_T__INIT EXCEPT !.opcode = OP_GET, !.c_type = CT_MARCA,
                          !.result = marca_to_proto(marca)]

GetByYearRequest(ano) ==
  [MESSAGE_T__INIT EXCEPT !.opcode = OP_GETLISTBYTEAR, !.c_type = CT_RESULT,
                          !.result = ano]

(* Also the request by which a new server fetches its neighbour's list. *)
OrderRequest ==
  [MESSAGE_T__INIT EXCEPT !.opcode = OP_GETLISTBYTEAR, !.c_type = CT_RESULT,
                          !.result = -1]

SizeRequest ==
  [MESSAGE_T__INIT EXCEPT !.opcode = OP_SIZE, !.c_type = CT_NONE]

GetModelListRequest ==
  [MESSAGE_T__INIT EXCEPT !.opcode = OP_GETMODELS, !.c_type = CT_NONE]

-----------------------------------------------------------------------------
(* What each remote operation returns for the answer res. *)

rlist_add(res) == IF op_success(res, OP_ADD, CT_NONE) THEN 0 ELSE -1

(* The answer is used before it is tested for NULL. *)
rlist_remove_by_model(res) ==
  IF res = NULL THEN CRASH
  ELSE IF res.opcode = OP_DEL + 1 /\ res.c_type = CT_RESULT THEN res.result
  ELSE -1

rlist_get_by_marca(res) ==
  IF op_success(res, OP_GET, CT_DATA) THEN data_dup(res.data) ELSE NULL

rlist_get_by_year(res) ==
  IF op_success(res, OP_GETLISTBYTEAR, CT_LIST) /\ res.cars # <<>>
    THEN CopyCars(res.cars) ELSE NULL

(* The cars it prints, then the return code. *)
rlist_order_by_year(res) ==
  IF /\ op_success(res, OP_GETLISTBYTEAR, CT_LIST)
     /\ res.cars # <<>>
     /\ CopyCars(res.cars) # NULL
    THEN [rc |-> 0, shown |-> CopyCars(res.cars)]
    ELSE [rc |-> -1, shown |-> <<>>]

rlist_size(res) == IF op_success(res, OP_SIZE, CT_RESULT) THEN res.result ELSE -1

rlist_get_model_list(res) ==
  IF op_success(res, OP_GETMODELS, CT_MODEL) THEN res.models ELSE NULL
=============================================================================
