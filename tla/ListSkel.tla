------------------------------ MODULE ListSkel ------------------------------
(***************************************************************************)
(* The skeleton of source/list_skel.c: invoke() runs the operation that a  *)
(* message names on the list and turns the same message into its answer.   *)
(*                                                                         *)
(* A message is a record with the fields of message_t in sdmessage.proto.  *)
(* An absent data field is NULL; opcodes and content types keep their      *)
(* numbers, because an answer's opcode is the request's opcode plus one.   *)
(***************************************************************************)
EXTENDS CarList

OP_BAD           == 0
OP_ADD           == 10
OP_GET           == 20
OP_DEL           == 30
OP_SIZE          == 40
OP_GETMODELS     == 50
OP_GETLISTBYTEAR == 60
OP_ORDER         == 70
OP_ERROR         == 99

CT_BAD    == 0
CT_DATA   == 10
CT_MARCA  == 20
CT_MODEL  == 40
CT_RESULT == 50
CT_LIST   == 60
CT_NONE   == 70

MESSAGE_T__INIT ==
  [opcode |-> OP_BAD, c_type |-> CT_BAD, data |-> NULL,
   result |-> 0, models |-> <<>>, cars |-> <<>>]

(* The answer of every failing branch of invoke. *)
ErrorReply(msg) ==
  [msg EXCEPT !.opcode = OP_ERROR, !.c_type = CT_NONE, !.result = -1]

-----------------------------------------------------------------------------
(* One operator per case of the switch; each yields [msg, list]. *)

InvokeSize(msg, list) ==
  [msg  |-> [msg EXCEPT !.result = list_size(list),
                        !.opcode = @ + 1, !.c_type = CT_RESULT],
   list |-> list]

InvokeAdd(msg, list) ==
  LET d   == msg.data
      car == IF d = NULL THEN NULL
             ELSE data_create(d.ano, d.preco, d.marca, d.modelo, d.combustivel)
      add == list_add(list, car)
  IN  IF add.rc = 0
        THEN [msg  |-> [msg EXCEPT !.opcode = @ + 1, !.c_type = CT_NONE,
                                   !.result = 0],
              list |-> add.list]
        ELSE [msg |-> ErrorReply(msg), list |-> list]

(* A content type other than CT_MARCA leaves the message as it came. *)
InvokeGet(msg, list) ==
  LET car == list_get_by_marca(list, msg.result)
  IN  [msg  |-> IF msg.c_type # CT_MARCA THEN msg
                ELSE IF car = NULL THEN ErrorReply(msg)
                ELSE [msg EXCEPT !.data = car, !.opcode = @ + 1,
                                 !.c_type = CT_DATA],
       list |-> list]

(* Mutant: the list is cut down to the cars of the answer. *)
InvokeGetListCuts(msg, list) ==
  LET cars == IF msg.result # -1 THEN list_get_by_year(list, msg.result)
              ELSE list_get_all(list_order_by_year(list))
  IN  [msg  |-> [msg EXCEPT !.cars = cars, !.opcode = @ + 1,
                            !.c_type = CT_LIST],
       list |-> [size |-> Len(cars), cars |-> cars]]

(* Year -1 asks for the whole list and sorts it on the way. *)
InvokeGetListByYear(msg, list) ==
  LET kept == IF msg.result # -1 THEN list ELSE list_order_by_year(list)
      cars == IF msg.result # -1 THEN list_get_by_year(list, msg.result)
              ELSE list_get_all(kept)
  IN  [msg  |-> [msg EXCEPT !.cars = cars, !.opcode = @ + 1,
                            !.c_type = CT_LIST],
       list |-> kept]

InvokeGetModels(msg, list) ==
  [msg  |-> [msg EXCEPT !.models = list_get_model_list(list),
                        !.opcode = @ + 1, !.c_type = CT_MODEL],
   list |-> list]

InvokeDel(msg, list) ==
  IF Len(msg.models) # 1
    THEN [msg |-> ErrorReply(msg), list |-> list]
    ELSE LET del == list_remove_by_model(list, msg.models[1])
         IN  [msg  |-> [msg EXCEPT !.opcode = @ + 1, !.c_type = CT_RESULT,
                                   !.result = del.rc],
              list |-> del.list]

(* OP_ORDER has no case of its own: it ends in the default branch. *)
invoke(msg, list) ==
  CASE msg.opcode = OP_SIZE          -> InvokeSize(msg, list)
    [] msg.opcode = OP_ADD           -> InvokeAdd(msg, list)
    [] msg.opcode = OP_GET           -> InvokeGet(msg, list)
    [] msg.opcode = OP_GETLISTBYTEAR -> InvokeGetListByYear(msg, list)
    [] msg.opcode = OP_GETMODELS     -> InvokeGetModels(msg, list)
    [] msg.opcode = OP_DEL           -> InvokeDel(msg, list)
    [] OTHER                         -> [msg |-> ErrorReply(msg), list |-> list]
=============================================================================
