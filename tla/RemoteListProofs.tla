--------------------------- MODULE RemoteListProofs ---------------------------
(***************************************************************************)
(* Proofs about module RemoteList, for lists of any length and any cars    *)
(* and commands.                                                           *)
(*                                                                         *)
(* The list holds cars that were valid when they came, as many as its size *)
(* says (ListLike).  For each command a lemma says what comes of it when   *)
(* it is carried out on such a list, from the request over invoke and the  *)
(* answer to the value the stub returns (Done).  The invariant ties the    *)
(* command under way to the list before it and the list now, so that the   *)
(* report is true whether the answer arrives or not.                       *)
(***************************************************************************)
EXTENDS RemoteList, CarListProofs

(* What add accepts: the copy that list_add keeps is the car itself. *)
Kept == {car \in Cars : data_dup(car) = car}

(* A list of such cars, and size is their number. *)
ListLike(l) ==
  /\ l.cars \in Seq(Kept)
  /\ l = [size |-> Len(l.cars), cars |-> l.cars]

-----------------------------------------------------------------------------
(* A car that passes validar_dados is copied field by field. *)
LEMMA DupIsCar ==
  ASSUME NEW car \in Cars
  PROVE  /\ car # NULL
         /\ car.ano \in Int
         /\ data_dup(car) = car \/ data_dup(car) = NULL
         /\ data_dup(car) = car =>
              /\ marca_to_proto(car.marca) = car.marca
              /\ combustivel_to_proto(car.combustivel) = car.combustivel
<1>1. /\ car \in [ano : Int, preco : {car.preco}, marca : Int,
                  modelo : {car.modelo}, combustivel : Int]
      /\ car # NULL
  BY RemoteListAssumption
<1>2. car = [ano |-> car.ano, preco |-> car.preco, marca |-> car.marca,
             modelo |-> car.modelo, combustivel |-> car.combustivel]
  BY <1>1
<1>3. CASE validar_dados(car.ano, car.preco, car.marca, car.modelo, car.combustivel)
  <2>1. data_dup(car) = car
    BY <1>2, <1>3 DEF data_dup, data_create
  <2>2. marca_to_proto(car.marca) = car.marca
        /\ combustivel_to_proto(car.combustivel) = car.combustivel
    BY <1>1, <1>3 DEF validar_dados, marca_to_proto, combustivel_to_proto
  <2> QED BY <1>1, <2>1, <2>2
<1>4. CASE ~ validar_dados(car.ano, car.preco, car.marca, car.modelo, car.combustivel)
  <2>1. data_dup(car) = NULL
    BY <1>4 DEF data_dup, data_create
  <2> QED BY <1>1, <2>1
<1> QED BY <1>3, <1>4

(* The cars of the list are cars, have a year and are copied unchanged. *)
LEMMA KeptCars ==
  /\ Kept \subseteq Cars /\ NULL \notin Kept /\ HaveYears(Kept)
  /\ \A car \in Kept : data_dup(car) = car
  BY DupIsCar DEF Kept, HaveYears

(* The stub copies the cars of an answer as they are. *)
LEMMA CopyIsSame ==
  ASSUME NEW cars \in Seq(Kept)
  PROVE  CopyCars(cars) = cars
<1>1. DOMAIN cars = 1 .. Len(cars) /\ \A i \in DOMAIN cars : cars[i] \in Kept
  OBVIOUS
<1>2. \A i \in DOMAIN cars : data_dup(cars[i]) = cars[i] /\ cars[i] # NULL
  BY <1>1, KeptCars
<1>3. CopyCars(cars) = [i \in DOMAIN cars |-> cars[i]]
  BY <1>2 DEF CopyCars
<1> QED BY <1>3

-----------------------------------------------------------------------------
(* A message, by its six fields. *)
Msg(op, ct, d, r, mo, ca) ==
  [opcode |-> op, c_type |-> ct, data |-> d, result |-> r,
   models |-> mo, cars |-> ca]

(* The fields of such a message. *)
LEMMA MsgFields ==
  ASSUME NEW m, NEW op, NEW ct, NEW d, NEW r, NEW mo, NEW ca,
         m = Msg(op, ct, d, r, mo, ca)
  PROVE  /\ m.opcode = op /\ m.c_type = ct /\ m.data = d /\ m.result = r
         /\ m.models = mo /\ m.cars = ca
  BY DEF Msg

(* The one message with these fields, as a set of records: what an EXCEPT *)
(* makes of a message is found by the type of the fields it sets.         *)
Msgs(op, ct, d, r, mo, ca) ==
  [opcode : {op}, c_type : {ct}, data : {d}, result : {r},
   models : {mo}, cars : {ca}]

(* The set has that message and no other. *)
LEMMA OneMsg ==
  ASSUME NEW op, NEW ct, NEW d, NEW r, NEW mo, NEW ca, NEW m
  PROVE  m \in Msgs(op, ct, d, r, mo, ca) <=> m = Msg(op, ct, d, r, mo, ca)
  BY DEF Msg, Msgs

(* The requests of source/client_stub.c, with the numbers of the protocol. *)
LEMMA RequestsAre ==
  /\ \A car : AddRequest(car) =
       Msg(10, 10, [car EXCEPT !.marca = marca_to_proto(@),
                               !.combustivel = combustivel_to_proto(@)],
           0, <<>>, <<>>)
  /\ \A m : RemoveRequest(m) = Msg(30, 40, NULL, 0, <<m>>, <<>>)
  /\ \A x : GetByMarcaRequest(x) = Msg(20, 20, NULL, marca_to_proto(x), <<>>, <<>>)
  /\ \A x : GetByYearRequest(x) = Msg(60, 50, NULL, x, <<>>, <<>>)
  /\ OrderRequest = Msg(60, 50, NULL, -1, <<>>, <<>>)
  /\ SizeRequest = Msg(40, 70, NULL, 0, <<>>, <<>>)
  /\ GetModelListRequest = Msg(50, 70, NULL, 0, <<>>, <<>>)
<1>1. PICK init : init = MESSAGE_T__INIT
  OBVIOUS
<1>2. init \in Msgs(0, 0, NULL, 0, <<>>, <<>>)
  BY <1>1 DEF MESSAGE_T__INIT, Msgs, OP_BAD, CT_BAD
<1>3. ASSUME NEW car
      PROVE  AddRequest(car) =
               Msg(10, 10, [car EXCEPT !.marca = marca_to_proto(@),
                                       !.combustivel = combustivel_to_proto(@)],
                   0, <<>>, <<>>)
  <2>1. PICK sent : sent = [car EXCEPT !.marca = marca_to_proto(@),
                                       !.combustivel = combustivel_to_proto(@)]
    OBVIOUS
  <2>2. [init EXCEPT !.opcode = 10, !.c_type = 10, !.data = sent]
          \in Msgs(10, 10, sent, 0, <<>>, <<>>)
    BY <1>2 DEF Msgs
  <2> QED BY <1>1, <2>1, <2>2, OneMsg DEF AddRequest, OP_ADD, CT_DATA
<1>4. ASSUME NEW m
      PROVE  RemoveRequest(m) = Msg(30, 40, NULL, 0, <<m>>, <<>>)
  <2>1. PICK models : models = <<m>>
    OBVIOUS
  <2>2. [init EXCEPT !.opcode = 30, !.c_type = 40, !.models = models]
          \in Msgs(30, 40, NULL, 0, models, <<>>)
    BY <1>2 DEF Msgs
  <2> QED BY <1>1, <2>1, <2>2, OneMsg DEF RemoveRequest, OP_DEL, CT_MODEL
<1>5. \A x : GetByMarcaRequest(x) = Msg(20, 20, NULL, marca_to_proto(x), <<>>, <<>>)
  <2>1. \A x : GetByMarcaRequest(x) \in Msgs(20, 20, NULL, marca_to_proto(x), <<>>, <<>>)
    BY <1>1, <1>2 DEF Msgs, GetByMarcaRequest, OP_GET, CT_MARCA
  <2> QED BY <2>1, OneMsg
<1>6. \A x : GetByYearRequest(x) = Msg(60, 50, NULL, x, <<>>, <<>>)
  <2>1. \A x : GetByYearRequest(x) \in Msgs(60, 50, NULL, x, <<>>, <<>>)
    BY <1>1, <1>2 DEF Msgs, GetByYearRequest, OP_GETLISTBYTEAR, CT_RESULT
  <2> QED BY <2>1, OneMsg
<1>7. OrderRequest = Msg(60, 50, NULL, -1, <<>>, <<>>)
  <2>1. OrderRequest \in Msgs(60, 50, NULL, -1, <<>>, <<>>)
    BY <1>1, <1>2 DEF Msgs, OrderRequest, OP_GETLISTBYTEAR, CT_RESULT
  <2> QED BY <2>1, OneMsg
<1>8. SizeRequest = Msg(40, 70, NULL, 0, <<>>, <<>>)
  <2>1. SizeRequest \in Msgs(40, 70, NULL, 0, <<>>, <<>>)
    BY <1>1, <1>2 DEF Msgs, SizeRequest, OP_SIZE, CT_NONE
  <2> QED BY <2>1, OneMsg
<1>9. GetModelListRequest = Msg(50, 70, NULL, 0, <<>>, <<>>)
  <2>1. GetModelListRequest \in Msgs(50, 70, NULL, 0, <<>>, <<>>)
    BY <1>1, <1>2 DEF Msgs, GetModelListRequest, OP_GETMODELS, CT_NONE
  <2> QED BY <2>1, OneMsg
<1> QED BY <1>3, <1>4, <1>5, <1>6, <1>7, <1>8, <1>9

(* What invoke does with a message, by the six fields. *)
LEMMA InvokeIs ==
  ASSUME NEW ct, NEW d, NEW r, NEW mo, NEW ca, NEW l
  PROVE  /\ invoke(Msg(40, ct, d, r, mo, ca), l)
              = [msg |-> Msg(41, 50, d, l.size, mo, ca), list |-> l]
         /\ LET car == data_create(d.ano, d.preco, d.marca, d.modelo, d.combustivel)
                add == list_add(l, car)
            IN  d # NULL /\ add.rc = 0 =>
                  invoke(Msg(10, ct, d, r, mo, ca), l)
                    = [msg |-> Msg(11, 70, d, 0, mo, ca), list |-> add.list]
         /\ r # -1 => invoke(Msg(60, ct, d, r, mo, ca), l)
              = [msg |-> Msg(61, 60, d, r, mo, list_get_by_year(l, r)), list |-> l]
         /\ r = -1 => invoke(Msg(60, ct, d, r, mo, ca), l)
              = [msg  |-> Msg(61, 60, d, r, mo, list_order_by_year(l).cars),
                 list |-> list_order_by_year(l)]
         /\ invoke(Msg(50, ct, d, r, mo, ca), l)
              = [msg |-> Msg(51, 40, d, r, list_get_model_list(l), ca), list |-> l]
         /\ LET del == list_remove_by_model(l, mo[1])
            IN  Len(mo) = 1 =>
                  invoke(Msg(30, ct, d, r, mo, ca), l)
                    = [msg |-> Msg(31, 50, d, del.rc, mo, ca), list |-> del.list]
<1>1. ASSUME NEW m, m = Msg(40, ct, d, r, mo, ca)
      PROVE  invoke(m, l) = [msg |-> Msg(41, 50, d, l.size, mo, ca), list |-> l]
  <2>1. m \in Msgs(40, ct, d, r, mo, ca) /\ m.opcode = 40
    BY <1>1, OneMsg, MsgFields
  <2>2. invoke(m, l) = InvokeSize(m, l)
    BY <2>1 DEF invoke, OP_SIZE, OP_ADD, OP_GET, OP_GETLISTBYTEAR, OP_GETMODELS,
              OP_DEL
  <2>3. [m EXCEPT !.result = l.size, !.opcode = 41, !.c_type = 50]
          \in Msgs(41, 50, d, l.size, mo, ca)
    BY <2>1 DEF Msgs
  <2> QED BY <2>1, <2>2, <2>3, OneMsg DEF InvokeSize, list_size, CT_RESULT
<1>2. ASSUME NEW m, m = Msg(10, ct, d, r, mo, ca), d # NULL,
             NEW add, add.rc = 0,
             add = list_add(l, data_create(d.ano, d.preco, d.marca, d.modelo,
                                           d.combustivel))
      PROVE  invoke(m, l) = [msg |-> Msg(11, 70, d, 0, mo, ca), list |-> add.list]
  <2>0. d # NULL /\ add.rc = 0
        /\ add = list_add(l, data_create(d.ano, d.preco, d.marca, d.modelo,
                                          d.combustivel))
    BY <1>2
  <2>1. m \in Msgs(10, ct, d, r, mo, ca) /\ m.opcode = 10 /\ m.data = d
    BY <1>2, OneMsg, MsgFields
  <2>2. invoke(m, l) = InvokeAdd(m, l)
    BY <2>1 DEF invoke, OP_SIZE, OP_ADD, OP_GET, OP_GETLISTBYTEAR, OP_GETMODELS,
              OP_DEL
  <2>3. [m EXCEPT !.opcode = 11, !.c_type = 70, !.result = 0]
          \in Msgs(11, 70, d, 0, mo, ca)
    BY <2>1 DEF Msgs
  <2> QED BY <2>0, <2>1, <2>2, <2>3, OneMsg DEF InvokeAdd, CT_NONE
<1>4. ASSUME NEW m, m = Msg(60, ct, d, r, mo, ca), r # -1,
             NEW cars, cars = list_get_by_year(l, r)
      PROVE  invoke(m, l) = [msg |-> Msg(61, 60, d, r, mo, cars), list |-> l]
  <2>0. r # -1 /\ cars = list_get_by_year(l, r)
    BY <1>4
  <2>1. /\ m \in Msgs(60, ct, d, r, mo, ca)
        /\ m.opcode = 60 /\ m.result = r
    BY <1>4, OneMsg, MsgFields
  <2>2. invoke(m, l) = InvokeGetListByYear(m, l)
    BY <2>1 DEF invoke, OP_SIZE, OP_ADD, OP_GET, OP_GETLISTBYTEAR, OP_GETMODELS,
              OP_DEL
  <2>3. [m EXCEPT !.cars = cars, !.opcode = 61, !.c_type = 60]
          \in Msgs(61, 60, d, r, mo, cars)
    BY <2>1 DEF Msgs
  <2> QED BY <2>0, <2>1, <2>2, <2>3, OneMsg DEF InvokeGetListByYear, CT_LIST
<1>5. ASSUME NEW m, m = Msg(60, ct, d, r, mo, ca), r = -1,
             NEW kept, kept = list_order_by_year(l)
      PROVE  invoke(m, l) = [msg |-> Msg(61, 60, d, r, mo, kept.cars), list |-> kept]
  <2>0. r = -1 /\ kept = list_order_by_year(l)
    BY <1>5
  <2>1. /\ m \in Msgs(60, ct, d, r, mo, ca)
        /\ m.opcode = 60 /\ m.result = r
    BY <1>5, OneMsg, MsgFields
  <2>2. invoke(m, l) = InvokeGetListByYear(m, l)
    BY <2>1 DEF invoke, OP_SIZE, OP_ADD, OP_GET, OP_GETLISTBYTEAR, OP_GETMODELS,
              OP_DEL
  <2>3. [m EXCEPT !.cars = kept.cars, !.opcode = 61, !.c_type = 60]
          \in Msgs(61, 60, d, r, mo, kept.cars)
    BY <2>1 DEF Msgs
  <2> QED BY <2>0, <2>1, <2>2, <2>3, OneMsg DEF InvokeGetListByYear, CT_LIST, list_get_all
<1>6. ASSUME NEW m, m = Msg(50, ct, d, r, mo, ca),
             NEW models, models = list_get_model_list(l)
      PROVE  invoke(m, l) = [msg |-> Msg(51, 40, d, r, models, ca), list |-> l]
  <2>0. models = list_get_model_list(l)
    BY <1>6
  <2>1. m \in Msgs(50, ct, d, r, mo, ca) /\ m.opcode = 50
    BY <1>6, OneMsg, MsgFields
  <2>2. invoke(m, l) = InvokeGetModels(m, l)
    BY <2>1 DEF invoke, OP_SIZE, OP_ADD, OP_GET, OP_GETLISTBYTEAR, OP_GETMODELS,
              OP_DEL
  <2>3. [m EXCEPT !.models = models, !.opcode = 51, !.c_type = 40]
          \in Msgs(51, 40, d, r, models, ca)
    BY <2>1 DEF Msgs
  <2> QED BY <2>0, <2>1, <2>2, <2>3, OneMsg DEF InvokeGetModels, CT_MODEL
<1>7. ASSUME NEW m, m = Msg(30, ct, d, r, mo, ca), Len(mo) = 1,
             NEW del, del = list_remove_by_model(l, mo[1])
      PROVE  invoke(m, l) = [msg |-> Msg(31, 50, d, del.rc, mo, ca), list |-> del.list]
  <2>0. Len(mo) = 1 /\ del = list_remove_by_model(l, mo[1])
    BY <1>7
  <2>1. m \in Msgs(30, ct, d, r, mo, ca) /\ m.opcode = 30 /\ m.models = mo
    BY <1>7, OneMsg, MsgFields
  <2>2. invoke(m, l) = InvokeDel(m, l)
    BY <2>1 DEF invoke, OP_SIZE, OP_ADD, OP_GET, OP_GETLISTBYTEAR, OP_GETMODELS,
              OP_DEL
  <2>3. [m EXCEPT !.opcode = 31, !.c_type = 50, !.result = del.rc]
          \in Msgs(31, 50, d, del.rc, mo, ca)
    BY <2>1 DEF Msgs
  <2> QED BY <2>0, <2>1, <2>2, <2>3, OneMsg DEF InvokeDel, CT_RESULT
<1> QED BY <1>1, <1>2, <1>4, <1>5, <1>6, <1>7

(* The same of a request for a car by its marca: the car, or an error. *)
LEMMA InvokeGetIs ==
  ASSUME NEW d, NEW r, NEW mo, NEW ca, NEW l,
         NEW m \in Msgs(20, 20, d, r, mo, ca),
         NEW car, car = list_get_by_marca(l, r)
  PROVE  /\ invoke(m, l).list = l
         /\ car = NULL => invoke(m, l).msg = Msg(99, 70, d, -1, mo, ca)
         /\ car # NULL => invoke(m, l).msg = Msg(21, 10, car, r, mo, ca)
<1>1. car = list_get_by_marca(l, r)
  OBVIOUS
<1>2. /\ m \in Msgs(20, 20, d, r, mo, ca)
      /\ m.opcode = 20 /\ m.c_type = 20 /\ m.result = r
  BY OneMsg, MsgFields
<1>3. invoke(m, l) = InvokeGet(m, l)
  BY <1>2 DEF invoke, OP_SIZE, OP_ADD, OP_GET, OP_GETLISTBYTEAR, OP_GETMODELS,
            OP_DEL
<1>4. [m EXCEPT !.opcode = 99, !.c_type = 70, !.result = -1]
        \in Msgs(99, 70, d, -1, mo, ca)
  BY <1>2 DEF Msgs
<1>5. [m EXCEPT !.data = car, !.opcode = 21, !.c_type = 10]
        \in Msgs(21, 10, car, r, mo, ca)
  BY <1>2 DEF Msgs
<1> QED BY <1>1, <1>2, <1>3, <1>4, <1>5, OneMsg
        DEF InvokeGet, ErrorReply, CT_MARCA, CT_DATA, CT_NONE, OP_ERROR

-----------------------------------------------------------------------------
(* Every command, from its request to its return value, on a list of cars *)
(* that were valid when they came.                                        *)

(* The answer to a write is a message, not the null pointer. *)
LEMMA WriteMessageIsNoNull ==
  ASSUME NEW op \in Nat, NEW ct \in Nat, NEW d, d \in Cars \/ d = NULL,
         NEW r \in Int, NEW mo \in Seq(Models)
  PROVE  Msg(op, ct, d, r, mo, <<>>) # NULL
<1>1. Msg(op, ct, d, r, mo, <<>>) \in WriteMessages
  BY DEF Msg, WriteMessages
<1> QED BY <1>1, RemoteListAssumption

(* So is an answer that carries no models. *)
LEMMA BareMessageIsNoNull ==
  ASSUME NEW op \in Nat, NEW ct \in Nat, NEW d, d \in Cars \/ d = NULL,
         NEW r \in Int
  PROVE  Msg(op, ct, d, r, <<>>, <<>>) # NULL
<1>1. <<>> \in Seq(Models)
  OBVIOUS
<1>2. PICK none \in Seq(Models) : none = <<>>
  BY <1>1, Zenon
<1>3. Msg(op, ct, d, r, none, <<>>) # NULL
  BY WriteMessageIsNoNull
<1> QED BY <1>2, <1>3

(* One item fits a message. *)
LEMMA RoomForOne == MaxItems \in Nat /\ MaxItems >= 1 /\ Len(<<>>) = 0
  BY RemoteListAssumption, MaxItemsAssumption

(* What reaches the stub: the answer, or NULL if it was too long. *)
Received(msg) == IF Fits(msg) THEN msg ELSE NULL

(* rlist_add of a valid car: it is at the end of the list, and 0 returned. *)
LEMMA AddCommand ==
  ASSUME NEW l, ListLike(l), NEW car \in Kept
  PROVE  LET done == invoke(AddRequest(car), l)
         IN  /\ done.list = [size |-> l.size + 1, cars |-> Append(l.cars, car)]
             /\ rlist_add(Received(done.msg)) = 0
<1>1. /\ car \in Cars /\ car # NULL /\ data_dup(car) = car
      /\ marca_to_proto(car.marca) = car.marca
      /\ combustivel_to_proto(car.combustivel) = car.combustivel
  BY DupIsCar DEF Kept
<1>2. [car EXCEPT !.marca = marca_to_proto(@),
                  !.combustivel = combustivel_to_proto(@)] = car
  <2>1. car \in [ano : Int, preco : {car.preco}, marca : Int,
                 modelo : {car.modelo}, combustivel : Int]
    BY <1>1, RemoteListAssumption
  <2> QED BY <1>1, <2>1
<1>3. data_create(car.ano, car.preco, car.marca, car.modelo, car.combustivel) = car
  BY <1>1 DEF data_dup
<1>4. list_add(l, car)
        = [rc |-> 0, list |-> [size |-> l.size + 1, cars |-> Append(l.cars, car)]]
  BY <1>1 DEF list_add
<1>5. AddRequest(car) = Msg(10, 10, car, 0, <<>>, <<>>)
  BY <1>2, RequestsAre
<1>6. invoke(AddRequest(car), l)
        = [msg  |-> Msg(11, 70, car, 0, <<>>, <<>>), list |-> list_add(l, car).list]
  BY <1>1, <1>3, <1>4, <1>5, InvokeIs
<1>7. PICK ans : ans = Msg(11, 70, car, 0, <<>>, <<>>)
  OBVIOUS
<1>8. /\ ans.opcode = 11 /\ ans.c_type = 70
      /\ ans.models = <<>> /\ ans.cars = <<>>
  BY <1>7, MsgFields
<1>9. ans # NULL
  <2>1. Msg(11, 70, car, 0, <<>>, <<>>) # NULL
    BY <1>1, BareMessageIsNoNull
  <2> QED BY <1>7, <2>1
<1>10. Fits(ans)
  <2>1. Len(ans.cars) = 0 /\ Len(ans.models) = 0
    BY <1>8, RoomForOne
  <2> QED BY <2>1, RoomForOne DEF Fits
<1>11. rlist_add(Received(ans)) = 0
  BY <1>8, <1>9, <1>10 DEF Received, rlist_add, op_success, OP_ADD, OP_BAD, CT_NONE
<1> QED BY <1>4, <1>6, <1>7, <1>11

(* rlist_remove_by_model returns what list_remove_by_model does. *)
LEMMA RemoveCommand ==
  ASSUME NEW l, ListLike(l), NEW m \in Models
  PROVE  LET done == invoke(RemoveRequest(m), l)
             del  == list_remove_by_model(l, m)
         IN  /\ RemoveRequest(m) # NULL
             /\ done.list = del.list
             /\ rlist_remove_by_model(Received(done.msg)) = del.rc
<1>1. PICK del : del = list_remove_by_model(l, m)
  OBVIOUS
<1>2. del.rc \in {0, 1}
  BY <1>1, RemoveByModel DEF ListLike
<1>3. PICK models : models = <<m>>
  OBVIOUS
<1>4. models \in Seq(Models) /\ Len(models) = 1 /\ models[1] = m
  BY <1>3
<1>5. RemoveRequest(m) = Msg(30, 40, NULL, 0, models, <<>>)
  BY <1>3, RequestsAre
<1>6. invoke(RemoveRequest(m), l)
        = [msg |-> Msg(31, 50, NULL, del.rc, models, <<>>), list |-> del.list]
  BY <1>1, <1>4, <1>5, InvokeIs
<1>7. PICK ans : ans = Msg(31, 50, NULL, del.rc, models, <<>>)
  OBVIOUS
<1>8. /\ ans.opcode = 31 /\ ans.c_type = 50 /\ ans.result = del.rc
      /\ ans.models = models /\ ans.cars = <<>>
  BY <1>7, MsgFields
<1>9. ans # NULL /\ RemoveRequest(m) # NULL
  <2>1. \A rc \in Int : Msg(31, 50, NULL, rc, models, <<>>) # NULL
    BY <1>4, WriteMessageIsNoNull
  <2>2. Msg(30, 40, NULL, 0, models, <<>>) # NULL
    BY <1>4, WriteMessageIsNoNull
  <2> QED BY <1>2, <1>5, <1>7, <2>1, <2>2
<1>10. Fits(ans)
  <2>1. Len(ans.cars) = 0 /\ Len(ans.models) = 1
    BY <1>4, <1>8, RoomForOne
  <2> QED BY <2>1, RoomForOne DEF Fits
<1>11. rlist_remove_by_model(Received(ans)) = del.rc
  BY <1>8, <1>9, <1>10 DEF Received, rlist_remove_by_model, OP_DEL, CT_RESULT
<1> QED BY <1>1, <1>6, <1>7, <1>9, <1>11

(* rlist_get_by_marca: the car that the list yields, or NULL. *)
LEMMA GetByMarcaCommand ==
  ASSUME NEW l, ListLike(l), NEW marca, marca_to_proto(marca) # -1
  PROVE  LET done == invoke(GetByMarcaRequest(marca), l)
             ret  == rlist_get_by_marca(Received(done.msg))
         IN  /\ done.list = l
             /\ \/ ret = NULL
                \/ ret # NULL /\ ret = list_get_by_marca(l, marca)
<1>1. PICK car : car = list_get_by_marca(l, marca)
  OBVIOUS
<1>2. car = NULL \/ car \in Kept
  BY <1>1, GetByMarca DEF ListLike
<1>3. GetByMarcaRequest(marca) = Msg(20, 20, NULL, marca, <<>>, <<>>)
  BY RequestsAre DEF marca_to_proto
<1>4. PICK req : /\ req = Msg(20, 20, NULL, marca, <<>>, <<>>)
                 /\ req \in Msgs(20, 20, NULL, marca, <<>>, <<>>)
  BY OneMsg
<1>5. /\ invoke(req, l).list = l
      /\ car = NULL => invoke(req, l).msg = Msg(99, 70, NULL, -1, <<>>, <<>>)
      /\ car # NULL => invoke(req, l).msg = Msg(21, 10, car, marca, <<>>, <<>>)
  BY <1>1, <1>4, InvokeGetIs
<1>6. PICK ans : ans = invoke(req, l).msg
  OBVIOUS
<1>7. /\ car = NULL => ans.opcode = 99
      /\ car # NULL => ans.data = car
  BY <1>5, <1>6, MsgFields
<1>8. car # NULL => data_dup(car) = car
  BY <1>2, KeptCars
<1>9. rlist_get_by_marca(Received(ans)) \in {NULL, car}
  BY <1>7, <1>8 DEF Received, rlist_get_by_marca, op_success, OP_GET
<1> QED BY <1>1, <1>3, <1>4, <1>5, <1>6, <1>9

(* list_order_by_year leaves the size alone and sorts the cars. *)
LEMMA Ordered ==
  ASSUME NEW l, ListLike(l)
  PROVE  LET kept == list_order_by_year(l)
         IN  /\ kept = [size |-> l.size, cars |-> SortByYear(l.cars)]
             /\ kept.cars \in Seq(Kept) /\ Len(kept.cars) = Len(l.cars)
             /\ StablySorted(l.cars, kept.cars)
<1>1. PICK k : k = l /\ k \in [size : {l.size}, cars : {l.cars}]
  BY DEF ListLike
<1>2. [k EXCEPT !.cars = SortByYear(l.cars)]
        = [size |-> l.size, cars |-> SortByYear(l.cars)]
  BY <1>1
<1>3. list_order_by_year(l)
        = [size |-> l.size, cars |-> SortByYear(l.cars)]
  BY <1>1, <1>2 DEF list_order_by_year
<1>4. LET t == SortByYear(l.cars)
      IN  /\ t \in Seq(Kept) /\ Len(t) = Len(l.cars)
          /\ StablySorted(l.cars, t)
  BY SortByYearSorts, KeptCars DEF ListLike
<1> QED BY <1>3, <1>4

(* The stub shows the cars of an answer that arrives, as they are. *)
LEMMA ShownCars ==
  ASSUME NEW ans, ans.cars \in Seq(Kept)
  PROVE  /\ rlist_get_by_year(Received(ans)) \in {NULL, ans.cars}
         /\ rlist_order_by_year(Received(ans))
              \in {[rc |-> 0, shown |-> ans.cars], [rc |-> -1, shown |-> <<>>]}
<1>1. CopyCars(ans.cars) = ans.cars
  BY CopyIsSame
<1>2. Received(ans) \in {NULL, ans}
  BY DEF Received
<1>3. ~ op_success(NULL, OP_GETLISTBYTEAR, CT_LIST)
  BY DEF op_success
<1> QED BY <1>1, <1>2, <1>3 DEF rlist_get_by_year, rlist_order_by_year

(* rlist_get_by_year: the cars of the year; for year -1 all, sorted. *)
LEMMA GetByYearCommand ==
  ASSUME NEW l, ListLike(l), NEW ano
  PROVE  LET done == invoke(GetByYearRequest(ano), l)
             ret  == rlist_get_by_year(Received(done.msg))
         IN  IF ano = -1
               THEN /\ done.list = list_order_by_year(l)
                    /\ ret \in {NULL, done.list.cars}
               ELSE /\ done.list = l
                    /\ ret \in {NULL, list_get_by_year(l, ano)}
<1>1. GetByYearRequest(ano) = Msg(60, 50, NULL, ano, <<>>, <<>>)
  BY RequestsAre
<1>2. CASE ano = -1
  <2>1. PICK kept : kept = list_order_by_year(l)
    OBVIOUS
  <2>2. invoke(GetByYearRequest(ano), l)
          = [msg |-> Msg(61, 60, NULL, ano, <<>>, kept.cars), list |-> kept]
    BY <1>1, <1>2, <2>1, InvokeIs
  <2>3. PICK ans : ans = Msg(61, 60, NULL, ano, <<>>, kept.cars)
    OBVIOUS
  <2>4. ans.cars = kept.cars /\ kept.cars \in Seq(Kept)
    BY <2>1, <2>3, MsgFields, Ordered
  <2>5. rlist_get_by_year(Received(ans)) \in {NULL, kept.cars}
    BY <2>4, ShownCars
  <2> QED BY <1>2, <2>1, <2>2, <2>3, <2>5
<1>3. CASE ano # -1
  <2>1. PICK cars : cars = list_get_by_year(l, ano)
    OBVIOUS
  <2>2. invoke(GetByYearRequest(ano), l)
          = [msg |-> Msg(61, 60, NULL, ano, <<>>, cars), list |-> l]
    BY <1>1, <1>3, <2>1, InvokeIs
  <2>3. PICK ans : ans = Msg(61, 60, NULL, ano, <<>>, cars)
    OBVIOUS
  <2>4. ans.cars = cars /\ cars \in Seq(Kept)
    BY <2>1, <2>3, MsgFields, GetByYearFinds DEF ListLike
  <2>5. rlist_get_by_year(Received(ans)) \in {NULL, cars}
    BY <2>4, ShownCars
  <2> QED BY <1>3, <2>1, <2>2, <2>3, <2>5
<1> QED BY <1>2, <1>3

(* rlist_order_by_year: the list is sorted, and shown if the answer fits. *)
LEMMA OrderCommand ==
  ASSUME NEW l, ListLike(l)
  PROVE  LET done == invoke(OrderRequest, l)
         IN  /\ OrderRequest # NULL
             /\ done.list = list_order_by_year(l)
             /\ rlist_order_by_year(Received(done.msg))
                  \in {[rc |-> 0, shown |-> done.list.cars], [rc |-> -1, shown |-> <<>>]}
<1>1. OrderRequest = Msg(60, 50, NULL, -1, <<>>, <<>>)
  BY RequestsAre
<1>2. OrderRequest # NULL
  <2>1. Msg(60, 50, NULL, -1, <<>>, <<>>) # NULL
    BY BareMessageIsNoNull
  <2> QED BY <1>1, <2>1
<1>3. PICK kept : kept = list_order_by_year(l)
  OBVIOUS
<1>4. invoke(OrderRequest, l)
        = [msg |-> Msg(61, 60, NULL, -1, <<>>, kept.cars), list |-> kept]
  BY <1>1, <1>3, InvokeIs
<1>5. PICK ans : ans = Msg(61, 60, NULL, -1, <<>>, kept.cars)
  OBVIOUS
<1>6. ans.cars = kept.cars /\ kept.cars \in Seq(Kept)
  BY <1>3, <1>5, MsgFields, Ordered
<1>7. rlist_order_by_year(Received(ans))
        \in {[rc |-> 0, shown |-> kept.cars], [rc |-> -1, shown |-> <<>>]}
  BY <1>6, ShownCars
<1> QED BY <1>2, <1>3, <1>4, <1>5, <1>7

(* rlist_size returns the size field. *)
LEMMA SizeCommand ==
  ASSUME NEW l, ListLike(l)
  PROVE  LET done == invoke(SizeRequest, l)
         IN  /\ SizeRequest # NULL
             /\ done.list = l
             /\ rlist_size(Received(done.msg)) \in {-1, Len(l.cars)}
<1>1. SizeRequest = Msg(40, 70, NULL, 0, <<>>, <<>>)
  BY RequestsAre
<1>2. SizeRequest # NULL
  <2>1. Msg(40, 70, NULL, 0, <<>>, <<>>) # NULL
    BY BareMessageIsNoNull
  <2> QED BY <1>1, <2>1
<1>3. invoke(SizeRequest, l)
        = [msg |-> Msg(41, 50, NULL, l.size, <<>>, <<>>), list |-> l]
  BY <1>1, InvokeIs
<1>4. PICK ans : ans = Msg(41, 50, NULL, l.size, <<>>, <<>>)
  OBVIOUS
<1>5. ans.result = Len(l.cars)
  BY <1>4, MsgFields DEF ListLike
<1>6. Received(ans) \in {NULL, ans} /\ ~ op_success(NULL, OP_SIZE, CT_RESULT)
  BY DEF Received, op_success
<1>7. rlist_size(Received(ans)) \in {-1, Len(l.cars)}
  BY <1>5, <1>6 DEF rlist_size
<1> QED BY <1>2, <1>3, <1>4, <1>7

(* rlist_get_model_list: the models, one per node, or NULL. *)
LEMMA ModelsCommand ==
  ASSUME NEW l, ListLike(l)
  PROVE  LET done == invoke(GetModelListRequest, l)
         IN  /\ done.list = l
             /\ rlist_get_model_list(Received(done.msg))
                  \in {NULL, list_get_model_list(l)}
<1>1. GetModelListRequest = Msg(50, 70, NULL, 0, <<>>, <<>>)
  BY RequestsAre
<1>2. PICK models : models = list_get_model_list(l)
  OBVIOUS
<1>3. invoke(GetModelListRequest, l)
        = [msg |-> Msg(51, 40, NULL, 0, models, <<>>), list |-> l]
  BY <1>1, <1>2, InvokeIs
<1>4. PICK ans : ans = Msg(51, 40, NULL, 0, models, <<>>)
  OBVIOUS
<1>5. ans.models = models
  BY <1>4, MsgFields
<1>6. Received(ans) \in {NULL, ans} /\ ~ op_success(NULL, OP_GETMODELS, CT_MODEL)
  BY DEF Received, op_success
<1>7. rlist_get_model_list(Received(ans)) \in {NULL, models}
  BY <1>5, <1>6 DEF rlist_get_model_list
<1> QED BY <1>2, <1>3, <1>4, <1>7

-----------------------------------------------------------------------------
(* What a command does to a list, and what its answer says. *)

(* With query answers as Describes has it, command c, carried out on list l *)
(* with the answer msg, leaves list m: the writes are done or, for a model  *)
(* that is not there, not done; the queries change the order at most.       *)
Done(c, l, m, ret) ==
  /\ ListLike(m)
  /\ c.cmd = "add" => ret = 0 /\ m.cars = Append(l.cars, c.arg)
  /\ c.cmd = "remove" =>
       \/ ret = 0 /\ FirstRemoved(l.cars, m.cars, c.arg)
       \/ /\ ret = 1 /\ m = l
          /\ \A i \in DOMAIN l.cars : l.cars[i].modelo # c.arg
  /\ c.cmd \notin {"add", "remove"} =>
       m.cars = l.cars \/ StablySorted(l.cars, m.cars)
  /\ Describes(c.cmd, c.arg, ret, l.cars)

(* The return value of command c on list l, if its answer fits. *)
ReturnedOn(c, l) == Returned(c, Received(invoke(Request(c), l).msg))

(* The commands there are, with their arguments. *)
LEMMA ArgumentIs ==
  ASSUME NEW c \in Commands
  PROVE  \/ c.cmd = "add" /\ c.arg \in Cars
         \/ c.cmd = "remove" /\ c.arg \in Models
         \/ c.cmd = "get_by_marca"
         \/ c.cmd = "get_by_year"
         \/ c.cmd = "get_list_ordered_by_year"
         \/ c.cmd = "size"
         \/ c.cmd = "get_model_list"
  BY DEF Commands

(* An add that is carried out. *)
LEMMA AddStep ==
  ASSUME NEW l, ListLike(l), NEW c \in Commands, Request(c) # NULL, c.cmd = "add"
  PROVE  Done(c, l, invoke(Request(c), l).list, ReturnedOn(c, l))
<1>1. c.arg \in Kept /\ Request(c) = AddRequest(c.arg)
  BY ArgumentIs, DupIsCar DEF Request, Kept
<1>2. PICK done : done = invoke(AddRequest(c.arg), l)
  OBVIOUS
<1>3. /\ done.list = [size |-> l.size + 1, cars |-> Append(l.cars, c.arg)]
      /\ rlist_add(Received(done.msg)) = 0
  BY <1>1, <1>2, AddCommand
<1>4. ReturnedOn(c, l) = 0
  BY <1>1, <1>2, <1>3 DEF ReturnedOn, Returned
<1>5. ListLike(done.list)
  <2>1. /\ Append(l.cars, c.arg) \in Seq(Kept)
        /\ Len(Append(l.cars, c.arg)) = Len(l.cars) + 1
        /\ l.size = Len(l.cars)
    BY <1>1 DEF ListLike
  <2> QED BY <1>3, <2>1 DEF ListLike
<1>6. done.list.cars = Append(l.cars, c.arg)
  BY <1>3
<1>7. \A ret : Describes(c.cmd, c.arg, ret, l.cars)
  BY DEF Describes
<1> QED BY <1>1, <1>2, <1>4, <1>5, <1>6, <1>7 DEF Done

(* A remove finds no car of the model, or takes the first one out. *)
LEMMA RemovedFrom ==
  ASSUME NEW l, l.cars \in Seq(Kept), NEW m
  PROVE  LET s   == l.cars
             del == list_remove_by_model(l, m)
         IN  \/ /\ del.rc = 1 /\ del.list = l
                /\ \A i \in DOMAIN s : ~ (s[i].modelo = m)
             \/ /\ del.rc = 0
                /\ \E i \in DOMAIN s :
                     /\ s[i].modelo = m
                     /\ \A j \in DOMAIN s : j < i => ~ (s[j].modelo = m)
                     /\ del.list = [size |-> l.size - 1, cars |-> RemoveAt(s, i)]
<1>1. PICK del : del = list_remove_by_model(l, m)
  OBVIOUS
<1>2. \/ /\ del.rc = 1 /\ del.list = l
         /\ \A i \in DOMAIN l.cars : ~ (l.cars[i].modelo = m)
      \/ /\ del.rc = 0
         /\ \E i \in DOMAIN l.cars :
              /\ FirstOfModel(l.cars, m, i)
              /\ del.list = [size |-> l.size - 1,
                             cars |-> RemoveAt(l.cars, i)]
  BY <1>1, RemoveByModel, Zenon
<1> QED BY <1>1, <1>2 DEF FirstOfModel

(* A remove, likewise. *)
LEMMA RemoveStep ==
  ASSUME NEW l, ListLike(l), NEW c \in Commands, c.cmd = "remove"
  PROVE  Done(c, l, invoke(Request(c), l).list, ReturnedOn(c, l))
<1> DEFINE s == l.cars
<1>1. c.arg \in Models /\ Request(c) = RemoveRequest(c.arg)
  BY ArgumentIs DEF Request
<1>2. PICK done : done = invoke(RemoveRequest(c.arg), l)
  OBVIOUS
<1>3. PICK del : del = list_remove_by_model(l, c.arg)
  OBVIOUS
<1>4. done.list = del.list /\ ReturnedOn(c, l) = del.rc
  <2>1. done.list = del.list /\ rlist_remove_by_model(Received(done.msg)) = del.rc
    BY <1>1, <1>2, <1>3, RemoveCommand
  <2> QED BY <1>1, <1>2, <2>1 DEF ReturnedOn, Returned
<1>5. \A ret : Describes(c.cmd, c.arg, ret, l.cars)
  BY DEF Describes
<1>6. CASE /\ del.rc = 1 /\ del.list = l
           /\ \A i \in DOMAIN s : ~ (s[i].modelo = c.arg)
  BY <1>1, <1>2, <1>4, <1>5, <1>6 DEF Done
<1>7. ASSUME del.rc = 0, NEW i \in DOMAIN s,
             s[i].modelo = c.arg, \A j \in DOMAIN s : j < i => ~ (s[j].modelo = c.arg),
             del.list = [size |-> l.size - 1, cars |-> RemoveAt(s, i)]
      PROVE  Done(c, l, del.list, 0)
  <2>1. s \in Seq(Kept) /\ i \in 1 .. Len(s) /\ l.size = Len(s)
    BY DEF ListLike
  <2>2. RemoveAt(s, i) \in Seq(Kept) /\ WithoutPosition(s, RemoveAt(s, i), i)
    BY <2>1, RemoveAtPosition
  <2>3. del.list.cars = RemoveAt(s, i) /\ del.list.size = l.size - 1
    BY <1>7
  <2>4. ListLike(del.list)
    BY <1>7, <2>1, <2>2 DEF ListLike, WithoutPosition
  <2>5. FirstRemoved(l.cars, del.list.cars, c.arg)
    BY <1>7, <2>2, <2>3 DEF FirstRemoved, FirstSuch
  <2> QED BY <1>5, <2>4, <2>5 DEF Done
<1>8. Done(c, l, del.list, del.rc)
  <2>1. l.cars \in Seq(Kept)
    BY DEF ListLike
  <2>2. \/ /\ del.rc = 1 /\ del.list = l
           /\ \A i \in DOMAIN s : ~ (s[i].modelo = c.arg)
        \/ /\ del.rc = 0
           /\ \E i \in DOMAIN s :
                /\ s[i].modelo = c.arg
                /\ \A j \in DOMAIN s : j < i => ~ (s[j].modelo = c.arg)
                /\ del.list = [size |-> l.size - 1, cars |-> RemoveAt(s, i)]
    BY <1>3, <2>1, RemovedFrom
  <2>3. CASE /\ del.rc = 1 /\ del.list = l
             /\ \A i \in DOMAIN s : ~ (s[i].modelo = c.arg)
    BY <1>5, <2>3 DEF Done
  <2> QED BY <1>7, <2>2, <2>3
<1> QED BY <1>1, <1>2, <1>4, <1>8

(* A query that leaves the list alone, and one that sorts it. *)
LEMMA QueryDone ==
  ASSUME NEW l, ListLike(l), NEW c, c.cmd \notin {"add", "remove"}, NEW ret,
         NEW m, m = l \/ m = list_order_by_year(l),
         Describes(c.cmd, c.arg, ret, l.cars)
  PROVE  Done(c, l, m, ret)
<1>1. CASE m = l
  BY <1>1 DEF Done
<1>2. CASE m = list_order_by_year(l)
  <2>1. /\ m = [size |-> l.size, cars |-> SortByYear(l.cars)]
        /\ m.cars \in Seq(Kept) /\ Len(m.cars) = Len(l.cars)
        /\ StablySorted(l.cars, m.cars)
    BY <1>2, Ordered
  <2>2. ListLike(m)
    BY <2>1 DEF ListLike
  <2> QED BY <2>1, <2>2 DEF Done
<1> QED BY <1>1, <1>2

(* The command get_by_marca. *)
LEMMA GetByMarcaStep ==
  ASSUME NEW l, ListLike(l), NEW c \in Commands, Request(c) # NULL,
         c.cmd = "get_by_marca"
  PROVE  Done(c, l, invoke(Request(c), l).list, ReturnedOn(c, l))
<1>1. marca_to_proto(c.arg) # -1 /\ Request(c) = GetByMarcaRequest(c.arg)
  BY DEF Request
<1>2. PICK done : done = invoke(GetByMarcaRequest(c.arg), l)
  OBVIOUS
<1>3. PICK ret : ret = rlist_get_by_marca(Received(done.msg))
  OBVIOUS
<1>4. /\ done.list = l
      /\ ret = NULL \/ (ret # NULL /\ ret = list_get_by_marca(l, c.arg))
  BY <1>1, <1>2, <1>3, GetByMarcaCommand
<1>5. ReturnedOn(c, l) = ret
  BY <1>1, <1>2, <1>3 DEF ReturnedOn, Returned
<1>6. ret # NULL => \E i \in DOMAIN l.cars :
                      /\ l.cars[i].marca = c.arg
                      /\ \A j \in DOMAIN l.cars :
                           j < i => ~ (l.cars[j].marca = c.arg)
                      /\ ret = l.cars[i]
  BY <1>4, GetByMarca DEF ListLike, FirstSuch
<1>7. Describes(c.cmd, c.arg, ret, l.cars)
  BY <1>6 DEF Describes, FirstSuch
<1> QED BY <1>1, <1>2, <1>4, <1>5, <1>7, QueryDone

(* The command get_by_year. *)
LEMMA GetByYearStep ==
  ASSUME NEW l, ListLike(l), NEW c \in Commands, c.cmd = "get_by_year"
  PROVE  Done(c, l, invoke(Request(c), l).list, ReturnedOn(c, l))
<1>1. Request(c) = GetByYearRequest(c.arg)
  BY DEF Request
<1>2. PICK done : done = invoke(GetByYearRequest(c.arg), l)
  OBVIOUS
<1>3. PICK ret : ret = rlist_get_by_year(Received(done.msg))
  OBVIOUS
<1>4. ReturnedOn(c, l) = ret
  BY <1>1, <1>2, <1>3 DEF ReturnedOn, Returned
<1>5. CASE c.arg = -1
  <2>1. done.list = list_order_by_year(l) /\ ret \in {NULL, done.list.cars}
    BY <1>2, <1>3, <1>5, GetByYearCommand
  <2>2. StablySorted(l.cars, done.list.cars)
    BY <2>1, Ordered
  <2>3. Describes(c.cmd, c.arg, ret, l.cars)
    BY <1>5, <2>1, <2>2 DEF Describes
  <2> QED BY <1>1, <1>2, <1>4, <2>1, <2>3, QueryDone
<1>6. CASE c.arg # -1
  <2>1. done.list = l /\ ret \in {NULL, list_get_by_year(l, c.arg)}
    BY <1>2, <1>3, <1>6, GetByYearCommand
  <2>2. CarsOfYear(l.cars, list_get_by_year(l, c.arg), c.arg)
    BY GetByYearFinds DEF ListLike
  <2>3. Describes(c.cmd, c.arg, ret, l.cars)
    BY <1>6, <2>1, <2>2 DEF Describes
  <2> QED BY <1>1, <1>2, <1>4, <2>1, <2>3, QueryDone
<1> QED BY <1>5, <1>6

(* The command get_list_ordered_by_year. *)
LEMMA OrderStep ==
  ASSUME NEW l, ListLike(l), NEW c \in Commands,
         c.cmd = "get_list_ordered_by_year"
  PROVE  Done(c, l, invoke(Request(c), l).list, ReturnedOn(c, l))
<1>1. Request(c) = OrderRequest
  BY DEF Request
<1>2. PICK done : done = invoke(OrderRequest, l)
  OBVIOUS
<1>3. PICK ret : ret = rlist_order_by_year(Received(done.msg))
  OBVIOUS
<1>4. ReturnedOn(c, l) = ret
  BY <1>1, <1>2, <1>3 DEF ReturnedOn, Returned
<1>5. /\ done.list = list_order_by_year(l)
      /\ ret \in {[rc |-> 0, shown |-> done.list.cars], [rc |-> -1, shown |-> <<>>]}
  BY <1>2, <1>3, OrderCommand
<1>6. ret.rc = 0 => ret.shown = done.list.cars
  BY <1>5
<1>7. StablySorted(l.cars, done.list.cars)
  BY <1>5, Ordered
<1>8. Describes(c.cmd, c.arg, ret, l.cars)
  BY <1>6, <1>7 DEF Describes
<1> QED BY <1>1, <1>2, <1>4, <1>5, <1>8, QueryDone

(* The command size. *)
LEMMA SizeStep ==
  ASSUME NEW l, ListLike(l), NEW c \in Commands, c.cmd = "size"
  PROVE  Done(c, l, invoke(Request(c), l).list, ReturnedOn(c, l))
<1>1. Request(c) = SizeRequest
  BY DEF Request
<1>2. PICK done : done = invoke(SizeRequest, l)
  OBVIOUS
<1>3. PICK ret : ret = rlist_size(Received(done.msg))
  OBVIOUS
<1>4. done.list = l /\ ret \in {-1, Len(l.cars)}
  BY <1>2, <1>3, SizeCommand
<1>5. ReturnedOn(c, l) = ret
  BY <1>1, <1>2, <1>3 DEF ReturnedOn, Returned
<1>6. Describes(c.cmd, c.arg, ret, l.cars)
  BY <1>4 DEF Describes
<1> QED BY <1>1, <1>2, <1>4, <1>5, <1>6, QueryDone

(* The command get_model_list. *)
LEMMA ModelsStep ==
  ASSUME NEW l, ListLike(l), NEW c \in Commands, c.cmd = "get_model_list"
  PROVE  Done(c, l, invoke(Request(c), l).list, ReturnedOn(c, l))
<1>1. Request(c) = GetModelListRequest
  BY DEF Request
<1>2. PICK done : done = invoke(GetModelListRequest, l)
  OBVIOUS
<1>3. PICK ret : ret = rlist_get_model_list(Received(done.msg))
  OBVIOUS
<1>4. done.list = l /\ ret \in {NULL, list_get_model_list(l)}
  BY <1>2, <1>3, ModelsCommand
<1>5. ReturnedOn(c, l) = ret
  BY <1>1, <1>2, <1>3 DEF ReturnedOn, Returned
<1>6. /\ Len(list_get_model_list(l)) = Len(l.cars)
      /\ \A i \in DOMAIN list_get_model_list(l) :
           list_get_model_list(l)[i] = l.cars[i].modelo
  BY DEF ListLike, list_get_model_list
<1>7. Describes(c.cmd, c.arg, ret, l.cars)
  BY <1>4, <1>6 DEF Describes
<1> QED BY <1>1, <1>2, <1>4, <1>5, <1>7, QueryDone

(* Any command that is carried out. *)
LEMMA CommandDone ==
  ASSUME NEW l, ListLike(l), NEW c \in Commands, Request(c) # NULL
  PROVE  Done(c, l, invoke(Request(c), l).list, ReturnedOn(c, l))
  BY ArgumentIs, AddStep, RemoveStep, GetByMarcaStep, GetByYearStep, OrderStep,
     SizeStep, ModelsStep

(* The stub, without an answer, returns a failure or ends the program. *)
LEMMA NoAnswer ==
  ASSUME NEW c \in Commands
  PROVE  LET ret == Returned(c, NULL)
         IN  /\ c.cmd = "add" => ret # 0
             /\ c.cmd = "remove" => ret \notin {0, 1}
             /\ \A cars : Describes(c.cmd, c.arg, ret, cars)
<1>1. \A op, ct : ~ op_success(NULL, op, ct)
  BY DEF op_success
<1>2. /\ rlist_add(NULL) = -1 /\ rlist_remove_by_model(NULL) = CRASH
      /\ rlist_get_by_marca(NULL) = NULL /\ rlist_get_by_year(NULL) = NULL
      /\ rlist_order_by_year(NULL) = [rc |-> -1, shown |-> <<>>]
      /\ rlist_size(NULL) = -1 /\ rlist_get_model_list(NULL) = NULL
  BY <1>1 DEF rlist_add, rlist_remove_by_model, rlist_get_by_marca,
     rlist_get_by_year, rlist_order_by_year, rlist_size, rlist_get_model_list
<1>3. CRASH \notin {0, 1}
  BY RemoteListAssumption
<1>4. PICK ret : ret = Returned(c, NULL)
  OBVIOUS
<1>5. /\ c.cmd = "add" => ret # 0
      /\ c.cmd = "remove" => ret \notin {0, 1}
      /\ c.cmd \in {"get_by_marca", "get_by_year", "get_model_list"} => ret = NULL
      /\ c.cmd = "get_list_ordered_by_year" => ret.rc # 0
      /\ c.cmd = "size" => ret = -1
  BY <1>2, <1>3, <1>4 DEF Returned
<1>6. \A cars : Describes(c.cmd, c.arg, ret, cars)
  BY <1>5 DEF Describes
<1> QED BY <1>4, <1>5, <1>6

(* The requests without a car are always sent. *)
LEMMA RequestsAreSent ==
  /\ \A m \in Models : RemoveRequest(m) # NULL
  /\ OrderRequest # NULL /\ SizeRequest # NULL
<1>1. ASSUME NEW m \in Models PROVE RemoveRequest(m) # NULL
  <2>1. PICK models : models = <<m>>
    OBVIOUS
  <2>2. models \in Seq(Models)
    BY <2>1
  <2>3. Msg(30, 40, NULL, 0, models, <<>>) \in WriteMessages
    BY <2>2 DEF Msg, WriteMessages
  <2> QED BY <2>1, <2>3, RequestsAre, RemoteListAssumption
<1>2. Msg(60, 50, NULL, -1, <<>>, <<>>) # NULL
  BY BareMessageIsNoNull
<1>3. Msg(40, 70, NULL, 0, <<>>, <<>>) # NULL
  BY BareMessageIsNoNull
<1>4. OrderRequest # NULL
  BY <1>2, RequestsAre
<1>5. SizeRequest # NULL
  BY <1>3, RequestsAre
<1> QED BY <1>1, <1>4, <1>5

(* A car the client turns down is not sent, and is reported as not added. *)
LEMMA Refused ==
  ASSUME NEW c \in Commands, Request(c) = NULL,
         NEW ret, ret = IF c.cmd = "add" THEN -1 ELSE NULL
  PROVE  /\ c.cmd # "remove" /\ (c.cmd = "add" => ret # 0)
         /\ \A cars : Describes(c.cmd, c.arg, ret, cars)
<1>1. c.cmd # "remove"
  BY RequestsAreSent, ArgumentIs DEF Request
<1>2. c.cmd \notin {"get_list_ordered_by_year", "size"}
  BY RequestsAreSent DEF Request
<1>3. CASE c.cmd = "add"
  <2>1. ret = -1
    BY <1>3
  <2> QED BY <1>3, <2>1 DEF Describes
<1>4. CASE c.cmd # "add"
  <2>1. ret = NULL
    BY <1>4
  <2> QED BY <1>1, <1>2, <1>4, <2>1, Zenon DEF Describes
<1> QED BY <1>3, <1>4

-----------------------------------------------------------------------------
(* The inductive invariant. *)

(* The list now is the one before the command under way, or what the *)
(* command made of it.                                               *)
CallFits ==
  call # NULL =>
    /\ last = NULL
    /\ call.c \in Commands /\ Request(call.c) # NULL
    /\ ListLike(call.before)
    /\ \/ call.pc = "sent" /\ list = call.before
       \/ /\ call.pc = "done"
          /\ list = invoke(Request(call.c), call.before).list
          /\ call.msg = invoke(Request(call.c), call.before).msg

(* The link and the client are in one of their two states. *)
Ends == link \in {"up", "closed"} /\ client \in {"running", "crashed"}

Reports == WritesReportWhatTheyDid /\ QueriesDescribeTheList

Inv == ListLike(list) /\ CallFits /\ Reports /\ Ends

(* What the history keeps of the last command. *)
LEMMA RecordIs ==
  ASSUME NEW c, NEW before, NEW ret, Record(c, before, ret)
  PROVE  /\ last'.cmd = c.cmd /\ last'.arg = c.arg
         /\ last'.before = before /\ last'.ret = ret
  BY DEF Record

(* It holds at first. *)
LEMMA InitInv == Init => Inv
<1> SUFFICES ASSUME Init PROVE Inv
  OBVIOUS
<1>1. list = [size |-> 0, cars |-> <<>>] /\ last = NULL /\ call = NULL /\ Ends
  BY DEF Init, list_create, Ends
<1>2. ListLike(list)
  BY <1>1 DEF ListLike
<1> QED BY <1>1, <1>2
        DEF Inv, CallFits, Reports, WritesReportWhatTheyDid, QueriesDescribeTheList

(* A command that fails and leaves the list alone. *)
LEMMA FailedCommand ==
  ASSUME Inv, call = NULL, NEW c \in Commands, NEW ret, Record(c, list, ret),
         UNCHANGED <<list, link, call>>, client' \in {"running", "crashed"},
         c.cmd = "add" => ret # 0, c.cmd = "remove" => ret \notin {0, 1},
         \A cars : Describes(c.cmd, c.arg, ret, cars)
  PROVE  Inv'
<1>1. /\ last'.cmd = c.cmd /\ last'.arg = c.arg
      /\ last'.before = list /\ last'.ret = ret
  BY RecordIs
<1>2. WritesReportWhatTheyDid'
  BY <1>1 DEF WritesReportWhatTheyDid
<1>3. QueriesDescribeTheList'
  BY <1>1 DEF QueriesDescribeTheList
<1>4. ListLike(list') /\ CallFits' /\ Ends'
  BY DEF Inv, CallFits, Ends
<1> QED BY <1>2, <1>3, <1>4 DEF Inv, Reports

(* A car the client turns down. *)
LEMMA RefuseInv ==
  ASSUME Inv, NEW c \in Commands, Refuse(c)
  PROVE  Inv'
<1>1. PICK ret : ret = IF c.cmd = "add" THEN -1 ELSE NULL
  OBVIOUS
<1>2. /\ Record(c, list, ret) /\ Request(c) = NULL /\ call = NULL
      /\ UNCHANGED <<list, link, call>> /\ client' \in {"running", "crashed"}
  BY <1>1 DEF Refuse, Inv, Ends
<1>3. /\ c.cmd # "remove" /\ (c.cmd = "add" => ret # 0)
      /\ \A cars : Describes(c.cmd, c.arg, ret, cars)
  BY <1>1, <1>2, Refused
<1> QED BY <1>2, <1>3, FailedCommand

(* A command after the server has gone. *)
LEMMA CallClosedInv ==
  ASSUME Inv, NEW c \in Commands, CallClosed(c)
  PROVE  Inv'
<1>1. /\ call = NULL /\ UNCHANGED <<list, link, call>>
      /\ client' \in {"running", "crashed"}
  BY DEF CallClosed
<1>2. PICK ret : ret = Returned(c, NULL)
  OBVIOUS
<1>3. CASE Record(c, list, Returned(c, NULL))
  <2>1. /\ c.cmd = "add" => ret # 0
        /\ c.cmd = "remove" => ret \notin {0, 1}
        /\ \A cars : Describes(c.cmd, c.arg, ret, cars)
    BY <1>2, NoAnswer
  <2> QED BY <1>1, <1>2, <1>3, <2>1, FailedCommand
<1>4. CASE UNCHANGED last
  <2>1. WritesReportWhatTheyDid' /\ QueriesDescribeTheList'
    BY <1>1, <1>4 DEF Inv, Reports, WritesReportWhatTheyDid,
       QueriesDescribeTheList, FirstRemoved, Describes, FirstSuch
  <2> QED BY <1>1, <1>4, <2>1 DEF Inv, CallFits, Reports, Ends
<1> QED BY <1>3, <1>4 DEF CallClosed

(* The request is on its way: the list is the one before the command. *)
LEMMA SendInv ==
  ASSUME Inv, NEW c \in Commands, Send(c)
  PROVE  Inv'
<1>1. /\ call' = [c |-> c, pc |-> "sent", before |-> list, msg |-> NULL]
      /\ last' = NULL /\ UNCHANGED <<list, link, client>> /\ Request(c) # NULL
  BY DEF Send
<1>2. call'.c = c /\ call'.pc = "sent" /\ call'.before = list
  BY <1>1
<1>3. CallFits'
  BY <1>1, <1>2 DEF Inv, CallFits
<1> QED BY <1>1, <1>3
        DEF Inv, Reports, Ends, WritesReportWhatTheyDid, QueriesDescribeTheList

(* The command is carried out: on a list of cars, so that it leaves one. *)
LEMMA InvokeInv ==
  ASSUME Inv, Invoke
  PROVE  /\ Inv'
         /\ call.c.cmd \notin {"add", "remove"} =>
              list'.cars = list.cars \/ StablySorted(list.cars, list'.cars)
<1>1. /\ call # NULL /\ call.pc = "sent" /\ last = NULL
      /\ call.c \in Commands /\ Request(call.c) # NULL
      /\ list = call.before /\ ListLike(list)
  BY DEF Inv, CallFits, Invoke
<1>2. PICK done : done = invoke(Request(call.c), list)
  OBVIOUS
<1>3. /\ list' = done.list
      /\ call' = [call EXCEPT !.pc = "done", !.msg = done.msg]
      /\ UNCHANGED <<link, client, last>>
  BY <1>2 DEF Invoke
<1>4. Done(call.c, list, list', ReturnedOn(call.c, list))
  BY <1>1, <1>2, <1>3, CommandDone
<1>5. CallFits'
  <2>1. \/ call' = NULL
        \/ /\ call'.c = call.c /\ call'.before = call.before
           /\ call'.pc = "done" /\ call'.msg = done.msg
    BY <1>1, <1>3 DEF Inv, CallFits
  <2> QED BY <1>1, <1>2, <1>3, <2>1 DEF CallFits
<1>6. Reports'
  BY <1>1, <1>3 DEF Reports, WritesReportWhatTheyDid, QueriesDescribeTheList
<1> QED BY <1>3, <1>4, <1>5, <1>6 DEF Inv, Done, Ends

(* The answer arrives: what it says was so when the command was done. *)
LEMMA ReturnInv ==
  ASSUME Inv, Return
  PROVE  Inv'
<1>1. PICK c, l, ret :
        /\ c \in Commands /\ c = call.c /\ l = call.before /\ ret = Returned(c, call.msg)
        /\ ListLike(l) /\ Request(c) # NULL
        /\ list = invoke(Request(c), l).list
        /\ call.msg = invoke(Request(c), l).msg /\ Fits(call.msg)
  BY DEF Inv, CallFits, Return
<1>2. ret = ReturnedOn(c, l)
  BY <1>1 DEF ReturnedOn, Received
<1>3. Done(c, l, list, ret)
  BY <1>1, <1>2, CommandDone
<1>4. Record(c, l, ret) /\ call' = NULL /\ UNCHANGED <<list, link, client>>
  BY <1>1 DEF Return
<1>5. /\ last'.cmd = c.cmd /\ last'.arg = c.arg
      /\ last'.before = l /\ last'.ret = ret
  BY <1>4, RecordIs
<1>6. WritesReportWhatTheyDid'
  BY <1>3, <1>4, <1>5 DEF Done, WritesReportWhatTheyDid
<1>7. QueriesDescribeTheList'
  BY <1>3, <1>5 DEF Done, QueriesDescribeTheList
<1> QED BY <1>4, <1>6, <1>7 DEF Inv, CallFits, Reports, Ends

(* No answer arrives: the list is the one before the command, or what the *)
(* command made of it.                                                    *)
LEMMA ReturnLostInv ==
  ASSUME Inv, ReturnLost
  PROVE  Inv'
<1>1. PICK c, l, ret :
        /\ c \in Commands /\ c = call.c /\ l = call.before /\ ret = Returned(c, NULL)
        /\ ListLike(l) /\ Request(c) # NULL
        /\ list = l \/ list = invoke(Request(c), l).list
  BY DEF Inv, CallFits, ReturnLost
<1>2. /\ Record(c, l, ret) /\ call' = NULL /\ UNCHANGED <<list, link>>
      /\ link = "closed" /\ client' \in {"running", "crashed"}
  BY <1>1 DEF ReturnLost
<1>3. /\ last'.cmd = c.cmd /\ last'.arg = c.arg
      /\ last'.before = l /\ last'.ret = ret
  BY <1>2, RecordIs
<1>4. /\ c.cmd = "add" => ret # 0
      /\ c.cmd = "remove" => ret \notin {0, 1}
      /\ \A cars : Describes(c.cmd, c.arg, ret, cars)
  BY <1>1, NoAnswer
<1>5. list = l \/ Done(c, l, list, ReturnedOn(c, l))
  BY <1>1, CommandDone
<1>6. WritesReportWhatTheyDid'
  BY <1>2, <1>3, <1>4, <1>5 DEF Done, WritesReportWhatTheyDid
<1>7. QueriesDescribeTheList'
  BY <1>3, <1>4 DEF QueriesDescribeTheList
<1> QED BY <1>2, <1>6, <1>7 DEF Inv, CallFits, Reports, Ends

(* The link goes down: what was reported stays true. *)
LEMMA LinkInv ==
  ASSUME Inv, UNCHANGED <<list, client, call, last>>,
         link' \in {link, "closed"}
  PROVE  Inv'
<1>1. WritesReportWhatTheyDid'
  BY DEF Inv, Reports, WritesReportWhatTheyDid, FirstRemoved, FirstSuch
<1>2. QueriesDescribeTheList'
  BY DEF Inv, Reports, QueriesDescribeTheList, Describes, FirstSuch
<1> QED BY <1>1, <1>2 DEF Inv, CallFits, Reports, Ends

(* Every step keeps the invariant, and a query the cars. *)
LEMMA NextInv ==
  ASSUME Inv, [Next]_vars
  PROVE  /\ Inv'
         /\ \/ UNCHANGED list
            \/ call.c.cmd \in {"add", "remove"}
            \/ StablySorted(list.cars, list'.cars)
            \/ list'.cars = list.cars
<1>1. ASSUME NEW c \in Commands, Refuse(c) \/ Send(c) \/ CallClosed(c)
      PROVE  Inv' /\ UNCHANGED list
  BY <1>1, RefuseInv, SendInv, CallClosedInv DEF Refuse, Send, CallClosed
<1>2. CASE Invoke
  BY <1>2, InvokeInv
<1>3. CASE SendFails \/ ServerStops \/ UNCHANGED vars
  BY <1>3, LinkInv DEF SendFails, ServerStops, vars
<1>4. CASE Return
  BY <1>4, ReturnInv DEF Return
<1>5. CASE ReturnLost
  BY <1>5, ReturnLostInv DEF ReturnLost
<1> QED BY <1>1, <1>2, <1>3, <1>4, <1>5 DEF Next

(* So it always holds. *)
LEMMA AlwaysInv == Spec => []Inv
<1>1. Inv /\ [Next]_vars => Inv'
  BY NextInv
<1> QED BY InitInv, <1>1, PTL DEF Spec

-----------------------------------------------------------------------------
(***************************************************************************)
(* TypeOK of RemoteList: whatever commands come, every car in the server's *)
(* list passed validar_dados of source/data.c, and stays as it came.       *)
(***************************************************************************)
THEOREM RemoteTypeCorrect == Spec => []TypeOK
<1>1. Inv => TypeOK
  <2> SUFFICES ASSUME Inv PROVE TypeOK
    OBVIOUS
  <2>1. list.cars \in Seq(Kept) /\ list.size = Len(list.cars)
    BY DEF Inv, ListLike
  <2>2. \A i \in DOMAIN list.cars : data_dup(list.cars[i]) = list.cars[i]
    BY <2>1, KeptCars
  <2> QED BY <2>1, <2>2 DEF TypeOK, Inv, Ends, CallFits
<1> QED BY <1>1, AlwaysInv, PTL

(***************************************************************************)
(* The arrays that list_get_all and list_get_model_list allocate from the  *)
(* size field always have room for the nodes of the list, for lists of any *)
(* length.                                                                 *)
(***************************************************************************)
THEOREM RemoteSizeCountsNodes == Spec => []SizeCountsNodes
<1>1. Inv => SizeCountsNodes
  BY DEF Inv, ListLike, SizeCountsNodes
<1> QED BY <1>1, AlwaysInv, PTL

(***************************************************************************)
(* What rlist_add and rlist_remove_by_model return is what happened to the *)
(* list: 0 only if the car went to its end, or the first car of the model  *)
(* went away, 1 only if there was none.  Any other value leaves it open    *)
(* only on a lost connection: nothing happened, or exactly that effect,    *)
(* wherever between request and answer the server stops.                   *)
(***************************************************************************)
THEOREM RemoteWritesReport == Spec => []WritesReportWhatTheyDid
<1>1. Inv => WritesReportWhatTheyDid
  BY DEF Inv, Reports
<1> QED BY <1>1, AlwaysInv, PTL

(***************************************************************************)
(* What the queries of source/client_stub.c return is what the list holds: *)
(* the first car of the marca, the cars of the year in list order, all of  *)
(* them in stable order by year, their number, their models.               *)
(***************************************************************************)
THEOREM RemoteQueriesDescribe == Spec => []QueriesDescribeTheList
<1>1. Inv => QueriesDescribeTheList
  BY DEF Inv, Reports
<1> QED BY <1>1, AlwaysInv, PTL

(***************************************************************************)
(* No query adds or loses a car: list_order_by_year, which two of them run *)
(* on the server's list, leaves the same cars in stable order by year.     *)
(***************************************************************************)
THEOREM RemoteQueriesKeepTheCars == Spec => QueriesKeepTheCars
<1>1. Inv /\ [Next]_vars =>
        [call # NULL /\ call.c.cmd \notin {"add", "remove"} =>
           list'.cars = list.cars \/ StablySorted(list.cars, list'.cars)]_list
  BY NextInv
<1> QED BY <1>1, AlwaysInv, PTL DEF Spec, QueriesKeepTheCars
=============================================================================
