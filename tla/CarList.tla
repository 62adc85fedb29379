------------------------------- MODULE CarList -------------------------------
(***************************************************************************)
(* The list of cars of source/list.c and the car record of source/data.c.  *)
(*                                                                         *)
(* A list_t is a record of its size field and of the sequence of cars that *)
(* its chain of car_t nodes holds.  The two are kept apart because the     *)
(* code keeps them apart: list_get_all and list_get_model_list allocate    *)
(* "size" + 1 entries and fill one entry per node.                         *)
(*                                                                         *)
(* Every operation is a function from lists to lists; an operation that    *)
(* has a return code yields a record [rc, list].  The out-of-memory paths  *)
(* are left out.                                                           *)
(***************************************************************************)
EXTENDS Integers, Sequences, SequencesExt

CONSTANTS
  NULL,        \* the null pointer
  AnoAtual     \* the current year, ano_atual() in source/data.c

ASSUME AnoAtualAssumption == AnoAtual \in Nat

-----------------------------------------------------------------------------
(* source/data.c *)

MARCA_TOYOTA   == 0
MARCA_MERCEDES == 4
COMBUSTIVEL_GASOLINA == 0
COMBUSTIVEL_HIBRIDO  == 3

validar_dados(ano, preco, marca, modelo, combustivel) ==
  /\ modelo # NULL
  /\ 1886 <= ano /\ ano <= AnoAtual
  /\ preco >= 0
  /\ MARCA_TOYOTA <= marca /\ marca <= MARCA_MERCEDES
  /\ COMBUSTIVEL_GASOLINA <= combustivel /\ combustivel <= COMBUSTIVEL_HIBRIDO

data_create(ano, preco, marca, modelo, combustivel) ==
  IF validar_dados(ano, preco, marca, modelo, combustivel)
    THEN [ano |-> ano, preco |-> preco, marca |-> marca,
          modelo |-> modelo, combustivel |-> combustivel]
    ELSE NULL

data_dup(car) ==
  data_create(car.ano, car.preco, car.marca, car.modelo, car.combustivel)

-----------------------------------------------------------------------------
(* source/list.c *)

list_create == [size |-> 0, cars |-> <<>>]

(* The node at the end of the chain holds a duplicate of the car. *)
list_add(list, car) ==
  IF car = NULL \/ data_dup(car) = NULL
    THEN [rc |-> -1, list |-> list]
    ELSE [rc   |-> 0,
          list |-> [size |-> list.size + 1,
                    cars |-> Append(list.cars, data_dup(car))]]

(* Mutant: the size shrinks although nothing was found. *)
RemoveCountsMisses(list, modelo) ==
  LET at == SelectInSeq(list.cars, LAMBDA car : car.modelo = modelo)
  IN  [rc   |-> IF at = 0 THEN 1 ELSE 0,
       list |-> [size |-> list.size - 1,
                 cars |-> IF at = 0 THEN list.cars ELSE RemoveAt(list.cars, at)]]

(* Mutant: the size is left alone when a node goes away. *)
RemoveKeepsSize(list, modelo) ==
  LET at == SelectInSeq(list.cars, LAMBDA car : car.modelo = modelo)
  IN  IF at = 0
        THEN [rc |-> 1, list |-> list]
        ELSE [rc |-> 0, list |-> [list EXCEPT !.cars = RemoveAt(@, at)]]

(* Mutant: the walk goes on to the last node of that model. *)
RemoveLast(list, modelo) ==
  LET at == SelectLastInSeq(list.cars, LAMBDA car : car.modelo = modelo)
  IN  IF at = 0
        THEN [rc |-> 1, list |-> list]
        ELSE [rc   |-> 0,
              list |-> [size |-> list.size - 1,
                        cars |-> RemoveAt(list.cars, at)]]

(* The walk stops at the first node of that model and unlinks it. *)
list_remove_by_model(list, modelo) ==
  LET at == SelectInSeq(list.cars, LAMBDA car : car.modelo = modelo)
  IN  IF at = 0
        THEN [rc |-> 1, list |-> list]
        ELSE [rc   |-> 0,
              list |-> [size |-> list.size - 1,
                        cars |-> RemoveAt(list.cars, at)]]

list_get_by_marca(list, marca) ==
  LET at == SelectInSeq(list.cars, LAMBDA car : car.marca = marca)
  IN  IF at = 0 THEN NULL ELSE list.cars[at]

(* One step of the walk: a car of that year goes to the end of the array. *)
Collect(array, car, ano) == IF car.ano = ano THEN Append(array, car) ELSE array

(* array[i] is what the walk has put into the array at node i. *)
list_get_by_year(list, ano) ==
  LET array[i \in 0 .. Len(list.cars)] ==
        IF i = 0 THEN <<>> ELSE Collect(array[i - 1], list.cars[i], ano)
  IN  array[Len(list.cars)]

(* Mutant: the left car is overwritten, and lost. *)
ExchangeOverwrites(cars, i) ==
  IF cars[i].ano > cars[i + 1].ano
    THEN [cars EXCEPT ![i] = cars[i + 1]]
    ELSE cars

(* One step of the walk: the cars of nodes i and i + 1 change places if    *)
(* the left one is strictly newer.                                         *)
Exchange(cars, i) ==
  IF cars[i].ano > cars[i + 1].ano
    THEN [cars EXCEPT ![i] = cars[i + 1], ![i + 1] = cars[i]]
    ELSE cars

(* A walk along the list, from its head: walked[i] is the list when the    *)
(* walk has come to node i.                                                *)
Walk(cars) ==
  LET walked[i \in 0 .. Len(cars)] ==
        IF i < 2 THEN cars ELSE Exchange(walked[i - 1], i - 1)
  IN  walked[Len(cars)]

(* Mutant: the list is walked along once. *)
WalkOnce(cars) == Walk(cars)

(* The bubble sort: walks, until one of them exchanges nothing. *)
SortByYear(cars) ==
  LET sorted[s \in Seq(ToSet(cars))] ==
        IF Walk(s) = s THEN s ELSE sorted[Walk(s)]
  IN  sorted[cars]

list_order_by_year(list) == [list EXCEPT !.cars = SortByYear(list.cars)]

list_size(list) == list.size

list_get_model_list(list) ==
  [i \in 1 .. Len(list.cars) |-> list.cars[i].modelo]

(* source/list_skel.c: all the cars, in list order. *)
list_get_all(list) == list.cars

-----------------------------------------------------------------------------
(* Reference definitions: what list.h promises of each operation, in terms *)
(* of positions and without the loops of the code.                         *)

(* i is the position of the first element of s that satisfies P. *)
FirstSuch(s, P(_), i) ==
  /\ i \in DOMAIN s /\ P(s[i])
  /\ \A j \in DOMAIN s : j < i => ~ P(s[j])

WithoutPosition(before, after, i) ==
  /\ Len(after) = Len(before) - 1
  /\ \A j \in DOMAIN after : after[j] = before[IF j < i THEN j ELSE j + 1]

(* The cars of that year and no others, in list order. *)
CarsOfYear(before, array, ano) ==
  \E at \in [DOMAIN array -> DOMAIN before] :
    /\ \A i, j \in DOMAIN array : i < j => at[i] < at[j]
    /\ \A i \in DOMAIN array : array[i] = before[at[i]]
    /\ \A k \in DOMAIN before :
         before[k].ano = ano <=> \E i \in DOMAIN array : at[i] = k

(* The same cars, those of one year in the same order. *)
StableShuffle(before, after) ==
  /\ Len(after) = Len(before)
  /\ \E at \in [DOMAIN after -> DOMAIN before] :
       /\ \A i \in DOMAIN after : after[i] = before[at[i]]
       /\ \A k \in DOMAIN before : \E i \in DOMAIN after : at[i] = k
       /\ \A i, j \in DOMAIN after :
            i < j => /\ at[i] # at[j]
                     /\ after[i].ano = after[j].ano => at[i] < at[j]

(* The same cars, oldest first, those of one year in the same order. *)
StablySorted(before, after) ==
  /\ StableShuffle(before, after)
  /\ \A i, j \in DOMAIN after : i < j => after[i].ano <= after[j].ano
=============================================================================
