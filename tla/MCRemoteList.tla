---------------------------- MODULE MCRemoteList ----------------------------
(***************************************************************************)
(* Constants for RemoteList: cars that share a model, a marca or a year,   *)
(* one of next year and one with a marca out of range.                     *)
(***************************************************************************)
EXTENDS RemoteList

MCCar(modelo, ano, marca) ==
  [ano |-> ano, preco |-> 0, marca |-> marca,
   modelo |-> modelo, combustivel |-> 0]

MCCars == {MCCar("golf", 2001, 0), MCCar("golf", 1999, 1), MCCar("clio", 1999, 2),
           MCCar("clio", 2003, 0), MCCar("polo", 2001, 5)}
MCModels == {"golf", "clio", "polo"}
MCMarcas == {0, 1, 4, 5}
MCYears  == {1999, 2001, -1}
=============================================================================
