--------------------------- MODULE ChainRefinement ---------------------------
(***************************************************************************)
(* A complete chain implements the single list of module ListService.  The *)
(* list is the one of the last server: a write takes effect when that      *)
(* server applies it, before any other server does, and reads go there.    *)
(***************************************************************************)
EXTENDS ChainServer

Status(r) ==
  CASE r \in todo            -> "todo"
    [] reply[r] # Nothing    -> "answered"
    [] r \notin todo /\ reply[r] = Nothing /\ effect[r] # Nothing -> "done"
    [] r \notin todo /\ reply[r] = Nothing /\ effect[r] = Nothing -> "open"

Service == INSTANCE ListService WITH
  cars   <- list[N],
  status <- [r \in Requests |-> Status(r)],
  answer <- [r \in Requests |->
               IF reply[r] # Nothing THEN reply[r] ELSE effect[r]]

(***************************************************************************)
(* Clients of a complete chain cannot tell it from one list: each request  *)
(* takes effect once, at the last server, between its call and its return, *)
(* and the answer the first server sends back is the one given there.      *)
(***************************************************************************)
ImplementsListService == Service!Spec

(***************************************************************************)
(* source/network_server.c, on every request but add, remove and order:    *)
(* "Operações não mutáveis, apenas executa localmente".  Reads at the last *)
(* server do not make its list differ from the others: when no request is  *)
(* under way, all servers hold the same number of cars of every kind.      *)
(***************************************************************************)
Count(s, car) ==
  Cardinality({i \in DOMAIN list[s].cars : list[s].cars[i] = car})

ReplicasHoldSameCars ==
  (\A s \in Servers, o \in Conns : thr[s][o].pc \in {"none", "recv"}) =>
    \A s, t \in Servers : \A i \in DOMAIN list[s].cars :
      Count(s, list[s].cars[i]) = Count(t, list[s].cars[i])

(***************************************************************************)
(* What holds instead (zoo_forward_to_successor and invoke,                *)
(* source/network_server.c): whatever reads have sorted, and whichever of  *)
(* two cars of a model a remove took here and there, in a chain that does  *)
(* not fail all servers hold as many cars of every model when no request   *)
(* is under way.                                                           *)
(***************************************************************************)
CountOfModel(s, modelo) ==
  Cardinality({i \in DOMAIN list[s].cars : list[s].cars[i].modelo = modelo})

ReplicasHoldSameModels ==
  (\A s \in Servers, o \in Conns : thr[s][o].pc \in {"none", "recv"}) =>
    \A s, t \in Servers : \A i \in DOMAIN list[s].cars :
      CountOfModel(s, list[s].cars[i].modelo)
        = CountOfModel(t, list[s].cars[i].modelo)
=============================================================================
