---------------------------- MODULE MCChainServer ----------------------------
(***************************************************************************)
(* Requests for the chain: two cars of one model and different years, a    *)
(* car of another model, the removal of each model, and the reads that     *)
(* show the list, one of which sorts it.                                   *)
(***************************************************************************)
EXTENDS ChainRefinement

MCCar(modelo, ano) ==
  [ano |-> ano, preco |-> 0, marca |-> 0, modelo |-> modelo, combustivel |-> 0]

MCMessages ==
  [add_golf |-> AddRequest(MCCar("golf", 2001)),
   add_golf_old |-> AddRequest(MCCar("golf", 1999)),
   add_clio |-> AddRequest(MCCar("clio", 1999)),
   remove_golf |-> RemoveRequest("golf"),
   remove_clio |-> RemoveRequest("clio"),
   models |-> GetModelListRequest,
   ordered |-> OrderRequest]

MCMessage == [r \in Requests |-> MCMessages[r]]

(* Requests that add the same car may change places. *)
MCSameMessage == [r \in Requests |-> AddRequest(MCCar("golf", 2001))]
RequestSymmetry == Permutations(Requests)

(***************************************************************************)
(* Bound of run chain_any: a third server joins only in behaviours with at *)
(* most one failure in which the clients ask nothing and do not follow the *)
(* membership.  These are there for what two servers that join one after   *)
(* the other do to the links.                                              *)
(***************************************************************************)
ThirdServerAlone ==
  (\E s \in Servers : s > 2 /\ main[s] # "off") =>
    /\ todo = Requests
    /\ \A c \in Clients : cupd[c].kids = {}
    /\ faults.n <= 1

(***************************************************************************)
(* Bound of run chain_any: all requests are made only in behaviours with   *)
(* at most one failure, so that two failures meet one request.             *)
(***************************************************************************)
LastRequestAlone == todo = {} => faults.n <= 1
=============================================================================
