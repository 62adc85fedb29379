----------------------------- MODULE ListService -----------------------------
(***************************************************************************)
(* What the service promises to its clients, whatever number of servers    *)
(* keep it: there is one list of cars, and every request takes effect on   *)
(* it at one moment between the client's call and its return, with the     *)
(* answer that invoke (source/list_skel.c) gives at that moment.           *)
(***************************************************************************)
EXTENDS ListSkel

CONSTANTS
  Requests,
  Message      \* the message_t of each request

VARIABLES
  cars,        \* the list
  status,      \* of each request: "todo", "open", "done" or "answered"
  answer       \* of each request that is done

Init ==
  /\ cars = list_create
  /\ status = [r \in Requests |-> "todo"]
  /\ answer = [r \in Requests |-> [none |-> TRUE]]

Call(r) ==
  /\ status[r] = "todo"
  /\ status' = [status EXCEPT ![r] = "open"]
  /\ UNCHANGED <<cars, answer>>

Perform(r) ==
  /\ status[r] = "open"
  /\ status' = [status EXCEPT ![r] = "done"]
  /\ cars' = invoke(Message[r], cars).list
  /\ answer' = [answer EXCEPT ![r] = invoke(Message[r], cars).msg]

Return(r) ==
  /\ status[r] = "done"
  /\ status' = [status EXCEPT ![r] = "answered"]
  /\ UNCHANGED <<cars, answer>>

Next == \E r \in Requests : Call(r) \/ Perform(r) \/ Return(r)

Spec == Init /\ [][Next]_<<cars, status, answer>>
=============================================================================
