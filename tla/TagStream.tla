------------------------------- MODULE TagStream -------------------------------
(***************************************************************************)
(* What a client of background reads may rely on, whatever threads,        *)
(* semaphores and commands it takes: between TMR_startReading and the      *)
(* return of TMR_stopReading the tags the module sees are accepted, they   *)
(* reach the read listeners in that order, each exactly once, and when     *)
(* TMR_stopReading has returned at most one of them is still on its way.   *)
(***************************************************************************)
EXTENDS Naturals, Sequences

CONSTANTS
  Tag,        \* tags, in the order of the module's search
  InFlight    \* how many accepted tags can be waiting for delivery

VARIABLES
  searching,  \* a search was started and its stop has not returned
  pending,    \* accepted, not yet delivered
  delivered   \* what the listeners were called with

vars == <<searching, pending, delivered>>

Init == searching = FALSE /\ pending = <<>> /\ delivered = <<>>

(* A tag is accepted in the place it has in the module's search.           *)
Accept(tag) ==
  /\ searching /\ Len(pending) < InFlight
  /\ tag = Len(delivered) + Len(pending) + 1
  /\ pending' = Append(pending, tag)
  /\ UNCHANGED <<searching, delivered>>

Deliver ==
  /\ pending # <<>>
  /\ delivered' = Append(delivered, Head(pending))
  /\ pending' = Tail(pending)
  /\ UNCHANGED searching

Start ==
  /\ ~searching /\ searching' = TRUE
  /\ UNCHANGED <<pending, delivered>>

StopReturned ==
  /\ searching /\ Len(pending) <= 1
  /\ searching' = FALSE
  /\ UNCHANGED <<pending, delivered>>

Next == Start \/ StopReturned \/ Deliver \/ \E tag \in Tag : Accept(tag)

Spec == Init /\ [][Next]_vars /\ WF_vars(Deliver)

================================================================================
