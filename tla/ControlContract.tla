--------------------------- MODULE ControlContract ---------------------------
(***************************************************************************)
(* What the server promises the process about a control request: it is     *)
(* answered at most once, and never after the server has taken note that   *)
(* the process withdrew it.  ControlRequests implements this.              *)
(***************************************************************************)
CONSTANT Requests
VARIABLE status

Init == status = [q \in Requests |-> "unsent"]

Move(q, from, to) == status[q] \in from /\ status' = [status EXCEPT ![q] = to]

Raise(q) == Move(q, {"unsent"}, "open")

\* A request may be refused on the spot.
Answer(q) == Move(q, {"unsent", "open"}, "answered")

Withdraw(q) == Move(q, {"open"}, "withdrawn")

Next == \E q \in Requests : Raise(q) \/ Answer(q) \/ Withdraw(q)

Spec == Init /\ [][Next]_status
=============================================================================
