---------------------------- MODULE ProcessStream ----------------------------
(***************************************************************************)
(* What a ProcessHandle promises the runner that reads it: the lines it    *)
(* yields are lines the process printed, each at most once and in the      *)
(* order they were printed, and once the iteration has ended it yields     *)
(* nothing more.  Lines may be missing.  RemoteProcesses implements this   *)
(* over a link that drops and comes back.                                  *)
(***************************************************************************)
EXTENDS Naturals, Sequences

CONSTANT Procs
VARIABLES printed, yielded, ended

Init ==
  /\ printed = [p \in Procs |-> 0]
  /\ yielded = [p \in Procs |-> <<>>]
  /\ ended = [p \in Procs |-> FALSE]

PrintLine(p) == printed' = [printed EXCEPT ![p] = @ + 1] /\ UNCHANGED <<yielded, ended>>

Yield(p) ==
  /\ ~ended[p]
  /\ \E n \in 1..printed[p] :
       /\ \A i \in 1..Len(yielded[p]) : yielded[p][i] < n
       /\ yielded' = [yielded EXCEPT ![p] = Append(@, n)]
  /\ UNCHANGED <<printed, ended>>

\* A lost link may end several iterations at once.
End == \E P \in SUBSET Procs :
  /\ ended' = [p \in Procs |-> ended[p] \/ p \in P]
  /\ UNCHANGED <<printed, yielded>>

Next == End \/ \E p \in Procs : PrintLine(p) \/ Yield(p)

vars == <<printed, yielded, ended>>

Spec == Init /\ [][Next]_vars
=============================================================================
