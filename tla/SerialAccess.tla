----------------------------- MODULE SerialAccess -----------------------------
(***************************************************************************)
(* What a lock promises to those that write behind it: each resource has   *)
(* at most one writer at a time, and nobody's turn is ended by another.    *)
(***************************************************************************)
CONSTANTS
  Resource,
  Actor,
  Nobody

VARIABLE writer    \* [Resource -> Actor \cup {Nobody}]

Init == writer = [r \in Resource |-> Nobody]

\* A turn begins at a resource where nobody writes, and ends.
Begin(r, a) == writer[r] = Nobody /\ writer' = [writer EXCEPT ![r] = a]

End(r) == writer' = [writer EXCEPT ![r] = Nobody]

Next == \E r \in Resource : End(r) \/ \E a \in Actor : Begin(r, a)

Spec == Init /\ [][Next]_writer
=============================================================================
