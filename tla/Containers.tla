----------------------------- MODULE Containers -----------------------------
(***************************************************************************)
(* The containers of the code: associative ones, as functions with a       *)
(* finite domain that grows and shrinks, and queues that are filtered.     *)
(***************************************************************************)
EXTENDS Naturals, Sequences, Functions

\* insert_or_assign
Put(m, k, v) == [x \in DOMAIN m \cup {k} |-> IF x = k THEN v ELSE m[x]]

\* erase
Drop(m, K) == Restrict(m, DOMAIN m \ K)

\* What is left of a queue when only the elements of S are kept, in order.
Filter(q, S) ==
  LET kept[n \in 0 .. Len(q)] ==
        IF n = 0 THEN <<>>
        ELSE IF q[n] \in S THEN Append(kept[n - 1], q[n])
        ELSE kept[n - 1]
  IN  kept[Len(q)]
=============================================================================
