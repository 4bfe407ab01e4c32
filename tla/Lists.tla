------------------------------- MODULE Lists -------------------------------
(* What the models do to lists that no community module has in a form that *)
(* can be proved about.                                                    *)
EXTENDS Integers, Sequences

(* The elements of list q that are in S, in their order. *)
Filtered(q, S) ==
  LET F[i \in 0 .. Len(q)] ==
        IF i = 0 THEN <<>>
        ELSE IF q[i] \in S THEN Append(F[i - 1], q[i]) ELSE F[i - 1]
  IN F[Len(q)]
=============================================================================
