------------------------------ MODULE Filtering ------------------------------
(***************************************************************************)
(* The elements of a sequence that belong to a set, in their order.  It is *)
(* SelectSeq with a set for its test, so that facts about it can be proved *)
(* and cited: see FilteringProofs.                                         *)
(* And a sequence in every order: encoding/json/v2 writes the members of a *)
(* map in an order that is chosen anew each time.                          *)
(***************************************************************************)
EXTENDS Naturals, Sequences

Filter(seq, S) ==
  LET upTo[n \in 0..Len(seq)] ==
        IF n = 0 THEN <<>>
        ELSE IF seq[n] \in S THEN Append(upTo[n - 1], seq[n])
        ELSE upTo[n - 1]
  IN  upTo[Len(seq)]

InAnyOrder(seq) ==
  LET orders == {p \in [DOMAIN seq -> DOMAIN seq] :
                   \A i, j \in DOMAIN seq : p[i] = p[j] => i = j}
  IN  {[k \in DOMAIN seq |-> seq[p[k]]] : p \in orders}
=============================================================================
