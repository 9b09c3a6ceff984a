------------------------------- MODULE Lists -------------------------------
(***************************************************************************)
(* Sequences of whatever elements, for the modules whose events are records *)
(* of several shapes and so have no set to be a sequence over.             *)
(***************************************************************************)
EXTENDS Naturals, Sequences

\* s is a sequence.
IsSequence(s) == Len(s) \in Nat /\ s = [i \in 1..Len(s) |-> s[i]]

\* The elements of s at some places, in their order.
Picked(s, places) ==
  LET picked[n \in 0..Len(s)] ==
        IF n = 0 THEN <<>> ELSE IF n \in places THEN Append(picked[n - 1], s[n]) ELSE picked[n - 1]
  IN  picked[Len(s)]

\* SelectSeq, in a form the provers can unfold.
Filter(s, Test(_)) == Picked(s, {n \in 1..Len(s) : Test(s[n])})

=============================================================================
