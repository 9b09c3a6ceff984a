----------------------------- MODULE MCEventFile -----------------------------
(***************************************************************************)
(* Small repositories for EventFile.                                       *)
(***************************************************************************)
EXTENDS EventFile, TLC

CONSTANTS p1, p2

Plain(k) == Line(<<0, k>>, k, "plain", NoId, <<>>)
Boot(k) == Line(<<0, k>>, k, "boot", NoId, <<>>)
Anchored == <<Plain(1), Line(<<0, 2>>, 2, "anchor", NoId, <<Plain(1)>>)>>

Start(lines, record, without) ==
  [exists |-> lines # <<>>, file |-> lines, enrolled |-> record.set, pin |-> record, rootless |-> without]

MCSize == [commit |-> 1, bootstrap |-> 2, anchor |-> 1, clear |-> 2, init |-> 2]

MCStarts ==
  {Start(<<>>, NoPin, {}),
   Start(Anchored, NoPin, {}),
   Start(<<Plain(1)>>, Pin(<<>>, 0, <<>>), {}),
   Start(<<Plain(1), Boot(2)>>, Pin(<<Plain(1), Boot(2)>>, 2, <<>>), {}),
   Start(<<Plain(1), Boot(2)>>, Pin(<<Plain(1), Boot(2)>>, 2, <<>>), {p2})}

Twins == Permutations({p1, p2})

=============================================================================
