------------------------------- MODULE MCCallKit -------------------------------
(***************************************************************************)
(* Instances of CallKit.tla for TLC.                                       *)
(***************************************************************************)
EXTENDS CallKit, TLC

CONSTANTS a, b, z

Two   == {a, b}
Three == {a, b, z}

\* Who calls whom.
OneWay      == {<<a, b>>}
BothWays    == {<<a, b>>, <<b, a>>}
Intruder    == {<<a, b>>, <<z, b>>}
AnotherCall == {<<a, b>>, <<a, z>>}

Swap    == Permutations(Two)
Callees == Permutations({b, z})

\* Bound: calls are answered before they time out, and the windows that were
\* replaced are left alone.
Prompt ==
  \A c \in Clients : ~hurry[c] /\ form[c].end # "CLOSE" /\ ghost[c].end = "none"
=============================================================================
