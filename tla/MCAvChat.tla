------------------------------- MODULE MCAvChat -------------------------------
(***************************************************************************)
(* Instances of AvChat.tla for TLC: the component under an application     *)
(* that asks for anything at any time.                                     *)
(***************************************************************************)
EXTENDS AvChat, TLC

CONSTANTS a, b

ClientsAB == {a, b}
Swap      == Permutations(ClientsAB)

\* Bound: how much may be on its way.  A state with a bill is checked, not
\* continued: no action reads the bills.
Small ==
  /\ Len(inbox[a]) + Len(inbox[b]) <= 3
  /\ Len(events[a]) + Len(events[b]) <= 1
  /\ \A ch \in ChanId : bills[ch] = <<>>
=============================================================================
