------------------------------- MODULE Requests -------------------------------
(***************************************************************************)
(* What the gateway promises to those who send requests: each is handled   *)
(* once, in the order in which they were sent; an answer calls at most one *)
(* callback, and no callback is called twice.  Whose callback it is the    *)
(* gateway does not promise: its serial numbers need not be told apart.    *)
(* No numbers, no table of callbacks, no threads.                          *)
(***************************************************************************)
EXTENDS Naturals, Sequences, Functions

VARIABLES
  made,         \* the requests ever made
  sent,         \* those that were sent to be handled
  waiting,      \* those not yet handled
  due,          \* handled ones whose answer is under way
  called        \* those whose callback was called, in order

rvars == <<made, sent, waiting, due, called>>

Init ==
  /\ made = {} /\ sent = {} /\ waiting = <<>>
  /\ due = {} /\ called = <<>>

Make(r) ==
  /\ r \notin made
  /\ made' = made \cup {r}
  /\ UNCHANGED <<sent, waiting, due, called>>

Send(r) ==
  /\ r \in made \ sent
  /\ sent' = sent \cup {r}
  /\ waiting' = Append(waiting, r)
  /\ UNCHANGED <<made, due, called>>

\* The one who handles it may or may not answer.
Handle ==
  /\ waiting # <<>>
  /\ waiting' = Tail(waiting)
  /\ due' \in {due, due \cup {Head(waiting)}}
  /\ UNCHANGED <<made, sent, called>>

\* The answer to one request calls a callback, as a rule its own, or none.
Answer(r) ==
  /\ r \in due
  /\ due' = due \ {r}
  /\ \/ UNCHANGED called
     \/ \E c \in made \ Range(called) : called' = Append(called, c)
  /\ UNCHANGED <<made, sent, waiting>>

Next ==
  \/ \E r \in made' : Make(r)
  \/ \E r \in made : Send(r)
  \/ Handle
  \/ \E r \in due : Answer(r)

Spec == Init /\ [][Next]_rvars
===============================================================================
