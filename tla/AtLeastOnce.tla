----------------------------- MODULE AtLeastOnce -----------------------------
(***************************************************************************)
(* What webhook delivery promises for each event, whatever queues, rows    *)
(* and processes it is made of: an event is recorded as delivered only     *)
(* after the receiver has acknowledged it, and only a deleted subscription *)
(* makes a recorded event disappear.                                       *)
(***************************************************************************)
CONSTANT Event

VARIABLES
  promise,  \* "unknown", "owed", "delivered" or "dead", per event
  reached   \* events the receiver has acknowledged at least once

Init ==
  /\ promise = [e \in Event |-> "unknown"]
  /\ reached = {}

Become(e, from, to) ==
  /\ promise[e] \in from
  /\ promise' = [promise EXCEPT ![e] = to]

\* The receiver answers, also for an event nobody keeps a record of.
Reach(e) ==
  /\ reached' = reached \cup {e}
  /\ UNCHANGED promise

Accept(e) == Become(e, {"unknown"}, "owed") /\ UNCHANGED reached

\* Owed again: a replay of a dead letter, or a failure while recording success.
Reopen(e) == Become(e, {"delivered", "dead"}, "owed") /\ UNCHANGED reached

\* A replay can succeed on the dead letter itself.
Deliver(e) ==
  /\ e \in reached
  /\ Become(e, {"owed", "dead"}, "delivered")
  /\ UNCHANGED reached

\* Possibly an event whose delivery another attempt has just recorded.
GiveUp(e) == Become(e, {"owed", "delivered"}, "dead") /\ UNCHANGED reached

\* The subscription is deleted and its records with it.
Forget ==
  /\ promise' = [e \in Event |-> "unknown"]
  /\ UNCHANGED reached

Next ==
  \/ \E e \in Event : Reach(e) \/ Accept(e) \/ Reopen(e) \/ Deliver(e) \/ GiveUp(e)
  \/ Forget

Spec == Init /\ [][Next]_<<promise, reached>>
=============================================================================
