------------------------------ MODULE Handoff ------------------------------
(***************************************************************************)
(* What one node promises about handing data objects to a neighbour, with  *)
(* no packets, buffers, control messages or Bloom filter in sight.         *)
(*                                                                         *)
(* The sender works on one object at a time and ends each with one of the  *)
(* three outcomes Protocol::run tells apart after sendDataObjectNow:       *)
(* acknowledged, rejected, failed.  An object is acknowledged only if the  *)
(* neighbour has received it, and rejected only if the neighbour has at    *)
(* some time agreed to take it.  A failed object may still arrive.         *)
(***************************************************************************)
CONSTANTS Objects,      \* data objects
          NoObject      \* the value of "no object"

VARIABLES job,          \* the object being handed over, or NoObject
          outcome,      \* how the latest hand-over ended
          accepted,     \* objects the neighbour has agreed to take
          got           \* objects the neighbour has received

vars == <<job, outcome, accepted, got>>

Init ==
    /\ job = NoObject
    /\ outcome = "none"
    /\ accepted = {}
    /\ got = {}

\* The sender takes up an object.
Offer(o) ==
    /\ job = NoObject
    /\ job' = o
    /\ outcome' = "none"
    /\ UNCHANGED <<accepted, got>>

\* The neighbour agrees to take an object; one without payload it then has.
Accept(o) ==
    /\ accepted' = accepted \cup {o}
    /\ got' \in {got, got \cup {o}}
    /\ UNCHANGED <<job, outcome>>

\* The neighbour has the whole of an object it agreed to take.
Deliver(o) ==
    /\ o \in accepted
    /\ got' = got \cup {o}
    /\ UNCHANGED <<job, outcome, accepted>>

\* The hand-over ends: `how` is what the sender is entitled to conclude.
Finish(how) ==
    /\ job # NoObject
    /\ how = "acked" => job \in got
    /\ how = "rejected" => job \in accepted
    /\ job' = NoObject
    /\ outcome' = how
    /\ UNCHANGED <<accepted, got>>

Next ==
    \/ \E o \in Objects : Offer(o) \/ Accept(o) \/ Deliver(o)
    \/ \E how \in {"acked", "rejected", "failed"} : Finish(how)

Spec == Init /\ [][Next]_vars
=============================================================================
