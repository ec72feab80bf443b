------------------------------ MODULE ObjectStore ------------------------------
(***************************************************************************)
(* What the data store promises the managers about data objects: the       *)
(* insertions and deletions they ask for take effect one at a time, in the *)
(* order they were asked for, none is lost, and apart from them objects    *)
(* only leave the store when it was asked to age its contents.             *)
(***************************************************************************)
EXTENDS Sequences

CONSTANTS Objects, Persistent

VARIABLES
    pending,  \* the operations asked for and not yet carried out, oldest first
    store     \* the data objects held

vars == <<pending, store>>

Ops == {"insert", "delete"} \X Objects

\* A non-persistent object is matched against the filters and removed again.
Result(op) ==
    IF op[1] = "insert" /\ op[2] \in Persistent
    THEN store \union {op[2]}
    ELSE store \ {op[2]}

Init == pending = <<>> /\ store = {}

Ask ==
    /\ \E op \in Ops : pending' = Append(pending, op)
    /\ UNCHANGED store

CarryOut ==
    /\ pending # <<>>
    /\ store' = Result(Head(pending))
    /\ pending' = Tail(pending)

Age ==
    /\ store' \in SUBSET store
    /\ UNCHANGED pending

Next == Ask \/ CarryOut \/ Age

Spec == Init /\ [][Next]_vars

================================================================================
