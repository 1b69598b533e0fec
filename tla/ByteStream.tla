----------------------------- MODULE ByteStream ------------------------------
(***************************************************************************)
(* What a connection promises in one direction: the bytes that VRead       *)
(* returns are the bytes that VWrite accepted, each once and in order.     *)
(***************************************************************************)
EXTENDS Naturals, Sequences

CONSTANT Length         \* bytes the application writes

VARIABLES accepted,     \* how many bytes VWrite has taken over
          delivered     \* the bytes VRead has returned, named 1 .. Length

bytes == <<accepted, delivered>>

Init == accepted = 0 /\ delivered = <<>>

Accept ==
    /\ \E n \in accepted + 1 .. Length : accepted' = n
    /\ UNCHANGED delivered

Deliver ==
    /\ \E n \in Len(delivered) + 1 .. accepted : delivered' = [i \in 1 .. n |-> i]
    /\ UNCHANGED accepted

Next == Accept \/ Deliver

Safety == Init /\ [][Next]_bytes

\* A byte accepted is delivered in the end.
Spec == Safety /\ WF_bytes(Deliver)
==============================================================================
