----------------------------- MODULE OrderedSend -----------------------------
(***************************************************************************)
(* What a session promises its senders: messages reach the peer whole, in  *)
(* the order they were accepted, none skipped and none twice, until the    *)
(* session closes; after that nothing more is written.                     *)
(***************************************************************************)
EXTENDS Naturals, Sequences

VARIABLES
    accepted,   \* messages put on the send queue, in order
    wire,       \* messages written to the socket, in order
    closed

Init == accepted = <<>> /\ wire = <<>> /\ closed = FALSE

Accept ==
    /\ Len(accepted') = Len(accepted) + 1
    /\ \A i \in DOMAIN accepted : accepted'[i] = accepted[i]
    /\ UNCHANGED <<wire, closed>>

Write ==
    /\ ~closed
    /\ Len(wire) < Len(accepted)
    /\ wire' = Append(wire, accepted[Len(wire) + 1])
    /\ UNCHANGED <<accepted, closed>>

Close ==
    /\ closed' = TRUE
    /\ UNCHANGED <<accepted, wire>>

Next == Accept \/ Write \/ Close

Spec == Init /\ [][Next]_<<accepted, wire, closed>>
=============================================================================
