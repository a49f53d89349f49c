--------------------------- MODULE MessageStream ---------------------------
(***************************************************************************)
(* What a channel of the connection layer promises for reliable packets    *)
(* (connection.h, "Packet types"): the payloads of one end come out at the *)
(* other end in the order they were sent, each at most once, none left out *)
(* before a later one; and while both ends keep the peer, all come out.    *)
(* The n-th payload sent is represented by n.                              *)
(***************************************************************************)
EXTENDS Naturals, Sequences

VARIABLES
    sent,       \* number of payloads sent so far
    received,   \* the payloads received so far
    open        \* both ends still have the peer

vars == <<sent, received, open>>

Init == sent = 0 /\ received = <<>> /\ open = TRUE

Send    == /\ sent' = sent + 1
           /\ UNCHANGED <<received, open>>

Receive == /\ Len(received) < sent
           /\ received' = Append(received, Len(received) + 1)
           /\ UNCHANGED <<sent, open>>

Close   == /\ open
           /\ open' = FALSE
           /\ UNCHANGED <<sent, received>>

Next == Send \/ Receive \/ Close

Spec == Init /\ [][Next]_vars
=============================================================================
