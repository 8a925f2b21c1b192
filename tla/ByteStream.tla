------------------------------ MODULE ByteStream ------------------------------
(***************************************************************************)
(* A byte-duplex channel as its callers see it: a stream for each          *)
(* direction.  The bytes of a direction are numbered in the order in which *)
(* they are written, and reach the reader at most once and in order.  Over *)
(* a healthy network a reader that joins late may miss the beginning, but  *)
(* nothing after the first byte it gets; a lossy network may drop any.     *)
(***************************************************************************)
EXTENDS Naturals, SequencesExt

CONSTANT Direction

VARIABLES
    lossy,                  \* whether the network may drop bytes
    sent,                   \* number of bytes written in each direction
    received                \* the bytes handed to the reader of each

streams == <<lossy, sent, received>>

Init ==
    /\ lossy \in BOOLEAN
    /\ sent = [d \in Direction |-> 0]
    /\ received = [d \in Direction |-> <<>>]

Write(d) ==
    /\ sent'[d] > sent[d]
    /\ sent' = [sent EXCEPT ![d] = sent'[d]]
    /\ UNCHANGED <<lossy, received>>

(* The reader may be handed "next" after "previous".                       *)
Follows(previous, next) == IF lossy THEN next > previous ELSE next = previous + 1

Read(d) ==
    /\ IsPrefix(received[d], received'[d])
    /\ \A i \in DOMAIN received'[d] : received'[d][i] \in 1..sent[d]
    /\ \A i \in 1..(Len(received'[d]) - 1) : Follows(received'[d][i], received'[d][i + 1])
    /\ received' = [received EXCEPT ![d] = received'[d]]
    /\ UNCHANGED <<lossy, sent>>

Next == \E d \in Direction : Write(d) \/ Read(d)

Spec == Init /\ [][Next]_streams
=============================================================================
