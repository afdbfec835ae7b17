----------------------------- MODULE BlockQueue -----------------------------
(***************************************************************************)
(* What a ring between two audio callbacks promises (aggregate's ring.rs): *)
(* blocks come out in the order they went in, none twice and none that was *)
(* thrown away; only a full ring refuses a block, and only an empty one    *)
(* has none to give.                                                       *)
(***************************************************************************)
EXTENDS Naturals, Sequences

CONSTANT Room      \* blocks the ring carries

VARIABLES
    queue,      \* blocks waiting, oldest first
    offered,    \* blocks offered, each the next number
    refused,    \* of them, how many met a full ring
    given       \* the last block the consumer was given, 0 for silence

queueVars == <<queue, offered, refused, given>>

QueueInit == queue = <<>> /\ offered = 0 /\ refused = 0 /\ given = 0

Offer ==
    /\ Len(queue) < Room
    /\ offered' = offered + 1
    /\ queue' = Append(queue, offered')
    /\ UNCHANGED <<refused, given>>

Refuse ==
    /\ Len(queue) = Room
    /\ offered' = offered + 1 /\ refused' = refused + 1
    /\ UNCHANGED <<queue, given>>

Give ==
    /\ queue # <<>>
    /\ given' = Head(queue) /\ queue' = Tail(queue)
    /\ UNCHANGED <<offered, refused>>

Silence ==
    /\ queue = <<>> /\ given' = 0
    /\ UNCHANGED <<queue, offered, refused>>

(* Thrown away: some of the oldest, and nothing is given meanwhile.        *)
Throw ==
    /\ \E n \in 0 .. Len(queue) : queue' = SubSeq(queue, n + 1, Len(queue))
    /\ UNCHANGED <<offered, refused, given>>

QueueNext == Offer \/ Refuse \/ Give \/ Silence \/ Throw

QueueSpec == QueueInit /\ [][QueueNext]_queueVars

=============================================================================
