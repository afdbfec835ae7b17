----------------------------- MODULE Reassembly -----------------------------
(***************************************************************************)
(* Messages longer than a packet arrive as segments, each with the length  *)
(* of its message and its own place in it; the receiver puts them together *)
(* (framing.rs, Reassembly::push; lib.rs, HostReceiver::push).  Nothing    *)
(* says which message a segment is of, and the system may drop packets.    *)
(*                                                                         *)
(* Lengths and places are counted in segments.  A segment of the model     *)
(* also carries the number of its message, which only properties read.     *)
(***************************************************************************)
EXTENDS Naturals, Sequences, SequencesExt, FiniteSets

CONSTANTS
    Lengths,    \* the lengths messages have
    Messages    \* bound: messages sent

ASSUME ReassemblyAssumption == Lengths \subseteq Nat \ {0} /\ Messages \in Nat

VARIABLES
    sent,       \* the length of each message sent or being sent
    sending,    \* segments of the last one that have left
    dropped,    \* the segments that were dropped, <<message, place>>
    inProgress, \* whether a message is being put together
    buf,        \* its segments so far
    total,      \* the length it will have
    delivered   \* the messages put together, as the segments they are made of

senderVars == <<sent, sending>>
receiverVars == <<inProgress, buf, total, delivered>>
segmentVars == <<senderVars, dropped, receiverVars>>

Segments == [message : 1 .. Messages, place : Nat]

SegmentsTypeOK ==
    /\ sent \in Seq(Lengths) /\ Len(sent) <= Messages
    /\ sending \in Nat /\ (sent # <<>> => sending <= Last(sent))
    /\ inProgress \in BOOLEAN
    /\ buf \in Seq(Segments) /\ total \in Lengths \cup {0}
    /\ inProgress => Len(buf) < total
    /\ delivered \in Seq(Seq(Segments))

SegmentsInit ==
    /\ sent = <<>> /\ sending = 0 /\ dropped = {}
    /\ inProgress = FALSE /\ buf = <<>> /\ total = 0
    /\ delivered = <<>>

-----------------------------------------------------------------------------

BeginMessage ==
    /\ Len(sent) < Messages
    /\ sent # <<>> => sending = Last(sent)
    /\ \E n \in Lengths : sent' = Append(sent, n)
    /\ sending' = 0
    /\ UNCHANGED <<dropped, receiverVars>>

(* As if a message were whole one segment late.                            *)
Extend_OnePast(b, seg, n) ==
    LET whole == Append(b, seg)
    IN  IF Len(whole) > n
        THEN delivered' = Append(delivered, whole) /\ buf' = <<>>
        ELSE delivered' = delivered /\ buf' = whole

(* Put the segment after what there is; the last one completes a message,  *)
(* and leaves the receiver ready for a first one.                          *)
Extend(b, seg, n) ==
    LET whole == Append(b, seg)
    IN  IF Len(whole) >= n
        THEN delivered' = Append(delivered, whole) /\ buf' = <<>>
        ELSE delivered' = delivered /\ buf' = whole

(* What there is, for a segment of a message of this length: nothing, when *)
(* a message of another length had been begun.                             *)
SoFar(n) == IF inProgress /\ total = n THEN buf ELSE <<>>

Fits(place, n) == place = Len(SoFar(n))

(* One segment: it goes on where the message has got to; the first of a    *)
(* message starts anew; any other is out of order, and nothing is kept.    *)
Push(seg, n) ==
    \/ /\ Fits(seg.place, n)
       /\ Extend(SoFar(n), seg, n)
       /\ total' = n /\ inProgress' = (inProgress \/ n > 1)
    \/ /\ ~Fits(seg.place, n) /\ seg.place = 0
       /\ Extend(<<>>, seg, n)
       /\ total' = n /\ inProgress' = (n > 1)
    \/ /\ ~Fits(seg.place, n) /\ seg.place # 0
       /\ inProgress' = FALSE /\ buf' = <<>> /\ total' = 0
       /\ UNCHANGED delivered

NextSegment == [message |-> Len(sent), place |-> sending]

Receive ==
    /\ sent # <<>> /\ sending < Last(sent)
    /\ Push(NextSegment, Last(sent))
    /\ sending' = sending + 1
    /\ UNCHANGED <<sent, dropped>>

Drop ==
    /\ sent # <<>> /\ sending < Last(sent)
    /\ dropped' = dropped \cup {<<Len(sent), sending>>}
    /\ sending' = sending + 1
    /\ UNCHANGED <<sent, receiverVars>>

(* A packet that is no segment though it says so makes the receiver idle.  *)
Malformed ==
    /\ sent # <<>> /\ sending < Last(sent)
    /\ dropped' = dropped \cup {<<Len(sent), sending>>}
    /\ sending' = sending + 1
    /\ inProgress' = FALSE /\ buf' = <<>> /\ total' = 0
    /\ UNCHANGED <<sent, delivered>>

AllSent == Len(sent) = Messages /\ sending = Last(sent) /\ UNCHANGED segmentVars

SegmentsNext == BeginMessage \/ Receive \/ Drop \/ Malformed \/ AllSent

SegmentsSpec == SegmentsInit /\ [][SegmentsNext]_segmentVars

-----------------------------------------------------------------------------
Own(m) == [i \in 1 .. sent[m] |-> [message |-> m, place |-> i - 1]]
AllArrived(m) == \A i \in 0 .. sent[m] - 1 : <<m, i>> \notin dropped
Mixed(d) == \E i, j \in DOMAIN d : d[i].message # d[j].message

(* A message all of whose segments arrive is delivered, in order and once, *)
(* whatever was lost before it: the receiver is never wedged (framing.rs,  *)
(* push: "silently wedging the device"; lib.rs, HostReceiver: "so the next *)
(* message still arrives").                                                *)
WholeMessagesArrive ==
    \A m \in DOMAIN sent :
        (m < Len(sent) \/ sending = sent[m]) /\ AllArrived(m) =>
            Cardinality({k \in DOMAIN delivered : delivered[k] = Own(m)}) = 1

(* What is delivered is as long as it says, has every place in order, and  *)
(* is one message's, unless all that lies between the two pieces was lost, *)
(* the start of the later message with it (framing.rs, push).              *)
MixedOnlyAcrossAGap ==
    \A k \in DOMAIN delivered :
        LET d == delivered[k]
        IN  /\ \A i \in DOMAIN d : d[i].place = i - 1
            /\ Len(d) = sent[Last(d).message]
            /\ \A i \in 1 .. Len(d) - 1 :
                  d[i].message # d[i + 1].message =>
                      /\ <<d[i].message, i>> \in dropped
                      /\ <<d[i + 1].message, 0>> \in dropped

=============================================================================
