--------------------------- MODULE AggregateRing ---------------------------
(***************************************************************************)
(* The one place audio crosses between two devices' callback threads       *)
(* (aggregate's ring.rs): a ring of whole blocks, one producer and one     *)
(* consumer, no lock.  The steps are the loads and stores of the indices   *)
(* and of the counters; blocks are numbered as they are offered.           *)
(*                                                                         *)
(* The consumer may throw away what waits (drain): a device that went away *)
(* must not play what it missed.  An empty ring counts as a loss once the  *)
(* ring has settled since it was made or drained.                          *)
(***************************************************************************)
EXTENDS Integers, Sequences

CONSTANTS
    Slots,      \* ring_buffers: one slot is always left empty
    Settling,   \* SETTLING_BUFFERS
    Offers,     \* bound: blocks offered
    Looks       \* bound: starved looks and drains

ASSUME RingAssumption == Slots \in Nat \ {0, 1} /\ Settling \in Nat /\ Offers \in Nat /\ Looks \in Nat

VARIABLES
    rRead, rWrite,  \* the indices
    slot,           \* per slot, the block in it
    carried,        \* blocks published, ever
    fillingFrom,    \* what `carried` was when the ring last began filling
    dropped, starved,
    producer,       \* where push_with is
    consumer,       \* where pop_with or drain is
    drainTo,        \* the write index a drain loaded
    offers,         \* blocks offered so far
    took,           \* the last block taken, 0 for silence
    looks,          \* empty looks and drains so far
    since           \* history: blocks published since the last drain

ringVars == <<rRead, rWrite, slot, carried, fillingFrom, dropped, starved, producer,
              consumer, drainTo, offers, took, looks, since>>

AfterSlot(i) == (i + 1) % Slots

RingTypeOK ==
    /\ {rRead, rWrite, drainTo} \subseteq 0 .. Slots - 1
    /\ slot \in [0 .. Slots - 1 -> 0 .. Offers]
    /\ {carried, fillingFrom, dropped, offers, took, since} \subseteq 0 .. Offers
    /\ {starved, looks} \subseteq 0 .. Looks
    /\ producer \in {"idle", "filling", "filled", "published"}
    /\ consumer \in {"idle", "taking", "draining", "drained"}

RingInit ==
    /\ rRead = 0 /\ rWrite = 0 /\ slot = [i \in 0 .. Slots - 1 |-> 0]
    /\ carried = 0 /\ fillingFrom = 0 /\ dropped = 0 /\ starved = 0
    /\ producer = "idle" /\ consumer = "idle" /\ drainTo = 0
    /\ offers = 0 /\ took = 0 /\ looks = 0 /\ since = 0

-----------------------------------------------------------------------------
(* push_with.                                                              *)

Full_NoSlotLeftEmpty == FALSE
Full == AfterSlot(rWrite) = rRead

Push ==
    /\ producer = "idle" /\ offers < Offers
    /\ offers' = offers + 1
    /\ IF Full
       THEN dropped' = dropped + 1 /\ UNCHANGED producer
       ELSE producer' = "filling" /\ UNCHANGED dropped
    /\ UNCHANGED <<rRead, rWrite, slot, carried, fillingFrom, starved, consumer,
                   drainTo, took, looks, since>>

Fill ==
    /\ producer = "filling"
    /\ slot' = [slot EXCEPT ![rWrite] = offers]
    /\ producer' = "filled"
    /\ UNCHANGED <<rRead, rWrite, carried, fillingFrom, dropped, starved, consumer,
                   drainTo, offers, took, looks, since>>

Publish ==
    /\ producer = "filled"
    /\ rWrite' = AfterSlot(rWrite)
    /\ since' = since + 1
    /\ producer' = "published"
    /\ UNCHANGED <<rRead, slot, carried, fillingFrom, dropped, starved, consumer,
                   drainTo, offers, took, looks>>

Carry ==
    /\ producer = "published"
    /\ carried' = carried + 1
    /\ producer' = "idle"
    /\ UNCHANGED <<rRead, rWrite, slot, fillingFrom, dropped, starved, consumer,
                   drainTo, offers, took, looks, since>>

Producer == Push \/ Fill \/ Publish \/ Carry

-----------------------------------------------------------------------------
(* pop_with and drain, one after the other on the consumer's thread.       *)

Empty == rRead = rWrite

IsSettled == carried >= fillingFrom + Settling

Starve ==
    /\ consumer = "idle" /\ Empty /\ looks < Looks
    /\ looks' = looks + 1
    /\ starved' = IF IsSettled THEN starved + 1 ELSE starved
    /\ took' = 0
    /\ UNCHANGED <<rRead, rWrite, slot, carried, fillingFrom, dropped, producer,
                   consumer, drainTo, offers, since>>

Pop ==
    /\ consumer = "idle" /\ ~Empty
    /\ consumer' = "taking"
    /\ UNCHANGED <<rRead, rWrite, slot, carried, fillingFrom, dropped, starved,
                   producer, drainTo, offers, took, looks, since>>

(* The slot is read, and then it is freed.                                 *)
Take ==
    /\ consumer = "taking"
    /\ took' = slot[rRead]
    /\ rRead' = AfterSlot(rRead)
    /\ consumer' = "idle"
    /\ UNCHANGED <<rWrite, slot, carried, fillingFrom, dropped, starved, producer,
                   drainTo, offers, looks, since>>

BeginDrain ==
    /\ consumer = "idle" /\ looks < Looks
    /\ looks' = looks + 1
    /\ drainTo' = rWrite
    /\ consumer' = "draining"
    /\ UNCHANGED <<rRead, rWrite, slot, carried, fillingFrom, dropped, starved,
                   producer, offers, took, since>>

Drain ==
    /\ consumer = "draining"
    /\ rRead' = drainTo
    /\ since' = 0
    /\ consumer' = "drained"
    /\ UNCHANGED <<rWrite, slot, carried, fillingFrom, dropped, starved, producer,
                   drainTo, offers, took, looks>>

BeginFilling ==
    /\ consumer = "drained"
    /\ fillingFrom' = carried
    /\ consumer' = "idle"
    /\ UNCHANGED <<rRead, rWrite, slot, carried, dropped, starved, producer, drainTo,
                   offers, took, looks, since>>

Consumer == Starve \/ Pop \/ Take \/ BeginDrain \/ Drain \/ BeginFilling

(* Two devices that are stopped call back no more.                         *)
Stopped ==
    /\ producer = "idle" /\ consumer = "idle" /\ offers = Offers /\ looks = Looks
    /\ UNCHANGED ringVars

RingNext == Producer \/ Consumer \/ Stopped

RingSpec == RingInit /\ [][RingNext]_ringVars

-----------------------------------------------------------------------------
(* The producer fills no slot the consumer is reading (ring.rs, the safety *)
(* notes of push_with and pop_with).                                       *)
SlotsApart == ~(producer = "filling" /\ consumer = "taking" /\ rRead = rWrite)

(* A silence is counted as a loss only on a ring that has carried its      *)
(* settling blocks since it last began filling, but for the one block that *)
(* was being published while it was drained.                               *)
NotBlamedEarly == [][starved' # starved => since + 1 >= Settling]_ringVars

(* A ring is a queue of blocks: the consumer is given each one once, in    *)
(* order, unless it was refused or thrown away.  A block is offered when   *)
(* the index moves past it, so one that is being filled is not yet.        *)
InRing ==
    [i \in 1 .. (rWrite + Slots - rRead) % Slots |-> slot[(rRead + i - 1) % Slots]]

Offered == IF producer \in {"filling", "filled"} THEN offers - 1 ELSE offers

Queue == INSTANCE BlockQueue WITH
    Room <- Slots - 1, queue <- InRing, offered <- Offered, refused <- dropped, given <- took

IsAQueue == Queue!QueueSpec

(* A ring between two callbacks is a queue of blocks with room for one     *)
(* fewer than its slots, neither callback is at a slot the other uses, and *)
(* what is lost in settling is not counted against the interface (ring.rs) *)
RingIsAQueue == IsAQueue /\ []SlotsApart /\ NotBlamedEarly

=============================================================================
