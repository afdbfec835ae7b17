-------------------------- MODULE Aggregate_proofs --------------------------
(***************************************************************************)
(* The aggregate driver, for every number of slots, blocks, writers and    *)
(* interfaces: a ring between two callbacks is a queue of blocks, a read   *)
(* of the status record is whole, a device that was gone is not played     *)
(* late, every input is lined up, and all interfaces move to a rate or     *)
(* none does.                                                              *)
(***************************************************************************)
EXTENDS AggregateRing, StatusRecord, AggregateStream, AggregatePhase, AggregateRate,
        SequenceTheorems, FiniteSetTheorems, TLAPS

-----------------------------------------------------------------------------
(* The ring: where things are in it.                                         *)

Places == 0 .. Slots - 1

\* How far place i is ahead of place r.
Ahead(r, i) == (i + Slots - r) % Slots

\* An index that ran past the last slot is at the first again.
LEMMA Wraps ==
    ASSUME NEW x \in Nat, x < 2 * Slots
    PROVE  x % Slots = IF x < Slots THEN x ELSE x - Slots
<1>1. Slots \in Nat /\ Slots > 0
  BY RingAssumption
<1>2. CASE x < Slots
  BY <1>1, <1>2
<1>3. CASE x >= Slots
  BY <1>1, <1>3
<1> QED BY <1>1, <1>2, <1>3

LEMMA Around ==
    ASSUME NEW r \in Places, NEW i \in Places
    PROVE  /\ Ahead(r, i) = IF i >= r THEN i - r ELSE i - r + Slots
           /\ AfterSlot(i) = IF i + 1 = Slots THEN 0 ELSE i + 1
           /\ Ahead(r, i) \in Places /\ AfterSlot(i) \in Places
<1>1. Slots \in Nat /\ Slots >= 2
  BY RingAssumption
<1>2. i + Slots - r \in Nat /\ i + Slots - r < 2 * Slots
  BY <1>1 DEF Places
<1>3. i + 1 \in Nat /\ i + 1 < 2 * Slots
  BY <1>1 DEF Places
<1>4. Ahead(r, i) = IF i >= r THEN i - r ELSE i - r + Slots
  BY <1>1, <1>2, Wraps DEF Ahead, Places
<1>5. AfterSlot(i) = IF i + 1 = Slots THEN 0 ELSE i + 1
  BY <1>1, <1>3, Wraps DEF AfterSlot, Places
<1> QED BY <1>1, <1>4, <1>5 DEF Places

LEMMA AheadIsNat ==
    ASSUME NEW r \in Places, NEW i \in Places
    PROVE  Ahead(r, i) \in Nat
<1>1. Ahead(r, i) \in Places
  BY Around
<1> QED BY <1>1 DEF Places

\* The place after i is one further ahead, unless it is r itself.
LEMMA OneFurther ==
    ASSUME NEW r \in Places, NEW i \in Places, AfterSlot(i) # r
    PROVE  Ahead(r, AfterSlot(i)) = Ahead(r, i) + 1
<1>1. /\ Ahead(r, i) = IF i >= r THEN i - r ELSE i - r + Slots
      /\ AfterSlot(i) = IF i + 1 = Slots THEN 0 ELSE i + 1
      /\ AfterSlot(i) \in Places
  BY Around
<1>2. Ahead(r, AfterSlot(i)) = IF AfterSlot(i) >= r THEN AfterSlot(i) - r
                               ELSE AfterSlot(i) - r + Slots
  BY <1>1, Around
<1> QED BY <1>1, <1>2, RingAssumption DEF Places

\* The k-th place from r on.
LEMMA PlaceOf ==
    ASSUME NEW r \in Places, NEW k \in Places
    PROVE  /\ (r + k) % Slots = IF r + k < Slots THEN r + k ELSE r + k - Slots
           /\ (r + k) % Slots \in Places
<1>1. Slots \in Nat /\ r + k \in Nat /\ r + k < 2 * Slots
  BY RingAssumption DEF Places
<1> QED BY <1>1, Wraps DEF Places

-----------------------------------------------------------------------------
(* The ring: its invariant.                                                  *)

\* A block offered is published or refused, but for the one under way.
CountInv ==
    /\ offers = carried + dropped + (IF producer = "idle" THEN 0 ELSE 1)
    /\ fillingFrom <= carried
    /\ since <= carried + (IF producer = "published" THEN 1 ELSE 0)
    /\ starved <= looks

\* The slot that is filled is free for as long as it is filled, and the one
\* that is taken is not; a drain goes no further than what was published.
PlaceInv ==
    /\ producer \in {"filling", "filled"} => AfterSlot(rWrite) # rRead
    /\ producer = "filled" => slot[rWrite] = offers
    /\ consumer = "taking" => rRead # rWrite
    /\ consumer = "draining" => Ahead(rRead, drainTo) <= Ahead(rRead, rWrite)

\* Since it last began filling the ring has carried what was published since it
\* was drained, and at most the block that was being published then.
SettlingInv ==
    consumer # "drained" =>
        carried + (IF producer = "published" THEN 1 ELSE 0)
            <= fillingFrom + since + 1

QueueInv == RingTypeOK /\ CountInv /\ PlaceInv /\ SettlingInv

LEMMA RingTypes ==
    ASSUME RingTypeOK
    PROVE  /\ rRead \in Places /\ rWrite \in Places /\ drainTo \in Places
           /\ slot \in [Places -> 0 .. Offers]
           /\ carried \in Nat /\ fillingFrom \in Nat /\ dropped \in Nat
           /\ offers \in Nat /\ offers <= Offers /\ took \in 0 .. Offers
           /\ since \in Nat /\ starved \in Nat /\ looks \in Nat /\ looks <= Looks
  BY RingAssumption DEF RingTypeOK, Places

LEMMA RingStart == RingInit => QueueInv
<1> SUFFICES ASSUME RingInit
             PROVE  QueueInv
  OBVIOUS
<1>1. 0 \in Places /\ 0 \in 0 .. Offers /\ 0 \in 0 .. Looks
  BY RingAssumption DEF Places
<1>2. RingTypeOK
  BY <1>1 DEF RingInit, RingTypeOK, Places
<1>3. CountInv /\ PlaceInv /\ SettlingInv
  BY DEF RingInit, CountInv, PlaceInv, SettlingInv
<1> QED BY <1>2, <1>3 DEF QueueInv

\* What is counted is no more than what was offered.
LEMMA PartsOfOffers ==
    ASSUME NEW o \in Nat, NEW c \in Nat, NEW d \in Nat, NEW f \in Nat,
           NEW s \in Nat, NEW idle \in BOOLEAN, NEW shown \in BOOLEAN,
           idle => ~shown, o <= Offers,
           o = c + d + (IF idle THEN 0 ELSE 1), f <= c,
           s <= c + (IF shown THEN 1 ELSE 0)
    PROVE  c <= Offers /\ d <= Offers /\ f <= Offers /\ s <= Offers
  BY RingAssumption

LEMMA ProducerStep ==
    ASSUME QueueInv, Producer
    PROVE  QueueInv'
<1>t. /\ rRead \in Places /\ rWrite \in Places /\ drainTo \in Places
      /\ slot \in [Places -> 0 .. Offers]
      /\ carried \in Nat /\ fillingFrom \in Nat /\ dropped \in Nat
      /\ offers \in Nat /\ offers <= Offers /\ took \in 0 .. Offers
      /\ since \in Nat /\ starved \in Nat /\ looks \in Nat /\ looks <= Looks
  BY RingTypes DEF QueueInv
<1>a. Offers \in Nat /\ Looks \in Nat /\ Slots \in Nat /\ Slots >= 2
  BY RingAssumption
<1>1. CountInv'
  BY <1>t DEF QueueInv, CountInv, Producer, Push, Fill, Publish, Carry
<1>2. SettlingInv'
  BY <1>t DEF QueueInv, SettlingInv, Producer, Push, Fill, Publish, Carry
<1>3. rWrite' \in Places
  BY <1>t, Around DEF Producer, Push, Fill, Publish, Carry
<1>4. slot' \in [Places -> 0 .. Offers]
  BY <1>t DEF Producer, Push, Fill, Publish, Carry
<1>5. /\ producer' \in {"idle", "filling", "filled", "published"}
      /\ UNCHANGED <<rRead, drainTo, took, consumer, fillingFrom, starved, looks>>
      /\ offers' \in Nat /\ offers' <= Offers
      /\ carried' \in Nat /\ dropped' \in Nat /\ since' \in Nat
  <2>1. /\ producer' \in {"idle", "filling", "filled", "published"}
        /\ UNCHANGED <<rRead, drainTo, took, consumer, fillingFrom, starved, looks>>
    BY DEF QueueInv, RingTypeOK, Producer, Push, Fill, Publish, Carry
  <2>2. /\ offers' \in Nat /\ offers' <= Offers
        /\ carried' \in Nat /\ dropped' \in Nat /\ since' \in Nat
    BY <1>t, <1>a DEF Producer, Push, Fill, Publish, Carry
  <2> QED BY <2>1, <2>2
<1>6. RingTypeOK'
  <2>1. /\ carried' <= Offers /\ dropped' <= Offers /\ since' <= Offers
        /\ fillingFrom' <= Offers
    <3> DEFINE idle == producer' = "idle"
               shown == producer' = "published"
               o == offers' c == carried' d == dropped' f == fillingFrom' s == since'
    <3>1. /\ o \in Nat /\ o <= Offers /\ c \in Nat /\ d \in Nat /\ f \in Nat /\ s \in Nat
      BY <1>5, <1>t
    <3>2. /\ o = c + d + (IF idle THEN 0 ELSE 1) /\ f <= c
          /\ s <= c + (IF shown THEN 1 ELSE 0)
      BY <1>1 DEF CountInv
    <3>3. (idle => ~shown) /\ idle \in BOOLEAN /\ shown \in BOOLEAN
      OBVIOUS
    <3> HIDE DEF idle, shown, o, c, d, f, s
    <3>4. c <= Offers /\ d <= Offers /\ f <= Offers /\ s <= Offers
      BY <3>1, <3>2, <3>3, PartsOfOffers
    <3> QED BY <3>4 DEF c, d, f, s
  <2>2. starved' <= Looks
    BY <1>1, <1>5, <1>t, <1>a DEF CountInv
  <2> QED BY <1>3, <1>4, <1>5, <1>t, <1>a, <2>1, <2>2
          DEF QueueInv, RingTypeOK, Places
<1>7. PlaceInv'
  <2>1. producer' \in {"filling", "filled"} => (AfterSlot(rWrite) # rRead)'
    BY <1>t DEF QueueInv, PlaceInv, Producer, Push, Fill, Publish, Carry, Full,
                AfterSlot
  <2>2. producer' = "filled" => (slot[rWrite] = offers)'
    BY <1>t DEF QueueInv, PlaceInv, Producer, Push, Fill, Publish, Carry
  <2>3. consumer' = "taking" => (rRead # rWrite)'
    BY <1>t DEF QueueInv, PlaceInv, Producer, Push, Fill, Publish, Carry
  <2>4. consumer' = "draining" => (Ahead(rRead, drainTo) <= Ahead(rRead, rWrite))'
    <3>1. CASE Publish
      <4>1. AfterSlot(rWrite) # rRead
        BY <3>1 DEF Publish, QueueInv, PlaceInv
      <4>2. Ahead(rRead, AfterSlot(rWrite)) = Ahead(rRead, rWrite) + 1
        BY <1>t, <4>1, OneFurther
      <4>3. /\ Ahead(rRead, drainTo) \in Places /\ Ahead(rRead, rWrite) \in Places
        BY <1>t, Around
      <4> QED BY <1>a, <3>1, <4>2, <4>3 DEF Publish, QueueInv, PlaceInv, Ahead, Places
    <3>2. CASE ~Publish
      BY <3>2 DEF QueueInv, PlaceInv, Producer, Push, Fill, Carry, Ahead
    <3> QED BY <3>1, <3>2
  <2> QED BY <2>1, <2>2, <2>3, <2>4 DEF PlaceInv
<1> QED BY <1>1, <1>2, <1>6, <1>7 DEF QueueInv

LEMMA ConsumerStep ==
    ASSUME QueueInv, Consumer
    PROVE  QueueInv'
<1>t. /\ rRead \in Places /\ rWrite \in Places /\ drainTo \in Places
      /\ slot \in [Places -> 0 .. Offers]
      /\ carried \in Nat /\ fillingFrom \in Nat /\ dropped \in Nat
      /\ offers \in Nat /\ offers <= Offers /\ took \in 0 .. Offers
      /\ since \in Nat /\ starved \in Nat /\ looks \in Nat /\ looks <= Looks
  BY RingTypes DEF QueueInv
<1>a. Offers \in Nat /\ Looks \in Nat /\ Slots \in Nat /\ Slots >= 2
  BY RingAssumption
<1>1. CountInv'
  BY <1>t DEF QueueInv, CountInv, Consumer, Starve, Pop, Take, BeginDrain,
              Drain, BeginFilling
<1>2. SettlingInv'
  BY <1>t DEF QueueInv, CountInv, SettlingInv, Consumer, Starve, Pop, Take,
              BeginDrain, Drain, BeginFilling
<1>3. /\ rRead' \in Places /\ drainTo' \in Places
      /\ UNCHANGED <<rWrite, slot, offers, producer, carried, dropped>>
  BY <1>t, Around DEF Consumer, Starve, Pop, Take, BeginDrain, Drain,
                      BeginFilling
<1>4. took' \in 0 .. Offers
  BY <1>t, <1>a DEF Consumer, Starve, Pop, Take, BeginDrain, Drain, BeginFilling
<1>5. /\ consumer' \in {"idle", "taking", "draining", "drained"}
      /\ looks' \in Nat /\ looks' <= Looks
      /\ fillingFrom' \in Nat /\ since' \in Nat /\ starved' \in Nat
  <2>1. consumer' \in {"idle", "taking", "draining", "drained"}
    BY DEF QueueInv, RingTypeOK, Consumer, Starve, Pop, Take, BeginDrain, Drain,
           BeginFilling
  <2>2. /\ looks' \in Nat /\ looks' <= Looks
        /\ fillingFrom' \in Nat /\ since' \in Nat /\ starved' \in Nat
    BY <1>t, <1>a DEF Consumer, Starve, Pop, Take, BeginDrain, Drain,
                      BeginFilling
  <2> QED BY <2>1, <2>2
<1>6. RingTypeOK'
  <2>1. carried' <= Offers /\ dropped' <= Offers /\ carried' \in Nat
        /\ dropped' \in Nat
    BY <1>3, <1>t, <1>a DEF QueueInv, CountInv
  <2>2. fillingFrom' <= Offers /\ since' <= Offers /\ starved' <= Looks
    BY <1>1, <1>3, <1>5, <1>t, <1>a DEF CountInv
  <2> QED BY <1>3, <1>4, <1>5, <1>t, <1>a, <2>1, <2>2
          DEF QueueInv, RingTypeOK, Places
<1>7. PlaceInv'
  <2>1. producer' \in {"filling", "filled"} => (AfterSlot(rWrite) # rRead)'
    <3>1. CASE Take
      <4>1. rRead # rWrite
        BY <3>1 DEF Take, QueueInv, PlaceInv
      <4>2. AfterSlot(rWrite) # AfterSlot(rRead)
        <5>1. /\ AfterSlot(rWrite) = IF rWrite + 1 = Slots THEN 0 ELSE rWrite + 1
              /\ AfterSlot(rRead) = IF rRead + 1 = Slots THEN 0 ELSE rRead + 1
          BY <1>t, Around
        <5> QED BY <1>t, <1>a, <4>1, <5>1 DEF Places
      <4> QED BY <3>1, <4>2 DEF Take, AfterSlot
    <3>2. CASE Drain
      <4>1. SUFFICES ASSUME producer \in {"filling", "filled"}
                     PROVE  AfterSlot(rWrite) # drainTo
        BY <3>2 DEF Drain, AfterSlot
      <4>2. /\ AfterSlot(rWrite) # rRead
            /\ Ahead(rRead, drainTo) <= Ahead(rRead, rWrite)
        BY <3>2, <4>1 DEF Drain, QueueInv, PlaceInv
      <4>3. Ahead(rRead, AfterSlot(rWrite)) = Ahead(rRead, rWrite) + 1
        BY <1>t, <4>2, OneFurther
      <4>4. Ahead(rRead, drainTo) \in Nat /\ Ahead(rRead, rWrite) \in Nat
        BY <1>t, AheadIsNat
      <4> QED BY <4>2, <4>3, <4>4
    <3>3. CASE ~Take /\ ~Drain
      BY <3>3 DEF QueueInv, PlaceInv, Consumer, Starve, Pop, BeginDrain,
                  BeginFilling, AfterSlot
    <3> QED BY <3>1, <3>2, <3>3
  <2>2. producer' = "filled" => (slot[rWrite] = offers)'
    BY <1>3 DEF QueueInv, PlaceInv
  <2>3. consumer' = "taking" => (rRead # rWrite)'
    BY DEF QueueInv, PlaceInv, Consumer, Starve, Pop, Take, BeginDrain, Drain,
           BeginFilling, Empty
  <2>4. consumer' = "draining" => (Ahead(rRead, drainTo) <= Ahead(rRead, rWrite))'
    <3>1. Ahead(rRead, rWrite) \in Nat
      BY <1>t, AheadIsNat
    <3> QED BY <3>1 DEF QueueInv, PlaceInv, Consumer, Starve, Pop, Take,
                        BeginDrain, Drain, BeginFilling, Ahead
  <2> QED BY <2>1, <2>2, <2>3, <2>4 DEF PlaceInv
<1> QED BY <1>1, <1>2, <1>6, <1>7 DEF QueueInv

LEMMA RingInvariant == RingSpec => []QueueInv
<1>1. ASSUME QueueInv, [RingNext]_ringVars
      PROVE  QueueInv'
  <2>1. CASE UNCHANGED ringVars
    BY <1>1, <2>1 DEF QueueInv, RingTypeOK, CountInv, PlaceInv, SettlingInv,
                      ringVars, AfterSlot, Ahead
  <2> QED BY <1>1, <2>1, ProducerStep, ConsumerStep DEF RingNext, Stopped
<1> QED BY <1>1, RingStart, PTL DEF RingSpec

-----------------------------------------------------------------------------
(* The ring is a queue.                                                      *)

\* What waits in the ring, from the reader on.
LEMMA Waiting ==
    ASSUME RingTypeOK
    PROVE  /\ InRing \in Seq(0 .. Offers)
           /\ Len(InRing) = Ahead(rRead, rWrite)
           /\ \A i \in 1 .. Ahead(rRead, rWrite) :
                 InRing[i] = slot[(rRead + i - 1) % Slots]
<1> DEFINE n == Ahead(rRead, rWrite)
<1>1. rRead \in Places /\ rWrite \in Places /\ slot \in [Places -> 0 .. Offers]
  BY RingTypes
<1>2. n \in Places
  BY <1>1, Around
<1>3. InRing = [i \in 1 .. n |-> slot[(rRead + i - 1) % Slots]]
  BY DEF InRing, Ahead
<1>4. ASSUME NEW i \in 1 .. n
      PROVE  (rRead + i - 1) % Slots \in Places
  <2>1. i - 1 \in Places /\ rRead + i - 1 = rRead + (i - 1)
    BY <1>1, <1>2, RingAssumption DEF Places
  <2> QED BY <1>1, <2>1, PlaceOf
<1>5. n \in Nat
  BY <1>2, RingAssumption DEF Places
<1> HIDE DEF n
<1>6. \A i \in 1 .. n : slot[(rRead + i - 1) % Slots] \in 0 .. Offers
  BY <1>1, <1>4
<1>7. InRing \in Seq(0 .. Offers) /\ Len(InRing) = n
  BY <1>3, <1>5, <1>6
<1>8. \A i \in 1 .. n : InRing[i] = slot[(rRead + i - 1) % Slots]
  BY <1>3
<1> QED BY <1>7, <1>8 DEF n

\* A sequence is the function of its elements.
LEMMA ByItsElements ==
    ASSUME NEW S, NEW s \in Seq(S)
    PROVE  s = [i \in 1 .. Len(s) |-> s[i]]
  BY LenProperties

\* The block that is published comes after all that wait.
LEMMA PublishAppends ==
    ASSUME QueueInv, Publish
    PROVE  /\ Len(InRing) < Slots - 1
           /\ InRing' = Append(InRing, offers)
<1> DEFINE n == Ahead(rRead, rWrite)
<1>1. rRead \in Places /\ rWrite \in Places /\ slot \in [Places -> 0 .. Offers]
  BY RingTypes DEF QueueInv
<1>2. AfterSlot(rWrite) # rRead /\ slot[rWrite] = offers
  BY DEF Publish, QueueInv, PlaceInv
<1>3. /\ InRing \in Seq(0 .. Offers) /\ Len(InRing) = n
      /\ \A i \in 1 .. n : InRing[i] = slot[(rRead + i - 1) % Slots]
  BY Waiting DEF QueueInv
<1>4. Ahead(rRead, AfterSlot(rWrite)) = n + 1 /\ n \in Places
      /\ Ahead(rRead, AfterSlot(rWrite)) \in Places
  BY <1>1, <1>2, OneFurther, Around
<1>5. n \in Nat /\ n + 1 \in Nat /\ n + 1 <= Slots - 1
  BY <1>4, RingAssumption DEF Places
<1>6. (rRead + n) % Slots = rWrite
  <2>1. n = IF rWrite >= rRead THEN rWrite - rRead ELSE rWrite - rRead + Slots
    BY <1>1, Around
  <2>2. (rRead + n) % Slots = IF rRead + n < Slots THEN rRead + n
                              ELSE rRead + n - Slots
    BY <1>1, <1>4, PlaceOf
  <2> HIDE DEF n
  <2> QED BY <1>1, <2>1, <2>2, RingAssumption DEF Places
<1>7. InRing' = [i \in 1 .. n + 1 |-> slot[(rRead + i - 1) % Slots]]
  BY <1>4 DEF Publish, InRing, Ahead
<1> HIDE DEF n
<1>8. Len(InRing) < Slots - 1
  BY <1>3, <1>5, RingAssumption
<1>9. Append(InRing, offers) = [i \in 1 .. n + 1 |-> slot[(rRead + i - 1) % Slots]]
  <2>1. Append(InRing, offers) =
          [i \in 1 .. n + 1 |-> IF i <= n THEN InRing[i] ELSE offers]
    <3>1. offers \in 0 .. Offers
      BY RingTypes, RingAssumption DEF QueueInv
    <3>2. /\ Append(InRing, offers) \in Seq(0 .. Offers)
          /\ Len(Append(InRing, offers)) = n + 1
          /\ \A i \in 1 .. n : Append(InRing, offers)[i] = InRing[i]
          /\ Append(InRing, offers)[n + 1] = offers
      BY <1>3, <3>1, AppendProperties
    <3>3. \A i \in 1 .. n + 1 : Append(InRing, offers)[i] =
                                 IF i <= n THEN InRing[i] ELSE offers
      BY <1>5, <3>2
    <3> QED BY <3>2, <3>3, ByItsElements
  <2>2. \A i \in 1 .. n + 1 : (IF i <= n THEN InRing[i] ELSE offers)
                                = slot[(rRead + i - 1) % Slots]
    <3>1. TAKE i \in 1 .. n + 1
    <3>2. CASE i <= n
      BY <1>3, <1>5, <3>2
    <3>3. CASE ~(i <= n)
      <4>1. i = n + 1 /\ rRead + i - 1 = rRead + n
        BY <1>1, <1>5, <3>3 DEF Places
      <4> QED BY <1>2, <1>6, <3>3, <4>1
    <3> QED BY <3>2, <3>3
  <2> QED BY <2>1, <2>2
<1> QED BY <1>7, <1>8, <1>9

\* What is taken is the oldest.
LEMMA TakeIsHead ==
    ASSUME QueueInv, Take
    PROVE  /\ InRing # <<>>
           /\ took' = Head(InRing) /\ InRing' = Tail(InRing)
<1> DEFINE n == Ahead(rRead, rWrite)
<1>1. rRead \in Places /\ rWrite \in Places /\ slot \in [Places -> 0 .. Offers]
  BY RingTypes DEF QueueInv
<1>2. rRead # rWrite
  BY DEF Take, QueueInv, PlaceInv
<1>3. /\ InRing \in Seq(0 .. Offers) /\ Len(InRing) = n
      /\ \A i \in 1 .. n : InRing[i] = slot[(rRead + i - 1) % Slots]
  BY Waiting DEF QueueInv
<1>4. /\ n = IF rWrite >= rRead THEN rWrite - rRead ELSE rWrite - rRead + Slots
      /\ AfterSlot(rRead) = IF rRead + 1 = Slots THEN 0 ELSE rRead + 1
      /\ AfterSlot(rRead) \in Places
  BY <1>1, Around
<1>5. Ahead(AfterSlot(rRead), rWrite) =
        IF rWrite >= AfterSlot(rRead) THEN rWrite - AfterSlot(rRead)
        ELSE rWrite - AfterSlot(rRead) + Slots
  BY <1>1, <1>4, Around
<1>6. n \in Nat /\ n > 0 /\ n < Slots /\ Ahead(AfterSlot(rRead), rWrite) = n - 1
  <2>1. /\ rRead \in Nat /\ rWrite \in Nat /\ Slots \in Nat
        /\ rRead < Slots /\ rWrite < Slots
    BY <1>1, RingAssumption DEF Places
  <2> HIDE DEF n
  <2>2. n \in Nat /\ n > 0 /\ n < Slots
    BY <1>2, <1>4, <2>1
  <2>3. CASE rRead + 1 = Slots
    <3>1. AfterSlot(rRead) = 0
      BY <1>4, <2>3
    <3>2. Ahead(AfterSlot(rRead), rWrite) = rWrite
      BY <1>5, <2>1, <3>1
    <3> QED BY <1>2, <1>4, <2>1, <2>2, <2>3, <3>2
  <2>4. CASE rRead + 1 # Slots
    <3>1. AfterSlot(rRead) = rRead + 1
      BY <1>4, <2>4
    <3>2. Ahead(AfterSlot(rRead), rWrite) =
            IF rWrite >= rRead + 1 THEN rWrite - (rRead + 1)
            ELSE rWrite - (rRead + 1) + Slots
      BY <1>5, <3>1
    <3> QED BY <1>2, <1>4, <2>1, <2>2, <3>2
  <2> QED BY <2>3, <2>4
<1>7. InRing' = [i \in 1 .. n - 1 |-> slot[(AfterSlot(rRead) + i - 1) % Slots]]
  <2>1. InRing' = [i \in 1 .. Ahead(AfterSlot(rRead), rWrite) |->
                     slot[(AfterSlot(rRead) + i - 1) % Slots]]
    BY DEF Take, InRing, Ahead
  <2> QED BY <1>6, <2>1
<1> HIDE DEF n
<1>8. ASSUME NEW i \in 1 .. n - 1
      PROVE  (AfterSlot(rRead) + i - 1) % Slots = (rRead + (i + 1) - 1) % Slots
  <2>1. i - 1 \in Places /\ i \in Places
    BY <1>6, RingAssumption DEF Places
  <2>2. (AfterSlot(rRead) + (i - 1)) % Slots =
          IF AfterSlot(rRead) + (i - 1) < Slots THEN AfterSlot(rRead) + (i - 1)
          ELSE AfterSlot(rRead) + (i - 1) - Slots
    BY <1>4, <2>1, PlaceOf
  <2>3. (rRead + i) % Slots = IF rRead + i < Slots THEN rRead + i
                              ELSE rRead + i - Slots
    BY <1>1, <2>1, PlaceOf
  <2>4. /\ AfterSlot(rRead) + i - 1 = AfterSlot(rRead) + (i - 1)
        /\ rRead + (i + 1) - 1 = rRead + i
    BY <1>1, <1>4, RingAssumption DEF Places
  <2> QED BY <1>1, <1>4, <2>1, <2>2, <2>3, <2>4, RingAssumption DEF Places
<1>9. Tail(InRing) = [i \in 1 .. n - 1 |-> InRing[i + 1]]
  <2>1. InRing # <<>>
    BY <1>3, <1>6
  <2>2. /\ Tail(InRing) \in Seq(0 .. Offers) /\ Len(Tail(InRing)) = n - 1
        /\ \A i \in 1 .. n - 1 : Tail(InRing)[i] = InRing[i + 1]
    BY <1>3, <2>1, HeadTailProperties
  <2> QED BY <2>2, ByItsElements
<1>10. InRing' = Tail(InRing)
  <2>1. \A i \in 1 .. n - 1 :
           InRing[i + 1] = slot[(AfterSlot(rRead) + i - 1) % Slots]
    BY <1>3, <1>6, <1>8
  <2> QED BY <1>7, <1>9, <2>1
<1>11. took' = Head(InRing)
  <2>1. (rRead + 1 - 1) % Slots = rRead
    <3>1. rRead \in Nat /\ rRead < 2 * Slots /\ rRead < Slots
      BY <1>1, RingAssumption DEF Places
    <3>2. rRead % Slots = rRead
      BY <3>1, Wraps
    <3>3. rRead + 1 - 1 = rRead
      BY <3>1
    <3> QED BY <3>2, <3>3
  <2>2. InRing[1] = slot[rRead]
    BY <1>3, <1>6, <2>1
  <2>3. InRing # <<>> /\ Head(InRing) = InRing[1]
    BY <1>3, <1>6
  <2> QED BY <2>2, <2>3 DEF Take
<1> QED BY <1>3, <1>6, <1>10, <1>11

\* What is thrown away is the oldest.
LEMMA DrainDrops ==
    ASSUME QueueInv, Drain
    PROVE  \E m \in 0 .. Len(InRing) :
              InRing' = SubSeq(InRing, m + 1, Len(InRing))
<1> DEFINE n == Ahead(rRead, rWrite)
           m == Ahead(rRead, drainTo)
<1>1. /\ rRead \in Places /\ rWrite \in Places /\ drainTo \in Places
      /\ slot \in [Places -> 0 .. Offers]
  BY RingTypes DEF QueueInv
<1>2. m <= n
  BY DEF Drain, QueueInv, PlaceInv
<1>3. /\ InRing \in Seq(0 .. Offers) /\ Len(InRing) = n
      /\ \A i \in 1 .. n : InRing[i] = slot[(rRead + i - 1) % Slots]
  BY Waiting DEF QueueInv
<1>4. /\ n = IF rWrite >= rRead THEN rWrite - rRead ELSE rWrite - rRead + Slots
      /\ m = IF drainTo >= rRead THEN drainTo - rRead
             ELSE drainTo - rRead + Slots
      /\ Ahead(drainTo, rWrite) = IF rWrite >= drainTo THEN rWrite - drainTo
                                  ELSE rWrite - drainTo + Slots
  BY <1>1, Around
<1>5. m \in Nat /\ n \in Nat /\ n < Slots /\ Ahead(drainTo, rWrite) = n - m
  <2> HIDE DEF n, m
  <2> QED BY <1>1, <1>2, <1>4, RingAssumption DEF Places
<1>6. InRing' = [i \in 1 .. n - m |-> slot[(drainTo + i - 1) % Slots]]
  <2>1. InRing' = [i \in 1 .. Ahead(drainTo, rWrite) |->
                     slot[(drainTo + i - 1) % Slots]]
    BY DEF Drain, InRing, Ahead
  <2> QED BY <1>5, <2>1
<1> HIDE DEF n, m
<1>7. ASSUME NEW i \in 1 .. n - m
      PROVE  (drainTo + i - 1) % Slots = (rRead + (m + i) - 1) % Slots
  <2>1. i - 1 \in Places /\ m + i - 1 \in Places
    BY <1>2, <1>5, RingAssumption DEF Places
  <2>2. (drainTo + (i - 1)) % Slots = IF drainTo + (i - 1) < Slots
                                      THEN drainTo + (i - 1)
                                      ELSE drainTo + (i - 1) - Slots
    BY <1>1, <2>1, PlaceOf
  <2>3. (rRead + (m + i - 1)) % Slots = IF rRead + (m + i - 1) < Slots
                                        THEN rRead + (m + i - 1)
                                        ELSE rRead + (m + i - 1) - Slots
    BY <1>1, <2>1, PlaceOf
  <2>4. /\ drainTo + i - 1 = drainTo + (i - 1)
        /\ rRead + (m + i) - 1 = rRead + (m + i - 1)
    BY <1>1, <1>5, RingAssumption DEF Places
  <2> QED BY <1>1, <1>2, <1>4, <1>5, <2>2, <2>3, <2>4, RingAssumption DEF Places
<1>8. SubSeq(InRing, m + 1, n) = [i \in 1 .. n - m |-> InRing[m + i]]
  <2>1. \A i \in 1 .. n - m : i + (m + 1) - 1 = m + i
    BY <1>2, <1>5
  <2>2. n - (m + 1) + 1 = n - m
    BY <1>2, <1>5
  <2> QED BY <1>3, <1>5, <2>1, <2>2
<1>9. \A i \in 1 .. n - m : InRing[m + i] = slot[(drainTo + i - 1) % Slots]
  BY <1>2, <1>3, <1>5, <1>7
<1>10. InRing' = SubSeq(InRing, m + 1, n)
  BY <1>6, <1>8, <1>9
<1> QED BY <1>2, <1>3, <1>5, <1>10

\* A slot that is filled is not one of those that wait.
LEMMA FillIsUnseen ==
    ASSUME QueueInv, Fill
    PROVE  InRing' = InRing
<1> DEFINE n == Ahead(rRead, rWrite)
<1>1. rRead \in Places /\ rWrite \in Places /\ slot \in [Places -> 0 .. Offers]
  BY RingTypes DEF QueueInv
<1>2. n = IF rWrite >= rRead THEN rWrite - rRead ELSE rWrite - rRead + Slots
  BY <1>1, Around
<1>3. n \in Nat /\ n < Slots
  <2> HIDE DEF n
  <2> QED BY <1>1, <1>2, RingAssumption DEF Places
<1>4. ASSUME NEW i \in 1 .. n
      PROVE  slot'[(rRead + i - 1) % Slots] = slot[(rRead + i - 1) % Slots]
  <2>1. i - 1 \in Places /\ rRead + i - 1 = rRead + (i - 1)
    BY <1>1, <1>3, RingAssumption DEF Places
  <2>2. /\ (rRead + (i - 1)) % Slots = IF rRead + (i - 1) < Slots
                                       THEN rRead + (i - 1)
                                       ELSE rRead + (i - 1) - Slots
        /\ (rRead + (i - 1)) % Slots \in Places
    BY <1>1, <2>1, PlaceOf
  <2>3. (rRead + (i - 1)) % Slots # rWrite
    <3> HIDE DEF n
    <3> QED BY <1>1, <1>2, <1>3, <2>1, <2>2, RingAssumption DEF Places
  <2> QED BY <1>1, <2>1, <2>2, <2>3 DEF Fill
<1>5. /\ InRing = [i \in 1 .. n |-> slot[(rRead + i - 1) % Slots]]
      /\ InRing' = [i \in 1 .. n |-> slot'[(rRead + i - 1) % Slots]]
  BY DEF InRing, Ahead, Fill
<1> QED BY <1>4, <1>5

\* Each step of the two callbacks is one of the queue's, or none.
LEMMA QueueStep ==
    ASSUME QueueInv, RingNext
    PROVE  [Queue!QueueNext]_Queue!queueVars
<1>t. /\ rRead \in Places /\ rWrite \in Places
      /\ offers \in Nat /\ dropped \in Nat
  BY RingTypes DEF QueueInv
<1>n. Len(InRing) = Ahead(rRead, rWrite) /\ InRing \in Seq(0 .. Offers)
  BY Waiting DEF QueueInv
<1>1. CASE Push
  <2>1. InRing' = InRing /\ took' = took /\ Offered = offers
    BY <1>1 DEF Push, InRing, Offered
  <2>2. CASE Full
    <3>1. Len(InRing) = Slots - 1
      <4>1. /\ Ahead(rRead, rWrite) = IF rWrite >= rRead THEN rWrite - rRead
                                      ELSE rWrite - rRead + Slots
            /\ AfterSlot(rWrite) = IF rWrite + 1 = Slots THEN 0 ELSE rWrite + 1
        BY <1>t, Around
      <4> QED BY <1>t, <1>n, <2>2, <4>1, RingAssumption DEF Full, Places
    <3>2. /\ dropped' = dropped + 1 /\ offers' = offers + 1
          /\ Offered' = offers'
      BY <1>1, <2>2 DEF Push, Offered
    <3>3. Queue!Refuse
      BY <2>1, <3>1, <3>2 DEF Queue!Refuse
    <3> QED BY <3>3 DEF Queue!QueueNext
  <2>3. CASE ~Full
    <3>1. dropped' = dropped /\ offers' = offers + 1 /\ Offered' = offers' - 1
      BY <1>1, <2>3 DEF Push, Offered
    <3>2. Offered' = Offered
      BY <1>t, <2>1, <3>1
    <3> QED BY <2>1, <3>1, <3>2 DEF Queue!queueVars
  <2> QED BY <2>2, <2>3
<1>2. CASE Fill
  <2>1. UNCHANGED <<Offered, dropped, took>>
    BY <1>2 DEF Fill, Offered
  <2> QED BY <1>2, <2>1, FillIsUnseen DEF Queue!queueVars
<1>3. CASE Publish
  <2>1. Offered = offers - 1 /\ Offered' = offers
    BY <1>3 DEF Publish, Offered
  <2>2. Offered' = Offered + 1
    BY <1>t, <2>1
  <2>3. Len(InRing) < Slots - 1 /\ InRing' = Append(InRing, Offered')
    BY <1>3, <2>1, PublishAppends
  <2>4. UNCHANGED <<dropped, took>>
    BY <1>3 DEF Publish
  <2>5. Queue!Offer
    BY <2>2, <2>3, <2>4 DEF Queue!Offer
  <2> QED BY <2>5 DEF Queue!QueueNext
<1>4. CASE Carry \/ Pop \/ BeginDrain \/ BeginFilling \/ Stopped
  BY <1>4 DEF Carry, Pop, BeginDrain, BeginFilling, Stopped, ringVars, InRing,
              Offered, Queue!queueVars
<1>5. CASE Starve
  <2>1. Ahead(rRead, rWrite) = 0
    <3>1. Ahead(rRead, rWrite) = IF rWrite >= rRead THEN rWrite - rRead
                                 ELSE rWrite - rRead + Slots
      BY <1>t, Around
    <3> QED BY <1>5, <1>t, <3>1 DEF Starve, Empty, Places
  <2>2. InRing = <<>>
    BY <1>n, <2>1, EmptySeq
  <2>3. UNCHANGED <<InRing, Offered, dropped>> /\ took' = 0
    BY <1>5 DEF Starve, InRing, Offered
  <2>4. Queue!Silence
    BY <2>2, <2>3 DEF Queue!Silence
  <2> QED BY <2>4 DEF Queue!QueueNext
<1>6. CASE Take
  <2>1. UNCHANGED <<Offered, dropped>>
    BY <1>6 DEF Take, Offered
  <2>2. Queue!Give
    BY <1>6, <2>1, TakeIsHead DEF Queue!Give
  <2> QED BY <2>2 DEF Queue!QueueNext
<1>7. CASE Drain
  <2>1. UNCHANGED <<Offered, dropped, took>>
    BY <1>7 DEF Drain, Offered
  <2>2. Queue!Throw
    BY <1>7, <2>1, DrainDrops DEF Queue!Throw
  <2> QED BY <2>2 DEF Queue!QueueNext
<1> QED BY <1>1, <1>2, <1>3, <1>4, <1>5, <1>6, <1>7
        DEF RingNext, Producer, Consumer

\* For every number of slots and whatever the two callbacks' steps interleave
\* into, the consumer is given what was published, in order and once; the
\* producer fills no slot that is being read; and a silence counts as a loss
\* only on a ring that has carried its settling blocks (ring.rs).
THEOREM RingQueues == RingSpec => RingIsAQueue
<1>1. RingInit => Queue!QueueInit
  <2> SUFFICES ASSUME RingInit
               PROVE  Queue!QueueInit
    OBVIOUS
  <2>1. QueueInv /\ rRead = 0 /\ rWrite = 0
    BY RingStart DEF RingInit
  <2>2. Ahead(rRead, rWrite) = 0
    <3>1. 0 \in Places
      BY RingAssumption DEF Places
    <3> QED BY <2>1, <3>1, Around
  <2>3. InRing = <<>>
    BY <2>1, <2>2, Waiting, EmptySeq DEF QueueInv
  <2> QED BY <2>3 DEF RingInit, Offered, Queue!QueueInit
<1>2. QueueInv /\ [RingNext]_ringVars => [Queue!QueueNext]_Queue!queueVars
  <2>1. ASSUME UNCHANGED ringVars
        PROVE  UNCHANGED Queue!queueVars
    BY <2>1 DEF ringVars, InRing, Offered, Queue!queueVars
  <2> QED BY <2>1, QueueStep
<1>3. QueueInv => SlotsApart
  BY DEF QueueInv, PlaceInv, SlotsApart
<1>4. QueueInv /\ [RingNext]_ringVars
        => [starved' # starved => since + 1 >= Settling]_ringVars
  <2> SUFFICES ASSUME QueueInv, RingNext, starved' # starved
               PROVE  since + 1 >= Settling
    BY DEF ringVars
  <2>1. Starve /\ IsSettled
    BY DEF RingNext, Producer, Consumer, Push, Fill, Publish, Carry, Starve,
           Pop, Take, BeginDrain, Drain, BeginFilling, Stopped, ringVars
  <2>2. carried <= fillingFrom + since + 1
    <3>1. carried \in Nat /\ fillingFrom \in Nat /\ since \in Nat
      BY RingTypes DEF QueueInv
    <3> QED BY <2>1, <3>1 DEF Starve, QueueInv, SettlingInv
  <2>3. /\ carried \in Nat /\ fillingFrom \in Nat /\ since \in Nat
        /\ Settling \in Nat
    BY RingTypes, RingAssumption DEF QueueInv
  <2> QED BY <2>1, <2>2, <2>3 DEF IsSettled
<1> QED BY <1>1, <1>2, <1>3, <1>4, RingInvariant, PTL
        DEF RingSpec, RingIsAQueue, IsAQueue, Queue!QueueSpec, NotBlamedEarly

-----------------------------------------------------------------------------
(* The status record: its invariant.                                         *)

States  == {"idle", "wants", "gated", "odd", "torn", "whole", "even"}
Holding == {"gated", "odd", "torn", "whole", "even"}

IsEven(n) == n % 2 = 0

LEMMA Parity ==
    ASSUME NEW n \in Nat
    PROVE  /\ IsEven(n + 1) <=> ~IsEven(n)
           /\ IsEven(0)
  BY DEF IsEven

\* The section outlives whoever has it mapped, its header is written by the one
\* that made it, and only who found the header publishes or reads.
SectionInv ==
    /\ header => section
    /\ \A d \in Drivers :
          /\ loaded[d] # "out" => section
          /\ loaded[d] = "publishing" => header
          /\ loaded[d] = "created" => ~header
          /\ \A e \in Drivers :
                loaded[d] = "created" /\ loaded[e] = "created" => d = e
          /\ \A t \in Threads : writing[d][t] # "idle" => loaded[d] = "publishing"
    /\ Reading => header

\* One thread at most has the gate, which may stay taken without any; the area
\* is whole where the number is even, and what its writer has reached where not.
GateInv ==
    /\ \A d \in Drivers, t \in Threads :
          /\ writing[d][t] \in Holding => gate
          /\ writing[d][t] \in {"gated", "even"} => IsEven(sequence)
          /\ writing[d][t] \in {"odd", "torn", "whole"} => ~IsEven(sequence)
          /\ writing[d][t] \in {"torn", "whole"} => half[1] = writes
          /\ writing[d][t] = "whole" => half[2] = writes
          /\ writing[d][t] = "gated" => sequence + 2 <= 2 * writes
          /\ writing[d][t] \in {"odd", "torn", "whole"}
                => sequence + 1 <= 2 * writes
          /\ \A e \in Drivers, u \in Threads :
                {writing[d][t], writing[e][u]} \subseteq Holding
                    => d = e /\ t = u
    /\ ~gate => IsEven(sequence)
    /\ IsEven(sequence) => half[1] = current /\ half[2] = current
    /\ sequence <= 2 * writes

\* While the number stands where an attempt found it, the area is what was
\* current then, and so is what was copied of it.
CopyInv ==
    /\ reader \in {"copying", "half", "copied"} =>
          /\ IsEven(before) /\ before <= sequence
          /\ before = sequence =>
               /\ newest = current
               /\ reader \in {"half", "copied"} => copy[1] = newest
               /\ reader = "copied" => copy[2] = newest
    /\ reader = "answered" => copy[1] = newest /\ copy[2] = newest

RecordInv == RecordTypeOK /\ SectionInv /\ GateInv /\ CopyInv

LEMMA RecordTypes ==
    ASSUME RecordTypeOK
    PROVE  /\ sequence \in Nat /\ before \in Nat /\ writes \in Nat
           /\ sequence <= 2 * Writes /\ writes <= Writes
           /\ half \in [1 .. 2 -> 0 .. Writes] /\ copy \in [1 .. 2 -> 0 .. Writes]
           /\ current \in 0 .. Writes /\ newest \in 0 .. Writes
           /\ writing \in [Drivers -> [Threads -> States]]
           /\ loaded \in [Drivers -> {"out", "created", "found", "publishing", "silent"}]
           /\ Writes \in Nat
  BY RecordAssumption DEF RecordTypeOK, States

LEMMA StepFacts ==
    ASSUME RecordTypeOK, NEW d \in Drivers, NEW t \in Threads, NEW from,
           NEW to \in States, Step(d, t, from, to)
    PROVE  /\ writing[d][t] = from
           /\ writing' \in [Drivers -> [Threads -> States]]
           /\ \A e \in Drivers, u \in Threads :
                 writing'[e][u] = IF e = d /\ u = t THEN to ELSE writing[e][u]
  BY RecordTypes DEF Step

LEMMA RecordStart == RecordInit => RecordInv
<1> SUFFICES ASSUME RecordInit
             PROVE  RecordInv
  OBVIOUS
<1>1. /\ \A d \in Drivers, t \in Threads : writing[d][t] = "idle"
      /\ \A d \in Drivers : loaded[d] = "out"
  BY DEF RecordInit, Nobody
<1>2. RecordTypeOK
  <2>1. section \in BOOLEAN /\ header \in BOOLEAN /\ gate \in BOOLEAN
    BY DEF RecordInit
  <2>2. 0 \in 0 .. 2 * Writes /\ 0 \in 0 .. Writes /\ 0 \in 0 .. Attempts
        /\ 0 \in 0 .. Kills /\ <<0, 0>> \in [1 .. 2 -> 0 .. Writes]
    BY RecordAssumption
  <2>3. writing \in [Drivers -> [Threads -> States]]
    BY DEF RecordInit, Nobody, States
  <2> QED BY <2>1, <2>2, <2>3 DEF RecordInit, RecordTypeOK, States
<1>3. SectionInv
  BY <1>1 DEF RecordInit, SectionInv, Reading
<1>4. GateInv
  BY <1>1, Parity, RecordAssumption DEF RecordInit, GateInv, Holding
<1>5. CopyInv
  BY DEF RecordInit, CopyInv
<1> QED BY <1>2, <1>3, <1>4, <1>5 DEF RecordInv
-----------------------------------------------------------------------------
(* The status record: its steps.                                             *)

\* A read leaves the area alone.
LEMMA ReaderStep ==
    ASSUME RecordInv, Read
    PROVE  RecordInv'
<1>t. RecordTypeOK /\ SectionInv /\ GateInv /\ CopyInv
  BY DEF RecordInv
<1>1. UNCHANGED <<gate, sequence, half, current, writes, kills, loaded, writing>>
  BY DEF Read, Open, NothingToOpen, BeginAttempt, CopyHalf, EndAttempt, areaVars,
         recordVars
<1>2. GateInv'
  BY <1>t, <1>1 DEF GateInv
<1>3. SectionInv'
  <2>1. CASE Open \/ NothingToOpen \/ CopyHalf
    BY <1>t, <1>1, <2>1 DEF Open, NothingToOpen, CopyHalf, SectionInv, Reading,
                            areaVars, recordVars
  <2>2. ASSUME NEW end \in {"answered", "busy"}, ReadEnds(end)
        PROVE  SectionInv'
    BY <1>t, <1>1, <2>2 DEF ReadEnds, SectionInv, Reading
  <2>3. CASE BeginAttempt
    <3>1. CASE attempt = Attempts
      BY <2>2, <2>3, <3>1 DEF BeginAttempt
    <3>2. CASE attempt # Attempts
      BY <1>t, <1>1, <2>3, <3>2 DEF BeginAttempt, SectionInv, Reading
    <3> QED BY <3>1, <3>2
  <2>4. CASE EndAttempt
    <3>1. CASE Unmoved
      BY <2>2, <2>4, <3>1 DEF EndAttempt
    <3>2. CASE ~Unmoved
      BY <1>t, <1>1, <2>4, <3>2 DEF EndAttempt, SectionInv, Reading
    <3> QED BY <3>1, <3>2
  <2> QED BY <2>1, <2>3, <2>4 DEF Read
<1>4. RecordTypeOK'
  <2>1. section' \in BOOLEAN /\ header' \in BOOLEAN /\ gate' \in BOOLEAN
    BY <1>t, <1>1 DEF RecordTypeOK, Read, Open, NothingToOpen, BeginAttempt,
                      CopyHalf, EndAttempt, ReadEnds, areaVars, recordVars
  <2>2. /\ before' \in 0 .. 2 * Writes /\ newest' \in 0 .. Writes
        /\ attempt' \in 0 .. Attempts
        /\ reader' \in {"idle", "begin", "copying", "half", "copied", "answered",
                        "busy"}
    <3>t. /\ reader \in {"idle", "begin", "copying", "half", "copied", "answered",
                        "busy"}
          /\ attempt \in 0 .. Attempts /\ before \in 0 .. 2 * Writes
          /\ newest \in 0 .. Writes
          /\ sequence \in 0 .. 2 * Writes /\ current \in 0 .. Writes
      BY <1>t DEF RecordTypeOK
    <3>1. CASE BeginAttempt
      <4>1. reader' \in {"busy", "copying", "begin"}
        BY <3>1 DEF BeginAttempt, ReadEnds
      <4>2. /\ before' \in {before, sequence} /\ newest' \in {newest, current}
            /\ \/ attempt' = attempt
               \/ attempt # Attempts /\ attempt' = attempt + 1
        BY <3>1 DEF BeginAttempt
      <4>3. attempt' \in 0 .. Attempts
        BY <3>t, <4>2, RecordAssumption
      <4>4. before' \in 0 .. 2 * Writes /\ newest' \in 0 .. Writes
        BY <3>t, <4>2
      <4> QED BY <4>1, <4>3, <4>4
    <3>2. CASE Open
      BY <1>t, <3>2, RecordAssumption DEF RecordTypeOK, Open
    <3>3. CASE NothingToOpen \/ CopyHalf \/ EndAttempt
      BY <1>t, <3>3 DEF RecordTypeOK, NothingToOpen, CopyHalf, EndAttempt,
                        ReadEnds, recordVars
    <3> QED BY <3>1, <3>2, <3>3 DEF Read
  <2>3. copy' \in [1 .. 2 -> 0 .. Writes]
    <3>1. /\ half[1] \in 0 .. Writes /\ half[2] \in 0 .. Writes
          /\ copy[1] \in 0 .. Writes /\ copy[2] \in 0 .. Writes
      BY <1>t, RecordTypes
    <3>2. copy' \in {copy, <<half[1], copy[2]>>, <<copy[1], half[2]>>}
      BY DEF Read, Open, NothingToOpen, BeginAttempt, CopyHalf, EndAttempt,
             recordVars
    <3> QED BY <1>t, <3>1, <3>2, RecordTypes
  <2> QED BY <1>t, <1>1, <2>1, <2>2, <2>3 DEF RecordTypeOK
<1>5. CopyInv'
  <2>t. /\ sequence \in Nat /\ before \in Nat
        /\ half \in [1 .. 2 -> 0 .. Writes] /\ copy \in [1 .. 2 -> 0 .. Writes]
    BY <1>t, RecordTypes
  <2>1. CASE Open \/ NothingToOpen
    BY <1>t, <1>1, <2>1 DEF Open, NothingToOpen, CopyInv, recordVars
  <2>2. CASE BeginAttempt
    <3>1. CASE reader' \in {"copying", "half", "copied"}
      <4>1. /\ reader' = "copying" /\ before' = sequence /\ newest' = current
            /\ IsEven(sequence)
        BY <2>2, <3>1 DEF BeginAttempt, ReadEnds, Even, IsEven
      <4> QED BY <1>1, <2>t, <4>1 DEF CopyInv
    <3>2. CASE ~(reader' \in {"copying", "half", "copied"})
      BY <2>2, <3>2 DEF BeginAttempt, ReadEnds, CopyInv
    <3> QED BY <3>1, <3>2
  <2>3. CASE CopyHalf
    <3>1. /\ reader \in {"copying", "half"} /\ reader' \in {"half", "copied"}
          /\ reader = "copying" => reader' = "half" /\ copy'[1] = half[1]
          /\ reader = "half" => /\ reader' = "copied" /\ copy'[2] = half[2]
                                /\ copy'[1] = copy[1]
          /\ before' = before /\ newest' = newest
      BY <2>3 DEF CopyHalf
    <3>2. before = sequence => half[1] = current /\ half[2] = current
      BY <1>t, <3>1 DEF CopyInv, GateInv
    <3> QED BY <1>t, <1>1, <3>1, <3>2 DEF CopyInv
  <2>4. CASE EndAttempt
    <3>1. reader = "copied" /\ UNCHANGED <<before, copy, newest>>
      BY <2>4 DEF EndAttempt
    <3>2. reader' = "answered" => before = sequence
      BY <2>4 DEF EndAttempt, Unmoved, ReadEnds
    <3>3. reader' \in {"answered", "begin"}
      BY <2>4 DEF EndAttempt, ReadEnds
    <3> QED BY <1>t, <1>1, <3>1, <3>2, <3>3 DEF CopyInv
  <2> QED BY <2>1, <2>2, <2>3, <2>4 DEF Read
<1> QED BY <1>2, <1>3, <1>4, <1>5 DEF RecordInv

\* A driver finds the section or makes it.
LEMMA LoadStep ==
    ASSUME RecordInv, NEW d \in Drivers, Load(d)
    PROVE  RecordInv'
<1>t. RecordTypeOK /\ SectionInv /\ GateInv /\ CopyInv
  BY DEF RecordInv
<1>1. UNCHANGED <<header, gate, sequence, half, current, writes, kills, writing,
                  reader, attempt, before, copy, newest>>
  BY DEF Load, readVars
<1>2. /\ section' = TRUE /\ loaded[d] = "out"
      /\ loaded' = [loaded EXCEPT ![d] = IF section THEN "found" ELSE "created"]
  BY DEF Load
<1>3. RecordTypeOK'
  <2>1. loaded' \in [Drivers -> {"out", "created", "found", "publishing", "silent"}]
    BY <1>t, <1>2, RecordTypes
  <2>2. section' \in BOOLEAN
    BY <1>2
  <2> QED BY <1>t, <1>1, <2>1, <2>2 DEF RecordTypeOK
<1>4. SectionInv'
  <2>1. \A e \in Drivers : loaded'[e] = IF e # d THEN loaded[e]
                                        ELSE IF section THEN "found" ELSE "created"
    BY <1>t, <1>2, RecordTypes
  <2>2. ~section => ~header /\ \A e \in Drivers : loaded[e] # "created"
    BY <1>t DEF SectionInv
  <2> QED BY <1>t, <1>1, <1>2, <2>1, <2>2 DEF SectionInv, Reading
<1>5. GateInv' /\ CopyInv'
  BY <1>t, <1>1 DEF GateInv, CopyInv
<1> QED BY <1>3, <1>4, <1>5 DEF RecordInv

\* Whoever made the section writes its header, which nobody reads yet.
LEMMA HeaderStep ==
    ASSUME RecordInv, NEW d \in Drivers, WriteHeader(d)
    PROVE  RecordInv'
<1>t. RecordTypeOK /\ SectionInv /\ GateInv /\ CopyInv
  BY DEF RecordInv
<1>1. /\ UNCHANGED <<section, writes, kills, reader, attempt, before, copy, newest>>
      /\ header' = TRUE /\ gate' = FALSE /\ sequence' = 0 /\ half' = <<0, 0>>
      /\ current' = 0 /\ loaded[d] = "created"
      /\ loaded' = [loaded EXCEPT ![d] = "publishing"]
      /\ writing' = [writing EXCEPT ![d]["watcher"] = "wants"]
  BY DEF WriteHeader, FirstUpdate, readVars
<1>2. /\ ~header /\ ~Reading /\ section
      /\ \A e \in Drivers, t \in Threads : writing[e][t] = "idle"
  BY <1>t, <1>1 DEF SectionInv
<1>3. /\ \A e \in Drivers, t \in Threads : writing'[e][t] =
            IF e = d /\ t = "watcher" THEN "wants" ELSE "idle"
      /\ writing' \in [Drivers -> [Threads -> States]]
  BY <1>t, <1>1, <1>2, RecordTypes DEF Threads, States
<1>4. /\ \A e \in Drivers : loaded'[e] = IF e = d THEN "publishing" ELSE loaded[e]
      /\ loaded' \in [Drivers -> {"out", "created", "found", "publishing", "silent"}]
  BY <1>t, <1>1, RecordTypes
<1>5. RecordTypeOK'
  <2>1. header' \in BOOLEAN /\ gate' \in BOOLEAN
    BY <1>1
  <2>2. /\ sequence' \in 0 .. 2 * Writes /\ current' \in 0 .. Writes
        /\ half' \in [1 .. 2 -> 0 .. Writes]
    BY <1>1, RecordAssumption
  <2> QED BY <1>t, <1>1, <1>3, <1>4, <2>1, <2>2 DEF RecordTypeOK, States
<1>6. SectionInv'
  <2>1. \A e \in Drivers : loaded'[e] # "created"
    BY <1>t, <1>1, <1>4 DEF SectionInv
  <2> QED BY <1>t, <1>1, <1>2, <1>3, <1>4, <2>1 DEF SectionInv
<1>7. GateInv'
  <2>1. sequence' <= 2 * writes'
    BY <1>t, <1>1, RecordTypes
  <2>2. half'[1] = current' /\ half'[2] = current' /\ IsEven(sequence')
    BY <1>1, Parity
  <2> QED BY <1>1, <1>3, <2>1, <2>2 DEF GateInv, Holding
<1>8. CopyInv'
  BY <1>t, <1>1, <1>2 DEF CopyInv, Reading
<1> QED BY <1>5, <1>6, <1>7, <1>8 DEF RecordInv

\* Whoever found it publishes, or keeps silent.
LEMMA CheckStep ==
    ASSUME RecordInv, NEW d \in Drivers, CheckHeader(d) \/ Wants(d)
    PROVE  RecordInv'
<1>t. RecordTypeOK /\ SectionInv /\ GateInv /\ CopyInv
  BY DEF RecordInv
<1>1. UNCHANGED <<section, header, gate, sequence, half, current, writes, kills,
                  reader, attempt, before, copy, newest>>
  BY DEF CheckHeader, Wants, areaVars, readVars
<1>2. /\ writing' \in {writing, [writing EXCEPT ![d]["watcher"] = "wants"]}
      /\ writing' # writing => loaded'[d] = "publishing"
      /\ writing[d]["watcher"] = "idle"
      /\ \/ loaded' = loaded
         \/ header /\ loaded' = [loaded EXCEPT ![d] = "publishing"]
         \/ loaded[d] = "found" /\ loaded' = [loaded EXCEPT ![d] = "silent"]
  BY <1>t, RecordTypes DEF CheckHeader, Wants, Step, FirstUpdate, SectionInv,
                           Threads
<1>3. /\ writing' \in [Drivers -> [Threads -> States]]
      /\ \A e \in Drivers, t \in Threads :
            \/ writing'[e][t] = writing[e][t]
            \/ /\ e = d /\ t = "watcher" /\ writing[e][t] = "idle"
               /\ writing'[e][t] = "wants" /\ loaded'[d] = "publishing"
  BY <1>t, <1>2, RecordTypes DEF Threads, States
<1>4. /\ loaded' \in [Drivers -> {"out", "created", "found", "publishing", "silent"}]
      /\ \A e \in Drivers :
            \/ loaded'[e] = loaded[e]
            \/ loaded'[e] = "publishing" /\ header /\ e = d
            \/ loaded'[e] = "silent" /\ loaded[e] = "found" /\ e = d
  BY <1>t, <1>2, RecordTypes
<1>5. RecordTypeOK'
  BY <1>t, <1>1, <1>3, <1>4 DEF RecordTypeOK, States
<1>6. SectionInv'
  <2>1. header' => section'
    BY <1>t, <1>1 DEF SectionInv
  <2>2. Reading' => header'
    BY <1>t, <1>1 DEF SectionInv, Reading
  <2>3. ASSUME NEW e \in Drivers
        PROVE  /\ loaded'[e] # "out" => section'
               /\ loaded'[e] = "publishing" => header'
               /\ loaded'[e] = "created" => ~header' /\ loaded[e] = "created"
    BY <1>t, <1>1, <1>4 DEF SectionInv
  <2>4. ASSUME NEW e \in Drivers, NEW t \in Threads, writing'[e][t] # "idle"
        PROVE  loaded'[e] = "publishing"
    <3>1. CASE writing'[e][t] = writing[e][t]
      BY <1>t, <1>4, <2>4, <3>1 DEF SectionInv
    <3>2. CASE writing'[e][t] # writing[e][t]
      BY <1>3, <3>2
    <3> QED BY <3>1, <3>2
  <2> QED BY <1>t, <2>1, <2>2, <2>3, <2>4 DEF SectionInv
<1>7. GateInv'
  <2>1. \A e \in Drivers, t \in Threads :
           writing'[e][t] # writing[e][t] => writing'[e][t] = "wants"
    BY <1>3
  <2> QED BY <1>t, <1>1, <2>1 DEF GateInv, Holding
<1>8. CopyInv'
  BY <1>t, <1>1 DEF CopyInv
<1> QED BY <1>5, <1>6, <1>7, <1>8 DEF RecordInv

\* A driver goes, wherever its threads are.
LEMMA UnloadStep ==
    ASSUME RecordInv, NEW d \in Drivers, Unload(d)
    PROVE  RecordInv'
<1>t. RecordTypeOK /\ SectionInv /\ GateInv /\ CopyInv
  BY DEF RecordInv
<1>1. /\ UNCHANGED <<gate, sequence, half, current, writes, reader, attempt, before,
                     copy, newest>>
      /\ kills' = kills + 1 /\ kills < Kills
      /\ loaded' = [loaded EXCEPT ![d] = "out"]
      /\ writing' = [writing EXCEPT ![d] = Nobody[d]]
      /\ section' = (Reading \/ \E e \in Drivers \ {d} : loaded[e] # "out")
      /\ header' = (header /\ section')
  BY DEF Unload, readVars
<1>2. /\ writing' \in [Drivers -> [Threads -> States]]
      /\ \A e \in Drivers, t \in Threads :
            writing'[e][t] = IF e = d THEN "idle" ELSE writing[e][t]
  BY <1>t, <1>1, RecordTypes DEF Nobody, States
<1>3. /\ loaded' \in [Drivers -> {"out", "created", "found", "publishing", "silent"}]
      /\ \A e \in Drivers : loaded'[e] = IF e = d THEN "out" ELSE loaded[e]
  BY <1>t, <1>1, RecordTypes
<1>4. RecordTypeOK'
  <2>1. section' \in BOOLEAN /\ header' \in BOOLEAN
    BY <1>1
  <2>2. kills' \in 0 .. Kills
    BY <1>t, <1>1, RecordAssumption DEF RecordTypeOK
  <2> QED BY <1>t, <1>1, <1>2, <1>3, <2>1, <2>2 DEF RecordTypeOK, States
<1>5. SectionInv'
  <2>1. \A e \in Drivers : loaded'[e] # "out" => section'
    BY <1>1, <1>3
  <2>2. Reading' => section' /\ Reading
    BY <1>1 DEF Reading
  <2>3. header' => section'
    BY <1>1
  <2>4. Reading' => header'
    BY <1>t, <1>1, <2>2 DEF SectionInv
  <2>5. ASSUME NEW e \in Drivers
        PROVE  /\ loaded'[e] = "publishing" => header'
               /\ loaded'[e] = "created" => ~header' /\ loaded[e] = "created"
    <3>1. loaded'[e] # "out" => loaded'[e] = loaded[e]
      BY <1>3
    <3> QED BY <1>t, <1>1, <2>1, <3>1 DEF SectionInv
  <2>6. ASSUME NEW e \in Drivers, NEW t \in Threads, writing'[e][t] # "idle"
        PROVE  loaded'[e] = "publishing"
    BY <1>t, <1>2, <1>3, <2>6 DEF SectionInv
  <2> QED BY <1>t, <2>1, <2>3, <2>4, <2>5, <2>6 DEF SectionInv
<1>6. GateInv'
  BY <1>t, <1>1, <1>2 DEF GateInv, Holding
<1>7. CopyInv'
  BY <1>t, <1>1 DEF CopyInv
<1> QED BY <1>4, <1>5, <1>6, <1>7 DEF RecordInv

\* A thread takes the gate.
LEMMA TakeGateStep ==
    ASSUME RecordInv, NEW d \in Drivers, NEW t \in Threads, TakeGate(d, t)
    PROVE  RecordInv'
<1>t. RecordTypeOK /\ SectionInv /\ GateInv /\ CopyInv
  BY DEF RecordInv
<1>1. /\ UNCHANGED <<section, header, sequence, half, current, kills, loaded, reader,
                     attempt, before, copy, newest>>
      /\ gate' = TRUE /\ writes' = writes + 1 /\ writes < Writes /\ ~gate
      /\ loaded[d] = "publishing"
  BY DEF TakeGate, readVars, GateOpen
<1>2. /\ writing' \in [Drivers -> [Threads -> States]]
      /\ \A e \in Drivers, u \in Threads :
            writing'[e][u] = IF e = d /\ u = t THEN "gated" ELSE writing[e][u]
  BY <1>t, StepFacts DEF TakeGate, States
<1>3. /\ IsEven(sequence)
      /\ \A e \in Drivers, u \in Threads : writing[e][u] \notin Holding
  BY <1>t, <1>1 DEF GateInv
<1>4. RecordTypeOK'
  <2>1. writes' \in 0 .. Writes
    BY <1>t, <1>1, RecordTypes
  <2> QED BY <1>t, <1>1, <1>2, <2>1 DEF RecordTypeOK, States
<1>5. SectionInv'
  BY <1>t, <1>1, <1>2 DEF SectionInv, Reading
<1>6. GateInv'
  <2>1. sequence' + 2 <= 2 * writes' /\ sequence' <= 2 * writes'
    <3>1. sequence \in Nat /\ writes \in Nat /\ sequence <= 2 * writes
      BY <1>t, RecordTypes DEF GateInv
    <3> QED BY <1>1, <3>1
  <2>2. \A e \in Drivers, u \in Threads :
           writing'[e][u] \in Holding => e = d /\ u = t /\ writing'[e][u] = "gated"
    BY <1>2, <1>3
  <2>3. IsEven(sequence') /\ half'[1] = current' /\ half'[2] = current'
    BY <1>t, <1>1, <1>3 DEF GateInv
  <2> QED BY <1>1, <2>1, <2>2, <2>3 DEF GateInv, Holding
<1>7. CopyInv'
  BY <1>t, <1>1 DEF CopyInv
<1> QED BY <1>4, <1>5, <1>6, <1>7 DEF RecordInv

\* The number goes odd, and even again.
LEMMA SequenceStep ==
    ASSUME RecordInv, NEW d \in Drivers, NEW t \in Threads,
           BeginWrite(d, t) \/ EndWrite(d, t)
    PROVE  RecordInv'
<1>t. RecordTypeOK /\ SectionInv /\ GateInv /\ CopyInv
  BY DEF RecordInv
<1> DEFINE to == IF BeginWrite(d, t) THEN "odd" ELSE "even"
<1>1. /\ UNCHANGED <<section, header, gate, half, writes, kills, loaded, reader,
                     attempt, before, copy, newest>>
      /\ sequence' = sequence + 1
      /\ current' = current \/ current' = writes
  BY DEF BeginWrite, EndWrite, readVars
<1>2. /\ writing[d][t] \in {"gated", "whole"} /\ to \in {"odd", "even"}
      /\ to = "odd" => writing[d][t] = "gated" /\ current' = current
      /\ to = "even" => writing[d][t] = "whole" /\ current' = writes
      /\ writing' \in [Drivers -> [Threads -> States]]
      /\ \A e \in Drivers, u \in Threads :
            writing'[e][u] = IF e = d /\ u = t THEN to ELSE writing[e][u]
  <2>1. CASE BeginWrite(d, t)
    BY <1>t, <2>1, StepFacts DEF BeginWrite, States
  <2>2. CASE ~BeginWrite(d, t)
    BY <1>t, <2>2, StepFacts DEF EndWrite, States
  <2> QED BY <2>1, <2>2
<1> HIDE DEF to
<1>3. /\ sequence \in Nat /\ writes \in Nat /\ writes <= Writes /\ Writes \in Nat
      /\ gate
      /\ sequence + 1 <= 2 * writes
      /\ writing[d][t] = "gated" => sequence + 2 <= 2 * writes /\ IsEven(sequence)
      /\ writing[d][t] = "whole" => /\ half[1] = writes /\ half[2] = writes
                                    /\ ~IsEven(sequence)
  <2>1. sequence \in Nat /\ writes \in Nat /\ writes <= Writes /\ Writes \in Nat
    BY <1>t, RecordTypes
  <2>2. /\ gate
        /\ writing[d][t] = "gated" => sequence + 2 <= 2 * writes /\ IsEven(sequence)
        /\ writing[d][t] = "whole" => /\ half[1] = writes /\ half[2] = writes
                                      /\ ~IsEven(sequence)
                                      /\ sequence + 1 <= 2 * writes
    BY <1>t, <1>2 DEF GateInv, Holding
  <2>3. sequence + 1 <= 2 * writes
    BY <1>2, <2>1, <2>2
  <2> QED BY <2>1, <2>2, <2>3
<1>4. IsEven(sequence') <=> ~IsEven(sequence)
  BY <1>1, <1>3, Parity
<1>5. sequence' \in Nat /\ sequence' <= 2 * writes
      /\ (to = "odd" => sequence' + 1 <= 2 * writes)
  BY <1>1, <1>2, <1>3
<1>6. RecordTypeOK'
  <2>1. sequence' \in 0 .. 2 * Writes
    BY <1>1, <1>3
  <2>2. current' \in 0 .. Writes
    BY <1>t, <1>1, <1>3, RecordTypes
  <2> QED BY <1>t, <1>1, <1>2, <2>1, <2>2 DEF RecordTypeOK, States
<1>7. SectionInv'
  BY <1>t, <1>1, <1>2 DEF SectionInv, Reading
<1>8. GateInv'
  <2>1. \A e \in Drivers, u \in Threads :
           /\ writing[e][u] \in Holding => e = d /\ u = t
           /\ writing'[e][u] \in Holding =>
                e = d /\ u = t /\ writing'[e][u] = to
    BY <1>t, <1>2 DEF GateInv, Holding
  <2>2. /\ to = "odd" => ~IsEven(sequence')
        /\ to = "even" => /\ IsEven(sequence')
                          /\ half'[1] = current' /\ half'[2] = current'
    BY <1>1, <1>2, <1>3, <1>4
  <2>3. IsEven(sequence') => to = "even"
    BY <1>2, <2>2
  <2> QED BY <1>1, <1>2, <1>3, <1>5, <2>1, <2>2, <2>3 DEF GateInv, Holding
<1>9. CopyInv'
  <2>1. before \in Nat
    BY <1>t, RecordTypes
  <2>2. before <= sequence => before <= sequence' /\ before # sequence'
    BY <1>1, <1>3, <2>1
  <2> QED BY <1>t, <1>1, <2>2 DEF CopyInv
<1> QED BY <1>6, <1>7, <1>8, <1>9 DEF RecordInv

\* Half of the area is written, while the number is odd.
LEMMA HalfStep ==
    ASSUME RecordInv, NEW d \in Drivers, NEW t \in Threads, WriteHalf(d, t)
    PROVE  RecordInv'
<1>t. RecordTypeOK /\ SectionInv /\ GateInv /\ CopyInv
  BY DEF RecordInv
<1>1. UNCHANGED <<section, header, gate, sequence, current, writes, kills, loaded,
                  reader, attempt, before, copy, newest>>
  BY DEF WriteHalf, readVars
<1> DEFINE to == IF writing[d][t] = "odd" THEN "torn" ELSE "whole"
<1>2. /\ writing[d][t] \in {"odd", "torn"} /\ to \in {"torn", "whole"}
      /\ writing' \in [Drivers -> [Threads -> States]]
      /\ \A e \in Drivers, u \in Threads :
            writing'[e][u] = IF e = d /\ u = t THEN to ELSE writing[e][u]
      /\ half' = [half EXCEPT ![IF writing[d][t] = "odd" THEN 1 ELSE 2] = writes]
  <2>1. CASE writing[d][t] = "odd"
    <3>1. Step(d, t, "odd", "torn") /\ half' = [half EXCEPT ![1] = writes]
      BY <2>1 DEF WriteHalf, Step
    <3> QED BY <1>t, <2>1, <3>1, StepFacts DEF States
  <2>2. CASE writing[d][t] # "odd"
    <3>1. Step(d, t, "torn", "whole") /\ half' = [half EXCEPT ![2] = writes]
      BY <2>2 DEF WriteHalf, Step
    <3> QED BY <1>t, <2>2, <3>1, StepFacts DEF States
  <2> QED BY <2>1, <2>2
<1>3. /\ half' \in [1 .. 2 -> 0 .. Writes]
      /\ writing[d][t] = "odd" => half'[1] = writes
      /\ writing[d][t] = "torn" => half'[1] = half[1] /\ half'[2] = writes
  <2>1. writes \in 0 .. Writes /\ half \in [1 .. 2 -> 0 .. Writes]
    BY <1>t, RecordTypes
  <2> QED BY <1>2, <2>1
<1>4. /\ ~IsEven(sequence) /\ gate /\ sequence + 1 <= 2 * writes
      /\ writing[d][t] = "torn" => half[1] = writes
  BY <1>t, <1>2 DEF GateInv, Holding
<1> HIDE DEF to
<1>5. RecordTypeOK'
  BY <1>t, <1>1, <1>2, <1>3 DEF RecordTypeOK, States
<1>6. SectionInv'
  BY <1>t, <1>1, <1>2 DEF SectionInv, Reading
<1>7. GateInv'
  <2>1. \A e \in Drivers, u \in Threads :
           writing'[e][u] \in Holding => e = d /\ u = t /\ writing'[e][u] = to
    BY <1>t, <1>2 DEF GateInv, Holding
  <2>2. /\ half'[1] = writes
        /\ to = "whole" => half'[2] = writes
    BY <1>2, <1>3, <1>4 DEF to
  <2> QED BY <1>t, <1>1, <1>2, <1>4, <2>1, <2>2 DEF GateInv, Holding
<1>8. CopyInv'
  BY <1>t, <1>1, <1>4 DEF CopyInv
<1> QED BY <1>5, <1>6, <1>7, <1>8 DEF RecordInv

\* The gate is let go.
LEMMA FreeGateStep ==
    ASSUME RecordInv, NEW d \in Drivers, NEW t \in Threads, FreeGate(d, t)
    PROVE  RecordInv'
<1>t. RecordTypeOK /\ SectionInv /\ GateInv /\ CopyInv
  BY DEF RecordInv
<1>1. /\ UNCHANGED <<section, header, sequence, half, current, writes, kills, loaded,
                     reader, attempt, before, copy, newest>>
      /\ gate' = FALSE
  BY DEF FreeGate, readVars
<1>2. /\ writing[d][t] = "even"
      /\ writing' \in [Drivers -> [Threads -> States]]
      /\ \A e \in Drivers, u \in Threads :
            writing'[e][u] = IF e = d /\ u = t THEN "idle" ELSE writing[e][u]
  BY <1>t, StepFacts DEF FreeGate, States
<1>3. RecordTypeOK'
  BY <1>t, <1>1, <1>2 DEF RecordTypeOK, States
<1>4. SectionInv'
  BY <1>t, <1>1, <1>2 DEF SectionInv, Reading
<1>5. GateInv'
  <2>1. \A e \in Drivers, u \in Threads : writing'[e][u] \notin Holding
    BY <1>t, <1>2 DEF GateInv, Holding
  <2>2. IsEven(sequence)
    BY <1>t, <1>2 DEF GateInv
  <2> QED BY <1>t, <1>1, <2>1, <2>2 DEF GateInv, Holding
<1>6. CopyInv'
  BY <1>t, <1>1 DEF CopyInv
<1> QED BY <1>3, <1>4, <1>5, <1>6 DEF RecordInv

LEMMA RecordAlways == RecordSpec => []RecordInv
<1>1. ASSUME RecordInv, [RecordNext]_recordVars
      PROVE  RecordInv'
  <2>1. CASE UNCHANGED recordVars
    BY <1>1, <2>1 DEF RecordInv, RecordTypeOK, SectionInv, GateInv, CopyInv,
                      Reading, recordVars
  <2>2. ASSUME NEW d \in Drivers,
               \/ Load(d) \/ WriteHeader(d) \/ CheckHeader(d) \/ Unload(d)
               \/ Wants(d) \/ Skip(d)
        PROVE  RecordInv'
    BY <1>1, <2>1, <2>2, LoadStep, HeaderStep, CheckStep, UnloadStep DEF Skip
  <2>3. ASSUME NEW d \in Drivers, NEW t \in Threads, Update(d, t)
        PROVE  RecordInv'
    BY <1>1, <2>3, TakeGateStep, SequenceStep, HalfStep, FreeGateStep DEF Update
  <2> QED BY <1>1, <2>1, <2>2, <2>3, ReaderStep DEF RecordNext
<1> QED BY <1>1, RecordStart, PTL DEF RecordSpec

\* A read tells one write whole, and none from before it began, however many
\* drivers write the record, come, go and are killed meanwhile (read.rs,
\* read_watching).
THEOREM ReadsWhole == RecordSpec => []ReadsAreWhole
<1>1. RecordInv => ReadsAreWhole
  BY RecordTypes DEF RecordInv, CopyInv, ReadsAreWhole
<1> QED BY <1>1, RecordAlways, PTL
-----------------------------------------------------------------------------
(* The callbacks: what is left of a device that was declared gone.           *)

\* A block from before its follower was declared gone is in a ring.
IsIn(age, ring) == \E i \in 1 .. Len(ring) : ring[i] = age

\* Those that wait to be played were all made before any that is new, and there
\* were no more than the ring has places for.
OldOutInv ==
    /\ lateOut <= RingBlocks
    /\ \A i \in 1 .. Len(outRing) : outRing[i] = "old" => lateOut + i <= RingBlocks

\* The looks that found the follower calling back, with the one to come.
Counted == moving + IF called THEN 1 ELSE 0

\* Where three callbacks have to be counted before a follower is trusted again:
\* while there is an old block to play, one at most was counted that began before
\* it was declared gone, and one that has yet to look whether it is muted, or
\* looked and is; but one block may have been about to be played.
GoneOutInv ==
    /\ mute = stalled
    /\ lateOut \in {0, 1}
    /\ IsIn("old", outRing) =>
         /\ stalled
         /\ Counted <= 2
         /\ follower \in {"out", "handing"} \/ (follower = "playing" /\ ~muted)
               => Counted <= 1
         /\ follower = "playing" /\ ~muted => lateOut = 0

\* A look that misses the follower starts its coming back anew.
MissedInv == missed > 0 => moving = 0

\* One old block at most is heard, waits or is about to be handed over.
GoneInInv ==
    /\ lateIn \in {0, 1}
    /\ hears = "old" /\ follower # "out" => ~IsIn("old", inRing) /\ lateIn = 0
    /\ IsIn("old", inRing) => lateIn = 0
    /\ \A i, j \in 1 .. Len(inRing) :
          inRing[i] = "old" /\ inRing[j] = "old" => i = j

StreamInv ==
    StreamTypeOK /\ OldOutInv /\ GoneInInv /\ MissedInv /\ (RecoverAfter >= 3 => GoneOutInv)

LEMMA StreamTypes ==
    ASSUME StreamTypeOK
    PROVE  /\ missed \in 0 .. StallAfter /\ moving \in 0 .. RecoverAfter
           /\ inRing \in Seq(Ages) /\ outRing \in Seq(Ages)
           /\ Len(inRing) \in Nat /\ Len(outRing) \in Nat
           /\ Len(inRing) <= RingBlocks /\ Len(outRing) <= RingBlocks
           /\ lateOut \in 0 .. RingBlocks + 1 /\ lateIn \in 0 .. RingBlocks + 1
           /\ RingBlocks \in Nat \ {0} /\ StallAfter \in Nat \ {0}
           /\ RecoverAfter \in Nat \ {0}
<1>1. /\ missed \in 0 .. StallAfter /\ moving \in 0 .. RecoverAfter
      /\ inRing \in Seq(Ages) /\ outRing \in Seq(Ages)
      /\ Len(inRing) <= RingBlocks /\ Len(outRing) <= RingBlocks
      /\ lateOut \in 0 .. RingBlocks + 1 /\ lateIn \in 0 .. RingBlocks + 1
  BY DEF StreamTypeOK
<1> QED BY <1>1, StreamAssumption

\* A push adds at the end, and only what is pushed.
LEMMA PushFacts ==
    ASSUME NEW ring \in Seq(Ages), Len(ring) <= RingBlocks, NEW age \in Ages
    PROVE  /\ Pushed(ring, age) \in Seq(Ages) /\ Len(Pushed(ring, age)) <= RingBlocks
           /\ \A i \in 1 .. Len(Pushed(ring, age)) :
                 \/ i \in 1 .. Len(ring) /\ Pushed(ring, age)[i] = ring[i]
                 \/ i = Len(ring) + 1 /\ Pushed(ring, age)[i] = age
<1>1. CASE Len(ring) < RingBlocks
  <2>1. /\ Append(ring, age) \in Seq(Ages)
        /\ Len(Append(ring, age)) = Len(ring) + 1
        /\ \A i \in 1 .. Len(ring) + 1 :
              Append(ring, age)[i] = IF i <= Len(ring) THEN ring[i] ELSE age
    OBVIOUS
  <2>2. Len(ring) \in Nat /\ RingBlocks \in Nat
    BY StreamAssumption
  <2> QED BY <1>1, <2>1, <2>2 DEF Pushed
<1>2. CASE ~(Len(ring) < RingBlocks)
  BY <1>2 DEF Pushed
<1> QED BY <1>1, <1>2

\* What is left of a ring is what came after its oldest block.
LEMMA PopFacts ==
    ASSUME NEW ring \in Seq(Ages), Len(ring) <= RingBlocks
    PROVE  /\ Popped(ring) \in Seq(Ages) /\ Len(Popped(ring)) <= RingBlocks
           /\ \A i \in 1 .. Len(Popped(ring)) :
                 i + 1 \in 1 .. Len(ring) /\ Popped(ring)[i] = ring[i + 1]
           /\ Older(ring) \in {0, 1}
           /\ Older(ring) = 1 => 1 \in 1 .. Len(ring) /\ ring[1] = "old"
<1>1. CASE ring = <<>>
  BY <1>1 DEF Popped, Older
<1>2. CASE ring # <<>>
  <2>1. /\ Tail(ring) \in Seq(Ages) /\ Len(Tail(ring)) = Len(ring) - 1
        /\ \A i \in 1 .. Len(ring) - 1 : Tail(ring)[i] = ring[i + 1]
        /\ Len(ring) \in Nat \ {0} /\ Head(ring) = ring[1]
    BY <1>2
  <2>2. RingBlocks \in Nat
    BY StreamAssumption
  <2> QED BY <1>2, <2>1, <2>2 DEF Popped, Older
<1> QED BY <1>1, <1>2

LEMMA AgedFacts ==
    ASSUME NEW ring \in Seq(Ages)
    PROVE  Aged(ring) \in Seq(Ages) /\ Len(Aged(ring)) = Len(ring)
<1>1. DOMAIN ring = 1 .. Len(ring) /\ Len(ring) \in Nat
  OBVIOUS
<1> QED BY <1>1 DEF Aged, Ages

LEMMA StreamStart == StreamInit => StreamInv
<1> SUFFICES ASSUME StreamInit
             PROVE  StreamInv
  OBVIOUS
<1>1. /\ <<>> \in Seq(Ages) /\ Len(<<>>) = 0
      /\ 0 \in 0 .. StallAfter /\ 0 \in 0 .. RecoverAfter
      /\ 0 \in 0 .. RingBlocks + 1 /\ 0 <= RingBlocks
  BY StreamAssumption
<1>2. StreamTypeOK
  <2>1. /\ running \in BOOLEAN /\ stalled \in BOOLEAN /\ mute \in BOOLEAN
        /\ called \in BOOLEAN /\ muted \in BOOLEAN
    BY DEF StreamInit
  <2>2. hears \in Ages /\ {lateOut, lateIn} \subseteq 0 .. RingBlocks + 1
    BY <1>1 DEF StreamInit, Ages
  <2> QED BY <1>1, <2>1, <2>2 DEF StreamInit, StreamTypeOK
<1>3. ~IsIn("old", inRing) /\ ~IsIn("old", outRing) /\ 1 .. Len(inRing) = {}
  BY <1>1 DEF StreamInit, IsIn
<1>4. lateOut = 0 /\ Len(outRing) = 0 /\ RingBlocks \in Nat
  BY StreamAssumption DEF StreamInit
<1>5. OldOutInv
  BY <1>4 DEF OldOutInv
<1> QED BY <1>2, <1>3, <1>5 DEF StreamInit, StreamInv, GoneOutInv, GoneInInv, MissedInv

\* The audio is let through or halted: nothing else changes.
LEMMA HaltStep ==
    ASSUME StreamInv, RunOrHalt
    PROVE  StreamInv'
<1>1. UNCHANGED <<stalled, mute, called, missed, moving, inRing, outRing,
                  follower, muted, hears, master, lateOut, lateIn>>
      /\ running' \in BOOLEAN
  BY DEF RunOrHalt
<1>2. StreamTypeOK'
  BY <1>1 DEF StreamInv, StreamTypeOK
<1>3. OldOutInv' /\ GoneInInv' /\ MissedInv' /\ (RecoverAfter >= 3 => GoneOutInv')
  BY <1>1 DEF StreamInv, OldOutInv, GoneOutInv, Counted, GoneInInv, MissedInv, IsIn
<1> QED BY <1>2, <1>3 DEF StreamInv

\* The follower's callback.
LEMMA FollowerStep ==
    ASSUME StreamInv, FollowerCallback
    PROVE  StreamInv'
<1>t. StreamTypeOK /\ OldOutInv /\ GoneInInv /\ MissedInv /\ (RecoverAfter >= 3 => GoneOutInv)
  BY DEF StreamInv
<1>s. /\ inRing \in Seq(Ages) /\ outRing \in Seq(Ages)
      /\ Len(inRing) \in Nat /\ Len(outRing) \in Nat
      /\ Len(inRing) <= RingBlocks /\ Len(outRing) <= RingBlocks
  BY <1>t, StreamTypes
<1>m. MissedInv'
  BY <1>t DEF FollowerCallback, FollowerCalls, LooksMuted, Plays, HandsOver, MissedInv
<1>1. CASE FollowerCalls
  <2>1. StreamTypeOK'
    BY <1>t, <1>1 DEF FollowerCalls, StreamTypeOK, Ages
  <2>2. ASSUME RecoverAfter >= 3 PROVE GoneOutInv'
    <3>1. GoneOutInv
      BY <1>t, <2>2
    <3>2. /\ follower = "out" /\ follower' = "called"
          /\ UNCHANGED <<stalled, mute, moving, outRing, lateOut>>
      BY <1>1 DEF FollowerCalls
    <3>3. moving \in Nat /\ called' = TRUE
      BY <1>t, <1>1, StreamTypes DEF FollowerCalls
    <3>4. Counted <= 1 => Counted' <= 2
      BY <3>2, <3>3 DEF Counted
    <3> QED BY <3>1, <3>2, <3>4 DEF GoneOutInv, IsIn
  <2>4. OldOutInv'
    BY <1>t, <1>1 DEF FollowerCalls, OldOutInv
  <2>3. GoneInInv'
    BY <1>t, <1>1 DEF FollowerCalls, GoneInInv, IsIn
  <2> QED BY <1>m, <2>1, <2>2, <2>3, <2>4 DEF StreamInv
<1>2. CASE LooksMuted
  <2>1. StreamTypeOK'
    BY <1>t, <1>2 DEF LooksMuted, StreamTypeOK
  <2>u. /\ UNCHANGED <<running, stalled, mute, called, missed, moving, outRing,
                       inRing, hears, master, lateOut, lateIn>>
        /\ follower = "called" /\ follower' = "playing"
        /\ muted' = (mute \/ ~running)
    BY <1>2 DEF LooksMuted
  <2>2. ASSUME RecoverAfter >= 3 PROVE GoneOutInv'
    <3>1. GoneOutInv
      BY <1>t, <2>2
    <3> QED BY <2>u, <3>1 DEF GoneOutInv, Counted, IsIn
  <2>4. OldOutInv'
    BY <1>t, <1>2 DEF LooksMuted, OldOutInv
  <2>3. GoneInInv'
    BY <1>t, <1>2 DEF LooksMuted, GoneInInv, IsIn
  <2> QED BY <1>m, <2>1, <2>2, <2>3, <2>4 DEF StreamInv
<1>3. CASE Plays
  <2>u. UNCHANGED <<running, stalled, mute, called, missed, moving, inRing,
                    muted, hears, master, lateIn>>
    BY <1>3 DEF Plays
  <2>1. GoneInInv'
    BY <1>t, <1>3 DEF Plays, GoneInInv, IsIn
  <2>2. CASE muted
    <3>1. outRing' = <<>> /\ lateOut' = lateOut /\ follower' = "handing"
      BY <1>3, <2>2 DEF Plays, Kept
    <3>2. ~IsIn("old", outRing')
      BY <3>1 DEF IsIn
    <3>3. ASSUME RecoverAfter >= 3 PROVE GoneOutInv'
      <4>1. /\ mute' = stalled' /\ lateOut' \in {0, 1}
            /\ ~IsIn("old", outRing)'
        BY <1>t, <2>u, <3>1, <3>2, <3>3 DEF GoneOutInv, Counted, IsIn
      <4> QED BY <4>1 DEF GoneOutInv, Counted
    <3>6. OldOutInv'
      BY <1>t, <3>1 DEF OldOutInv
    <3>4. outRing' \in Seq(Ages) /\ Len(outRing') <= RingBlocks
      BY <3>1, StreamAssumption
    <3>5. StreamTypeOK'
      BY <1>t, <2>u, <3>1, <3>4 DEF StreamTypeOK
    <3> QED BY <1>m, <2>1, <3>3, <3>5, <3>6 DEF StreamInv
  <2>3. CASE ~muted
    <3>1. /\ outRing' = Popped(outRing) /\ lateOut' = lateOut + Older(outRing)
          /\ follower = "playing" /\ follower' = "handing"
      BY <1>3, <2>3 DEF Plays
    <3>2. /\ Popped(outRing) \in Seq(Ages) /\ Len(Popped(outRing)) <= RingBlocks
          /\ \A i \in 1 .. Len(Popped(outRing)) :
                i + 1 \in 1 .. Len(outRing) /\ Popped(outRing)[i] = outRing[i + 1]
          /\ Older(outRing) \in {0, 1}
          /\ Older(outRing) = 1 => 1 \in 1 .. Len(outRing) /\ outRing[1] = "old"
      BY <1>s, PopFacts
    <3>3. IsIn("old", outRing)' => IsIn("old", outRing)
      BY <3>1, <3>2 DEF IsIn
    <3>4. ASSUME RecoverAfter >= 3 PROVE GoneOutInv'
      <4>1. Older(outRing) = 1 => lateOut = 0
        BY <1>t, <2>3, <3>1, <3>2, <3>4 DEF GoneOutInv, Counted, IsIn
      <4>2. lateOut' \in {0, 1}
        BY <1>t, <3>1, <3>2, <3>4, <4>1 DEF GoneOutInv, Counted
      <4> QED BY <1>t, <2>u, <2>3, <3>1, <3>3, <3>4, <4>2 DEF GoneOutInv, Counted
    <3>5. lateOut \in Nat /\ RingBlocks \in Nat
      BY <1>t, StreamTypes
    <3>6. OldOutInv'
      <4>1. lateOut' <= RingBlocks
        BY <1>t, <3>1, <3>2, <3>5 DEF OldOutInv
      <4>2. ASSUME NEW i \in 1 .. Len(outRing'), outRing'[i] = "old"
            PROVE  lateOut' + i <= RingBlocks
        <5>1. i + 1 \in 1 .. Len(outRing) /\ outRing[i + 1] = "old" /\ i \in Int
          BY <3>1, <3>2, <4>2
        <5>2. lateOut + (i + 1) <= RingBlocks
          BY <1>t, <5>1 DEF OldOutInv
        <5> QED BY <3>1, <3>2, <3>5, <5>1, <5>2
      <4> QED BY <4>1, <4>2 DEF OldOutInv
    <3>7. lateOut' \in 0 .. RingBlocks + 1
      BY <3>1, <3>2, <3>5, <3>6 DEF OldOutInv
    <3>8. StreamTypeOK'
      BY <1>t, <2>u, <3>1, <3>2, <3>7 DEF StreamTypeOK
    <3> QED BY <1>m, <2>1, <3>4, <3>6, <3>8 DEF StreamInv
  <2> QED BY <2>2, <2>3
<1>4. CASE HandsOver
  <2>u. /\ UNCHANGED <<running, stalled, mute, called, missed, moving, outRing,
                       muted, hears, master, lateOut, lateIn>>
        /\ follower = "handing" /\ follower' = "out"
        /\ inRing' \in {inRing, Pushed(inRing, hears)}
    BY <1>4 DEF HandsOver
  <2>h. hears \in Ages
    BY <1>t DEF StreamTypeOK
  <2>p. /\ Pushed(inRing, hears) \in Seq(Ages)
        /\ Len(Pushed(inRing, hears)) <= RingBlocks
        /\ \A i \in 1 .. Len(Pushed(inRing, hears)) :
              \/ i \in 1 .. Len(inRing) /\ Pushed(inRing, hears)[i] = inRing[i]
              \/ i = Len(inRing) + 1 /\ Pushed(inRing, hears)[i] = hears
    BY <1>s, <2>h, PushFacts
  <2>1. StreamTypeOK'
    BY <1>t, <2>u, <2>p DEF StreamTypeOK
  <2>2. OldOutInv' /\ (RecoverAfter >= 3 => GoneOutInv')
    BY <1>t, <2>u DEF OldOutInv, GoneOutInv, Counted, IsIn
  <2>3. GoneInInv'
    <3>1. CASE inRing' = inRing
      BY <1>t, <2>u, <3>1 DEF GoneInInv, IsIn
    <3>2. CASE inRing' = Pushed(inRing, hears) /\ hears = "old"
      <4>1. ~IsIn("old", inRing) /\ lateIn = 0
        BY <1>t, <2>u, <3>2 DEF GoneInInv
      <4>2. \A i \in 1 .. Len(inRing') : inRing'[i] = "old" => i = Len(inRing) + 1
        BY <2>p, <3>2, <4>1 DEF IsIn
      <4> QED BY <2>u, <4>1, <4>2 DEF GoneInInv
    <3>3. CASE inRing' = Pushed(inRing, hears) /\ hears # "old"
      <4>1. \A i \in 1 .. Len(inRing') :
               inRing'[i] = "old" => i \in 1 .. Len(inRing) /\ inRing[i] = "old"
        BY <2>p, <3>3
      <4>2. IsIn("old", inRing)' => IsIn("old", inRing)
        BY <4>1 DEF IsIn
      <4>3. \A i, j \in 1 .. Len(inRing') :
               inRing'[i] = "old" /\ inRing'[j] = "old" => i = j
        BY <1>t, <4>1 DEF GoneInInv
      <4> QED BY <1>t, <2>u, <3>3, <4>2, <4>3 DEF GoneInInv
    <3> QED BY <2>u, <3>1, <3>2, <3>3
  <2> QED BY <1>m, <2>1, <2>2, <2>3 DEF StreamInv
<1> QED BY <1>1, <1>2, <1>3, <1>4 DEF FollowerCallback
\* The master's callback, up to what it makes of the follower.
LEMMA BlockStep ==
    ASSUME StreamInv, MasterCalls \/ Gather \/ Scatter
    PROVE  StreamInv'
<1>t. StreamTypeOK /\ OldOutInv /\ GoneInInv /\ MissedInv /\ (RecoverAfter >= 3 => GoneOutInv)
  BY DEF StreamInv
<1>s. /\ inRing \in Seq(Ages) /\ outRing \in Seq(Ages)
      /\ Len(inRing) \in Nat /\ Len(outRing) \in Nat
      /\ Len(inRing) <= RingBlocks /\ Len(outRing) <= RingBlocks
  BY <1>t, StreamTypes
<1>u. UNCHANGED <<running, stalled, mute, called, missed, moving, follower,
                  muted, hears, lateOut>>
      /\ master' \in {"out", "gather", "scatter", "watch"}
  BY DEF MasterCalls, Gather, Scatter
<1>m. MissedInv'
  BY <1>t, <1>u DEF MissedInv
<1>1. CASE MasterCalls
  <2>1. UNCHANGED <<inRing, outRing, lateIn>>
    BY <1>1 DEF MasterCalls
  <2>2. StreamTypeOK'
    BY <1>t, <1>u, <2>1 DEF StreamTypeOK
  <2> QED BY <1>t, <1>m, <1>u, <2>1, <2>2 DEF StreamInv, OldOutInv, GoneOutInv, Counted, GoneInInv, IsIn
<1>2. CASE Gather
  <2>1. /\ outRing' = outRing
        /\ \/ UNCHANGED <<inRing, lateIn>>
           \/ inRing' = Popped(inRing) /\ lateIn' = lateIn + Older(inRing)
    BY <1>2 DEF Gather
  <2>2. OldOutInv' /\ (RecoverAfter >= 3 => GoneOutInv')
    BY <1>t, <1>u, <2>1 DEF OldOutInv, GoneOutInv, Counted, IsIn
  <2>3. CASE UNCHANGED <<inRing, lateIn>>
    <3>1. StreamTypeOK'
      BY <1>t, <1>u, <2>1, <2>3 DEF StreamTypeOK
    <3>2. GoneInInv'
      BY <1>t, <1>u, <2>3 DEF GoneInInv, IsIn
    <3> QED BY <1>m, <2>2, <3>1, <3>2 DEF StreamInv
  <2>4. CASE inRing' = Popped(inRing) /\ lateIn' = lateIn + Older(inRing)
    <3>1. /\ inRing' \in Seq(Ages) /\ Len(inRing') <= RingBlocks
          /\ \A i \in 1 .. Len(inRing') :
                i + 1 \in 1 .. Len(inRing) /\ inRing'[i] = inRing[i + 1]
          /\ Older(inRing) \in {0, 1}
          /\ Older(inRing) = 1 => 1 \in 1 .. Len(inRing) /\ inRing[1] = "old"
      BY <1>s, <2>4, PopFacts
    <3>2. IsIn("old", inRing)' => IsIn("old", inRing)
      BY <3>1 DEF IsIn
    <3>3. ASSUME Older(inRing) = 1
          PROVE  ~IsIn("old", inRing)' /\ lateIn = 0
                 /\ ~(hears = "old" /\ follower # "out")
      <4>1. 1 \in 1 .. Len(inRing) /\ inRing[1] = "old"
        BY <3>1, <3>3
      <4>2. IsIn("old", inRing)
        BY <4>1 DEF IsIn
      <4>3. \A i \in 1 .. Len(inRing') : inRing'[i] # "old"
        BY <1>t, <3>1, <4>1 DEF GoneInInv
      <4> QED BY <1>t, <4>2, <4>3 DEF GoneInInv, IsIn
    <3>4. /\ lateIn' \in {0, 1}
          /\ lateIn' = 1 => lateIn = 1 \/ Older(inRing) = 1
      BY <1>t, <2>4, <3>1, <3>3 DEF GoneInInv
    <3>5. \A i, j \in 1 .. Len(inRing') :
             inRing'[i] = "old" /\ inRing'[j] = "old" => i = j
      <4> SUFFICES ASSUME NEW i \in 1 .. Len(inRing'), NEW j \in 1 .. Len(inRing'),
                          inRing'[i] = "old", inRing'[j] = "old"
                   PROVE  i = j
        OBVIOUS
      <4>1. /\ i + 1 \in 1 .. Len(inRing) /\ inRing[i + 1] = "old"
            /\ j + 1 \in 1 .. Len(inRing) /\ inRing[j + 1] = "old"
        BY <3>1
      <4>2. i + 1 = j + 1
        BY <1>t, <4>1 DEF GoneInInv
      <4>3. i \in Int /\ j \in Int
        OBVIOUS
      <4> QED BY <4>2, <4>3
    <3>6. GoneInInv'
      BY <1>t, <1>u, <3>2, <3>3, <3>4, <3>5 DEF GoneInInv
    <3>7. lateIn' \in 0 .. RingBlocks + 1
      BY <3>4, StreamAssumption
    <3>8. StreamTypeOK'
      BY <1>t, <1>u, <2>1, <3>1, <3>7 DEF StreamTypeOK
    <3> QED BY <1>m, <2>2, <3>6, <3>8 DEF StreamInv
  <2> QED BY <2>1, <2>3, <2>4
<1>3. CASE Scatter
  <2>1. /\ UNCHANGED <<inRing, lateIn>>
        /\ outRing' \in {outRing, Pushed(outRing, "new")}
    BY <1>3 DEF Scatter
  <2>2. /\ Pushed(outRing, "new") \in Seq(Ages)
        /\ Len(Pushed(outRing, "new")) <= RingBlocks
        /\ \A i \in 1 .. Len(Pushed(outRing, "new")) :
              \/ i \in 1 .. Len(outRing) /\ Pushed(outRing, "new")[i] = outRing[i]
              \/ i = Len(outRing) + 1 /\ Pushed(outRing, "new")[i] = "new"
    BY <1>s, PushFacts DEF Ages
  <2>3. IsIn("old", outRing)' => IsIn("old", outRing)
    BY <2>1, <2>2 DEF IsIn
  <2>4. RecoverAfter >= 3 => GoneOutInv'
    BY <1>t, <1>u, <2>3 DEF GoneOutInv, Counted
  <2>7. OldOutInv'
    <3>1. ASSUME NEW i \in 1 .. Len(outRing'), outRing'[i] = "old"
          PROVE  i \in 1 .. Len(outRing) /\ outRing[i] = "old"
      BY <2>1, <2>2, <3>1
    <3> QED BY <1>t, <1>u, <3>1 DEF OldOutInv
  <2>5. GoneInInv'
    BY <1>t, <1>u, <2>1 DEF GoneInInv, IsIn
  <2>6. StreamTypeOK'
    BY <1>t, <1>u, <2>1, <2>2 DEF StreamTypeOK
  <2> QED BY <1>m, <2>4, <2>5, <2>6, <2>7 DEF StreamInv
<1> QED BY <1>1, <1>2, <1>3

\* The master reads how often the follower has called back.
LEMMA LookStep ==
    ASSUME StreamInv, LooksForCalls
    PROVE  StreamInv'
<1>t. StreamTypeOK /\ OldOutInv /\ GoneInInv /\ MissedInv /\ (RecoverAfter >= 3 => GoneOutInv)
  BY DEF StreamInv
<1>s. /\ missed \in 0 .. StallAfter /\ moving \in 0 .. RecoverAfter
      /\ StallAfter \in Nat \ {0} /\ RecoverAfter \in Nat \ {0} /\ called \in BOOLEAN
  BY <1>t, StreamTypes DEF StreamTypeOK
<1>u. /\ called' = FALSE /\ missed' = Missed /\ moving' = Moving /\ master' = "says"
      /\ UNCHANGED <<running, stalled, mute, inRing, outRing, follower, muted, hears,
                     lateOut, lateIn>>
  BY DEF LooksForCalls
<1>m. /\ Missed \in 0 .. StallAfter /\ Moving \in 0 .. RecoverAfter
      /\ called => Missed = 0 /\ Moving <= moving + 1
      /\ ~called => Moving = 0
  BY <1>s DEF Missed, Moving
<1>1. StreamTypeOK'
  BY <1>t, <1>u, <1>m DEF StreamTypeOK
<1>2. OldOutInv' /\ GoneInInv'
  BY <1>t, <1>u DEF OldOutInv, GoneInInv, IsIn
<1>3. MissedInv'
  BY <1>s, <1>u, <1>m DEF MissedInv
<1>4. ASSUME RecoverAfter >= 3 PROVE GoneOutInv'
  <2>1. Counted' <= Counted /\ Counted' \in Nat /\ Counted \in Nat
    BY <1>s, <1>u, <1>m DEF Counted
  <2>2. GoneOutInv
    BY <1>t, <1>4
  <2>3. (Counted <= 2 => Counted' <= 2) /\ (Counted <= 1 => Counted' <= 1)
    BY <2>1
  <2> QED BY <1>u, <2>2, <2>3 DEF GoneOutInv, IsIn
<1> QED BY <1>1, <1>2, <1>3, <1>4 DEF StreamInv

\* The master says what it makes of the follower.
LEMMA WatchStep ==
    ASSUME StreamInv, WatchDevices
    PROVE  StreamInv'
<1>t. StreamTypeOK /\ OldOutInv /\ GoneInInv /\ MissedInv /\ (RecoverAfter >= 3 => GoneOutInv)
  BY DEF StreamInv
<1>s. /\ missed \in 0 .. StallAfter /\ moving \in 0 .. RecoverAfter
      /\ inRing \in Seq(Ages) /\ outRing \in Seq(Ages)
      /\ StallAfter \in Nat \ {0} /\ RecoverAfter \in Nat \ {0}
      /\ Len(outRing) <= RingBlocks /\ RingBlocks \in Nat
  BY <1>t, StreamTypes
<1>u. /\ master' = "out" /\ UNCHANGED <<running, called, missed, moving, follower, muted>>
      /\ DeclareGone \/ TrustAgain \/ Unchanged
  BY DEF WatchDevices
<1>m. MissedInv'
  BY <1>t, <1>u DEF MissedInv
<1>1. CASE DeclareGone
  <2>1. /\ stalled' = TRUE /\ mute' = TRUE /\ inRing' = <<>>
        /\ outRing' = Aged(outRing) /\ hears' = "old" /\ lateOut' = 0 /\ lateIn' = 0
        /\ missed >= StallAfter
    BY <1>1 DEF DeclareGone, IsGone, Dropped
  <2>2. moving = 0
    BY <1>t, <1>s, <2>1 DEF MissedInv
  <2>3. ~IsIn("old", inRing)' /\ 1 .. Len(inRing') = {}
    BY <2>1 DEF IsIn
  <2>4. GoneInInv'
    BY <2>1, <2>3 DEF GoneInInv
  <2>5. GoneOutInv'
    <3>1. Counted' <= 1 /\ Counted' <= 2
      BY <1>u, <2>2 DEF Counted
    <3> QED BY <2>1, <3>1 DEF GoneOutInv
  <2>6. Aged(outRing) \in Seq(Ages) /\ Len(Aged(outRing)) <= RingBlocks
    BY <1>s, AgedFacts
  <2>7. inRing' \in Seq(Ages) /\ Len(inRing') <= RingBlocks
        /\ 0 \in 0 .. RingBlocks + 1 /\ hears' \in Ages
    BY <1>s, <2>1 DEF Ages
  <2>8. StreamTypeOK'
    BY <1>t, <1>u, <2>1, <2>6, <2>7 DEF StreamTypeOK
  <2>9. OldOutInv'
    <3>1. Len(outRing') \in Nat /\ lateOut' = 0
      BY <2>1, <2>6
    <3> QED BY <1>s, <2>1, <2>6, <3>1 DEF OldOutInv
  <2> QED BY <1>m, <2>4, <2>5, <2>8, <2>9 DEF StreamInv
<1>2. CASE TrustAgain
  <2>1. /\ stalled' = FALSE /\ mute' = FALSE /\ moving >= RecoverAfter
        /\ UNCHANGED <<inRing, outRing, hears, lateOut, lateIn>>
    BY <1>2 DEF TrustAgain, Trusts
  <2>3. ASSUME RecoverAfter >= 3 PROVE GoneOutInv'
    <3>1. Counted >= 3
      BY <1>s, <2>1, <2>3 DEF Counted
    <3>2. Counted \in Nat
      BY <1>s DEF Counted
    <3>3. ~IsIn("old", outRing) /\ lateOut \in {0, 1}
      BY <1>t, <2>3, <3>1, <3>2 DEF GoneOutInv
    <3> QED BY <2>1, <3>3 DEF GoneOutInv, IsIn
  <2>6. OldOutInv'
    BY <1>t, <2>1 DEF OldOutInv
  <2>4. GoneInInv'
    BY <1>t, <1>u, <2>1 DEF GoneInInv, IsIn
  <2>5. StreamTypeOK'
    BY <1>t, <1>u, <2>1 DEF StreamTypeOK
  <2> QED BY <1>m, <2>3, <2>4, <2>5, <2>6 DEF StreamInv
<1>3. CASE Unchanged
  <2>1. UNCHANGED <<stalled, mute, inRing, outRing, hears, lateOut, lateIn>>
    BY <1>3 DEF Unchanged
  <2>2. RecoverAfter >= 3 => GoneOutInv'
    BY <1>t, <1>u, <2>1 DEF GoneOutInv, Counted, IsIn
  <2>5. OldOutInv'
    BY <1>t, <2>1 DEF OldOutInv
  <2>3. GoneInInv'
    BY <1>t, <1>u, <2>1 DEF GoneInInv, IsIn
  <2>4. StreamTypeOK'
    BY <1>t, <1>u, <2>1 DEF StreamTypeOK
  <2> QED BY <1>m, <2>2, <2>3, <2>4, <2>5 DEF StreamInv
<1> QED BY <1>u, <1>1, <1>2, <1>3

LEMMA StreamStep == StreamInv /\ [StreamNext]_streamVars => StreamInv'
<1> SUFFICES ASSUME StreamInv, [StreamNext]_streamVars
             PROVE  StreamInv'
  OBVIOUS
<1>1. CASE UNCHANGED streamVars
  <2>1. StreamTypeOK'
    BY <1>1 DEF StreamInv, StreamTypeOK, streamVars
  <2> QED BY <1>1, <2>1 DEF StreamInv, OldOutInv, GoneOutInv, Counted, GoneInInv, MissedInv, IsIn,
             streamVars
<1> QED BY <1>1, HaltStep, FollowerStep, BlockStep, LookStep, WatchStep DEF StreamNext, MasterCallback

LEMMA StreamAlways == StreamSpec => []StreamInv
  BY StreamStep, StreamStart, PTL DEF StreamSpec

\* For every size of the rings and every patience of the master: of what a device
\* handed over before it was declared gone, nothing is heard but the one block of a
\* callback under way; and as long as three callbacks have to be counted before it
\* is trusted again, nothing that was left for it is played when it is back, but
\* for the one block it was about to play (stream.rs, follower_callback and
\* watch_devices).
THEOREM NothingOld ==
    /\ StreamSpec => []NothingOldIsHeard
    /\ RecoverAfter >= 3 => (StreamSpec => []NothingOldComesBack)
<1>1. StreamSpec => []NothingOldIsHeard
  <2>1. StreamInv => NothingOldIsHeard
    BY DEF StreamInv, GoneInInv, NothingOldIsHeard
  <2> QED BY <2>1, StreamAlways, PTL
<1>2. ASSUME RecoverAfter >= 3
      PROVE  StreamSpec => []NothingOldComesBack
  <2>1. StreamInv => NothingOldComesBack
    BY <1>2 DEF StreamInv, GoneOutInv, GoneInInv, NothingOldComesBack, NothingOldIsHeard,
                NeverPlaysLate
  <2> QED BY <2>1, StreamAlways, PTL
<1> QED BY <1>1, <1>2

-----------------------------------------------------------------------------
(* Lining up: the longest of finitely many paths.                            *)

\* A smallest one among numbers.
LEMMA Smallest ==
    ASSUME NEW T \in SUBSET Nat, T # {}
    PROVE  \E n \in T : \A k \in T : n <= k
<1>1. PICK n \in T : \A k \in T : ~(<<k, n>> \in OpToRel(<, Nat))
  BY WFMin, NatLessThanWellFounded
<1>2. ASSUME NEW k \in T
      PROVE  n <= k
  <2>1. k \in Nat /\ n \in Nat
    OBVIOUS
  <2>2. <<k, n>> \in Nat \X Nat /\ <<k, n>>[1] = k /\ <<k, n>>[2] = n
    BY <2>1
  <2>3. ~(k < n)
    BY <1>1, <1>2, <2>2 DEF OpToRel
  <2> QED BY <2>1, <2>3
<1> QED BY <1>2

\* One of the paths of finitely many interfaces is the longest.
LEMMA OneIsLongest ==
    ASSUME NEW All, IsFiniteSet(All), NEW paths \in [All -> Int]
    PROVE  \A A \in SUBSET All :
              A # {} => \E i \in A : \A j \in A : paths[i] >= paths[j]
<1> DEFINE Unled(A) == A # {} /\ ~\E i \in A : \A j \in A : paths[i] >= paths[j]
           Sizes == {Cardinality(A) : A \in {B \in SUBSET All : Unled(B)}}
<1> SUFFICES ASSUME Sizes # {}
             PROVE  FALSE
  OBVIOUS
<1>1. \A A \in SUBSET All : IsFiniteSet(A) /\ Cardinality(A) \in Nat
  BY FS_Subset, FS_CardinalityType
<1>2. PICK n \in Sizes : \A k \in Sizes : n <= k
  <2>1. Sizes \in SUBSET Nat
    BY <1>1
  <2> HIDE DEF Sizes
  <2> QED BY <2>1, Smallest
<1>3. PICK A \in SUBSET All : Unled(A) /\ n = Cardinality(A)
  OBVIOUS
<1>4. PICK a \in A : TRUE
  BY <1>3
<1>5. A \ {a} \in SUBSET All /\ Cardinality(A \ {a}) = n - 1
  BY <1>1, <1>3, <1>4, FS_RemoveElement
<1>6. ~Unled(A \ {a})
  <2> SUFFICES ASSUME Unled(A \ {a})
               PROVE  FALSE
    OBVIOUS
  <2>1. n - 1 \in Sizes
    BY <1>5
  <2>2. n \in Nat
    BY <1>1, <1>3
  <2> QED BY <1>2, <2>1, <2>2
<1>7. CASE A \ {a} = {}
  <2>1. \A j \in A : j = a
    BY <1>7
  <2>2. paths[a] \in Int
    BY <1>3, <1>4
  <2> QED BY <1>3, <1>4, <2>1, <2>2
<1>8. CASE A \ {a} # {}
  <2>1. PICK b \in A \ {a} : \A j \in A \ {a} : paths[b] >= paths[j]
    BY <1>6, <1>8
  <2>2. \A j \in A : paths[j] \in Int
    BY <1>3
  <2>3. CASE paths[a] >= paths[b]
    <3>1. \A j \in A : paths[a] >= paths[j]
      BY <1>4, <2>1, <2>2, <2>3
    <3> QED BY <1>3, <1>4, <3>1
  <2>4. CASE ~(paths[a] >= paths[b])
    <3>1. \A j \in A : paths[b] >= paths[j]
      BY <1>4, <2>1, <2>2, <2>4
    <3> QED BY <1>3, <2>1, <3>1
  <2> QED BY <2>3, <2>4
<1> QED BY <1>7, <1>8

LEMMA InterfacesAreFinite == IsFiniteSet(Interfaces) /\ Master \in Interfaces
  BY PhaseAssumption, FS_AddElement DEF Interfaces

LEMMA LongestIs ==
    ASSUME NEW paths \in [Interfaces -> Int]
    PROVE  /\ Longest(paths) \in Int
           /\ \A i \in Interfaces : paths[i] <= Longest(paths)
           /\ \E i \in Interfaces : paths[i] = Longest(paths)
<1> DEFINE lengths == {paths[i] : i \in Interfaces}
<1>1. PICK i \in Interfaces : \A j \in Interfaces : paths[i] >= paths[j]
  BY InterfacesAreFinite, OneIsLongest
<1>2. \E x \in lengths : \A y \in lengths : x >= y
  BY <1>1
<1>3. Longest(paths) = CHOOSE x \in lengths : \A y \in lengths : x >= y
  BY DEF Longest, Max
<1>4. Longest(paths) \in lengths /\ \A y \in lengths : Longest(paths) >= y
  <2> HIDE DEF lengths
  <2> QED BY <1>2, <1>3, Zenon
<1>5. \A j \in Interfaces : paths[j] \in lengths /\ paths[j] \in Int
  OBVIOUS
<1> QED BY <1>4, <1>5

LEMMA PhaseNumbers ==
    Limit \in Nat /\ MasterPath \in Nat /\ Paths \in [Followers -> Nat]
  BY PhaseAssumption

\* Every interface's path, moved by no more than the limit, comes out longest at
\* most the limit later.
LEMMA NotFarther ==
    ASSUME NEW by \in [Followers -> -Limit .. Limit]
    PROVE  /\ Corrected(by) \in [Interfaces -> Int]
           /\ Longest(Corrected(by)) \in Int
           /\ \A i \in Interfaces : Corrected(by)[i] <= Longest(Corrected(by))
           /\ Fits(by)
<1>1. /\ Limit \in Nat /\ MasterPath \in Nat
      /\ \A f \in Followers : Paths[f] \in Nat /\ by[f] \in Int
                              /\ -Limit <= by[f] /\ by[f] <= Limit
  BY PhaseNumbers
<1>2. /\ Corrected(by) \in [Interfaces -> Int] /\ Reported \in [Interfaces -> Int]
      /\ \A i \in Interfaces : /\ Reported[i] - Limit <= Corrected(by)[i]
                               /\ Corrected(by)[i] <= Reported[i] + Limit
  BY <1>1 DEF Corrected, Reported, Path, Interfaces
<1>3. /\ Longest(Corrected(by)) \in Int /\ Longest(Reported) \in Int
      /\ \A i \in Interfaces : Corrected(by)[i] <= Longest(Corrected(by))
      /\ \A i \in Interfaces : Reported[i] <= Longest(Reported)
      /\ \E i \in Interfaces : Corrected(by)[i] = Longest(Corrected(by))
  <2>1. \A paths \in [Interfaces -> Int] :
           /\ Longest(paths) \in Int
           /\ \A i \in Interfaces : paths[i] <= Longest(paths)
           /\ \E i \in Interfaces : paths[i] = Longest(paths)
    BY LongestIs
  <2> QED BY <1>2, <2>1
<1>4. PICK l \in Interfaces : Corrected(by)[l] = Longest(Corrected(by))
  BY <1>3
<1>5. Longest(Corrected(by)) <= Longest(Reported) + Limit
  <2>1. /\ Reported[l] \in Int /\ Corrected(by)[l] \in Int
        /\ Reported[l] <= Longest(Reported)
        /\ Corrected(by)[l] <= Reported[l] + Limit
    BY <1>2, <1>3
  <2> QED BY <1>1, <1>3, <1>4, <2>1
<1>6. ASSUME NEW i \in Interfaces
      PROVE  HoldBack(Corrected(by))[i] <= Room(i)
  <2>1. /\ Reported[i] \in Int /\ Corrected(by)[i] \in Int
        /\ Reported[i] - Limit <= Corrected(by)[i]
    BY <1>2
  <2>2. /\ HoldBack(Corrected(by))[i] = Longest(Corrected(by)) - Corrected(by)[i]
        /\ Room(i) = Longest(Reported) - Reported[i] + 2 * Limit
    BY DEF HoldBack, Room, PlannedPad
  <2> QED BY <1>1, <1>3, <1>5, <2>1, <2>2
<1> QED BY <1>2, <1>3, <1>6 DEF Fits

\* Who is to be applied is within the limit.
LEMMA DecidedWithin ==
    ASSUME NEW f \in Followers, NEW m \in Outcomes, how \in [Followers -> Uses],
           Decided(f, m) = "applied"
    PROVE  m \in -Limit .. Limit
<1>1. Limit \in Nat /\ m \in -Limit - 1 .. Limit + 3
  BY PhaseAssumption DEF Outcomes
<1>2. \/ m = Nothing \/ m = OffTheGrid \/ m \in {-Limit - 1, Limit + 1}
      \/ m \in -Limit .. Limit
  BY <1>1 DEF Nothing, OffTheGrid
<1>3. /\ Nothing # OffTheGrid
      /\ Nothing \notin {-Limit - 1, Limit + 1} /\ OffTheGrid \notin {-Limit - 1, Limit + 1}
      /\ Nothing \notin -Limit .. Limit /\ OffTheGrid \notin -Limit .. Limit
      /\ -Limit - 1 \notin -Limit .. Limit /\ Limit + 1 \notin -Limit .. Limit
  BY <1>1 DEF Nothing, OffTheGrid
<1>4. how[f] \in {"line up", "no reference", "measure only"}
  BY PhaseAssumption
<1> HIDE DEF Nothing, OffTheGrid
<1>5. CASE m = Nothing
  BY <1>3, <1>5 DEF Decided
<1>6. CASE m # Nothing /\ how[f] = "measure only"
  BY <1>6 DEF Decided
<1>7. CASE m # Nothing /\ how[f] = "no reference"
  BY <1>7 DEF Decided
<1>8. CASE m # Nothing /\ how[f] = "line up" /\ m = OffTheGrid
  BY <1>3, <1>8 DEF Decided
<1>9. CASE m # Nothing /\ how[f] = "line up" /\ m \in {-Limit - 1, Limit + 1}
  BY <1>3, <1>9 DEF Decided
<1> QED BY <1>2, <1>4, <1>5, <1>6, <1>7, <1>8, <1>9

-----------------------------------------------------------------------------
(* Lining up: its invariant.                                                 *)

\* What is held back is what the corrections applied ask for, and a follower
\* not yet measured has none.
PhaseInv ==
    /\ how \in [Followers -> Uses]
    /\ detector \in [Followers -> {"waiting", "listening", "done"}]
    /\ measured \in [Followers -> Outcomes]
    /\ applied \in [Followers -> -Limit .. Limit]
    /\ \A f \in Followers : detector[f] # "done" => applied[f] = 0
    /\ pad = HoldBack(Corrected(applied)) /\ latency = Longest(Corrected(applied))
    /\ NoneIsGivenUp

NoCorrection == [f \in Followers |-> 0]

LEMMA AsReported ==
    /\ NoCorrection \in [Followers -> -Limit .. Limit]
    /\ Corrected(NoCorrection) = Reported
    /\ [f \in Followers |-> 0] \in [Followers -> Outcomes]
<1>1. /\ Limit \in Nat /\ \A f \in Followers : Paths[f] \in Nat
  BY PhaseAssumption
<1>2. 0 \in -Limit .. Limit /\ 0 \in Outcomes
  BY <1>1 DEF Outcomes
<1>3. \A f \in Followers : Paths[f] + NoCorrection[f] = Paths[f]
  BY <1>1 DEF NoCorrection
<1>4. \A i \in Interfaces : i # Master => i \in Followers
  BY DEF Interfaces
<1>5. Corrected(NoCorrection) = Reported
  BY <1>3, <1>4 DEF Corrected, Reported, Path
<1> QED BY <1>2, <1>5 DEF NoCorrection

LEMMA PhaseStart == PhaseInit => PhaseInv
  BY AsReported DEF PhaseInit, PhaseInv, NoCorrection, NoneIsGivenUp, PlannedPad

LEMMA AgainStep ==
    ASSUME PhaseInv, StartMeasuringAgain
    PROVE  PhaseInv'
<1>1. /\ how' = how /\ detector' = [f \in Followers |-> "waiting"]
      /\ measured' = [f \in Followers |-> 0] /\ applied' = NoCorrection
      /\ pad' = HoldBack(Reported) /\ latency' = Longest(Reported)
  BY DEF StartMeasuringAgain, NoCorrection, PadAgain, PlannedPad
<1> QED BY <1>1, AsReported DEF PhaseInv, NoneIsGivenUp, NoCorrection

LEMMA EmitStep ==
    ASSUME PhaseInv, Emit
    PROVE  PhaseInv'
<1>1. /\ UNCHANGED <<how, measured, state, applied, pad, latency>>
      /\ detector' \in [Followers -> {"waiting", "listening", "done"}]
      /\ \A f \in Followers : detector[f] = "done" <=> detector'[f] = "done"
  BY DEF Emit, PhaseInv
<1>2. NoneIsGivenUp'
  BY <1>1 DEF PhaseInv, NoneIsGivenUp, Decided
<1> QED BY <1>1, <1>2 DEF PhaseInv

LEMMA ListenStep ==
    ASSUME PhaseInv, Listen
    PROVE  PhaseInv'
<1> DEFINE Heard(heard, m) ==
         LET Now(f) == IF f \in heard THEN Decided(f, m[f]) ELSE state[f]
             states == [f \in Followers |-> Now(f)]
             by     == [f \in Followers |-> IF f \notin heard THEN applied[f]
                                            ELSE IF Now(f) = "applied" THEN m[f] ELSE 0]
         IN  /\ detector' = [f \in Followers |-> IF f \in heard THEN "done" ELSE detector[f]]
             /\ measured' = [f \in Followers |-> IF f \in heard THEN m[f] ELSE measured[f]]
             /\ IF \E f \in heard : by[f] # 0
                THEN LineUpAgain(by, states) \/ PutBackAll(by, states)
                ELSE applied' = by /\ state' = states /\ UNCHANGED <<pad, latency>>
<1>p. PICK heard \in SUBSET {f \in Followers : detector[f] = "listening"} \ {{}} :
         \E m \in [heard -> Outcomes] : Heard(heard, m)
  BY DEF Listen
<1>1. PICK m \in [heard -> Outcomes] : Heard(heard, m)
  BY <1>p
<1> DEFINE Now(f) == IF f \in heard THEN Decided(f, m[f]) ELSE state[f]
           states == [f \in Followers |-> Now(f)]
           by     == [f \in Followers |-> IF f \notin heard THEN applied[f]
                                          ELSE IF Now(f) = "applied" THEN m[f] ELSE 0]
<1>2. /\ how' = how
      /\ detector' = [f \in Followers |-> IF f \in heard THEN "done" ELSE detector[f]]
      /\ measured' = [f \in Followers |-> IF f \in heard THEN m[f] ELSE measured[f]]
      /\ IF \E f \in heard : by[f] # 0
         THEN LineUpAgain(by, states) \/ PutBackAll(by, states)
         ELSE applied' = by /\ state' = states /\ UNCHANGED <<pad, latency>>
  BY <1>1 DEF Listen
<1>3. heard \subseteq Followers /\ \A f \in heard : detector[f] = "listening"
  BY <1>p
<1>4. by \in [Followers -> -Limit .. Limit]
  <2>1. 0 \in -Limit .. Limit
    BY PhaseNumbers
  <2>2. \A f \in heard : Decided(f, m[f]) = "applied" => m[f] \in -Limit .. Limit
    BY <1>3, DecidedWithin DEF PhaseInv
  <2> QED BY <1>3, <2>1, <2>2 DEF PhaseInv
<1>5. \A f \in Followers :
         /\ f \in heard => by[f] = IF Decided(f, m[f]) = "applied" THEN m[f] ELSE 0
         /\ f \notin heard => by[f] = applied[f]
         /\ f \in heard => states[f] = Decided(f, m[f])
         /\ f \notin heard => states[f] = state[f]
  OBVIOUS
<1>6. Fits(by)
  BY <1>4, NotFarther
<1> HIDE DEF by, states
<1>7. /\ applied' = by /\ state' = states
      /\ pad' = HoldBack(Corrected(by)) /\ latency' = Longest(Corrected(by))
  <2>1. CASE \E f \in heard : by[f] # 0
    BY <1>2, <1>6, <2>1 DEF LineUpAgain, PutBackAll
  <2>2. CASE ~\E f \in heard : by[f] # 0
    <3>1. \A f \in Followers : by[f] = applied[f]
      BY <1>3, <1>5, <2>2 DEF PhaseInv
    <3>2. by = applied
      BY <1>4, <3>1 DEF PhaseInv
    <3> QED BY <1>2, <2>2, <3>2 DEF PhaseInv
  <2> QED BY <2>1, <2>2
<1>8. /\ detector' \in [Followers -> {"waiting", "listening", "done"}]
      /\ measured' \in [Followers -> Outcomes]
  BY <1>2, <1>3 DEF PhaseInv
<1>9. ASSUME NEW f \in Followers
      PROVE  /\ detector'[f] # "done" => applied'[f] = 0
             /\ detector'[f] = "done" =>
                  /\ state'[f] = Decided(f, measured[f])'
                  /\ applied'[f] = IF state'[f] = "applied" THEN measured'[f] ELSE 0
  <2>1. CASE f \in heard
    <3>1. /\ detector'[f] = "done" /\ measured'[f] = m[f]
          /\ state'[f] = Decided(f, m[f])
          /\ applied'[f] = IF Decided(f, m[f]) = "applied" THEN m[f] ELSE 0
      BY <1>2, <1>5, <1>7, <2>1
    <3>2. Decided(f, m[f]) = Decided(f, measured[f])'
      BY <1>2, <3>1 DEF Decided
    <3> QED BY <3>1, <3>2
  <2>2. CASE f \notin heard
    <3>1. /\ detector'[f] = detector[f] /\ measured'[f] = measured[f]
          /\ state'[f] = state[f] /\ applied'[f] = applied[f]
      BY <1>2, <1>5, <1>7, <2>2
    <3>2. Decided(f, measured[f])' = Decided(f, measured[f])
      BY <1>2, <3>1 DEF Decided
    <3> QED BY <3>1, <3>2 DEF PhaseInv, NoneIsGivenUp
  <2> QED BY <2>1, <2>2
<1>10. NoneIsGivenUp'
  BY <1>9 DEF NoneIsGivenUp
<1> QED BY <1>2, <1>4, <1>7, <1>8, <1>9, <1>10 DEF PhaseInv

LEMMA PhaseAlways == PhaseSpec => []PhaseInv
<1>1. PhaseInv /\ [PhaseNext]_phaseVars => PhaseInv'
  <2> SUFFICES ASSUME PhaseInv, [PhaseNext]_phaseVars
               PROVE  PhaseInv'
    OBVIOUS
  <2>1. CASE UNCHANGED phaseVars
    BY <2>1 DEF PhaseInv, NoneIsGivenUp, Decided, phaseVars
  <2>2. CASE Run
    BY <2>2 DEF PhaseInv, NoneIsGivenUp, Decided, Run
  <2> QED BY <2>1, <2>2, AgainStep, EmitStep, ListenStep DEF PhaseNext
<1> QED BY <1>1, PhaseStart, PTL DEF PhaseSpec

\* For every set of interfaces, whatever their paths and the limit, and in
\* whatever order their measurements come, every input comes to the latency the
\* DAW is told, and no correction is given up for want of room (stream.rs,
\* line_up_again; plan.rs, hold_back).
THEOREM AlwaysLinedUp == PhaseSpec => []LinedUp
<1>1. PhaseInv => LinedUp
  <2> SUFFICES ASSUME PhaseInv
               PROVE  LinedUp
    OBVIOUS
  <2>1. /\ Corrected(applied) \in [Interfaces -> Int]
        /\ Longest(Corrected(applied)) \in Int
    BY NotFarther DEF PhaseInv
  <2>2. ASSUME NEW i \in Interfaces
        PROVE  Path(i) + (IF i = Master THEN 0 ELSE applied[i]) + pad[i] = latency
    <3>1. Path(i) + (IF i = Master THEN 0 ELSE applied[i]) = Corrected(applied)[i]
      <4>1. CASE i = Master
        BY <4>1, PhaseNumbers DEF Path, Corrected, Interfaces
      <4>2. CASE i # Master
        BY <4>2 DEF Path, Corrected, Interfaces
      <4> QED BY <4>1, <4>2
    <3>2. pad[i] = latency - Corrected(applied)[i]
      BY DEF PhaseInv, HoldBack
    <3>3. Corrected(applied)[i] \in Int /\ latency \in Int
      BY <2>1 DEF PhaseInv
    <3> QED BY <3>1, <3>2, <3>3
  <2> QED BY <2>2 DEF LinedUp, InputsLinedUp, PhaseInv
<1> QED BY <1>1, PhaseAlways, PTL

-----------------------------------------------------------------------------
(* One sample rate.                                                          *)

\* A move has not reached the interfaces from `next` on; what is put back are
\* the interfaces before the one that refused, and those before `next` are.
\* The driver knows a rate for every interface it may have to put back.
MoveInv ==
    /\ at \in [Devices -> AnyRate] /\ was \in [Devices -> Rates]
    /\ next \in Nat \ {0} /\ held \subseteq Devices /\ askedRate \in AnyRate
    /\ call = "moving" =>
         /\ hz \in Rates /\ ~refused /\ held \subseteq Devices
         /\ \A i \in Devices : i >= next => at[i] = stood[i]
    /\ call = "holding" => ~refused
    /\ call = "putting back" =>
         /\ \A i \in held, j \in Devices : j < i => j \in held
         /\ \A i \in Devices \ strayed :
               /\ i \notin held => at[i] = stood[i]
               /\ i \in held /\ i < next => at[i] = was[i]

RateInv == MoveInv /\ AllMoveOrNone

LEMMA MoveTypes ==
    ASSUME MoveInv
    PROVE  /\ at \in [Devices -> AnyRate] /\ was \in [Devices -> Rates]
           /\ next \in Nat \ {0} /\ held \subseteq Devices /\ askedRate \in AnyRate
           /\ DeviceCount \in Nat
           /\ next <= DeviceCount => next \in Devices
           /\ next + 1 \in Nat \ {0}
           /\ \A i \in Devices : i \in Nat \ {0}
<1>1. /\ at \in [Devices -> AnyRate] /\ was \in [Devices -> Rates]
      /\ next \in Nat \ {0} /\ held \subseteq Devices /\ askedRate \in AnyRate
  BY DEF MoveInv
<1>2. DeviceCount \in Nat
  BY RateAssumption
<1> QED BY <1>1, <1>2 DEF Devices

LEMMA RateStart == RateInit => RateInv
  BY RateAssumption DEF RateInit, RateInv, MoveInv, AllMoveOrNone, AnyRate

\* A driver's rate after it was asked.
LEMMA Asked ==
    ASSUME at \in [Devices -> AnyRate], NEW i \in Devices, NEW to \in Rates,
           \/ Took(i, to) \/ Holds(i, to) \/ SaysNo \/ Fails(i) \/ Closes(i)
    PROVE  /\ at' \in [Devices -> AnyRate]
           /\ \A j \in Devices : j # i => at'[j] = at[j]
           /\ Took(i, to) => at'[i] = to
  BY DEF Took, Holds, SaysNo, Fails, Closes, AnyRate

\* A move of all interfaces begins.
LEMMA BeginStep ==
    ASSUME RateInv, OpenAtARate \/ SetRate
    PROVE  RateInv'
<1>1. \E to \in Rates : BeginMoving(to) /\ UNCHANGED <<told, at>>
  BY DEF OpenAtARate, SetRate
<1>2. \A i \in Devices : at'[i] = stood'[i]
  BY <1>1 DEF BeginMoving
<1>3. /\ at' \in [Devices -> AnyRate] /\ was' \in [Devices -> Rates]
      /\ call' = "moving" /\ hz' \in Rates /\ ~refused'
      /\ next' \in Nat \ {0} /\ held' \subseteq Devices /\ askedRate' \in AnyRate
  BY <1>1, MoveTypes DEF RateInv, BeginMoving, told
<1> QED BY <1>2, <1>3 DEF RateInv, MoveInv, AllMoveOrNone

LEMMA MoveStep ==
    ASSUME RateInv, Move
    PROVE  RateInv'
<1>t. MoveInv /\ next \in Devices /\ call = "moving" /\ hz \in Rates
  <2>1. MoveInv /\ call = "moving" /\ next <= DeviceCount
    BY DEF RateInv, Move
  <2> QED BY <2>1, MoveTypes DEF MoveInv
<1>1. /\ UNCHANGED <<was, call, hz, stood, refused, strayed, askedRate>>
      /\ next' = next + 1
      /\ held' = held \/ held' = held \cup {next}
      /\ Took(next, hz) \/ Holds(next, hz)
  BY DEF Move, told, history
<1>2. /\ at' \in [Devices -> AnyRate]
      /\ \A j \in Devices : j # next => at'[j] = at[j]
  BY <1>t, <1>1, Asked DEF MoveInv
<1>3. next' \in Nat \ {0} /\ \A j \in Devices : j >= next' => j # next /\ j >= next
  BY <1>t, <1>1 DEF Devices, MoveInv
<1>4. \A j \in Devices : j >= next' => at'[j] = stood'[j]
  BY <1>t, <1>1, <1>2, <1>3 DEF MoveInv
<1> QED BY <1>t, <1>1, <1>2, <1>3, <1>4 DEF RateInv, MoveInv, AllMoveOrNone

LEMMA RefuseStep ==
    ASSUME RateInv, RefusesToMove
    PROVE  RateInv'
<1>t. MoveInv /\ next \in Devices /\ call = "moving" /\ hz \in Rates
  <2>1. MoveInv /\ call = "moving" /\ next <= DeviceCount
    BY DEF RateInv, RefusesToMove
  <2> QED BY <2>1, MoveTypes DEF MoveInv
<1>1. /\ UNCHANGED <<was, hz, stood>> /\ call' = "putting back"
      /\ next' = 1 /\ held' = {i \in Devices : i < next}
      /\ \/ SaysNo
         \/ (Fails(next) \/ Closes(next)) /\ next \in strayed'
  BY DEF RefusesToMove, told
<1>2. /\ at' \in [Devices -> AnyRate]
      /\ \A j \in Devices : j # next => at'[j] = at[j]
  BY <1>t, <1>1, Asked DEF MoveInv
<1>3. \A j \in Devices \ strayed' : at'[j] = at[j]
  <2>1. CASE SaysNo
    BY <2>1 DEF SaysNo
  <2>2. CASE next \in strayed'
    BY <1>2, <2>2
  <2> QED BY <1>1, <2>1, <2>2
<1>s. next' = 1 /\ held' = {i \in Devices : i < next} /\ was' = was
      /\ call' = "putting back"
  BY <1>1
<1>4. /\ \A j \in Devices : j \notin held' => j >= next
      /\ \A j \in held' : ~(j < next')
      /\ \A i \in held', j \in Devices : j < i => j \in held'
      /\ held' \subseteq Devices
  <2> DEFINE moved == {i \in Devices : i < next}
  <2>1. next \in Nat /\ \A i \in Devices : i \in Nat \ {0}
    BY <1>t, MoveTypes
  <2>2. /\ \A j \in Devices : j \notin moved => j >= next
        /\ \A j \in moved : ~(j < 1)
        /\ \A i \in moved, j \in Devices : j < i => j \in moved
        /\ moved \subseteq Devices
    BY <2>1
  <2> HIDE DEF moved
  <2> QED BY <1>s, <2>2, Zenon DEF moved
<1>5. \A j \in Devices \ strayed' : j \notin held' => at'[j] = stood'[j]
  BY <1>t, <1>1, <1>3, <1>4 DEF MoveInv
<1>6. next' \in Nat \ {0} /\ was' \in [Devices -> Rates] /\ call' = "putting back"
  <2>1. 1 \in Nat \ {0}
    OBVIOUS
  <2> QED BY <1>t, <1>s, <2>1, MoveTypes, Zenon
<1>7. askedRate' \in AnyRate
  BY <1>t, MoveTypes DEF RefusesToMove, told
<1> QED BY <1>7, <1>2, <1>4, <1>5, <1>6 DEF RateInv, MoveInv, AllMoveOrNone

\* One of those that had moved goes back, or is counted among the strayed.
LEMMA PutBackStep ==
    ASSUME RateInv, PutBack
    PROVE  RateInv'
<1>t. /\ MoveInv /\ call = "putting back" /\ next \in held /\ next \in Devices
      /\ was[next] \in Rates /\ was[next] # NoRate
  BY RateAssumption DEF RateInv, MoveInv, PutBack, NoRate
<1>1. /\ UNCHANGED <<was, call, hz, held, stood, refused, askedRate>>
      /\ next' = next + 1
      /\ \/ Took(next, was[next]) /\ strayed' = strayed
         \/ /\ Holds(next, was[next]) \/ SaysNo \/ Closes(next)
            /\ strayed' = strayed \cup {next}
  BY <1>t DEF PutBack, WasOn, told
<1>2. /\ at' \in [Devices -> AnyRate]
      /\ \A j \in Devices : j # next => at'[j] = at[j]
      /\ Took(next, was[next]) => at'[next] = was[next]
  BY <1>t, <1>1, Asked DEF MoveInv
<1>3. /\ next' \in Nat \ {0}
      /\ \A j \in Devices : j < next' => j = next \/ j < next
  <2>1. next \in Nat /\ \A i \in Devices : i \in Nat \ {0}
    BY <1>t, MoveTypes
  <2> QED BY <1>1, <2>1
<1>4. ASSUME NEW j \in Devices \ strayed'
      PROVE  /\ j \notin held' => at'[j] = stood'[j]
             /\ j \in held' /\ j < next' => at'[j] = was'[j]
  <2>1. j \notin strayed
    BY <1>1, <1>4
  <2>2. CASE j = next
    BY <1>t, <1>1, <1>2, <1>4, <2>2
  <2>3. CASE j # next
    BY <1>t, <1>1, <1>2, <1>3, <1>4, <2>1, <2>3 DEF MoveInv
  <2> QED BY <2>2, <2>3
<1> QED BY <1>t, <1>1, <1>2, <1>3, <1>4 DEF RateInv, MoveInv, AllMoveOrNone

LEMMA PutBackEndStep ==
    ASSUME RateInv, PutBackEnds
    PROVE  RateInv'
<1>t. MoveInv /\ call = "putting back" /\ next \notin held
  BY DEF RateInv, PutBackEnds
<1>1. UNCHANGED <<was, at, hz, next, held, stood, refused, strayed>> /\ call' = "none"
      /\ askedRate' \in {askedRate, NoRate}
  BY DEF PutBackEnds, LetEverythingGo, history
<1>2. ASSUME NEW j \in held
      PROVE  j < next
  <2>1. j \in Devices /\ j \in Nat /\ next \in Nat \ {0}
    BY <1>t, <1>2, MoveTypes
  <2>2. CASE j > next
    <3>1. next \in Devices
      BY <2>1, <2>2, RateAssumption DEF Devices
    <3> QED BY <1>t, <1>2, <2>2, <3>1 DEF MoveInv, Devices
  <2>3. CASE j = next
    BY <1>t, <1>2, <2>3
  <2> QED BY <2>1, <2>2, <2>3
<1>3. \A j \in Devices \ strayed : at[j] \in {stood[j], was[j]}
  BY <1>t, <1>2 DEF MoveInv
<1> QED BY <1>t, <1>1, <1>3 DEF RateInv, MoveInv, AllMoveOrNone, AnyRate

\* Opening what was let go of, and the buffers.
LEMMA BufferStep ==
    ASSUME RateInv,
           \/ OpenWithNoRate \/ AllMoved \/ OpenAgain \/ AsksForBuffers
           \/ HoldAfterBuffers \/ WillNotBeHeld \/ BuffersMade
           \/ StartsAtRate \/ LetsGoOfBuffers
    PROVE  RateInv'
<1>t. MoveInv /\ AllMoveOrNone
  BY DEF RateInv
<1>1. CASE OpenWithNoRate \/ BuffersMade \/ StartsAtRate \/ LetsGoOfBuffers
  <2>1. /\ UNCHANGED <<at, was, next, held, hz, stood, refused, strayed, askedRate>>
        /\ call' = "none" /\ call \in {"none", "holding"}
    BY <1>1 DEF OpenWithNoRate, BuffersMade, StartsAtRate, LetsGoOfBuffers, told,
                step, history
  <2> QED BY <1>t, <2>1 DEF RateInv, MoveInv, AllMoveOrNone
<1>2. CASE AllMoved
  BY <1>t, <1>2 DEF AllMoved, RateInv, MoveInv, AllMoveOrNone, AnyRate, history
<1>3. CASE OpenAgain
  BY <1>t, <1>3 DEF OpenAgain, RateInv, MoveInv, AllMoveOrNone, AnyRate
<1>4. CASE AsksForBuffers
  BY <1>t, <1>4 DEF AsksForBuffers, RateInv, MoveInv, AllMoveOrNone, AnyRate, told
<1>5. CASE HoldAfterBuffers
  <2>1. /\ UNCHANGED <<was, held, hz, stood, refused, strayed, askedRate>>
        /\ call = "holding" /\ call' = "holding" /\ next' = next + 1
    BY <1>5 DEF HoldAfterBuffers, told, history
  <2>2. at' \in [Devices -> AnyRate]
    BY <1>t, <1>5, MoveTypes DEF HoldAfterBuffers, Took
  <2>3. next' \in Nat \ {0}
    BY <1>t, <2>1, MoveTypes
  <2> QED BY <1>t, <2>1, <2>2, <2>3 DEF RateInv, MoveInv, AllMoveOrNone
<1>6. CASE WillNotBeHeld
  BY <1>t, <1>6 DEF WillNotBeHeld, Fails, Closes, LetEverythingGo, RateInv, MoveInv,
                    AllMoveOrNone, AnyRate, told, history
<1> QED BY <1>1, <1>2, <1>3, <1>4, <1>5, <1>6

LEMMA RateAlways == RateSpec => []RateInv
<1>1. RateInv /\ [RateNext]_rateVars => RateInv'
  <2> SUFFICES ASSUME RateInv, [RateNext]_rateVars
               PROVE  RateInv'
    OBVIOUS
  <2>1. CASE UNCHANGED rateVars
    BY <2>1 DEF RateInv, MoveInv, AllMoveOrNone, rateVars
  <2> QED BY <2>1, BeginStep, MoveStep, RefuseStep, PutBackStep, PutBackEndStep,
             BufferStep DEF RateNext
<1> QED BY <1>1, RateStart, PTL DEF RateSpec

\* For every number of interfaces and whatever their drivers answer, after a
\* move that was refused each interface is where it was, but for one whose
\* driver failed midway or would not go back (aggregate.rs,
\* move_every_device_to).
THEOREM MoveOrNone == RateSpec => []AllMoveOrNone
<1>1. RateInv => AllMoveOrNone
  BY DEF RateInv
<1> QED BY <1>1, RateAlways, PTL

-----------------------------------------------------------------------------
(* What else these parts keep in its range.                                  *)

MeasuredStates == {"measuring", "applied", "no reference", "measured only",
                   "not heard", "off the grid", "too far"}
PhaseRest == rearm \in BOOLEAN /\ state \in [Followers -> MeasuredStates]

\* Whatever a measurement comes to, something is decided.
LEMMA DecidedIs ==
    ASSUME NEW f \in Followers, NEW m \in Outcomes, how \in [Followers -> Uses]
    PROVE  Decided(f, m) \in MeasuredStates
<1>1. Limit \in Nat /\ m \in -Limit - 1 .. Limit + 3
  BY PhaseAssumption DEF Outcomes
<1>2. \/ m = Nothing \/ m = OffTheGrid \/ m \in {-Limit - 1, Limit + 1}
      \/ m \in -Limit .. Limit
  BY <1>1 DEF Nothing, OffTheGrid
<1>3. how[f] \in {"line up", "no reference", "measure only"}
  BY PhaseAssumption
<1> QED BY <1>2, <1>3, Zenon DEF Decided, MeasuredStates

LEMMA PhaseRestStep ==
    ASSUME PhaseInv, PhaseRest, [PhaseNext]_phaseVars
    PROVE  PhaseRest'
<1>1. CASE UNCHANGED phaseVars
  BY <1>1 DEF PhaseRest, phaseVars
<1>2. CASE Run
  BY <1>2 DEF PhaseRest, Run
<1>3. CASE StartMeasuringAgain
  BY <1>3 DEF PhaseRest, StartMeasuringAgain, MeasuredStates
<1>4. CASE Emit
  BY <1>4 DEF PhaseRest, Emit
<1>5. CASE Listen
  <2> DEFINE Now(heard, m, f) == IF f \in heard THEN Decided(f, m[f]) ELSE state[f]
             After(heard, m) == [f \in Followers |-> Now(heard, m, f)]
             Late(states) == [f \in Followers |-> IF states[f] = "applied" THEN "too far"
                                                  ELSE states[f]]
  <2> DEFINE By(heard, m) == [f \in Followers |->
                               IF f \notin heard THEN applied[f]
                               ELSE IF Now(heard, m, f) = "applied" THEN m[f] ELSE 0]
             Decides(heard, m) ==
                IF \E f \in heard : By(heard, m)[f] # 0
                THEN \/ LineUpAgain(By(heard, m), After(heard, m))
                     \/ PutBackAll(By(heard, m), After(heard, m))
                ELSE /\ applied' = By(heard, m) /\ state' = After(heard, m)
                     /\ UNCHANGED <<pad, latency>>
  <2>h. \E heard \in SUBSET {f \in Followers : detector[f] = "listening"} \ {{}} :
        \E m \in [heard -> Outcomes] : Decides(heard, m)
    BY <1>5 DEF Listen
  <2>i. \A heard, m : Decides(heard, m) =>
             state' = After(heard, m) \/ state' = Late(After(heard, m))
    <3> HIDE DEF After, By
    <3> QED BY DEF LineUpAgain, PutBackAll
  <2>a. \E heard \in SUBSET {f \in Followers : detector[f] = "listening"} \ {{}} :
        \E m \in [heard -> Outcomes] :
             state' = After(heard, m) \/ state' = Late(After(heard, m))
    <3> HIDE DEF Decides, After, Late
    <3> QED BY <2>h, <2>i
  <2>b. PICK heard \in SUBSET {f \in Followers : detector[f] = "listening"} \ {{}} :
        \E m \in [heard -> Outcomes] :
             state' = After(heard, m) \/ state' = Late(After(heard, m))
    BY <2>a
  <2>c. PICK m \in [heard -> Outcomes] :
             state' = After(heard, m) \/ state' = Late(After(heard, m))
    BY <2>b
  <2>d. \A f \in heard : f \in Followers /\ m[f] \in Outcomes
    OBVIOUS
  <2>e. After(heard, m) \in [Followers -> MeasuredStates]
    BY <2>d, DecidedIs DEF PhaseInv, PhaseRest
  <2> HIDE DEF After
  <2>1. PICK states \in [Followers -> MeasuredStates] :
           state' = states \/ state' = Late(states)
    BY <2>c, <2>e
  <2>2. "too far" \in MeasuredStates
    BY DEF MeasuredStates
  <2>3. rearm' = rearm
    BY <1>5 DEF Listen
  <2> QED BY <2>1, <2>2, <2>3 DEF PhaseRest
<1> QED BY <1>1, <1>2, <1>3, <1>4, <1>5 DEF PhaseNext

LEMMA PhaseTypes ==
    ASSUME PhaseInv, PhaseRest
    PROVE  PhaseTypeOK
<1>1. /\ Corrected(applied) \in [Interfaces -> Int]
      /\ Longest(Corrected(applied)) \in Int
      /\ \A i \in Interfaces : Corrected(applied)[i] <= Longest(Corrected(applied))
  BY NotFarther DEF PhaseInv
<1>2. latency \in Nat
  <2>1. Master \in Interfaces
    BY DEF Interfaces
  <2>2. Corrected(applied)[Master] = MasterPath
    BY <2>1 DEF Corrected
  <2> QED BY <1>1, <2>1, <2>2, PhaseNumbers DEF PhaseInv
<1>3. pad \in [Interfaces -> Nat]
  <2>1. \A i \in Interfaces : Longest(Corrected(applied)) - Corrected(applied)[i] \in Nat
    BY <1>1
  <2> QED BY <2>1 DEF PhaseInv, HoldBack
<1> QED BY <1>2, <1>3 DEF PhaseInv, PhaseRest, PhaseTypeOK, MeasuredStates

LEMMA PhaseTyped == PhaseSpec => []PhaseTypeOK
<1>1. PhaseInit => PhaseRest
  BY DEF PhaseInit, PhaseRest, MeasuredStates
<1>2. PhaseInv /\ PhaseRest /\ [PhaseNext]_phaseVars => PhaseRest'
  BY PhaseRestStep
<1>3. PhaseInv /\ PhaseRest => PhaseTypeOK
  BY PhaseTypes
<1> QED BY <1>1, <1>2, <1>3, PhaseAlways, PTL DEF PhaseSpec

\* What the DAW has, and what a call that moves the interfaces knows.
RateRest ==
    /\ open \in BOOLEAN /\ buffers \in BOOLEAN /\ sounding \in BOOLEAN
    /\ opening \in BOOLEAN /\ refused \in BOOLEAN
    /\ rate \in AnyRate /\ hz \in AnyRate /\ stood \in [Devices -> AnyRate]
    /\ unsettled \subseteq Devices /\ strayed \subseteq Devices
    /\ call \in {"none", "moving", "putting back", "holding"}
    /\ next \in 0 .. DeviceCount + 1

LEMMA RateRestStep ==
    ASSUME RateInv, RateRest, [RateNext]_rateVars
    PROVE  RateRest'
<1>t. /\ at \in [Devices -> AnyRate] /\ was \in [Devices -> Rates]
      /\ held \subseteq Devices /\ askedRate \in AnyRate
      /\ NoRate \in AnyRate /\ Rates \subseteq AnyRate
      /\ DeviceCount \in Nat \ {0} /\ 1 \in Devices
      /\ next \in Nat \ {0}
      /\ next <= DeviceCount => next + 1 \in 0 .. DeviceCount + 1 /\ next \in Devices
      /\ next \in Devices => next <= DeviceCount
      /\ 1 \in 0 .. DeviceCount + 1
  BY MoveTypes, RateAssumption DEF RateInv, AnyRate, Devices
<1> USE DEF RateRest, told, daw, step, history, LetEverythingGo, BeginMoving
<1>1. CASE UNCHANGED rateVars
  BY <1>1 DEF rateVars
<1>2. CASE OpenWithNoRate \/ OpenAtARate \/ OpenAgain \/ SetRate
  <2>1. CASE OpenWithNoRate
    BY <1>t, <2>1 DEF OpenWithNoRate
  <2>2. CASE OpenAtARate \/ SetRate
    BY <1>t, <2>2 DEF OpenAtARate, SetRate
  <2>3. CASE OpenAgain
    BY <1>t, <2>3 DEF OpenAgain
  <2> QED BY <1>2, <2>1, <2>2, <2>3
<1>3. CASE Move \/ AllMoved \/ RefusesToMove
  <2>1. CASE Move
    BY <1>t, <2>1 DEF Move
  <2>2. CASE AllMoved
    BY <1>t, <2>2 DEF AllMoved
  <2>3. CASE RefusesToMove
    BY <1>t, <2>3 DEF RefusesToMove
  <2> QED BY <1>3, <2>1, <2>2, <2>3
<1>4. CASE PutBack
  <2>1. /\ UNCHANGED <<open, buffers, sounding, opening, refused, rate, hz, stood,
                       unsettled, call>>
        /\ next \in Devices /\ next' = next + 1
        /\ strayed' = strayed \/ strayed' = strayed \cup {next}
    BY <1>t, <1>4 DEF PutBack
  <2> QED BY <1>t, <2>1
<1>5. CASE PutBackEnds
  BY <1>t, <1>5 DEF PutBackEnds
<1>6. CASE AsksForBuffers \/ HoldAfterBuffers \/ WillNotBeHeld
  <2>1. CASE AsksForBuffers
    BY <1>t, <2>1 DEF AsksForBuffers
  <2>2. CASE HoldAfterBuffers
    BY <1>t, <2>2 DEF HoldAfterBuffers
  <2>3. CASE WillNotBeHeld
    BY <1>t, <2>3 DEF WillNotBeHeld
  <2> QED BY <1>6, <2>1, <2>2, <2>3
<1>7. CASE BuffersMade \/ StartsAtRate \/ LetsGoOfBuffers
  BY <1>t, <1>7 DEF BuffersMade, StartsAtRate, LetsGoOfBuffers
<1> QED BY <1>1, <1>2, <1>3, <1>4, <1>5, <1>6, <1>7 DEF RateNext

LEMMA RateTyped == RateSpec => []RateTypeOK
<1>1. RateInit => RateRest
  <2>1. DeviceCount \in Nat /\ 1 \in 0 .. DeviceCount + 1
    BY RateAssumption
  <2> QED BY <2>1 DEF RateInit, RateRest, AnyRate
<1>2. RateInv /\ RateRest /\ [RateNext]_rateVars => RateRest'
  BY RateRestStep
<1>3. RateInv /\ RateRest => RateTypeOK
  <2> SUFFICES ASSUME RateInv, RateRest
               PROVE  RateTypeOK
    OBVIOUS
  <2>1. was \in [Devices -> AnyRate]
    BY MoveTypes DEF RateInv, AnyRate
  <2> QED BY <2>1, MoveTypes DEF RateInv, RateRest, RateTypeOK
<1> QED BY <1>1, <1>2, <1>3, RateAlways, PTL DEF RateSpec

=============================================================================
