--------------------------- MODULE Handover_proofs ---------------------------
(***************************************************************************)
(* What goes on around the recorder.  What the audio callback shares with  *)
(* other threads without a lock, for every number of threads, taps, fields *)
(* and changes: a tap that a detach answered for is used by no callback,   *)
(* and the click is never played by halves of two changes.  And the arming *)
(* by itself, for every list of waits: what was refused is waited out.     *)
(***************************************************************************)
EXTENDS MCRecorderLive, RecorderControl_proofs, WellFoundedInduction, NaturalsInduction

USE TapAssumption

-----------------------------------------------------------------------------
(* The tap.                                                                  *)

\* The callback says it looks for as long as it can be using a tap, and is not
\* there once the stream has stopped.
SwitchInv ==
    /\ switch \in {"looking", "using", "done"} => inTap
    /\ using # NoTap => switch = "using"
    /\ taker[Closer] # "idle" => ~streaming /\ switch = "out"

\* The tap that is on is the newest, and none that is answered for or waited
\* for.
FreshInv ==
    /\ hung # NoTap => hung = attached
    /\ \A n \in answered : n <= attached /\ n # hung
    /\ \A t \in Takers : taker[t] = "waiting" =>
          got[t] # NoTap /\ got[t] <= attached /\ got[t] # hung

TapInv == TapTypeOK /\ SwitchInv /\ FreshInv /\ using \notin answered

LEMMA TapStart == TapInit => TapInv
<1> SUFFICES ASSUME TapInit
             PROVE  TapInv
  OBVIOUS
<1>1. TapTypeOK
  <2>1. published \in BOOLEAN /\ streaming \in BOOLEAN /\ inTap \in BOOLEAN
    BY DEF TapInit
  <2>2. attached \in 0 .. Taps /\ hung \in 0 .. Taps /\ using \in 0 .. Taps
    BY DEF TapInit, NoTap
  <2> QED BY <2>1, <2>2 DEF TapInit, TapTypeOK, NoTap
<1>2. SwitchInv /\ FreshInv /\ using \notin answered
  BY DEF TapInit, SwitchInv, FreshInv, NoTap
<1> QED BY <1>1, <1>2 DEF TapInv

\* A block of the callback.
LEMMA SwitchStep ==
    ASSUME TapInv, Switch
    PROVE  TapInv'
<1>1. TapTypeOK'
  <2>1. ASSUME SwitchBegins \/ SaysLooking \/ SaysDone
        PROVE  TapTypeOK'
    BY <2>1 DEF TapInv, TapTypeOK, SwitchBegins, SaysLooking, SaysDone
  <2>2. ASSUME GetsTap \/ IsDone
        PROVE  TapTypeOK'
    <3>1. using' \in 0 .. Taps
      BY <2>2 DEF TapInv, TapTypeOK, GetsTap, IsDone, NoTap
    <3> QED BY <2>2, <3>1 DEF TapInv, TapTypeOK, GetsTap, IsDone
  <2> QED BY <2>1, <2>2 DEF Switch
<1>2. SwitchInv'
  BY DEF TapInv, TapTypeOK, SwitchInv, Switch, SwitchBegins, SaysLooking,
         GetsTap, IsDone, SaysDone
<1>3. FreshInv'
  BY DEF TapInv, FreshInv, Switch, SwitchBegins, SaysLooking, GetsTap, IsDone,
         SaysDone
<1>4. (using \notin answered)'
  BY DEF TapInv, TapTypeOK, FreshInv, Switch, SwitchBegins, SaysLooking,
         GetsTap, IsDone, SaysDone, NoTap
<1> QED BY <1>1, <1>2, <1>3, <1>4 DEF TapInv

\* A take's tap is put on the callback.
LEMMA AttachStep ==
    ASSUME TapInv, AttachTap
    PROVE  TapInv'
<1>1. TapTypeOK' /\ SwitchInv' /\ (using \notin answered)'
  BY DEF TapInv, TapTypeOK, SwitchInv, AttachTap
<1>2. FreshInv'
  BY DEF TapInv, TapTypeOK, FreshInv, AttachTap, NoTap
<1> QED BY <1>1, <1>2 DEF TapInv

\* The session is closed.
LEMMA CloseStep ==
    ASSUME TapInv, CloseSession
    PROVE  TapInv'
<1>1. TapTypeOK'
  BY DEF TapInv, TapTypeOK, CloseSession, CloseBegins, Unpublish, LooksForTap
<1>2. SwitchInv'
  BY DEF TapInv, TapTypeOK, SwitchInv, CloseSession, CloseBegins, Unpublish,
         LooksForTap
<1>3. FreshInv'
  BY DEF TapInv, TapTypeOK, FreshInv, CloseSession, CloseBegins, Unpublish,
         LooksForTap
<1>4. (using \notin answered)'
  BY DEF TapInv, CloseSession, CloseBegins, Unpublish, LooksForTap
<1> QED BY <1>1, <1>2, <1>3, <1>4 DEF TapInv

\* A taker begins, takes the tap off, and waits for the callback.
LEMMA TakerStep ==
    ASSUME TapInv, NEW t \in Takers, DetachBegins(t) \/ TakeBack(t)
    PROVE  TapInv'
<1>1. CASE DetachBegins(t)
  <2>1. TapTypeOK' /\ FreshInv' /\ (using \notin answered)'
    BY <1>1 DEF TapInv, TapTypeOK, FreshInv, DetachBegins
  <2>2. SwitchInv'
    BY <1>1 DEF TapInv, TapTypeOK, SwitchInv, DetachBegins
  <2> QED BY <2>1, <2>2 DEF TapInv
<1>2. CASE TakesOff(t)
  <2>1. TapTypeOK' /\ (using \notin answered)'
    BY <1>2 DEF TapInv, TapTypeOK, TakesOff, NoTap
  <2>2. SwitchInv'
    BY <1>2 DEF TapInv, TapTypeOK, SwitchInv, TakesOff
  <2>3. FreshInv'
    BY <1>2 DEF TapInv, TapTypeOK, FreshInv, TakesOff, NoTap
  <2> QED BY <2>1, <2>2, <2>3 DEF TapInv
<1>3. CASE Waited(t)
  <2>1. got[t] \in 1 .. Taps /\ got[t] <= attached /\ got[t] # hung
    BY <1>3 DEF TapInv, TapTypeOK, FreshInv, Waited, NoTap
  <2>2. using = NoTap
    BY <1>3 DEF TapInv, SwitchInv, Waited, NobodyLooks
  <2>3. TapTypeOK' /\ (using \notin answered)'
    <3>1. answered' \subseteq 1 .. Taps /\ (using \notin answered)'
      <4>1. answered \subseteq 1 .. Taps /\ answered' = answered \cup {got[t]}
            /\ using' = 0
        BY <1>3, <2>2 DEF TapInv, TapTypeOK, Waited, NoTap
      <4>2. 0 \notin 1 .. Taps
        OBVIOUS
      <4> QED BY <2>1, <4>1, <4>2
    <3> QED BY <1>3, <3>1 DEF TapInv, TapTypeOK, Waited
  <2>4. SwitchInv'
    BY <1>3 DEF TapInv, TapTypeOK, SwitchInv, Waited
  <2>5. FreshInv'
    BY <1>3, <2>1 DEF TapInv, TapTypeOK, FreshInv, Waited
  <2> QED BY <2>3, <2>4, <2>5 DEF TapInv
<1> QED BY <1>1, <1>2, <1>3 DEF TakeBack

LEMMA TapAlways == TapSpec => []TapInv
<1>1. ASSUME TapInv, [TapNext]_tapVars
      PROVE  TapInv'
  <2>1. CASE UNCHANGED tapVars
    BY <1>1, <2>1 DEF TapInv, TapTypeOK, SwitchInv, FreshInv, tapVars
  <2>2. CASE Switch \/ AttachTap \/ CloseSession
    BY <1>1, <2>2, SwitchStep, AttachStep, CloseStep
  <2>3. ASSUME NEW t \in Takers, DetachBegins(t) \/ TakeBack(t)
        PROVE  TapInv'
    BY <1>1, <2>3, TakerStep
  <2> QED BY <1>1, <2>1, <2>2, <2>3 DEF TapNext, SessionGone, Yields
<1> QED BY <1>1, TapStart, PTL DEF TapSpec

\* What a detach has answered for no callback uses, now or later, whichever
\* thread took it off and whatever was attached since; and none uses anything
\* once the session has stopped the stream (host.rs, detach and close).
THEOREM TakenAlone == TapSpec => []TakenIsAlone
<1>1. TapInv => TakenIsAlone
  BY DEF TapInv, SwitchInv, TakenIsAlone
<1> QED BY <1>1, TapAlways, PTL

-----------------------------------------------------------------------------
(* The cell.                                                                 *)

HIDE TapAssumption
USE ParamCellAssumption

\* The sequence number counts the changes, and is odd while one is written;
\* the fields before the writer's are the change being written, the others the
\* last whole one.
CellInv ==
    /\ sequence = 2 * stored + (IF writing = Idle THEN 0 ELSE 1)
    /\ writing # Idle => stored < Changes
    /\ \A f \in 1 .. Fields :
          field[f] = IF writing # Idle /\ f <= writing THEN stored + 1 ELSE stored

\* What a load copied is of the last whole change, for as long as the number it
\* began with stands.
LoadInv ==
    reading =>
      /\ before <= sequence
      /\ before = sequence =>
           writing = Idle /\ \A i \in 1 .. Len(copied) : copied[i] = stored

ParamInv == ParamCellTypeOK /\ CellInv /\ LoadInv /\ NeverTorn

LEMMA ParamStart == ParamCellInit => ParamInv
<1> SUFFICES ASSUME ParamCellInit
             PROVE  ParamInv
  OBVIOUS
<1>1. ParamCellTypeOK
  <2>1. Whole(0) \in [1 .. Fields -> 0 .. Changes]
    BY DEF Whole
  <2>2. Idle \in 0 .. Idle /\ 0 \in 0 .. Changes
    BY DEF Idle
  <2>3. <<>> \in Seq(0 .. Changes) /\ Len(<<>>) <= Fields
    OBVIOUS
  <2> QED BY <2>1, <2>2, <2>3 DEF ParamCellInit, ParamCellTypeOK
<1>2. CellInv /\ LoadInv /\ NeverTorn
  BY DEF ParamCellInit, CellInv, LoadInv, NeverTorn, Whole, Idle
<1> QED BY <1>1, <1>2 DEF ParamInv

\* A change is stored: what was loaded before it no longer counts.
LEMMA StoreStep ==
    ASSUME ParamInv, Store
    PROVE  ParamInv'
<1>1. ParamCellTypeOK'
  <2>1. CASE BeginStore
    BY <2>1 DEF BeginStore, ParamInv, ParamCellTypeOK, Idle
  <2>2. CASE StoreField
    <3>1. stored + 1 \in 0 .. Changes
      BY <2>2 DEF StoreField, ParamInv, ParamCellTypeOK, CellInv, Idle
    <3> QED BY <2>2, <3>1 DEF StoreField, ParamInv, ParamCellTypeOK, Idle
  <2>3. CASE EndStore
    BY <2>3 DEF EndStore, ParamInv, ParamCellTypeOK, CellInv, Idle
  <2> QED BY <2>1, <2>2, <2>3 DEF Store
<1>2. CellInv'
  <2>1. CASE BeginStore
    BY <2>1 DEF BeginStore, ParamInv, ParamCellTypeOK, CellInv, Idle
  <2>2. CASE StoreField
    BY <2>2 DEF StoreField, ParamInv, ParamCellTypeOK, CellInv, Idle
  <2>3. CASE EndStore
    BY <2>3 DEF EndStore, ParamInv, ParamCellTypeOK, CellInv, Idle
  <2> QED BY <2>1, <2>2, <2>3 DEF Store
<1>3. LoadInv'
  <2>1. CASE BeginStore \/ EndStore
    <3>1. reading => before < sequence'
      <4>1. sequence \in Nat /\ before \in Nat /\ sequence' = sequence + 1
        BY <2>1 DEF BeginStore, EndStore, ParamInv, ParamCellTypeOK
      <4>2. reading => before <= sequence
        BY DEF ParamInv, LoadInv
      <4> QED BY <4>1, <4>2
    <3>2. UNCHANGED <<reading, before>> /\ before \in Nat /\ sequence' \in Nat
      BY <2>1 DEF BeginStore, EndStore, ParamInv, ParamCellTypeOK
    <3> QED BY <3>1, <3>2 DEF LoadInv
  <2>2. CASE StoreField
    BY <2>2 DEF StoreField, ParamInv, ParamCellTypeOK, CellInv, LoadInv, Idle
  <2> QED BY <2>1, <2>2 DEF Store
<1>4. NeverTorn'
  <2>1. taken' = taken /\ stored' \in {stored, stored + 1}
    BY DEF Store, BeginStore, StoreField, EndStore
  <2>2. stored \in Nat
    BY DEF ParamInv, ParamCellTypeOK
  <2>3. PICK n \in 0 .. stored : taken = Whole(n)
    BY DEF ParamInv, NeverTorn
  <2>4. n \in 0 .. stored'
    BY <2>1, <2>2
  <2>5. taken' = Whole(n)
    BY <2>1, <2>3
  <2> QED BY <2>4, <2>5 DEF NeverTorn, Whole
<1> QED BY <1>1, <1>2, <1>3, <1>4 DEF ParamInv

\* A load, which looks at the number before and after.
LEMMA LoadStep ==
    ASSUME ParamInv, Load
    PROVE  ParamInv'
<1>1. CASE BeginLoad
  <2>1. writing = Idle
    <3>1. sequence % 2 = 0 /\ stored \in Nat
      BY <1>1 DEF BeginLoad, ParamInv, ParamCellTypeOK
    <3>2. (2 * stored + 1) % 2 = 1
      BY <3>1
    <3> QED BY <3>1, <3>2 DEF ParamInv, CellInv
  <2>2. ParamCellTypeOK' /\ CellInv' /\ NeverTorn'
    <3>1. /\ UNCHANGED <<sequence, field, stored, writing, taken>>
          /\ before' = sequence /\ copied' = <<>> /\ reading' = TRUE
      BY <1>1 DEF BeginLoad
    <3>2. copied' \in Seq(0 .. Changes) /\ Len(copied') = 0 /\ reading' \in BOOLEAN
      BY <3>1, EmptySeq
    <3>3. ParamCellTypeOK'
      BY <3>1, <3>2 DEF ParamInv, ParamCellTypeOK
    <3>4. CellInv' /\ NeverTorn'
      BY <3>1 DEF ParamInv, CellInv, NeverTorn, Whole
    <3> QED BY <3>3, <3>4
  <2>3. LoadInv'
    BY <1>1, <2>1 DEF BeginLoad, ParamInv, ParamCellTypeOK, LoadInv, Idle
  <2> QED BY <2>2, <2>3 DEF ParamInv
<1>2. CASE LoadField
  <2>1. field[Len(copied) + 1] \in 0 .. Changes
    BY <1>2 DEF LoadField, ParamInv, ParamCellTypeOK
  <2>2. ParamCellTypeOK'
    <3>1. copied' \in Seq(0 .. Changes) /\ Len(copied') <= Fields
      BY <1>2, <2>1 DEF LoadField, ParamInv, ParamCellTypeOK
    <3> QED BY <1>2, <3>1 DEF LoadField, ParamInv, ParamCellTypeOK, Idle
  <2>4. CellInv' /\ NeverTorn'
    BY <1>2 DEF LoadField, ParamInv, CellInv, NeverTorn, Whole, Idle
  <2>3. LoadInv'
    BY <1>2 DEF LoadField, ParamInv, ParamCellTypeOK, CellInv, LoadInv, Idle
  <2> QED BY <2>2, <2>3, <2>4 DEF ParamInv
<1>3. CASE EndLoad
  <2>1. CASE Settled
    <3>1. copied = Whole(stored)
      BY <1>3, <2>1 DEF EndLoad, Settled, ParamInv, ParamCellTypeOK, LoadInv,
                        Whole
    <3>2. Whole(stored) \in [1 .. Fields -> 0 .. Changes]
      BY DEF ParamInv, ParamCellTypeOK, Whole
    <3>3. ParamCellTypeOK' /\ CellInv' /\ LoadInv'
      BY <1>3, <2>1, <3>1, <3>2 DEF EndLoad, ParamInv, ParamCellTypeOK, CellInv,
                                    LoadInv, Idle
    <3>4. NeverTorn'
      BY <1>3, <2>1, <3>1 DEF EndLoad, ParamInv, ParamCellTypeOK, NeverTorn, Whole
    <3> QED BY <3>3, <3>4 DEF ParamInv
  <2>2. CASE ~Settled
    BY <1>3, <2>2 DEF EndLoad, ParamInv, ParamCellTypeOK, CellInv, LoadInv,
                      NeverTorn, Whole, Idle
  <2> QED BY <2>1, <2>2
<1> QED BY <1>1, <1>2, <1>3 DEF Load

LEMMA CellAlways == ParamCellSpec => []ParamInv
<1>1. ASSUME ParamInv, [ParamCellNext]_cellVars
      PROVE  ParamInv'
  <2>1. CASE UNCHANGED cellVars
    BY <1>1, <2>1 DEF ParamInv, ParamCellTypeOK, CellInv, LoadInv, NeverTorn,
                      Whole, cellVars
  <2> QED BY <1>1, <2>1, StoreStep, LoadStep DEF ParamCellNext, LoadsNothing
<1> QED BY <1>1, ParamStart, PTL DEF ParamCellSpec

\* The callback plays by one change whole, never by half of one and half of
\* another (metronome.rs, ParamCell::load).
THEOREM NotTorn == ParamCellSpec => []NeverTorn
<1>1. ParamInv => NeverTorn
  BY DEF ParamInv
<1> QED BY <1>1, CellAlways, PTL

-----------------------------------------------------------------------------
(* Keeping the recorder armed.                                               *)

HIDE ParamCellAssumption
USE AutoArmAssumption

\* A smallest one among numbers.
LEMMA LeastOf ==
    ASSUME NEW T \in SUBSET Nat, T # {}
    PROVE  \E n \in T : \A k \in T : n <= k
<1>1. PICK n \in T : \A k \in T : ~(<<k, n>> \in OpToRel(<, Nat))
  BY WFMin, NatLessThanWellFounded
<1>2. ASSUME NEW k \in T
      PROVE  n <= k
  <2>1. k \in Nat /\ n \in Nat
    OBVIOUS
  <2>2. <<k, n>> \in Nat \X Nat /\ <<k, n>>[1] = k /\ <<k, n>>[2] = n
    BY <2>1
  <2>3. ~(k < n)
    BY <1>1, <1>2, <2>2 DEF OpToRel
  <2> QED BY <2>1, <2>3
<1> QED BY <1>2

\* There is a longest wait: among the first ones, and so among all.
LEMMA LongestWait ==
    /\ Longest \in Nat /\ Longest >= MeasuringWait
    /\ \A i \in 1 .. Len(Waits) : Waits[i] \in Nat /\ Longest >= Waits[i]
<1>1. /\ Len(Waits) \in Nat /\ DOMAIN Waits = 1 .. Len(Waits) /\ MeasuringWait \in Nat
      /\ \A i \in 1 .. Len(Waits) : Waits[i] \in Nat
  BY LenProperties, ElementOfSeq
<1> DEFINE Value == [i \in 0 .. Len(Waits) |-> IF i = 0 THEN MeasuringWait ELSE Waits[i]]
<1>2. /\ \A i \in 0 .. Len(Waits) : Value[i] \in Nat
      /\ Value[0] = MeasuringWait /\ \A i \in 1 .. Len(Waits) : Value[i] = Waits[i]
  BY <1>1
<1> HIDE DEF Value
<1> DEFINE Unled == {n \in 0 .. Len(Waits) : ~\E i \in 0 .. n : \A j \in 0 .. n : Value[i] >= Value[j]}
<1>3. Unled = {}
  <2> SUFFICES ASSUME Unled # {} PROVE FALSE
    OBVIOUS
  <2>1. PICK n \in Unled : \A k \in Unled : n <= k
    <3>1. Unled \in SUBSET Nat
      OBVIOUS
    <3> HIDE DEF Unled
    <3> QED BY <3>1, LeastOf
  <2>2. n \in Nat /\ n <= Len(Waits)
    BY <1>1
  <2>3. n # 0
    <3>1. SUFFICES ASSUME n = 0 PROVE FALSE
      OBVIOUS
    <3>2. 0 .. n = {0}
      BY <3>1
    <3>3. Value[0] >= Value[0]
      BY <1>1, <1>2
    <3> QED BY <3>2, <3>3
  <2>4. n - 1 \in 0 .. Len(Waits) /\ n - 1 \notin Unled
    <3>1. n - 1 \in Nat /\ n - 1 < n
      BY <2>2, <2>3
    <3>2. n - 1 \in 0 .. Len(Waits)
      BY <1>1, <2>2, <3>1
    <3>3. ~(n <= n - 1)
      BY <2>2
    <3> HIDE DEF Unled
    <3> QED BY <2>1, <3>2, <3>3
  <2>5. PICK i \in 0 .. (n - 1) : \A j \in 0 .. (n - 1) : Value[i] >= Value[j]
    BY <2>4
  <2>9. n \in 0 .. Len(Waits) /\ ~\E k \in 0 .. n : \A j \in 0 .. n : Value[k] >= Value[j]
    OBVIOUS
  <2> HIDE DEF Unled
  <2>6. /\ i \in 0 .. n /\ n \in 0 .. n /\ Value[i] \in Nat /\ Value[n] \in Nat
        /\ \A j \in 0 .. n : j \in 0 .. (n - 1) \/ j = n
        /\ \A j \in 0 .. n : Value[j] \in Nat
    <3>1. ASSUME NEW j \in 0 .. n
          PROVE  j \in 0 .. Len(Waits) /\ (j \in 0 .. (n - 1) \/ j = n)
      <4>1. Len(Waits) \in Nat
        BY <1>1
      <4> QED BY <2>2, <2>3, <4>1
    <3>2. i \in 0 .. n /\ n \in 0 .. n
      BY <2>2, <2>3
    <3> QED BY <1>2, <3>1, <3>2
  <2>7. CASE Value[i] >= Value[n]
    <3>1. \A j \in 0 .. n : Value[i] >= Value[j]
      BY <2>5, <2>6, <2>7
    <3> QED BY <2>6, <2>9, <3>1
  <2>8. CASE ~(Value[i] >= Value[n])
    <3>1. ASSUME NEW j \in 0 .. n PROVE Value[n] >= Value[j]
      <4>1. CASE j = n
        BY <2>6, <4>1
      <4>2. CASE j \in 0 .. (n - 1)
        <5>1. Value[i] >= Value[j] /\ Value[j] \in Nat
          BY <2>5, <2>6, <4>2
        <5> QED BY <2>6, <2>8, <5>1
      <4> QED BY <2>6, <4>1, <4>2
    <3> QED BY <2>6, <2>9, <3>1
  <2> QED BY <2>7, <2>8
<1>4. PICK i \in 0 .. Len(Waits) : \A j \in 0 .. Len(Waits) : Value[i] >= Value[j]
  <2>1. Len(Waits) \in 0 .. Len(Waits)
    BY <1>1
  <2> QED BY <1>3, <2>1
<1> DEFINE times == {Waits[j] : j \in DOMAIN Waits} \cup {MeasuringWait}
           OfAll(w) == \A j \in DOMAIN Waits : w >= Waits[j] /\ w >= MeasuringWait
<1>5. \E w \in times : OfAll(w)
  <2>1. Value[i] \in times
    <3>1. CASE i = 0
      BY <1>2, <3>1
    <3>2. CASE i \in 1 .. Len(Waits)
      BY <1>1, <1>2, <3>2
    <3> QED BY <3>1, <3>2
  <2>2. \A j \in DOMAIN Waits : Value[i] >= Waits[j] /\ Value[i] >= MeasuringWait
    BY <1>1, <1>2, <1>4
  <2> QED BY <2>1, <2>2
<1>6. Longest = CHOOSE w \in times : OfAll(w)
  BY DEF Longest
<1>7. Longest \in times /\ OfAll(Longest)
  <2> HIDE DEF times, OfAll
  <2> QED BY <1>5, <1>6, Zenon
<1>8. 1 \in DOMAIN Waits
  BY <1>1, EmptySeq
<1>9. \A w \in times : w \in Nat
  BY <1>1
<1> QED BY <1>1, <1>7, <1>8, <1>9

Looks ==
    {"rests", "read", "arm", "arming", "armed", "refused", "disarm", "disarming", "disarmed"}
Persons == {"rests", "arming", "armed", "disarming", "disarmed", "set"}
Recorders == {"off", "arming", "armed", "disarming"}
AllPresets == Presets \cup {NoPreset}

\* Where the service and the person are.
ServicePlaces ==
    /\ setting \in AllPresets /\ preset \in AllPresets /\ recorder \in Recorders
    /\ look \in Looks /\ person \in Persons
    /\ seen.preset \in AllPresets /\ seen.recorder \in Recorders

ArmFlags ==
    /\ measuring \in BOOLEAN /\ present \in BOOLEAN /\ willing \in BOOLEAN
    /\ paused \in BOOLEAN /\ wasPresent \in BOOLEAN /\ due \in BOOLEAN /\ spared \in BOOLEAN
    /\ seen.measuring \in BOOLEAN /\ seen.present \in BOOLEAN

ArmTimes ==
    /\ failures \in 0 .. Len(Waits) /\ nextTry \in 0 .. Longest
    /\ absent \in 0 .. Grace + 1 /\ elapsed \in 0 .. Longest /\ sinceTry \in 0 .. Longest

\* What was refused is waited out: since the look that tried last, and what is
\* still to go, make the wait for as many refusals.
Trying == {"arming", "armed", "refused"}
WaitsKept ==
    /\ look = "arm" => nextTry = 0
    /\ look \in Trying => sinceTry = elapsed
    /\ ~spared => failures \in 1 .. Len(Waits)
    /\ ~spared /\ look \notin Trying => sinceTry + nextTry >= Waits[failures]

ArmInv == ServicePlaces /\ ArmFlags /\ ArmTimes /\ WaitsKept

LEMMA ArmStart == AutoArmInit => ArmInv
<1> SUFFICES ASSUME AutoArmInit PROVE ArmInv
  OBVIOUS
<1>1. ServicePlaces
  BY DEF AutoArmInit, ServicePlaces, Looks, Persons, Recorders, AllPresets
<1>2. ArmFlags
  <2>1. measuring \in BOOLEAN /\ present \in BOOLEAN /\ willing \in BOOLEAN
    BY DEF AutoArmInit
  <2>2. paused \in BOOLEAN /\ wasPresent \in BOOLEAN /\ due \in BOOLEAN /\ spared \in BOOLEAN
    BY DEF AutoArmInit
  <2>3. seen.measuring = measuring /\ seen.present = present
    BY DEF AutoArmInit
  <2>4. seen.measuring \in BOOLEAN /\ seen.present \in BOOLEAN
    BY <2>1, <2>3, Zenon
  <2> QED BY <2>1, <2>2, <2>4 DEF ArmFlags
<1>3. ArmTimes
  <2>1. Longest \in Nat /\ Len(Waits) \in Nat /\ Grace \in Nat
    BY LongestWait, LenProperties
  <2> QED BY <2>1 DEF AutoArmInit, ArmTimes, Here
<1>4. WaitsKept
  BY DEF AutoArmInit, WaitsKept, Trying
<1> QED BY <1>1, <1>2, <1>3, <1>4 DEF ArmInv

\* The times are numbers.
LEMMA ArmNumbers ==
    ASSUME ArmTimes
    PROVE  /\ Longest \in Nat /\ Len(Waits) \in Nat \ {0} /\ Grace \in Nat
           /\ failures \in Nat /\ failures <= Len(Waits)
           /\ nextTry \in Nat /\ nextTry <= Longest /\ absent \in Nat /\ absent <= Grace + 1
           /\ elapsed \in Nat /\ elapsed <= Longest /\ sinceTry \in Nat /\ sinceTry <= Longest
           /\ \A i \in 1 .. Len(Waits) : Waits[i] \in Nat /\ Longest >= Waits[i]
           /\ MeasuringWait \in 0 .. Longest
<1>1. Longest \in Nat /\ Len(Waits) \in Nat /\ Len(Waits) # 0 /\ Grace \in Nat
  BY LongestWait, LenProperties, EmptySeq
<1> QED BY <1>1, LongestWait DEF ArmTimes

\* What is waited out is no longer than the longest wait, and makes it with what
\* has passed.
LEMMA WaitedOut ==
    ASSUME ArmTimes, NEW seconds \in 0 .. Longest, NEW left,
           left = IF seconds > elapsed THEN seconds - elapsed ELSE 0
    PROVE  left \in 0 .. Longest /\ elapsed + left >= seconds
<1>1. Longest \in Nat /\ elapsed \in Nat
  BY ArmNumbers
<1>2. CASE seconds > elapsed
  BY <1>1, <1>2
<1>3. CASE ~(seconds > elapsed)
  BY <1>1, <1>3
<1> QED BY <1>2, <1>3

LEMMA SecondKeeps ==
    ASSUME ArmInv, Second
    PROVE  ArmInv'
<1>1. /\ elapsed' = Later(elapsed, Longest) /\ nextTry' = Sooner(nextTry)
      /\ absent' = IF absent = Here THEN Here ELSE Later(absent, Grace + 1)
      /\ sinceTry' = Later(sinceTry, Longest)
      /\ UNCHANGED <<setting, recorder, measuring, present, willing, paused, failures,
                     wasPresent, preset, look, seen, person, spared>>
      /\ due' = TRUE
  BY DEF Second, world
<1>2. ServicePlaces' /\ ArmFlags'
  BY <1>1 DEF ArmInv, ServicePlaces, ArmFlags
<1>n. /\ Longest \in Nat /\ failures \in Nat /\ Grace \in Nat /\ nextTry \in 0 .. Longest
      /\ absent \in 0 .. Grace + 1 /\ elapsed \in 0 .. Longest /\ sinceTry \in 0 .. Longest
      /\ \A i \in 1 .. Len(Waits) : Waits[i] \in Nat /\ Longest >= Waits[i]
  BY ArmNumbers DEF ArmInv, ArmTimes
<1>3. ArmTimes'
  <2>1. elapsed' \in 0 .. Longest /\ nextTry' \in 0 .. Longest /\ sinceTry' \in 0 .. Longest
    BY <1>1, <1>n DEF Later, Sooner
  <2>2. absent' \in 0 .. Grace + 1
    BY <1>1, <1>n DEF Later, Here
  <2> QED BY <1>1, <2>1, <2>2 DEF ArmInv, ArmTimes
<1>4. WaitsKept'
  <2>1. look = "arm" => nextTry' = 0
    BY <1>1, <1>n DEF ArmInv, WaitsKept, Sooner
  <2>2. look \in Trying => sinceTry' = elapsed'
    BY <1>1 DEF ArmInv, WaitsKept
  <2>3. ~spared /\ look \notin Trying => sinceTry' + nextTry' >= Waits[failures]
    <3> SUFFICES ASSUME ~spared, look \notin Trying
                 PROVE  sinceTry' + nextTry' >= Waits[failures]
      OBVIOUS
    <3>1. /\ Waits[failures] \in Nat /\ Longest >= Waits[failures]
          /\ sinceTry + nextTry >= Waits[failures]
      BY <1>n DEF ArmInv, WaitsKept
    <3>2. CASE sinceTry < Longest
      <4>1. sinceTry' = sinceTry + 1
        BY <1>1, <3>2 DEF Later
      <4> QED BY <1>1, <1>n, <3>1, <4>1 DEF Sooner
    <3>3. CASE ~(sinceTry < Longest)
      <4>1. sinceTry' = Longest
        BY <1>1, <1>n, <3>3 DEF Later
      <4> QED BY <1>1, <1>n, <3>1, <4>1 DEF Sooner
    <3> QED BY <3>2, <3>3
  <2> QED BY <1>1, <2>1, <2>2, <2>3 DEF ArmInv, WaitsKept
<1> QED BY <1>2, <1>3, <1>4 DEF ArmInv

LEMMA LookReadsKeeps ==
    ASSUME ArmInv, LookReads
    PROVE  ArmInv'
<1>1. /\ look = "rests" /\ look' = "read" /\ due' = FALSE /\ elapsed' = 0
      /\ seen' = [preset |-> setting, recorder |-> recorder, measuring |-> measuring,
                  present |-> (setting = NoPreset \/ present)]
      /\ UNCHANGED <<setting, recorder, measuring, present, willing, paused, failures, nextTry,
                     absent, wasPresent, preset, person, sinceTry, spared>>
  BY DEF LookReads, world, rules, tries
<1>2. ServicePlaces'
  BY <1>1 DEF ArmInv, ServicePlaces, Looks
<1>3. ArmFlags'
  <2>1. seen'.measuring = measuring /\ seen'.present = (setting = NoPreset \/ present)
    BY <1>1
  <2>2. (setting = NoPreset \/ present) \in BOOLEAN /\ measuring \in BOOLEAN
    BY DEF ArmInv, ArmFlags
  <2>3. seen'.measuring \in BOOLEAN /\ seen'.present \in BOOLEAN
    BY <2>1, <2>2, Zenon
  <2>4. due' \in BOOLEAN
    BY <1>1
  <2> QED BY <1>1, <2>3, <2>4 DEF ArmInv, ArmFlags
<1>4. ArmTimes'
  BY <1>1, ArmNumbers DEF ArmInv, ArmTimes
<1>5. WaitsKept'
  BY <1>1 DEF ArmInv, WaitsKept, Trying
<1> QED BY <1>2, <1>3, <1>4, <1>5 DEF ArmInv

\* A look that goes on to arm has nothing left to wait out.
LEMMA DecideKeeps ==
    ASSUME ArmInv, Decide
    PROVE  ArmInv'
<1> DEFINE over == Fresh \/ Back
           pausedNow == paused /\ ~Fresh
           nextTryNow == IF over THEN 0 ELSE nextTry
<1>1. /\ look = "read" /\ preset' = seen.preset /\ paused' = pausedNow
      /\ failures' = IF over THEN 0 ELSE failures
      /\ nextTry' = nextTryNow /\ absent' = AbsentNow
      /\ wasPresent' = seen.present
      /\ spared' = (spared \/ over)
      /\ UNCHANGED <<setting, recorder, measuring, present, willing, seen, due, elapsed, person,
                     sinceTry>>
  BY DEF Decide, world
<1>2. /\ look' \in {"rests", "disarm", "arm"}
      /\ look' = "arm" => seen.recorder # "armed" /\ ~(seen.recorder = "off" /\ nextTryNow > 0)
                          /\ seen.recorder \notin {"arming", "disarming"}
  BY DEF Decide
<1>n. /\ Longest \in Nat /\ failures \in 0 .. Len(Waits) /\ Grace \in Nat /\ nextTry \in 0 .. Longest
      /\ absent \in 0 .. Grace + 1 /\ Len(Waits) \in Nat
  BY ArmNumbers DEF ArmInv, ArmTimes
<1>3. ServicePlaces'
  BY <1>1, <1>2 DEF ArmInv, ServicePlaces, Looks
<1>4. ArmFlags'
  <2>1. pausedNow \in BOOLEAN /\ (spared \/ over) \in BOOLEAN
    OBVIOUS
  <2>2. paused' \in BOOLEAN /\ spared' \in BOOLEAN
    BY <1>1, <2>1, Zenon
  <2> QED BY <1>1, <2>2 DEF ArmInv, ArmFlags
<1>5. nextTryNow \in 0 .. Longest /\ nextTry' \in 0 .. Longest
  BY <1>1, <1>n
<1>6. ArmTimes'
  <2>1. absent' \in 0 .. Grace + 1
    BY <1>1, <1>n DEF AbsentNow, Here
  <2>2. failures' \in 0 .. Len(Waits)
    BY <1>1, <1>n
  <2> QED BY <1>1, <1>5, <2>1, <2>2 DEF ArmInv, ArmTimes
<1>7. WaitsKept'
  <2>1. look' = "arm" => nextTry' = 0
    <3>1. seen.recorder \in Recorders
      BY DEF ArmInv, ServicePlaces
    <3>2. look' = "arm" => ~(nextTryNow > 0)
      BY <1>2, <3>1 DEF Recorders
    <3> HIDE DEF nextTryNow
    <3> QED BY <1>1, <1>5, <1>n, <3>2
  <2>2. look' \notin Trying
    BY <1>2 DEF Trying
  <2>3. ~spared' => /\ ~spared /\ nextTry' = nextTry /\ failures' = failures
    BY <1>1
  <2>4. look \notin Trying
    BY <1>1 DEF Trying
  <2> QED BY <1>1, <2>1, <2>2, <2>3, <2>4 DEF ArmInv, WaitsKept
<1> QED BY <1>3, <1>4, <1>6, <1>7 DEF ArmInv

LEMMA LookArmsKeeps ==
    ASSUME ArmInv, LookArms
    PROVE  ArmInv'
<1>1. /\ look = "arm"
      /\ UNCHANGED <<setting, measuring, present, willing, paused, failures, absent, wasPresent,
                     preset, seen, due, elapsed, person, spared>>
  BY DEF LookArms
<1>n. /\ Longest \in Nat /\ nextTry \in 0 .. Longest /\ sinceTry \in 0 .. Longest
      /\ elapsed \in 0 .. Longest /\ MeasuringWait \in 0 .. Longest
      /\ \A i \in 1 .. Len(Waits) : Waits[i] \in Nat
  BY ArmNumbers DEF ArmInv, ArmTimes
<1>2. ArmFlags'
  BY <1>1 DEF ArmInv, ArmFlags
<1>3. CASE /\ WaitOut(MeasuringWait) /\ look' = "rests" /\ UNCHANGED <<recorder, sinceTry>>
  <2>1. nextTry' \in 0 .. Longest
    BY <1>3, <1>n, WaitedOut DEF WaitOut, ArmInv
  <2>2. ServicePlaces'
    BY <1>1, <1>3 DEF ArmInv, ServicePlaces, Looks
  <2>3. ArmTimes'
    BY <1>1, <1>3, <2>1 DEF ArmInv, ArmTimes
  <2>4. WaitsKept'
    <3>1. look \notin Trying /\ look' \notin Trying /\ look' # "arm"
      BY <1>1, <1>3 DEF Trying
    <3>2. ~spared => sinceTry + nextTry' >= Waits[failures]
      <4>1. ~spared => failures \in 1 .. Len(Waits) /\ sinceTry + nextTry >= Waits[failures] /\ nextTry = 0
        BY <1>1, <3>1 DEF ArmInv, WaitsKept
      <4> QED BY <1>n, <2>1, <4>1
    <3> QED BY <1>1, <1>3, <3>1, <3>2 DEF ArmInv, WaitsKept
  <2> QED BY <1>2, <2>2, <2>3, <2>4 DEF ArmInv
<1>4. CASE /\ sinceTry' = elapsed /\ nextTry' = nextTry
           /\ \/ recorder' = "arming" /\ look' = "arming"
              \/ recorder' = recorder /\ look' = "refused"
  <2>1. ServicePlaces'
    BY <1>1, <1>4 DEF ArmInv, ServicePlaces, Looks, Recorders
  <2>2. ArmTimes'
    BY <1>1, <1>4 DEF ArmInv, ArmTimes
  <2>3. WaitsKept'
    BY <1>1, <1>4 DEF ArmInv, WaitsKept, Trying
  <2> QED BY <1>2, <2>1, <2>2, <2>3 DEF ArmInv
<1>5. \/ WaitOut(MeasuringWait) /\ look' = "rests" /\ UNCHANGED <<recorder, sinceTry>>
      \/ /\ sinceTry' = elapsed /\ nextTry' = nextTry
         /\ \/ recorder' = "arming" /\ look' = "arming"
            \/ recorder' = recorder /\ look' = "refused"
  BY DEF LookArms
<1> QED BY <1>3, <1>4, <1>5

LEMMA LookIsRefusedKeeps ==
    ASSUME ArmInv, LookIsRefused
    PROVE  ArmInv'
<1>1. /\ look = "refused" /\ look' = "rests" /\ spared' = FALSE
      /\ failures' = Later(failures, Len(Waits)) /\ WaitOut(Waits[failures'])
      /\ UNCHANGED <<setting, recorder, measuring, present, willing, paused, absent, wasPresent,
                     preset, seen, due, elapsed, person, sinceTry>>
  BY DEF LookIsRefused, Refused, world
<1>2. failures' \in 1 .. Len(Waits)
  <2>1. failures \in Nat /\ failures <= Len(Waits) /\ Len(Waits) \in Nat \ {0}
    BY ArmNumbers DEF ArmInv
  <2> QED BY <1>1, <2>1 DEF Later
<1>3. Waits[failures'] \in 0 .. Longest
  BY <1>2, ArmNumbers DEF ArmInv
<1>4. nextTry' \in 0 .. Longest /\ elapsed + nextTry' >= Waits[failures']
  BY <1>1, <1>3, WaitedOut DEF WaitOut, ArmInv
<1>5. ServicePlaces'
  BY <1>1 DEF ArmInv, ServicePlaces, Looks
<1>6. ArmFlags'
  BY <1>1 DEF ArmInv, ArmFlags
<1>7. ArmTimes'
  BY <1>1, <1>2, <1>4 DEF ArmInv, ArmTimes
<1>8. WaitsKept'
  <2>1. sinceTry' = elapsed
    BY <1>1 DEF ArmInv, WaitsKept, Trying
  <2> QED BY <1>1, <1>2, <1>4, <2>1 DEF WaitsKept, Trying
<1> QED BY <1>5, <1>6, <1>7, <1>8 DEF ArmInv

\* The other steps of a look: they leave the rules alone, or nothing was refused.
LEMMA LookKeeps ==
    ASSUME ArmInv, LookArmEnds \/ LookIsArmed \/ LookDisarms \/ LookDisarmEnds
    PROVE  ArmInv'
<1>1. /\ UNCHANGED <<setting, measuring, present, willing, paused, absent, wasPresent, preset, seen,
                     due, elapsed, person, sinceTry>>
      /\ recorder' \in {recorder, "armed", "off", "disarming"}
  BY DEF LookArmEnds, LookIsArmed, LookDisarms, LookDisarmEnds, rules, world, tries
<1>2. \/ /\ failures' = 0 /\ nextTry' = 0 /\ spared' = TRUE /\ look' = "rests"
      \/ /\ failures' = failures /\ nextTry' = nextTry /\ spared' = spared
         /\ \/ look \in Trying /\ look' \in Trying
            \/ look \notin Trying /\ look' \in {"rests", "disarming"}
  BY DEF LookArmEnds, LookIsArmed, LookDisarms, LookDisarmEnds, rules, tries, Trying
<1>3. ServicePlaces'
  BY <1>1, <1>2 DEF ArmInv, ServicePlaces, Looks, Recorders, Trying
<1>4. ArmFlags'
  <2>1. spared' \in BOOLEAN
    BY <1>2 DEF ArmInv, ArmFlags
  <2> QED BY <1>1, <2>1 DEF ArmInv, ArmFlags
<1>5. ArmTimes'
  <2>1. failures' \in 0 .. Len(Waits) /\ nextTry' \in 0 .. Longest
    BY <1>2, ArmNumbers DEF ArmInv, ArmTimes
  <2> QED BY <1>1, <2>1 DEF ArmInv, ArmTimes
<1>6. WaitsKept'
  BY <1>1, <1>2 DEF ArmInv, WaitsKept, Trying
<1> QED BY <1>3, <1>4, <1>5, <1>6 DEF ArmInv

\* A person, a measurement and the interfaces.
LEMMA OthersKeep ==
    ASSUME ArmInv,
           \/ PersonArms \/ PersonArmEnds \/ PersonIsArmed \/ PersonDisarms \/ PersonDisarmEnds
           \/ PersonIsDisarmed \/ PersonSets \/ PersonHasSet \/ MeasurementTurns \/ InterfacesTurn
           \/ UNCHANGED autoArmVars
    PROVE  ArmInv'
<1>1. /\ UNCHANGED <<absent, wasPresent, preset, look, seen, due, elapsed, sinceTry>>
  BY DEF PersonArms, PersonArmEnds, PersonIsArmed, PersonDisarms, PersonDisarmEnds, PersonIsDisarmed,
     PersonSets, PersonHasSet, MeasurementTurns, InterfacesTurn, autoArmVars, rules, looking, tries
<1>2. \/ failures' = failures /\ nextTry' = nextTry /\ spared' = spared
      \/ failures' = 0 /\ nextTry' = 0 /\ spared' = TRUE
  BY DEF PersonArms, PersonArmEnds, PersonIsArmed, PersonDisarms, PersonDisarmEnds, PersonIsDisarmed,
     PersonSets, PersonHasSet, MeasurementTurns, InterfacesTurn, autoArmVars, rules, tries, Resume
<1>3. /\ setting' \in AllPresets /\ recorder' \in Recorders /\ person' \in Persons
  <2>1. setting \in AllPresets /\ recorder \in Recorders /\ person \in Persons
    BY DEF ArmInv, ServicePlaces
  <2>2. setting' \in AllPresets
    BY <2>1 DEF PersonArms, PersonArmEnds, PersonIsArmed, PersonDisarms, PersonDisarmEnds,
       PersonIsDisarmed, PersonSets, PersonHasSet, MeasurementTurns, InterfacesTurn, autoArmVars, world,
       AllPresets
  <2>3. recorder' \in Recorders /\ person' \in Persons
    BY <2>1 DEF PersonArms, PersonArmEnds, PersonIsArmed, PersonDisarms, PersonDisarmEnds,
       PersonIsDisarmed, PersonSets, PersonHasSet, MeasurementTurns, InterfacesTurn, autoArmVars, world,
       Recorders, Persons
  <2> QED BY <2>2, <2>3
<1>4. /\ measuring' \in BOOLEAN /\ present' \in BOOLEAN /\ willing' \in BOOLEAN
      /\ paused' \in BOOLEAN /\ spared' \in BOOLEAN
  <2>1. /\ measuring \in BOOLEAN /\ present \in BOOLEAN /\ willing \in BOOLEAN
        /\ paused \in BOOLEAN /\ spared \in BOOLEAN
    BY DEF ArmInv, ArmFlags
  <2>2. /\ measuring' = measuring \/ measuring' = ~measuring
        /\ present' = present \/ present' = ~present
        /\ willing' = willing \/ willing' = ~willing
    BY Zenon DEF PersonArms, PersonArmEnds, PersonIsArmed, PersonDisarms, PersonDisarmEnds,
       PersonIsDisarmed, PersonSets, PersonHasSet, MeasurementTurns, InterfacesTurn, autoArmVars, world
  <2>3. /\ measuring' \in BOOLEAN /\ present' \in BOOLEAN /\ willing' \in BOOLEAN
    BY <2>1, <2>2
  <2>4. \/ paused' = paused \/ paused' = FALSE \/ paused' = (paused \/ setting # NoPreset)
    BY Zenon DEF PersonArms, PersonArmEnds, PersonIsArmed, PersonDisarms, PersonDisarmEnds,
       PersonIsDisarmed, PersonSets, PersonHasSet, MeasurementTurns, InterfacesTurn, autoArmVars, rules,
       Resume
  <2>5. paused' \in BOOLEAN
    BY <2>1, <2>4
  <2>6. spared' \in BOOLEAN
    BY <1>2, <2>1
  <2> QED BY <2>3, <2>5, <2>6
<1>5. ServicePlaces'
  BY <1>1, <1>3 DEF ArmInv, ServicePlaces
<1>6. ArmFlags'
  BY <1>1, <1>4 DEF ArmInv, ArmFlags
<1>7. ArmTimes'
  <2>1. failures' \in 0 .. Len(Waits) /\ nextTry' \in 0 .. Longest
    BY <1>2, ArmNumbers DEF ArmInv, ArmTimes
  <2> QED BY <1>1, <2>1 DEF ArmInv, ArmTimes
<1>8. WaitsKept'
  BY <1>1, <1>2 DEF ArmInv, WaitsKept
<1> QED BY <1>5, <1>6, <1>7, <1>8 DEF ArmInv

LEMMA ArmAlways == AutoArmSpec => []ArmInv
<1>1. AutoArmInit => ArmInv
  BY ArmStart
<1>2. ArmInv /\ [AutoArmNext]_autoArmVars => ArmInv'
  <2> SUFFICES ASSUME ArmInv, [AutoArmNext]_autoArmVars PROVE ArmInv'
    OBVIOUS
  <2>1. CASE Second
    BY <2>1, SecondKeeps
  <2>2. CASE Look
    BY <2>2, LookReadsKeeps, DecideKeeps, LookArmsKeeps, LookIsRefusedKeeps, LookKeeps DEF Look
  <2>3. CASE PersonArms \/ PersonDisarms \/ PersonSets \/ PersonEnds
    BY <2>3, OthersKeep DEF PersonEnds
  <2>4. CASE MeasurementTurns \/ InterfacesTurn \/ UNCHANGED autoArmVars
    BY <2>4, OthersKeep
  <2> QED BY <2>1, <2>2, <2>3, <2>4 DEF AutoArmNext
<1> QED BY <1>1, <1>2, PTL DEF AutoArmSpec

\* "There is never a tight retry loop": whatever a person does, and whatever
\* comes, goes and refuses between two looks, what was refused is asked again no
\* sooner than its wait (studio/auto_arm.rs).
THEOREM ArmNotTight == AutoArmSpec => NeverTight
<1>1. ArmInv /\ [AutoArmNext]_autoArmVars =>
         [LookArms /\ ~measuring /\ ~spared => sinceTry >= Waits[failures]]_autoArmVars
  <2>1. ASSUME ArmInv, look = "arm", ~spared
        PROVE  sinceTry >= Waits[failures]
    <3>1. nextTry = 0 /\ failures \in 1 .. Len(Waits) /\ sinceTry + nextTry >= Waits[failures]
      BY <2>1 DEF ArmInv, WaitsKept, Trying
    <3> QED BY <2>1, <3>1, ArmNumbers DEF ArmInv
  <2> QED BY <2>1 DEF LookArms
<1> QED BY <1>1, ArmAlways, PTL DEF AutoArmSpec, NeverTight

LEMMA ArmTypesOf == ArmInv => AutoArmTypeOK
BY DEF ArmInv, ServicePlaces, ArmFlags, ArmTimes, AutoArmTypeOK, Looks, Persons, Recorders, AllPresets

HIDE AutoArmAssumption

-----------------------------------------------------------------------------
(* The parts together.                                                       *)

\* A behaviour here is one of each part.
LEMMA LiveParts ==
    /\ LiveSpec => ControlSpec
    /\ LiveSpec => AutoArmSpec
    /\ LiveSpec => TapSpec
    /\ LiveSpec => ParamCellSpec
<1>1. LiveInit => ControlInit /\ AutoArmInit /\ TapInit /\ ParamCellInit
  BY DEF LiveInit
<1>2. [LiveNext]_liveVars =>
         /\ [ControlNext]_controlVars /\ [AutoArmNext]_autoArmVars
         /\ [TapNext]_tapVars /\ [ParamCellNext]_cellVars
  <2>1. CASE LiveNext
    <3>1. /\ ControlNext \/ UNCHANGED controlVars
          /\ AutoArmNext \/ UNCHANGED autoArmVars
          /\ TapNext \/ UNCHANGED tapVars
          /\ ParamCellNext \/ UNCHANGED cellVars
      BY <2>1, SMT DEF LiveNext
    <3> QED BY <3>1
  <2>2. CASE UNCHANGED liveVars
    <3>1. UNCHANGED controlVars /\ UNCHANGED autoArmVars /\ UNCHANGED tapVars /\ UNCHANGED cellVars
      BY <2>2 DEF liveVars
    <3> QED BY <3>1
  <2> QED BY <2>1, <2>2
<1> QED BY <1>1, <1>2, PTL DEF LiveSpec, ControlSpec, AutoArmSpec, TapSpec, ParamCellSpec

\* Around the recorder everything keeps its shape (recorder.rs, auto_arm.rs,
\* host.rs and metronome.rs).
THEOREM LiveTyped == LiveSpec => []LiveTypeOK
<1>1. ControlTypeOK /\ ArmInv /\ TapInv /\ ParamInv => LiveTypeOK
  <2>1. TapInv => TapTypeOK
    BY DEF TapInv
  <2>2. ParamInv => ParamCellTypeOK
    BY DEF ParamInv
  <2>3. ArmInv => AutoArmTypeOK
    BY ArmTypesOf
  <2> QED BY <2>1, <2>2, <2>3 DEF LiveTypeOK
<1> QED BY <1>1, LiveParts, ControlTypes, ArmAlways, TapAlways, CellAlways, PTL
=============================================================================
