---------------------------- MODULE AggregateRate ----------------------------
(***************************************************************************)
(* One sample rate for every interface (aggregate's aggregate.rs).  The    *)
(* interfaces are moved one after the other; one that refuses has those    *)
(* before it put back.  A driver may say yes and stay where it was; it is  *)
(* opened again and asked again, and asked a last time once its buffers    *)
(* are made.                                                               *)
(*                                                                         *)
(* The calls are the DAW's, under the driver's lock, and so one at a time. *)
(* What an interface's driver answers is its own affair.                   *)
(***************************************************************************)
EXTENDS Naturals

CONSTANTS
    DeviceCount,     \* how many interfaces there are
    Rates           \* the sample rates

ASSUME RateAssumption == DeviceCount \in Nat \ {0} /\ Rates \subseteq Nat \ {0}

NoRate == 0         \* no rate asked for, and the rate of a driver that is closed

VARIABLES
    open,       \* there is a plan
    buffers,     \* the buffers are made
    sounding,
    rate,       \* the aggregate's rate
    askedRate,  \* the rate every interface was last asked for
    was,        \* per interface, the rate it was read at or moved to since
    unsettled,  \* the interfaces to be asked again once their buffers are made
    at,         \* per interface, the rate its driver is at
    call,       \* what is going on: none, moving, putting back, holding
    hz,         \* the rate it is about
    next,       \* the interface it is at
    held,       \* of those moved so far, the ones that held another rate
    opening,    \* the call is init's
    stood,     \* history: where the interfaces were when they were asked to move
    refused,    \* history: the last move was refused
    strayed     \* history: the drivers that moved and then failed, or did not go back

rateVars == <<open, buffers, sounding, rate, askedRate, was, unsettled, at, call, hz, next,
              held, opening, stood, refused, strayed>>

daw == <<open, buffers, sounding>>
told == <<rate, askedRate, was, unsettled>>
step == <<call, hz, next, held, opening>>
history == <<stood, refused, strayed>>

Devices == 1 .. DeviceCount
AnyRate == Rates \cup {NoRate}

RateTypeOK ==
    /\ {open, buffers, sounding, opening, refused} \subseteq BOOLEAN
    /\ {rate, askedRate, hz} \subseteq AnyRate
    /\ {was, at, stood} \subseteq [Devices -> AnyRate]
    /\ unsettled \subseteq Devices /\ held \subseteq Devices /\ strayed \subseteq Devices
    /\ call \in {"none", "moving", "putting back", "holding"} /\ next \in 0 .. DeviceCount + 1

(* Everything was opened and read; the interfaces need not be together.    *)
RateInit ==
    /\ open = FALSE /\ buffers = FALSE /\ sounding = FALSE
    /\ rate = NoRate /\ askedRate = NoRate /\ unsettled = {}
    /\ at \in [Devices -> Rates] /\ was = at
    /\ call = "none" /\ hz = NoRate /\ next = 1 /\ held = {} /\ opening = TRUE
    /\ stood = at /\ refused = FALSE /\ strayed = {}

-----------------------------------------------------------------------------
(* put_at, for a driver that is opened again where nothing has buffers: it *)
(* took the rate, holds another, refused it, before or after it moved, or  *)
(* would not open again.                                                   *)
Took(i, to) == at' = [at EXCEPT ![i] = to]
Holds(i, to) == \E r \in Rates \ {to} : at' = [at EXCEPT ![i] = r]
SaysNo == UNCHANGED at
Fails(i) == \E r \in Rates : at' = [at EXCEPT ![i] = r]
Closes(i) == ~buffers /\ at' = [at EXCEPT ![i] = NoRate]

(* What is let go of is opened and read again by another init.             *)
LetEverythingGo ==
    /\ open' = FALSE /\ buffers' = FALSE /\ sounding' = FALSE
    /\ rate' = NoRate /\ askedRate' = NoRate /\ unsettled' = {}

-----------------------------------------------------------------------------
(* open_everything: with a rate in the file every interface is moved to it *)
(* before there is a plan.                                                 *)
OpenWithNoRate ==
    /\ opening /\ call = "none" /\ ~open
    /\ open' = TRUE /\ opening' = FALSE /\ rate' = was[1]
    /\ UNCHANGED <<buffers, sounding, askedRate, was, unsettled, at, call, hz, next,
                   held, history>>

BeginMoving(to) ==
    /\ call' = "moving" /\ hz' = to /\ next' = 1 /\ held' = {}
    /\ stood' = at /\ refused' = FALSE /\ strayed' = {}

OpenAtARate ==
    /\ opening /\ call = "none" /\ ~open
    /\ \E to \in Rates : BeginMoving(to)
    /\ UNCHANGED <<daw, told, at, opening>>

(* set_rate, once every driver has said it can.                            *)
SetRate ==
    /\ open /\ call = "none" /\ ~sounding
    /\ \E to \in Rates \ {rate} : BeginMoving(to)
    /\ UNCHANGED <<daw, told, at, opening>>

-----------------------------------------------------------------------------
(* move_every_device_to.                                                   *)
Move ==
    /\ call = "moving" /\ next <= DeviceCount
    /\ \/ Took(next, hz) /\ UNCHANGED held
       \/ Holds(next, hz) /\ held' = held \cup {next}
    /\ next' = next + 1
    /\ UNCHANGED <<daw, told, call, hz, opening, history>>

(* The drivers' requests go to the DAW where the buffers are made: it is   *)
(* asked to reset.                                                         *)
AllMoved ==
    /\ call = "moving" /\ next > DeviceCount
    /\ call' = "none"
    /\ was' = [i \in Devices |-> hz] /\ askedRate' = hz /\ unsettled' = held /\ rate' = hz
    /\ open' = TRUE /\ opening' = FALSE
    /\ UNCHANGED <<buffers, sounding, at, hz, next, held, history>>

RefusesToMove ==
    /\ call = "moving" /\ next <= DeviceCount
    /\ \/ SaysNo /\ UNCHANGED strayed
       \/ Fails(next) /\ strayed' = strayed \cup {next}
       \/ Closes(next) /\ strayed' = strayed \cup {next}
    /\ call' = "putting back" /\ refused' = TRUE
    /\ held' = {i \in Devices : i < next} /\ next' = 1
    /\ UNCHANGED <<daw, told, hz, opening, stood>>

(* Each that had moved goes back to the rate it was on itself.             *)
WasOn_TheAggregates(i) == rate
WasOn(i) == was[i]

PutBack ==
    /\ call = "putting back" /\ next \in held
    /\ IF WasOn(next) = NoRate THEN UNCHANGED <<at, strayed>>
       ELSE \/ Took(next, WasOn(next)) /\ UNCHANGED strayed
            \/ Holds(next, WasOn(next)) /\ strayed' = strayed \cup {next}
            \/ SaysNo /\ strayed' = strayed \cup {next}
            \/ Closes(next) /\ strayed' = strayed \cup {next}
    /\ next' = next + 1
    /\ UNCHANGED <<daw, told, call, hz, held, opening, stood, refused>>

(* An aggregate with a hole in it is let go of; an init that is refused    *)
(* leaves no plan.                                                         *)
PutBackEnds ==
    /\ call = "putting back" /\ next \notin held
    /\ call' = "none"
    /\ IF \E i \in Devices : at[i] = NoRate THEN LetEverythingGo
       ELSE UNCHANGED <<daw, rate, askedRate, unsettled>>
    /\ UNCHANGED <<was, at, hz, next, held, opening, history>>

(* The DAW, or a reload, opens it all again: the drivers say where they    *)
(* are.                                                                    *)
OpenAgain ==
    /\ ~open /\ call = "none" /\ (refused \/ ~opening)
    /\ at' \in {f \in [Devices -> Rates] : \A i \in Devices : at[i] # NoRate => f[i] = at[i]}
    /\ was' = at' /\ opening' = TRUE /\ refused' = FALSE
    /\ UNCHANGED <<daw, rate, askedRate, unsettled, call, hz, next, held, stood, strayed>>

-----------------------------------------------------------------------------
(* create_buffers.  Some drivers move with their buffers; each is looked   *)
(* at once more, one that is not where it was asked to be is asked again,  *)
(* and one that still is not refuses (hold_after_buffers).                 *)
AsksForBuffers ==
    /\ open /\ ~buffers /\ call = "none"
    /\ at' \in [Devices -> Rates]
    /\ call' = "holding" /\ next' = 1 /\ refused' = FALSE
    /\ UNCHANGED <<daw, told, hz, held, opening, stood, strayed>>

LooksAgain(i) == at[i] # askedRate

HoldAfterBuffers ==
    /\ call = "holding" /\ next <= DeviceCount
    /\ IF askedRate # NoRate /\ LooksAgain(next) THEN Took(next, askedRate) ELSE UNCHANGED at
    /\ next' = next + 1
    /\ UNCHANGED <<daw, told, call, hz, held, opening, history>>

WillNotBeHeld ==
    /\ call = "holding" /\ next <= DeviceCount
    /\ askedRate # NoRate /\ LooksAgain(next)
    /\ call' = "none"
    /\ \/ Fails(next) /\ UNCHANGED <<daw, rate, askedRate>> /\ unsettled' = {}
       \/ Closes(next) /\ LetEverythingGo
    /\ UNCHANGED <<was, hz, next, held, opening, history>>

BuffersMade ==
    /\ call = "holding" /\ next > DeviceCount
    /\ buffers' = TRUE /\ unsettled' = {} /\ call' = "none"
    /\ UNCHANGED <<open, sounding, rate, askedRate, was, at, hz, next, held, opening, history>>

StartsAtRate ==
    /\ buffers /\ ~sounding /\ call = "none"
    /\ sounding' = TRUE
    /\ UNCHANGED <<open, buffers, told, at, step, history>>

LetsGoOfBuffers ==
    /\ buffers /\ call = "none"
    /\ buffers' = FALSE /\ sounding' = FALSE
    /\ UNCHANGED <<open, told, at, step, history>>

RateNext ==
    \/ OpenWithNoRate \/ OpenAtARate \/ OpenAgain \/ SetRate
    \/ Move \/ AllMoved \/ RefusesToMove \/ PutBack \/ PutBackEnds
    \/ AsksForBuffers \/ HoldAfterBuffers \/ WillNotBeHeld \/ BuffersMade
    \/ StartsAtRate \/ LetsGoOfBuffers

RateSpec == RateInit /\ [][RateNext]_rateVars

-----------------------------------------------------------------------------
(* Every interface moves, or none does: after a move that was refused each *)
(* is where it was, or where it was known to be, but for one whose driver  *)
(* failed after it had moved, or would not go back (aggregate.rs,          *)
(* move_every_device_to).                                                  *)
AllMoveOrNone ==
    refused /\ call = "none" =>
        \A i \in Devices \ strayed : at[i] \in {stood[i], was[i]}

(* A session at two rates is worse than none (aggregate.rs,                *)
(* hold_after_buffers), so there is none.                                  *)
OneRate ==
    sounding /\ askedRate # NoRate => \A i \in Devices : at[i] = askedRate

=============================================================================
