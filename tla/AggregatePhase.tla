--------------------------- MODULE AggregatePhase ---------------------------
(***************************************************************************)
(* Lining the interfaces up (aggregate's plan.rs, hold_back; phase.rs;     *)
(* stream.rs).  Each input is held back until it meets the longest path.   *)
(* A session measures where each follower's capture started, with a burst  *)
(* over a cable, and lines every input up again; a session started again   *)
(* measures again.                                                         *)
(*                                                                         *)
(* One unit is one of the 32-sample steps the interfaces move in.  A       *)
(* measurement is how many steps the capture is from its reference, or     *)
(* "off" the grid.                                                         *)
(***************************************************************************)
EXTENDS Integers, FiniteSets, FiniteSetsExt

CONSTANTS
    Followers,  \* the interfaces that do not drive the callback
    Paths,      \* their reported input paths, in steps, the block of the ring included
    MasterPath, \* the master's
    Limit,      \* LIMIT: the largest correction, in steps
    Uses        \* what a session does with a measurement: "line up", "no reference", "measure only"

ASSUME PhaseAssumption ==
    /\ Paths \in [Followers -> Nat] /\ MasterPath \in Nat /\ Limit \in Nat
    /\ IsFiniteSet(Followers) /\ Uses \subseteq {"line up", "no reference", "measure only"}

VARIABLES
    how,        \* per follower, what this plan does with its measurement
    rearm,      \* the next block starts the measurements again
    detector,   \* per follower: waiting, listening, done
    measured,   \* per follower, the steps it moved from its reference, phase_measured
    state,      \* per follower, phase_state
    applied,    \* per follower, phase_applied
    pad,        \* per interface, what its input is held back by
    latency     \* input_latency

phaseVars == <<how, rearm, detector, measured, state, applied, pad, latency>>

Master == "master"
Interfaces == Followers \cup {Master}

Path(i) == IF i = Master THEN MasterPath ELSE Paths[i]

Longest(paths) == Max({paths[i] : i \in Interfaces})

(* hold_back, of devices that are lined up.                                *)
HoldBack(paths) == [i \in Interfaces |-> Longest(paths) - paths[i]]

Reported == [i \in Interfaces |-> Path(i)]
PlannedPad == HoldBack(Reported)

(* What a measurement may come to: steps within the limit, steps past it,  *)
(* off the grid, or nothing before the window closed.                      *)
OffTheGrid == Limit + 2
Nothing == Limit + 3
Outcomes == -Limit - 1 .. Limit + 3

(* Every input's delay was made with room for what a measurement comes to. *)
Room_ForOne(i) == PlannedPad[i] + Limit
Room(i) == PlannedPad[i] + 2 * Limit

PhaseTypeOK ==
    /\ how \in [Followers -> Uses] /\ rearm \in BOOLEAN
    /\ detector \in [Followers -> {"waiting", "listening", "done"}]
    /\ measured \in [Followers -> Outcomes]
    /\ state \in [Followers -> {"measuring", "applied", "no reference", "measured only",
                                "not heard", "off the grid", "too far"}]
    /\ applied \in [Followers -> -Limit .. Limit]
    /\ pad \in [Interfaces -> Nat] /\ latency \in Nat

PhaseInit ==
    /\ how \in [Followers -> Uses]
    /\ rearm = FALSE
    /\ detector = [f \in Followers |-> "waiting"]
    /\ measured = [f \in Followers |-> 0]
    /\ state = [f \in Followers |-> "measuring"]
    /\ applied = [f \in Followers |-> 0]
    /\ pad = PlannedPad /\ latency = Longest(Reported)

-----------------------------------------------------------------------------
(* The DAW starts the audio, without having let go of the buffers (run).   *)
Run ==
    /\ rearm' = TRUE
    /\ UNCHANGED <<how, detector, measured, state, applied, pad, latency>>

(* start_measuring_again: the phase is another number every session.       *)
PadAgain == PlannedPad

StartMeasuringAgain ==
    /\ rearm /\ rearm' = FALSE
    /\ detector' = [f \in Followers |-> "waiting"]
    /\ measured' = [f \in Followers |-> 0]
    /\ state' = [f \in Followers |-> "measuring"]
    /\ applied' = [f \in Followers |-> 0]
    /\ pad' = PadAgain /\ latency' = Longest(Reported)
    /\ UNCHANGED how

(* The burst goes out once the callbacks are in step (emits_on).           *)
Emit ==
    /\ ~rearm
    /\ \E f \in Followers :
          /\ detector[f] = "waiting"
          /\ detector' = [detector EXCEPT ![f] = "listening"]
    /\ UNCHANGED <<how, rearm, measured, state, applied, pad, latency>>

(* decide: what becomes of a measurement.                                  *)
Decided(f, m) ==
    CASE m = Nothing               -> "not heard"
      [] m # Nothing /\ how[f] = "measure only" -> "measured only"
      [] m # Nothing /\ how[f] = "no reference" -> "no reference"
      [] how[f] = "line up" /\ m = OffTheGrid   -> "off the grid"
      [] how[f] = "line up" /\ m \in {-Limit - 1, Limit + 1} -> "too far"
      [] how[f] = "line up" /\ m \in -Limit .. Limit -> "applied"

(* line_up_again: the plan's arithmetic over the paths as measured.  What  *)
(* does not fit is not applied at all.                                     *)
Corrected(by) == [i \in Interfaces |-> IF i = Master THEN MasterPath ELSE Paths[i] + by[i]]

Fits(by) == \A i \in Interfaces : HoldBack(Corrected(by))[i] <= Room(i)

LineUpAgain(by, states) ==
    /\ Fits(by)
    /\ applied' = by /\ state' = states
    /\ pad' = HoldBack(Corrected(by)) /\ latency' = Longest(Corrected(by))

PutBackAll(by, states) ==
    /\ ~Fits(by)
    /\ applied' = [f \in Followers |-> IF states[f] = "applied" THEN 0 ELSE by[f]]
    /\ state' = [f \in Followers |-> IF states[f] = "applied" THEN "too far" ELSE states[f]]
    /\ UNCHANGED <<pad, latency>>

(* A block in which some measurements come to an end.                      *)
Listen ==
    /\ ~rearm
    /\ \E heard \in SUBSET {f \in Followers : detector[f] = "listening"} \ {{}} :
       \E m \in [heard -> Outcomes] :
          LET Now(f) == IF f \in heard THEN Decided(f, m[f]) ELSE state[f]
              states == [f \in Followers |-> Now(f)]
              by     == [f \in Followers |-> IF f \notin heard THEN applied[f]
                                             ELSE IF Now(f) = "applied" THEN m[f] ELSE 0]
          IN  /\ detector' = [f \in Followers |-> IF f \in heard THEN "done" ELSE detector[f]]
              /\ measured' = [f \in Followers |-> IF f \in heard THEN m[f] ELSE measured[f]]
              /\ IF \E f \in heard : by[f] # 0
                 THEN LineUpAgain(by, states) \/ PutBackAll(by, states)
                 ELSE applied' = by /\ state' = states /\ UNCHANGED <<pad, latency>>
    /\ UNCHANGED <<how, rearm>>

PhaseNext == Run \/ StartMeasuringAgain \/ Emit \/ Listen

PhaseSpec == PhaseInit /\ [][PhaseNext]_phaseVars

-----------------------------------------------------------------------------
(* Every input, with what it is corrected and held back by, comes to the   *)
(* latency the DAW is told, whatever was measured in which order and       *)
(* however often the audio was started again: half an alignment is never   *)
(* applied (stream.rs, line_up_again).                                     *)
InputsLinedUp ==
    \A i \in Interfaces :
        Path(i) + (IF i = Master THEN 0 ELSE applied[i]) + pad[i] = latency

(* The room the delays were made with is enough for every combination of   *)
(* corrections: none that was decided on is given up for want of it.       *)
NoneIsGivenUp ==
    \A f \in Followers : detector[f] = "done" =>
        /\ state[f] = Decided(f, measured[f])
        /\ applied[f] = IF state[f] = "applied" THEN measured[f] ELSE 0

LinedUp == InputsLinedUp /\ NoneIsGivenUp

=============================================================================
