-------------------------- MODULE AggregateStream --------------------------
(***************************************************************************)
(* Two interfaces as one (aggregate's stream.rs): the master's callback    *)
(* drives everything, and a follower's callback hands over what it heard   *)
(* and plays what it was left, each through a ring.  The master declares a *)
(* follower that stops calling back stalled, mutes it, and trusts it again *)
(* once it has called back often enough.                                   *)
(*                                                                         *)
(* The rings are the queues AggregateRing shows them to be.  Of a block    *)
(* only this is kept: whether it was made before its follower was last     *)
(* declared gone.  The follower may be held up between any two steps; that *)
(* is what a stall is.                                                     *)
(***************************************************************************)
EXTENDS Naturals, Sequences

CONSTANTS
    RingBlocks,           \* blocks a ring carries: ring_buffers - 1
    StallAfter,     \* stall_after_buffers
    RecoverAfter    \* recover_after_buffers

ASSUME StreamAssumption ==
    RingBlocks \in Nat \ {0} /\ StallAfter \in Nat \ {0} /\ RecoverAfter \in Nat \ {0}

VARIABLES
    running,        \* the audio is let through
    stalled, mute,  \* what the master says of the follower: stalled, mute_out
    called,         \* the follower has called back since the master last looked
    missed, moving, \* the master's Watch of it
    inRing, outRing,
    follower,       \* where the follower's callback is
    muted,          \* what it found when it began
    hears,          \* the block it is handing over: "new", or "old"
    master,         \* where the master's callback is
    lateOut, lateIn \* history: old blocks played, and heard, since it was declared gone

streamVars == <<running, stalled, mute, called, missed, moving, inRing, outRing, follower,
                muted, hears, master, lateOut, lateIn>>

Ages == {"new", "old"}

StreamTypeOK ==
    /\ running \in BOOLEAN /\ stalled \in BOOLEAN /\ mute \in BOOLEAN
    /\ called \in BOOLEAN /\ muted \in BOOLEAN
    /\ missed \in 0 .. StallAfter /\ moving \in 0 .. RecoverAfter
    /\ inRing \in Seq(Ages) /\ Len(inRing) <= RingBlocks
    /\ outRing \in Seq(Ages) /\ Len(outRing) <= RingBlocks
    /\ follower \in {"out", "called", "playing", "handing"} /\ hears \in Ages
    /\ master \in {"out", "gather", "scatter", "watch", "says"}
    /\ {lateOut, lateIn} \subseteq 0 .. RingBlocks + 1

StreamInit ==
    /\ running = FALSE /\ stalled = FALSE /\ mute = FALSE /\ called = FALSE
    /\ missed = 0 /\ moving = 0 /\ inRing = <<>> /\ outRing = <<>>
    /\ follower = "out" /\ muted = FALSE /\ hears = "new" /\ master = "out"
    /\ lateOut = 0 /\ lateIn = 0

Pushed_PastFull(ring, age) == Append(ring, age)
Pushed(ring, age) == IF Len(ring) < RingBlocks THEN Append(ring, age) ELSE ring

(* What taking the oldest block of a ring adds to a count of old ones.     *)
Older(ring) == IF ring # <<>> /\ Head(ring) = "old" THEN 1 ELSE 0
Popped(ring) == IF ring = <<>> THEN ring ELSE Tail(ring)

-----------------------------------------------------------------------------
(* Stream::run and halt, from the DAW's thread.  What is in the rings and  *)
(* what the master knows of the follower stays.                            *)
RunOrHalt ==
    /\ running' = ~running
    /\ UNCHANGED <<stalled, mute, called, missed, moving, inRing, outRing, follower, muted,
                   hears, master, lateOut, lateIn>>

-----------------------------------------------------------------------------
(* The follower (follower_callback).                                       *)

(* Device_callback counts it before anything else is looked at.            *)
FollowerCalls ==
    /\ follower = "out"
    /\ called' = TRUE
    /\ follower' = "called" /\ hears' = "new"
    /\ UNCHANGED <<running, stalled, mute, missed, moving, inRing, outRing, muted, master,
                   lateOut, lateIn>>

LooksMuted ==
    /\ follower = "called"
    /\ muted' = (mute \/ ~running)
    /\ follower' = "playing"
    /\ UNCHANGED <<running, stalled, mute, called, missed, moving, inRing, outRing, hears,
                   master, lateOut, lateIn>>

(* Muted, it throws away what was left while it was away, and plays        *)
(* silence; else it plays the oldest block it was left.                    *)
Kept_LeftThere(ring) == ring
Kept(ring) == <<>>

Plays ==
    /\ follower = "playing"
    /\ outRing' = IF muted THEN Kept(outRing) ELSE Popped(outRing)
    /\ lateOut' = IF muted THEN lateOut ELSE lateOut + Older(outRing)
    /\ follower' = "handing"
    /\ UNCHANGED <<running, stalled, mute, called, missed, moving, inRing, muted, hears,
                   master, lateIn>>

HandsOver ==
    /\ follower = "handing"
    /\ inRing' = IF ~muted /\ running THEN Pushed(inRing, hears) ELSE inRing
    /\ follower' = "out"
    /\ UNCHANGED <<running, stalled, mute, called, missed, moving, outRing, muted, hears,
                   master, lateOut, lateIn>>

FollowerCallback == FollowerCalls \/ LooksMuted \/ Plays \/ HandsOver

-----------------------------------------------------------------------------
(* The master (master_callback).  It is alone: a driver does not call back *)
(* on two threads at once.  While halted it plays silence.                 *)

MasterCalls ==
    /\ master = "out"
    /\ master' = IF running THEN "gather" ELSE "out"
    /\ UNCHANGED <<running, stalled, mute, called, missed, moving, inRing, outRing, follower,
                   muted, hears, lateOut, lateIn>>

(* The follower's inputs, or silence for one that is stalled.              *)
Gather ==
    /\ master = "gather"
    /\ IF stalled
       THEN UNCHANGED <<inRing, lateIn>>
       ELSE inRing' = Popped(inRing) /\ lateIn' = lateIn + Older(inRing)
    /\ master' = "scatter"
    /\ UNCHANGED <<running, stalled, mute, called, missed, moving, outRing, follower, muted,
                   hears, lateOut>>

(* What the DAW wrote, to a follower that is there to play it.             *)
Scatter ==
    /\ master = "scatter"
    /\ outRing' = IF stalled THEN outRing ELSE Pushed(outRing, "new")
    /\ master' = "watch"
    /\ UNCHANGED <<running, stalled, mute, called, missed, moving, inRing, follower, muted,
                   hears, lateOut, lateIn>>

(* Who is still with us (watch_devices): the master reads how often the    *)
(* follower has called back, and only then says what it makes of it; the   *)
(* follower may call back in between, any number of times.                 *)
Missed == IF called THEN 0 ELSE IF missed < StallAfter THEN missed + 1 ELSE missed
Moving == IF called THEN IF moving < RecoverAfter THEN moving + 1 ELSE moving ELSE 0

LooksForCalls ==
    /\ master = "watch"
    /\ called' = FALSE /\ missed' = Missed /\ moving' = Moving
    /\ master' = "says"
    /\ UNCHANGED <<running, stalled, mute, inRing, outRing, follower, muted, hears, lateOut,
                   lateIn>>

(* Declared gone, its rings' blocks and the one it is handing over are     *)
(* old; the master drops what it was handed.                               *)
Aged(ring) == [i \in DOMAIN ring |-> "old"]

Dropped(ring) == <<>>

IsGone == ~stalled /\ missed >= StallAfter

DeclareGone ==
    /\ IsGone
    /\ stalled' = TRUE /\ mute' = TRUE
    /\ inRing' = Dropped(inRing) /\ outRing' = Aged(outRing) /\ hears' = "old"
    /\ lateOut' = 0 /\ lateIn' = 0

Trusts == moving >= RecoverAfter

TrustAgain ==
    /\ stalled /\ Trusts
    /\ stalled' = FALSE /\ mute' = FALSE
    /\ UNCHANGED <<inRing, outRing, hears, lateOut, lateIn>>

Unchanged ==
    /\ ~IsGone /\ ~(stalled /\ Trusts)
    /\ UNCHANGED <<stalled, mute, inRing, outRing, hears, lateOut, lateIn>>

WatchDevices ==
    /\ master = "says"
    /\ DeclareGone \/ TrustAgain \/ Unchanged
    /\ master' = "out"
    /\ UNCHANGED <<running, called, missed, moving, follower, muted>>

MasterCallback == MasterCalls \/ Gather \/ Scatter \/ LooksForCalls \/ WatchDevices

StreamNext == RunOrHalt \/ FollowerCallback \/ MasterCallback

StreamSpec == StreamInit /\ [][StreamNext]_streamVars

-----------------------------------------------------------------------------
(* "Throw away what was left while it was away, so it never plays late."   *)
(* (stream.rs, follower_callback; ring.rs, drain) but for the one block it *)
(* was about to play when it was declared gone.  Not so where two          *)
(* callbacks are enough to be trusted again: one may have begun before it  *)
(* was declared gone and yet be counted after, and the other is counted    *)
(* before it reads mute_out, which the master may have cleared by then.    *)
NeverPlaysLate == lateOut <= 1

(* A follower that was declared gone is heard at most by the one block it  *)
(* was handing over, of all it made before (stream.rs, watch_devices,      *)
(* which drains what it handed over).                                      *)
NothingOldIsHeard == lateIn <= 1

(* A follower that was declared gone plays at most the one block it was    *)
(* about to play, and is heard at most by the one it was handing over, of  *)
(* all that was made before: what it missed is not played when it comes    *)
(* back, where three callbacks are asked for before it is trusted          *)
(* (ring.rs, drain; stream.rs, watch_devices).                             *)
NothingOldComesBack == NeverPlaysLate /\ NothingOldIsHeard

=============================================================================
