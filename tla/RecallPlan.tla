----------------------------- MODULE RecallPlan -----------------------------
(***************************************************************************)
(* Preparing the recall of a snapshot (snapshot/plan.rs, writers.rs): each *)
(* interface's recorded values are compared with what it has now, every    *)
(* difference becomes the command that undoes it, the commands of an       *)
(* interface are put in a safe order between silencing its outputs and     *)
(* restoring them, and the interfaces' commands are brought into stages.   *)
(*                                                                         *)
(* A Quadro is silenced by its hard mute, a Studio output by output.       *)
(* Levels are dB of attenuation: a smaller number is louder.  Of the many  *)
(* values one or two of each kind that is ordered or guarded differently   *)
(* are kept.                                                               *)
(***************************************************************************)
EXTENDS Integers, Sequences, SequencesExt, FiniteSets

CONSTANTS
    InterfaceCount, \* how many interfaces the snapshot has, in the order of their ids
    Quadros,        \* the ones that have a hard mute and dim
    Differences,    \* bound: values that are not as they were
    Outages         \* bound: stretches of commands whose bytes cannot be made

Interfaces == 1 .. InterfaceCount

ASSUME RecallAssumption ==
    /\ InterfaceCount \in Nat \ {0} /\ Quadros \subseteq Interfaces
    /\ Differences \in Nat /\ Outages \in Nat

None == -1
RaiseThreshold == 6
PARTS == <<"silence", "clock", "inputs", "phantom", "routing", "mixer", "outputs", "restore">>
NeedsConfirming == {"phantom", "clock"}
DefaultOn == ToSet(PARTS) \ NeedsConfirming

(* The members of a set, in an order R (pairs) that has no ties.           *)
InOrder(S, R) ==
    [i \in 1 .. Cardinality(S) |->
        CHOOSE x \in S : Cardinality({y \in S : <<y, x>> \in R}) = i - 1]

Of(kind, id) == [kind |-> kind, id |-> id]
Strips == {Of("strip", 0), Of("strip", 1)}
Mutes == {Of("mute", 0), Of("mute", 1)}
Hard == Of("hard", 0)
Plain == {Of("clock", 0), Of("type", 0), Of("phantom", 0), Of("routing", 0), Of("volume", 0)}

Targets(d) == Strips \cup Mutes \cup Plain \cup (IF d \in Quadros THEN {Hard, Of("dim", 0)} ELSE {})

(* A mixer strip is two recorded values and one command.                   *)
Fields(t) == IF t.kind = "strip" THEN {"level", "pan"} ELSE {"value"}
Values(d) == UNION {{[of |-> t, field |-> f] : f \in Fields(t)} : t \in Targets(d)}

PartOf(t) ==
    CASE t.kind = "strip" -> "mixer"
      [] t.kind = "type" -> "inputs"
      [] t.kind = "volume" -> "outputs"
      [] t.kind \in {"mute", "dim", "hard"} -> "restore"
      [] OTHER -> t.kind

(* The stage of a part, and the place of a command in it: the inputs and   *)
(* 48V are one stage.                                                      *)
StageOf(part) ==
    CASE part = "clock" -> 1 [] part \in {"inputs", "phantom"} -> 4 [] part = "routing" -> 5
      [] part = "mixer" -> 6 [] part = "outputs" -> 7 [] OTHER -> 8

Within(t) ==
    CASE t.kind = "type" -> 1 [] t.kind = "phantom" -> 6 [] t.kind = "dim" -> 3
      [] t.kind = "mute" -> 4 [] t.kind = "hard" -> 9 [] OTHER -> 0

VARIABLES
    asking,   \* the request: parts chosen, parts confirmed, raises confirmed
    recorded, \* per interface, the snapshot's values, or None
    current,  \* per interface, its values now, or None when they were not read
    planning, \* which interface is planned next, or what is done with the whole
    steps     \* the plan: commands, each with what holds it back

recallVars == <<asking, recorded, current, planning, steps>>

Staging == InterfaceCount + 1
Rendering == Staging + 1
Done == Staging + 2

-----------------------------------------------------------------------------
(* The inputs that are tried: what a value of each kind was and is.        *)

Pairs(v) ==
    CASE v.field = "level" -> {<<4, 4>>, <<8, 4>>, <<2, 4>>, <<2, None>>}
      [] v.field = "pan" -> {<<4, 4>>, <<2, 4>>, <<None, 4>>}
      [] v.of.kind = "volume" -> {<<9, 9>>, <<2, 9>>, <<3, 9>>, <<2, None>>}
      [] v.of.kind \in {"mute", "hard"} -> {<<0, 0>>, <<1, 0>>, <<0, 1>>, <<None, 0>>}
      [] v.of.kind = "phantom" -> {<<0, 0>>, <<1, 0>>, <<0, 1>>}
      [] OTHER -> {<<0, 0>>, <<1, 0>>}

AsItWas(v) == IF v.field # "value" THEN <<4, 4>> ELSE IF v.of.kind = "volume" THEN <<9, 9>> ELSE <<0, 0>>

Unlike(v) == Pairs(v) \ {AsItWas(v)}

Places == UNION {{<<d, v>> : v \in Values(d)} : d \in Interfaces}
Captures ==
    UNION {{[d \in Interfaces |->
               [v \in Values(d) |-> IF <<d, v>> \in DOMAIN f THEN f[<<d, v>>] ELSE AsItWas(v)]] :
              f \in {g \in [D -> UNION {Unlike(x[2]) : x \in D}] : \A x \in D : g[x] \in Unlike(x[2])}} :
           D \in {ToSet(p) : p \in [1 .. Differences -> Places]}}

Askings ==
    {[parts |-> DefaultOn, confirm |-> {}, raised |-> FALSE],
     [parts |-> ToSet(PARTS), confirm |-> NeedsConfirming, raised |-> TRUE],
     [parts |-> ToSet(PARTS) \ {"restore"}, confirm |-> {"clock"}, raised |-> FALSE]}

RecallInit ==
    /\ asking \in Askings
    /\ \E cs \in Captures :
          /\ recorded = [d \in Interfaces |-> [v \in Values(d) |-> cs[d][v][1]]]
          /\ current = [d \in Interfaces |-> [v \in Values(d) |-> cs[d][v][2]]]
    /\ planning = 1 /\ steps = <<>>

-----------------------------------------------------------------------------
(* Planning one interface.  One that is not attached, or not wanted, has   *)
(* no commands, like one that has no differences.                          *)

Differs(d, v) == recorded[d][v] # current[d][v]

(* A value the snapshot does not hold is excluded.                         *)
Recallable(d, v) == Differs(d, v) /\ recorded[d][v] # None
Wanted(d) == {v.of : v \in {w \in Values(d) : Recallable(d, w)}}

(* Whatever else is sent, every output is restored afterwards.             *)
RestoreTargets(d) == Mutes \cup (IF d \in Quadros THEN {Hard} ELSE {})

(* As if only the mutes that differ were restored.                         *)
ToBuild_WhatDiffers(d) == Wanted(d)

ToBuild(d) == IF Wanted(d) = {} THEN {} ELSE Wanted(d) \cup RestoreTargets(d)

(* The value that says which way a command moves: a strip's level if that  *)
(* is among the differences, and otherwise the one there is.               *)
Telling(d, t) ==
    LET level == [of |-> t, field |-> "level"]
    IN  IF t.kind # "strip" THEN [of |-> t, field |-> "value"]
        ELSE IF Recallable(d, level) THEN level ELSE [of |-> t, field |-> "pan"]

Louder(d, t) ==
    /\ t.kind = "strip"
    /\ current[d][Telling(d, t)] # None
    /\ recorded[d][Telling(d, t)] < current[d][Telling(d, t)]

(* The order within an interface: quieter first within the mixer.          *)
Key(d, t) == <<StageOf(PartOf(t)), IF Louder(d, t) THEN 1 ELSE 0, Within(t), t.id>>
Before(d, t, u) ==
    \E i \in 1 .. 4 : /\ Key(d, t)[i] < Key(d, u)[i]
                      /\ \A j \in 1 .. i - 1 : Key(d, t)[j] = Key(d, u)[j]

Buildable(d, t) == \A f \in Fields(t) : recorded[d][[of |-> t, field |-> f]] # None
RestoreIncomplete(d) == \E t \in ToBuild(d) \cap RestoreTargets(d) : ~Buildable(d, t)

(* What holds a command back: a raise beyond the threshold, or from a      *)
(* level nobody could read, that was not confirmed; a part not chosen, or  *)
(* not confirmed.                                                          *)
Raises(d, t) ==
    LET v == [of |-> t, field |-> "value"]
    IN  /\ t.kind = "volume" /\ Recallable(d, v)
        /\ current[d][v] # None => current[d][v] - recorded[d][v] > RaiseThreshold

HeldBack(d, t) ==
    \/ Raises(d, t) /\ ~asking.raised
    \/ PartOf(t) \notin asking.parts
    \/ PartOf(t) \in NeedsConfirming \ asking.confirm

Step(d, t, part, value, blocked) ==
    [of |-> d, target |-> t, part |-> part, value |-> value, blocked |-> blocked]

SilencingTargets(d) == IF d \in Quadros THEN {Hard} ELSE Mutes
SilenceSteps(d) ==
    LET ts == InOrder(SilencingTargets(d), {p \in Mutes \X Mutes : p[1].id < p[2].id})
    IN  [i \in DOMAIN ts |-> Step(d, ts[i], "silence", 1, RestoreIncomplete(d))]

Ordered(d) ==
    InOrder({t \in ToBuild(d) : Buildable(d, t)},
            {p \in ToBuild(d) \X ToBuild(d) : Before(d, p[1], p[2])})

(* With a restore that cannot be built, all of the interface is held back. *)
StepsOf(d) ==
    IF ToBuild(d) = {} THEN <<>>
    ELSE SilenceSteps(d)
           \o [i \in DOMAIN Ordered(d) |->
                 LET t == Ordered(d)[i]
                 IN  Step(d, t, PartOf(t), recorded[d][Telling(d, t)],
                          HeldBack(d, t) \/ RestoreIncomplete(d))]

PlanInterface ==
    /\ planning < Staging
    /\ steps' = steps \o StepsOf(planning)
    /\ planning' = planning + 1
    /\ UNCHANGED <<asking, recorded, current>>

(* The commands at some places, in an order of these.                      *)
Taken(s, is, R) ==
    LET kept == InOrder(is, R)
    IN  [i \in DOMAIN kept |-> s[kept[i]]]

(* Across the interfaces, in the order of the parts, keeping it within.    *)
Position(part) == CHOOSE p \in DOMAIN PARTS : PARTS[p] = part
Staged(s) ==
    {p \in (DOMAIN s) \X (DOMAIN s) :
        LET one == Position(s[p[1]].part)
            two == Position(s[p[2]].part)
        IN  one < two \/ (one = two /\ p[1] < p[2])}

BroughtIntoStages ==
    /\ planning = Staging
    /\ steps' = Taken(steps, DOMAIN steps, Staged(steps))
    /\ planning' = Rendering
    /\ UNCHANGED <<asking, recorded, current>>

(* render: each command is asked for by itself, of an interface that is    *)
(* looked up anew.  One whose bytes cannot be made is taken out, whichever *)
(* it is: a value that does not fit it, or the commands of an interface    *)
(* that is away for a while.                                               *)
Without(s, is) ==
    Taken(s, DOMAIN s \ is, {p \in (DOMAIN s) \X (DOMAIN s) : p[1] < p[2]})

Stretches == {{}} \cup {{i \in j .. k : steps[i].of = steps[j].of} : j, k \in DOMAIN steps}
Unrendered == {UNION {f[o] : o \in 1 .. Outages} : f \in [1 .. Outages -> Stretches]}

Render ==
    /\ planning = Rendering
    /\ \E lost \in Unrendered : steps' = Without(steps, lost)
    /\ planning' = Done
    /\ UNCHANGED <<asking, recorded, current>>

RecallDone == planning = Done /\ UNCHANGED recallVars

RecallNext == PlanInterface \/ BroughtIntoStages \/ Render \/ RecallDone

RecallSpec == RecallInit /\ [][RecallNext]_recallVars

-----------------------------------------------------------------------------
(* What would be heard, if the commands nothing holds back were sent.      *)

Ready == {i \in DOMAIN steps : ~steps[i].blocked}
Changes == {i \in Ready : steps[i].part \notin {"silence", "restore"}}
Writes(d, t, k) == {i \in Ready : i <= k /\ steps[i].of = d /\ steps[i].target = t}
Muted(d, t, k) ==
    LET ws == Writes(d, t, k)
    IN  IF ws = {} THEN current[d][[of |-> t, field |-> "value"]] = 1
        ELSE steps[CHOOSE i \in ws : \A j \in ws : j <= i].value = 1
Silent(d, k) == (d \in Quadros /\ Muted(d, Hard, k)) \/ \A t \in Mutes : Muted(d, t, k)

(* What silences an interface is all there to be sent.                     *)
StillSilenced(d) ==
    \A t \in SilencingTargets(d) :
        \E i \in Ready : steps[i].part = "silence" /\ steps[i].of = d /\ steps[i].target = t

(* In the plan as it is built every interface is silenced before any of    *)
(* them is written to, nothing is let be heard until everything is in      *)
(* place, and an interface's dim is set before it is (plan.rs, build); and *)
(* that stays so, of an interface whose silencing could be rendered, in    *)
(* what is left when other commands could not be (plan.rs, render).        *)
QuietThroughout ==
    planning \in {Rendering, Done} =>
        /\ \A k, i \in Changes :
              planning = Rendering \/ StillSilenced(steps[i].of) => Silent(steps[i].of, k)
        /\ \A k \in Ready :
              /\ steps[k].target.kind = "dim"
              /\ planning = Rendering \/ StillSilenced(steps[k].of)
              => Silent(steps[k].of, k)

(* "Every device is silenced before any of them is written to" (plan.rs,   *)
(* build), of the plan that is answered: when the silencing of an          *)
(* interface could not be rendered, what changes it is still there.        *)
SilencedFirst == planning = Done => \A i \in Changes : Silent(steps[i].of, i)

(* A plan as it is built leaves every output it silences as the snapshot   *)
(* had it, unless the request holds the restoring back (plan.rs, build: "a *)
(* plan that silences the outputs and cannot put them back is not one to   *)
(* run").                                                                  *)
SilencedComesBack ==
    planning = Rendering /\ "restore" \in asking.parts =>
        \A i \in Ready : \A t \in RestoreTargets(steps[i].of) :
            Muted(steps[i].of, t, Len(steps)) <=> recorded[steps[i].of][[of |-> t, field |-> "value"]] = 1

(* A strip that is cut moves before one that is raised, where both levels  *)
(* are known (plan.rs, sort_mixer_quieter_first).                          *)
LevelMoves(k, way) ==
    LET s == steps[k]
        v == [of |-> s.target, field |-> "level"]
    IN  /\ s.part = "mixer" /\ current[s.of][v] # None
        /\ way = "up" => recorded[s.of][v] < current[s.of][v]
        /\ way = "down" => recorded[s.of][v] > current[s.of][v]

QuieterFirst ==
    planning = Rendering =>
        \A i, j \in Ready :
            steps[i].of = steps[j].of /\ LevelMoves(i, "up") /\ LevelMoves(j, "down") => j < i

=============================================================================
