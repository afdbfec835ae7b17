------------------------------ MODULE AutoArm ------------------------------
(***************************************************************************)
(* Keeping the recorder armed: the rules (studio/auto_arm.rs) and the      *)
(* service that acts on them once a second (recording.rs), beside a person *)
(* who arms, disarms and changes the setting, measurements that need the   *)
(* same interfaces, and interfaces that come, go and refuse.               *)
(*                                                                         *)
(* A look reads the world, decides, and then acts, which takes a while;    *)
(* the rules are behind one lock and the recorder behind another, so each  *)
(* is a step of its own.  The recorder is what RecorderControl makes of    *)
(* it, seen from outside.  Moments are counted in seconds still to go.     *)
(***************************************************************************)
EXTENDS Naturals, Sequences, FiniteSets

CONSTANTS
    Presets,        \* presets auto-arm can be set to
    Grace,          \* LOSS_GRACE, in seconds
    MeasuringWait,  \* MEASURING_WAIT
    Waits           \* BACKOFF

ASSUME AutoArmAssumption ==
    /\ Grace \in Nat \ {0} /\ MeasuringWait \in Nat \ {0}
    /\ Waits \in Seq(Nat \ {0}) /\ Waits # <<>>

VARIABLES
    setting,    \* the preset auto-arm is set to, or NoPreset
    recorder,   \* off, arming, armed or disarming
    measuring,  \* a measurement runs
    present,    \* the interfaces are attached
    willing,    \* the drivers open when asked
    paused, failures, nextTry, absent, wasPresent, preset,   \* the rules
    look,       \* where auto-arm's look is
    seen,       \* what it read
    due,        \* a second has passed since the last look
    elapsed,    \* seconds since this look began
    person,     \* what the person's command is at
    sinceTry,   \* history: seconds since the look began that tried last
    spared      \* history: it may try at once: nothing was refused, or that is over

world == <<setting, recorder, measuring, present, willing>>
rules == <<paused, failures, nextTry, absent, wasPresent, preset>>
looking == <<look, seen, due, elapsed>>
tries == <<sinceTry, spared>>
autoArmVars == <<world, rules, looking, person, tries>>

NoPreset == "none"
Longest == CHOOSE w \in {Waits[i] : i \in DOMAIN Waits} \cup {MeasuringWait} :
               \A i \in DOMAIN Waits : w >= Waits[i] /\ w >= MeasuringWait

(* Seconds the interfaces have been gone, one more than that; 0 for not.   *)
Here == 0

AutoArmTypeOK ==
    /\ setting \in Presets \cup {NoPreset} /\ preset \in Presets \cup {NoPreset}
    /\ recorder \in {"off", "arming", "armed", "disarming"}
    /\ {measuring, present, willing, paused, wasPresent, due, spared} \subseteq BOOLEAN
    /\ failures \in 0 .. Len(Waits) /\ nextTry \in 0 .. Longest
    /\ absent \in 0 .. Grace + 1 /\ elapsed \in 0 .. Longest /\ sinceTry \in 0 .. Longest
    /\ look \in {"rests", "read", "arm", "arming", "armed", "refused", "disarm", "disarming", "disarmed"}
    /\ person \in {"rests", "arming", "armed", "disarming", "disarmed", "set"}

AutoArmInit ==
    /\ setting \in Presets \cup {NoPreset}
    /\ recorder = "off" /\ measuring = FALSE /\ present \in BOOLEAN /\ willing \in BOOLEAN
    /\ paused = FALSE /\ failures = 0 /\ nextTry = 0 /\ absent = Here /\ wasPresent = TRUE
    /\ preset = NoPreset
    /\ look = "rests" /\ due = TRUE /\ elapsed = 0
    /\ seen = [preset |-> setting, recorder |-> recorder, measuring |-> measuring, present |-> present]
    /\ person = "rests" /\ sinceTry = Longest /\ spared = TRUE

Later(n, bound) == IF n < bound THEN n + 1 ELSE n
Sooner(n) == IF n > 0 THEN n - 1 ELSE 0

(* Whatever a look decides, it decides for the moment it began.            *)
Second ==
    /\ IF look = "rests" THEN ~due ELSE look # "read"
    /\ due' = TRUE
    /\ elapsed' = Later(elapsed, Longest)
    /\ nextTry' = Sooner(nextTry)
    /\ absent' = IF absent = Here THEN Here ELSE Later(absent, Grace + 1)
    /\ sinceTry' = Later(sinceTry, Longest)
    /\ UNCHANGED <<world, paused, failures, wasPresent, preset, look, seen, person, spared>>

-----------------------------------------------------------------------------
(* The rules.                                                              *)

(* A person armed, or changed the setting: nothing holds it back.          *)
Resume ==
    /\ paused' = FALSE /\ failures' = 0 /\ nextTry' = 0
    /\ spared' = TRUE

(* What decide does to the rules before it looks at the recorder.          *)
Fresh == seen.preset = NoPreset \/ seen.preset # preset
Back == seen.present /\ ~wasPresent

AbsentNow_EachLook == IF seen.present \/ seen.preset = NoPreset THEN Here ELSE 1
AbsentNow ==
    IF seen.present \/ seen.preset = NoPreset THEN Here
    ELSE IF absent = Here THEN 1 ELSE absent

Decide ==
    LET over == Fresh \/ Back
        pausedNow == paused /\ ~Fresh
        nextTryNow == IF over THEN 0 ELSE nextTry
        wait == \/ seen.preset = NoPreset
                \/ seen.recorder = "armed" /\ AbsentNow < Grace + 1
                \/ seen.recorder \in {"arming", "disarming"}
                \/ seen.recorder = "off" /\ (pausedNow \/ seen.measuring \/ ~seen.present \/ nextTryNow > 0)
    IN  /\ look = "read"
        /\ preset' = seen.preset
        /\ paused' = pausedNow
        /\ failures' = IF over THEN 0 ELSE failures
        /\ nextTry' = nextTryNow /\ absent' = AbsentNow
        /\ wasPresent' = seen.present
        /\ spared' = (spared \/ over)
        /\ look' = IF wait THEN "rests" ELSE IF seen.recorder = "armed" THEN "disarm" ELSE "arm"
        /\ UNCHANGED <<world, seen, due, elapsed, person, sinceTry>>

(* A refusal is waited out, counted from when the look began.              *)
WaitOut_ASecondShort(seconds) == nextTry' = IF seconds > elapsed + 1 THEN seconds - elapsed - 1 ELSE 0
WaitOut(seconds) == nextTry' = IF seconds > elapsed THEN seconds - elapsed ELSE 0

Refused ==
    /\ failures' = Later(failures, Len(Waits))
    /\ WaitOut(Waits[failures'])
    /\ spared' = FALSE

-----------------------------------------------------------------------------
(* One look, once a second.                                                *)

LookReads ==
    /\ look = "rests" /\ due
    /\ seen' = [preset |-> setting, recorder |-> recorder, measuring |-> measuring,
                present |-> (setting = NoPreset \/ present)]
    /\ look' = "read" /\ due' = FALSE /\ elapsed' = 0
    /\ UNCHANGED <<world, rules, person, tries>>

(* A measurement that has just begun is waited for, and is no failure.     *)
LookArms ==
    /\ look = "arm"
    /\ IF measuring
       THEN /\ WaitOut(MeasuringWait)
            /\ look' = "rests"
            /\ UNCHANGED <<recorder, sinceTry>>
       ELSE /\ sinceTry' = elapsed
            /\ UNCHANGED nextTry
            /\ IF recorder = "off"
               THEN recorder' = "arming" /\ look' = "arming"
               ELSE UNCHANGED recorder /\ look' = "refused"
    /\ UNCHANGED <<setting, measuring, present, willing, paused, failures, absent, wasPresent, preset,
                   seen, due, elapsed, person, spared>>

LookArmEnds ==
    /\ look = "arming"
    /\ IF willing THEN recorder' = "armed" /\ look' = "armed"
       ELSE recorder' = "off" /\ look' = "refused"
    /\ UNCHANGED <<setting, measuring, present, willing, rules, seen, due, elapsed,
                   person, tries>>

LookIsArmed ==
    /\ look = "armed"
    /\ failures' = 0 /\ nextTry' = 0
    /\ spared' = TRUE
    /\ look' = "rests"
    /\ UNCHANGED <<world, paused, absent, wasPresent, preset, seen, due, elapsed,
                   person, sinceTry>>

LookIsRefused ==
    /\ look = "refused"
    /\ Refused
    /\ look' = "rests"
    /\ UNCHANGED <<world, paused, absent, wasPresent, preset, seen, due, elapsed,
                   person, sinceTry>>

LookDisarms ==
    /\ look = "disarm"
    /\ IF recorder = "armed" THEN recorder' = "disarming" /\ look' = "disarming"
       ELSE UNCHANGED recorder /\ look' = "rests"
    /\ UNCHANGED <<setting, measuring, present, willing, rules, seen, due, elapsed,
                   person, tries>>

LookDisarmEnds ==
    /\ look = "disarming"
    /\ recorder' = "off" /\ look' = "rests"
    /\ UNCHANGED <<setting, measuring, present, willing, rules, seen, due, elapsed,
                   person, tries>>

Look ==
    \/ LookReads \/ Decide \/ LookArms \/ LookArmEnds \/ LookIsArmed \/ LookIsRefused
    \/ LookDisarms \/ LookDisarmEnds

-----------------------------------------------------------------------------
(* The person.                                                             *)

PersonArms ==
    /\ person = "rests" /\ recorder = "off" /\ ~measuring
    /\ recorder' = "arming" /\ person' = "arming"
    /\ UNCHANGED <<setting, measuring, present, willing, rules, looking, tries>>

PersonArmEnds ==
    /\ person = "arming"
    /\ IF willing THEN recorder' = "armed" /\ person' = "armed" ELSE recorder' = "off" /\ person' = "rests"
    /\ UNCHANGED <<setting, measuring, present, willing, rules, looking, tries>>

PersonIsArmed ==
    /\ person = "armed"
    /\ Resume
    /\ person' = "rests"
    /\ UNCHANGED <<world, absent, wasPresent, preset, looking, sinceTry>>

PersonDisarms ==
    /\ person = "rests" /\ recorder = "armed"
    /\ recorder' = "disarming" /\ person' = "disarming"
    /\ UNCHANGED <<setting, measuring, present, willing, rules, looking, tries>>

PersonDisarmEnds ==
    /\ person = "disarming"
    /\ recorder' = "off" /\ person' = "disarmed"
    /\ UNCHANGED <<setting, measuring, present, willing, rules, looking, tries>>

PersonIsDisarmed ==
    /\ person = "disarmed"
    /\ paused' = (paused \/ setting # NoPreset)
    /\ person' = "rests"
    /\ UNCHANGED <<world, failures, nextTry, absent, wasPresent, preset, looking, tries>>

PersonSets ==
    /\ person = "rests"
    /\ setting' \in (Presets \cup {NoPreset}) \ {setting}
    /\ person' = "set"
    /\ UNCHANGED <<recorder, measuring, present, willing, rules, looking, tries>>

PersonHasSet ==
    /\ person = "set"
    /\ Resume
    /\ person' = "rests"
    /\ UNCHANGED <<world, absent, wasPresent, preset, looking, sinceTry>>

PersonEnds == PersonArmEnds \/ PersonIsArmed \/ PersonDisarmEnds \/ PersonIsDisarmed \/ PersonHasSet

-----------------------------------------------------------------------------
(* A measurement is refused while the recorder has the interfaces.         *)
MeasurementTurns ==
    /\ measuring \/ recorder = "off"
    /\ measuring' = ~measuring
    /\ UNCHANGED <<setting, recorder, present, willing, rules, looking, person, tries>>

InterfacesTurn ==
    /\ \/ present' = ~present /\ UNCHANGED willing
       \/ willing' = ~willing /\ UNCHANGED present
    /\ UNCHANGED <<setting, recorder, measuring, rules, looking, person, tries>>

AutoArmNext ==
    \/ Second \/ Look
    \/ PersonArms \/ PersonDisarms \/ PersonSets \/ PersonEnds
    \/ MeasurementTurns \/ InterfacesTurn

AutoArmSpec == AutoArmInit /\ [][AutoArmNext]_autoArmVars

(* Seconds pass, looks go on, and a person's command is carried out.       *)
AutoArmFairSpec ==
    /\ AutoArmSpec
    /\ WF_autoArmVars(Second) /\ WF_autoArmVars(Look) /\ WF_autoArmVars(PersonEnds)

-----------------------------------------------------------------------------
(* "There is never a tight retry loop" (auto_arm.rs): after a refusal      *)
(* auto-arm asks again no sooner than the wait for as many refusals in a   *)
(* row, counted from when its look began, unless the interfaces came back, *)
(* a person armed or the setting changed.                                  *)
NeverTight ==
    [][LookArms /\ ~measuring /\ ~spared => sinceTry >= Waits[failures]]_autoArmVars

(* With a preset set, the interfaces there and willing, no measurement and *)
(* no person in the way, the recorder is armed in the end, whatever was    *)
(* refused before; and while the interfaces are gone for good it lets them *)
(* go (auto_arm.rs, "The rules").                                          *)
Undisturbed == setting # NoPreset /\ person = "rests" /\ ~paused /\ ~measuring
FollowsTheInterfaces ==
    /\ <>[](Undisturbed /\ present /\ willing) => <>[](recorder = "armed")
    /\ <>[](setting # NoPreset /\ person = "rests" /\ ~present) => <>[](recorder = "off")

=============================================================================
