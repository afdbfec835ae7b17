----------------------------- MODULE MCRecorder -----------------------------
(***************************************************************************)
(* The two halves of the recorder's session that pages press buttons of:   *)
(* who holds the interfaces, and the click.  They meet only where          *)
(* RecorderControl's Block says what a block makes of the click, so a      *)
(* behaviour here is one of either part.                                   *)
(***************************************************************************)
EXTENDS RecorderControl, Metronome, TLC

VARIABLE part

recorderVars == <<part, controlVars, metronomeVars>>

(* Three samples to two ticks, of either note, and a tick a sample with    *)
(* two to the beat.                                                        *)
SomeSettings ==
    {[pace |-> <<3, 2>>, beats |-> 2, note |-> 4, per |-> 1],
     [pace |-> <<3, 2>>, beats |-> 2, note |-> 8, per |-> 1],
     [pace |-> <<1, 1>>, beats |-> 1, note |-> 4, per |-> 2]}

RecorderInit ==
    /\ part \in {"control", "metronome"}
    /\ ControlInit /\ MetronomeInit
    /\ part = "control" => choice = CHOOSE c \in Settings : TRUE

RecorderNext ==
    \/ part = "control" /\ ControlNext /\ UNCHANGED <<part, metronomeVars>>
    \/ part = "metronome" /\ MetronomeNext /\ UNCHANGED <<part, controlVars>>

RecorderSpec == RecorderInit /\ [][RecorderNext]_recorderVars

RecorderTypeOK == ControlTypeOK /\ MetronomeTypeOK

Interchangeable == Permutations(Clients)

=============================================================================
