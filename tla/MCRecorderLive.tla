--------------------------- MODULE MCRecorderLive ---------------------------
(***************************************************************************)
(* What must come to an end around the recorder: commands, auto-arm's      *)
(* trying, and taking the tap off the callback; and the cell the callback  *)
(* reads the click's settings from.  Each part has its own behaviours.     *)
(***************************************************************************)
EXTENDS RecorderControl, AutoArm, TapHandover, ParamCell

VARIABLE part

liveVars == <<part, controlVars, autoArmVars, tapVars, cellVars>>

SomeWaits == <<1, 2>>

LiveInit ==
    /\ part \in {"control", "autoArm", "tap", "cell"}
    /\ ControlInit /\ AutoArmInit /\ TapInit /\ ParamCellInit
    /\ part # "autoArm" => setting = NoPreset /\ present /\ willing

LiveNext ==
    \/ part = "control" /\ ControlNext /\ UNCHANGED <<part, autoArmVars, tapVars, cellVars>>
    \/ part = "autoArm" /\ AutoArmNext /\ UNCHANGED <<part, controlVars, tapVars, cellVars>>
    \/ part = "tap" /\ TapNext /\ UNCHANGED <<part, controlVars, autoArmVars, cellVars>>
    \/ part = "cell" /\ ParamCellNext /\ UNCHANGED <<part, controlVars, autoArmVars, tapVars>>

(* The fairness of the parts, as their modules justify it.                 *)
LiveSpec ==
    /\ LiveInit /\ [][LiveNext]_liveVars
    /\ \A c \in Clients : WF_liveVars(part = "control" /\ CommandStep(c) /\ UNCHANGED <<part,
                                                                                        autoArmVars,
                                                                                        tapVars,
                                                                                        cellVars>>)
    /\ \A n \in 1 .. Commands :
          WF_liveVars(part = "control" /\ n \in DOMAIN host /\ HostThread(n)
                      /\ UNCHANGED <<part, autoArmVars, tapVars, cellVars>>)
    /\ WF_liveVars(part = "autoArm" /\ Second
                   /\ UNCHANGED <<part, controlVars, tapVars, cellVars>>)
    /\ WF_liveVars(part = "autoArm" /\ Look
                   /\ UNCHANGED <<part, controlVars, tapVars, cellVars>>)
    /\ WF_liveVars(part = "autoArm" /\ PersonEnds
                   /\ UNCHANGED <<part, controlVars, tapVars, cellVars>>)
    /\ WF_liveVars(part = "tap" /\ Switch /\ UNCHANGED <<part, controlVars,
                                                         autoArmVars, cellVars>>)
    /\ \A t \in Takers : SF_liveVars(part = "tap" /\ TakeBack(t) /\ UNCHANGED <<part,
                                                                                controlVars,
                                                                                autoArmVars,
                                                                                cellVars>>)

LiveTypeOK == ControlTypeOK /\ AutoArmTypeOK /\ TapTypeOK /\ ParamCellTypeOK

-----------------------------------------------------------------------------
(* What is begun ends: a command of a client, and taking the tap off the   *)
(* callback (recorder.rs; host.rs, detach).                                *)
BegunEnds == CommandsEnd /\ DetachAnswers

=============================================================================
