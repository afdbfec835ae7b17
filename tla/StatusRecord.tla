---------------------------- MODULE StatusRecord ----------------------------
(***************************************************************************)
(* The aggregate driver's status record: a named section that driver       *)
(* processes write and Gazelle reads (aggregate-status, publish.rs and     *)
(* read.rs).  A gate admits one writer at a time; under it a sequence      *)
(* number is odd while the area is being written.  The audio thread tries  *)
(* the gate once, the other threads wait for it, the reader never waits.   *)
(*                                                                         *)
(* The area is two halves that hold the number of the write they are of.   *)
(* A process may be killed at any step: the section outlives it for as     *)
(* long as another driver or the reader has it mapped, as it was left.     *)
(***************************************************************************)
EXTENDS Naturals, FiniteSets

CONSTANTS
    Drivers,    \* processes that load the driver
    Attempts,   \* how often a read tries: ATTEMPTS
    Writes,     \* bound: writes
    Kills       \* bound: drivers unloaded or killed

ASSUME RecordAssumption == Attempts \in Nat \ {0} /\ Writes \in Nat /\ Kills \in Nat

VARIABLES
    section,    \* the named section exists
    header,     \* and its magic and version are written
    gate,       \* TAKEN
    sequence,
    half,       \* the two halves of the area
    current,    \* the write the area holds whole, the last that was finished
    writes,     \* writes begun so far, the number of the one under the gate
    kills,      \* drivers gone so far
    loaded,       \* per driver: not loaded, mapping the section, publishing, silent
    writing,    \* per driver and thread, where it is in an update
    reader,       \* where the reader is
    attempt,    \* attempts made
    before,     \* the sequence number this attempt began with
    copy,       \* what this attempt copied
    newest       \* what was current when this attempt began

recordVars == <<section, header, gate, sequence, half, current, writes, kills, loaded, writing,
                reader, attempt, before, copy, newest>>

Threads == {"audio", "watcher"}
Nobody == [d \in Drivers |-> [t \in Threads |-> "idle"]]

RecordTypeOK ==
    /\ section \in BOOLEAN /\ header \in BOOLEAN /\ gate \in BOOLEAN
    /\ {sequence, before} \subseteq 0 .. 2 * Writes
    /\ half \in [1 .. 2 -> 0 .. Writes] /\ copy \in [1 .. 2 -> 0 .. Writes]
    /\ {current, newest, writes} \subseteq 0 .. Writes
    /\ loaded \in [Drivers -> {"out", "created", "found", "publishing", "silent"}]
    /\ writing \in [Drivers -> [Threads -> {"idle", "wants", "gated", "odd", "torn", "whole", "even"}]]
    /\ reader \in {"idle", "begin", "copying", "half", "copied", "answered", "busy"}
    /\ attempt \in 0 .. Attempts /\ kills \in 0 .. Kills

RecordInit ==
    /\ section = FALSE /\ header = FALSE /\ gate = FALSE /\ sequence = 0
    /\ half = <<0, 0>> /\ current = 0 /\ writes = 0 /\ kills = 0
    /\ loaded = [d \in Drivers |-> "out"] /\ writing = Nobody
    /\ reader = "idle" /\ attempt = 0 /\ before = 0 /\ copy = <<0, 0>> /\ newest = 0

readVars == <<reader, attempt, before, copy, newest>>
areaVars == <<section, header, gate, sequence, half, current>>

-----------------------------------------------------------------------------
(* A driver takes the section: whoever made it writes its header, whoever  *)
(* found one refuses it while that is not there.                           *)

Load(d) ==
    /\ loaded[d] = "out"
    /\ loaded' = [loaded EXCEPT ![d] = IF section THEN "found" ELSE "created"]
    /\ section' = TRUE
    /\ UNCHANGED <<header, gate, sequence, half, current, writes, kills, writing, readVars>>

(* Its first update puts the area back to nothing, waiting for the gate.   *)
FirstUpdate(d) == writing' = [writing EXCEPT ![d]["watcher"] = "wants"]

WriteHeader(d) ==
    /\ loaded[d] = "created"
    /\ loaded' = [loaded EXCEPT ![d] = "publishing"]
    /\ header' = TRUE /\ gate' = FALSE /\ sequence' = 0
    /\ half' = <<0, 0>> /\ current' = 0
    /\ FirstUpdate(d)
    /\ UNCHANGED <<section, writes, kills, readVars>>

CheckHeader(d) ==
    /\ loaded[d] = "found"
    /\ IF header
       THEN loaded' = [loaded EXCEPT ![d] = "publishing"] /\ FirstUpdate(d)
       ELSE loaded' = [loaded EXCEPT ![d] = "silent"] /\ UNCHANGED writing
    /\ UNCHANGED <<areaVars, writes, kills, readVars>>

(* Unloaded or killed, at any step: its mapping goes, and the section with *)
(* the last one.                                                           *)
Reading == reader \in {"begin", "copying", "half", "copied"}

Unload(d) ==
    /\ loaded[d] # "out" /\ kills < Kills
    /\ kills' = kills + 1
    /\ loaded' = [loaded EXCEPT ![d] = "out"]
    /\ writing' = [writing EXCEPT ![d] = Nobody[d]]
    /\ section' = (Reading \/ \E e \in Drivers \ {d} : loaded[e] # "out")
    /\ header' = (header /\ section')
    /\ UNCHANGED <<gate, sequence, half, current, writes, readVars>>

-----------------------------------------------------------------------------
(* An update.                                                              *)

Step(d, t, from, to) ==
    /\ writing[d][t] = from
    /\ writing' = [writing EXCEPT ![d][t] = to]

(* A thread other than the audio's wants to write.                         *)
Wants(d) ==
    /\ loaded[d] = "publishing" /\ writes < Writes
    /\ Step(d, "watcher", "idle", "wants")
    /\ UNCHANGED <<areaVars, writes, kills, loaded, readVars>>

GateOpen == ~gate

(* The gate: tried once by the audio, and by the others until it is free.  *)
TakeGate(d, t) ==
    /\ loaded[d] = "publishing" /\ GateOpen /\ writes < Writes
    /\ Step(d, t, IF t = "audio" THEN "idle" ELSE "wants", "gated")
    /\ gate' = TRUE /\ writes' = writes + 1
    /\ UNCHANGED <<section, header, sequence, half, current, kills, loaded, readVars>>

(* The block whose update was skipped is written by the next one.          *)
Skip(d) ==
    /\ loaded[d] = "publishing" /\ ~GateOpen /\ writing[d]["audio"] = "idle"
    /\ UNCHANGED recordVars

(* The seqlock's writing half: odd, write, even.                           *)
BeginWrite(d, t) ==
    /\ Step(d, t, "gated", "odd")
    /\ sequence' = sequence + 1
    /\ UNCHANGED <<section, header, gate, half, current, writes, kills, loaded, readVars>>

WriteHalf(d, t) ==
    /\ \/ Step(d, t, "odd", "torn") /\ half' = [half EXCEPT ![1] = writes]
       \/ Step(d, t, "torn", "whole") /\ half' = [half EXCEPT ![2] = writes]
    /\ UNCHANGED <<section, header, gate, sequence, current, writes, kills, loaded, readVars>>

EndWrite(d, t) ==
    /\ Step(d, t, "whole", "even")
    /\ sequence' = sequence + 1
    /\ current' = writes
    /\ UNCHANGED <<section, header, gate, half, writes, kills, loaded, readVars>>

FreeGate(d, t) ==
    /\ Step(d, t, "even", "idle")
    /\ gate' = FALSE
    /\ UNCHANGED <<section, header, sequence, half, current, writes, kills, loaded, readVars>>

Update(d, t) ==
    TakeGate(d, t) \/ BeginWrite(d, t) \/ WriteHalf(d, t) \/ EndWrite(d, t) \/ FreeGate(d, t)

-----------------------------------------------------------------------------
(* A read: Gazelle opens the section for each one, and looks a bounded     *)
(* number of times.                                                        *)

Open ==
    /\ ~Reading /\ section /\ header
    /\ reader' = "begin" /\ attempt' = 0
    /\ UNCHANGED <<areaVars, writes, kills, loaded, writing, before, copy, newest>>

(* No driver has published: the page is told so.                           *)
NothingToOpen == ~Reading /\ ~(section /\ header) /\ UNCHANGED recordVars

ReadEnds(how) ==
    /\ reader' = how
    /\ section' = (\E d \in Drivers : loaded[d] # "out")
    /\ header' = (header /\ section')

Even_Unlooked == TRUE
Even == sequence % 2 = 0

BeginAttempt ==
    /\ reader = "begin"
    /\ IF attempt = Attempts
       THEN ReadEnds("busy") /\ UNCHANGED <<attempt, before, newest>>
       ELSE /\ attempt' = attempt + 1
            /\ before' = sequence /\ newest' = current
            /\ reader' = IF Even THEN "copying" ELSE "begin"
            /\ UNCHANGED <<section, header>>
    /\ UNCHANGED <<gate, sequence, half, current, writes, kills, loaded, writing, copy>>

(* The copy is of one half and then the other.                             *)
CopyHalf ==
    /\ \/ reader = "copying" /\ copy' = <<half[1], copy[2]>> /\ reader' = "half"
       \/ reader = "half" /\ copy' = <<copy[1], half[2]>> /\ reader' = "copied"
    /\ UNCHANGED <<areaVars, writes, kills, loaded, writing, attempt, before, newest>>

Unmoved == sequence = before

EndAttempt ==
    /\ reader = "copied"
    /\ IF Unmoved
       THEN ReadEnds("answered")
       ELSE reader' = "begin" /\ UNCHANGED <<section, header>>
    /\ UNCHANGED <<gate, sequence, half, current, writes, kills, loaded, writing,
                   attempt, before, copy, newest>>

Read == Open \/ NothingToOpen \/ BeginAttempt \/ CopyHalf \/ EndAttempt

-----------------------------------------------------------------------------
RecordNext ==
    \/ Read
    \/ \E d \in Drivers :
          \/ Load(d) \/ WriteHeader(d) \/ CheckHeader(d) \/ Unload(d) \/ Wants(d) \/ Skip(d)
          \/ \E t \in Threads : Update(d, t)

RecordSpec == RecordInit /\ [][RecordNext]_recordVars

(* A read never tells half of one write and half of another, nor an area   *)
(* from before it began (read.rs, read_watching), though drivers come and  *)
(* go and die anywhere meanwhile.                                          *)
ReadsAreWhole == reader = "answered" => copy[1] = copy[2] /\ copy[1] >= newest

(* An update that waits for the gate gets it.  Not so: a driver killed     *)
(* with the gate taken leaves it taken to the drivers that share the       *)
(* section.                                                                *)
UpdatesEnd ==
    \A d \in Drivers :
        writing[d]["watcher"] = "wants" ~> (writing[d]["watcher"] # "wants" \/ writes = Writes)

=============================================================================
