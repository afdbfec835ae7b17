----------------------------- MODULE ParamCell -----------------------------
(***************************************************************************)
(* The musical choices, shared by pages and the callback under a sequence  *)
(* number (metronome.rs, ParamCell).  Writers take turns behind a mutex;   *)
(* the reader never waits: it tries once a block, and keeps what it had    *)
(* when it meets a change being written.                                   *)
(*                                                                         *)
(* Each change is a number, and a field holds the number of the change it  *)
(* is of.  The fences of the code keep the stores and loads in the order   *)
(* they are written in, which is the order of the steps here.              *)
(***************************************************************************)
EXTENDS Naturals, Sequences

CONSTANTS
    Fields,     \* fields of the cell: tempo, signature, flags, volume
    Changes     \* bound: changes stored

ASSUME ParamCellAssumption == Fields \in Nat \ {0} /\ Changes \in Nat

VARIABLES
    sequence,   \* the sequence number
    field,      \* per field, the change it holds
    stored,     \* the last change that is whole
    writing,    \* fields the writer has stored, or Idle
    before,     \* the sequence number the reader began with
    copied,     \* what the reader has loaded so far
    reading,    \* whether a load is under way
    taken       \* what the callback plays by: a value for each field

cellVars == <<sequence, field, stored, writing, before, copied, reading, taken>>

Idle == Fields + 1

ParamCellTypeOK ==
    /\ sequence \in Nat /\ before \in Nat /\ stored \in 0 .. Changes
    /\ field \in [1 .. Fields -> 0 .. Changes] /\ taken \in [1 .. Fields -> 0 .. Changes]
    /\ writing \in 0 .. Idle /\ reading \in BOOLEAN
    /\ copied \in Seq(0 .. Changes) /\ Len(copied) <= Fields

Whole(n) == [f \in 1 .. Fields |-> n]

ParamCellInit ==
    /\ sequence = 0 /\ field = Whole(0) /\ stored = 0 /\ writing = Idle
    /\ before = 0 /\ copied = <<>> /\ reading = FALSE /\ taken = Whole(0)

(* The change being stored: one more than the last whole one.              *)
BeginStore ==
    /\ writing = Idle /\ stored < Changes
    /\ writing' = 0
    /\ sequence' = sequence + 1
    /\ UNCHANGED <<field, stored, before, copied, reading, taken>>

StoreField ==
    /\ writing < Fields
    /\ writing' = writing + 1
    /\ field' = [field EXCEPT ![writing + 1] = stored + 1]
    /\ UNCHANGED <<sequence, stored, before, copied, reading, taken>>

EndStore ==
    /\ writing = Fields
    /\ writing' = Idle
    /\ sequence' = sequence + 1
    /\ stored' = stored + 1
    /\ UNCHANGED <<field, before, copied, reading, taken>>

Store == BeginStore \/ StoreField \/ EndStore

(* While a change is being written there is nothing to load.               *)
LoadsNothing == ~reading /\ sequence % 2 = 1 /\ UNCHANGED cellVars

BeginLoad ==
    /\ ~reading /\ sequence % 2 = 0
    /\ before' = sequence /\ copied' = <<>> /\ reading' = TRUE
    /\ UNCHANGED <<sequence, field, stored, writing, taken>>

LoadField ==
    /\ reading /\ Len(copied) < Fields
    /\ copied' = Append(copied, field[Len(copied) + 1])
    /\ UNCHANGED <<sequence, field, stored, writing, before, reading, taken>>

Settled_Unchecked == TRUE
Settled == sequence = before

EndLoad ==
    /\ reading /\ Len(copied) = Fields
    /\ reading' = FALSE
    /\ taken' = IF Settled THEN copied ELSE taken
    /\ UNCHANGED <<sequence, field, stored, writing, before, copied>>

Load == BeginLoad \/ LoadField \/ EndLoad

ParamCellNext == Store \/ Load \/ LoadsNothing

ParamCellSpec == ParamCellInit /\ [][ParamCellNext]_cellVars

-----------------------------------------------------------------------------
(* The callback plays by one change whole, never by half of one and half   *)
(* of another (metronome.rs, load).                                        *)
NeverTorn == \E n \in 0 .. stored : taken = Whole(n)
=============================================================================
