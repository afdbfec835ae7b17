--------------------------- MODULE DeviceManager ---------------------------
(***************************************************************************)
(* The table of connected interfaces and its workers.                      *)
(*                                                                         *)
(* A scanner thread lists the bus, detaches what is no longer listed and   *)
(* opens what is new (hotplug.rs).  Each interface opened gets a worker    *)
(* thread that serves its requests one by one; a worker that finds its     *)
(* interface gone removes its own entry (manager.rs, worker.rs).  Clients  *)
(* hold clones of a worker's channel (handle.rs) across both.  Quitting    *)
(* stops the scanner and then detaches what is left (main.rs).             *)
(*                                                                         *)
(* Workers are numbered in the order they are spawned; 0 is no worker.     *)
(***************************************************************************)
EXTENDS Naturals, Sequences, FiniteSets, SequencesExt

CONSTANTS
    Devices,    \* interfaces, by the id a replug keeps
    Requests,   \* requests of clients
    Troubles    \* bound: times the bus unplugs, glitches, or refuses to open

ASSUME ManagerAssumption ==
    IsFiniteSet(Devices) /\ "shutdown" \notin Requests /\ Troubles \in Nat

VARIABLES
    plugged,    \* the interfaces on the bus
    troubles,   \* how much trouble the bus has made so far
    entries,    \* the table: the worker of each attached interface, or 0
    deviceOf,   \* per worker spawned, the interface it serves
    thread,     \* per worker, where its thread is
    connected,  \* per worker, whether its handle of the interface still works
    box,        \* per worker, its channel: requests, and "shutdown"
    memory,     \* per interface, the worker whose reports are remembered, or 0
    said,       \* per worker, the events sent of it: added, then removed
    told,       \* what a client that took in every event believes attached
    scanner,    \* where the scanner is
    present,    \* what the scan under way listed
    attached,   \* what the scanner attached and has not seen go
    leaving,    \* the worker whose detach is waited for, or 0
    main,       \* where quitting is
    holds,      \* per request, the worker whose handle it has
    req         \* per request, how far it is

busVars == <<plugged, troubles>>
eventVars == <<said, told>>
tableVars == <<entries, deviceOf, memory, eventVars>>
workerVars == <<thread, connected, box>>
scanVars == <<scanner, present, attached>>
clientVars == <<holds, req>>
managerVars == <<busVars, tableVars, workerVars, scanVars, leaving, main, clientVars>>

Workers == DOMAIN thread
InTable == {d \in Devices : entries[d] # 0}

ManagerTypeOK ==
    /\ plugged \subseteq Devices /\ attached \subseteq Devices /\ present \subseteq Devices
    /\ troubles \in 0 .. Troubles
    /\ entries \in [Devices -> 0 .. Len(thread)] /\ memory \in [Devices -> 0 .. Len(thread)]
    /\ deviceOf \in Seq(Devices) /\ Len(deviceOf) = Len(thread)
    /\ thread \in Seq({"serving", "gone", "removed", "forgot", "ended"})
    /\ connected \in Seq(BOOLEAN) /\ box \in Seq(Seq(Requests \cup {"shutdown"}))
    /\ said \in Seq(Nat) /\ told \subseteq Devices
    /\ scanner \in {"idle", "listed", "opening", "stopped"}
    /\ leaving \in 0 .. Len(thread)
    /\ main \in {"running", "stopping", "closing", "off"}
    /\ holds \in [Requests -> 0 .. Len(thread)]
    /\ req \in [Requests -> {"new", "holding", "sent", "answered", "gone"}]

ManagerInit ==
    /\ plugged \in SUBSET Devices /\ troubles = 0
    /\ entries = [d \in Devices |-> 0] /\ memory = [d \in Devices |-> 0]
    /\ deviceOf = <<>> /\ thread = <<>> /\ connected = <<>> /\ box = <<>> /\ said = <<>>
    /\ told = {}
    /\ scanner = "idle" /\ present = {} /\ attached = {}
    /\ leaving = 0 /\ main = "running"
    /\ holds = [r \in Requests |-> 0] /\ req = [r \in Requests |-> "new"]

-----------------------------------------------------------------------------
(* The bus.                                                                *)

Plug(d) ==
    /\ d \notin plugged
    /\ plugged' = plugged \cup {d}
    /\ UNCHANGED <<troubles, tableVars, workerVars, scanVars, leaving, main, clientVars>>

(* An interface is pulled out, or its handle goes bad while it stays.      *)
Disturb(d, out) ==
    /\ troubles < Troubles /\ troubles' = troubles + 1
    /\ d \in plugged
    /\ plugged' = IF out THEN plugged \ {d} ELSE plugged
    /\ connected' = [w \in Workers |-> connected[w] /\ deviceOf[w] # d]
    /\ UNCHANGED <<tableVars, thread, box, scanVars, leaving, main, clientVars>>

-----------------------------------------------------------------------------
(* The scanner.                                                            *)

(* What the scanner keeps as attached once a worker may have given up.     *)
StillThere(ds) == {d \in ds : entries[d] # 0}

(* List the bus; what a worker gave up on is forgotten, to be opened anew. *)
List ==
    /\ scanner = "idle" /\ main = "running"
    /\ scanner' = "listed"
    /\ present' = plugged
    /\ attached' = StillThere(attached)
    /\ UNCHANGED <<busVars, tableVars, workerVars, leaving, main, clientVars>>

(* A listing that fails detaches nothing.                                  *)
ListFails ==
    /\ scanner = "idle" /\ main = "running"
    /\ troubles < Troubles /\ troubles' = troubles + 1
    /\ UNCHANGED <<plugged, tableVars, workerVars, scanVars, leaving, main, clientVars>>

(* detach takes the entry out and asks its worker to stop; when a worker   *)
(* has taken its own entry out there is nothing to do.                     *)
DetachBegins(d) ==
    /\ leaving = 0
    /\ IF entries[d] = 0
       THEN UNCHANGED <<entries, box, leaving>>
       ELSE /\ leaving' = entries[d]
            /\ entries' = [entries EXCEPT ![d] = 0]
            /\ box' = IF thread[entries[d]] = "serving"
                      THEN [box EXCEPT ![entries[d]] = Append(@, "shutdown")] ELSE box

(* detach joins the thread, forgets what was seen of it and tells clients. *)
Joined(w) == thread[w] = "ended"
DetachEnds ==
    /\ leaving # 0 /\ Joined(leaving)
    /\ memory' = [memory EXCEPT ![deviceOf[leaving]] = 0]
    /\ said' = [said EXCEPT ![leaving] = @ + 1]
    /\ told' = told \ {deviceOf[leaving]}
    /\ leaving' = 0
    /\ UNCHANGED <<busVars, entries, deviceOf, workerVars, scanVars, main, clientVars>>

DetachUnlisted(d) ==
    /\ scanner = "listed" /\ d \in attached \ present
    /\ attached' = attached \ {d}
    /\ DetachBegins(d)
    /\ UNCHANGED <<busVars, deviceOf, memory, eventVars, thread, connected, scanner,
                   present, main, clientVars>>

DetachesDone ==
    /\ scanner = "listed" /\ attached \subseteq present /\ leaving = 0
    /\ scanner' = "opening"
    /\ UNCHANGED <<busVars, tableVars, workerVars, present, attached, leaving, main,
                   clientVars>>

ToOpen == present \ attached

(* attach: a worker is spawned, entered and announced under one lock.      *)
Attach(d) ==
    LET w == Len(thread) + 1
    IN  /\ entries' = [entries EXCEPT ![d] = w]
        /\ deviceOf' = Append(deviceOf, d)
        /\ thread' = Append(thread, "serving")
        /\ connected' = Append(connected, TRUE)
        /\ box' = Append(box, <<>>)
        /\ said' = Append(said, 1)
        /\ told' = told \cup {d}
        /\ attached' = attached \cup {d}

Open(d) ==
    /\ scanner = "opening" /\ d \in ToOpen /\ d \in plugged
    /\ present' = present \ {d}
    /\ Attach(d)
    /\ UNCHANGED <<busVars, memory, scanner, leaving, main, clientVars>>

(* It is held by another program, or was pulled out since it was listed.   *)
OpenFails(d) ==
    /\ scanner = "opening" /\ d \in ToOpen
    /\ IF d \in plugged
       THEN troubles < Troubles /\ troubles' = troubles + 1 ELSE UNCHANGED troubles
    /\ present' = present \ {d}
    /\ UNCHANGED <<plugged, tableVars, workerVars, scanner, attached, leaving, main,
                   clientVars>>

ScanEnds ==
    /\ scanner = "opening" /\ ToOpen = {}
    /\ scanner' = "idle"
    /\ present' = {}
    /\ UNCHANGED <<busVars, tableVars, workerVars, attached, leaving, main, clientVars>>

Scan ==
    \/ List
    \/ \E d \in Devices : DetachUnlisted(d) \/ Open(d) \/ OpenFails(d)
    \/ DetachesDone \/ ScanEnds

-----------------------------------------------------------------------------
(* A worker.                                                               *)

(* Every request still in a channel that is dropped fails as gone.         *)
Dropped(w) == [r \in Requests |-> IF r \in ToSet(box[w]) THEN "gone" ELSE req[r]]

(* Take the next request, answer it, and look at the interface after it.   *)
Serve(w) ==
    /\ thread[w] = "serving" /\ box[w] # <<>> /\ Head(box[w]) \in Requests
    /\ box' = [box EXCEPT ![w] = Tail(@)]
    /\ req' = [req EXCEPT ![Head(box[w])] = IF connected[w] THEN "answered" ELSE "gone"]
    /\ UNCHANGED <<busVars, tableVars, thread, connected, scanVars, leaving, main, holds>>

(* A report is remembered before it is published.                          *)
Report(w) ==
    /\ thread[w] = "serving" /\ connected[w]
    /\ memory' = [memory EXCEPT ![deviceOf[w]] = w]
    /\ UNCHANGED <<busVars, entries, deviceOf, eventVars, workerVars, scanVars,
                   leaving, main, clientVars>>

(* Asked to stop: the thread returns, and its channel goes with it.        *)
Shutdown(w) ==
    /\ thread[w] = "serving" /\ box[w] # <<>> /\ Head(box[w]) = "shutdown"
    /\ thread' = [thread EXCEPT ![w] = "ended"]
    /\ req' = Dropped(w)
    /\ box' = [box EXCEPT ![w] = <<>>]
    /\ UNCHANGED <<busVars, tableVars, connected, scanVars, leaving, main, holds>>

DeviceGone(w) ==
    /\ thread[w] = "serving" /\ ~connected[w]
    /\ thread' = [thread EXCEPT ![w] = "gone"]
    /\ req' = Dropped(w)
    /\ box' = [box EXCEPT ![w] = <<>>]
    /\ UNCHANGED <<busVars, tableVars, connected, scanVars, leaving, main, holds>>

(* As if a worker that gave up told so whether or not it was detached.     *)
FindsEntry_Unlooked(w) == TRUE

(* Whether remove_gone finds an entry to remove; it looks by id alone.     *)
FindsEntry(w) == entries[deviceOf[w]] # 0

RemoveGone(w) ==
    /\ thread[w] = "gone"
    /\ IF FindsEntry(w)
       THEN /\ entries' = [entries EXCEPT ![deviceOf[w]] = 0]
            /\ thread' = [thread EXCEPT ![w] = "removed"]
       ELSE /\ thread' = [thread EXCEPT ![w] = "ended"]
            /\ UNCHANGED entries
    /\ UNCHANGED <<busVars, deviceOf, memory, eventVars, connected, box, scanVars,
                   leaving, main, clientVars>>

ForgetGone(w) ==
    /\ thread[w] = "removed"
    /\ thread' = [thread EXCEPT ![w] = "forgot"]
    /\ memory' = [memory EXCEPT ![deviceOf[w]] = 0]
    /\ UNCHANGED <<busVars, entries, deviceOf, eventVars, connected, box, scanVars,
                   leaving, main, clientVars>>

TellGone(w) ==
    /\ thread[w] = "forgot"
    /\ thread' = [thread EXCEPT ![w] = "ended"]
    /\ said' = [said EXCEPT ![w] = @ + 1]
    /\ told' = told \ {deviceOf[w]}
    /\ UNCHANGED <<busVars, entries, deviceOf, memory, connected, box, scanVars,
                   leaving, main, clientVars>>

Work(w) ==
    \/ Serve(w) \/ Shutdown(w) \/ DeviceGone(w)
    \/ RemoveGone(w) \/ ForgetGone(w) \/ TellGone(w)

-----------------------------------------------------------------------------
(* Clients, and quitting.                                                  *)

(* A request looks its interface up, and sends to its worker later.        *)
LookUp(r, d) ==
    /\ req[r] = "new" /\ entries[d] # 0
    /\ holds' = [holds EXCEPT ![r] = entries[d]]
    /\ req' = [req EXCEPT ![r] = "holding"]
    /\ UNCHANGED <<busVars, tableVars, workerVars, scanVars, leaving, main>>

SendRequest(r) ==
    /\ req[r] = "holding"
    /\ IF thread[holds[r]] = "serving"
       THEN /\ box' = [box EXCEPT ![holds[r]] = Append(@, r)]
            /\ req' = [req EXCEPT ![r] = "sent"]
       ELSE /\ req' = [req EXCEPT ![r] = "gone"]
            /\ UNCHANGED box
    /\ UNCHANGED <<busVars, tableVars, thread, connected, scanVars, leaving, main, holds>>

Quit ==
    /\ main = "running"
    /\ main' = "stopping"
    /\ UNCHANGED <<busVars, tableVars, workerVars, scanVars, leaving, clientVars>>

(* The scan in progress is waited for, and no other begins.                *)
ScannerStopped ==
    /\ main = "stopping" /\ scanner = "idle"
    /\ main' = "closing" /\ scanner' = "stopped"
    /\ present' = InTable
    /\ UNCHANGED <<busVars, tableVars, workerVars, attached, leaving, clientVars>>

(* shutdown_all detaches, one after the other, what it found in the table. *)
DetachOne(d) ==
    /\ main = "closing" /\ d \in present
    /\ present' = present \ {d}
    /\ DetachBegins(d)
    /\ UNCHANGED <<busVars, deviceOf, memory, eventVars, thread, connected, scanner,
                   attached, main, clientVars>>

ShutDown ==
    /\ main = "closing" /\ present = {} /\ leaving = 0
    /\ main' = "off"
    /\ UNCHANGED <<busVars, tableVars, workerVars, scanVars, leaving, clientVars>>

(* The process is over.                                                    *)
Off == main = "off" /\ UNCHANGED managerVars

Quitting == ScannerStopped \/ (\E d \in Devices : DetachOne(d)) \/ ShutDown

ManagerNext ==
    \/ \E d \in Devices : Plug(d) \/ \E out \in BOOLEAN : Disturb(d, out)
    \/ Scan \/ ListFails \/ DetachEnds
    \/ \E w \in Workers : Work(w) \/ Report(w)
    \/ \E r \in Requests : SendRequest(r) \/ \E d \in Devices : LookUp(r, d)
    \/ Quit \/ Quitting \/ Off

ManagerSpec == ManagerInit /\ [][ManagerNext]_managerVars

(***************************************************************************)
(* The threads run and the clients go on with what they began; nothing     *)
(* makes anyone plug an interface in, ask for something or quit.           *)
(***************************************************************************)
MaxWorkers == Cardinality(Devices) + Troubles

ManagerFairSpec ==
    /\ ManagerSpec
    /\ WF_managerVars(Scan) /\ WF_managerVars(DetachEnds) /\ WF_managerVars(Quitting)
    /\ \A w \in 1 .. MaxWorkers : WF_managerVars(w \in Workers /\ Work(w))
    /\ \A r \in Requests : WF_managerVars(SendRequest(r))

-----------------------------------------------------------------------------
(* An interface is open once: two workers never serve the same one, one in *)
(* the table is there to serve it, and one that serves is in the table or  *)
(* being waited for (manager.rs, attach, detach and remove_gone).          *)
OneWorkerServes ==
    /\ \A v, w \in Workers :
          thread[v] = "serving" /\ thread[w] = "serving" /\ deviceOf[v] = deviceOf[w] => v = w
    /\ \A d \in InTable : thread[entries[d]] \in {"serving", "gone"}
    /\ \A w \in Workers : thread[w] = "serving" => w \in {entries[deviceOf[w]], leaving}

(* Clients are told of each worker's interface that it came, once, and     *)
(* that it went, once, whoever took it out of the table: the worker, the   *)
(* scanner or a shutdown (manager.rs, detach and remove_gone).             *)
ToldOnce ==
    \A w \in Workers :
        /\ said[w] \in 1 .. 2
        /\ entries[deviceOf[w]] = w => said[w] = 1
        /\ thread[w] = "ended" /\ leaving # w => said[w] = 2

(* What is remembered of an interface is what its present worker saw, or   *)
(* the one now being taken down; nothing is left of the ones before        *)
(* (manager.rs, forget_cyclic; routing_memory.rs, forget).                 *)
NothingOfThePast ==
    \A d \in Devices :
        LET w == memory[d]
        IN  w \in {0, entries[d], leaving} \/ thread[w] \in {"gone", "removed"}

(* A client that took in every event has the table as it is, once nobody   *)
(* is taking an interface down (manager.rs, remove_gone: "forget the       *)
(* device and tell clients").                                              *)
ClientsKnowTheTable ==
    (leaving = 0 /\ \A w \in Workers : thread[w] \in {"serving", "ended"}) => told = InTable

(* Every request handed to a worker is answered or fails as gone, whatever *)
(* becomes of the worker (worker.rs, run; handle.rs, request).             *)
RequestsAreAnswered ==
    \A r \in Requests : req[r] = "sent" ~> req[r] \in {"answered", "gone"}

(* When the bus has come to rest, so does the table: what is plugged in is *)
(* attached and nothing else (hotplug.rs, scan).                           *)
TableFollowsBus == <>[](main = "running" => InTable = plugged)

(* Quitting ends, with nothing attached, while requests and the bus go on  *)
(* (main.rs, serve; manager.rs, shutdown_all).                             *)
QuitEnds == main = "stopping" ~> (main = "off" /\ InTable = {})

=============================================================================
