# A specification of Gazelle

This directory models the parts of Gazelle whose correctness rests on the order in which
threads, messages and failures meet, in TLA+. TLC checks the models on small instances and
TLAPS proves theorems for every instance: about the capture ring, recorder control and the
hand-overs to the callback, the aggregate driver, and the server's updates, interfaces and
requests. Every definition is translated from the source; `PROJECT.json` maps each one to
the lines it stands for (paths there begin with `src/`, the root of the repository).

- [The system](#the-system): its components, and what makes each correct
- [The modules](#the-modules): which module models what
- [The capture ring](#the-capture-ring), [the rest of the recorder](#the-rest-of-the-recorder),
  [the aggregate driver](#the-aggregate-driver), [the server](#the-server): how state
  and actions correspond to the code
- [The runs](#the-runs): what TLC checks, the bounds and the fairness
- [Disagreements](#disagreements): where the code and its documentation part
- [The proofs](#the-proofs): what TLAPS checks, and along which argument
- [Not modelled](#not-modelled) and [the plan](#the-plan)

## The system

Gazelle controls USB audio interfaces, presents several of them to a DAW as
one, and records from them.

**Recorder** (`crates/gazelle-audio-record`). While armed, the audio driver's
callback (`host.rs`, `block_happened`) pushes every block into a ring of slots
(`capture.rs`). A take is a window on that timeline: it begins up to a pre-roll
before Record, ends at Stop, and is drained by a writer thread (`writer.rs`)
into one file per channel. `recorder.rs` is the person's side: arm, record, stop,
disarm and the click. `engine.rs` opens and shares the session of the drivers
between the recorder and the metronome; the metronome (`metronome.rs`) counts in
and asks for a take on the callback itself. Hard here: threads on atomics
without a lock, a take that starts while the last one drains, a ring that
overflows, a disk that fails, drivers that answer late, a disarm at any moment.
Correct means: nothing that waits to be written is overwritten, files hold what
arrived at each position or silence where a block was lost, takes do not miss or
repeat audio, one host runs the drivers, and nothing asked for is forgotten or
left behind.

**Aggregate driver** (`crates/gazelle-audio-aggregate`). An ASIO driver over
several ASIO drivers. The callbacks of the interfaces exchange blocks through
small rings (`ring.rs`, `stream.rs`); their inputs are held back and lined up
(`plan.rs`, `phase.rs`); all of them move to one sample rate (`aggregate.rs`); a thread
watches the configuration (`watch.rs`) and adopts it, queues it, or refuses it.
Correct means: a block is given once and in order, what was missed is not played
later, the inputs are in line, one rate or none, and no plan changes under a DAW.

**Status record** (`crates/gazelle-audio-aggregate-status`). Shared memory
between driver processes and the server: a gate among the writers and a sequence
number for readers. A driver may be killed inside a write. Correct means: a
reader never takes half of an update for a whole one.

**Device service** (`crates/gazelle-audio-server/src/device`, over
`gazelle-audio-transport` and `gazelle-audio-protocol`). One worker thread per
interface sends requests and matches replies by two words of their header; a
scanner attaches and detaches interfaces; a manager holds the table. Hard: replies
that come after their timeout, packets lost, an interface that goes away while it
is detached. Correct means: a reply is given to the request it answers as far as
the protocol can tell, the table, the workers and what clients are told agree.

**The rest of the server** (`crates/gazelle-audio-server`). Arming by itself when the
interfaces appear (`studio/auto_arm.rs`, `recording.rs`); staging updates (`update/`);
planning the recall of a snapshot (`snapshot/`); the alignment suite, which measures
the interfaces and keeps their trims (`aggregate/suite.rs`, `calibrate.rs`); the
workspace and the file the aggregate driver reads, which follow each other and the
interfaces (`workspace/store.rs`, `aggregate/export.rs`, `follow.rs`); phones that are
paired, let in and let go of (`remote/`); HTTP and WebSocket handlers; tray, window and
installer. Correct means: what a client was told stays so, over a failed write and a
restart as well; nothing is put back that was edited meanwhile; and what must follow,
follows.

**Web client** (`web/packages/client`). Calls over a WebSocket that reconnects; calls
under one key go out one after the other, the newest of those that wait. Correct
means: each call is settled once, none is sent out of turn, and a page that was not
closed keeps dialling.

**Tools**. Probing, USB capture, build tasks, the Android shell.

They interact as follows: the page calls the server over HTTP and WebSocket; the
server calls the device workers, the recorder and the configuration of the
aggregate; the recorder opens the aggregate driver as a host and is called back
by it; the driver reports to the server through the status record; recorder and
alignment suite exclude each other by the turn `RecorderControl` shows.

## The modules

| Module | Models |
| --- | --- |
| `CaptureRing` | `capture.rs`, with `block_happened` and `detach` of `host.rs`, `Drain::step` and all it calls of `writer.rs`, and `record`, `stop`, `disarm` of `recorder.rs` |
| `TakeTimeline`, `CaptureRingTimeline` | the abstract specification of the ring, and the refinement mapping |
| `RingStatus` | `Capture::snapshot` under `Recorder::status`, composed with the ring |
| `CaptureRingInv`; `CaptureRing_proofs` | the inductive invariant of the ring; the theorems about it: what the threads know, what the slots hold |
| `CaptureTimeline_proofs` | what the files hold, what a status tells, and that the ring implements the timeline |
| `RecorderControl` | `recorder.rs` (arm, disarm, record, stop, the click), `engine.rs`, the session of `host.rs`, the shutdown of `recording.rs` |
| `TapHandover` | attaching and taking back the callback's tap: `host.rs`, and the same protocol in `stream.rs` |
| `Metronome`, `ParamCell` | the click, its bars and count-ins, and the cell its settings go through (`metronome.rs`) |
| `AutoArm` | `studio/auto_arm.rs` and the service of `recording.rs` that acts on it |
| `RecorderControl_proofs`, `Metronome_proofs`, `Handover_proofs` | theorems about `RecorderControl`; about `Metronome` and `MCRecorder`; about `TapHandover`, `ParamCell`, `AutoArm` and `MCRecorderLive` |
| `StatusRecord` | `publish.rs`, `read.rs` and `windows.rs` of the status record |
| `AggregateRing`, `BlockQueue` | `ring.rs`, and the bounded queue it implements |
| `AggregateStream` | stalls and recovery of a follower (`stream.rs`) |
| `AggregatePhase` | holding inputs back and lining them up (`plan.rs`, `phase.rs`, `stream.rs`) |
| `AggregateRate` | changes of the sample rate, and what a DAW does around them (`aggregate.rs`) |
| `AggregateReload` | the COM object's life, the watcher thread and its configurations (`com.rs`, `aggregate.rs`, `watch.rs`, the server's `export.rs`, `status.rs`) |
| `Aggregate_proofs` | theorems about `AggregateRing`, `StatusRecord`, `AggregateStream`, `AggregatePhase` and `AggregateRate` |
| `Setup_proofs` | theorems about `AggregateReload`, `StoredSetup` and `AlignmentSuite`, and about `MCAggregate`, which composes them with the above |
| `DeviceManager` | the table of interfaces, scanner, workers and quitting (`manager.rs`, `hotplug.rs`, `worker.rs`, `main.rs`) |
| `DeviceRequests`, `Reassembly` | one worker's requests and the correlator; segments into messages (`worker.rs`, `correlation.rs`, `framing.rs`) |
| `Updates` | `update/mod.rs`, `update/stage.rs` and its callers |
| `RecallPlan` | `snapshot/plan.rs` and `writers.rs` |
| `AlignmentSuite` | `aggregate/suite.rs` and `calibrate.rs` |
| `StoredSetup` | the workspace's file and the driver's: `export.rs`, `follow.rs`, `workspace/store.rs`, with `put_workspace`, the start in `main.rs` and `routing_memory.rs` |
| `RemotePhones` | `remote/mod.rs`: the setting, the listener, the paired phones, their file and their sockets (with `guard.rs`, `ws/mod.rs`) |
| `ClientCalls` | the connection and the calls of `client.ts` |
| `Server_proofs` | theorems about `Updates`, `DeviceManager`, `DeviceRequests`, `Reassembly`, `ClientCalls`, `RemotePhones` and `RecallPlan`, and about `MCServer`, which composes them |
| `MCRing`, `MCRecorder`, `MCRecorderLive`, `MCAggregate`, `MCServer` | what TLC checks together |

`MCRing` adds nothing to the ring but what is checked of it. The other `MC` modules
put parts side by side that share no state in the code, or share it only
through what one of them already models of the other: a behaviour chooses its
part and moves that one alone, so each part is checked exactly as it would be by
itself. In each module threads that do interact are composed: the recorder's
commands with the engine, its hosts and the callback; the scanner with workers
and clients; the watcher with the DAW; the suite with the pages; the pages' saves with
the follower; the changes of a page with those of the tray and with the phones' sockets.

## The capture ring

**State.** `tags` and `data` are the slots; `written`, `read`, `keepUntil`,
`floor`, `want`, `recording`, `takeStart`, `pressedAt` and `pending` are the
atomics of `Capture`. `cb`, `wr` and `ui` say where the callback, the writer and
the person are in their code; `cbPressed`, `wEnd`, `wLimit`, `wAt` and `wWrote`
are locals that outlive a step; `tap` and `inTap` are the two sides of `detach`;
`open`, `wStart`, `file`, `skipping` and `stopped` are the writer's open take.
`counting` is the count-in under way, as the callback and the person see it.
`lost` is the set of positions `overruns` counts. `done`, `asked` and
`overtaken` are history, read by properties only.

**Steps.** An action is one access of a thread to what another can see, with what
it does to its own state. Accesses that no other thread can tell apart are one
action: `push_with` loads `want` alone (`LoadWant`), then acts on it and what only
the callback stores; it ends a take in two stores (`EndTake`, `TakeEnded`); starts
one in two (`StartTake`, which takes the pending press, and `PublishTake`, whose
store of `read` publishes all the others); tests whether a slot is needed and
begins to overwrite it (`CheckSlot`), and finishes (`FillSlot`). `Drain::step` loads
the end of the take and the callback's position in two steps, copies a block out
of its slot in two (`ReadBlock` looks at the tag, `WriteBlock` takes the samples,
which may be `Torn`), and stores `read` after each block. `want_recording(false)`
is two steps whoever calls it, and so is `start_take_counted`.

**Time** is counted in blocks. Blocks, the capacity and the pre-roll are whole
blocks in the code as well, except a pre-roll that is rounded up to them
(`sizing.rs`).

**Abstractions.** Memory is sequentially consistent: the acquire and release
pairs of the code order everything the properties relate. The samples of a block
are its position. The files of the channels are one file, and a failing write
leaves the block out of it. The press and the cue of a count-in are one value,
stored and swapped together. When the generator reaches the downbeat of a
count-in is left open. Wall-clock intervals (the writer's sleep, its look at the
disk once a second) may elapse at any step. A disk may fail wherever it is called,
`Failures` times. A disarm that is not confirmed while recording changes
nothing, and is no step. The alignment sweep between the writer's two loads is
only the interval it is.

**Bounds.** `Horizon` blocks arrive, the person does `Commands` things before the Disarm,
less one for each failure of the disk, which fails `Failures` times. In `RingTimeline` a
ring of three slots hears four blocks, with three commands, or two and a failing disk: a lap
and one block more, a pre-roll of two blocks, and takes that begin, end and are drained
anywhere in it. Its invariants and its refinement are proved for every number of slots,
blocks, commands and failures, so a longer run would show nothing more of them. `RingLive`
has count-ins and fairness, with two slots and three blocks. Both go past one lap. Three
commands are a take, its end, and the next. No state constraint is used, and deadlock is
checked: when the stream has ended the person may still disarm, and a ring that is off
stutters.

**Fairness** (`FairSpec`). The driver calls back for as long as its session is
open, and the writer thread runs until it leaves: weak fairness of each. A Stop or
Disarm that began goes on. Nothing makes a person press Record or Disarm.
`CloseRing` is strongly fair: `detach` spins until it happens to load `in_tap`
when it is low, and each block raises it again, so it is enabled again and again
but never for good while the stream runs; the code relies on the scheduler for
the same. At the bound `written = Horizon` no block begins, so
`RecordStarts` asks for what must happen from a state with a block to come.

**The abstract specification.** In `TakeTimeline` blocks arrive and are kept or
lost; a take begins as far back as the pre-roll but not before the end of the
last, ends at the present block, and is written block after block, the lost ones
as silence. Two things the code does not promise are open in it (`WriteLoosely`):
what a file holds beyond its take's end, and what is written once the ring has
gone a whole lap past the end. Both are among the disagreements below.

**The status.** `Recorder::status` holds the lock that Record, Stop and Disarm take,
so they do not run meanwhile; the callback and the writer do. `Wrap` stands for
2^64 in the subtraction.

## The rest of the recorder

**`RecorderControl`.** A command of a client is a sequence of steps between which
others run: taking the phase lock, the engine's open lock, starting a host thread,
waiting for its answer, attaching the tap, letting go. `phaseLock` and `openLock` are
held across steps as in the code; what is done under the click's lock is one step.
An arm looks whether the program is shutting down, and claims the phase in a later step.
Each session has a host thread that waits for the turn (which a measurement may
have), opens the drivers, answers, streams until it is told to stop, and closes. It does
not end by itself: neither pump the code has ever says that it should
(`engine.rs`, `wait_for_the_devices`; `sim.rs`, `pump`). An opener gives up at its time-out
while the thread goes on (`OPEN_TIMEOUT`). A session may be opened without the outputs
the click was to play on (`outputs`): a click that finds none lets go of the session
again and is refused. Commands: arm, disarm, record, stop, the click's start and stop, a
preview's settings, the last stop of a shutdown, which waits for an arm under way as long
as that may take and a little more, and then looks once more, whatever it finds.
`overlapped` is history.

**`TapHandover`.** The steps are the atomic operations of `detach`, `close` and the
callback. **`Metronome`.** A block loads what pages asked for, one atomic after another,
and then counts ticks, beats and bars in exact fractions of samples. **`ParamCell`.**
The stores and loads of the sequence number and of each field.

**`AutoArm`.** A look reads the world, decides (`decide`), and acts; a person, the
interfaces and a measurement move between the steps. Time is in seconds; waits are
the first two of the code's.

**Fairness.** Command threads and host threads run (weak), nobody need give a command,
and a measurement need not end. `TakeBack` is strongly fair for the reason
`CloseRing` is: between two blocks the callback is out for most of the time. Seconds pass,
and a look or a person's command that began goes on.

## The aggregate driver

**`AggregateRing`** has the loads and stores of the two indices and the counters;
`BlockQueue` is a queue with room for one fewer than the slots, and `IsAQueue` the
refinement. **`AggregateStream`** takes its rings as such queues, and keeps of a block
only whether it was made before its follower was last declared gone. The master reads how
often a follower has called back in one step and says what it makes of it in another; the
follower is counted in one and looks whether it is muted in another.
**`AggregatePhase`** counts in the 32-sample steps the interfaces move in. **`AggregateRate`**
moves the interfaces one by one; each driver may refuse, agree and stay, or agree and
move. **`AggregateReload`** numbers configurations by the save that wrote them; the DAW's
calls run under the driver's lock, the watcher lets go of it between its questions.
**`StatusRecord`** has an audio thread that tries the gate once and a watcher that waits
for it, in two processes, each of which may be killed at any step.

Two modules are what the server does for the driver.

**`AlignmentSuite`.** The suite's thread from its claim to what is put back, with the
stop, faults of any step, interfaces pulled out, single measurements, and a page that
reads the workspace and writes it back later.

**`StoredSetup`.** A save or a refresh holds the store's lock from its look at the
workspace to the last rename; the temporary file is written and renamed in two steps,
either of which may fail, and the server may be killed between any two. A workspace is
what the last edit numbered it, which interface its entry is tied to, and what is known
of that interface: the routing its names come from, numbered by its changes, and its
rate. The follower refreshes, asks once for a routing it has not seen, and waits for what
wakes it. `latest`, `best` and the three flags of what failed are history.

**Fairness** (only for these parts): the watcher and Gazelle's signal go on, an `init` that
began ends; whoever holds the store's lock goes on, the follower loops, and so does the
suite's thread, whose measurements end. Nothing makes a DAW start, stop or leave, or a page
save.

## The server

**`DeviceManager`.** The scanner lists the bus, detaches what is gone and opens what is
new; a detach takes the entry out, asks the worker to end and waits for it; a worker
that finds its interface gone removes its own entry; clients hold channels across
both; quitting stops the scanner and takes down the rest. Workers are numbered as they
are spawned, which is how properties tell a replugged interface from the first one.

**`DeviceRequests`.** Requests go out one at a time; an interface owes replies, may
refuse, and sends reports of its own. The correlator knows the command and the
selector. **`Reassembly`.** A lossy link drops segments; the receiver has the code's
rules for a segment out of place.

**`Updates`.** Checks and downloads of several callers, with the lock downloads take
and the one state they all write; staging is two renames, either may fail, the
process may end between them, and on Windows a running image cannot be removed.

**`RecallPlan`.** For each interface the snapshot's values and the present ones are
compared; each difference becomes a step with what holds it back; the steps are
sorted, brought into stages, and rendered. Each command is rendered by itself, of an
interface that is looked up anew, and taken out if that fails: any may be lost, those that
silence an interface with the rest left as they are. Of the many values one or two of each
kind that is ordered or guarded differently are kept.

**`RemotePhones`.** Requests and the tray are threads that run one errand at a time: they
change the setting or the list in memory, save under `saving`, put back what a failed
save must not leave, and make the listener match the setting they read before its lock.
A phone that is let in is noted in the file, or not if that was done lately. Its socket
subscribes, looks at the list, then at the setting, then at the listener, and waits to be
kicked. The server stops, or is killed, and starts from its file. `holdToken` says who has
a token; `gone`, `revoked` and the four flags of errands that met are history. A phone has
one socket at a time.

**`ClientCalls`.** A page's call is refused, held behind another under its key, or sent;
a frame, a time-out, a lost connection or a close settles it and frees its key for the one
that waits. The connection dials, says hello, is lost, waits and dials again, asks
whether it is still paired, and is closed, by the page or from inside a listener.

**Fairness.** The scanner, each worker, a detach that waits, quitting, a client that
began to send, an errand and the sockets go on (weak); the worker's and the page's
time-outs elapse, a dial succeeds or fails and the wait after it ends. Nothing makes
anyone plug in, ask, call, pair or quit. That a kicked socket goes on assumes that the phone
reads what it is sent: `ws/mod.rs` looks whether the session has ended between frames
(lines 91 and 144 wait for a frame to be taken), so the socket of one that has stopped
reading closes when the connection breaks.

**Coarser than the code.** Where nobody else can tell the steps apart, or none of the
properties depends on it, several are one: a downloaded file is in place and the state says so
(`MovesIn`); the suite's claim of the measurement, the clearing of its stop flag and what it shows
(`SuiteHolds`; a stop pressed between the first two is lost, and is not in the model). Left out
are: a file of phones that cannot be read at a start, for which the code starts with none
and says so, and overwrites it at the next save (`Begins`); a reply a page cannot decode,
which is thrown out of the middle of settling its call and leaves it unsettled (`Answer`:
`client.ts`:826 throws only for text that is not hexadecimal, which the server does not
send for bytes); an interface pulled out that comes back while the suite still runs
(`PulledOut`).

## The runs

Passing runs:

| Run | Instance | Shows |
| --- | --- | --- |
| `RingTimeline` | 3 slots, 4 blocks, batches of 2, 3 commands or 2 and a failing disk | what waits is held (`WaitingIsHeld`), the callback and the writer never meet in a slot (`CallbackAndWriterApart`), files are faithful (`FilesAreFaithful`), each until the callback has gone a lap past the end of a take still draining; a take that was not given up is whole (`FinishedTakesAreWhole`), the windows of takes follow each other (`TakesInOrder`); the invariant of the proofs (`IInv`); the ring implements `TakeTimeline` (`TimelineSpec`) |
| `StatusHeld` | 2 slots, 3 blocks, count-ins | a status tells the reach of the take it saw, if no other began meanwhile (`HeldIsOfTheTake`) |
| `RingLive` | 2 slots, 3 blocks, count-ins, fairness | the ring is closed with no callback inside, nothing is left when off; ended takes are finished, Record becomes a take, Disarm answers |
| `Recorder` | 2 clients, 3 commands; 4 blocks, 2 count-ins, 3 settings | one host runs (`OneHostRuns`); armed means a session with the tap on it (`ArmedIsBacked`); the click is right when commands do not overlap (`InTurnClickIsRight`); the click keeps its grid and its count-ins their bars (`ClickKeepsTime`) |
| `RecorderLive` | 2 clients, 2 commands; 2 takers, 3 taps; 3 changes of 4 fields; waits of 1 and 2 s | commands and detaches end (`BegunEnds`); what was taken back is not used (`TakenIsAlone`); settings are not torn (`NeverTorn`); auto-arm never spins (`NeverTight`) and follows the interfaces (`FollowsTheInterfaces`) |
| `Aggregate` | 2 driver processes, 2 writes, 1 kill; 3 slots, 5 blocks; trust after 3 callbacks; 2 followers; 3 saves, one refused; 2 interfaces, 2 rates; 2 edits, 2 changes, 1 failure; 2 interfaces, 2 setups, 1 fault | `ReadsAreWhole`, `RingIsAQueue`, `NothingOldComesBack`, `LinedUp`, `AllMoveOrNone`, `SuiteKeepsItsWord`; what a reload or a refresh may not do (`SetupIsSafe`); a reload is answered, the driver's file follows the interfaces, a suite ends (`SetupSettles`) |
| `Server` | 1 interface, 2 troubles; 2 requests, 2 reports; 3 messages; 2 callers, 3 releases; 2 interfaces with 2 differences, 1 stretch of commands lost; 3 calls of one key; 1 phone, 2 errands of a page and the tray, 1 failure | `WhatIsToldIsSo`, `AnswersAreTheirOwn`, `UpdatesAreWhole`, `RecallIsSafe`, `ServerSettles` |

Each has the type invariant of its modules as well. Some properties are the conjunction of
what several modules say of one question: `SetupIsSafe` and `SetupSettles` are in
`MCAggregate`, `BegunEnds` in `MCRecorderLive`, `WhatIsToldIsSo`, `AnswersAreTheirOwn`,
`RecallIsSafe` and `ServerSettles` in `MCServer`. Every property has a plausible mistake of
the code in `PROJECT.json` that breaks it. `Recorder` declares the clients symmetric:
nothing distinguishes them, and it checks no liveness.

**Why the bounds are enough.** Two clients are a command and one that overlaps it; the third
command is one that comes after both, which is what a click left held or a lock not released
needs. Four blocks of two samples with paces of 3/2 and 1 put downbeats inside, at the start
of and across blocks, and let a second count-in replace the first; the third setting differs
from the first by the note a beat is, which starts a bar too. Two takers and three taps
let a tap be attached between another's removal and its wait. Two writes and one kill leave
a gate taken, and a sequence odd, with a reader that began before and a writer that comes
after. Three slots carry two blocks, and five offers go round twice, past a drain. Two
followers with paths of three and five steps and a limit of one are corrected to paths that
meet and paths that part, against a master shorter than both. Three saves are one in force,
one queued and one newer, one of them unreadable. Two troubles unplug an interface and plug
it in under a scan, or have it refuse to open. One request late and one after it are two;
two selectors are the same and another. Three messages of up to three segments put a gap
across two of them. Three releases are the one running, one found and one found meanwhile.
Two differences meet in the order of any two commands of a plan; one stretch of the commands of
an interface that is lost is one command, what is left after a detach, or the silencing alone. Two setups with two runs
and one fault are a setup after one that failed. Two edits are one in force and one being
saved; two changes of the interface a routing and a rate, or a coming and a going, on both
sides of a refresh; one failure is a full disk, a failed rename or a crash. Three calls are
one on its way, one that waits and the newer one that takes its place. Two errands are a
change and one that meets it; a phone that is in from the start makes the first of them an
unpairing already (three errands of two threads, and two failures, pass as well, and are too
slow to keep).

`CHECK_DEADLOCK FALSE` is in the runs of the aggregate and of the server: their parts
stop for good when the bounds are used up, or the program has ended.

## Disagreements

Each of these runs is one statement of the documentation that TLC finds violated:

| Run | Disagreement |
| --- | --- |
| `FilesOverlap` | `capture.rs` says audio in a file is not put in the next. The writer loads the end (none yet), then the callback's position; a Stop in between has it write past the end. |
| `OldConfigTakenUp` | `watch.rs` says a plan is adopted when nothing streams. One queued for a DAW that then went away stays queued, and the next creation of buffers takes it up after a newer one was adopted. |
| `SilencedFirst` | `plan.rs` says every device is silenced before any of them is written to. So it is in the plan as it is built. Rendering takes out each command whose bytes cannot be made, and looks the interface up anew for each: away, or late, for the one that silences it and back for the next, it is left with changes and nothing that silences it. |
| `StagedIsTheEnd` | `update/mod.rs` says a staged update is the end of the road. A check that waited for the network stores its answer over it. |
| `PlaysLate` | `stream.rs` says what was missed never plays late. A follower is trusted again after two callbacks by itself (`config.rs`:335). One that begins after the master read how often it had called back, and before the master says it is gone, is counted the next time; another is counted before it loads `mute_out`, which the master then clears: blocks left from before are played. Where three callbacks are asked for it cannot happen (`NothingOld`). |

More of the kind were met and have no run of their own, because each is close to one
above or a matter of degree; those with a name are stated beside the properties and
violated in the model:

- `CaptureRing`: `WaitingIsNeverLost` (two laps behind the end of a draining take, a
  block past the end overwrites one that waits; `capture.rs`:43), `NoTakeAfterStop` (a
  count-in at its downbeat stores the wish after Stop cleared it; `recorder.rs`:599),
  `PressIsOfThisRecord` (the same with the stores the other way round), and
  `FailureStopsItsOwnTake` (a take that fails while it drains withdraws the next
  one's wish). They are why `WaitingIsHeld`, `CallbackAndWriterApart` and
  `FilesAreFaithful` are stated up to `overtaken` and up to the take's end.
- `RingStatus`: `HeldIsAtMostPreroll` (a status across two takes subtracts the start of
  one from the press of the other).
- `RecorderControl`: `ClickHoldsTheSession` (a click stopped while another command
  starts it is believed to hold the session it let go), `ShutdownFinishes` (the last
  disarm of a shutdown, tried once after at most 35 s, may meet an arm under way). `InTurnClickIsRight` is
  stated for commands that do not overlap.
- `Metronome`: `CountInTakenUp` (a count-in asked for on a click at rest is lost when the
  callback loads whether to run before it is started and the count-in after;
  `metronome.rs`:478 says it starts the click).
- `AutoArm`: a look under way when a person disarms arms again; and its wait counts
  from when the look began.
- `StatusRecord`: `UpdatesEnd` (a driver killed with the gate taken leaves it taken for
  as long as the section lives).
- `AggregateReload`: `AskedIsAnswered` (a change signalled while the interfaces were being
  opened is not noticed: the generation is first read after they are).
- `AggregateRate`: `OneRate` (`aggregate.rs`:384 says every device moves or none; with the
  buffers made, a driver that only notes the new rate leaves `set_rate` answering Ok with
  a request to the DAW to reset, and `start` does not look whether it did); an interface that refuses after its driver had moved is not put back.
- `DeviceRequests`: `RepliesAreOwn` (a reply that comes after its time-out is taken for the
  next request's, within one selector). `StraysFollowATimeout` is the most the protocol
  allows. `DeviceManager`: `ClientsKnowTheTable` (events of a removal and of the
  attaching after it may cross).
- `RecallPlan`: phantom power is a part of its own, after the inputs, whichever way it
  goes, though `plan.rs`:16 and `writers.rs`:232 say that 48V goes off before the type
  changes; restoring the outputs is a part that can be unticked, though
  `writers.rs`:177 says it is not the user's to choose; a restoring step that cannot be
  rendered is taken out after it was decided that restoring is complete (`plan.rs`:359), and
  leaves silent what it was to restore: `SilencedComesBack` is stated of the plan as it is
  built. A strip that is unmuted counts as quieter.
- `Updates`: a second download of a staged release stages it again; an exit between the
  renames leaves no executable under its name (`broken`).
- `StoredSetup`: an export that failed is not tried again by a save that changes nothing
  of the setup, nor a refresh that failed until the next event; a rate that was left alone
  because a DAW had the aggregate open is not looked at again when it closes, which
  wakes nobody. The page's presets are checked (`http/workspace.rs`:71) against a
  workspace read before the lock is taken.
- `RemotePhones`: two changes at once can leave the listener off with the setting on, or on with
  it off: `apply` reads the setting before it takes the listener's lock
  (`remote/mod.rs`:396), though 394 says the listener is made to match, and a page and
  the tray are expected to meet (`http/remote.rs`:73); a save that fails puts back the
  setting it found over another's change. `ListenerFollows`, `KeptIsMemory` and
  `SessionsEnd` are stated up to `adrift` and `unsaved`.
- `ClientCalls`: a listener that closes the connection inside the hello of a reconnect
  leaves its state open with no socket behind it (`strayOpen`).
- `AlignmentSuite`: a page that writes back an older workspace takes kept trims away;
  putting back stops at its first failure; a stop pressed between the claim and the
  clearing of the flag is lost.

## The proofs

**The ring.** `CoreInvariant` proves `Core`: the types, where each thread is (`VisitInv`,
`WriterInv`) and what `read`, `keepUntil` and `recording` say together (`TakeInv`). It
is inductive by itself. From it follow, for every value of the constants:

- `TypeCorrect`: `[]TypeOK`.
- `ClosedAlone`: `[]RingIsClosedAlone`. `inTap` is high for the whole of a visit, a tap
  that is gone stays gone, and `CloseRing` saw `inTap` low.
- `NothingLeft`: `[]NothingLeftWhenOff`. The writer leaves only with `read` parked; a
  parked `read` means the take has an end, so none is running; nobody is left to
  ask for one (`Answered`).

`WindowInvariant` adds where blocks are, and needs arithmetic of slots
(`DivisionBySlots`, `SlotsApart`: two positions less than a lap apart have
different slots). `WindowInv` says the last lap is in its slots or lost; `LapInv`
that while a slot is filled the reader is within a lap, and so is a draining
take's end until it is overtaken. `WaitingIsHeld` is then inductive: a new take
reaches back by the pre-roll, less than a lap; a slot is filled only when the
block a lap ago is not needed (`NotNeeded`), and every other block that waits is in
another slot.

- `WaitingHeld`: `[]WaitingIsHeld`.
- `WritesApart`: `[]CallbackAndWriterApart`, on which the `unsafe` slices of
  `push_with` and `block_at` rest.

**The files.** `RingInvariant` is `IInv` of `CaptureRingInv`, which TLC checks in
`RingTimeline`. It adds to the two above what the tags say of lost blocks (`LossInv`: a slot is
marked invalid before it is filled, so a tag is never that of a lost block), how far an open take has got
(`OpeningInv`), what its file holds at each step of the copy (`FileInv`) and what the
finished ones hold and where they ended (`DoneInv`). None of the last three is
inductive without the slots: a copy that was not torn is one whose tag was right before
and after it. From it: `FilesFaithful`, `TakesWhole`, `TakesOrdered`.

**The status.** `HeldOfTheTake` needs of the ring that the position of the press lies between
the take's start and the pre-roll after it (`PressedInv`), and of the snapshot which of its
loads were made before a take could end (`SnapshotInv`). The callback may end the take between two of
them; the hypothesis inside the property, that none begins meanwhile, is the one the code needs too.

**The timeline.** `RingIsTimeline` proves the refinement step by step: of the callback's, the
writer's and the person's actions, each is a step of `TakeTimeline` or leaves it as it is. What
the mapping needs beyond `IInv` is `FloorInv` (where the next take may begin is where the last
one ended, while its end is stored and while it drains) and `EarlyInv` (a take begins as
early as it may, and is overtaken only a lap past its end).

**Recorder control.** `ControlInv` follows a session through the code of several clients:
`HostInv` (who runs its host has the turn), `LockInv` (inside the open lock at
most one client, and with it the one session that is neither open, closed nor told to stop),
`OpenInv` (a session is open while somebody holds it), `PlaceInv` and `PhaseInv` (at each step of
an arm or a disarm, whether the recorder holds the session and its tap is on). `HostsApart`
and `ArmedBacked` follow.

`ClickRight` is about commands one at a time, and its invariant `OneByOne` says so: as long as no two
overlapped, all clients but one are idle (`AloneInv`), so whose session it is, who holds it for
the click (`SessionInv`) and who started the click (`ByInv`) can be told from where that one is.
Once two have overlapped the property asks for nothing, and the invariant keeps only which steps
belong to which command.

**The metronome.** `ClickTime`: a tick sounds on its grid and never behind the block
(`OnGrid`), within its beat and bar (`PlaceInBar`); the bars a count-in has heard and the
downbeats ahead of it make the bars it was asked for (`CountRight`), whatever settings are
taken up in between; and a cancel that came before the downbeat is loaded in the next block
(`CancelRight`). Positions are fractions of samples, so it needs that products and quotients
of naturals grow with their arguments.

**Arming by itself.** `ArmNotTight`: from a look that tried, the time since and the time still to go make
at least the wait for as many refusals (`WaitsKept`), until something happens that spares the wait.

**Hand-overs.** `TakenAlone` rests on `SwitchInv` (the callback says it looks for as long as it may use a
tap) and `FreshInv` (the tap that is on was never answered for); `NotTorn` on
`CellInv` and `LoadInv`, which relate the parity of the sequence number to the words
already stored and already loaded.

**The aggregate driver.** `RingQueues`: the two indices, modulo the slots, are the two ends
of the queue (`PlaceInv`), and what is counted is what was moved (`CountInv`,
`SettlingInv`); every load and store is a step of `BlockQueue` or a stutter. `ReadsWhole`:
whoever is in the gate is alone in it, dead or alive (`GateInv`), and while the sequence
number stands what was copied is current (`CopyInv`). `NothingOld` says of what is heard
that no more than one old block is, whatever a follower has to do to be trusted; and the same of
what is played where it must call back three times: for fewer TLC finds the violation above.
Its invariant says how many of the callbacks that count may be from before (`GoneOutInv`). `AlwaysLinedUp`: the corrections are kept in the room there is, which twice the limit
always gives. `MoveOrNone`: while a change moves, the interfaces before the one at hand have
moved and those after it have not (`MoveInv`).

**The setup.** `PlanHeld` and `WatcherJoined`: a driver that is not open has no buffers, and
no watcher runs before it is open (`LifeInv`). `StoredSafe`: who holds the store's lock is
at work, and nobody else (`LockInv`); what a holder is about to store was read under that
lock and loses nothing since (`WorkInv`); what is known of the interface is of the one it is
tied to and as new as any seen (`SeenInv`, `RestInv`). It is crashes and failed renames that
make it more than a lock: the rest of the invariant holds at every step, not only with the
lock free. `SuiteHonest` follows the suite: which setups were gone through (`ProgressInv`),
who is at the measurement (`HoldInv`), that a copy it loaded has the trims it will save over
(`LoadedInv`), what was in force and what of it is back at each step of letting go
(`BackInv`), and that what it shows as saved stays in the workspace, or a page wrote over it
(`SavedStaysSaved`).

**The server.** `UpdatesWhole` has who holds the download lock (`TurnInv`), what is in his
hands (`InHandInv`), what lies aside (`AsideInv`) and what the state may say then
(`SaysInv`). `OneServes`, `ToldOfEachOnce` and `PastForgotten` come from one invariant
of the table: an entry belongs to a worker that has not ended (`EntryInv`,
`ServingInv`), what clients were told of a worker is where it is in its life (`SaidInv`), and what is
remembered is of one that serves (`MemoryInv`). `ReadOnce`, `StaleIgnored` and `StraysAfterTimeout`
are about one worker's requests: they are settled one after the other (`SettledInv`),
and a reply is owed, or has arrived, once, for a request that was sent and wants one
(`WireInv`); a reply taken by the wrong request leads back over the requests before
it, each given another's, to one that timed out.

Of the packets, `WholeArrive` and `MixedAcrossAGap` say which messages come out. What lies
in the buffer is short of the message its last piece is of, and all that left after that
piece was lost (`BufInv`); of a message that has lost nothing all that left is there
(`OwnInv`); each delivery is made by the last piece of a message (`EndInv`). Of the page,
`ClientConsistent` rests on where a call may be: in flight, where it holds its key alone
(`FlightInv`), or behind one in flight, newer than all of its key that were sent
(`BehindInv`); whatever waits is in one of the two (`WaitsInv`). Of the phones, `PhonesKept`
follows what each thread is doing (`ErrandsInv`), the file together with the copies on their
way to it (`PairInv`, `RevokeInv`), what a thread puts back if its save fails (`SavedInv`)
and which setting the listener follows while it changes (`FollowInv`).

Of the recall of a snapshot, `RecallSafe` says of the plan as it is built that every
interface is silenced before it is written to and nothing is heard until all of the plan is in
place, that what was silenced comes back as the snapshot had it (unless the request holds
that back), and that strips that are cut move before those raised; and of what is left after
rendering that an interface whose silencing was rendered is silent throughout. The plan is a sequence made of a set: the place of a
member is how many come before it, and because the order has no ties, every place has one
member (`InOrder`, proved by counting). `RecallInv` then says that the steps are each of one
difference (`Proper`), sorted (`InTheirOrder`), all there for the interfaces planned so far
(`AllOf`), and after staging in stages (`InStages`) with what silences an interface there
for whatever it is told (`Covered`). Taking commands out, as rendering does, keeps the order
of the rest.

**The compositions.** A step of an `MC` module is a step of one part and a stutter of the
others (`PartsMove`, `AggregatePartsMove`), so what is proved of each part holds of all:
`AnswersOwn`, `WhatIsTold`, `SetupSafe`, and the types `RecorderTyped`, `LiveTyped`,
`AggregateTyped` and `ServerTyped`. The types are more than declarations where they bound
something: the queues between two callbacks never hold more than their places, though a
device comes back while its old blocks are still there (`OldOutInv`); no delay is negative
however the inputs are lined up.

**Assumptions** are those the modules declare: of `CaptureRing`, at least two slots, a
pre-roll shorter than the ring (`sizing.rs` leaves more) and a batch of at least one block;
of `Updates`, that nobody who calls is the value that stands for nobody; of `DeviceManager`,
that no request of a client is the message that ends a worker; of `ClientCalls`, that the
value for a call without a key is no key; of `RemotePhones`, that a port held at the start
is tried again at least once and that neither the start nor nobody is a thread; of
`DeviceRequests`, that a command is neither the acknowledgement nor a report of the
interface's own; of `Metronome`, that a tick is at least a sample long; of `AutoArm`, that
the waits are there and not zero; of `AlignmentSuite`, that a setup is measured at least
twice, so that its figures can be compared; of `StoredSetup`, that the follower and the
start are not among those that save; the others are as plain. The bounds are parameters like
any other, so the theorems hold for streams, commands, packets and failures of any number.

**Model-checked only.** Liveness under fairness, which is out of reach of the prover:
`EndedTakesAreFinished`, `RecordStarts`, `DisarmAnswers`, `BegunEnds`,
`FollowsTheInterfaces`, `SetupSettles` and `ServerSettles`. Every other property of a
passing run, the two refinements and the type invariants among them, is a theorem for every
value of the constants, except `NothingOldComesBack`, half of which is false for a
`RecoverAfter` of 1 or 2: `NothingOld` proves all of it for 3 or more.

## Not modelled

`PROJECT.json` lists every component with the reason. Of the recorder: contents and names of
files, the alignment board, presets, drop-out counts, peaks. Of the aggregate: samples and
delays inside a block, the measurement of phases, channel lists, registration, and what a
second start without new buffers finds in the rings. Of the server: the pairing code and its
limits, the store of snapshots, HTTP and WebSocket handlers beyond what they call, the check
of the aggregate's readiness, installer, tray and window: input and output around state that
one lock keeps. Of the page: the stores that mirror what the server tells, and what it
draws. Numeric code (calibration, synthesis), byte formats, command tables and presentation
are outside what a model of steps says anything about. Liveness and `ENABLED` are out of
reach of the prover, and stay with TLC.

## The plan

Modelling: the page's workspace store (`store.ts`: edits while a save is on its way, an
answer that is lost) and the reads a page keeps (`routing.ts`, `mixer.ts`).

Proofs: the safety of what is modelled is proved. A module that is added should keep to
definitions the prover can expand (functions and sets rather than recursive operators, strings
without spaces where a type is stated), with its invariant as a conjunction of named parts; a
property of `FairSpec` should have a safety part that can be stated by itself.
