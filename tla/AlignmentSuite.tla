--------------------------- MODULE AlignmentSuite ---------------------------
(***************************************************************************)
(* Measuring the interfaces (aggregate/calibrate.rs, aggregate/suite.rs):  *)
(* one measurement at a time, and the alignment suite, which holds it,     *)
(* puts the aggregate at one setup after the other, measures each a few    *)
(* times over, keeps the trims when the runs agree, and puts back what was *)
(* in force.  It changes three things that it does not own: the setup in   *)
(* the workspace, which a page may write as well, the interfaces' drivers, *)
(* and the rate the interfaces run at.                                     *)
(*                                                                         *)
(* A setup, a rate and a buffer size, is a number; Mine is what is in      *)
(* force before.  What a run measures on an interface is a small number:   *)
(* runs agree when theirs are the same.                                    *)
(***************************************************************************)
EXTENDS Integers, Sequences, SequencesExt, FiniteSets

CONSTANTS
    Boxes,      \* the interfaces of the aggregate
    SetupCount, \* how many setups a page may ask for
    Runs,       \* runs each setup is measured with (RUNS_DEFAULT)
    Rounds,     \* times a setup is measured over (ROUNDS)
    Figures,    \* what a run may come to
    Faults,     \* bound: things that fail, are spoiled or are pulled out
    Visits      \* bound: setups asked for, single runs and visits of a page

ASSUME SuiteAssumption ==
    /\ Boxes # {} /\ IsFiniteSet(Boxes) /\ SetupCount \in Nat \ {0}
    /\ Runs \in Nat \ {0, 1} /\ Rounds \in Nat \ {0} /\ Faults \in Nat /\ Visits \in Nat

Setups == 1 .. SetupCount
Mine == 0
Theirs == -1     \* what the page, or a single run, puts in force
Unread == -2
Names == Setups \cup {Mine, Theirs}

VARIABLES
    measuring,  \* Calibration.running: the measurement is taken
    single,     \* whether a single run goes
    busy,       \* Suite.running
    suiteStop,  \* Suite.stop
    says,       \* the suite's state, as a page reads it
    progress,   \* per setup, the same
    restored,   \* whether putting back went through, "unsaid" before it
    suiteAt,    \* where the suite's thread is
    setupsAsked,\* how many setups it was asked for
    turn,       \* which of them it is at
    round,      \* which time over
    figures,    \* what the runs of this round have come to
    inForce,    \* what was in force, as it was read
    problems,   \* whether some of it could not be put back
    workspace,  \* the setup of the workspace, and the setups it has trims for
    loadedCopy, \* what the suite loaded of it, to change and save, or <<>>
    pages,      \* what a page read of it and may write back, or <<>>
    drivers,    \* per interface, the setup its driver is on
    rates,      \* per interface, the setup whose rate it runs at
    there,      \* the interfaces that are attached
    touched,    \* what others have changed since the suite last wrote it
    faults, visits

shownVars == <<says, progress, restored>>
threadVars == <<suiteAt, setupsAsked, turn, round, figures, inForce, problems, loadedCopy>>
hardwareVars == <<drivers, rates, there>>
suiteVars == <<measuring, single, busy, suiteStop, shownVars, threadVars, workspace, pages,
               hardwareVars, touched, faults, visits>>

SuitePlaces == {"off", "claimed", "reading", "next", "switching", "drivers", "run", "measured",
                "keeping", "wrapping", "back", "backDrivers", "backRates", "lettingGo", "ending", "over"}
Workspaces == [setup : Names, trims : SUBSET Setups]
ReadBefore == [setup : Names, drivers : Names \cup {Unread}, rates : Names \cup {Unread}]

SuiteTypeOK ==
    /\ measuring \in BOOLEAN /\ single \in BOOLEAN /\ busy \in BOOLEAN /\ suiteStop \in BOOLEAN
    /\ says \in {"idle", "running", "stopping", "done", "stopped", "failed"}
    /\ setupsAsked \in 0 .. SetupCount
    /\ progress \in Seq({"waiting", "switching", "measuring", "saved", "failed", "stopped"})
    /\ restored \in {"unsaid", "yes", "no"} /\ suiteAt \in SuitePlaces
    /\ turn \in 1 .. SetupCount + 1 /\ round \in 1 .. Rounds + 1
    /\ figures \in Seq(Figures) /\ Len(figures) <= Runs
    /\ inForce \in ReadBefore \cup {<<>>} /\ problems \in BOOLEAN /\ workspace \in Workspaces
    /\ loadedCopy \in Workspaces \cup {<<>>} /\ pages \in Workspaces \cup {<<>>}
    /\ drivers \in [Boxes -> Names] /\ rates \in [Boxes -> Names] /\ there \subseteq Boxes
    /\ touched \subseteq {"setup", "trims", "rates"} /\ faults \in 0 .. Faults /\ visits \in 0 .. Visits

SuiteInit ==
    /\ measuring = FALSE /\ single = FALSE /\ busy = FALSE /\ suiteStop = FALSE
    /\ says = "idle" /\ progress = <<>> /\ restored = "unsaid"
    /\ suiteAt = "off" /\ setupsAsked = 0 /\ turn = 1 /\ round = 1 /\ figures = <<>> /\ inForce = <<>>
    /\ problems = FALSE
    /\ workspace = [setup |-> Mine, trims |-> {}] /\ loadedCopy = <<>> /\ pages = <<>>
    /\ drivers = [b \in Boxes |-> Mine] /\ rates = [b \in Boxes |-> Mine]
    /\ there = Boxes /\ touched = {} /\ faults = 0 /\ visits = 0

Visited == visits < Visits /\ visits' = visits + 1
Faulted == faults < Faults /\ faults' = faults + 1
Moves(from, to) == suiteAt = from /\ suiteAt' = to
Shows(s) == progress' = [progress EXCEPT ![turn] = s]

-----------------------------------------------------------------------------
(* What goes on beside the suite: single runs, which may be stopped at any *)
(* time, a page that writes back the workspace it read, a person's stop,   *)
(* and interfaces that are pulled out.                                     *)

SingleStarts ==
    /\ ~measuring /\ Visited
    /\ measuring' = TRUE /\ single' = TRUE
    /\ UNCHANGED <<busy, suiteStop, shownVars, threadVars, workspace, pages, hardwareVars,
                   touched, faults>>

SingleEnds ==
    /\ single
    /\ measuring' = FALSE /\ single' = FALSE
    /\ rates' = [b \in Boxes |-> IF b \in there THEN Theirs ELSE rates[b]]
    /\ touched' = touched \cup {"rates"}
    /\ UNCHANGED <<busy, suiteStop, shownVars, threadVars, workspace, pages, drivers, there,
                   faults, visits>>

PageReads ==
    /\ Visited
    /\ pages' = workspace
    /\ UNCHANGED <<measuring, single, busy, suiteStop, shownVars, threadVars, workspace,
                   hardwareVars, touched, faults>>

PageWrites ==
    /\ pages # <<>>
    /\ workspace' = [pages EXCEPT !.setup = Theirs] /\ pages' = <<>>
    /\ touched' = touched \cup {"setup", "trims"}
    /\ UNCHANGED <<measuring, single, busy, suiteStop, shownVars, threadVars, hardwareVars,
                   faults, visits>>

StopSuite ==
    /\ ~suiteStop /\ suiteStop' = TRUE
    /\ says' = IF says = "running" THEN "stopping" ELSE says
    /\ UNCHANGED <<measuring, single, busy, progress, restored, threadVars, workspace, pages,
                   hardwareVars, touched, faults, visits>>

PulledOut(b) ==
    /\ b \in there /\ Faulted
    /\ there' = there \ {b}
    /\ UNCHANGED <<measuring, single, busy, suiteStop, shownVars, threadVars, workspace, pages,
                   drivers, rates, touched, visits>>

-----------------------------------------------------------------------------
(* Suite::start.  The first claim keeps out another suite, the hold keeps  *)
(* out a single run; each is one exchange.                                 *)

(* As if the hold did not look at single runs.                             *)
Free_Unlooked == TRUE

Free == ~measuring

SuiteClaims ==
    /\ ~busy /\ setupsAsked' \in Setups
    /\ visits + setupsAsked' <= Visits /\ visits' = visits + setupsAsked'
    /\ Moves("off", "claimed")
    /\ busy' = TRUE
    /\ UNCHANGED <<measuring, single, suiteStop, shownVars, turn, round, figures, inForce,
                   problems, loadedCopy, workspace, pages, hardwareVars, touched, faults>>

SuiteHolds ==
    /\ suiteAt = "claimed"
    /\ IF Free
       THEN /\ suiteAt' = "reading" /\ measuring' = TRUE /\ UNCHANGED busy
            /\ suiteStop' = FALSE
            /\ says' = "running" /\ progress' = [s \in 1 .. setupsAsked |-> "waiting"] /\ restored' = "unsaid"
            /\ touched' = {}
            /\ turn' = 1 /\ inForce' = <<>> /\ problems' = FALSE
       ELSE /\ suiteAt' = "off" /\ busy' = FALSE
            /\ UNCHANGED <<measuring, suiteStop, shownVars, touched, turn, inForce, problems>>
    /\ UNCHANGED <<single, setupsAsked, round, figures, loadedCopy, workspace, pages,
                   hardwareVars, faults, visits>>

(* The thread cannot be started: the hold goes with the closure.           *)
SuiteNotSpawned ==
    /\ suiteAt = "reading" /\ inForce = <<>> /\ Faulted
    /\ suiteAt' = "off" /\ measuring' = FALSE /\ busy' = FALSE
    /\ UNCHANGED <<single, suiteStop, shownVars, setupsAsked, turn, round, figures, inForce,
                   problems, loadedCopy, workspace, pages, hardwareVars, touched, visits>>

-----------------------------------------------------------------------------
(* Suite::run.                                                             *)

(* The drivers' size and the interfaces' rate are read of the master, and  *)
(* may not be readable; without a workspace nothing is changed.            *)
SuiteReads ==
    \/ /\ Moves("reading", "next")
       /\ \E d \in {drivers[b] : b \in there} \cup {Unread}, r \in {rates[b] : b \in there} \cup {Unread} :
             inForce' = [setup |-> workspace.setup, drivers |-> d, rates |-> r]
       /\ UNCHANGED <<measuring, busy, shownVars, faults>>
    \/ /\ Moves("reading", "off") /\ Faulted
       /\ says' = "failed" /\ progress' = [s \in 1 .. setupsAsked |-> "failed"]
       /\ measuring' = FALSE /\ busy' = FALSE
       /\ UNCHANGED <<restored, inForce>>
    /\ UNCHANGED <<single, suiteStop, setupsAsked, turn, round, figures, problems, loadedCopy,
                   workspace, pages, hardwareVars, touched, visits>>

SuiteStopped == suiteStop
others == <<measuring, single, busy, suiteStop, says, restored, setupsAsked, visits>>

SuiteTurns ==
    /\ suiteAt = "next"
    /\ IF SuiteStopped \/ turn > setupsAsked
       THEN suiteAt' = "wrapping" /\ UNCHANGED progress
       ELSE suiteAt' = "switching" /\ Shows("switching")
    /\ UNCHANGED <<others, turn, round, figures, inForce, problems, loadedCopy, workspace,
                   pages, hardwareVars, touched, faults>>

(* On to the next setup, this one being left at what it shows.             *)
GoesOn == suiteAt' = "next" /\ turn' = turn + 1 /\ round' = 1 /\ figures' = <<>>
FailsSetup == Shows("failed") /\ GoesOn

(* The workspace is loaded, and saved with a change, one after the other.  *)
Loads ==
    /\ suiteAt \in {"switching", "keeping", "back"} /\ loadedCopy = <<>>
    /\ loadedCopy' = workspace
    /\ UNCHANGED <<others, progress, suiteAt, turn, round, figures, inForce, problems,
                   workspace, pages, hardwareVars, touched, faults>>

CannotSave(at) == suiteAt = at /\ loadedCopy # <<>> /\ loadedCopy' = <<>> /\ Faulted
SavesWorkspace(at, w) == suiteAt = at /\ loadedCopy # <<>> /\ loadedCopy' = <<>> /\ workspace' = w

SwitchesSetup ==
    /\ \/ /\ SavesWorkspace("switching", [loadedCopy EXCEPT !.setup = turn])
          /\ suiteAt' = "drivers" /\ UNCHANGED <<progress, turn, round, figures, faults>>
       \/ CannotSave("switching") /\ FailsSetup /\ UNCHANGED workspace
    /\ UNCHANGED <<others, inForce, problems, pages, hardwareVars, touched>>

(* Every driver is asked, whether or not one before it refused; one whose  *)
(* interface is not attached always does.                                  *)
PutsDrivers(size, refusing) ==
    /\ Boxes \ there \subseteq refusing
    /\ IF refusing \subseteq Boxes \ there THEN UNCHANGED faults ELSE Faulted
    /\ drivers' = [b \in Boxes |-> IF b \in refusing THEN drivers[b] ELSE size]

SwitchesDrivers ==
    /\ suiteAt = "drivers"
    /\ \E refusing \in SUBSET Boxes :
          /\ PutsDrivers(turn, refusing)
          /\ IF refusing = {} THEN suiteAt' = "run" /\ UNCHANGED <<progress, turn,
                                                                   round, figures>>
                             ELSE FailsSetup
    /\ UNCHANGED <<others, inForce, problems, loadedCopy, workspace, pages, rates, there,
                   touched>>

RunBegins ==
    /\ suiteAt = "run"
    /\ IF SuiteStopped THEN GoesOn /\ UNCHANGED progress
                  ELSE suiteAt' = "measured" /\ Shows("measuring") /\ UNCHANGED <<turn,
                                                                                  round,
                                                                                  figures>>
    /\ UNCHANGED <<others, inForce, problems, loadedCopy, workspace, pages, hardwareVars,
                   touched, faults>>

Again ==
    IF round < Rounds
    THEN suiteAt' = "run" /\ round' = round + 1 /\ figures' = <<>> /\ UNCHANGED <<progress,
                                                                                  turn>>
    ELSE FailsSetup

Agree(fs) == \A i, j \in DOMAIN fs : fs[i] = fs[j]

(* A figure is taken with those of this round; the last one decides.       *)
Takes(f) ==
    LET all == Append(figures, f)
    IN  \/ /\ Len(all) < Runs /\ figures' = all /\ suiteAt' = "run"
           /\ UNCHANGED <<progress, turn, round>>
        \/ /\ Len(all) = Runs /\ Agree(all) /\ figures' = <<>> /\ suiteAt' = "keeping"
           /\ UNCHANGED <<progress, turn, round>>
        \/ Len(all) = Runs /\ ~Agree(all) /\ Again

Taken == \A b \in Boxes : drivers[b] = turn

(* A run moves the interfaces to its rate.  It is given up on when a stop  *)
(* was pressed; a refusal, or a run elsewhere, fails the setup; one that   *)
(* the audio spoiled is measured again.                                    *)
RunEnds ==
    /\ suiteAt = "measured"
    /\ rates' = [b \in Boxes |-> IF b \in there THEN turn ELSE rates[b]]
    /\ \/ SuiteStopped /\ GoesOn /\ UNCHANGED <<progress, faults>>
       \/ /\ ~SuiteStopped /\ FailsSetup
          /\ IF there = Boxes /\ Taken THEN Faulted ELSE UNCHANGED faults
       \/ ~SuiteStopped /\ Faulted /\ Again
       \/ /\ ~SuiteStopped /\ there = Boxes /\ Taken /\ UNCHANGED faults
          /\ \E f \in Figures : Takes(f)
    /\ UNCHANGED <<others, inForce, problems, loadedCopy, workspace, pages, drivers, there,
                   touched>>

KeepsTrims ==
    /\ \/ /\ SavesWorkspace("keeping", [loadedCopy EXCEPT !.trims = @ \cup {turn}])
          /\ Shows("saved") /\ GoesOn /\ UNCHANGED faults
       \/ CannotSave("keeping") /\ FailsSetup /\ UNCHANGED workspace
    /\ UNCHANGED <<others, inForce, problems, pages, hardwareVars, touched>>

SuiteWraps ==
    /\ Moves("wrapping", "back")
    /\ progress' = [s \in 1 .. setupsAsked |->
                       IF SuiteStopped /\ progress[s] \notin {"saved", "failed"} THEN "stopped" ELSE progress[s]]
    /\ UNCHANGED <<others, turn, round, figures, inForce, problems, loadedCopy, workspace,
                   pages, hardwareVars, touched, faults>>

(* put_back: the workspace's setup, without which nothing more is tried;   *)
(* then the drivers and the rate, if they could be read before.            *)
PutsBackSetup ==
    /\ \/ /\ SavesWorkspace("back", [loadedCopy EXCEPT !.setup = inForce.setup])
          /\ suiteAt' = "backDrivers" /\ touched' = touched \ {"setup"}
          /\ UNCHANGED <<problems, faults>>
       \/ /\ CannotSave("back") /\ suiteAt' = "lettingGo" /\ problems' = TRUE
          /\ UNCHANGED <<workspace, touched>>
    /\ UNCHANGED <<others, progress, turn, round, figures, inForce, pages, hardwareVars>>

PutsBackDrivers ==
    /\ Moves("backDrivers", "backRates")
    /\ IF inForce.drivers = Unread THEN UNCHANGED <<drivers, problems, faults>>
       ELSE \E refusing \in SUBSET Boxes :
              PutsDrivers(inForce.drivers, refusing) /\ problems' = (refusing # {})
    /\ UNCHANGED <<others, progress, turn, round, figures, inForce, loadedCopy, workspace,
                   pages, rates, there, touched>>

(* Only attached interfaces are asked; the others are passed over.         *)
PutsBackRates ==
    /\ Moves("backRates", "lettingGo")
    /\ IF inForce.rates = Unread THEN UNCHANGED <<rates, problems, faults>>
       ELSE \E refusing \in SUBSET there :
              /\ IF refusing = {} THEN UNCHANGED faults ELSE Faulted
              /\ rates' = [b \in Boxes |-> IF b \in there \ refusing THEN inForce.rates ELSE rates[b]]
              /\ problems' = (problems \/ refusing # {})
    /\ touched' = touched \ {"rates"}
    /\ UNCHANGED <<others, progress, turn, round, figures, inForce, loadedCopy, workspace,
                   pages, drivers, there>>

LetsGo ==
    /\ Moves("lettingGo", "ending")
    /\ measuring' = FALSE
    /\ UNCHANGED <<single, busy, suiteStop, shownVars, setupsAsked, turn, round, figures,
                   inForce, problems, loadedCopy, workspace, pages, hardwareVars, touched,
                   faults, visits>>

SuiteSays ==
    /\ Moves("ending", "over")
    /\ says' = IF SuiteStopped THEN "stopped" ELSE "done"
    /\ restored' = IF problems THEN "no" ELSE "yes"
    /\ UNCHANGED <<measuring, single, busy, suiteStop, progress, setupsAsked, turn, round,
                   figures, inForce, problems, loadedCopy, workspace, pages, hardwareVars,
                   touched, faults, visits>>

SuiteOver ==
    /\ Moves("over", "off")
    /\ busy' = FALSE
    /\ UNCHANGED <<measuring, single, suiteStop, shownVars, setupsAsked, turn, round, figures,
                   inForce, problems, loadedCopy, workspace, pages, hardwareVars, touched,
                   faults, visits>>

Suite ==
    \/ SuiteHolds \/ SuiteReads \/ SuiteTurns \/ Loads \/ SwitchesSetup \/ SwitchesDrivers
    \/ RunBegins \/ RunEnds \/ KeepsTrims \/ SuiteWraps
    \/ PutsBackSetup \/ PutsBackDrivers \/ PutsBackRates \/ LetsGo \/ SuiteSays \/ SuiteOver

SuiteNext ==
    \/ SingleStarts \/ SingleEnds \/ PageReads \/ PageWrites \/ StopSuite
    \/ \E b \in Boxes : PulledOut(b)
    \/ SuiteClaims \/ SuiteNotSpawned \/ Suite

SuiteSpec == SuiteInit /\ [][SuiteNext]_suiteVars

(* The suite's thread runs, and every measurement comes to an end.         *)
SuiteFairSpec == SuiteSpec /\ WF_suiteVars(Suite)

-----------------------------------------------------------------------------
Over == ~busy /\ says \in {"done", "stopped"}

(* When the suite is over and says that it put back what was in force, it  *)
(* has: the workspace's setup, whatever a page wrote before, every driver, *)
(* and the rate of every interface that is attached; but for what it could *)
(* not read, and what others changed since.  (suite.rs, run: "Whatever     *)
(* happened, what was in force is put back".)                              *)
PutBackOrSaid ==
    Over /\ restored = "yes" =>
        /\ "setup" \in touched \/ workspace.setup = inForce.setup
        /\ inForce.drivers # Unread => \A b \in Boxes : drivers[b] = inForce.drivers
        /\ inForce.rates # Unread /\ "rates" \notin touched => \A b \in there : rates[b] = inForce.rates

(* A setup that is said to be saved has its trims in the workspace, what-  *)
(* ever became of the suite after it, unless a page wrote the workspace    *)
(* back (suite.rs, stop: "What was saved stays saved").                    *)
SavedStaysSaved ==
    \A s \in DOMAIN progress :
        progress[s] = "saved" /\ "trims" \notin touched => s \in workspace.trims

(* A single run and the suite never measure at once, and the suite's hold  *)
(* lasts until everything is put back (calibrate.rs, Held).                *)
SuiteMeasuresAlone ==
    suiteAt \notin {"off", "claimed", "ending", "over"} => measuring /\ ~single

(* Once the suite has ended no setup is shown as under way, and all of     *)
(* them have been gone through unless it was stopped.                      *)
ProgressIsSettled ==
    /\ Over /\ says = "done" => ToSet(progress) \subseteq {"saved", "failed"}
    /\ Over => ToSet(progress) \subseteq {"saved", "failed", "stopped"}

SuiteKeepsItsWord == PutBackOrSaid /\ SavedStaysSaved /\ SuiteMeasuresAlone /\ ProgressIsSettled

(* A suite that begins ends, and lets go of the measurement.               *)
SuiteEnds == busy ~> ~busy /\ suiteAt = "off"

=============================================================================
