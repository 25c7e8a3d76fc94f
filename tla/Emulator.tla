------------------------------- MODULE Emulator -------------------------------
(***************************************************************************)
(* Machines run on a drive that is open in a pane: InteractiveEmulator of  *)
(* routes/tools.py, of which there is one, the tests that run a machine    *)
(* and wait for it, and StagedMedia of emulator_media.py, which hands the  *)
(* image over, by itself, as a second link or as a copy, and takes back    *)
(* what the machine wrote.  A drive is the set of the changes it holds.    *)
(***************************************************************************)
EXTENDS Integers, FiniteSets

CONSTANTS
    Drives,     \* sessions of hard drive images
    MaxRuns,    \* machines in a behaviour
    MaxEdits    \* changes made to a drive in its pane in a behaviour

ASSUME RunsAssumption == MaxRuns \in Nat /\ MaxEdits \in Nat

VARIABLES
    image,      \* drive -> the changes it holds
    inEmulator, \* session.in_emulator
    runs,       \* the runs asked for, by number
    manager,    \* the run whose process the manager has, 0 is none
    turn,       \* the request that holds the lock of the manager, 0 is none
    leaving,    \* the run whose media that request takes back first, 0 is none
    edits       \* drive -> counts its changes in the pane up to MaxEdits

emulatorVars == <<image, inEmulator, runs, manager, turn, leaving, edits>>

Runs == DOMAIN runs

\* A request to stop the machine holds the lock under a number no run has.
StopRequest == MaxRuns + 1

\* The nth change made to a drive in its pane.
Change(n) == StopRequest + n

At(place) == {r \in Runs : runs[r].at = place}

\* A run that has its drive.
Entered == {r \in Runs : runs[r].entered}

EmulatorInit ==
    /\ image = [d \in Drives |-> {}]
    /\ inEmulator = [d \in Drives |-> FALSE]
    /\ runs = [r \in {} |-> 0]
    /\ manager = 0
    /\ turn = 0
    /\ leaving = 0
    /\ edits = [d \in Drives |-> 0]

-----------------------------------------------------------------------------
(* StagedMedia.                                                            *)

\* _place(): the image itself, a link to it, which is the same, or a copy.
Staged(r, how) ==
    [runs EXCEPT ![r].entered = TRUE, ![r].how = how, ![r].at = "entered",
                 ![r].holds = IF how = "copy" THEN image[runs[r].drive] ELSE {}]

\* __enter__() of a drive that no run has.
Enter(r) ==
    /\ ~inEmulator[runs[r].drive]
    /\ \E how \in {"itself", "copy"} : runs' = Staged(r, how)
    /\ inEmulator' = [inEmulator EXCEPT ![runs[r].drive] = TRUE]

\* Mutant: the folder of the run is removed although its copy could not be
\* taken back.
FolderRemoved(r) == [runs EXCEPT ![r].entered = FALSE, ![r].holds = {}]

\* The copy is all there is, and is left where it is.
FolderKept(r) == [runs EXCEPT ![r].entered = FALSE]

\* __exit__(): a copy of a drive that may be written is copied back over the
\* image, which a failure leaves without what it held.
Leave(r) ==
    LET run == runs[r]
        back == run.how = "copy" /\ run.writable
    IN  /\ inEmulator' = [inEmulator EXCEPT ![run.drive] = FALSE]
        /\ \/ /\ image' = IF back THEN [image EXCEPT ![run.drive] = run.holds] ELSE image
              /\ runs' = [runs EXCEPT ![r].entered = FALSE, ![r].holds = {}]
           \/ /\ back
              /\ image' = [image EXCEPT ![run.drive] = {}]
              /\ runs' = FolderKept(r)

-----------------------------------------------------------------------------
(* The requests.                                                           *)

\* Bounded runs are a test of thirty seconds and the sandbox; the others hand
\* the drive to the one machine the manager owns.
Ask(drive, bounded, writable) ==
    LET r == Cardinality(Runs) + 1 IN
    /\ r <= MaxRuns
    /\ runs' = [x \in 1..r |-> IF x # r THEN runs[x] ELSE
        [drive |-> drive, bounded |-> bounded, writable |-> writable, at |-> "asked",
         entered |-> FALSE, how |-> "itself", holds |-> {}, wrote |-> FALSE]]
    /\ UNCHANGED <<image, inEmulator, manager, turn, leaving, edits>>

Begin ==
    \/ \E d \in Drives, writable \in BOOLEAN : Ask(d, FALSE, writable)
    \/ \E d \in Drives : Ask(d, TRUE, FALSE)

\* _stop_locked(): the fields are cleared, then the machine is ended.
TakeOver(who) ==
    /\ turn = 0
    /\ turn' = who
    /\ leaving' = manager
    /\ manager' = 0

StartMachine(r) ==
    /\ runs[r].at = "asked" /\ ~runs[r].bounded
    /\ TakeOver(r)
    /\ runs' = [runs EXCEPT ![r].at = "starting"]
    /\ UNCHANGED <<image, inEmulator, edits>>

\* stop(), which without a machine does nothing.
Stop ==
    /\ manager # 0
    /\ TakeOver(StopRequest)
    /\ UNCHANGED <<image, inEmulator, runs, edits>>

\* _terminate(): the machine ends within three seconds or is killed.
Terminate ==
    /\ leaving # 0 /\ runs[leaving].at = "running"
    /\ \E how \in {"ended", "killed"} : runs' = [runs EXCEPT ![leaving].at = how]
    /\ UNCHANGED <<image, inEmulator, manager, turn, leaving, edits>>

\* What the request does when the media it had to take back are back.
Afterwards == IF turn \in Runs \ {leaving} THEN turn ELSE 0

TakeBack ==
    /\ leaving # 0 /\ runs[leaving].at \in {"ended", "killed"}
    /\ Leave(leaving)
    /\ leaving' = 0
    /\ turn' = Afterwards
    /\ UNCHANGED <<manager, edits>>

\* start() goes on with the drive of the new run, which a test may have.
EnterDrive(r) ==
    /\ turn = r /\ leaving = 0 /\ runs[r].at = "starting"
    /\ \/ Enter(r) /\ UNCHANGED turn
       \/ /\ inEmulator[runs[r].drive]
          /\ runs' = [runs EXCEPT ![r].at = "refused"]
          /\ turn' = 0
          /\ UNCHANGED inEmulator
    /\ UNCHANGED <<image, manager, leaving, edits>>

Spawn(r) ==
    /\ turn = r /\ runs[r].at = "entered"
    /\ runs' = [runs EXCEPT ![r].at = "running"]
    /\ manager' = r
    /\ turn' = 0
    /\ UNCHANGED <<image, inEmulator, leaving, edits>>

\* Xvfb or the emulator cannot be started: the media are taken back at once,
\* and a route that does so again finds them taken.
SpawnFails(r) ==
    /\ turn = r /\ runs[r].at = "entered"
    /\ runs' = [runs EXCEPT ![r].at = "ended"]
    /\ leaving' = r
    /\ UNCHANGED <<image, inEmulator, manager, turn, edits>>

\* A test has no lock but the mark on the session.
TestBegins(r) ==
    /\ runs[r].at = "asked" /\ runs[r].bounded
    /\ \/ Enter(r)
       \/ /\ inEmulator[runs[r].drive]
          /\ runs' = [runs EXCEPT ![r].at = "refused"]
          /\ UNCHANGED inEmulator
    /\ UNCHANGED <<image, manager, turn, leaving, edits>>

TestRuns(r) ==
    /\ runs[r].bounded /\ runs[r].at = "entered"
    /\ \E place \in {"running", "ended"} : runs' = [runs EXCEPT ![r].at = place]
    /\ UNCHANGED <<image, inEmulator, manager, turn, leaving, edits>>

TestEnds(r) ==
    /\ runs[r].bounded /\ runs[r].at = "ended" /\ runs[r].entered
    /\ Leave(r)
    /\ UNCHANGED <<manager, turn, leaving, edits>>

-----------------------------------------------------------------------------
(* The machines, the thread that waits for each, and the pane.             *)

\* An installer writes to the drive it was given.
MachineWrites(r) ==
    /\ runs[r].at = "running" /\ runs[r].writable /\ ~runs[r].wrote
    /\ IF runs[r].how = "copy"
       THEN runs' = [runs EXCEPT ![r].wrote = TRUE, ![r].holds = @ \cup {r}] /\ UNCHANGED image
       ELSE /\ runs' = [runs EXCEPT ![r].wrote = TRUE]
            /\ image' = [image EXCEPT ![runs[r].drive] = @ \cup {r}]
    /\ UNCHANGED <<inEmulator, manager, turn, leaving, edits>>

\* The user closes it, or a test is over.
MachineEnds(r) ==
    /\ runs[r].at = "running"
    /\ runs' = [runs EXCEPT ![r].at = "ended"]
    /\ UNCHANGED <<image, inEmulator, manager, turn, leaving, edits>>

\* Mutant: whatever the manager has now is taken back.
ReapsAnything(r) == manager

\* Mutant: nobody waits for the process.
ReapsNothing(r) == 0

\* self.process is process
Reaps(r) == IF manager = r THEN r ELSE 0

\* _reap(): only of the machine that the manager still has.
Reap(r) ==
    /\ runs[r].at \in {"ended", "killed"} /\ ~runs[r].bounded
    /\ turn = 0 /\ Reaps(r) # 0
    /\ Leave(Reaps(r))
    /\ manager' = 0
    /\ UNCHANGED <<turn, leaving, edits>>

\* Changes are refused while the drive is in an emulator.
Edit(d) ==
    /\ edits[d] < MaxEdits
    /\ ~inEmulator[d]
    /\ edits' = [edits EXCEPT ![d] = @ + 1]
    /\ image' = [image EXCEPT ![d] = @ \cup {Change(edits'[d])}]
    /\ UNCHANGED <<inEmulator, runs, manager, turn, leaving>>

Manage(r) ==
    \/ EnterDrive(r)
    \/ Spawn(r)
    \/ SpawnFails(r)
    \/ TestEnds(r)
    \/ Reap(r)

EmulatorNext ==
    \/ Begin
    \/ Stop
    \/ Terminate
    \/ TakeBack
    \/ \E d \in Drives : Edit(d)
    \/ \E r \in Runs :
        StartMachine(r) \/ Manage(r) \/ TestBegins(r) \/ TestRuns(r)
        \/ MachineWrites(r) \/ MachineEnds(r)

\* A request that holds the lock goes on, and a machine that ended is noticed.
EmulatorFairness == WF_emulatorVars(Terminate \/ TakeBack \/ \E r \in Runs : Manage(r))

EmulatorSpec == EmulatorInit /\ [][EmulatorNext]_emulatorVars

-----------------------------------------------------------------------------
(* Properties.                                                             *)

\* A drive is marked as in the emulator exactly while one run has it, and a
\* run that has it is the manager's, a test, or the one the request with the
\* lock is starting or taking back: none is forgotten with its drive.
MediaAreHeldOnce ==
    /\ \A d \in Drives :
        LET held == {r \in Entered : runs[r].drive = d} IN
        /\ Cardinality(held) <= 1
        /\ inEmulator[d] <=> held # {}
    /\ \A r \in Entered : runs[r].bounded \/ r \in {manager, leaving, turn}
    /\ \A r \in At("running") : runs[r].entered

\* What a machine wrote, and what was changed in the pane, is in the image or
\* in the copy that is kept of a run whose copy could not be taken back.
WorkIsKept ==
    \A d \in Drives :
        LET mine == {r \in Runs : runs[r].drive = d}
        IN  {r \in mine : runs[r].wrote} \cup {Change(n) : n \in 1..edits[d]}
                \subseteq image[d] \cup UNION {runs[r].holds : r \in mine}

\* A drive whose machine has ended can be changed again, whatever is started,
\* stopped or tested in between.
DriveComesBack ==
    \A r \in 1..MaxRuns :
        (r \in Runs /\ runs[r].at \in {"ended", "killed"}) ~> (r \in Runs /\ ~runs[r].entered)

-----------------------------------------------------------------------------
(* The invariant behind MediaAreHeldOnce and WorkIsKept.                   *)

Run ==
    [drive : Drives, bounded : BOOLEAN, writable : BOOLEAN,
     at : {"asked", "starting", "entered", "running", "ended", "killed", "refused"},
     entered : BOOLEAN, how : {"itself", "copy"}, holds : SUBSET Nat, wrote : BOOLEAN]

DrivesOK ==
    /\ \E n \in 0..MaxRuns : runs \in [1..n -> Run]
    /\ image \in [Drives -> SUBSET Nat]
    /\ inEmulator \in [Drives -> BOOLEAN]
    /\ edits \in [Drives -> Nat]

\* What a run is at tells whether it has its drive.
PlacesFit ==
    \A r \in Runs :
        /\ runs[r].entered => runs[r].at \in {"entered", "running", "ended", "killed"}
        /\ runs[r].at \in {"entered", "running"} => runs[r].entered
        /\ runs[r].at \in {"asked", "starting"} => runs[r].holds = {}
        /\ runs[r].bounded => ~runs[r].writable

HeldByOne ==
    /\ \A r, q \in Entered : runs[r].drive = runs[q].drive => r = q
    /\ \A d \in Drives : inEmulator[d] <=> \E r \in Entered : runs[r].drive = d

\* A copy holds all that the image does, and no more unless it is written.
CopiesFit ==
    \A r \in Entered :
        /\ runs[r].how = "itself" => runs[r].holds = {}
        /\ runs[r].how = "copy" => image[runs[r].drive] \subseteq runs[r].holds
        /\ ~runs[r].writable => runs[r].holds \subseteq image[runs[r].drive]

DrivesInv == DrivesOK /\ PlacesFit /\ HeldByOne /\ CopiesFit /\ WorkIsKept

\* The one run that holds the lock, or is on its way out, and the manager's.
OneMachine ==
    /\ manager \in Runs \cup {0} /\ leaving \in Runs \cup {0}
    /\ turn \in Runs \cup {0, StopRequest}
    /\ turn # 0 => manager = 0
    /\ leaving # 0 => turn # 0
    /\ \A r \in {manager, leaving} \ {0} :
        /\ runs[r].entered /\ ~runs[r].bounded
        /\ runs[r].at \in {"running", "ended", "killed"}
    /\ turn \in Runs =>
        /\ ~runs[turn].bounded
        /\ turn # leaving => runs[turn].at \in {"starting", "entered"}
        /\ leaving \notin {0, turn} => runs[turn].at = "starting"
    /\ \A r \in Entered : runs[r].bounded \/ r \in {manager, leaving, turn}

EmulatorInv == DrivesInv /\ OneMachine
=============================================================================
