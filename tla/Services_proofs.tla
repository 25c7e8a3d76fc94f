--------------------------- MODULE Services_proofs ---------------------------
(* Theorems about OperationRegistry, AppUpdate and Emulator: for any         *)
(* operations, any releases, any drives, and any number of threads, machines, *)
(* changes and restarts.                                                     *)
EXTENDS OperationRegistry, AppUpdate, Emulator, FiniteSetTheorems, TLAPS

LEMMA AtMostOne ==
    ASSUME NEW S, \A x, y \in S : x = y
    PROVE  IsFiniteSet(S) /\ Cardinality(S) <= 1
<1>1. CASE S = {}
  BY <1>1, FS_EmptySet
<1>2. CASE S # {}
  <2>1. PICK x \in S : TRUE
    BY <1>2
  <2>2. S = {x}
    BY <2>1
  <2>3. IsFiniteSet({x}) /\ Cardinality({x}) = 1
    BY FS_Singleton
  <2>4. QED
    BY <2>2, <2>3
<1>3. QED
  BY <1>1, <1>2

-----------------------------------------------------------------------------
(* The update of the application.                                            *)

Threads(n) == [1..n -> [at : Working \cup {"finally", "gone"},
                        release : Releases \cup {0}, got : Nat]]

(* A step of one thread, which goes from one place to another. *)
LEMMA ThreadMoves ==
    ASSUME UpdateInv, NEW w \in DOMAIN thread,
           NEW place \in Working \cup {"finally", "gone"},
           Goto(w, place)
    PROVE  /\ \E n \in 0..MaxUpdates : thread' \in Threads(n)
           /\ DOMAIN thread' = DOMAIN thread
           /\ \A v \in DOMAIN thread \ {w} : thread'[v] = thread[v]
           /\ thread'[w].at = place /\ thread'[w].release = thread[w].release
<1>1. PICK n \in 0..MaxUpdates : thread \in Threads(n)
  BY DEF UpdateInv, Threads
<1>2. thread' \in Threads(n)
  BY <1>1 DEF Goto, Threads
<1>3. QED
  BY <1>1, <1>2 DEF Goto, Threads

(* A thread that starts while none is under way is the only one.             *)
LEMMA ThreadStarts ==
    ASSUME UpdateInv, phase \notin BusyPhases,
           NEW new \in [at : {"ask", "sums"}, release : Releases \cup {0}, got : Nat],
           StartThread(new)
    PROVE  /\ \E n \in 0..MaxUpdates : thread' \in Threads(n)
           /\ \E w \in DOMAIN thread' :
                /\ thread'[w] = new
                /\ \A v \in DOMAIN thread' \ {w} : thread'[v].at \notin Working
<1>1. PICK n \in 0..MaxUpdates : thread \in Threads(n)
  BY DEF UpdateInv, Threads
<1>2. DOMAIN thread = 1..n /\ n \in Nat
  BY <1>1, UpdateBoundsAssumption DEF Threads
<1>3. Cardinality(DOMAIN thread) = n
  BY <1>2, FS_Interval
<1>4. n < MaxUpdates /\ thread' = [w \in 1..(n + 1) |-> IF w \in 1..n THEN thread[w] ELSE new]
  BY <1>2, <1>3 DEF StartThread
<1>5. new \in [at : Working \cup {"finally", "gone"}, release : Releases \cup {0}, got : Nat]
  BY DEF Working
<1>6. thread' \in Threads(n + 1) /\ n + 1 \in 0..MaxUpdates
  BY <1>1, <1>2, <1>4, <1>5, UpdateBoundsAssumption DEF Threads
<1>7. \A v \in DOMAIN thread : thread[v].at \notin Working
  BY DEF UpdateInv, Shows, BusyPhases
<1>8. n + 1 \in DOMAIN thread' /\ thread'[n + 1] = new
  BY <1>2, <1>4
<1>9. \A v \in DOMAIN thread' \ {n + 1} : v \in DOMAIN thread /\ thread'[v] = thread[v]
  BY <1>2, <1>4
<1>10. QED
  BY <1>6, <1>7, <1>8, <1>9

LEMMA InitUpdate == UpdateInit => UpdateInv
<1> SUFFICES ASSUME UpdateInit PROVE UpdateInv
  OBVIOUS
<1>2. thread = [w \in {} |-> 0] /\ DOMAIN thread = {}
  BY DEF UpdateInit
<1>3. 1..0 = {} /\ 0 \in 0..MaxUpdates
  BY UpdateBoundsAssumption
<1>4. thread \in Threads(0)
  BY <1>2, <1>3 DEF Threads
<1>5. \E n \in 0..MaxUpdates : thread \in Threads(n)
  BY <1>3, <1>4
<1>6. package \in [Releases -> {"none", "right", "wrong"}]
  BY DEF UpdateInit
<1>7. QED
  BY <1>2, <1>5, <1>6 DEF UpdateInit, UpdateInv, Threads, BusyPhases

LEMMA NextUpdate == UpdateInv /\ [UpdateNext]_updateVars => UpdateInv'
<1> SUFFICES ASSUME UpdateInv, [UpdateNext]_updateVars PROVE UpdateInv'
  OBVIOUS
<1>0. /\ release \in Releases \cup {0} /\ published \in Releases \cup {0}
      /\ package \in [Releases -> {"none", "right", "wrong"}]
      /\ \E n \in 0..MaxUpdates : thread \in Threads(n)
  BY DEF UpdateInv, Threads
<1>1. ASSUME Publish \/ DiskAtWork \/ CancelUpdate \/ UNCHANGED updateVars PROVE UpdateInv'
  BY <1>1 DEF Publish, DiskAtWork, CancelUpdate, updateVars, UpdateInv
<1>2. CASE Check
  <2> DEFINE new == [at |-> "ask", release |-> 0, got |-> 0]
  <2>1. /\ StartThread(new) /\ phase \notin BusyPhases /\ phase' = "checking" /\ release' = 0
        /\ package' = package /\ published' = published
    BY <1>2 DEF Check
  <2>2. new \in [at : {"ask", "sums"}, release : Releases \cup {0}, got : Nat] /\ new.at = "ask"
    OBVIOUS
  <2> HIDE DEF new
  <2>3. /\ \E n \in 0..MaxUpdates : thread' \in Threads(n)
        /\ \E w \in DOMAIN thread' :
              thread'[w] = new /\ \A v \in DOMAIN thread' \ {w} : thread'[v].at \notin Working
    BY <2>1, <2>2, ThreadStarts
  <2>4. QED
    BY <1>0, <2>1, <2>2, <2>3 DEF UpdateInv, Threads, Working, Shows
<1>3. CASE Install
  <2> DEFINE new == [at |-> "sums", release |-> release, got |-> 0]
  <2>1. /\ StartThread(new) /\ phase \notin BusyPhases /\ phase' = "downloading"
        /\ release' = release /\ release \in Installable
        /\ package' = package /\ published' = published
    BY <1>3 DEF Install, MayInstall, BusyPhases
  <2>2. /\ new \in [at : {"ask", "sums"}, release : Releases \cup {0}, got : Nat]
        /\ new.at = "sums" /\ new.release = release
    BY <1>0
  <2> HIDE DEF new
  <2>3. /\ \E n \in 0..MaxUpdates : thread' \in Threads(n)
        /\ \E w \in DOMAIN thread' :
              thread'[w] = new /\ \A v \in DOMAIN thread' \ {w} : thread'[v].at \notin Working
    BY <2>1, <2>2, ThreadStarts
  <2>4. QED
    BY <1>0, <2>1, <2>2, <2>3 DEF UpdateInv, Threads, Working, Shows
<1>4. ASSUME NEW w \in DOMAIN thread, thread[w].at \in Working,
             NEW as \in {"failed", "current", "available", "installed"},
             Ends(w, as), published' = published,
             release' \in Releases \cup {0},
             package' \in [Releases -> {"none", "right", "wrong"}]
      PROVE  UpdateInv'
  <2>1. PICK place \in {"gone", "finally"} : Goto(w, place)
    BY <1>4 DEF Ends
  <2>2. /\ \E n \in 0..MaxUpdates : thread' \in Threads(n)
        /\ DOMAIN thread' = DOMAIN thread
        /\ \A v \in DOMAIN thread \ {w} : thread'[v] = thread[v]
        /\ thread'[w].at = place
    BY <2>1, ThreadMoves
  <2>3. \A v \in DOMAIN thread' : thread'[v].at \notin Working
    BY <1>4, <2>2 DEF UpdateInv, Working
  <2>4. phase' \notin BusyPhases
    BY <1>4 DEF Ends, BusyPhases
  <2>5. QED
    BY <1>0, <1>4, <2>2, <2>3, <2>4 DEF UpdateInv, Threads
(* A thread that goes on keeps the release it has. *)
<1>5. ASSUME NEW w \in DOMAIN thread, thread[w].at \in Working \ {"ask"},
             NEW place \in Working \ {"ask"}, Goto(w, place),
             phase' = Shows(place), release' = release, published' = published,
             package' \in [Releases -> {"none", "right", "wrong"}],
             place \in {"gate", "apt"} => package'[release] = "right"
      PROVE  UpdateInv'
  <2>1. /\ \E n \in 0..MaxUpdates : thread' \in Threads(n)
        /\ DOMAIN thread' = DOMAIN thread
        /\ \A v \in DOMAIN thread \ {w} : thread'[v] = thread[v]
        /\ thread'[w].at = place /\ thread'[w].release = thread[w].release
    BY <1>5, ThreadMoves
  <2>2. /\ \A v \in DOMAIN thread \ {w} : thread[v].at \notin Working
        /\ thread[w].release = release /\ release \in Installable
    BY <1>5 DEF UpdateInv
  <2>3. QED
    BY <1>0, <1>5, <2>1, <2>2 DEF UpdateInv, Threads
<1>6. ASSUME NEW w \in DOMAIN thread, ThreadStep(w) \/ Apt(w) PROVE UpdateInv'
  <2> USE <1>0
  <2>1. CASE AskRelease(w)
    BY <1>4, <2>1 DEF AskRelease, AskFails, Working
  <2>2. CASE ReadSums(w)
    <3>1. CASE Ends(w, "failed")
      BY <1>4, <2>2, <3>1 DEF ReadSums, Working
    <3>2. CASE Goto(w, "fetch") /\ phase' = phase
      <4>1. phase = "downloading"
        BY <2>2 DEF ReadSums, UpdateInv, Working, Shows
      <4>2. QED
        BY <1>5, <2>2, <3>2, <4>1 DEF ReadSums, Working, Shows
    <3>3. QED
      BY <2>2, <3>1, <3>2 DEF ReadSums
  <2>3. CASE Stopped(w)
    BY <1>4, <2>3 DEF Stopped, Working
  <2>4. CASE Fetch(w)
    <3>1. /\ thread[w].at = "fetch" /\ phase = "downloading"
          /\ release \in Installable /\ thread[w].release = release
      BY <2>4 DEF Fetch, UpdateInv, Working, Shows
    <3>2. CASE Ends(w, "failed") /\ package' = package
      BY <1>4, <2>4, <3>1, <3>2 DEF Fetch, Working
    <3>3. CASE Goto(w, "compare") /\ phase' = phase
      <4>1. package' \in [Releases -> {"none", "right", "wrong"}]
        BY <2>4 DEF Fetch
      <4>2. QED
        BY <1>5, <2>4, <3>1, <3>3, <4>1 DEF Fetch, Working, Shows
    <3>4. CASE /\ thread' = [thread EXCEPT ![w].got = @ + 1] /\ phase' = phase
               /\ package' = package
      <4>1. PICK n \in 0..MaxUpdates : thread \in Threads(n)
        OBVIOUS
      <4>2. /\ thread' \in Threads(n) /\ DOMAIN thread' = DOMAIN thread
            /\ \A v \in DOMAIN thread : /\ thread'[v].at = thread[v].at
                                        /\ thread'[v].release = thread[v].release
        BY <3>4, <4>1 DEF Threads
      <4>3. release' = release /\ published' = published
        BY <2>4 DEF Fetch
      <4>4. QED
        BY <3>4, <4>2, <4>3 DEF UpdateInv, Threads
    <3>5. QED
      BY <2>4, <3>2, <3>3, <3>4 DEF Fetch
  <2>5. CASE Compare(w)
    <3>1. /\ thread[w].at = "compare" /\ phase = "downloading"
          /\ thread[w].release = release
      BY <2>5 DEF Compare, UpdateInv, Working, Shows
    <3>2. CASE package[release] = "right"
      BY <1>5, <2>5, <3>1, <3>2 DEF Compare, Working, Shows
    <3>3. CASE package[release] # "right"
      BY <1>4, <2>5, <3>1, <3>3 DEF Compare, Working
    <3>4. QED
      BY <3>2, <3>3
  <2>6. CASE Gate(w)
    <3>1. thread[w].at = "gate" /\ package[release] = "right"
      BY <2>6 DEF Gate, UpdateInv, Working
    <3>2. CASE busy
      BY <1>4, <2>6, <3>1, <3>2 DEF Gate, Working
    <3>3. CASE ~busy
      BY <1>5, <2>6, <3>1, <3>3 DEF Gate, Working, Shows
    <3>4. QED
      BY <3>2, <3>3
  <2>7. CASE Apt(w)
    <3>1. package' \in [Releases -> {"none", "right", "wrong"}]
      BY <2>7 DEF Apt
    <3>2. PICK as \in {"failed", "available", "installed"} : Ends(w, as)
      BY <2>7 DEF Apt
    <3>3. thread[w].at = "apt" /\ release' = release /\ published' = published
      BY <2>7 DEF Apt
    <3>4. QED
      BY <1>4, <3>1, <3>2, <3>3 DEF Working
  <2>8. CASE Finally(w)
    <3>1. thread[w].at = "finally" /\ Goto(w, "gone")
      BY <2>8 DEF Finally
    <3>2. /\ \E n \in 0..MaxUpdates : thread' \in Threads(n)
          /\ DOMAIN thread' = DOMAIN thread
          /\ \A v \in DOMAIN thread \ {w} : thread'[v] = thread[v]
          /\ thread'[w].at = "gone"
      BY <3>1, ThreadMoves
    <3>3. \A v \in DOMAIN thread : thread'[v].at \in Working => thread'[v] = thread[v]
      BY <3>2 DEF Working
    <3>4. UNCHANGED <<published, phase, release, package>>
      BY <2>8 DEF Finally
    <3>5. phase \in BusyPhases => \E v \in DOMAIN thread' : thread'[v].at \in Working
      BY <3>1, <3>2 DEF UpdateInv, Working
    <3>6. QED
      BY <3>2, <3>3, <3>4, <3>5 DEF UpdateInv, Threads
  <2>9. QED
    BY <1>6, <2>1, <2>2, <2>3, <2>4, <2>5, <2>6, <2>7, <2>8 DEF ThreadStep
<1>7. QED
  BY <1>1, <1>2, <1>3, <1>6 DEF UpdateNext

(* Every page is shown the update that is under way: one thread at most is   *)
(* at work, the state is that of its stage, and what apt is given is the     *)
(* release that is shown and was compared with its checksum, however many    *)
(* checks, installs and cancels were asked for and whatever was published.   *)
THEOREM StateOfTheUpdate == UpdateSpec => []StateIsTheThread
<1>1. UpdateInv => StateIsTheThread
  <2> SUFFICES ASSUME UpdateInv PROVE StateIsTheThread
    OBVIOUS
  <2> DEFINE at_work == {w \in DOMAIN thread : thread[w].at \in Working}
  <2>1. Cardinality(at_work) <= 1
    <3>1. \A v, w \in at_work : v = w
      BY DEF UpdateInv
    <3>2. QED
      BY <3>1, AtMostOne
  <2>2. phase \in BusyPhases <=> at_work # {}
    BY DEF UpdateInv, Shows, BusyPhases
  <2>3. \A w \in at_work :
          /\ phase = Shows(thread[w].at)
          /\ thread[w].at \in {"gate", "apt"} =>
              thread[w].release = release /\ package[release] = "right"
    BY DEF UpdateInv
  <2>4. QED
    BY <2>1, <2>2, <2>3 DEF StateIsTheThread
<1>2. QED
  BY <1>1, InitUpdate, NextUpdate, PTL DEF UpdateSpec

-----------------------------------------------------------------------------
(* The emulator.  First what DrivesInv says of the drives, which no machine  *)
(* and no lock is part of.                                                   *)

Covered(x, d) ==
    x \in image[d] \/ \E q \in Runs : runs[q].drive = d /\ x \in runs[q].holds

LEMMA WorkCovered ==
    WorkIsKept <=>
        /\ \A r \in Runs : runs[r].drive \in Drives /\ runs[r].wrote
                            => Covered(r, runs[r].drive)
        /\ \A d \in Drives : \A n \in 1..edits[d] : Covered(Change(n), d)
  BY DEF WorkIsKept, Covered

(* What was covered stays so when every drive and every run keep what they   *)
(* hold, and what is new is covered.                                         *)
LEMMA WorkStays ==
    ASSUME WorkIsKept,
           \A d \in Drives : \A x : Covered(x, d) => Covered(x, d)',
           \A r \in Runs' : runs'[r].drive \in Drives /\ runs'[r].wrote =>
              \/ r \in Runs /\ runs[r].drive = runs'[r].drive /\ runs[r].wrote
              \/ Covered(r, runs[r].drive)',
           \A d \in Drives : \A n \in 1..edits'[d] :
              n \in 1..edits[d] \/ Covered(Change(n), d)'
    PROVE  WorkIsKept'
<1>1. /\ \A r \in Runs : runs[r].drive \in Drives /\ runs[r].wrote
                          => Covered(r, runs[r].drive)
      /\ \A d \in Drives : \A n \in 1..edits[d] : Covered(Change(n), d)
  BY WorkCovered
<1>2. \A r \in Runs' : runs'[r].drive \in Drives /\ runs'[r].wrote
        => Covered(r, runs[r].drive)'
  BY <1>1
<1>3. \A d \in Drives : \A n \in 1..edits'[d] : Covered(Change(n), d)'
  BY <1>1
<1>4. QED
  BY <1>2, <1>3 DEF WorkIsKept, Covered, Change, StopRequest

(* A step that leaves the drives alone and moves one run to another place.   *)
LEMMA PlaceMoves ==
    ASSUME DrivesInv, NEW r \in Runs,
           NEW place \in {"starting", "entered", "running", "ended", "killed", "refused"},
           runs' = [runs EXCEPT ![r].at = place],
           UNCHANGED <<image, inEmulator, edits>>,
           runs[r].entered => place \in {"entered", "running", "ended", "killed"},
           place \in {"entered", "running"} => runs[r].entered,
           place = "starting" => runs[r].holds = {}
    PROVE  /\ DrivesInv'
           /\ Runs' = Runs
           /\ \A q \in Runs \ {r} : runs'[q] = runs[q]
           /\ runs'[r].at = place
           /\ runs'[r].entered = runs[r].entered /\ runs'[r].bounded = runs[r].bounded
<1>1. PICK n \in 0..MaxRuns : runs \in [1..n -> Run]
  BY DEF DrivesInv, DrivesOK
<1>2. runs' \in [1..n -> Run]
  BY <1>1 DEF Run, Runs
<1>3. Runs' = Runs
  BY <1>1, <1>2 DEF Runs
<1>4. /\ \A q \in Runs \ {r} : runs'[q] = runs[q]
      /\ runs'[r].at = place
      /\ \A q \in Runs : /\ runs'[q].drive = runs[q].drive
                         /\ runs'[q].bounded = runs[q].bounded
                         /\ runs'[q].writable = runs[q].writable
                         /\ runs'[q].entered = runs[q].entered
                         /\ runs'[q].how = runs[q].how
                         /\ runs'[q].holds = runs[q].holds
                         /\ runs'[q].wrote = runs[q].wrote
  BY <1>1 DEF Run, Runs
<1>5. DrivesOK'
  BY <1>1, <1>2 DEF DrivesInv, DrivesOK
<1>6. PlacesFit'
  BY <1>3, <1>4 DEF DrivesInv, PlacesFit
<1>7. Entered' = Entered
  BY <1>3, <1>4 DEF Entered
<1>8. HeldByOne'
  BY <1>4, <1>7 DEF DrivesInv, HeldByOne, Entered
<1>9. CopiesFit'
  BY <1>4, <1>7 DEF DrivesInv, CopiesFit, Entered
<1>10. WorkIsKept'
  BY <1>3, <1>4, WorkStays DEF DrivesInv, Covered
<1>11. QED
  BY <1>3, <1>4, <1>5, <1>6, <1>8, <1>9, <1>10 DEF DrivesInv

(* A step that gives one run another record and another image to its drive,  *)
(* with no other run on it.                                                  *)
OnlyDrive(drive, bytes, mark) ==
    /\ image' = [image EXCEPT ![drive] = bytes]
    /\ inEmulator' = [inEmulator EXCEPT ![drive] = mark]

LEMMA DriveChanges ==
    ASSUME DrivesInv, NEW r \in Runs, NEW run \in Run, NEW bytes \in SUBSET Nat,
           NEW mark \in BOOLEAN,
           runs' = [runs EXCEPT ![r] = run],
           OnlyDrive(run.drive, bytes, mark),
           UNCHANGED edits,
           run.drive = runs[r].drive, run.bounded = runs[r].bounded,
           run.writable = runs[r].writable,
           \A q \in Entered \ {r} : runs[q].drive # run.drive,
           run.entered = mark,
           run.entered => run.at \in {"entered", "running", "ended", "killed"},
           run.at \in {"entered", "running"} => run.entered,
           run.at \in {"asked", "starting"} => run.holds = {},
           run.entered =>
              /\ run.how = "itself" => run.holds = {}
              /\ run.how = "copy" => bytes \subseteq run.holds
              /\ ~run.writable => run.holds \subseteq bytes,
           image[run.drive] \cup runs[r].holds \subseteq bytes \cup run.holds,
           run.wrote => runs[r].wrote \/ r \in bytes \cup run.holds
    PROVE  /\ DrivesInv'
           /\ Runs' = Runs
           /\ \A q \in Runs \ {r} : runs'[q] = runs[q]
           /\ runs'[r] = run
<1>1. PICK n \in 0..MaxRuns : runs \in [1..n -> Run]
  BY DEF DrivesInv, DrivesOK
<1>2. runs' \in [1..n -> Run] /\ Runs = 1..n
  BY <1>1 DEF Runs
<1>3. Runs' = Runs
  BY <1>1, <1>2 DEF Runs
<1>4. /\ \A q \in Runs \ {r} : runs'[q] = runs[q]
      /\ runs'[r] = run
      /\ run.drive \in Drives
  BY <1>1, <1>2 DEF Run
<1>5. DrivesOK'
  BY <1>1, <1>2, <1>4 DEF DrivesInv, DrivesOK, OnlyDrive
<1>6. PlacesFit'
  BY <1>3, <1>4 DEF DrivesInv, PlacesFit
<1>7. Entered' \ {r} = Entered \ {r} /\ (r \in Entered' <=> mark)
  BY <1>3, <1>4 DEF Entered
<1>8. /\ \A d \in Drives \ {run.drive} : image'[d] = image[d] /\ inEmulator'[d] = inEmulator[d]
      /\ image'[run.drive] = bytes /\ inEmulator'[run.drive] = mark
  BY <1>4 DEF DrivesInv, DrivesOK, OnlyDrive
<1>9. \A q \in Entered \ {r} : runs[q].drive \in Drives \ {run.drive}
  BY <1>1, <1>2 DEF Entered, Run
<1>10. HeldByOne'
  <2>1. \A q, p \in Entered' : runs'[q].drive = runs'[p].drive => q = p
    BY <1>4, <1>7, <1>9 DEF DrivesInv, HeldByOne, Entered
  <2>2. \A d \in Drives : inEmulator'[d] <=> \E q \in Entered' : runs'[q].drive = d
    <3>1. TAKE d \in Drives
    <3>2. CASE d = run.drive
      BY <1>4, <1>7, <1>8, <1>9, <3>2 DEF Entered
    <3>3. CASE d # run.drive
      <4>1. inEmulator'[d] <=> \E q \in Entered : runs[q].drive = d
        BY <1>8, <3>3 DEF DrivesInv, HeldByOne
      <4>2. QED
        BY <1>4, <1>7, <3>3, <4>1 DEF Entered
    <3>4. QED
      BY <3>2, <3>3
  <2>3. QED
    BY <2>1, <2>2 DEF HeldByOne
<1>11. CopiesFit'
  <2>1. ASSUME NEW q \in Entered \ {r}
        PROVE  /\ q \in Entered' /\ runs'[q] = runs[q]
               /\ image'[runs[q].drive] = image[runs[q].drive]
    BY <1>4, <1>7, <1>8, <1>9, <2>1 DEF Entered
  <2> DEFINE Fits(a, b) == /\ a.how = "itself" => a.holds = {}
                           /\ a.how = "copy" => b \subseteq a.holds
                           /\ ~a.writable => a.holds \subseteq b
  <2>2. ASSUME NEW q \in Entered PROVE Fits(runs[q], image[runs[q].drive])
    BY DEF DrivesInv, CopiesFit
  <2>3. run.entered => Fits(run, bytes)
    OBVIOUS
  <2> HIDE DEF Fits
  <2>4. ASSUME NEW q \in Entered' PROVE Fits(runs'[q], image'[runs'[q].drive])
    <3>1. CASE q = r
      BY <1>4, <1>7, <1>8, <2>3, <3>1
    <3>2. CASE q # r
      BY <1>7, <2>1, <2>2, <3>2
    <3>3. QED
      BY <3>1, <3>2
  <2>5. QED
    BY <2>4 DEF Fits, CopiesFit
<1>12. WorkIsKept'
  <2>1. ASSUME NEW d \in Drives, NEW x, Covered(x, d) PROVE Covered(x, d)'
    <3>1. CASE d = run.drive
      <4>1. \/ x \in image[run.drive] \cup runs[r].holds
            \/ \E q \in Runs \ {r} : runs[q].drive = d /\ x \in runs[q].holds
        BY <2>1, <3>1 DEF Covered
      <4>2. CASE x \in image[run.drive] \cup runs[r].holds
        BY <1>3, <1>4, <1>8, <3>1, <4>2 DEF Covered
      <4>3. CASE \E q \in Runs \ {r} : runs[q].drive = d /\ x \in runs[q].holds
        BY <1>3, <1>4, <4>3 DEF Covered
      <4>4. QED
        BY <4>1, <4>2, <4>3
    <3>2. CASE d # run.drive
      BY <1>3, <1>4, <1>8, <2>1, <3>2 DEF Covered
    <3>3. QED
      BY <3>1, <3>2
  <2>2. \A q \in Runs' : runs'[q].drive \in Drives /\ runs'[q].wrote =>
              \/ q \in Runs /\ runs[q].drive = runs'[q].drive /\ runs[q].wrote
              \/ Covered(q, runs[q].drive)'
    BY <1>3, <1>4, <1>8 DEF Covered
  <2>3. QED
    BY <2>1, <2>2, WorkStays DEF DrivesInv
<1>13. QED
  BY <1>3, <1>4, <1>5, <1>6, <1>10, <1>11, <1>12 DEF DrivesInv

LEMMA RunsAreRecords ==
    ASSUME DrivesInv
    PROVE  /\ \E n \in 0..MaxRuns : runs \in [1..n -> Run] /\ Runs = 1..n
           /\ \A r \in Runs : /\ runs[r] \in Run /\ r \in Nat \ {0}
                              /\ r # StopRequest
                              /\ image[runs[r].drive] \in SUBSET Nat
                              /\ image[runs[r].drive] = image[runs[r].drive] \cup {}
           /\ image \in [Drives -> SUBSET Nat] /\ inEmulator \in [Drives -> BOOLEAN]
<1>1. PICK n \in 0..MaxRuns : runs \in [1..n -> Run]
  BY DEF DrivesInv, DrivesOK
<1>2. Runs = 1..n
  BY <1>1 DEF Runs
<1>3. \A r \in Runs : runs[r] \in Run /\ runs[r].drive \in Drives
  BY <1>1, <1>2 DEF Run
<1>4. image \in [Drives -> SUBSET Nat] /\ inEmulator \in [Drives -> BOOLEAN]
  BY DEF DrivesInv, DrivesOK
<1>5. QED
  BY <1>1, <1>2, <1>3, <1>4, RunsAssumption DEF StopRequest

(* __enter__() of a run that has no copy and no drive.                       *)
LEMMA EnterKeeps ==
    ASSUME DrivesInv, NEW r \in Runs, Enter(r), runs[r].at \in {"asked", "starting"},
           UNCHANGED <<image, edits>>
    PROVE  /\ DrivesInv'
           /\ Runs' = Runs
           /\ \A q \in Runs \ {r} : runs'[q] = runs[q]
           /\ runs'[r].at = "entered" /\ runs'[r].entered
           /\ runs'[r].bounded = runs[r].bounded
<1>1. PICK how \in {"itself", "copy"} : runs' = Staged(r, how)
  BY DEF Enter
<1> DEFINE holds == IF how = "copy" THEN image[runs[r].drive] ELSE {}
           run == [runs[r] EXCEPT !.entered = TRUE, !.how = how, !.at = "entered",
                                  !.holds = holds]
<1>2. /\ runs[r] \in Run /\ runs[r].drive \in Drives
      /\ image \in [Drives -> SUBSET Nat] /\ inEmulator \in [Drives -> BOOLEAN]
      /\ \E n \in 0..MaxRuns : runs \in [1..n -> Run]
  BY RunsAreRecords DEF Run
<1>3. runs' = [runs EXCEPT ![r] = run]
  BY <1>1, <1>2 DEF Staged, Run
<1>4. holds \in SUBSET Nat
  BY <1>2
<1>5. /\ run \in Run
      /\ run.drive = runs[r].drive /\ run.bounded = runs[r].bounded
      /\ run.writable = runs[r].writable /\ run.at = "entered"
      /\ run.entered = TRUE /\ run.how = how /\ run.holds = holds
      /\ run.wrote = runs[r].wrote
  BY <1>2, <1>4 DEF Run
<1>6. image' = [image EXCEPT ![run.drive] = image[runs[r].drive]]
  BY <1>2, <1>5
<1>7. inEmulator' = [inEmulator EXCEPT ![run.drive] = TRUE]
  BY <1>5 DEF Enter
<1>8. \A q \in Entered \ {r} : runs[q].drive # run.drive
  BY <1>2, <1>5 DEF Enter, DrivesInv, HeldByOne
<1>9. runs[r].holds = {}
  BY DEF DrivesInv, PlacesFit
<1>10. image[runs[r].drive] \in SUBSET Nat
  BY <1>2
<1> DEFINE bytes == image[runs[r].drive]
<1>11. /\ OnlyDrive(run.drive, bytes, TRUE) /\ bytes \in SUBSET Nat
       /\ image[run.drive] \cup runs[r].holds \subseteq bytes \cup run.holds
       /\ run.how = "itself" => run.holds = {}
       /\ run.how = "copy" => bytes \subseteq run.holds
       /\ run.holds \subseteq bytes
  BY <1>5, <1>6, <1>7, <1>9, <1>10 DEF OnlyDrive
<1> HIDE DEF run, holds, bytes
<1>12. /\ DrivesInv' /\ Runs' = Runs
       /\ \A q \in Runs \ {r} : runs'[q] = runs[q]
       /\ runs'[r] = run
  BY <1>3, <1>5, <1>8, <1>11, DriveChanges
<1>13. QED
  BY <1>5, <1>12

(* __exit__() of a run that has its drive and whose machine is over.         *)
LEMMA LeaveKeeps ==
    ASSUME DrivesInv, NEW r \in Runs, Leave(r), runs[r].entered,
           runs[r].at \in {"ended", "killed"}, UNCHANGED edits
    PROVE  /\ DrivesInv'
           /\ Runs' = Runs
           /\ \A q \in Runs \ {r} : runs'[q] = runs[q]
           /\ ~runs'[r].entered
<1> DEFINE drive == runs[r].drive
           back == runs[r].how = "copy" /\ runs[r].writable
<1>1. /\ runs[r] \in Run /\ drive \in Drives
      /\ image \in [Drives -> SUBSET Nat] /\ inEmulator \in [Drives -> BOOLEAN]
      /\ \E n \in 0..MaxRuns : runs \in [1..n -> Run]
  BY RunsAreRecords DEF Run
<1>2. \A q \in Entered \ {r} : runs[q].drive # drive
  BY DEF DrivesInv, HeldByOne, Entered
<1>3. /\ back => image[drive] \subseteq runs[r].holds
      /\ ~back => runs[r].holds \subseteq image[drive]
  BY <1>1 DEF DrivesInv, CopiesFit, Entered, Run
<1>4. inEmulator' = [inEmulator EXCEPT ![drive] = FALSE]
  BY DEF Leave
<1>5. image[drive] \in SUBSET Nat /\ runs[r].holds \in SUBSET Nat
  BY <1>1 DEF Run
<1>6. CASE /\ image' = IF back THEN [image EXCEPT ![drive] = runs[r].holds] ELSE image
           /\ runs' = [runs EXCEPT ![r].entered = FALSE, ![r].holds = {}]
  <2> DEFINE run == [runs[r] EXCEPT !.entered = FALSE, !.holds = {}]
             bytes == IF back THEN runs[r].holds ELSE image[drive]
  <2>1. runs' = [runs EXCEPT ![r] = run]
    BY <1>1, <1>6 DEF Run
  <2>2. /\ run \in Run
        /\ run.drive = drive /\ run.bounded = runs[r].bounded
        /\ run.writable = runs[r].writable /\ run.at = runs[r].at
        /\ run.entered = FALSE /\ run.holds = {} /\ run.wrote = runs[r].wrote
    BY <1>1 DEF Run
  <2>3. image' = [image EXCEPT ![drive] = bytes]
    BY <1>1, <1>6
  <2>4. bytes \in SUBSET Nat
    BY <1>5
  <2>5. image[drive] \cup runs[r].holds \subseteq bytes
    BY <1>3
  <2> HIDE DEF run, bytes
  <2>6. /\ OnlyDrive(run.drive, bytes, FALSE)
        /\ \A q \in Entered \ {r} : runs[q].drive # run.drive
        /\ image[run.drive] \cup runs[r].holds \subseteq bytes \cup run.holds
    BY <1>2, <1>4, <2>2, <2>3, <2>5 DEF OnlyDrive
  <2>7. /\ DrivesInv' /\ Runs' = Runs
        /\ \A q \in Runs \ {r} : runs'[q] = runs[q]
        /\ runs'[r] = run
    BY <2>1, <2>2, <2>4, <2>6, DriveChanges
  <2>8. QED
    BY <2>2, <2>7
<1>7. CASE /\ back
           /\ image' = [image EXCEPT ![drive] = {}]
           /\ runs' = FolderKept(r)
  <2> DEFINE run == [runs[r] EXCEPT !.entered = FALSE]
  <2>1. runs' = [runs EXCEPT ![r] = run]
    BY <1>1, <1>7 DEF Run, FolderKept
  <2>2. /\ run \in Run
        /\ run.drive = drive /\ run.bounded = runs[r].bounded
        /\ run.writable = runs[r].writable /\ run.at = runs[r].at
        /\ run.entered = FALSE /\ run.holds = runs[r].holds /\ run.wrote = runs[r].wrote
    BY <1>1 DEF Run
  <2>3. image[drive] \cup runs[r].holds \subseteq {} \cup run.holds
    BY <1>3, <1>7, <2>2
  <2> HIDE DEF run
  <2>4. /\ OnlyDrive(run.drive, {}, FALSE)
        /\ \A q \in Entered \ {r} : runs[q].drive # run.drive
        /\ image[run.drive] \cup runs[r].holds \subseteq {} \cup run.holds
    BY <1>2, <1>4, <1>7, <2>2, <2>3 DEF OnlyDrive
  <2>5. {} \in SUBSET Nat /\ FALSE \in BOOLEAN
    OBVIOUS
  <2>6. /\ DrivesInv' /\ Runs' = Runs
        /\ \A q \in Runs \ {r} : runs'[q] = runs[q]
        /\ runs'[r] = run
    BY <2>1, <2>2, <2>4, <2>5, DriveChanges
  <2>7. QED
    BY <2>2, <2>6
<1>8. QED
  BY <1>6, <1>7 DEF Leave

(* What a machine writes is in the image, or in the copy it was given.       *)
LEMMA WritesKeep ==
    ASSUME DrivesInv, NEW r \in Runs, MachineWrites(r)
    PROVE  /\ DrivesInv'
           /\ Runs' = Runs
           /\ \A q \in Runs \ {r} : runs'[q] = runs[q]
           /\ runs'[r].at = runs[r].at
           /\ runs'[r].entered = runs[r].entered /\ runs'[r].bounded = runs[r].bounded
<1> DEFINE drive == runs[r].drive
           copied == runs[r].how = "copy"
           holds == IF copied THEN runs[r].holds \cup {r} ELSE runs[r].holds
           bytes == IF copied THEN image[drive] ELSE image[drive] \cup {r}
           run == [runs[r] EXCEPT !.wrote = TRUE, !.holds = holds]
<1>1. /\ runs[r] \in Run /\ drive \in Drives /\ r \in Nat
      /\ image \in [Drives -> SUBSET Nat] /\ inEmulator \in [Drives -> BOOLEAN]
      /\ \E n \in 0..MaxRuns : runs \in [1..n -> Run]
  BY RunsAreRecords DEF Run
<1>2. runs' = [runs EXCEPT ![r] = run]
  BY <1>1 DEF MachineWrites, Run
<1>3. holds \in SUBSET Nat /\ bytes \in SUBSET Nat
  BY <1>1 DEF Run
<1>4. /\ run \in Run
      /\ run.drive = drive /\ run.bounded = runs[r].bounded
      /\ run.writable = runs[r].writable /\ run.at = runs[r].at
      /\ run.entered = runs[r].entered /\ run.how = runs[r].how /\ run.holds = holds
      /\ run.wrote = TRUE
  BY <1>1, <1>3 DEF Run
<1>5. runs[r].at = "running" /\ runs[r].writable /\ r \in Entered
  BY DEF MachineWrites, DrivesInv, PlacesFit, Entered
<1>6. inEmulator[drive] = TRUE
  BY <1>1, <1>5 DEF DrivesInv, HeldByOne
<1>7. OnlyDrive(run.drive, bytes, TRUE)
  BY <1>1, <1>4, <1>6 DEF MachineWrites, OnlyDrive
<1>8. \A q \in Entered \ {r} : runs[q].drive # run.drive
  BY <1>4, <1>5 DEF DrivesInv, HeldByOne
<1>9. /\ run.how = "itself" => holds = {}
      /\ run.how = "copy" => bytes \subseteq holds
      /\ image[drive] \cup runs[r].holds \subseteq bytes \cup holds
      /\ r \in bytes \cup holds
  BY <1>1, <1>4, <1>5 DEF DrivesInv, CopiesFit, Run
<1>10. UNCHANGED edits
  BY DEF MachineWrites
<1> HIDE DEF run, holds, bytes
<1>11. /\ run.entered = TRUE /\ run.at = "running" /\ run.writable
       /\ run.how = "itself" => run.holds = {}
       /\ run.how = "copy" => bytes \subseteq run.holds
       /\ image[run.drive] \cup runs[r].holds \subseteq bytes \cup run.holds
       /\ r \in bytes \cup run.holds
  BY <1>1, <1>4, <1>5, <1>9 DEF Entered, Run
<1>12. /\ DrivesInv' /\ Runs' = Runs
       /\ \A q \in Runs \ {r} : runs'[q] = runs[q]
       /\ runs'[r] = run
  BY <1>2, <1>3, <1>4, <1>7, <1>8, <1>10, <1>11, DriveChanges
<1>13. QED
  BY <1>4, <1>12

(* No machine has a drive that is changed in its pane.                       *)
LEMMA EditKeeps ==
    ASSUME DrivesInv, NEW d \in Drives, Edit(d)
    PROVE  DrivesInv'
<1>1. /\ image \in [Drives -> SUBSET Nat] /\ edits \in [Drives -> Nat]
      /\ MaxRuns \in Nat /\ edits[d] \in Nat /\ edits'[d] = edits[d] + 1
  BY RunsAssumption DEF DrivesInv, DrivesOK, Edit
<1>2. Change(edits'[d]) \in Nat
  BY <1>1 DEF Change, StopRequest
<1>3. /\ \A e \in Drives \ {d} : image'[e] = image[e] /\ edits'[e] = edits[e]
      /\ image'[d] = image[d] \cup {Change(edits'[d])}
      /\ runs' = runs /\ inEmulator' = inEmulator
      /\ edits' \in [Drives -> Nat]
  BY <1>1 DEF Edit
<1>4. image' \in [Drives -> SUBSET Nat]
  <2>1. image[d] \cup {Change(edits'[d])} \in SUBSET Nat
    BY <1>1, <1>2
  <2>2. QED
    BY <1>1, <2>1 DEF Edit
<1>5. DrivesOK'
  BY <1>3, <1>4 DEF DrivesInv, DrivesOK
<1>6. PlacesFit' /\ HeldByOne' /\ Runs' = Runs
  BY <1>3 DEF DrivesInv, PlacesFit, HeldByOne, Entered, Runs
<1>7. CopiesFit'
  <2>1. \A r \in Entered : runs[r].drive \in Drives \ {d}
    BY RunsAreRecords DEF Edit, DrivesInv, HeldByOne, Entered, Run
  <2>2. QED
    BY <1>3, <2>1 DEF DrivesInv, CopiesFit, Entered, Runs
<1>8. WorkIsKept'
  <2>1. \A e \in Drives : \A x : Covered(x, e) => Covered(x, e)'
    BY <1>3, <1>6 DEF Covered
  <2>2. \A e \in Drives : \A n \in 1..edits'[e] :
          n \in 1..edits[e] \/ Covered(Change(n), e)'
    <3>1. ASSUME NEW e \in Drives, NEW n \in 1..edits'[e]
          PROVE  n \in 1..edits[e] \/ Covered(Change(n), e)'
      <4>1. CASE e = d
        <5>1. n \in 1..edits[e] \/ n = edits'[d]
          BY <1>1, <3>1, <4>1
        <5>2. Change(edits'[d]) \in image'[d]
          BY <1>3
        <5>3. Change(n)' = Change(n)
          BY DEF Change, StopRequest
        <5>4. QED
          BY <4>1, <5>1, <5>2, <5>3 DEF Covered
      <4>2. CASE e # d
        BY <1>3, <3>1, <4>2
      <4>3. QED
        BY <4>1, <4>2
    <3>2. QED
      BY <3>1
  <2>3. \A r \in Runs' : runs'[r].drive \in Drives /\ runs'[r].wrote =>
              \/ r \in Runs /\ runs[r].drive = runs'[r].drive /\ runs[r].wrote
              \/ Covered(r, runs[r].drive)'
    BY <1>3, <1>6
  <2>4. QED
    BY <2>1, <2>2, <2>3, WorkStays DEF DrivesInv
<1>9. QED
  BY <1>5, <1>6, <1>7, <1>8 DEF DrivesInv

(* A run that was just asked for has nothing yet.                            *)
LEMMA AskKeeps ==
    ASSUME DrivesInv, NEW drive \in Drives, NEW bounded \in BOOLEAN,
           NEW writable \in BOOLEAN, bounded => ~writable, Ask(drive, bounded, writable)
    PROVE  /\ DrivesInv'
           /\ Runs \subseteq Runs' /\ StopRequest \notin Runs' /\ 0 \notin Runs'
           /\ \A q \in Runs : runs'[q] = runs[q]
           /\ \A q \in Runs' \ Runs : ~runs'[q].entered
<1> DEFINE run == [drive |-> drive, bounded |-> bounded, writable |-> writable,
                   at |-> "asked", entered |-> FALSE, how |-> "itself", holds |-> {},
                   wrote |-> FALSE]
<1>1. PICK n \in 0..MaxRuns : runs \in [1..n -> Run] /\ Runs = 1..n
  BY RunsAreRecords
<1>2. Cardinality(Runs) = n
  BY <1>1, FS_Interval
<1>3. /\ n + 1 <= MaxRuns
      /\ runs' = [x \in 1..(n + 1) |-> IF x # n + 1 THEN runs[x] ELSE run]
      /\ UNCHANGED <<image, inEmulator, edits>>
  BY <1>2 DEF Ask
<1>4. /\ run \in Run /\ ~run.entered /\ ~run.wrote /\ run.at = "asked"
      /\ run.holds = {} /\ (run.bounded => ~run.writable)
  BY DEF Run
<1> HIDE DEF run
<1>5. /\ Runs' = 1..(n + 1) /\ runs'[n + 1] = run
      /\ \A q \in Runs : q # n + 1 /\ runs'[q] = runs[q]
      /\ Runs' = Runs \cup {n + 1}
  BY <1>1, <1>3 DEF Runs
<1>6. runs' \in [1..(n + 1) -> Run] /\ n + 1 \in 0..MaxRuns
  BY <1>1, <1>3, <1>4
<1>7. DrivesOK'
  BY <1>3, <1>6 DEF DrivesInv, DrivesOK
<1>8. PlacesFit'
  BY <1>4, <1>5 DEF DrivesInv, PlacesFit
<1>9. Entered' = Entered
  BY <1>4, <1>5 DEF Entered
<1>10. \A q \in Entered : runs'[q] = runs[q]
  BY <1>5 DEF Entered
<1>11. HeldByOne' /\ CopiesFit'
  <2>1. HeldByOne'
    <3>1. \A r, q \in Entered' : runs'[r].drive = runs'[q].drive => r = q
      BY <1>9, <1>10 DEF DrivesInv, HeldByOne
    <3>2. \A d \in Drives : inEmulator'[d] <=> \E r \in Entered' : runs'[r].drive = d
      <4>1. TAKE d \in Drives
      <4>2. inEmulator[d] <=> \E r \in Entered : runs[r].drive = d
        BY DEF DrivesInv, HeldByOne
      <4>3. (\E r \in Entered : runs[r].drive = d) <=> \E r \in Entered : runs'[r].drive = d
        BY <1>10
      <4>4. QED
        BY <1>3, <1>9, <4>2, <4>3
    <3>3. QED
      BY <3>1, <3>2 DEF HeldByOne
  <2>2. CopiesFit'
    BY <1>3, <1>9, <1>10 DEF DrivesInv, CopiesFit
  <2>3. QED
    BY <2>1, <2>2
<1>12. WorkIsKept'
  BY <1>3, <1>4, <1>5, WorkStays DEF DrivesInv, Covered
<1>13. StopRequest \notin Runs' /\ 0 \notin Runs'
  BY <1>3, <1>5, RunsAssumption DEF StopRequest
<1>14. QED
  BY <1>4, <1>5, <1>7, <1>8, <1>11, <1>12, <1>13 DEF DrivesInv

(* The lock and the manager.                                                 *)
LEMMA InitEmulator == EmulatorInit => EmulatorInv
<1> SUFFICES ASSUME EmulatorInit PROVE EmulatorInv
  OBVIOUS
<1>1. runs = [r \in {} |-> 0] /\ Runs = {} /\ Entered = {}
  BY DEF EmulatorInit, Runs, Entered
<1>2. 1..0 = {} /\ 0 \in 0..MaxRuns
  BY RunsAssumption
<1>3. runs \in [1..0 -> Run]
  BY <1>1, <1>2
<1>4. /\ image \in [Drives -> SUBSET Nat]
      /\ inEmulator \in [Drives -> BOOLEAN]
      /\ edits \in [Drives -> Nat]
      /\ \A d \in Drives : ~inEmulator[d] /\ edits[d] = 0
  BY DEF EmulatorInit
<1>5. DrivesOK
  BY <1>2, <1>3, <1>4 DEF DrivesOK
<1>6. PlacesFit /\ HeldByOne /\ CopiesFit
  BY <1>1, <1>4 DEF PlacesFit, HeldByOne, CopiesFit
<1>7. WorkIsKept
  <2>1. \A d \in Drives : 1..edits[d] = {}
    BY <1>4
  <2>2. QED
    BY <1>1, <2>1 DEF WorkIsKept
<1>8. OneMachine
  BY <1>1, RunsAssumption DEF EmulatorInit, OneMachine, StopRequest
<1>9. QED
  BY <1>5, <1>6, <1>7, <1>8 DEF EmulatorInv, DrivesInv

LEMMA NextEmulator == EmulatorInv /\ [EmulatorNext]_emulatorVars => EmulatorInv'
<1> SUFFICES ASSUME EmulatorInv, [EmulatorNext]_emulatorVars PROVE EmulatorInv'
  OBVIOUS
<1>0. /\ DrivesInv /\ OneMachine
      /\ \A r \in Runs : r \in Nat \ {0} /\ r # StopRequest /\ runs[r] \in Run
      /\ StopRequest \notin Runs /\ 0 \notin Runs /\ StopRequest # 0
  BY RunsAreRecords, RunsAssumption DEF EmulatorInv, StopRequest
<1> USE <1>0
<1>1. ASSUME UNCHANGED emulatorVars PROVE EmulatorInv'
  BY <1>1 DEF EmulatorInv, DrivesInv, DrivesOK, PlacesFit, HeldByOne, CopiesFit, WorkIsKept,
              OneMachine, Runs, Entered, emulatorVars
(* A run is asked for, the manager's machine or a test. *)
<1>2. CASE Begin
  <2>1. PICK drive \in Drives, bounded \in BOOLEAN, writable \in BOOLEAN :
          (bounded => ~writable) /\ Ask(drive, bounded, writable)
    BY <1>2 DEF Begin
  <2>2. /\ DrivesInv'
        /\ Runs \subseteq Runs' /\ StopRequest \notin Runs' /\ 0 \notin Runs'
        /\ \A q \in Runs : runs'[q] = runs[q]
        /\ \A q \in Runs' \ Runs : ~runs'[q].entered
    BY <2>1, AskKeeps
  <2>3. UNCHANGED <<manager, turn, leaving>> /\ StopRequest' = StopRequest
    BY <2>1 DEF Ask, StopRequest
  <2>4. OneMachine'
    BY <2>2, <2>3 DEF OneMachine, Entered
  <2>5. QED
    BY <2>2, <2>4 DEF EmulatorInv
(* The lock is taken, with the machine that has to go first. *)
<1>3. ASSUME NEW r \in Runs, StartMachine(r) PROVE EmulatorInv'
  <2>1. /\ DrivesInv' /\ Runs' = Runs
        /\ \A q \in Runs \ {r} : runs'[q] = runs[q]
        /\ runs'[r].at = "starting"
        /\ runs'[r].entered = runs[r].entered /\ runs'[r].bounded = runs[r].bounded
    BY <1>3, PlaceMoves DEF StartMachine, DrivesInv, PlacesFit
  <2>2. runs[r].at = "asked" /\ ~runs[r].bounded /\ ~runs[r].entered
    BY <1>3 DEF StartMachine, DrivesInv, PlacesFit
  <2>3. turn = 0 /\ leaving = 0 /\ turn' = r /\ leaving' = manager /\ manager' = 0 /\ r # manager
    BY <1>3, <2>2 DEF StartMachine, TakeOver, OneMachine
  <2>4. OneMachine'
    BY <2>1, <2>2, <2>3 DEF OneMachine, Entered, StopRequest
  <2>5. QED
    BY <2>1, <2>4 DEF EmulatorInv
<1>4. CASE Stop
  <2>1. DrivesInv' /\ Runs' = Runs /\ runs' = runs
    BY <1>4 DEF Stop, DrivesInv, DrivesOK, PlacesFit, HeldByOne, CopiesFit, WorkIsKept,
                Runs, Entered
  <2>2. turn = 0 /\ leaving = 0 /\ turn' = StopRequest /\ leaving' = manager /\ manager' = 0
    BY <1>4 DEF Stop, TakeOver, OneMachine
  <2>3. OneMachine'
    BY <2>1, <2>2 DEF OneMachine, Entered, StopRequest
  <2>4. QED
    BY <2>1, <2>3 DEF EmulatorInv
<1>5. CASE Terminate
  <2>1. leaving \in Runs /\ runs[leaving].at = "running" /\ runs[leaving].entered
    BY <1>5 DEF Terminate, OneMachine
  <2>2. PICK how \in {"ended", "killed"} : runs' = [runs EXCEPT ![leaving].at = how]
    BY <1>5 DEF Terminate
  <2>3. UNCHANGED <<image, inEmulator, manager, turn, leaving, edits>>
    BY <1>5 DEF Terminate
  <2>4. /\ DrivesInv' /\ Runs' = Runs
        /\ \A q \in Runs \ {leaving} : runs'[q] = runs[q]
        /\ runs'[leaving].at = how
        /\ runs'[leaving].entered = runs[leaving].entered
        /\ runs'[leaving].bounded = runs[leaving].bounded
    BY <2>1, <2>2, <2>3, PlaceMoves
  <2>5. OneMachine'
    BY <2>1, <2>3, <2>4 DEF OneMachine, Entered, StopRequest
  <2>6. QED
    BY <2>4, <2>5 DEF EmulatorInv
<1>6. CASE TakeBack
  <2>1. leaving \in Runs /\ runs[leaving].at \in {"ended", "killed"} /\ runs[leaving].entered
    BY <1>6 DEF TakeBack, OneMachine
  <2>2. Leave(leaving) /\ leaving' = 0 /\ turn' = Afterwards /\ UNCHANGED <<manager, edits>>
    BY <1>6 DEF TakeBack
  <2>3. /\ DrivesInv' /\ Runs' = Runs
        /\ \A q \in Runs \ {leaving} : runs'[q] = runs[q]
        /\ ~runs'[leaving].entered
    BY <2>1, <2>2, LeaveKeeps
  <2>4. OneMachine'
    BY <2>1, <2>2, <2>3 DEF OneMachine, Entered, StopRequest, Afterwards
  <2>5. QED
    BY <2>3, <2>4 DEF EmulatorInv
<1>7. ASSUME NEW d \in Drives, Edit(d) PROVE EmulatorInv'
  <2>1. DrivesInv' /\ UNCHANGED <<runs, manager, turn, leaving>>
    BY <1>7, EditKeeps DEF Edit
  <2>2. OneMachine'
    BY <2>1 DEF OneMachine, Entered, Runs, StopRequest
  <2>3. QED
    BY <2>1, <2>2 DEF EmulatorInv
<1>8. ASSUME NEW r \in Runs, Manage(r) PROVE EmulatorInv'
  <2>1. CASE EnterDrive(r)
    <3>1. /\ turn = r /\ leaving = 0 /\ runs[r].at = "starting" /\ manager = 0
          /\ ~runs[r].bounded /\ ~runs[r].entered
          /\ UNCHANGED <<image, manager, leaving, edits>>
      BY <2>1 DEF EnterDrive, OneMachine, DrivesInv, PlacesFit
    <3>2. CASE Enter(r) /\ UNCHANGED turn
      <4>1. /\ DrivesInv' /\ Runs' = Runs
            /\ \A q \in Runs \ {r} : runs'[q] = runs[q]
            /\ runs'[r].at = "entered" /\ runs'[r].entered
            /\ runs'[r].bounded = runs[r].bounded
        BY <3>1, <3>2, EnterKeeps
      <4>2. OneMachine'
        BY <3>1, <3>2, <4>1 DEF OneMachine, Entered, StopRequest
      <4>3. QED
        BY <4>1, <4>2 DEF EmulatorInv
    <3>3. CASE /\ runs' = [runs EXCEPT ![r].at = "refused"]
               /\ turn' = 0 /\ UNCHANGED inEmulator
      <4>1. /\ DrivesInv' /\ Runs' = Runs
            /\ \A q \in Runs \ {r} : runs'[q] = runs[q]
            /\ runs'[r].at = "refused"
            /\ runs'[r].entered = runs[r].entered /\ runs'[r].bounded = runs[r].bounded
        BY <3>1, <3>3, PlaceMoves
      <4>2. OneMachine'
        BY <3>1, <3>3, <4>1 DEF OneMachine, Entered, StopRequest
      <4>3. QED
        BY <4>1, <4>2 DEF EmulatorInv
    <3>4. QED
      BY <2>1, <3>2, <3>3 DEF EnterDrive
  <2>2. CASE Spawn(r)
    <3>1. /\ turn = r /\ leaving = 0 /\ manager = 0 /\ runs[r].at = "entered"
          /\ ~runs[r].bounded /\ runs[r].entered
      BY <2>2 DEF Spawn, OneMachine, DrivesInv, PlacesFit
    <3>2. /\ DrivesInv' /\ Runs' = Runs
          /\ \A q \in Runs \ {r} : runs'[q] = runs[q]
          /\ runs'[r].at = "running"
          /\ runs'[r].entered = runs[r].entered /\ runs'[r].bounded = runs[r].bounded
      BY <2>2, <3>1, PlaceMoves DEF Spawn
    <3>3. manager' = r /\ turn' = 0 /\ leaving' = 0
      BY <2>2, <3>1 DEF Spawn
    <3>4. OneMachine'
      BY <3>1, <3>2, <3>3 DEF OneMachine, Entered, StopRequest
    <3>5. QED
      BY <3>2, <3>4 DEF EmulatorInv
  <2>3. CASE SpawnFails(r)
    <3>1. /\ turn = r /\ leaving = 0 /\ manager = 0 /\ runs[r].at = "entered"
          /\ ~runs[r].bounded /\ runs[r].entered
      BY <2>3 DEF SpawnFails, OneMachine, DrivesInv, PlacesFit
    <3>2. /\ DrivesInv' /\ Runs' = Runs
          /\ \A q \in Runs \ {r} : runs'[q] = runs[q]
          /\ runs'[r].at = "ended"
          /\ runs'[r].entered = runs[r].entered /\ runs'[r].bounded = runs[r].bounded
      BY <2>3, <3>1, PlaceMoves DEF SpawnFails
    <3>3. manager' = 0 /\ turn' = r /\ leaving' = r
      BY <2>3, <3>1 DEF SpawnFails
    <3>4. OneMachine'
      BY <3>1, <3>2, <3>3 DEF OneMachine, Entered, StopRequest
    <3>5. QED
      BY <3>2, <3>4 DEF EmulatorInv
  <2>4. CASE TestEnds(r)
    <3>1. /\ runs[r].bounded /\ runs[r].at = "ended" /\ runs[r].entered
          /\ Leave(r) /\ UNCHANGED <<manager, turn, leaving, edits>>
      BY <2>4 DEF TestEnds
    <3>2. /\ DrivesInv' /\ Runs' = Runs
          /\ \A q \in Runs \ {r} : runs'[q] = runs[q]
          /\ ~runs'[r].entered
      BY <3>1, LeaveKeeps
    <3>3. r \notin {manager, leaving, turn}
      BY <3>1 DEF OneMachine
    <3>4. OneMachine'
      BY <3>1, <3>2, <3>3 DEF OneMachine, Entered, StopRequest
    <3>5. QED
      BY <3>2, <3>4 DEF EmulatorInv
  <2>5. CASE Reap(r)
    <3>1. /\ runs[r].at \in {"ended", "killed"} /\ turn = 0 /\ manager = r /\ leaving = 0
          /\ Leave(r) /\ manager' = 0 /\ UNCHANGED <<turn, leaving, edits>>
      BY <2>5 DEF Reap, Reaps, OneMachine
    <3>2. runs[r].entered
      BY <3>1 DEF OneMachine
    <3>3. /\ DrivesInv' /\ Runs' = Runs
          /\ \A q \in Runs \ {r} : runs'[q] = runs[q]
          /\ ~runs'[r].entered
      BY <3>1, <3>2, LeaveKeeps
    <3>4. OneMachine'
      BY <3>1, <3>3 DEF OneMachine, Entered, StopRequest
    <3>5. QED
      BY <3>3, <3>4 DEF EmulatorInv
  <2>6. QED
    BY <1>8, <2>1, <2>2, <2>3, <2>4, <2>5 DEF Manage
(* A test, which the lock is not asked for. *)
<1>9. ASSUME NEW r \in Runs, TestBegins(r) PROVE EmulatorInv'
  <2>1. /\ runs[r].at = "asked" /\ runs[r].bounded /\ ~runs[r].entered
        /\ r \notin {manager, leaving, turn}
        /\ UNCHANGED <<image, manager, turn, leaving, edits>>
    BY <1>9 DEF TestBegins, DrivesInv, PlacesFit, OneMachine
  <2>2. CASE Enter(r)
    <3>1. /\ DrivesInv' /\ Runs' = Runs
          /\ \A q \in Runs \ {r} : runs'[q] = runs[q]
          /\ runs'[r].at = "entered" /\ runs'[r].entered
          /\ runs'[r].bounded = runs[r].bounded
      BY <2>1, <2>2, EnterKeeps
    <3>2. OneMachine'
      BY <2>1, <3>1, ZenonT(40) DEF OneMachine, Entered, StopRequest
    <3>3. QED
      BY <3>1, <3>2 DEF EmulatorInv
  <2>3. CASE runs' = [runs EXCEPT ![r].at = "refused"] /\ UNCHANGED inEmulator
    <3>1. /\ DrivesInv' /\ Runs' = Runs
          /\ \A q \in Runs \ {r} : runs'[q] = runs[q]
          /\ runs'[r].at = "refused"
          /\ runs'[r].entered = runs[r].entered /\ runs'[r].bounded = runs[r].bounded
      BY <2>1, <2>3, PlaceMoves
    <3>2. OneMachine'
      BY <2>1, <3>1 DEF OneMachine, Entered, StopRequest
    <3>3. QED
      BY <3>1, <3>2 DEF EmulatorInv
  <2>4. QED
    BY <1>9, <2>2, <2>3 DEF TestBegins
<1>10. ASSUME NEW r \in Runs, TestRuns(r) PROVE EmulatorInv'
  <2>1. /\ runs[r].bounded /\ runs[r].entered /\ r \notin {manager, leaving, turn}
        /\ UNCHANGED <<image, inEmulator, manager, turn, leaving, edits>>
    BY <1>10 DEF TestRuns, DrivesInv, PlacesFit, OneMachine
  <2>2. PICK place \in {"running", "ended"} : runs' = [runs EXCEPT ![r].at = place]
    BY <1>10 DEF TestRuns
  <2>3. /\ DrivesInv' /\ Runs' = Runs
        /\ \A q \in Runs \ {r} : runs'[q] = runs[q]
        /\ runs'[r].at = place
        /\ runs'[r].entered = runs[r].entered /\ runs'[r].bounded = runs[r].bounded
    BY <2>1, <2>2, PlaceMoves
  <2>4. OneMachine'
    BY <2>1, <2>3, ZenonT(40) DEF OneMachine, Entered, StopRequest
  <2>5. QED
    BY <2>3, <2>4 DEF EmulatorInv
<1>11. ASSUME NEW r \in Runs, MachineWrites(r) PROVE EmulatorInv'
  <2>1. /\ DrivesInv' /\ Runs' = Runs
        /\ \A q \in Runs \ {r} : runs'[q] = runs[q]
        /\ runs'[r].at = runs[r].at
        /\ runs'[r].entered = runs[r].entered /\ runs'[r].bounded = runs[r].bounded
    BY <1>11, WritesKeep
  <2>2. UNCHANGED <<manager, turn, leaving>>
    BY <1>11 DEF MachineWrites
  <2>3. OneMachine'
    BY <2>1, <2>2 DEF OneMachine, Entered, StopRequest
  <2>4. QED
    BY <2>1, <2>3 DEF EmulatorInv
<1>12. ASSUME NEW r \in Runs, MachineEnds(r) PROVE EmulatorInv'
  <2>1. runs[r].at = "running" /\ UNCHANGED <<image, inEmulator, manager, turn, leaving, edits>>
    BY <1>12 DEF MachineEnds
  <2>2. runs[r].entered /\ (turn = r => leaving = r)
    BY <2>1 DEF OneMachine, DrivesInv, PlacesFit
  <2>3. /\ DrivesInv' /\ Runs' = Runs
        /\ \A q \in Runs \ {r} : runs'[q] = runs[q]
        /\ runs'[r].at = "ended"
        /\ runs'[r].entered = runs[r].entered /\ runs'[r].bounded = runs[r].bounded
    BY <1>12, <2>1, PlaceMoves DEF MachineEnds
  <2>4. OneMachine'
    BY <2>1, <2>2, <2>3, ZenonT(40) DEF OneMachine, Entered, StopRequest
  <2>5. QED
    BY <2>3, <2>4 DEF EmulatorInv
<1>13. QED
  BY <1>1, <1>2, <1>3, <1>4, <1>5, <1>6, <1>7, <1>8, <1>9, <1>10, <1>11, <1>12 DEF EmulatorNext

(* Every drive that a machine has is marked, is the drive of one run only,   *)
(* and has somebody who will take it back, for any number of machines and    *)
(* drives and whatever is started, stopped and tested in between.            *)
THEOREM MediaOfTheRuns == EmulatorSpec => []MediaAreHeldOnce
<1>1. EmulatorInv => MediaAreHeldOnce
  <2> SUFFICES ASSUME EmulatorInv PROVE MediaAreHeldOnce
    OBVIOUS
  <2>1. ASSUME NEW d \in Drives
        PROVE  LET held == {r \in Entered : runs[r].drive = d} IN
               /\ Cardinality(held) <= 1
               /\ inEmulator[d] <=> held # {}
    <3> DEFINE held == {r \in Entered : runs[r].drive = d}
    <3>1. \A r, q \in held : r = q
      BY DEF EmulatorInv, DrivesInv, HeldByOne
    <3>2. Cardinality(held) <= 1
      BY <3>1, AtMostOne
    <3>3. inEmulator[d] <=> \E r \in Entered : runs[r].drive = d
      BY DEF EmulatorInv, DrivesInv, HeldByOne
    <3>4. QED
      BY <3>2, <3>3
  <2>2. \A r \in Entered : runs[r].bounded \/ r \in {manager, leaving, turn}
    BY DEF EmulatorInv, OneMachine
  <2>3. \A r \in At("running") : runs[r].entered
    BY DEF At, EmulatorInv, DrivesInv, PlacesFit
  <2>4. QED
    BY <2>1, <2>2, <2>3 DEF MediaAreHeldOnce
<1>2. QED
  BY <1>1, InitEmulator, NextEmulator, PTL DEF EmulatorSpec

(* No machine costs a drive what was written to it: with any number of runs, *)
(* what a machine wrote and what was changed in the pane stays in the image  *)
(* or in the copy that is left of a run.                                     *)
THEOREM WorkOfTheRuns == EmulatorSpec => []WorkIsKept
<1>1. EmulatorInv => WorkIsKept
  BY DEF EmulatorInv, DrivesInv
<1>2. QED
  BY <1>1, InitEmulator, NextEmulator, PTL DEF EmulatorSpec

-----------------------------------------------------------------------------
(* The operation registry, for any set of operations, any number of          *)
(* boundaries and any number of restarts.  RegistryInv is inductive: that an *)
(* accepted cancel is remembered and that the file agrees with memory is     *)
(* what the three properties below need.                                     *)

(* Every state the module names is one the type invariant admits, and      *)
(* loading a record gives such a state again.                              *)
LEMMA LoadedState ==
    ASSUME NEW s \in {"none"} \cup Unfinished \cup Terminal
    PROVE  /\ Loaded(s) \in {"none"} \cup Terminal
           /\ s \in Terminal => Loaded(s) = s
           /\ Loaded(s) = "interrupted" \/ Loaded(s) = s
           /\ Loaded(Loaded(s)) = Loaded(s)
BY DEF Loaded, Unfinished, Terminal

(* The registry starts empty. *)
LEMMA InitRegistry == Init => RegistryInv
<1>1. SUFFICES ASSUME Init PROVE RegistryInv
  OBVIOUS
<1> USE <1>1 DEF Init
<1>2. TypeOK
  BY UnitsAssumption, CrashesAssumption DEF TypeOK
<1>3. Remembered /\ DiskAgrees /\ ReportsAgree /\ RunningIsAlive
  BY DEF Remembered, DiskAgrees, ReportsAgree, RunningIsAlive
<1> QED BY <1>2, <1>3 DEF RegistryInv

(* Every step keeps the invariant of the registry. *)
LEMMA NextRegistry == RegistryInv /\ [Next]_vars => RegistryInv'
<1>1. SUFFICES ASSUME RegistryInv, [Next]_vars PROVE RegistryInv'
  OBVIOUS
<1> USE UnitsAssumption, CrashesAssumption
<1> USE <1>1 DEF RegistryInv, TypeOK, Remembered, DiskAgrees, ReportsAgree,
                 RunningIsAlive, Unfinished, Terminal, Alive, Over, Persist, Record
<1>2. ASSUME NEW o \in Operations, Start(o) PROVE RegistryInv'
  BY <1>2, ZenonT(40) DEF Start, Loaded
<1>3. ASSUME NEW o \in Operations, Boundary(o) PROVE RegistryInv'
  <2>1. CASE items[o] = "cancelling"
    BY <1>3, <2>1 DEF Boundary
  <2>2. CASE items[o] = "none"
    BY <1>3, <2>2 DEF Boundary
  <2>3. CASE items[o] \notin {"none", "cancelling"}
    <3>1. /\ items' = items /\ disk' = items /\ stale' = [stale EXCEPT ![o] = FALSE]
          /\ units[o] < Units /\ units' = [units EXCEPT ![o] = @ + 1]
          /\ UNCHANGED <<worker, asked, crashes>>
      BY <1>3, <2>3 DEF Boundary
    <3>2. TypeOK'
      BY <3>1
    <3>3. Remembered' /\ DiskAgrees' /\ ReportsAgree' /\ RunningIsAlive'
      BY <3>1
    <3> QED BY <3>2, <3>3
  <2> QED BY <2>1, <2>2, <2>3
<1>4. ASSUME NEW o \in Operations, Break(o) PROVE RegistryInv'
  BY <1>4 DEF Break
<1>5. ASSUME NEW o \in Operations, Settle(o) PROVE RegistryInv'
  <2>1. CASE items[o] = "none"
    BY <1>5, <2>1 DEF Settle, Outcome
  <2>2. CASE items[o] # "none"
    <3>1. /\ items' = [items EXCEPT ![o] = Outcome(o).state]
          /\ worker' = [worker EXCEPT ![o] = Outcome(o).worker]
          /\ disk' = items' /\ stale' = [stale EXCEPT ![o] = FALSE]
          /\ UNCHANGED <<units, asked, crashes>>
      BY <1>5, <2>2 DEF Settle
    <3>2. \/ Outcome(o).worker = "stopped" /\ Outcome(o).state = "cancelled"
          \/ Outcome(o).worker = "broken" /\ Outcome(o).state = "failed"
          \/ Outcome(o).worker = "finished" /\ Outcome(o).state = "complete"
      BY DEF Outcome
    <3> HIDE DEF Loaded
    <3> QED BY <3>1, <3>2
  <2> QED BY <2>1, <2>2
<1>6. ASSUME NEW o \in Operations, Cancel(o) PROVE RegistryInv'
  <2>1. CASE items[o] \in {"none", "running"}
    <3>1. /\ items' = [items EXCEPT ![o] = "cancelling"]
          /\ disk' = items' /\ stale' = [stale EXCEPT ![o] = FALSE]
          /\ asked' = [asked EXCEPT ![o] = items'[o] = "cancelling"]
          /\ UNCHANGED <<worker, units, crashes>>
      BY <1>6, <2>1 DEF Cancel
    <3>2. TypeOK'
      BY <3>1
    <3>3. Remembered'
      BY <3>1
    <3>4. DiskAgrees' /\ ReportsAgree' /\ RunningIsAlive'
      BY <3>1, <2>1
    <3> QED BY <3>2, <3>3, <3>4
  <2>2. CASE items[o] \notin {"none", "running"}
    <3>1. /\ items' = items /\ stale' = stale /\ disk' = items
          /\ asked' = [asked EXCEPT ![o] = items[o] = "cancelling"]
          /\ UNCHANGED <<worker, units, crashes>>
      BY <1>6, <2>2 DEF Cancel
    <3>2. TypeOK'
      BY <3>1
    <3>3. Remembered'
      BY <3>1
    <3>4. DiskAgrees' /\ ReportsAgree' /\ RunningIsAlive'
      BY <3>1
    <3> QED BY <3>2, <3>3, <3>4
  <2> QED BY <2>1, <2>2
<1>7. ASSUME NEW o \in Operations, Age(o) PROVE RegistryInv'
  BY <1>7 DEF Age
<1>8. ASSUME Clear PROVE RegistryInv'
  BY <1>8 DEF Clear, Loaded
<1>9. ASSUME Crash PROVE RegistryInv'
  BY <1>9, LoadedState DEF Crash, Loaded
<1>10. ASSUME UNCHANGED vars PROVE RegistryInv'
  BY <1>10 DEF vars
<1> QED
  BY <1>2, <1>3, <1>4, <1>5, <1>6, <1>7, <1>8, <1>9, <1>10 DEF Next, Step

(* The type invariant, what is remembered, what the file says and what the *)
(* records say of the requests hold in every state (OperationRegistry).    *)
THEOREM RegistryInvariant == Spec => []RegistryInv
BY InitRegistry, NextRegistry, PTL DEF Spec

(* A record that has ended says what its operation did (tracked, _load).   *)
THEOREM RecordsTellTheTruth == Spec => [](ReportsAgree /\ RunningIsAlive)
<1>1. RegistryInv => ReportsAgree /\ RunningIsAlive
  BY DEF RegistryInv
<1> QED BY <1>1, RegistryInvariant, PTL

(* An operation whose cancel was accepted passes no further boundary       *)
(* (update raises OperationCancelled).                                     *)
THEOREM CancelIsKept == Spec => CancelHolds
<1>1. ASSUME RegistryInv, [Next]_vars
      PROVE  [\A o \in Operations : asked[o] => units'[o] = units[o]]_vars
  <2>1. SUFFICES ASSUME Next, NEW o \in Operations, asked[o] PROVE units'[o] = units[o]
    BY <1>1
  <2> USE DEF RegistryInv, TypeOK
  <2>2. CASE \E q \in Operations : Boundary(q)
    <3>1. PICK q \in Operations : Boundary(q)
      BY <2>2
    <3>2. CASE q = o
      BY <1>1, <2>1, <3>1, <3>2 DEF Boundary, Remembered
    <3>3. CASE q # o
      BY <1>1, <3>1, <3>3 DEF Boundary
    <3> QED BY <3>2, <3>3
  <2>3. CASE ~(\E q \in Operations : Boundary(q))
    BY <2>1, <2>3 DEF Next, Step, Start, Break, Settle, Cancel, Age, Clear, Crash
  <2> QED BY <2>2, <2>3
<1> QED BY <1>1, RegistryInvariant, PTL DEF Spec, CancelHolds

(* A restart brings back every record that had ended as it was (_persist   *)
(* on every change, _load).                                                *)
THEOREM EndedRecordsSurvive == Spec => EndedSurvivesRestart
<1>1. ASSUME RegistryInv, [Next]_vars
      PROVE  [crashes' # crashes => \A o \in Operations :
                items[o] \in Terminal => items'[o] = items[o]]_vars
  <2>1. SUFFICES ASSUME Next, crashes' # crashes, NEW o \in Operations,
                        items[o] \in Terminal
                 PROVE  items'[o] = items[o]
    BY <1>1
  <2>2. Crash
    BY <2>1 DEF Next, Step, Start, Boundary, Break, Settle, Cancel, Age, Clear
  <2>3. items[o] = disk[o] \/ items[o] = Loaded(disk[o])
    BY <1>1 DEF RegistryInv, DiskAgrees
  <2>4. disk[o] \in {"none"} \cup Unfinished \cup Terminal
    BY <1>1 DEF RegistryInv, TypeOK
  <2>5. Loaded(disk[o]) = items[o]
    BY <2>1, <2>3, <2>4, LoadedState
  <2> QED BY <2>2, <2>5 DEF Crash
<1> QED BY <1>1, RegistryInvariant, PTL DEF Spec, EndedSurvivesRestart

=============================================================================
