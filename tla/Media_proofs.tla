---------------------------- MODULE Media_proofs ----------------------------
(***************************************************************************)
(* What is put on a medium and what comes off it, for any number of tracks, *)
(* requests, edits, files, disks and packs: a floppy that is called        *)
(* verified holds the image, an image is opened as what its bytes are and  *)
(* its export opens again, and an installation puts the newest copy of     *)
(* every file on the drive, with each update pack whole or not at all.     *)
(***************************************************************************)
EXTENDS PhysicalMedia, ImageOpening, SystemInstall, SequenceTheorems,
        WellFoundedInduction, TLAPS

-----------------------------------------------------------------------------
(* A disk that a request calls verified.  What gw tells of its             *)
(* verification is about the tracks it wrote, those hold the snapshot if   *)
(* nothing was damaged, and while a request is alone nobody writes over    *)
(* them.                                                                   *)

Written == UNION {[S -> Int] : S \in SUBSET All}

Results == {"none", "failed", "verify failure", "all tracks verified", "finished",
            "captured", "written", "verified"}

Job == [writes : BOOLEAN, via : {"gw", "controller"}, flux : BOOLEAN,
        at : {"preparing", "ready", "working", "over"},
        snapshot : Int, done : Written, child : BOOLEAN, faults : BOOLEAN,
        cancel : BOOLEAN, result : Results, alone : BOOLEAN]

TypeOK ==
    /\ floppy \in [All -> Int]
    /\ working \in Int
    /\ jobs \in Seq(Job)

(* Nothing is written, started or told of a request that waits.            *)
WaitsUntouched(j) ==
    j.at \in {"preparing", "ready"} =>
        DOMAIN j.done = {} /\ ~j.child /\ j.result = "none"

(* Only gw is a process, and it tells at its end.                          *)
ToldAtTheEnd(j) == j.child => j.via = "gw" /\ j.result = "none"

(* Without a fault a track holds what was to be written.                   *)
FaultsAreSeen(j) ==
    j.writes /\ ~j.flux /\ ~j.faults =>
        \A t \in DOMAIN j.done : j.done[t] = j.snapshot

(* The verification that was told is of every track.                       *)
ToldIsTrue(j) ==
    j.result = "all tracks verified" =>
        /\ j.via = "gw" /\ j.writes /\ ~j.flux /\ ~j.faults
        /\ DOMAIN j.done = All

(* What a request that is alone wrote is what the disk holds.              *)
WrittenIsThere ==
    \A j \in Busy :
        jobs[j].writes /\ jobs[j].alone =>
            \A t \in DOMAIN jobs[j].done : floppy[t] = jobs[j].done[t]

(* A request that is alone at the drive is alone.                          *)
AloneIsAlone == \A i, j \in Busy : i # j => ~jobs[i].alone

JobsInv ==
    \A j \in DOMAIN jobs :
        /\ WaitsUntouched(jobs[j])
        /\ ToldAtTheEnd(jobs[j])
        /\ FaultsAreSeen(jobs[j])
        /\ ToldIsTrue(jobs[j])

MediaInv == TypeOK /\ JobsInv /\ WrittenIsThere /\ AloneIsAlone

-----------------------------------------------------------------------------
(* What a step does that is of one request.                                *)

JobInv(j) ==
    WaitsUntouched(j) /\ ToldAtTheEnd(j) /\ FaultsAreSeen(j) /\ ToldIsTrue(j)

AtTheDrive(j) == j.at # "over" \/ j.child

(* A request that is replaced in the sequence leaves the others.           *)
LEMMA OneChanges ==
    ASSUME TypeOK, NEW j \in DOMAIN jobs, NEW new \in Job, jobs' = [jobs EXCEPT ![j] = new]
    PROVE  /\ jobs' \in Seq(Job)
           /\ DOMAIN jobs' = DOMAIN jobs
           /\ jobs'[j] = new
           /\ \A i \in DOMAIN jobs : i # j => jobs'[i] = jobs[i]
<1>1. DOMAIN jobs = 1..Len(jobs) /\ j \in 1..Len(jobs)
  BY LenProperties DEF TypeOK
<1>2. jobs' \in Seq(Job) /\ Len(jobs') = Len(jobs)
  BY <1>1, ExceptSeq DEF TypeOK
<1>3. DOMAIN jobs' = 1..Len(jobs')
  BY <1>2, LenProperties
<1>4. \A i \in 1..Len(jobs) : jobs'[i] = IF i = j THEN new ELSE jobs[i]
  BY <1>1, ExceptSeq DEF TypeOK
<1> QED BY <1>1, <1>2, <1>3, <1>4

(* The invariant after a step of one request: only a request that is at    *)
(* the drive touches the disk, and none that was over comes back to it.    *)
LEMMA StepOfOne ==
    ASSUME MediaInv, NEW j \in DOMAIN jobs, NEW new \in Job, jobs' = [jobs EXCEPT ![j] = new],
           floppy' \in [All -> Int], working' \in Int,
           JobInv(new), new.alone = jobs[j].alone,
           AtTheDrive(new) => j \in Busy,
           floppy' = floppy \/ j \in Busy,
           AtTheDrive(new) /\ new.writes /\ new.alone =>
               \A t \in DOMAIN new.done : floppy'[t] = new.done[t]
    PROVE  MediaInv'
<1>1. /\ jobs' \in Seq(Job)
      /\ DOMAIN jobs' = DOMAIN jobs
      /\ jobs'[j] = new
      /\ \A i \in DOMAIN jobs : i # j => jobs'[i] = jobs[i]
  BY OneChanges DEF MediaInv
<1>2. TypeOK'
  BY <1>1 DEF TypeOK
<1>3. JobsInv'
  <2>1. SUFFICES ASSUME NEW i \in DOMAIN jobs PROVE JobInv(jobs'[i])
    BY <1>1 DEF JobsInv, JobInv
  <2>2. CASE i = j
    BY <2>2, <1>1
  <2>3. CASE i # j
    BY <2>3, <1>1 DEF MediaInv, JobsInv, JobInv
  <2> QED BY <2>2, <2>3
<1>4. \A i \in Busy' : i \in Busy
  BY <1>1 DEF Busy, AtTheDrive
<1>5. AloneIsAlone'
  <2>1. SUFFICES ASSUME NEW i \in Busy', NEW k \in Busy', i # k PROVE ~jobs'[i].alone
    BY DEF AloneIsAlone
  <2>2. ~jobs[i].alone /\ i \in DOMAIN jobs
    BY <1>4, <2>1 DEF MediaInv, AloneIsAlone, Busy
  <2> QED BY <2>2, <1>1
<1>6. WrittenIsThere'
  <2>1. SUFFICES ASSUME NEW i \in Busy', jobs'[i].writes, jobs'[i].alone,
                        NEW t \in DOMAIN jobs'[i].done
                 PROVE  floppy'[t] = jobs'[i].done[t]
    BY DEF WrittenIsThere
  <2>2. CASE i = j
    <3>1. AtTheDrive(new)
      BY <1>1, <2>1, <2>2 DEF Busy, AtTheDrive
    <3> QED BY <3>1, <1>1, <2>1, <2>2
  <2>3. CASE i # j
    <3>1. i \in Busy /\ i \in DOMAIN jobs /\ jobs'[i] = jobs[i]
      BY <1>1, <1>4, <2>1, <2>3 DEF Busy
    <3>2. j \notin Busy
      BY <3>1, <2>1, <2>3 DEF MediaInv, AloneIsAlone
    <3> QED BY <3>1, <3>2, <2>1 DEF MediaInv, WrittenIsThere
  <2> QED BY <2>2, <2>3
<1> QED BY <1>2, <1>3, <1>5, <1>6 DEF MediaInv

-----------------------------------------------------------------------------
(* The steps.                                                              *)

LEMMA InitInv == Init => MediaInv
<1>1. SUFFICES ASSUME Init PROVE MediaInv
  OBVIOUS
<1>2. jobs = <<>> /\ jobs \in Seq(Job) /\ Len(jobs) = 0
  BY <1>1, EmptySeq DEF Init
<1>3. DOMAIN jobs = {} /\ Busy = {}
  BY <1>2, LenProperties DEF Busy
<1>4. TypeOK
  BY <1>1, <1>2 DEF Init, TypeOK, Blank
<1> QED BY <1>3, <1>4 DEF MediaInv, JobsInv, WrittenIsThere, AloneIsAlone

(* A job of the sequence is a record of the type, with its invariant.      *)
LEMMA JobOf ==
    ASSUME MediaInv, NEW j \in DOMAIN jobs
    PROVE  jobs[j] \in Job /\ JobInv(jobs[j])
BY LenProperties, ElementOfSeq DEF MediaInv, TypeOK, JobsInv, JobInv

LEMMA NewJob ==
    ASSUME NEW writes \in BOOLEAN, NEW flux \in BOOLEAN, NEW via \in {"gw", "controller"},
           NEW at \in {"preparing", "ready"}, NEW done \in Written, NEW alone \in BOOLEAN
    PROVE  [writes |-> writes, via |-> via, flux |-> flux, at |-> at,
            snapshot |-> 0, done |-> done, child |-> FALSE, faults |-> FALSE,
            cancel |-> FALSE, result |-> "none", alone |-> alone] \in Job
BY DEF Job, Results

LEMMA AskInv ==
    ASSUME MediaInv, NEW writes \in BOOLEAN, NEW flux \in BOOLEAN,
           NEW via \in {"gw", "controller"}, Ask(writes, via, flux)
    PROVE  MediaInv'
<1> DEFINE
      older == [j \in DOMAIN jobs |-> [jobs[j] EXCEPT !.alone = @ /\ j \notin Busy]]
      first == IF writes THEN "preparing" ELSE "ready"
      alone == Busy = {}
      new == [writes |-> writes, via |-> via, flux |-> flux,
              at |-> first,
              snapshot |-> 0, done |-> Nothing, child |-> FALSE, faults |-> FALSE,
              cancel |-> FALSE, result |-> "none", alone |-> alone]
      n == Len(jobs)
<1>1. n \in Nat /\ DOMAIN jobs = 1..n
  BY LenProperties DEF MediaInv, TypeOK
<1>2. Nothing \in Written /\ DOMAIN Nothing = {}
  BY DEF Nothing, Written
<1>3. new \in Job /\ JobInv(new) /\ (Busy # {} => ~new.alone)
  <2>1. new.alone = (Busy = {})
    OBVIOUS
  <2>2. alone \in BOOLEAN /\ first \in {"preparing", "ready"}
    OBVIOUS
  <2>3. new \in Job
    <3> HIDE DEF alone, first, older
    <3> QED BY <1>2, <2>2, NewJob
  <2>4. new.at \in {"preparing", "ready"} /\ ~new.child /\ new.result = "none"
    OBVIOUS
  <2>5. DOMAIN new.done = {}
    BY <1>2
  <2> HIDE DEF new
  <2>6. JobInv(new)
    BY <2>4, <2>5 DEF JobInv, WaitsUntouched, ToldAtTheEnd, FaultsAreSeen, ToldIsTrue
  <2>7. Busy # {} => ~new.alone
    BY <2>1
  <2> QED BY <2>3, <2>6, <2>7
<1>4. \A j \in 1..n : [jobs[j] EXCEPT !.alone = @ /\ j \notin Busy] \in Job
  <2>1. SUFFICES ASSUME NEW j \in 1..n
                 PROVE  [jobs[j] EXCEPT !.alone = @ /\ j \notin Busy] \in Job
    OBVIOUS
  <2>2. jobs[j] \in Job
    BY <1>1, JobOf
  <2> QED BY <2>2 DEF Job
<1>5. older \in Seq(Job) /\ Len(older) = n
  <2>1. older \in [1..n -> Job]
    BY <1>1, <1>4
  <2> QED BY <2>1, <1>1, SeqDef, LenProperties
<1>6. /\ jobs' \in Seq(Job) /\ DOMAIN jobs' = 1..n + 1
      /\ jobs'[n + 1] = new
      /\ \A j \in 1..n : jobs'[j] = [jobs[j] EXCEPT !.alone = @ /\ j \notin Busy]
  <2>1. jobs' = Append(older, new)
    BY DEF Ask
  <2>2. /\ jobs' \in Seq(Job) /\ Len(jobs') = n + 1
        /\ jobs'[n + 1] = new
        /\ \A j \in 1..n : jobs'[j] = older[j]
    BY <2>1, <1>1, <1>3, <1>5, AppendProperties
  <2> QED BY <2>2, <1>1, LenProperties
<1>7. UNCHANGED <<floppy, working>>
  BY DEF Ask
<1>8. \A j \in 1..n : /\ jobs[j] \in Job
                      /\ jobs'[j].alone = (jobs[j].alone /\ j \notin Busy)
                      /\ jobs'[j].at = jobs[j].at /\ jobs'[j].child = jobs[j].child
                      /\ jobs'[j].writes = jobs[j].writes /\ jobs'[j].done = jobs[j].done
                      /\ JobInv(jobs'[j])
  <2>1. SUFFICES ASSUME NEW j \in 1..n
                 PROVE  /\ jobs[j] \in Job
                        /\ jobs'[j].alone = (jobs[j].alone /\ j \notin Busy)
                        /\ jobs'[j].at = jobs[j].at /\ jobs'[j].child = jobs[j].child
                        /\ jobs'[j].writes = jobs[j].writes /\ jobs'[j].done = jobs[j].done
                        /\ JobInv(jobs'[j])
    OBVIOUS
  <2>2. jobs[j] \in Job /\ JobInv(jobs[j])
    BY <1>1, JobOf
  <2>3. jobs'[j] = [jobs[j] EXCEPT !.alone = @ /\ j \notin Busy]
    BY <1>6
  <2>4. JobInv(jobs'[j])
    BY <2>2, <2>3, ZenonT(40)
    DEF Job, JobInv, WaitsUntouched, ToldAtTheEnd, FaultsAreSeen, ToldIsTrue
  <2> QED BY <2>2, <2>3, <2>4 DEF Job
<1>9. Busy' = Busy \cup {n + 1}
  BY <1>1, <1>6, <1>8 DEF Busy
<1>10. TypeOK'
  BY <1>6, <1>7 DEF MediaInv, TypeOK
<1>11. JobsInv'
  BY <1>1, <1>3, <1>6, <1>8 DEF JobsInv, JobInv
<1>12. WrittenIsThere' /\ AloneIsAlone'
  <2>1. \A j \in Busy : j \in 1..n /\ ~jobs'[j].alone
    BY <1>1, <1>8 DEF Busy
  <2>2. Busy # {} => ~jobs'[n + 1].alone
    BY <1>3, <1>6
  <2>3. DOMAIN jobs'[n + 1].done = {}
    BY <1>2, <1>6
  <2> QED BY <2>1, <2>2, <2>3, <1>9 DEF WrittenIsThere, AloneIsAlone
<1> QED BY <1>10, <1>11, <1>12 DEF MediaInv

(* A step that replaces one request in place.                              *)
LEMMA InPlace ==
    ASSUME MediaInv, NEW j \in DOMAIN jobs
    PROVE  /\ floppy \in [All -> Int] /\ working \in Int
           /\ jobs[j] \in Job /\ JobInv(jobs[j])
           /\ AtTheDrive(jobs[j]) <=> j \in Busy
           /\ AtTheDrive(jobs[j]) /\ jobs[j].writes /\ jobs[j].alone =>
                 \A t \in DOMAIN jobs[j].done : floppy[t] = jobs[j].done[t]
<1>1. AtTheDrive(jobs[j]) <=> j \in Busy
  BY DEF AtTheDrive, Busy
<1> QED BY <1>1, JobOf DEF MediaInv, TypeOK, WrittenIsThere

(* A step of one request that leaves the disk and what was done to it.     *)
LEMMA StepAside ==
    ASSUME MediaInv, NEW j \in DOMAIN jobs, NEW new \in Job, jobs' = [jobs EXCEPT ![j] = new],
           UNCHANGED <<floppy, working>>, JobInv(new), new.alone = jobs[j].alone,
           new.writes = jobs[j].writes, new.done = jobs[j].done, AtTheDrive(jobs[j])
    PROVE  MediaInv'
<1>1. floppy' \in [All -> Int] /\ working' \in Int /\ j \in Busy
  BY InPlace
<1>2. new.writes /\ new.alone => \A t \in DOMAIN new.done : floppy'[t] = new.done[t]
  BY InPlace
<1> QED BY <1>1, <1>2, StepOfOne

LEMMA EditInv == MediaInv /\ Edit => MediaInv'
<1>1. SUFFICES ASSUME MediaInv, Edit PROVE MediaInv'
  OBVIOUS
<1>2. working' \in Int /\ UNCHANGED <<floppy, jobs>>
  BY <1>1 DEF Edit, MediaInv, TypeOK
<1>3. TypeOK' /\ JobsInv'
  BY <1>1, <1>2 DEF MediaInv, TypeOK, JobsInv, WaitsUntouched, ToldAtTheEnd, FaultsAreSeen,
                    ToldIsTrue
<1>4. Busy' = Busy
  BY <1>2 DEF Busy
<1>5. WrittenIsThere' /\ AloneIsAlone'
  BY <1>1, <1>2, <1>4 DEF MediaInv, WrittenIsThere, AloneIsAlone
<1> QED BY <1>3, <1>5 DEF MediaInv

LEMMA SnapshotInv ==
    ASSUME MediaInv, NEW j \in DOMAIN jobs, Snapshot(j) PROVE MediaInv'
<1> DEFINE new == [jobs[j] EXCEPT !.snapshot = working, !.at = "ready"]
<1>1. jobs' = [jobs EXCEPT ![j] = new] /\ jobs[j].at = "preparing"
  BY DEF Snapshot, At
<1>2. UNCHANGED <<floppy, working>>
  BY DEF Snapshot
<1>3. new \in Job /\ new.alone = jobs[j].alone
  BY InPlace DEF Job
<1>4. JobInv(new)
  BY <1>1, InPlace
  DEF Job, JobInv, WaitsUntouched, ToldAtTheEnd, FaultsAreSeen, ToldIsTrue
<1>5. AtTheDrive(jobs[j]) /\ new.writes = jobs[j].writes /\ new.done = jobs[j].done
  BY <1>1, InPlace DEF AtTheDrive, Job
<1> HIDE DEF new
<1> QED BY <1>1, <1>2, <1>3, <1>4, <1>5, StepAside

LEMMA CancelInv ==
    ASSUME MediaInv, NEW j \in DOMAIN jobs, Cancel(j) PROVE MediaInv'
<1> DEFINE new == [jobs[j] EXCEPT !.cancel = TRUE]
<1>1. jobs' = [jobs EXCEPT ![j] = new] /\ jobs[j].at # "over"
  BY DEF Cancel
<1>2. UNCHANGED <<floppy, working>>
  BY DEF Cancel
<1>3. new \in Job /\ new.alone = jobs[j].alone
  BY InPlace DEF Job
<1>4. JobInv(new)
  BY InPlace DEF Job, JobInv, WaitsUntouched, ToldAtTheEnd, FaultsAreSeen, ToldIsTrue
<1>5. AtTheDrive(jobs[j]) /\ new.writes = jobs[j].writes /\ new.done = jobs[j].done
  BY <1>1, InPlace DEF AtTheDrive, Job
<1> HIDE DEF new
<1> QED BY <1>1, <1>2, <1>3, <1>4, <1>5, StepAside

LEMMA StartInv ==
    ASSUME MediaInv, NEW j \in DOMAIN jobs, Start(j) PROVE MediaInv'
<1> DEFINE child == jobs[j].via = "gw"
           new == [jobs[j] EXCEPT !.at = "working", !.child = child]
<1>1. jobs' = [jobs EXCEPT ![j] = new] /\ jobs[j].at = "ready"
  BY DEF Start, At
<1>2. UNCHANGED <<floppy, working>>
  BY DEF Start
<1>3. /\ new \in Job /\ new.alone = jobs[j].alone /\ new.child = child
      /\ new.writes = jobs[j].writes /\ new.done = jobs[j].done /\ new.via = jobs[j].via
      /\ new.result = jobs[j].result /\ new.flux = jobs[j].flux /\ new.at = "working"
      /\ new.faults = jobs[j].faults /\ new.snapshot = jobs[j].snapshot
  <2>1. child \in BOOLEAN
    OBVIOUS
  <2> HIDE DEF child
  <2> QED BY <2>1, InPlace DEF Job
<1>4. AtTheDrive(jobs[j])
  BY <1>1 DEF AtTheDrive
<1>5. jobs[j].result = "none" /\ JobInv(jobs[j])
  BY <1>1, InPlace DEF JobInv, WaitsUntouched
<1> HIDE DEF new
<1>6. JobInv(new)
  BY <1>3, <1>5 DEF JobInv, WaitsUntouched, ToldAtTheEnd, FaultsAreSeen, ToldIsTrue
<1> QED BY <1>1, <1>2, <1>3, <1>4, <1>6, StepAside

(* gw tells at its end that all was verified only if it wrote every track  *)
(* of a sector image and met no fault.                                     *)
LEMMA ChildEndsInv ==
    ASSUME MediaInv, NEW j \in DOMAIN jobs, ChildEnds(j) PROVE MediaInv'
<1> DEFINE told == IF DOMAIN jobs[j].done # All THEN "failed"
                   ELSE IF jobs[j].faults THEN "verify failure"
                   ELSE IF jobs[j].writes /\ ~jobs[j].flux THEN "all tracks verified"
                   ELSE "finished"
           new == [jobs[j] EXCEPT !.child = FALSE, !.result = told]
<1>1. jobs' = [jobs EXCEPT ![j] = new] /\ jobs[j].child
  BY DEF ChildEnds
<1>2. UNCHANGED <<floppy, working>>
  BY DEF ChildEnds
<1>3. told \in Results
  BY DEF Results
<1>4. /\ told = "all tracks verified" =>
             DOMAIN jobs[j].done = All /\ ~jobs[j].faults /\ jobs[j].writes /\ ~jobs[j].flux
  OBVIOUS
<1> HIDE DEF told
<1>5. /\ new \in Job /\ new.alone = jobs[j].alone /\ ~new.child /\ new.result = told
      /\ new.writes = jobs[j].writes /\ new.done = jobs[j].done /\ new.via = jobs[j].via
      /\ new.flux = jobs[j].flux /\ new.at = jobs[j].at
      /\ new.faults = jobs[j].faults /\ new.snapshot = jobs[j].snapshot
  BY <1>3, InPlace DEF Job
<1>6. JobInv(jobs[j]) /\ AtTheDrive(jobs[j])
  BY <1>1, InPlace DEF AtTheDrive
<1> HIDE DEF new
<1>7. JobInv(new)
  BY <1>1, <1>4, <1>5, <1>6
  DEF JobInv, WaitsUntouched, ToldAtTheEnd, FaultsAreSeen, ToldIsTrue
<1> QED BY <1>1, <1>2, <1>5, <1>6, <1>7, StepAside

LEMMA EndChildInv ==
    ASSUME MediaInv, NEW j \in DOMAIN jobs, EndChild(j) PROVE MediaInv'
<1> DEFINE new == [jobs[j] EXCEPT !.child = FALSE, !.result = "failed"]
<1>1. jobs' = [jobs EXCEPT ![j] = new] /\ jobs[j].child
  BY DEF EndChild
<1>2. UNCHANGED <<floppy, working>>
  BY DEF EndChild
<1>3. /\ new \in Job /\ new.alone = jobs[j].alone /\ ~new.child /\ new.result = "failed"
      /\ new.writes = jobs[j].writes /\ new.done = jobs[j].done /\ new.via = jobs[j].via
      /\ new.flux = jobs[j].flux /\ new.at = jobs[j].at
      /\ new.faults = jobs[j].faults /\ new.snapshot = jobs[j].snapshot
  BY InPlace DEF Job, Results
<1>4. JobInv(jobs[j]) /\ AtTheDrive(jobs[j])
  BY <1>1, InPlace DEF AtTheDrive
<1> HIDE DEF new
<1>5. JobInv(new)
  BY <1>1, <1>3, <1>4 DEF JobInv, WaitsUntouched, ToldAtTheEnd, FaultsAreSeen, ToldIsTrue
<1> QED BY <1>1, <1>2, <1>3, <1>4, <1>5, StepAside

(* A request leaves with no process, and what it was told stays.           *)
LEMMA Leaves ==
    ASSUME MediaInv, NEW j \in DOMAIN jobs, NEW result \in Results, jobs[j].at # "over",
           result \in {jobs[j].result, "captured", "written", "verified"}, ~jobs[j].child,
           jobs' = [jobs EXCEPT ![j].at = "over", ![j].result = result],
           UNCHANGED <<floppy, working>>
    PROVE  MediaInv'
<1> DEFINE new == [jobs[j] EXCEPT !.at = "over", !.result = result]
<1>1. jobs' = [jobs EXCEPT ![j] = new]
  OBVIOUS
<1>2. /\ new \in Job /\ new.alone = jobs[j].alone /\ ~new.child /\ new.result = result
      /\ new.writes = jobs[j].writes /\ new.done = jobs[j].done /\ new.via = jobs[j].via
      /\ new.flux = jobs[j].flux /\ new.at = "over"
      /\ new.faults = jobs[j].faults /\ new.snapshot = jobs[j].snapshot
  BY InPlace DEF Job
<1>3. JobInv(jobs[j]) /\ AtTheDrive(jobs[j])
  BY InPlace DEF AtTheDrive
<1> HIDE DEF new
<1>4. JobInv(new)
  BY <1>2, <1>3 DEF JobInv, WaitsUntouched, ToldAtTheEnd, FaultsAreSeen, ToldIsTrue
<1> QED BY <1>1, <1>2, <1>3, <1>4, StepAside

LEMMA InterruptInv ==
    ASSUME MediaInv, NEW j \in DOMAIN jobs, Interrupt(j) PROVE MediaInv'
<1>1. jobs[j].at # "over" /\ jobs' = [jobs EXCEPT ![j].at = "over"]
  BY DEF Interrupt, At, Goto
<1>2. ~jobs[j].child
  BY InPlace DEF Interrupt, Stopped, At, JobInv, WaitsUntouched
<1>3. jobs[j] \in Job /\ jobs[j].result \in Results
  BY InPlace DEF Job
<1>4. jobs' = [jobs EXCEPT ![j].at = "over", ![j].result = jobs[j].result]
  BY <1>1, <1>3 DEF Job
<1> QED BY <1>1, <1>2, <1>3, <1>4, Leaves DEF Interrupt

LEMMA FinishInv ==
    ASSUME MediaInv, NEW j \in DOMAIN jobs, Finish(j) PROVE MediaInv'
<1>1. jobs[j].at # "over" /\ ~jobs[j].child /\ UNCHANGED <<floppy, working>>
  BY DEF Finish, At
<1>2. jobs[j] \in Job /\ jobs[j].result \in Results
  BY InPlace DEF Job
<1>3. CASE Complete(j)
  <2> DEFINE told == CASE ~jobs[j].writes -> "captured"
                      [] jobs[j].writes /\ (jobs[j].flux \/ jobs[j].via = "controller") -> "written"
                      [] OTHER -> "verified"
  <2>1. told \in {"captured", "written", "verified"}
    OBVIOUS
  <2>2. jobs' = [jobs EXCEPT ![j].at = "over", ![j].result = told]
    BY <1>3 DEF Finish
  <2> HIDE DEF told
  <2>3. told \in Results
    BY <2>1 DEF Results
  <2> QED BY <1>1, <2>1, <2>2, <2>3, Leaves
<1>4. CASE ~Complete(j)
  <2>1. jobs' = [jobs EXCEPT ![j].at = "over"]
    BY <1>4 DEF Finish, Goto
  <2>2. jobs' = [jobs EXCEPT ![j].at = "over", ![j].result = jobs[j].result]
    BY <1>2, <2>1 DEF Job
  <2> QED BY <1>1, <1>2, <2>2, Leaves
<1> QED BY <1>3, <1>4

(* What was done with one more track.                                      *)
LEMMA OneMoreTrack ==
    ASSUME MediaInv, NEW j \in DOMAIN jobs, NEW t \in All \ DOMAIN jobs[j].done, NEW v \in Int
    PROVE  /\ Done(j, t, v) \in Written
           /\ DOMAIN Done(j, t, v) = DOMAIN jobs[j].done \union {t}
           /\ Done(j, t, v)[t] = v
           /\ \A x \in DOMAIN jobs[j].done : Done(j, t, v)[x] = jobs[j].done[x]
<1>1. jobs[j].done \in Written
  BY JobOf DEF Job
<1>2. PICK S \in SUBSET All : jobs[j].done \in [S -> Int]
  BY <1>1 DEF Written
<1>3. DOMAIN Done(j, t, v) = S \union {t} /\ S = DOMAIN jobs[j].done
  BY <1>2 DEF Done
<1>4. Done(j, t, v) \in [S \union {t} -> Int]
  BY <1>2 DEF Done
<1>5. S \union {t} \in SUBSET All
  OBVIOUS
<1>6. Done(j, t, v) \in Written
  BY <1>4, <1>5 DEF Written
<1> QED BY <1>3, <1>6 DEF Done

(* A request that is at work is at the drive, and was not told of its end. *)
LEMMA AtWorkIsBusy ==
    ASSUME MediaInv, NEW j \in DOMAIN jobs, AtWork(j)
    PROVE  AtTheDrive(jobs[j]) /\ ~(jobs[j].at \in {"preparing", "ready"})
BY InPlace DEF AtWork, AtTheDrive, JobInv, WaitsUntouched, Job

LEMMA ReadTrackInv ==
    ASSUME MediaInv, NEW j \in DOMAIN jobs, ReadTrack(j) PROVE MediaInv'
<1>1. PICK t \in NextTrack(j) : jobs' = [jobs EXCEPT ![j].done = Done(j, t, floppy[t])]
  BY DEF ReadTrack
<1> DEFINE done == Done(j, t, floppy[t])
           new == [jobs[j] EXCEPT !.done = done]
<1>2. t \in All \ DOMAIN jobs[j].done /\ floppy[t] \in Int
  BY InPlace DEF NextTrack
<1>3. done \in Written
  BY <1>2, OneMoreTrack
<1>4. jobs' = [jobs EXCEPT ![j] = new] /\ UNCHANGED <<floppy, working>> /\ ~jobs[j].writes
  BY <1>1 DEF ReadTrack
<1> HIDE DEF done
<1>5. /\ new \in Job /\ new.alone = jobs[j].alone /\ new.child = jobs[j].child
      /\ ~new.writes /\ new.via = jobs[j].via /\ new.result = jobs[j].result
      /\ new.flux = jobs[j].flux /\ new.at = jobs[j].at
      /\ new.faults = jobs[j].faults /\ new.snapshot = jobs[j].snapshot
  BY <1>3, <1>4, InPlace DEF Job
<1>6. JobInv(jobs[j]) /\ AtTheDrive(jobs[j]) /\ ~(jobs[j].at \in {"preparing", "ready"})
  BY InPlace, AtWorkIsBusy DEF ReadTrack
<1> HIDE DEF new
<1>7. JobInv(new)
  BY <1>4, <1>5, <1>6 DEF JobInv, WaitsUntouched, ToldAtTheEnd, FaultsAreSeen, ToldIsTrue
<1>8. floppy' \in [All -> Int] /\ working' \in Int /\ j \in Busy
  BY <1>4, <1>6, InPlace
<1> QED BY <1>4, <1>5, <1>7, <1>8, StepOfOne

(* The track that is written is remembered as what the disk holds there.   *)
LEMMA WriteTrackInv ==
    ASSUME MediaInv, NEW j \in DOMAIN jobs, WriteTrack(j) PROVE MediaInv'
<1>1. PICK t \in NextTrack(j), value \in {jobs[j].snapshot, Damaged} :
          /\ jobs[j].via = "controller" => value = jobs[j].snapshot
          /\ floppy' = [floppy EXCEPT ![t] = value]
          /\ jobs' = [jobs EXCEPT ![j].done = Done(j, t, value),
                                  ![j].faults = @ \/ (value = Damaged /\ ~jobs[j].flux)]
  BY DEF WriteTrack
<1> DEFINE done == Done(j, t, value)
           faults == jobs[j].faults \/ (value = Damaged /\ ~jobs[j].flux)
           new == [jobs[j] EXCEPT !.done = done, !.faults = faults]
<1>2. t \in All \ DOMAIN jobs[j].done /\ jobs[j] \in Job
  BY InPlace DEF NextTrack
<1>3. value \in Int
  BY <1>2 DEF Job, Damaged
<1>4. /\ done \in Written /\ DOMAIN done = DOMAIN jobs[j].done \union {t} /\ done[t] = value
      /\ \A x \in DOMAIN jobs[j].done : done[x] = jobs[j].done[x]
  BY <1>2, <1>3, OneMoreTrack, SMTT(30)
<1>5. faults \in BOOLEAN
  OBVIOUS
<1>6. jobs[j].faults => faults
  OBVIOUS
<1>7. ~jobs[j].flux /\ ~faults => value = jobs[j].snapshot
  OBVIOUS
<1>8. jobs' = [jobs EXCEPT ![j] = new]
  BY <1>1
<1>9. jobs[j].writes /\ working' = working
  BY DEF WriteTrack
<1> HIDE DEF done, faults
<1>10. /\ new \in Job /\ new.alone = jobs[j].alone /\ new.child = jobs[j].child
       /\ new.writes = jobs[j].writes /\ new.via = jobs[j].via
       /\ new.result = jobs[j].result /\ new.flux = jobs[j].flux /\ new.at = jobs[j].at
       /\ new.faults = faults /\ new.snapshot = jobs[j].snapshot /\ new.done = done
  BY <1>2, <1>4, <1>5 DEF Job
<1>11. JobInv(jobs[j]) /\ AtTheDrive(jobs[j]) /\ ~(jobs[j].at \in {"preparing", "ready"})
  BY InPlace, AtWorkIsBusy DEF WriteTrack
<1>12. jobs[j].result # "all tracks verified"
  BY <1>2, <1>11 DEF JobInv, ToldIsTrue, ToldAtTheEnd, WriteTrack, AtWork
<1> HIDE DEF new
<1>13. JobInv(new)
  <2>1. WaitsUntouched(new) /\ ToldAtTheEnd(new) /\ ToldIsTrue(new)
    BY <1>10, <1>11, <1>12 DEF JobInv, WaitsUntouched, ToldAtTheEnd, ToldIsTrue
  <2>2. FaultsAreSeen(new)
    BY <1>4, <1>6, <1>7, <1>10, <1>11 DEF JobInv, FaultsAreSeen
  <2> QED BY <2>1, <2>2 DEF JobInv
<1>14. floppy' \in [All -> Int] /\ working' \in Int /\ j \in Busy
  BY <1>1, <1>2, <1>3, <1>9, <1>11, InPlace
<1>15. floppy'[t] = value /\ \A x \in All : x # t => floppy'[x] = floppy[x]
  BY <1>1, <1>2, InPlace
<1>16. DOMAIN jobs[j].done \subseteq All
  BY <1>2 DEF Job, Written
<1>17. new.alone => \A x \in DOMAIN new.done : floppy'[x] = new.done[x]
  <2>1. SUFFICES ASSUME jobs[j].alone, NEW x \in DOMAIN done PROVE floppy'[x] = done[x]
    BY <1>10
  <2>2. CASE x = t
    BY <2>2, <1>4, <1>15
  <2>3. CASE x # t
    <3>1. x \in DOMAIN jobs[j].done /\ x \in All
      BY <2>1, <2>3, <1>4, <1>16
    <3>2. floppy[x] = jobs[j].done[x]
      BY <3>1, <2>1, <1>9, <1>11, InPlace
    <3> QED BY <3>1, <3>2, <2>3, <1>4, <1>15
  <2> QED BY <2>2, <2>3
<1> QED BY <1>8, <1>10, <1>13, <1>14, <1>17, StepOfOne

-----------------------------------------------------------------------------
(* The theorems.                                                           *)

LEMMA NextInv == MediaInv /\ [Next]_mediaVars => MediaInv'
<1>1. SUFFICES ASSUME MediaInv, [Next]_mediaVars PROVE MediaInv'
  OBVIOUS
<1>2. CASE UNCHANGED mediaVars
  <2>1. UNCHANGED <<floppy, working, jobs>>
    BY <1>2 DEF mediaVars
  <2>2. TypeOK' /\ JobsInv'
    BY <1>1, <2>1 DEF MediaInv, TypeOK, JobsInv, WaitsUntouched, ToldAtTheEnd, FaultsAreSeen,
                      ToldIsTrue
  <2>3. Busy' = Busy
    BY <2>1 DEF Busy
  <2>4. WrittenIsThere' /\ AloneIsAlone'
    BY <1>1, <2>1, <2>3 DEF MediaInv, WrittenIsThere, AloneIsAlone
  <2> QED BY <2>2, <2>4 DEF MediaInv
<1>3. CASE Edit
  BY <1>1, <1>3, EditInv
<1>4. CASE \E writes, flux \in BOOLEAN, via \in {"gw", "controller"} : Ask(writes, via, flux)
  BY <1>1, <1>4, AskInv
<1>5. ASSUME NEW j \in DOMAIN jobs,
             \/ Snapshot(j) \/ Cancel(j) \/ Start(j) \/ WriteTrack(j) \/ ReadTrack(j)
             \/ ChildEnds(j) \/ Interrupt(j) \/ EndChild(j) \/ Finish(j)
      PROVE  MediaInv'
  BY <1>1, <1>5, SnapshotInv, CancelInv, StartInv, WriteTrackInv, ReadTrackInv, ChildEndsInv,
     InterruptInv, EndChildInv, FinishInv
<1> QED BY <1>1, <1>2, <1>3, <1>4, <1>5 DEF Next

(* What gw tells of its verification is true of the disk of a request that *)
(* is alone, whatever requests and edits there are (write() of client.py,  *)
(* and _physical_media() of desktop.py).                                   *)
THEOREM MediaInvariant == Spec => []MediaInv
<1>1. Init => MediaInv
  BY InitInv
<1>2. MediaInv /\ [Next]_mediaVars => MediaInv'
  BY NextInv
<1> QED BY <1>1, <1>2, PTL DEF Spec

(* A step of a request leaves what is told of another, and only its end    *)
(* tells of a disk that it is verified.                                    *)
LEMMA OnlyFinishVerifies ==
    ASSUME MediaInv, [Next]_mediaVars, NEW j \in DOMAIN jobs,
           jobs'[j].result = "verified", jobs[j].result # "verified"
    PROVE  Finish(j)
<1>1. jobs[j] \in Job
  BY JobOf
<1>2. ~UNCHANGED jobs
  OBVIOUS
<1>3. ~\E writes, flux \in BOOLEAN, via \in {"gw", "controller"} : Ask(writes, via, flux)
  <2>1. SUFFICES ASSUME NEW writes \in BOOLEAN, NEW flux \in BOOLEAN,
                        NEW via \in {"gw", "controller"}, Ask(writes, via, flux)
                 PROVE  FALSE
    OBVIOUS
  <2> DEFINE older == [i \in DOMAIN jobs |-> [jobs[i] EXCEPT !.alone = @ /\ i \notin Busy]]
  <2>2. PICK new : jobs' = Append(older, new)
    BY <2>1 DEF Ask
  <2>3. DOMAIN jobs = 1..Len(jobs) /\ Len(jobs) \in Nat
    BY LenProperties DEF MediaInv, TypeOK
  <2>4. jobs'[j] = older[j]
    BY <2>2, <2>3 DEF older
  <2> QED BY <2>4, <1>1 DEF Job
<1>4. PICK i \in DOMAIN jobs :
         \/ Snapshot(i) \/ Cancel(i) \/ Start(i) \/ WriteTrack(i) \/ ReadTrack(i)
         \/ ChildEnds(i) \/ Interrupt(i) \/ EndChild(i) \/ Finish(i)
  BY <1>2, <1>3 DEF Next, mediaVars, Edit
<1>5. jobs[i] \in Job
  BY JobOf
<1>6. i # j => jobs'[j] = jobs[j]
  <2>1. SUFFICES ASSUME i # j PROVE jobs'[j] = jobs[j]
    OBVIOUS
  <2>2. CASE Snapshot(i) \/ Cancel(i) \/ Start(i) \/ ChildEnds(i) \/ Interrupt(i) \/ EndChild(i)
    BY <2>1, <2>2 DEF Snapshot, Cancel, Start, ChildEnds, Interrupt, EndChild, Goto
  <2>3. CASE WriteTrack(i) \/ ReadTrack(i)
    BY <2>1, <2>3 DEF WriteTrack, ReadTrack
  <2>4. CASE Finish(i)
    BY <2>1, <2>4 DEF Finish, Goto
  <2> QED BY <1>4, <2>2, <2>3, <2>4
<1>7. i = j
  BY <1>6
<1>8. ~(Snapshot(j) \/ Cancel(j) \/ Start(j) \/ Interrupt(j))
  BY <1>1 DEF Snapshot, Cancel, Start, Interrupt, Goto, Job
<1>9. ~(WriteTrack(j) \/ ReadTrack(j))
  BY <1>1, ZenonT(40) DEF WriteTrack, ReadTrack, Job
<1>10. ~EndChild(j)
  BY <1>1 DEF EndChild, Job
<1>11. ~ChildEnds(j)
  BY <1>1 DEF ChildEnds, Job
<1> QED BY <1>4, <1>7, <1>8, <1>9, <1>10, <1>11

(* A disk that a request calls verified holds the image as it was at one   *)
(* moment in every track (write() of client.py looks for what gw told, and *)
(* the request writes a copy of the image).                                *)
THEOREM VerifiedHoldsTheImage == Spec => VerifiedIsOnTheDisk
<1>1. MediaInv /\ [Next]_mediaVars =>
        \A j \in DOMAIN jobs :
           jobs'[j].result = "verified" /\ jobs[j].result # "verified" /\ jobs[j].alone
               => \A t \in All : floppy[t] = jobs[j].snapshot
  <2>1. SUFFICES ASSUME MediaInv, [Next]_mediaVars, NEW j \in DOMAIN jobs, jobs[j].alone,
                        jobs'[j].result = "verified", jobs[j].result # "verified"
                 PROVE  \A t \in All : floppy[t] = jobs[j].snapshot
    OBVIOUS
  <2>2. Finish(j)
    BY <2>1, OnlyFinishVerifies
  <2>3. jobs[j] \in Job /\ JobInv(jobs[j]) /\ jobs[j].at # "over"
    BY <2>1, <2>2, JobOf DEF Finish, At
  <2>4. Complete(j)
    BY <2>1, <2>2, <2>3 DEF Finish, Goto, Job
  <2>5. jobs[j].writes /\ ~jobs[j].flux /\ jobs[j].via # "controller"
    BY <2>1, <2>2, <2>3, <2>4 DEF Finish, Job
  <2>6. DOMAIN jobs[j].done = All /\ ~jobs[j].faults
    BY <2>3, <2>4, <2>5 DEF Complete, JobInv, ToldIsTrue
  <2>7. \A t \in All : jobs[j].done[t] = jobs[j].snapshot
    BY <2>3, <2>5, <2>6 DEF JobInv, FaultsAreSeen
  <2>8. \A t \in All : floppy[t] = jobs[j].done[t]
    BY <2>1, <2>3, <2>5, <2>6, InPlace DEF AtTheDrive
  <2> QED BY <2>7, <2>8
<1>2. Spec => [][MediaInv /\ [Next]_mediaVars]_mediaVars
  BY MediaInvariant, PTL DEF Spec
<1> QED BY <1>1, <1>2, PTL DEF VerifiedIsOnTheDisk

-----------------------------------------------------------------------------
(* An installation of AmigaOS, for any discs, packs, disks and files, any  *)
(* room and any copy that cannot be read.                                  *)

(* The inductive invariant.                                                 *)

Under(kind) == job.kind = kind
Adding == stage \in {"packs", "updater"}
Copying == stage \in {"writing", "copying", "done"}

\* The packs of which what is in the clear has been added.
Added ==
    CASE stage = "packs" -> job.packs \ todo
      [] stage = "updater" -> (job.packs \ todo) \cup {First(todo)}
      [] OTHER -> job.packs

\* The copies of a file that there were so far.
Had(p) ==
    {Layer(i) : i \in {i \in job.present : p \in Layers[i].files}}
    \cup {Plain(k) : k \in {k \in Added : p \in Packs[k].plain}}
    \cup {Locked(k) : k \in {k \in job.packs : p \in outcome[k]}}

\* The newest of a set of copies, of which there may be none.
Newest(copies, copy) ==
    \/ copies = {} /\ copy = Absent
    \/ copy \in copies /\ \A c \in copies : c <= copy

Stages == {"idle", "packs", "updater", "writing", "copying", "done",
           "refused", "clash", "full", "cancelled"}

\* The requests.
DiscJob == [kind : {"cd"}, present : SUBSET Numbers(Layers), packs : SUBSET Numbers(Packs),
            emulate : BOOLEAN, attached : BOOLEAN, bad : Nat \X Nat]
DisksJob == [kind : {"workbench"}, disks : SUBSET [role : Numbers(Disks), version : Nat,
                                                   quality : 0..3],
             attached : BOOLEAN, bad : Nat \X Nat]
WHDJob == [kind : {"whdload"}, keeps : BOOLEAN, attached : BOOLEAN, bad : {<<0, 0>>}]

TypeInv ==
    /\ drive \in [Paths -> Int]
    /\ before.drive \in [Paths -> {Drawer, Absent, Own}]
    /\ stage \in Stages
    /\ stage = "idle" <=> job = NoJob
    /\ job \in {NoJob} \cup DiscJob \cup DisksJob \cup WHDJob
    /\ tree \in [Paths -> Int]
    /\ todo \subseteq Nat
    /\ target \in [Paths -> {Absent, Part, Whole}]
    /\ marker \in BOOLEAN
    /\ outcome \in [Numbers(Packs) -> SUBSET Paths]

\* The stages of each kind, and what is still to be done in them.
StageInv ==
    /\ Adding => job \in DiscJob /\ todo \subseteq job.packs
    /\ stage = "updater" => todo # {}
    /\ stage = "writing" => job \in DiscJob \cup WHDJob /\ todo \subseteq Listed(tree)
    /\ stage = "copying" => job \in DisksJob /\ todo \subseteq {d.role : d \in job.disks}

\* Packs are added, and disks copied, in their order.
InTurn ==
    /\ Adding => \A j \in job.packs \ todo, k \in todo : j < k
    /\ stage = "copying" => \A j \in {d.role : d \in job.disks} \ todo, k \in todo : j < k

\* An Updater writes files of its pack, all of them before the marker comes
\* unless it gave up; it has reported nothing before it is over.
UpdaterInv ==
    /\ stage # "updater" => target = EmptyTree /\ ~marker
    /\ stage = "updater" =>
        /\ \A p \in Paths : target[p] # Absent => p \in Packs[First(todo)].locked
        /\ marker => \/ First(todo) \in failed
                     \/ \A p \in Packs[First(todo)].locked : target[p] # Absent
    /\ \A k \in Numbers(Packs) :
        outcome[k] # {} => job \in DiscJob /\ k \in job.packs /\ (Adding => k \notin todo)

\* The tree is of the newest copies there were so far, and nothing of it is on
\* the drive before it is complete.
TreeInv ==
    /\ stage = "idle" \/ Adding => drive = before.drive
    /\ Adding => \A p \in Paths : Newest(Had(p), tree[p])
    /\ stage = "writing" /\ job \in WHDJob =>
        \A p \in Paths :
            tree[p] = IF p \in Program \/ (p = Edited /\ ~job.keeps) THEN Release ELSE Absent
    /\ stage = "writing" /\ job \in DiscJob =>
        \A p \in Paths :
            IF p = Edited /\ before.drive[p] # Absent
            THEN tree[p] = Absent
            ELSE Newest(Had(p), tree[p])
    /\ stage = "writing" =>
        \A p \in Paths :
            drive[p] = IF p \in todo \/ tree[p] = Absent \/ Bad(p, tree[p])
                       THEN before.drive[p] ELSE tree[p]

\* The copies of a file on the disks that were copied so far.
Copied(p) ==
    {Disk(r) : r \in {r \in {d.role : d \in job.disks} \ todo :
                        p \in Disks[r] /\ ~Bad(p, Disk(r))}}

\* What was on the drive stays, and of the rest the first disk's is there.
DisksInv ==
    stage = "copying" =>
        \A p \in Paths :
            \/ before.drive[p] = Own /\ drive[p] = Own
            \/ before.drive[p] # Own /\ Copied(p) = {} /\ drive[p] = before.drive[p]
            \/ /\ before.drive[p] = Absent
               /\ drive[p] \in Copied(p) /\ \A c \in Copied(p) : drive[p] <= c

InstallInv ==
    TypeInv /\ StageInv /\ InTurn /\ UpdaterInv /\ TreeInv /\ DisksInv
    /\ PackIsWhole /\ RightCopyLands

-----------------------------------------------------------------------------
(* Numbers, copies and sets of them.                                        *)

(* A set of natural numbers has a least one. *)
LEMMA LeastExists ==
    ASSUME NEW T \in SUBSET Nat, T # {}
    PROVE  \E m \in T : \A k \in T : m <= k
<1> DEFINE R == OpToRel(<, Nat)
<1>1. IsWellFoundedOn(R, Nat)
  BY NatLessThanWellFounded
<1>2. ASSUME NEW x \in Nat, NEW y \in Nat, x < y PROVE <<x, y>> \in R
  BY <1>2 DEF OpToRel
<1> HIDE DEF R
<1>3. PICK m \in T : \A y \in T : ~(<<y, m>> \in R)
  BY <1>1, WFMin
<1>4. \A k \in T : ~(k < m)
  BY <1>2, <1>3
<1> QED
  BY <1>3, <1>4

(* One that has a bound has a greatest. *)
LEMMA GreatestExists ==
    ASSUME NEW n \in Nat, NEW S \in SUBSET (0..n), S # {}
    PROVE  \E m \in S : \A k \in S : k <= m
<1> DEFINE U == {u \in Nat : \A s \in S : s <= u}
<1>1. n \in U
  OBVIOUS
<1>2. PICK u \in U : \A k \in U : u <= k
  BY <1>1, LeastExists
<1>3. u \in S
  <2>1. CASE u = 0
    <3>1. \A s \in S : s = 0
      BY <2>1, <1>2
    <3> QED
      BY <2>1, <3>1
  <2>2. CASE u # 0 /\ u \notin S
    <3>1. u - 1 \in U
      BY <2>2, <1>2
    <3> QED
      BY <3>1, <1>2
  <2> QED
    BY <2>1, <2>2
<1> QED
  BY <1>2, <1>3

(* What is taken first of packs or disks is the least of them. *)
LEMMA FirstIsLeast ==
    ASSUME NEW T \in SUBSET Nat, T # {}
    PROVE  First(T) \in T /\ \A k \in T : First(T) <= k
BY LeastExists DEF First, Min

(* What Max and Min are when there is a greatest or a least. *)
LEMMA MaxIs ==
    ASSUME NEW S \in SUBSET Int, NEW m \in S, \A x \in S : x <= m
    PROVE  Max(S) = m
<1>1. Max(S) \in S /\ \A x \in S : Max(S) >= x
  BY DEF Max
<1>2. Max(S) \in Int /\ m \in Int
  BY <1>1
<1>3. Max(S) <= m /\ m <= Max(S)
  BY <1>1, <1>2
<1> QED
  BY <1>2, <1>3

LEMMA MinIs ==
    ASSUME NEW S \in SUBSET Int, NEW m \in S, \A x \in S : m <= x
    PROVE  Min(S) = m
<1>1. Min(S) \in S /\ \A x \in S : Min(S) <= x
  BY DEF Min
<1>2. Min(S) \in Int /\ m \in Int
  BY <1>1
<1>3. Min(S) <= m /\ m <= Min(S)
  BY <1>1, <1>2
<1> QED
  BY <1>2, <1>3

(* A copy that is newer than all there were is the newest. *)
LEMMA NewestAdded ==
    ASSUME NEW S \in SUBSET Int, NEW c \in Int, \A x \in S : x < c
    PROVE  Newest(S \cup {c}, c)
BY DEF Newest

(* The copies are integers in the order in which they came. *)
LEMMA CopiesInOrder ==
    /\ Len(Layers) \in Nat /\ Len(Packs) \in Nat /\ Len(Disks) \in Nat
    /\ \A i \in Numbers(Layers) : Layer(i) \in Int /\ Own < Layer(i)
    /\ \A k \in Numbers(Packs) :
        /\ Plain(k) \in Int /\ Locked(k) \in Int
        /\ Own < Plain(k) /\ Plain(k) < Locked(k)
        /\ \A i \in Numbers(Layers) : Layer(i) < Plain(k)
        /\ \A j \in Numbers(Packs) : j < k => Locked(j) < Plain(k)
    /\ \A k, j \in Numbers(Packs) : Locked(k) # Plain(j) /\ (Locked(k) = Locked(j) => k = j)
    /\ \A r \in Numbers(Disks) : Disk(r) \in Int /\ Own < Disk(r)
BY DiscsAssumption DEF Layer, Plain, Locked, Disk, Own, Numbers

(* What a sequence has is of the set it is over. *)
LEMMA OfTheSet ==
    ASSUME NEW S, NEW s \in Seq(S)
    PROVE  \A i \in Numbers(s) : s[i] \in S
BY DEF Numbers

(* What the layers, packs and disks are. *)
LEMMA Provided ==
    /\ \A i \in Numbers(Layers) : Layers[i].files \in SUBSET Paths
    /\ \A k \in Numbers(Packs) :
        Packs[k].plain \in SUBSET Paths /\ Packs[k].locked \in SUBSET Paths
    /\ \A r \in Numbers(Disks) : Disks[r] \in SUBSET Paths
<1>1. \A i \in Numbers(Layers) : Layers[i] \in [files : SUBSET Paths, required : BOOLEAN]
  BY DiscsAssumption, OfTheSet
<1>2. \A k \in Numbers(Packs) : Packs[k] \in [plain : SUBSET Paths, locked : SUBSET Paths]
  BY DiscsAssumption, OfTheSet
<1>3. \A r \in Numbers(Disks) : Disks[r] \in SUBSET Paths
  BY DiscsAssumption, OfTheSet
<1> QED
  BY <1>1, <1>2, <1>3

(* The kind of a request says what it is. *)
LEMMA KindOfJob ==
    ASSUME TypeInv
    PROVE  /\ job.kind = "cd" <=> job \in DiscJob
           /\ job.kind = "workbench" <=> job \in DisksJob
           /\ job.kind \notin {"cd", "workbench"} /\ job # NoJob => job \in WHDJob
           /\ job \in DiscJob => job \notin DisksJob \cup WHDJob
           /\ job \in DisksJob => job \notin DiscJob \cup WHDJob
           /\ job \in WHDJob => job \notin DiscJob \cup DisksJob
BY DEF TypeInv, DiscJob, DisksJob, WHDJob, NoJob

-----------------------------------------------------------------------------
(* Requests.                                                                *)

(* The best of some disks is one of them. *)
LEMMA BestIsOne ==
    ASSUME NEW disks, disks # {}, NEW score, NEW n \in Nat, \A d \in disks : score[d] \in 0..n
    PROVE  Best(disks, score) \in disks
<1> DEFINE S == {score[d] : d \in disks}
<1>1. S \in SUBSET (0..n) /\ S # {}
  OBVIOUS
<1>2. PICK m \in S : \A k \in S : k <= m
  <2> HIDE DEF S
  <2> QED
    BY <1>1, GreatestExists
<1>3. PICK d \in disks : score[d] = m
  OBVIOUS
<1>4. \A e \in disks : score[d] >= score[e]
  BY <1>2, <1>3
<1> QED
  BY <1>4 DEF Best

(* The disks that are chosen are disks. *)
LEMMA ChosenDisks ==
    ASSUME NEW pile \in Piles
    PROVE  ChooseSet(pile) \subseteq [role : Numbers(Disks), version : Nat, quality : 0..3]
<1> DEFINE FloppiesAre == [role : Numbers(Disks), version : Nat, quality : 0..3]
           version == ReleaseOf(pile)
           usable == Usable(pile, version)
           matches(d) == IF d.version = version THEN 2
                         ELSE IF d.version = NoVersion THEN 1 ELSE 0
           score == [d \in usable |-> 10 * matches(d) + d.quality]
<1>1. usable \subseteq FloppiesAre
  BY PilesAssumption DEF Usable
<1>2. \A d \in usable : score[d] \in 0..23
  <2> SUFFICES ASSUME NEW d \in usable PROVE score[d] \in 0..23
    OBVIOUS
  <2>1. d.quality \in 0..3 /\ matches(d) \in 0..2
    BY <1>1
  <2> HIDE DEF matches, usable
  <2> QED
    BY <2>1
<1> HIDE DEF score, matches, usable, version
<1>3. \A r \in {d.role : d \in usable} : Best({d \in usable : d.role = r}, score) \in usable
  <2> SUFFICES ASSUME NEW e \in usable
               PROVE  Best({d \in usable : d.role = e.role}, score) \in usable
    OBVIOUS
  <2> DEFINE same == {d \in usable : d.role = e.role}
  <2>1. same # {} /\ \A d \in same : score[d] \in 0..23
    BY <1>2
  <2> HIDE DEF same
  <2>2. Best(same, score) \in same
    BY <2>1, BestIsOne
  <2> QED
    BY <2>2 DEF same
<1>4. ChooseSet(pile) = {Best({d \in usable : d.role = r}, score) : r \in {d.role : d \in usable}}
  BY DEF ChooseSet, score, matches, usable, version
<1> QED
  BY <1>1, <1>3, <1>4

(* The tree of a release has the newest layer of each file. *)
LEMMA ResolvedIsNewest ==
    ASSUME NEW present \in SUBSET Numbers(Layers)
    PROVE  /\ Resolved(present) \in [Paths -> Int]
           /\ \A p \in Paths :
                /\ Newest({Layer(i) : i \in {i \in present : p \in Layers[i].files}},
                          Resolved(present)[p])
                /\ \/ Resolved(present)[p] = Absent
                   \/ \E i \in Numbers(Layers) : Resolved(present)[p] = Layer(i)
<1>1. ASSUME NEW p \in Paths
      PROVE  /\ Resolved(present)[p] \in Int
             /\ Newest({Layer(i) : i \in {i \in present : p \in Layers[i].files}},
                       Resolved(present)[p])
             /\ \/ Resolved(present)[p] = Absent
                \/ \E i \in Numbers(Layers) : Resolved(present)[p] = Layer(i)
  <2> DEFINE having == {i \in present : p \in Layers[i].files}
  <2>1. Resolved(present)[p] = IF having = {} THEN Absent ELSE Layer(Max(having))
    BY DEF Resolved
  <2>2. having \subseteq Numbers(Layers) /\ having \in SUBSET (0..Len(Layers))
    <3>1. Len(Layers) \in Nat
      BY CopiesInOrder
    <3>2. Numbers(Layers) \subseteq 0..Len(Layers)
      BY <3>1 DEF Numbers
    <3>3. having \subseteq Numbers(Layers)
      OBVIOUS
    <3> HIDE DEF having
    <3> QED
      BY <3>2, <3>3
  <2>3. having = {i \in present : p \in Layers[i].files}
    OBVIOUS
  <2> SUFFICES /\ Resolved(present)[p] \in Int
               /\ Newest({Layer(i) : i \in having}, Resolved(present)[p])
               /\ \/ Resolved(present)[p] = Absent
                  \/ \E i \in Numbers(Layers) : Resolved(present)[p] = Layer(i)
    BY <2>3
  <2> HIDE DEF having
  <2>5. CASE having = {}
    BY <2>1, <2>5 DEF Newest, Absent
  <2>4. CASE having # {}
    <3>1. PICK m \in having : \A k \in having : k <= m
      BY <2>2, <2>4, GreatestExists, CopiesInOrder
    <3>2. Max(having) = m
      <4>1. having \in SUBSET Int
        BY <2>2
      <4> QED
        BY <3>1, <4>1, MaxIs
    <3>3. Resolved(present)[p] = Layer(m) /\ m \in Numbers(Layers)
      BY <2>1, <2>2, <2>4, <3>2
    <3>4. \A k \in having : Layer(k) <= Layer(m)
      BY <2>2, <3>1 DEF Layer, Own, Numbers
    <3>5. Newest({Layer(i) : i \in having}, Layer(m))
      BY <3>1, <3>4 DEF Newest
    <3> QED
      BY <3>3, <3>5, CopiesInOrder
  <2> QED
    BY <2>4, <2>5
<1>2. Resolved(present) = [p \in Paths |-> Resolved(present)[p]]
  BY DEF Resolved
<1> QED
  BY <1>1, <1>2

StopsAt == {"refused", "clash", "full", "cancelled"}

(* A request that fails leaves nothing that the invariant is about but which *)
(* copies are on the drive.                                                 *)
LEMMA StoppedInv ==
    ASSUME stage' \in StopsAt, TypeInv', UpdaterInv', PackIsWhole'
    PROVE  InstallInv'
BY DEF StopsAt, Stages, InstallInv, StageInv, InTurn, TreeInv, DisksInv, RightCopyLands, Adding

(* At first there is no request. *)
LEMMA InstallInitInv == InstallInit => InstallInv
<1> SUFFICES ASSUME InstallInit PROVE InstallInv
  OBVIOUS
<1> USE DEF InstallInit
<1>1. TypeInv
  <2>1. drive \in [Paths -> {Drawer, Absent, Own}] /\ before.drive = drive
    OBVIOUS
  <2>2. drive \in [Paths -> Int]
    BY <2>1 DEF Drawer, Absent, Own
  <2>3. tree \in [Paths -> Int] /\ target \in [Paths -> {Absent, Part, Whole}]
    BY DEF EmptyTree, Absent
  <2>4. outcome \in [Numbers(Packs) -> SUBSET Paths]
    BY DEF NotApplied
  <2> QED
    BY <2>1, <2>2, <2>3, <2>4 DEF TypeInv, Stages
<1>2. StageInv /\ InTurn /\ UpdaterInv
  BY DEF StageInv, InTurn, UpdaterInv, Adding, NotApplied
<1>3. TreeInv /\ DisksInv
  BY DEF TreeInv, DisksInv, Adding
<1>4. PackIsWhole /\ RightCopyLands
  BY DEF PackIsWhole, RightCopyLands, NoJob
<1> QED
  BY <1>1, <1>2, <1>3, <1>4 DEF InstallInv

(* While there is no request nothing was reported and nothing was written. *)
LEMMA IdlePile ==
    ASSUME InstallInv, stage = "idle"
    PROVE  /\ job = NoJob /\ job \notin DiscJob
           /\ drive = before.drive
           /\ target = EmptyTree /\ ~marker
           /\ \A k \in Numbers(Packs) : outcome[k] = {}
BY DEF InstallInv, TypeInv, UpdaterInv, TreeInv, NoJob, DiscJob

(* What was on the drive is no copy from a disc. *)
LEMMA BeforeIsOwn ==
    ASSUME TypeInv, NEW p \in Paths
    PROVE  /\ before.drive[p] \in {Drawer, Absent, Own}
           /\ before.drive[p] # InPart
           /\ \A k \in Numbers(Packs) : before.drive[p] # Locked(k)
<1>1. before.drive[p] \in {Drawer, Absent, Own}
  BY DEF TypeInv
<1>2. \A k \in Numbers(Packs) : Own < Plain(k) /\ Plain(k) < Locked(k) /\ Plain(k) \in Int
                                /\ Locked(k) \in Int
  BY CopiesInOrder
<1> QED
  BY <1>1, <1>2 DEF Drawer, Absent, Own, InPart

LEMMA AskDiscInv == InstallInv /\ AskDisc => InstallInv'
<1> SUFFICES ASSUME InstallInv, AskDisc PROVE InstallInv'
  OBVIOUS
<1>1. PICK present \in SUBSET Numbers(Layers), archives \in SUBSET Numbers(Packs),
           chosen \in SUBSET Numbers(Packs), emulate \in BOOLEAN, attached \in BOOLEAN,
           bad \in Faults :
        /\ job' = [kind |-> "cd", present |-> present, packs |-> PacksIn(archives, chosen),
                   emulate |-> emulate, attached |-> attached, bad |-> bad]
        /\ tree' = Resolved(present)
        /\ todo' = job'.packs
        /\ \/ stage' = "packs" /\ UNCHANGED <<drive, room>>
           \/ Fails("refused", attached, drive, room)
  BY DEF AskDisc
<1>2. stage = "idle" /\ UNCHANGED <<before, target, marker, outcome, failed>>
  BY DEF AskDisc
<1>3. TypeInv
  BY DEF InstallInv
<1>4. drive' = before.drive /\ stage' \in {"packs", "refused"}
  BY <1>1, <1>2, IdlePile DEF Fails
<1>5. /\ job' \in DiscJob /\ job'.packs \in SUBSET Numbers(Packs)
      /\ job'.present = present /\ present \in SUBSET Numbers(Layers)
      /\ job' # NoJob /\ job' \notin DisksJob \cup WHDJob /\ job'.kind = "cd"
  <2>1. PacksIn(archives, chosen) \in SUBSET Numbers(Packs)
    BY DEF PacksIn
  <2>2. bad \in Nat \X Nat
    BY DiscsAssumption
  <2>3. job'.kind = "cd"
    BY <1>1
  <2>4. job' \in DiscJob
    BY <1>1, <2>1, <2>2 DEF DiscJob
  <2>5. job' # NoJob /\ job' \notin DisksJob \cup WHDJob
    BY <2>3 DEF NoJob, DisksJob, WHDJob
  <2> QED
    BY <1>1, <2>1, <2>3, <2>4, <2>5
<1>6. TypeInv'
  <2>1. drive' \in [Paths -> Int] /\ before'.drive \in [Paths -> {Drawer, Absent, Own}]
    BY <1>2, <1>3, <1>4 DEF TypeInv, Drawer, Absent, Own
  <2>2. stage' \in Stages /\ stage' # "idle"
    BY <1>4 DEF Stages
  <2>3. tree' \in [Paths -> Int] /\ todo' \subseteq Nat
    BY <1>1, <1>5, ResolvedIsNewest DEF Numbers
  <2> QED
    BY <1>2, <1>3, <1>5, <2>1, <2>2, <2>3 DEF TypeInv
<1>7. \A k \in Numbers(Packs) : outcome'[k] = {}
  BY <1>2, IdlePile
<1>8. UpdaterInv'
  BY <1>2, <1>4, <1>7, IdlePile DEF UpdaterInv
<1>9. PackIsWhole'
  <2>1. ASSUME NEW p \in Paths
        PROVE  /\ InPart \notin {tree'[p], drive'[p]}
               /\ \A k \in Numbers(Packs) : Locked(k) \notin {tree'[p], drive'[p]}
    <3>1. tree'[p] = Absent \/ \E i \in Numbers(Layers) : tree'[p] = Layer(i)
      BY <1>1, ResolvedIsNewest
    <3>2. tree'[p] # InPart /\ \A k \in Numbers(Packs) : tree'[p] # Locked(k)
      BY <3>1, CopiesInOrder DEF Absent, Own, InPart
    <3> QED
      BY <1>3, <1>4, <3>2, BeforeIsOwn
  <2> QED
    BY <1>7, <2>1 DEF PackIsWhole, NotApplied
<1>10. CASE stage' = "refused"
  BY <1>6, <1>8, <1>9, <1>10, StoppedInv DEF StopsAt
<1>11. CASE stage' = "packs"
  <2>1. Added' = {}
    BY <1>1, <1>11 DEF Added
  <2>2. StageInv' /\ InTurn'
    BY <1>1, <1>5, <1>11 DEF StageInv, InTurn, Adding
  <2>3. TreeInv'
    <3>1. ASSUME NEW p \in Paths PROVE Newest(Had(p)', tree'[p])
      <4>1. {Plain(k) : k \in {k \in Added' : p \in Packs[k].plain}} = {}
        BY <2>1
      <4>2. {Locked(k) : k \in {k \in job'.packs : p \in outcome'[k]}} = {}
        BY <1>5, <1>7
      <4>3. Had(p)' = {Layer(i) : i \in {i \in present : p \in Layers[i].files}}
        BY <1>5, <4>1, <4>2 DEF Had
      <4> QED
        BY <1>1, <4>3, ResolvedIsNewest
    <3> QED
      BY <1>2, <1>4, <1>11, <3>1 DEF TreeInv, Adding
  <2>4. DisksInv' /\ RightCopyLands'
    BY <1>11 DEF DisksInv, RightCopyLands
  <2> QED
    BY <1>6, <1>8, <1>9, <2>2, <2>3, <2>4 DEF InstallInv
<1> QED
  BY <1>4, <1>10, <1>11

LEMMA AskDisksInv == InstallInv /\ AskDisks => InstallInv'
<1> SUFFICES ASSUME InstallInv, AskDisks PROVE InstallInv'
  OBVIOUS
<1>1. PICK pile \in Piles, attached \in BOOLEAN, bad \in Faults :
        /\ job' = [kind |-> "workbench", disks |-> ChooseSet(pile),
                    attached |-> attached, bad |-> bad]
        /\ todo' = {d.role : d \in job'.disks}
        /\ \/ stage' = "copying" /\ UNCHANGED <<drive, room>>
           \/ Fails("refused", attached, drive, room)
  BY DEF AskDisks
<1>2. stage = "idle" /\ UNCHANGED <<before, tree, target, marker, outcome, failed>>
  BY DEF AskDisks
<1>3. TypeInv
  BY DEF InstallInv
<1>4. drive' = before.drive /\ stage' \in {"copying", "refused"}
  BY <1>1, <1>2, IdlePile DEF Fails
<1>5. /\ job' \in DisksJob /\ job' # NoJob /\ job'.kind = "workbench"
      /\ job'.disks \subseteq [role : Numbers(Disks), version : Nat, quality : 0..3]
  <2>1. bad \in Nat \X Nat
    BY DiscsAssumption
  <2> QED
    BY <1>1, <2>1, ChosenDisks DEF DisksJob, NoJob
<1>6. TypeInv'
  <2>1. drive' \in [Paths -> Int] /\ before'.drive \in [Paths -> {Drawer, Absent, Own}]
    BY <1>2, <1>3, <1>4 DEF TypeInv, Drawer, Absent, Own
  <2>2. stage' \in Stages /\ stage' # "idle"
    BY <1>4 DEF Stages
  <2>3. todo' \subseteq Nat
    BY <1>1, <1>5 DEF Numbers
  <2> QED
    BY <1>2, <1>3, <1>5, <2>1, <2>2, <2>3 DEF TypeInv
<1>7. UpdaterInv'
  BY <1>2, <1>4, IdlePile DEF UpdaterInv
<1>8. PackIsWhole'
  BY <1>5 DEF PackIsWhole
<1>9. CASE stage' = "refused"
  BY <1>6, <1>7, <1>8, <1>9, StoppedInv DEF StopsAt
<1>10. CASE stage' = "copying"
  <2>1. StageInv' /\ InTurn'
    BY <1>1, <1>5, <1>10 DEF StageInv, InTurn, Adding
  <2>2. DisksInv'
    <3>1. ASSUME NEW p \in Paths PROVE Copied(p)' = {}
      BY <1>1 DEF Copied
    <3>2. \A p \in Paths : drive'[p] = before'.drive[p]
      BY <1>2, <1>4
    <3> QED
      BY <3>1, <3>2 DEF DisksInv
  <2>3. TreeInv' /\ RightCopyLands'
    BY <1>10 DEF TreeInv, RightCopyLands, Adding
  <2> QED
    BY <1>6, <1>7, <1>8, <2>1, <2>2, <2>3 DEF InstallInv
<1> QED
  BY <1>4, <1>9, <1>10

LEMMA AskWHDLoadInv == InstallInv /\ AskWHDLoad => InstallInv'
<1> SUFFICES ASSUME InstallInv, AskWHDLoad PROVE InstallInv'
  OBVIOUS
<1>1. PICK keep \in BOOLEAN, attached \in BOOLEAN :
        /\ job' = [kind |-> "whdload", keeps |-> keep /\ drive[Min(Program)] = Own,
                   attached |-> attached, bad |-> <<0, 0>>]
        /\ tree' = Add(EmptyTree, Program \cup (IF job'.keeps THEN {} ELSE {Edited}), Release)
        /\ todo' = Listed(tree')
        /\ \/ stage' = "writing" /\ UNCHANGED <<drive, room>>
           \/ Fails("refused", attached, drive, room)
  BY DEF AskWHDLoad
<1>2. stage = "idle" /\ UNCHANGED <<before, target, marker, outcome, failed>>
  BY DEF AskWHDLoad
<1>3. TypeInv
  BY DEF InstallInv
<1>4. drive' = before.drive /\ stage' \in {"writing", "refused"}
  BY <1>1, <1>2, IdlePile DEF Fails
<1>5. /\ job' \in WHDJob /\ job' # NoJob /\ job'.kind = "whdload" /\ job'.keeps \in BOOLEAN
      /\ job' \notin DiscJob /\ job' \notin DisksJob
  <2>1. job'.kind = "whdload" /\ job' \in WHDJob /\ job'.keeps \in BOOLEAN
    BY <1>1 DEF WHDJob
  <2> QED
    BY <2>1 DEF NoJob, DiscJob, DisksJob
<1>6. \A p \in Paths :
        tree'[p] = IF p \in Program \/ (p = Edited /\ ~job'.keeps) THEN Release ELSE Absent
  BY <1>1, PathsAssumption DEF Add, EmptyTree
<1>7. tree' \in [Paths -> Int] /\ todo' \subseteq Paths /\ todo' \subseteq Nat
  <2>1. tree' \in [Paths -> Int]
    BY <1>1 DEF Add, EmptyTree, Release, Own, Absent
  <2>2. todo' \subseteq Paths
    BY <1>1 DEF Listed
  <2> QED
    BY <2>1, <2>2, PathsAssumption
<1>8. TypeInv'
  <2>1. drive' \in [Paths -> Int] /\ before'.drive \in [Paths -> {Drawer, Absent, Own}]
    BY <1>2, <1>3, <1>4 DEF TypeInv, Drawer, Absent, Own
  <2>2. stage' \in Stages /\ stage' # "idle"
    BY <1>4 DEF Stages
  <2> QED
    BY <1>2, <1>3, <1>5, <1>7, <2>1, <2>2 DEF TypeInv
<1>9. UpdaterInv'
  BY <1>2, <1>4, IdlePile DEF UpdaterInv
<1>10. PackIsWhole'
  BY <1>5 DEF PackIsWhole
<1>11. CASE stage' = "refused"
  BY <1>8, <1>9, <1>10, <1>11, StoppedInv DEF StopsAt
<1>12. CASE stage' = "writing"
  <2>1. StageInv' /\ InTurn'
    BY <1>1, <1>5, <1>7, <1>12 DEF StageInv, InTurn, Adding
  <2>2. TreeInv'
    <3>1. \A p \in Paths : p \in todo' \/ tree'[p] = Absent
      BY <1>1 DEF Listed
    <3>2. \A p \in Paths : drive'[p] = before'.drive[p]
      BY <1>2, <1>4
    <3> QED
      BY <1>5, <1>6, <1>12, <3>1, <3>2 DEF TreeInv, Adding
  <2>3. DisksInv' /\ RightCopyLands'
    BY <1>12 DEF DisksInv, RightCopyLands
  <2> QED
    BY <1>8, <1>9, <1>10, <2>1, <2>2, <2>3 DEF InstallInv
<1> QED
  BY <1>4, <1>11, <1>12

-----------------------------------------------------------------------------
(* Update packs.                                                           *)

(* The pack that is added next, and what there was before it. *)
LEMMA NextPack ==
    ASSUME InstallInv, Adding, todo # {}
    PROVE  /\ job \in DiscJob /\ job.packs \subseteq Numbers(Packs)
           /\ job.present \subseteq Numbers(Layers)
           /\ First(todo) \in todo /\ First(todo) \in Numbers(Packs) /\ First(todo) \in job.packs
           /\ \A k \in todo : First(todo) <= k
           /\ outcome[First(todo)] = {}
           /\ \A j \in Numbers(Packs) :
                j \in job.packs \ todo \/ outcome[j] # {} => j < First(todo)
<1>1. job \in DiscJob /\ todo \subseteq job.packs /\ todo \subseteq Nat
  BY DEF InstallInv, TypeInv, StageInv
<1>2. job.packs \subseteq Numbers(Packs) /\ job.present \subseteq Numbers(Layers)
  BY <1>1 DEF DiscJob
<1>3. First(todo) \in todo /\ \A k \in todo : First(todo) <= k
  BY <1>1, FirstIsLeast
<1>4. \A j \in job.packs \ todo : j < First(todo)
  BY <1>3 DEF InstallInv, InTurn
<1>5. \A j \in Numbers(Packs) : outcome[j] # {} => j \in job.packs \ todo
  BY DEF InstallInv, UpdaterInv
<1> QED
  BY <1>1, <1>2, <1>3, <1>4, <1>5

(* All the copies there were are older than the next pack's in the clear, and *)
(* those in turn than its locked ones.                                        *)
LEMMA OlderCopies ==
    ASSUME InstallInv, Adding, todo # {}, NEW p \in Paths
    PROVE  /\ Had(p) \in SUBSET Int
           /\ stage = "packs" => \A c \in Had(p) : c < Plain(First(todo))
           /\ stage = "updater" => \A c \in Had(p) : c < Locked(First(todo))
<1> DEFINE k == First(todo)
<1>1. /\ job.packs \subseteq Numbers(Packs) /\ job.present \subseteq Numbers(Layers)
      /\ k \in Numbers(Packs)
      /\ \A j \in Numbers(Packs) : j \in job.packs \ todo \/ outcome[j] # {} => j < k
  BY NextPack
<1>2. /\ Added \subseteq Numbers(Packs)
      /\ stage = "packs" => \A j \in Added : j < k
      /\ stage = "updater" => \A j \in Added : j < k \/ j = k
  BY <1>1 DEF Added, Adding
<1> HIDE DEF k
<1>3. ASSUME NEW c \in Had(p)
      PROVE  /\ c \in Int
             /\ stage = "packs" => c < Plain(k)
             /\ stage = "updater" => c < Locked(k)
  <2>0. Plain(k) \in Int /\ Locked(k) \in Int /\ Plain(k) < Locked(k)
    BY <1>1, CopiesInOrder
  <2>1. CASE \E i \in Numbers(Layers) : c = Layer(i)
    <3>1. c \in Int /\ c < Plain(k)
      BY <1>1, <2>1, CopiesInOrder
    <3> QED
      BY <2>0, <3>1
  <2>2. CASE \E j \in Added : c = Plain(j)
    <3>1. PICK j \in Added : c = Plain(j)
      BY <2>2
    <3>2. c \in Int /\ c < Locked(j) /\ Locked(j) \in Int /\ (j < k => Locked(j) < Plain(k))
      BY <1>1, <1>2, <3>1, CopiesInOrder
    <3>3. j < k => c < Plain(k) /\ c < Locked(k)
      BY <2>0, <3>2
    <3>4. j = k => c < Locked(k)
      BY <3>2
    <3> QED
      BY <1>2, <3>2, <3>3, <3>4
  <2>3. CASE \E j \in job.packs : p \in outcome[j] /\ c = Locked(j)
    <3>1. PICK j \in job.packs : p \in outcome[j] /\ c = Locked(j)
      BY <2>3
    <3>2. j \in Numbers(Packs) /\ j < k
      BY <1>1, <3>1
    <3>3. c \in Int /\ c < Plain(k)
      BY <1>1, <3>1, <3>2, CopiesInOrder
    <3> QED
      BY <2>0, <3>3
  <2> QED
    BY <1>1, <2>1, <2>2, <2>3 DEF Had
<1> QED
  BY <1>3 DEF k

LEMMA AddPackInv == InstallInv /\ AddPack => InstallInv'
<1> SUFFICES ASSUME InstallInv, AddPack PROVE InstallInv'
  OBVIOUS
<1> DEFINE k == First(todo)
<1>1. /\ stage = "packs" /\ todo # {}
      /\ tree' = Add(tree, Packs[k].plain, Plain(k))
      /\ \/ stage' = "updater" /\ todo' = todo
         \/ stage' = "packs" /\ todo' = todo \ {k}
      /\ UNCHANGED <<drive, room, before, job, target, marker, outcome, failed>>
  BY DEF AddPack
<1>2. TypeInv /\ StageInv /\ InTurn /\ UpdaterInv /\ TreeInv /\ PackIsWhole
  BY DEF InstallInv
<1>3. Adding
  BY <1>1 DEF Adding
<1>4. /\ job \in DiscJob /\ job.packs \subseteq Numbers(Packs)
      /\ k \in todo /\ k \in Numbers(Packs) /\ k \in job.packs
      /\ \A i \in todo : k <= i
      /\ \A j \in job.packs \ todo : j < k
      /\ todo \subseteq job.packs /\ todo \subseteq Nat
  BY <1>1, <1>2, <1>3, NextPack DEF StageInv, TypeInv
<1>5. Plain(k) \in Int /\ Own < Plain(k)
  BY <1>4, CopiesInOrder
<1>6. \A p \in Paths : tree'[p] = IF p \in Packs[k].plain THEN Plain(k) ELSE tree[p]
  BY <1>1 DEF Add
<1> HIDE DEF k
<1>7. tree' \in [Paths -> Int]
  <2>1. \A p \in Paths : tree'[p] \in Int
    BY <1>2, <1>5, <1>6 DEF TypeInv
  <2> QED
    BY <1>1, <2>1 DEF Add
<1>8. TypeInv'
  BY <1>1, <1>2, <1>4, <1>7 DEF TypeInv, Stages
<1>9. StageInv' /\ InTurn'
  <2>1. \A i \in todo \ {k} : k < i
    BY <1>4
  <2> QED
    BY <1>1, <1>2, <1>3, <1>4, <2>1 DEF StageInv, InTurn, Adding
<1>10. UpdaterInv'
  <2>1. target' = EmptyTree /\ ~marker'
    BY <1>1, <1>2 DEF UpdaterInv
  <2>2. \A j \in Numbers(Packs) : outcome'[j] # {} => j \in job.packs /\ j \notin todo'
    BY <1>1, <1>2, <1>3 DEF UpdaterInv
  <2> QED
    BY <1>1, <1>4, <2>1, <2>2 DEF UpdaterInv, EmptyTree
<1>11. TreeInv'
  <2>1. Added' = Added \cup {k}
    BY <1>1, <1>4 DEF Added, k
  <2>2. ASSUME NEW p \in Paths PROVE Newest(Had(p)', tree'[p])
    <3>1. Had(p) \in SUBSET Int /\ \A c \in Had(p) : c < Plain(k)
      BY <1>1, <1>3, OlderCopies DEF k
    <3>2. CASE p \in Packs[k].plain
      <4>1. Had(p)' = Had(p) \cup {Plain(k)}
        BY <1>1, <2>1, <3>2 DEF Had
      <4> QED
        BY <1>5, <1>6, <3>1, <3>2, <4>1, NewestAdded
    <3>3. CASE p \notin Packs[k].plain
      <4>1. Had(p)' = Had(p)
        BY <1>1, <2>1, <3>3 DEF Had
      <4> QED
        BY <1>2, <1>3, <1>6, <3>3, <4>1 DEF TreeInv
    <3> QED
      BY <3>2, <3>3
  <2> QED
    BY <1>1, <1>2, <2>2 DEF TreeInv, Adding
<1>12. PackIsWhole'
  <2>1. job.kind = "cd"
    BY <1>4 DEF DiscJob
  <2>2. \A j \in Numbers(Packs) : Locked(j) # Plain(k)
    BY <1>4, CopiesInOrder
  <2>3. Plain(k) # InPart
    BY <1>5 DEF Own, InPart
  <2> QED
    BY <1>1, <1>2, <1>6, <2>1, <2>2, <2>3 DEF PackIsWhole
<1>13. DisksInv' /\ RightCopyLands'
  BY <1>1 DEF DisksInv, RightCopyLands
<1> QED
  BY <1>8, <1>9, <1>10, <1>11, <1>12, <1>13 DEF InstallInv

(* While the Updater runs the tree and the drive stay as they are, and only *)
(* what it is about has to be shown.                                        *)
LEMMA RunningInv ==
    ASSUME InstallInv, Running, UpdaterInv', failed \subseteq failed',
           target' \in [Paths -> {Absent, Part, Whole}], marker' \in BOOLEAN,
           UNCHANGED <<drive, room, before, job, stage, tree, todo, outcome>>
    PROVE  InstallInv'
<1>1. TypeInv /\ StageInv /\ InTurn /\ TreeInv /\ PackIsWhole /\ stage = "updater"
  BY DEF InstallInv, Running
<1>2. TypeInv'
  BY <1>1 DEF TypeInv
<1>3. StageInv' /\ InTurn'
  BY <1>1 DEF StageInv, InTurn, Adding
<1>4. TreeInv'
  <2>1. \A p \in Paths : Newest(Had(p), tree[p])
    BY <1>1 DEF TreeInv, Adding
  <2>2. Added' = Added
    BY DEF Added
  <2>3. \A p \in Paths : Had(p)' = Had(p)
    BY <2>2 DEF Had
  <2> QED
    BY <1>1, <2>1, <2>3 DEF TreeInv, Adding
<1>5. PackIsWhole'
  BY <1>1 DEF PackIsWhole
<1>6. DisksInv' /\ RightCopyLands'
  BY <1>1 DEF DisksInv, RightCopyLands
<1> QED
  BY <1>2, <1>3, <1>4, <1>5, <1>6 DEF InstallInv

LEMMA UpdaterWritesInv == InstallInv /\ UpdaterWrites => InstallInv'
<1> SUFFICES ASSUME InstallInv, UpdaterWrites PROVE InstallInv'
  OBVIOUS
<1>1. PICK p \in Packs[First(todo)].locked : target' = [target EXCEPT ![p] = Part]
  BY DEF UpdaterWrites
<1>2. /\ Running /\ ~marker /\ stage = "updater"
      /\ UNCHANGED <<drive, room, before, job, stage, tree, todo, marker, outcome, failed>>
  BY DEF UpdaterWrites, Running
<1>3. TypeInv /\ UpdaterInv
  BY DEF InstallInv
<1>4. target' \in [Paths -> {Absent, Part, Whole}] /\ marker' \in BOOLEAN
  BY <1>1, <1>2, <1>3 DEF TypeInv
<1>5. \A q \in Paths : target'[q] # Absent => q = p \/ target[q] # Absent
  BY <1>1, <1>3 DEF TypeInv
<1>6. UpdaterInv'
  BY <1>1, <1>2, <1>3, <1>5 DEF UpdaterInv, Adding
<1> QED
  BY <1>2, <1>4, <1>6, RunningInv

LEMMA FlushesInv == InstallInv /\ Flushes => InstallInv'
<1> SUFFICES ASSUME InstallInv, Flushes PROVE InstallInv'
  OBVIOUS
<1>1. PICK p \in Paths : target[p] = Part /\ target' = [target EXCEPT ![p] = Whole]
  BY DEF Flushes
<1>2. /\ Running /\ stage = "updater"
      /\ UNCHANGED <<drive, room, before, job, stage, tree, todo, marker, outcome, failed>>
  BY DEF Flushes, Running
<1>3. TypeInv /\ UpdaterInv
  BY DEF InstallInv
<1>4. target' \in [Paths -> {Absent, Part, Whole}] /\ marker' \in BOOLEAN
  BY <1>1, <1>2, <1>3 DEF TypeInv
<1>5. \A q \in Paths : target'[q] # Absent <=> target[q] # Absent
  BY <1>1, <1>3 DEF TypeInv, Absent, Part, Whole
<1>6. UpdaterInv'
  <2>1. \A q \in Paths : target'[q] # Absent => q \in Packs[First(todo)].locked
    BY <1>2, <1>3, <1>5 DEF UpdaterInv
  <2>2. marker => \/ First(todo) \in failed
                  \/ \A q \in Packs[First(todo)].locked : target'[q] # Absent
    <3>1. marker => \/ First(todo) \in failed
                    \/ \A q \in Packs[First(todo)].locked : target[q] # Absent
      BY <1>2, <1>3 DEF UpdaterInv
    <3>2. \A q \in Packs[First(todo)].locked : q \in Paths
      <4>1. StageInv
        BY DEF InstallInv
      <4>2. First(todo) \in Numbers(Packs)
        BY <1>2, <4>1, NextPack DEF StageInv, Adding
      <4> QED
        BY <4>2, Provided
    <3> QED
      BY <1>5, <3>1, <3>2
  <2> QED
    BY <1>2, <1>3, <2>1, <2>2 DEF UpdaterInv, Adding
<1> QED
  BY <1>2, <1>4, <1>6, RunningInv

LEMMA MarksInv == InstallInv /\ Marks => InstallInv'
<1> SUFFICES ASSUME InstallInv, Marks PROVE InstallInv'
  OBVIOUS
<1>1. /\ Running /\ stage = "updater" /\ marker'
      /\ UNCHANGED <<drive, room, before, job, stage, tree, todo, target, outcome>>
  BY DEF Marks, Running
<1>2. /\ failed \subseteq failed'
      /\ \/ First(todo) \in failed'
         \/ \A p \in Packs[First(todo)].locked : target[p] # Absent
  BY DEF Marks
<1>3. TypeInv /\ UpdaterInv
  BY DEF InstallInv
<1>4. UpdaterInv'
  BY <1>1, <1>2, <1>3 DEF UpdaterInv, Adding
<1>5. target' \in [Paths -> {Absent, Part, Whole}] /\ marker' \in BOOLEAN
  BY <1>1, <1>3 DEF TypeInv, Marks
<1> QED
  BY <1>1, <1>2, <1>4, <1>5, RunningInv

LEMMA UpdaterOverInv == InstallInv /\ UpdaterOver => InstallInv'
<1> SUFFICES ASSUME InstallInv, UpdaterOver PROVE InstallInv'
  OBVIOUS
<1> DEFINE k == First(todo)
<1>1. /\ stage = "updater" /\ stage' = "packs" /\ todo' = todo \ {k}
      /\ target' = EmptyTree /\ marker' = FALSE
      /\ UNCHANGED <<drive, room, before, job, failed>>
  BY DEF UpdaterOver, Running
<1>2. \/ ~marker /\ UNCHANGED <<tree, outcome>>
      \/ /\ marker /\ \A p \in Paths : target[p] # Part
         /\ tree' = Collected(tree, k)
         /\ outcome' = [outcome EXCEPT ![k] = {p \in Paths : target[p] # Absent}]
  BY DEF UpdaterOver, Applied, Settled
<1>3. TypeInv /\ StageInv /\ InTurn /\ UpdaterInv /\ TreeInv /\ PackIsWhole
  BY DEF InstallInv
<1>4. Adding /\ todo # {}
  BY <1>1, <1>3 DEF Adding, StageInv
<1>5. /\ job \in DiscJob /\ job.packs \subseteq Numbers(Packs)
      /\ k \in todo /\ k \in Numbers(Packs) /\ k \in job.packs
      /\ \A i \in todo : k <= i
      /\ \A j \in job.packs \ todo : j < k
      /\ todo \subseteq job.packs /\ todo \subseteq Nat
      /\ outcome[k] = {}
  BY <1>3, <1>4, NextPack DEF StageInv, TypeInv
<1>6. Locked(k) \in Int /\ Own < Locked(k)
  BY <1>5, CopiesInOrder DEF Own
<1> HIDE DEF k
<1>7. CASE ~marker /\ UNCHANGED <<tree, outcome>>
  <2>1. \A p \in Paths : Had(p)' = Had(p)
    <3>1. Added' = Added
      BY <1>1, <1>5 DEF Added, k
    <3> QED
      BY <1>1, <1>7, <3>1 DEF Had
  <2>2. TypeInv'
    BY <1>1, <1>3, <1>5, <1>7 DEF TypeInv, Stages, EmptyTree
  <2>3. StageInv' /\ InTurn'
    <3>1. \A i \in todo \ {k} : k < i
      BY <1>5
    <3> QED
      BY <1>1, <1>3, <1>4, <1>5, <3>1 DEF StageInv, InTurn, Adding
  <2>4. UpdaterInv'
    BY <1>1, <1>3, <1>4, <1>7 DEF UpdaterInv, Adding
  <2>5. TreeInv'
    BY <1>1, <1>3, <1>4, <1>7, <2>1 DEF TreeInv, Adding
  <2>6. PackIsWhole'
    BY <1>1, <1>3, <1>7 DEF PackIsWhole
  <2>7. DisksInv' /\ RightCopyLands'
    BY <1>1 DEF DisksInv, RightCopyLands
  <2> QED
    BY <2>2, <2>3, <2>4, <2>5, <2>6, <2>7 DEF InstallInv
<1>8. CASE /\ marker /\ \A p \in Paths : target[p] # Part
           /\ tree' = Collected(tree, k)
           /\ outcome' = [outcome EXCEPT ![k] = {p \in Paths : target[p] # Absent}]
  <2>1. \A p \in Paths : tree'[p] = IF target[p] = Absent THEN tree[p] ELSE Locked(k)
    BY <1>8 DEF Collected
  <2>2. outcome'[k] = {p \in Paths : target[p] # Absent}
    BY <1>3, <1>5, <1>8 DEF TypeInv
  <2>3. \A j \in Numbers(Packs) : j # k => outcome'[j] = outcome[j]
    BY <1>3, <1>8 DEF TypeInv
  <2>4. tree' \in [Paths -> Int]
    <3>1. \A p \in Paths : tree'[p] \in Int
      BY <1>3, <1>6, <2>1 DEF TypeInv
    <3> QED
      BY <1>8, <3>1 DEF Collected
  <2>5. TypeInv'
    <3>1. outcome' \in [Numbers(Packs) -> SUBSET Paths]
      BY <1>3, <1>8 DEF TypeInv
    <3> QED
      BY <1>1, <1>3, <1>5, <2>4, <3>1 DEF TypeInv, Stages, EmptyTree
  <2>6. StageInv' /\ InTurn'
    <3>1. \A i \in todo \ {k} : k < i
      BY <1>5
    <3> QED
      BY <1>1, <1>3, <1>4, <1>5, <3>1 DEF StageInv, InTurn, Adding
  <2>7. UpdaterInv'
    <3>1. \A j \in Numbers(Packs) : outcome'[j] # {} => j \in job.packs /\ j \notin todo'
      BY <1>1, <1>3, <1>4, <1>5, <2>3 DEF UpdaterInv
    <3> QED
      BY <1>1, <1>5, <3>1 DEF UpdaterInv
  <2>8. TreeInv'
    <3>1. Added' = Added
      BY <1>1, <1>5 DEF Added, k
    <3>2. ASSUME NEW p \in Paths PROVE Newest(Had(p)', tree'[p])
      <4>1. Had(p) \in SUBSET Int /\ \A c \in Had(p) : c < Locked(k)
        BY <1>1, <1>4, OlderCopies DEF k
      <4> DEFINE mine == {j \in job.packs : p \in outcome[j]}
                 mine2 == {j \in job.packs : p \in outcome'[j]}
      <4>2. CASE target[p] = Absent
        <5>1. mine2 = mine
          BY <1>5, <2>2, <2>3, <4>2
        <5>2. Had(p)' = Had(p)
          BY <1>1, <3>1, <5>1 DEF Had
        <5> QED
          BY <1>3, <1>4, <2>1, <4>2, <5>2 DEF TreeInv
      <4>3. CASE target[p] # Absent
        <5>1. mine2 = mine \cup {k}
          BY <1>5, <2>2, <2>3, <4>3
        <5>2. {Locked(j) : j \in mine2} = {Locked(j) : j \in mine} \cup {Locked(k)}
          <6> HIDE DEF mine, mine2
          <6> QED
            BY <5>1
        <5>3. Had(p)' = Had(p) \cup {Locked(k)}
          BY <1>1, <3>1, <5>2 DEF Had
        <5> QED
          BY <1>6, <2>1, <4>1, <4>3, <5>3, NewestAdded
      <4> QED
        BY <4>2, <4>3
    <3> QED
      BY <1>1, <1>3, <1>4, <3>2 DEF TreeInv, Adding
  <2>9. PackIsWhole'
    <3>1. job.kind = "cd"
      BY <1>5 DEF DiscJob
    <3>2. ASSUME NEW j \in Numbers(Packs), NEW p \in Paths, Locked(j) \in {tree'[p], drive'[p]}
          PROVE  p \in outcome'[j]
      <4>1. outcome[j] \subseteq outcome'[j]
        BY <1>5, <2>3
      <4>2. Locked(j) \in {tree[p], drive[p]} => p \in outcome[j]
        BY <1>3, <3>1 DEF PackIsWhole
      <4>3. CASE Locked(j) \in {tree[p], drive[p]}
        BY <4>1, <4>2, <4>3
      <4>4. CASE target[p] # Absent /\ Locked(j) = Locked(k)
        <5>1. j = k
          BY <1>5, <4>4, CopiesInOrder
        <5> QED
          BY <2>2, <4>4, <5>1
      <4> QED
        BY <1>1, <2>1, <3>2, <4>3, <4>4
    <3>3. \A j \in Numbers(Packs) \ failed : outcome'[j] \in {NotApplied, Packs[j].locked}
      <4>1. \A j \in Numbers(Packs) \ failed :
                j # k => outcome'[j] \in {NotApplied, Packs[j].locked}
        BY <1>3, <2>3, <3>1 DEF PackIsWhole
      <4>2. k \notin failed => outcome'[k] = Packs[k].locked
        <5>1. \A p \in Paths : target[p] # Absent => p \in Packs[k].locked
          BY <1>1, <1>3 DEF UpdaterInv, k
        <5>2. k \notin failed => \A p \in Packs[k].locked : target[p] # Absent
          BY <1>1, <1>3, <1>8 DEF UpdaterInv, k
        <5> QED
          BY <1>5, <2>2, <5>1, <5>2, Provided
      <4> QED
        BY <4>1, <4>2
    <3>4. \A p \in Paths : InPart \notin {tree'[p], drive'[p]}
      BY <1>1, <1>3, <1>6, <2>1, <3>1 DEF PackIsWhole, InPart, Own
    <3> QED
      BY <1>1, <3>2, <3>3, <3>4 DEF PackIsWhole
  <2>10. DisksInv' /\ RightCopyLands'
    BY <1>1 DEF DisksInv, RightCopyLands
  <2> QED
    BY <2>5, <2>6, <2>7, <2>8, <2>9, <2>10 DEF InstallInv
<1> QED
  BY <1>2, <1>7, <1>8

-----------------------------------------------------------------------------
(* Writing.                                                                *)

(* A request that fails: what is on the drive was there, is of the tree, or is *)
(* from before the request.                                                    *)
LEMMA FailsInv ==
    ASSUME InstallInv, stage # "idle",
           NEW why \in StopsAt, NEW written \in [Paths -> Int], NEW left,
           Fails(why, job.attached, written, left),
           UNCHANGED <<before, job, outcome, failed>>,
           tree' \in [Paths -> Int], todo' \subseteq Nat, target' = EmptyTree, marker' = FALSE,
           job.kind = "cd" => \A p \in Paths : /\ tree'[p] \in {tree[p], Absent}
                                               /\ written[p] \in {drive[p], tree[p]}
    PROVE  InstallInv'
<1>1. TypeInv /\ UpdaterInv /\ PackIsWhole
  BY DEF InstallInv
<1>2. stage' = why /\ drive' \in {written, before.drive}
  BY DEF Fails
<1>3. TypeInv'
  <2>1. drive' \in [Paths -> Int]
    BY <1>1, <1>2 DEF TypeInv, Drawer, Absent, Own
  <2>2. stage' \in Stages /\ stage' # "idle"
    BY <1>2 DEF Stages, StopsAt
  <2>3. target' \in [Paths -> {Absent, Part, Whole}]
    BY DEF EmptyTree
  <2>4. job # NoJob
    BY <1>1 DEF TypeInv
  <2> QED
    BY <1>1, <2>1, <2>2, <2>3, <2>4 DEF TypeInv
<1>4. UpdaterInv'
  BY <1>1, <1>2 DEF UpdaterInv, Adding, StopsAt
<1>5. PackIsWhole'
  <2> SUFFICES ASSUME job.kind = "cd" PROVE PackIsWhole'
    BY DEF PackIsWhole
  <2>1. ASSUME NEW p \in Paths
        PROVE  {tree'[p], drive'[p]} \subseteq {tree[p], drive[p], Absent, before.drive[p]}
    BY <1>2
  <2>2. \A p \in Paths : /\ Absent # InPart /\ before.drive[p] # InPart
                         /\ \A k \in Numbers(Packs) : /\ Absent # Locked(k)
                                                      /\ before.drive[p] # Locked(k)
    BY <1>1, BeforeIsOwn, CopiesInOrder DEF Absent, Own, InPart
  <2>3. \A k \in Numbers(Packs), p \in Paths :
            Locked(k) \in {tree'[p], drive'[p]} => p \in outcome[k]
    BY <1>1, <2>1, <2>2 DEF PackIsWhole
  <2>4. \A p \in Paths : InPart \notin {tree'[p], drive'[p]}
    BY <1>1, <2>1, <2>2 DEF PackIsWhole
  <2> QED
    BY <1>1, <2>3, <2>4 DEF PackIsWhole
<1> QED
  BY <1>2, <1>3, <1>4, <1>5, StoppedInv

LEMMA CancelInstallInv == InstallInv /\ CancelInstall => InstallInv'
<1> SUFFICES ASSUME InstallInv, CancelInstall PROVE InstallInv'
  OBVIOUS
<1>1. /\ stage # "idle" /\ Fails("cancelled", job.attached, drive, room)
      /\ target' = EmptyTree /\ marker' = FALSE
      /\ UNCHANGED <<before, job, tree, todo, outcome, failed>>
  BY DEF CancelInstall
<1>2. drive \in [Paths -> Int] /\ tree \in [Paths -> Int] /\ todo \subseteq Nat
  BY DEF InstallInv, TypeInv
<1>3. "cancelled" \in StopsAt
  BY DEF StopsAt
<1> QED
  BY <1>1, <1>2, <1>3, FailsInv

LEMMA StartWritingInv == InstallInv /\ StartWriting => InstallInv'
<1> SUFFICES ASSUME InstallInv, StartWriting PROVE InstallInv'
  OBVIOUS
<1>1. /\ stage = "packs" /\ todo = {}
      /\ tree' = LeftAlone(tree)
      /\ \/ stage' = "writing" /\ todo' = Listed(tree') /\ UNCHANGED <<drive, room>>
         \/ Fails("refused", job.attached, drive, room) /\ UNCHANGED todo
      /\ UNCHANGED <<before, job, target, marker, outcome, failed>>
  BY DEF StartWriting
<1>2. TypeInv /\ StageInv /\ UpdaterInv /\ TreeInv /\ PackIsWhole /\ Adding
  BY <1>1 DEF InstallInv, Adding
<1>3. drive = before.drive
  BY <1>2 DEF TreeInv
<1>4. \A p \in Paths :
        tree'[p] = IF p = Edited /\ before.drive[p] # Absent THEN Absent ELSE tree[p]
  BY <1>1, <1>2, <1>3, PathsAssumption DEF LeftAlone, TypeInv
<1>5. tree' \in [Paths -> Int]
  BY <1>1, <1>2, PathsAssumption DEF LeftAlone, TypeInv, Absent
<1>6. target' = EmptyTree /\ marker' = FALSE /\ target = EmptyTree /\ ~marker
  BY <1>1, <1>2 DEF UpdaterInv, TypeInv
<1>7. job \in DiscJob /\ job.kind = "cd" /\ job \notin WHDJob
  BY <1>2 DEF StageInv, DiscJob, WHDJob
<1>8. CASE Fails("refused", job.attached, drive, room) /\ UNCHANGED todo
  <2>1. drive \in [Paths -> Int] /\ todo' \subseteq Nat /\ "refused" \in StopsAt /\ stage # "idle"
    BY <1>1, <1>2, <1>8 DEF TypeInv, StopsAt
  <2>2. \A p \in Paths : tree'[p] \in {tree[p], Absent}
    BY <1>4
  <2> QED
    BY <1>1, <1>5, <1>6, <1>8, <2>1, <2>2, FailsInv
<1>9. CASE stage' = "writing" /\ todo' = Listed(tree') /\ UNCHANGED <<drive, room>>
  <2>1. todo' \subseteq Paths /\ todo' \subseteq Nat
    BY <1>9, PathsAssumption DEF Listed
  <2>2. TypeInv'
    <3>1. job # NoJob
      BY <1>1, <1>2 DEF TypeInv
    <3> QED
      BY <1>1, <1>2, <1>5, <1>9, <2>1, <3>1 DEF TypeInv, Stages
  <2>3. StageInv' /\ InTurn'
    BY <1>1, <1>7, <1>9, <2>1 DEF StageInv, InTurn, Adding
  <2>4. UpdaterInv'
    BY <1>1, <1>2, <1>6, <1>9 DEF UpdaterInv, Adding
  <2>5. TreeInv'
    <3>1. Added' = Added
      BY <1>1, <1>9 DEF Added
    <3>2. \A p \in Paths : Had(p)' = Had(p) /\ Newest(Had(p), tree[p])
      BY <1>1, <1>2, <3>1 DEF Had, TreeInv
    <3>3. \A p \in Paths : p \in todo' \/ tree'[p] = Absent
      BY <1>9 DEF Listed
    <3>4. \A p \in Paths : drive'[p] = before'.drive[p]
      BY <1>1, <1>3, <1>9
    <3>5. \A p \in Paths : IF p = Edited /\ before'.drive[p] # Absent THEN tree'[p] = Absent
                           ELSE Newest(Had(p)', tree'[p])
      BY <1>1, <1>4, <3>2
    <3> QED
      BY <1>1, <1>7, <1>9, <3>3, <3>4, <3>5 DEF TreeInv, Adding
  <2>6. PackIsWhole'
    <3>1. InPart # Absent /\ \A k \in Numbers(Packs) : Locked(k) # Absent
      BY CopiesInOrder DEF Absent, Own, InPart
    <3>2. \A p \in Paths : tree'[p] \in {tree[p], Absent} /\ drive'[p] = drive[p]
      BY <1>4, <1>9
    <3>3. \A k \in Numbers(Packs), p \in Paths :
            Locked(k) \in {tree'[p], drive'[p]} => p \in outcome[k]
      BY <1>2, <1>7, <3>1, <3>2 DEF PackIsWhole
    <3>4. \A p \in Paths : InPart \notin {tree'[p], drive'[p]}
      BY <1>2, <1>7, <3>1, <3>2 DEF PackIsWhole
    <3> QED
      BY <1>1, <1>2, <1>7, <3>3, <3>4 DEF PackIsWhole
  <2>7. DisksInv' /\ RightCopyLands'
    BY <1>9 DEF DisksInv, RightCopyLands
  <2> QED
    BY <2>2, <2>3, <2>4, <2>5, <2>6, <2>7 DEF InstallInv
<1> QED
  BY <1>1, <1>8, <1>9

(* put_host_tree() writes all of the files, or the request fails. *)
LEMMA PutIs ==
    ASSUME TypeInv, NEW files \in SUBSET Paths, NEW copies \in [Paths -> Int],
           Put(files, copies)
    PROVE  \/ /\ UNCHANGED stage
              /\ drive' = [p \in Paths |-> IF p \in files THEN copies[p] ELSE drive[p]]
              /\ \A p \in files : drive[p] # Drawer
           \/ \E why \in StopsAt, written \in [Paths -> Int] :
                /\ \E left : Fails(why, job.attached, written, left)
                /\ \A p \in Paths : \/ written[p] = drive[p]
                                    \/ p \in files /\ written[p] = copies[p]
<1> DEFINE done == Fitting(files)
           written == [p \in Paths |-> IF p \in done THEN copies[p] ELSE drive[p]]
           left == room - Cardinality({p \in done : drive[p] = Absent})
<1>1. \/ Fails("clash", job.attached, drive, room)
      \/ Fails("full", job.attached, written, left)
      \/ /\ ~(\E p \in files : drive[p] = Drawer) /\ done = files
         /\ drive' = written /\ UNCHANGED stage
  BY DEF Put
<1>2. done \subseteq files
  BY DEF Fitting
<1>3. drive \in [Paths -> Int]
  BY DEF TypeInv
<1> HIDE DEF done, left
<1>4. CASE Fails("clash", job.attached, drive, room)
  <2>1. "clash" \in StopsAt
    BY DEF StopsAt
  <2> QED
    BY <1>3, <1>4, <2>1
<1>5. CASE Fails("full", job.attached, written, left)
  <2>1. "full" \in StopsAt /\ written \in [Paths -> Int]
    BY <1>3 DEF StopsAt
  <2>2. \A p \in Paths : \/ written[p] = drive[p]
                         \/ p \in files /\ written[p] = copies[p]
    BY <1>2
  <2> HIDE DEF written
  <2> QED
    BY <1>5, <2>1, <2>2
<1>6. CASE /\ ~(\E p \in files : drive[p] = Drawer) /\ done = files
           /\ drive' = written /\ UNCHANGED stage
  BY <1>6
<1> QED
  BY <1>1, <1>4, <1>5, <1>6

LEMMA WriteBatchInv == InstallInv /\ WriteBatch => InstallInv'
<1> SUFFICES ASSUME InstallInv, WriteBatch PROVE InstallInv'
  OBVIOUS
<1> DEFINE batch == Batch(todo, IF job.kind = "cd" THEN BatchFiles ELSE 1)
           files == Readable(batch, tree)
<1>1. /\ stage = "writing" /\ todo # {}
      /\ Put(files, tree)
      /\ todo' = todo \ batch
      /\ UNCHANGED <<before, job, tree, target, marker, outcome, failed>>
  BY DEF WriteBatch
<1>2. TypeInv /\ StageInv /\ UpdaterInv /\ TreeInv /\ PackIsWhole
  BY DEF InstallInv
<1>3. /\ tree \in [Paths -> Int] /\ drive \in [Paths -> Int]
      /\ todo \subseteq Paths /\ todo \subseteq Nat /\ target = EmptyTree /\ marker = FALSE
  BY <1>1, <1>2 DEF TypeInv, StageInv, UpdaterInv, Listed
<1>4. batch \subseteq todo /\ files = {p \in batch : ~Bad(p, tree[p])}
  BY DEF Batch, Readable
<1> HIDE DEF batch, files
<1>5. files \in SUBSET Paths
  BY <1>3, <1>4
<1>6. CASE \E why \in StopsAt, written \in [Paths -> Int] :
                /\ \E left : Fails(why, job.attached, written, left)
                /\ \A p \in Paths : \/ written[p] = drive[p]
                                    \/ p \in files /\ written[p] = tree[p]
  <2>1. PICK why \in StopsAt, written \in [Paths -> Int] :
                /\ \E left : Fails(why, job.attached, written, left)
                /\ \A p \in Paths : \/ written[p] = drive[p]
                                    \/ p \in files /\ written[p] = tree[p]
    BY <1>6
  <2>2. PICK left : Fails(why, job.attached, written, left)
    BY <2>1
  <2>3. /\ stage # "idle" /\ todo' \subseteq Nat /\ tree' \in [Paths -> Int]
        /\ target' = EmptyTree /\ marker' = FALSE
    BY <1>1, <1>3
  <2>4. \A p \in Paths : tree'[p] \in {tree[p], Absent} /\ written[p] \in {drive[p], tree[p]}
    BY <1>1, <2>1
  <2> QED
    BY <1>1, <2>2, <2>3, <2>4, FailsInv
<1>7. CASE /\ UNCHANGED stage
           /\ drive' = [p \in Paths |-> IF p \in files THEN tree[p] ELSE drive[p]]
  <2>1. \A p \in Paths : drive'[p] = IF p \in files THEN tree[p] ELSE drive[p]
    BY <1>7
  <2>2. TypeInv'
    <3>1. drive' \in [Paths -> Int]
      BY <1>3, <1>7
    <3> QED
      BY <1>1, <1>2, <1>3, <1>7, <3>1 DEF TypeInv
  <2>3. StageInv' /\ InTurn'
    BY <1>1, <1>2, <1>7 DEF StageInv, InTurn, Adding
  <2>4. UpdaterInv'
    BY <1>1, <1>2, <1>7 DEF UpdaterInv, Adding
  <2>5. TreeInv'
    <3>1. ASSUME NEW p \in Paths
          PROVE  drive'[p] = IF p \in todo' \/ tree[p] = Absent \/ Bad(p, tree[p])
                             THEN before.drive[p] ELSE tree[p]
      <4>1. drive[p] = IF p \in todo \/ tree[p] = Absent \/ Bad(p, tree[p])
                       THEN before.drive[p] ELSE tree[p]
        BY <1>1, <1>2 DEF TreeInv
      <4>2. tree[p] = Absent => p \notin todo
        BY <1>1, <1>2 DEF StageInv, Listed
      <4> QED
        BY <1>1, <1>4, <2>1, <4>1, <4>2
    <3>2. \A p \in Paths : Had(p)' = Had(p)
      BY <1>1, <1>7 DEF Had, Added
    <3>3. \A p \in Paths : Bad(p, tree[p])' = Bad(p, tree[p])
      BY <1>1 DEF Bad
    <3> QED
      BY <1>1, <1>2, <1>7, <3>1, <3>2, <3>3 DEF TreeInv, Adding
  <2>6. PackIsWhole'
    <3>1. \A p \in Paths : {tree'[p], drive'[p]} \subseteq {tree[p], drive[p]}
      BY <1>1, <2>1
    <3> QED
      BY <1>1, <1>2, <3>1 DEF PackIsWhole
  <2>7. DisksInv' /\ RightCopyLands'
    BY <1>1, <1>7 DEF DisksInv, RightCopyLands
  <2> QED
    BY <2>2, <2>3, <2>4, <2>5, <2>6, <2>7 DEF InstallInv
<1> QED
  BY <1>1, <1>2, <1>3, <1>5, <1>6, <1>7, PutIs

LEMMA CopyDiskInv == InstallInv /\ CopyDisk => InstallInv'
<1> SUFFICES ASSUME InstallInv, CopyDisk PROVE InstallInv'
  OBVIOUS
<1> DEFINE r == First(todo)
           roles == {d.role : d \in job.disks}
           copies == Add(EmptyTree, {p \in Disks[r] : ~Stays(p)}, Disk(r))
           files == Readable(Listed(copies), copies)
<1>1. /\ stage = "copying" /\ todo # {}
      /\ Put(files, copies)
      /\ todo' = todo \ {r}
      /\ UNCHANGED <<before, job, tree, target, marker, outcome, failed>>
  BY DEF CopyDisk
<1>2. TypeInv /\ StageInv /\ InTurn /\ UpdaterInv /\ DisksInv
  BY DEF InstallInv
<1>3. /\ job \in DisksJob /\ job.kind = "workbench" /\ job \notin DiscJob
      /\ todo \subseteq roles /\ roles \subseteq Numbers(Disks) /\ todo \subseteq Nat
  BY <1>1, <1>2 DEF StageInv, TypeInv, DisksJob, DiscJob
<1>4. r \in todo /\ r \in Numbers(Disks) /\ r \in roles /\ \A k \in todo : r <= k
  BY <1>1, <1>3, FirstIsLeast
<1>5. Disk(r) \in Int /\ Own < Disk(r)
  BY <1>4, CopiesInOrder
<1>6. Disks[r] \in SUBSET Paths
  BY <1>4, Provided
<1>7. \A p \in Paths :
        copies[p] = IF p \in Disks[r] /\ ~Stays(p) THEN Disk(r) ELSE Absent
  BY DEF Add, EmptyTree
<1>8. copies \in [Paths -> Int]
  BY <1>5 DEF Add, EmptyTree, Absent
<1> HIDE DEF r, roles, copies
<1>9. files \in SUBSET Paths
  BY DEF Readable, Listed
<1>10. \A p \in Paths : p \in files <=> p \in Disks[r] /\ ~Stays(p) /\ ~Bad(p, Disk(r))
  BY <1>5, <1>7 DEF Readable, Listed, Absent, Own
<1> HIDE DEF files
<1>11. drive \in [Paths -> Int] /\ tree \in [Paths -> Int] /\ target = EmptyTree /\ marker = FALSE
  BY <1>1, <1>2 DEF TypeInv, UpdaterInv
<1>12. CASE \E why \in StopsAt, written \in [Paths -> Int] :
                /\ \E left : Fails(why, job.attached, written, left)
                /\ \A p \in Paths : \/ written[p] = drive[p]
                                    \/ p \in files /\ written[p] = copies[p]
  <2>1. PICK why \in StopsAt, written \in [Paths -> Int] :
                \E left : Fails(why, job.attached, written, left)
    BY <1>12
  <2>2. PICK left : Fails(why, job.attached, written, left)
    BY <2>1
  <2>3. /\ stage # "idle" /\ todo' \subseteq Nat /\ tree' \in [Paths -> Int]
        /\ target' = EmptyTree /\ marker' = FALSE
    BY <1>1, <1>3, <1>11
  <2> QED
    BY <1>1, <1>3, <2>2, <2>3, FailsInv
<1>13. CASE /\ UNCHANGED stage
            /\ drive' = [p \in Paths |-> IF p \in files THEN copies[p] ELSE drive[p]]
            /\ \A p \in files : drive[p] # Drawer
  <2>1. \A p \in Paths : drive'[p] = IF p \in files THEN Disk(r) ELSE drive[p]
    BY <1>7, <1>10, <1>13
  <2>2. TypeInv'
    <3>1. drive' \in [Paths -> Int]
      BY <1>8, <1>11, <1>13
    <3> QED
      BY <1>1, <1>2, <1>3, <1>13, <3>1 DEF TypeInv
  <2>3. \A j \in roles \ todo : j < r
    BY <1>1, <1>2, <1>4 DEF InTurn, roles
  <2>4. StageInv' /\ InTurn'
    <3>1. \A k \in todo \ {r} : r < k
      BY <1>3, <1>4
    <3>2. \A j \in roles \ todo', k \in todo' : j < k
      BY <1>1, <1>2, <1>3, <2>3, <3>1 DEF InTurn, roles
    <3>3. roles' = roles
      BY <1>1 DEF roles
    <3> QED
      BY <1>1, <1>3, <1>13, <3>2, <3>3 DEF StageInv, InTurn, Adding, roles
  <2>5. UpdaterInv'
    BY <1>1, <1>2, <1>13 DEF UpdaterInv, Adding
  <2>6. DisksInv'
    <3>1. ASSUME NEW p \in Paths
          PROVE  \/ before.drive[p] = Own /\ drive'[p] = Own
                 \/ before.drive[p] # Own /\ Copied(p)' = {} /\ drive'[p] = before.drive[p]
                 \/ /\ before.drive[p] = Absent
                    /\ drive'[p] \in Copied(p)' /\ \A c \in Copied(p)' : drive'[p] <= c
      <4> DEFINE soFar == {j \in roles \ todo : p \in Disks[j] /\ ~Bad(p, Disk(j))}
                 next == {j \in roles \ todo' : p \in Disks[j] /\ ~Bad(p, Disk(j))}
      <4>1. Copied(p) = {Disk(j) : j \in soFar} /\ Copied(p)' = {Disk(j) : j \in next}
        BY <1>1 DEF Copied, roles, Bad
      <4>2. \/ before.drive[p] = Own /\ drive[p] = Own
            \/ before.drive[p] # Own /\ Copied(p) = {} /\ drive[p] = before.drive[p]
            \/ /\ before.drive[p] = Absent
               /\ drive[p] \in Copied(p) /\ \A c \in Copied(p) : drive[p] <= c
        BY <1>1, <1>2 DEF DisksInv
      <4>3. \A j \in soFar : Disk(j) \in Int /\ Own < Disk(j) /\ Disk(j) < Disk(r)
        BY <1>3, <1>4, <2>3, CopiesInOrder DEF Disk, Own, Numbers
      <4>4. before.drive[p] \in {Drawer, Absent, Own}
        BY <1>2, BeforeIsOwn
      <4>5. next = IF p \in Disks[r] /\ ~Bad(p, Disk(r)) THEN soFar \cup {r} ELSE soFar
        BY <1>1, <1>4
      <4>6. Stays(p) <=> drive[p] \notin {Absent, Drawer}
        BY DEF Stays
      <4> HIDE DEF soFar, next
      <4>7. CASE ~(p \in Disks[r] /\ ~Bad(p, Disk(r)))
        BY <1>10, <2>1, <4>1, <4>2, <4>5, <4>7
      <4>8. CASE p \in files
        <5>1. drive[p] = Absent
          BY <1>10, <1>13, <4>6, <4>8
        <5>2. soFar = {} /\ before.drive[p] = Absent
          BY <4>1, <4>2, <4>3, <5>1 DEF Absent, Own
        <5>3. Copied(p)' = {Disk(r)} /\ drive'[p] = Disk(r)
          BY <1>10, <2>1, <4>1, <4>5, <4>8, <5>2
        <5> QED
          BY <1>5, <5>2, <5>3
      <4>9. CASE p \notin files /\ p \in Disks[r] /\ ~Bad(p, Disk(r))
        <5>1. drive[p] \notin {Absent, Drawer} /\ drive'[p] = drive[p]
          BY <1>10, <2>1, <4>6, <4>9
        <5>2. Copied(p)' = Copied(p) \cup {Disk(r)}
          BY <4>1, <4>5, <4>9
        <5>3. \A c \in Copied(p) : c \in Int /\ c < Disk(r)
          BY <4>1, <4>3
        <5> QED
          BY <1>5, <4>2, <4>4, <5>1, <5>2, <5>3
      <4> QED
        BY <4>7, <4>8, <4>9
    <3> QED
      BY <1>1, <3>1 DEF DisksInv
  <2>7. PackIsWhole'
    BY <1>1, <1>3 DEF PackIsWhole
  <2>8. TreeInv' /\ RightCopyLands'
    BY <1>1, <1>13 DEF TreeInv, RightCopyLands, Adding
  <2> QED
    BY <2>2, <2>4, <2>5, <2>6, <2>7, <2>8 DEF InstallInv
<1> QED
  BY <1>1, <1>2, <1>8, <1>9, <1>12, <1>13, PutIs

(* When nothing is left to be written each file is what it should be. *)
LEMMA WrittenIsExpected ==
    ASSUME InstallInv, stage \in {"writing", "copying"}, todo = {}, NEW p \in Paths
    PROVE  drive[p] = Expected(p)
<1>1. TypeInv /\ StageInv /\ TreeInv /\ DisksInv
  BY DEF InstallInv
<1>2. /\ stage = "writing" => job \in DiscJob \cup WHDJob
      /\ stage = "copying" => job \in DisksJob
  BY <1>1 DEF StageInv
<1>3. CASE stage = "writing" /\ job \in DiscJob
  <2>1. job.kind = "cd" /\ job.packs \subseteq Numbers(Packs)
        /\ job.present \subseteq Numbers(Layers)
    BY <1>3 DEF DiscJob
  <2>2. Copies(p) = Had(p)
    BY <1>3, <2>1 DEF Copies, Had, Added
  <2>3. \A c \in Had(p) : c \in Int /\ Own < c
    <3>1. \A k \in Numbers(Packs) : /\ Plain(k) \in Int /\ Own < Plain(k)
                                    /\ Locked(k) \in Int /\ Own < Locked(k)
      BY CopiesInOrder DEF Own
    <3>2. Added \subseteq Numbers(Packs)
      BY <1>3, <2>1 DEF Added
    <3> QED
      BY <2>1, <3>1, <3>2, CopiesInOrder DEF Had
  <2>4. drive[p] = IF tree[p] = Absent \/ Bad(p, tree[p]) THEN before.drive[p] ELSE tree[p]
    BY <1>1, <1>3 DEF TreeInv
  <2>5. IF p = Edited /\ before.drive[p] # Absent THEN tree[p] = Absent
        ELSE Newest(Had(p), tree[p])
    BY <1>1, <1>3 DEF TreeInv
  <2>6. Expected(p) = IF Had(p) = {} \/ (p = Edited /\ before.drive[p] # Absent)
                         \/ Bad(p, Max(Had(p)))
                      THEN before.drive[p] ELSE Max(Had(p))
    BY <2>1, <2>2 DEF Expected
  <2>7. CASE p = Edited /\ before.drive[p] # Absent
    BY <2>4, <2>5, <2>6, <2>7
  <2>8. CASE ~(p = Edited /\ before.drive[p] # Absent) /\ Had(p) = {}
    BY <2>4, <2>5, <2>6, <2>8 DEF Newest
  <2>9. CASE ~(p = Edited /\ before.drive[p] # Absent) /\ Had(p) # {}
    <3>1. tree[p] \in Had(p) /\ \A c \in Had(p) : c <= tree[p]
      BY <2>5, <2>9 DEF Newest
    <3>2. Max(Had(p)) = tree[p]
      <4>1. Had(p) \in SUBSET Int
        BY <2>3
      <4> QED
        BY <3>1, <4>1, MaxIs
    <3>3. tree[p] # Absent
      BY <2>3, <3>1 DEF Own, Absent
    <3> QED
      BY <2>4, <2>6, <2>9, <3>2, <3>3
  <2> QED
    BY <2>7, <2>8, <2>9
<1>4. CASE stage = "writing" /\ job \in WHDJob
  <2>1. job.kind = "whdload" /\ job.bad = <<0, 0>>
    BY <1>4 DEF WHDJob
  <2>2. \A c : ~Bad(p, c)
    <3>1. p # 0
      BY PathsAssumption
    <3> QED
      BY <2>1, <3>1 DEF Bad
  <2>3. tree[p] = IF p \in Program \/ (p = Edited /\ ~job.keeps) THEN Release ELSE Absent
    BY <1>1, <1>4 DEF TreeInv
  <2>4. drive[p] = IF tree[p] = Absent THEN before.drive[p] ELSE tree[p]
    BY <1>1, <1>4, <2>2 DEF TreeInv
  <2>5. Release # Absent /\ Max({Release}) = Release
    <3>1. Release \in Int
      BY DEF Release, Own
    <3> QED
      BY <3>1, MaxIs DEF Release, Own, Absent
  <2>6. Copies(p) = IF p \in Program \cup {Edited} THEN {Release} ELSE {}
    BY <2>1 DEF Copies
  <2>7. Expected(p) = IF Copies(p) = {} \/ (p = Edited /\ job.keeps) THEN before.drive[p]
                      ELSE Max(Copies(p))
    BY <2>1, <2>2 DEF Expected
  <2> QED
    BY <2>3, <2>4, <2>5, <2>6, <2>7, PathsAssumption
<1>5. CASE stage = "copying" /\ job \in DisksJob
  <2>1. job.kind = "workbench" /\ {d.role : d \in job.disks} \subseteq Numbers(Disks)
    BY <1>5 DEF DisksJob
  <2>2. Copies(p) = {Disk(r) : r \in {r \in {d.role : d \in job.disks} : p \in Disks[r]}}
    BY <2>1 DEF Copies
  <2>3. {c \in Copies(p) : ~Bad(p, c)} = Copied(p)
    BY <2>2 DEF Copied
  <2>4. Expected(p) = IF Copied(p) = {} \/ before.drive[p] = Own THEN before.drive[p]
                      ELSE Min(Copied(p))
    BY <2>1, <2>3 DEF Expected
  <2>5. \/ before.drive[p] = Own /\ drive[p] = Own
        \/ before.drive[p] # Own /\ Copied(p) = {} /\ drive[p] = before.drive[p]
        \/ /\ before.drive[p] = Absent
           /\ drive[p] \in Copied(p) /\ \A c \in Copied(p) : drive[p] <= c
    BY <1>1, <1>5 DEF DisksInv
  <2>6. CASE /\ before.drive[p] = Absent
             /\ drive[p] \in Copied(p) /\ \A c \in Copied(p) : drive[p] <= c
    <3>1. Copied(p) \in SUBSET Int
      BY <2>1, CopiesInOrder DEF Copied
    <3>2. Min(Copied(p)) = drive[p]
      BY <2>6, <3>1, MinIs
    <3> QED
      BY <2>4, <2>6, <3>2 DEF Absent, Own
  <2> QED
    BY <2>4, <2>5, <2>6
<1> QED
  BY <1>2, <1>3, <1>4, <1>5

LEMMA FinishInstallInv == InstallInv /\ FinishInstall => InstallInv'
<1> SUFFICES ASSUME InstallInv, FinishInstall PROVE InstallInv'
  OBVIOUS
<1>1. /\ stage \in {"writing", "copying"} /\ todo = {} /\ stage' = "done"
      /\ \/ drive' = [drive EXCEPT ![NewDrawer] = Drawer]
         \/ drive' = drive
      /\ UNCHANGED <<before, job, tree, todo, target, marker, outcome, failed>>
  BY DEF FinishInstall
<1>2. TypeInv /\ StageInv /\ UpdaterInv /\ PackIsWhole
  BY DEF InstallInv
<1>3. \A p \in Paths : drive'[p] = drive[p] \/ (p = NewDrawer /\ drive'[p] = Drawer)
  <2>1. drive \in [Paths -> Int]
    BY <1>2 DEF TypeInv
  <2>2. CASE drive' = [drive EXCEPT ![NewDrawer] = Drawer]
    BY <2>1, <2>2
  <2> QED
    BY <1>1, <2>1, <2>2
<1>4. TypeInv'
  <2>1. drive' \in [Paths -> Int]
    BY <1>1, <1>2, PathsAssumption DEF TypeInv, Drawer
  <2>2. job # NoJob
    BY <1>1, <1>2 DEF TypeInv
  <2> QED
    BY <1>1, <1>2, <2>1, <2>2 DEF TypeInv, Stages
<1>5. StageInv' /\ InTurn' /\ TreeInv' /\ DisksInv'
  BY <1>1 DEF StageInv, InTurn, TreeInv, DisksInv, Adding
<1>6. UpdaterInv'
  BY <1>1, <1>2 DEF UpdaterInv, Adding
<1>7. PackIsWhole'
  <2>1. Drawer # InPart /\ \A k \in Numbers(Packs) : Drawer # Locked(k)
    BY CopiesInOrder DEF Drawer, InPart, Own
  <2> QED
    BY <1>1, <1>2, <1>3, <2>1 DEF PackIsWhole
<1>8. RightCopyLands'
  <2>1. ASSUME NEW p \in Paths \ {NewDrawer} PROVE drive'[p] = Expected(p)'
    <3>1. drive[p] = Expected(p)
      BY <1>1, WrittenIsExpected
    <3>2. Expected(p)' = Expected(p)
      BY <1>1 DEF Expected, Copies, Bad
    <3> QED
      BY <1>3, <3>1, <3>2
  <2> QED
    BY <2>1 DEF RightCopyLands
<1> QED
  BY <1>4, <1>5, <1>6, <1>7, <1>8 DEF InstallInv

-----------------------------------------------------------------------------
(* The theorems.                                                           *)

(* A step that changes nothing keeps the invariant. *)
LEMMA StutterInv == InstallInv /\ UNCHANGED installVars => InstallInv'
<1> SUFFICES ASSUME InstallInv, UNCHANGED installVars PROVE InstallInv'
  OBVIOUS
<1> USE DEF installVars
<1>1. TypeInv' /\ StageInv' /\ InTurn' /\ UpdaterInv'
  BY DEF InstallInv, TypeInv, StageInv, InTurn, UpdaterInv, Adding
<1>2. TreeInv'
  BY DEF InstallInv, TreeInv, Had, Added, Adding, Bad
<1>3. DisksInv' /\ PackIsWhole'
  BY DEF InstallInv, DisksInv, PackIsWhole, Copied, Bad
<1>4. RightCopyLands'
  BY ZenonT(40) DEF InstallInv, RightCopyLands, Expected, Copies, Bad
<1> QED
  BY <1>1, <1>2, <1>3, <1>4 DEF InstallInv

(* What an installer under way has chosen, added and written so far. *)
THEOREM InstallInvariant == InstallSpec => []InstallInv
<1>1. InstallInv /\ [InstallNext]_installVars => InstallInv'
  BY AskDiscInv, AskDisksInv, AskWHDLoadInv, AddPackInv, UpdaterWritesInv, FlushesInv, MarksInv,
     UpdaterOverInv, StartWritingInv, WriteBatchInv, CopyDiskInv, FinishInstallInv,
     CancelInstallInv, StutterInv DEF InstallNext
<1> QED
  BY InstallInitInv, <1>1, PTL DEF InstallSpec

(* After an installation every file is the copy it should be: the newest of   *)
(* a CD and its packs, the first of a set of disks, and what was there where  *)
(* that is to be kept (plan_release(), apply_locked_pack(),                   *)
(* copy_volume_tree(), install_whdload()).                                    *)
THEOREM RightCopiesLand == InstallSpec => []RightCopyLands
<1>1. InstallInv => RightCopyLands
  BY DEF InstallInv
<1> QED
  BY InstallInvariant, <1>1, PTL

(* A pack is installed whole or not at all, unless its Updater gave up and    *)
(* nobody was told (run_updater()).                                           *)
THEOREM PacksAreWhole == InstallSpec => []PackIsWhole
<1>1. InstallInv => PackIsWhole
  BY DEF InstallInv
<1> QED
  BY InstallInvariant, <1>1, PTL

-----------------------------------------------------------------------------
(* What an image is taken for is what its bytes are, and an export can be  *)
(* opened again.  OpeningInv carries both from one step to the next.       *)

USE OfferedAssumption, VersionAssumption

(* Every name and every content is one of those that are listed.              *)
LEMMA Families ==
    ASSUME NEW h \in Contents
    PROVE  /\ Family(h) \in Contents \cup {"hdf", "rom"}
           /\ Family(h) \notin {"refused", "rom"}
           /\ Family(h) = "hdf" <=> h = "rdb"
           /\ Family(h) = "ffs" <=> h \in {"ffs", "sfs", "pfs3"}
           /\ Family(h) = "ofs" <=> h = "ofs"
BY DEF Family, Contents, Filesystems, Volumes, AmigaDOS

(* What the probes name is the volume in the sectors.                         *)
LEMMA Identified ==
    ASSUME NEW h \in Contents, NEW kind
    PROVE  /\ identify_kind(h, kind) \in {"refused", Family(h)}
           /\ identify_kind("junk", kind) = "refused"
<1>1. Probes(kind) \subseteq Filesystems
  BY DEF Probes, Filesystems, Volumes, AmigaDOS
<1>2. "junk" \notin Filesystems
  BY DEF Filesystems, Volumes, AmigaDOS
<1>3. h = "iso" => Family(h) = "iso"
  BY DEF Family
<1> QED
  BY <1>1, <1>2, <1>3 DEF identify_kind

(* The kind of a decoded image is that of its sectors.                        *)
LEMMA SuggestedKind ==
    ASSUME NEW file \in File, NEW forced \in BOOLEAN, Suggested(file, forced) = "kickfs"
    PROVE  Family(file.holds) = "kickfs"
<1>1. file.ext \in Extensions /\ file.holds \in Contents
  BY DEF File
<1>2. detect_kind(file.ext) # "kickfs"
  BY <1>1 DEF detect_kind, Extensions
<1>3. Decoded(file) = "kickfs" => Family(file.holds) = "kickfs"
  BY <1>1, Identified DEF Decoded
<1> QED
  BY <1>2, <1>3 DEF Suggested

(* A file is refused, taken for a ROM, or taken for what it holds.            *)
LEMMA KindOfAFile ==
    ASSUME NEW file \in File, NEW forced \in BOOLEAN
    PROVE  Kind(file, forced) \in {"rom", "refused", Family(file.holds)}
<1> DEFINE kind == Suggested(file, forced)
           sectors == IF file.outer # "sectors" /\ detect_kind(file.ext) # file.outer
                      THEN "junk" ELSE file.holds
<1>1. file.holds \in Contents
  BY DEF File
<1>2. identify_kind(sectors, kind) \in {"refused", Family(file.holds)}
  BY <1>1, Identified
<1>3. /\ sectors = "kickfs" => Family(file.holds) = "kickfs"
      /\ sectors = "dms" => Family(file.holds) = "dms"
  BY DEF Family, Volumes, AmigaDOS
<1>4. kind = "kickfs" => Family(file.holds) = "kickfs"
  BY SuggestedKind
<1>5. Kind(file, forced) =
        CASE kind = "rom" -> IF sectors = "kickfs" THEN "kickfs" ELSE "rom"
          [] kind = "dms" -> IF sectors = "dms" THEN "dms" ELSE "refused"
          [] kind \in {"refused", "kickfs"} -> kind
          [] OTHER -> identify_kind(sectors, kind)
  BY DEF Kind
<1> HIDE DEF kind, sectors
<1> QED
  BY <1>2, <1>3, <1>4, <1>5

-----------------------------------------------------------------------------
(* Opening.                                                                  *)

(* The bytes a session works on hold what the file did.                       *)
LEMMA ExpandedFile ==
    ASSUME NEW source \in File
    PROVE  /\ Expanded(Unpacked(source)) \in File
           /\ Expanded(Unpacked(source)).holds = source.holds
           /\ Expanded(Unpacked(source)).ext = source.ext
           /\ Expanded(Unpacked(source)).outer = source.outer
           /\ Expanded(Unpacked(source)).geo = source.geo
           /\ Expanded(Unpacked(source)).sound = source.sound
           /\ source.pack \in {"plain", "zip", "gzip"} =>
                Expanded(Unpacked(source)).pack = "plain"
BY ZenonT(40) DEF Expanded, Unpacked, File

(* The session made of a file that is not refused is an image of its kind.    *)
LEMMA MadeWell ==
    ASSUME NEW file \in File, NEW forced \in BOOLEAN, Kind(file, forced) # "refused"
    PROVE  /\ Made(file, forced) \in Image
           /\ Made(file, forced).holds = file.holds
           /\ Made(file, forced).kind = Kind(file, forced)
           /\ Made(file, forced).kind \in {"rom", Family(file.holds)}
           /\ ~ Made(file, forced).harmed
<1> DEFINE kind == Kind(file, forced)
<1>1. file.holds \in Contents
  BY DEF File
<1>2. kind \in {"rom", Family(file.holds)}
  BY KindOfAFile
<1>3. kind \in Contents \cup {"hdf", "rom"}
  <2>1. Family(file.holds) \in Contents \cup {"hdf", "rom"}
    BY <1>1, Families
  <2> QED
    BY <1>2, <2>1
<1>4. WorkingSuffix(file) \in Extensions
  BY DEF WorkingSuffix, Suffix, File, Extensions
<1>5. ReadOnly(file) \in BOOLEAN
  BY DEF ReadOnly, Proven
<1>6. Made(file, forced) =
        [kind |-> kind, suffix |-> WorkingSuffix(file),
         outer |-> file.outer, holds |-> file.holds, part |-> file.part,
         size |-> file.size, geo |-> file.geo, tail |-> file.tail,
         sound |-> file.sound, tracks |-> file.tracks, version |-> file.version,
         readOnly |-> ReadOnly(file), dirty |-> FALSE, harmed |-> FALSE, file |-> file]
  BY DEF Made
<1>7. /\ file.outer \in Outers /\ file.part \in Volumes \cup {"junk", "none"}
      /\ file.size \in FileSizes /\ file.geo \in {"none", "same", "smaller", "larger"}
      /\ file.tail \in {"zero", "data"} /\ file.sound \in BOOLEAN
      /\ file.tracks \in {"exact", "lossy", "advanced"} /\ file.version \in 0 .. MaxVersion
  BY DEF File
<1> HIDE DEF kind
<1>8. Made(file, forced) \in Image
  BY <1>1, <1>3, <1>4, <1>5, <1>6, <1>7 DEF Image
<1> QED
  BY <1>8, <1>2, <1>6 DEF kind

(* Cutting off an empty tail, and repairing a tree of the blocks of AmigaDOS, *)
(* leave the image what it is and cost it nothing.                            *)
LEMMA ChangedWell ==
    ASSUME NEW s \in Image, ~ s.harmed, NEW asked
    PROVE  LET t == ForTarget(Normalised(s), asked)
           IN  /\ t \in Image /\ ~ t.harmed
               /\ t.holds = s.holds /\ t.kind = s.kind /\ t.file = s.file
<1>1. /\ Normalised(s) \in Image /\ ~ Normalised(s).harmed
      /\ Normalised(s).holds = s.holds /\ Normalised(s).kind = s.kind
      /\ Normalised(s).file = s.file
  BY ZenonT(40) DEF Normalised, Image
<1>2. ASSUME NEW n \in Image, ~ n.harmed
      PROVE  /\ Repaired(n) \in Image /\ ~ Repaired(n).harmed
             /\ Repaired(n).holds = n.holds /\ Repaired(n).kind = n.kind
             /\ Repaired(n).file = n.file
  <2>1. CASE KeepsBlocks(n) /\ (~ n.sound \/ n.holds \notin AmigaDOS)
    <3>1. n.holds \in AmigaDOS
      BY <2>1 DEF KeepsBlocks
    <3>2. Repaired(n) = [n EXCEPT !.sound = TRUE, !.dirty = TRUE, !.harmed = FALSE]
      BY <2>1, <3>1 DEF Repaired
    <3> QED
      BY <3>2, <1>2 DEF Image
  <2>2. CASE ~(KeepsBlocks(n) /\ (~ n.sound \/ n.holds \notin AmigaDOS))
    BY <1>2, <2>2 DEF Repaired
  <2> QED
    BY <2>1, <2>2
<1> QED
  BY <1>1, <1>2 DEF ForTarget

(* What opening makes of a file.                                              *)
LEMMA OpenedWell ==
    ASSUME NEW source \in File, NEW asked \in Targets, NEW forced \in BOOLEAN,
           NEW s \in Opened(source, asked, forced)
    PROVE  /\ s \in Image /\ s.file = source /\ s.holds = source.holds
           /\ s.kind \in {"rom", Family(source.holds)} /\ ~ s.harmed
<1> DEFINE file == Expanded(Unpacked(source))
           made == Made(file, forced)
           cut == [Normalised(made) EXCEPT !.file = source]
<1>1. file \in File /\ file.holds = source.holds
  BY ExpandedFile
<1>2. cut.kind # "refused" /\ s = ForTarget(cut, asked)
  BY DEF Opened
<1>3. Normalised(made).kind = made.kind
  BY DEF Normalised, Made
<1>4. cut.kind = made.kind
  BY <1>3 DEF Normalised, Made
<1>5. Kind(file, forced) # "refused"
  BY <1>2, <1>4 DEF Made
<1>6. /\ made \in Image /\ made.holds = source.holds /\ ~ made.harmed
      /\ made.kind \in {"rom", Family(source.holds)}
  BY <1>1, <1>5, MadeWell
<1>7. cut = Normalised([made EXCEPT !.file = source])
  BY <1>6 DEF Normalised, Image
<1>8. [made EXCEPT !.file = source] \in Image
  BY <1>6 DEF Image
<1> QED
  BY <1>2, <1>6, <1>7, <1>8, ChangedWell DEF Image

-----------------------------------------------------------------------------
(* Exporting.                                                                *)

Formats == {"native", "adz", "hfe", "scp", "rdb", "hardfile"}

(* What an image is that has a format to be exported in.                      *)
LEMMA Exportable ==
    ASSUME NEW s \in Image, s.kind \in {"rom", Family(s.holds)},
           NEW format \in ExportFormats(s)
    PROVE  /\ s.kind = Family(s.holds) /\ s.holds \in Volumes \cup {"rdb"}
           /\ format \in Formats
           /\ format = "hardfile" => s.holds = "rdb"
           /\ format \in {"rdb", "hfe", "scp"} => s.holds \in Volumes
           /\ format = "adz" => s.size \in Floppies
           /\ format \in {"hfe", "scp"} => s.size \in Floppies
<1>1. s.holds \in Contents
  BY DEF Image
<1>2. s.kind \in AmigaDOS \cup {"hdf"}
  BY DEF ExportFormats
<1>3. s.kind = Family(s.holds)
  BY <1>2 DEF AmigaDOS
<1>4. s.holds \in Volumes \cup {"rdb"} /\ (s.kind = "hdf" <=> s.holds = "rdb")
  BY <1>1, <1>2, <1>3, Families DEF AmigaDOS, Volumes
<1>5. /\ format \in Formats
      /\ format = "hardfile" => s.kind = "hdf"
      /\ format \in {"rdb", "hfe", "scp"} => s.kind \in AmigaDOS
      /\ format \in {"adz", "hfe", "scp"} => s.size \in Floppies
  BY DEF ExportFormats, Formats, IsBare, Encodable, Floppies
<1> QED
  BY <1>3, <1>4, <1>5 DEF AmigaDOS, Volumes

(* The sectors that are exported, as a file.                                  *)
Sectors(s) == [BlankFile("adf", s.holds, s.size) EXCEPT
                   !.part = s.part, !.sound = s.sound, !.version = s.version]

LEMMA SectorsAreAFile ==
    ASSUME NEW s \in Image
    PROVE  /\ Sectors(s) \in File
           /\ Sectors(s).ext = "adf" /\ Sectors(s).pack = "plain"
           /\ Sectors(s).outer = "sectors" /\ Sectors(s).geo = "none"
           /\ Sectors(s).holds = s.holds /\ Sectors(s).part = s.part
           /\ Sectors(s).size = s.size /\ Sectors(s).sound = s.sound
<1> DEFINE blank == BlankFile("adf", s.holds, s.size)
<1>1. /\ s.part \in Volumes \cup {"junk", "none"} /\ s.holds \in Contents
      /\ s.size \in FileSizes /\ s.sound \in BOOLEAN /\ s.version \in 0 .. MaxVersion
  BY DEF Image
<1>2. "adf" \in Extensions /\ "sectors" \in Outers /\ 0 \in 0 .. MaxVersion
  BY DEF Extensions, Outers
<1>3. /\ blank \in File /\ blank.ext = "adf" /\ blank.pack = "plain"
      /\ blank.outer = "sectors" /\ blank.geo = "none"
      /\ blank.holds = s.holds /\ blank.size = s.size
  BY <1>1, <1>2 DEF BlankFile, File
<1>4. Sectors(s) = [blank EXCEPT !.part = s.part, !.sound = s.sound, !.version = s.version]
  BY DEF Sectors
<1> HIDE DEF blank
<1> QED
  BY <1>1, <1>3, <1>4 DEF File

(* A file of a container that is unpacked, has no other size in a GEO and, if *)
(* it is a capture, validates, is opened unless its kind is refused.          *)
LEMMA OpensUnlessRefused ==
    ASSUME NEW file \in File, Acceptable(Expanded(Unpacked(file))),
           Kind(Expanded(Unpacked(file)), FALSE) # "refused"
    PROVE  Opened(file, "auto", FALSE) # {}
<1> DEFINE bytes == Expanded(Unpacked(file))
           made == Made(bytes, FALSE)
           cut == [Normalised(made) EXCEPT !.file = file]
<1>1. Normalised(made).kind = Kind(bytes, FALSE)
  BY DEF Normalised, Made
<1>2. cut.kind = Kind(bytes, FALSE)
  BY <1>1 DEF Normalised, Made
<1>3. Fits(cut, "auto")
  BY DEF Fits
<1> QED
  BY <1>2, <1>3 DEF Opened

(* A file of plain sectors called a floppy or a hard drive.                   *)
LEMMA SectorsOpen ==
    ASSUME NEW file \in File, file.outer = "sectors",
           \/ file.ext = "adf" /\ file.holds \in AmigaDOS
           \/ file.ext = "hdf" /\ file.holds \in Volumes \cup {"rdb"}
    PROVE  Kind(file, FALSE) # "refused"
<1>1. Suggested(file, FALSE) = IF file.ext = "adf" THEN "ofs" ELSE "hdf"
  BY DEF Suggested, detect_kind
<1>2. Kind(file, FALSE) = identify_kind(file.holds, Suggested(file, FALSE))
  BY <1>1 DEF Kind
<1>3. file.holds \in Probes(Suggested(file, FALSE))
  BY <1>1 DEF Probes
<1>4. Family(file.holds) # "refused"
  BY DEF Family, Volumes, AmigaDOS
<1> QED
  BY <1>2, <1>3, <1>4 DEF identify_kind

(* A flux container of an AmigaDOS floppy.                                    *)
LEMMA FluxOpens ==
    ASSUME NEW file \in File, file.outer = file.ext, file.ext \in {"hfe", "scp"},
           file.holds \in AmigaDOS
    PROVE  Kind(file, FALSE) # "refused"
<1>1. detect_kind(file.ext) = file.ext
  BY DEF detect_kind
<1>2. /\ Family(file.holds) \in AmigaDOS
      /\ file.holds # "iso" /\ file.holds \in Filesystems
  BY DEF Family, AmigaDOS, Filesystems, Volumes
<1>3. identify_kind(file.holds, "unknown") = Family(file.holds)
  BY <1>2 DEF identify_kind, Probes
<1>4. Suggested(file, FALSE) = Family(file.holds)
  BY <1>1, <1>2, <1>3 DEF Suggested, Decoded, AmigaDOS
<1>5. Kind(file, FALSE) = identify_kind(file.holds, Family(file.holds))
  BY <1>1, <1>2, <1>4 DEF Kind, AmigaDOS
<1>6. file.holds \in Probes(Family(file.holds))
  BY <1>2 DEF Probes, AmigaDOS, Volumes
<1> QED
  BY <1>2, <1>5, <1>6 DEF identify_kind, AmigaDOS

(* What is exported is a file of the kind that is recorded with it, and       *)
(* opens again if nothing hides what it holds.                                *)
LEMMA ExportedWell ==
    ASSUME NEW s \in Image, s.kind \in {"rom", Family(s.holds)},
           NEW format \in ExportFormats(s), format = "hardfile" => s.part # "none"
    PROVE  LET file == ExportFile(s, format)
           IN  /\ file \in File
               /\ ExportKind(s, format) = Family(file.holds)
               /\ Hidden(file) \/ Opened(file, "auto", FALSE) # {}
<1> DEFINE file == ExportFile(s, format)
           bytes == Expanded(Unpacked(file))
<1>1. /\ s.kind = Family(s.holds) /\ s.holds \in Volumes \cup {"rdb"}
      /\ format \in Formats
      /\ format \in {"rdb", "hfe", "scp"} => s.holds \in Volumes
      /\ format \in {"adz", "hfe", "scp"} => s.size \in Floppies
      /\ s.part \in Volumes \cup {"junk", "none"}
  BY Exportable DEF Image
<1>2. /\ Sectors(s) \in File
      /\ Sectors(s).ext = "adf" /\ Sectors(s).pack = "plain"
      /\ Sectors(s).outer = "sectors" /\ Sectors(s).geo = "none"
      /\ Sectors(s).holds = s.holds /\ Sectors(s).part = s.part
      /\ Sectors(s).size = s.size /\ Sectors(s).sound = s.sound
  BY SectorsAreAFile
<1>3. file =
        CASE format = "native" -> [Sectors(s) EXCEPT !.ext = Suffix(s.size)]
          [] format = "adz" -> [Sectors(s) EXCEPT !.pack = "gzip"]
          [] format = "rdb" -> Wrapped(Sectors(s))
          [] format = "hardfile" -> Lifted(Sectors(s))
          [] OTHER -> [Sectors(s) EXCEPT !.ext = format, !.outer = format]
  BY DEF ExportFile, Sectors
<1> HIDE DEF file
<1>4. /\ file \in File /\ ExportKind(s, format) = Family(file.holds)
      /\ file.pack \in {"plain", "zip", "gzip"}
      /\ file.geo # "none" => file.ext = "hdf"
      /\ \/ file.outer = "sectors" /\ file.ext = "adf" /\ file.size \in Floppies
         \/ file.outer = "sectors" /\ file.ext = "hdf"
              /\ file.holds \in Volumes \cup {"rdb", "junk"}
         \/ file.outer = file.ext /\ file.ext \in {"hfe", "scp"} /\ file.size \in Floppies
  <2>1. CASE format = "native"
    <3>1. file = [Sectors(s) EXCEPT !.ext = Suffix(s.size)]
      BY <1>3, <2>1
    <3>2. ExportKind(s, format) = s.kind
      BY <2>1 DEF ExportKind
    <3> QED
      BY <1>1, <1>2, <3>1, <3>2 DEF File, Suffix, Extensions
  <2>2. CASE format = "adz"
    <3>1. file = [Sectors(s) EXCEPT !.pack = "gzip"]
      BY <1>3, <2>2
    <3>2. ExportKind(s, format) = s.kind
      BY <2>2 DEF ExportKind
    <3> QED
      BY <1>1, <1>2, <2>2, <3>1, <3>2 DEF File
  <2>3. CASE format = "rdb"
    <3>1. file = [Sectors(s) EXCEPT !.ext = "hdf", !.holds = "rdb", !.part = s.holds]
      BY <1>2, <1>3, <2>3 DEF Wrapped
    <3>2. ExportKind(s, format) = "hdf" /\ Family("rdb") = "hdf"
      BY <2>3 DEF ExportKind, Family
    <3> QED
      BY <1>1, <1>2, <2>3, <3>1, <3>2 DEF File, Extensions, Contents, Filesystems
  <2>4. CASE format = "hardfile"
    <3>1. file = [Sectors(s) EXCEPT !.ext = "hdf", !.holds = s.part, !.part = "none",
                                    !.geo = "same", !.pack = "zip"]
      BY <1>2, <1>3, <2>4 DEF Lifted
    <3>2. ExportKind(s, format) = Family(s.part) /\ s.part \in Volumes \cup {"junk"}
      BY <1>1, <2>4 DEF ExportKind
    <3> QED
      BY <1>2, <3>1, <3>2 DEF File, Extensions, Contents, Filesystems
  <2>5. CASE format \in {"hfe", "scp"}
    <3>1. file = [Sectors(s) EXCEPT !.ext = format, !.outer = format]
      BY <1>3, <2>5
    <3>2. ExportKind(s, format) = s.kind
      BY <2>5 DEF ExportKind
    <3> QED
      BY <1>1, <1>2, <2>5, <3>1, <3>2 DEF File, Extensions, Outers
  <2> QED
    BY <1>1, <2>1, <2>2, <2>3, <2>4, <2>5 DEF Formats
<1>5. ASSUME ~ Hidden(file) PROVE Opened(file, "auto", FALSE) # {}
  <2>1. /\ bytes \in File /\ bytes.pack = "plain" /\ bytes.ext = file.ext
        /\ bytes.outer = file.outer /\ bytes.holds = file.holds
        /\ bytes.geo = file.geo /\ bytes.sound = file.sound
    BY <1>4, ExpandedFile
  <2>2. /\ file.size \in Floppies => file.holds \in AmigaDOS
        /\ file.holds # "junk" /\ ~ (file.ext = "scp" /\ ~ file.sound)
    BY <1>5 DEF Hidden
  <2>3. Acceptable(bytes)
    BY <1>4, <2>1, <2>2 DEF Acceptable
  <2>4. Kind(bytes, FALSE) # "refused"
    BY <1>4, <2>1, <2>2, SectorsOpen, FluxOpens
  <2> QED
    BY <1>4, <2>3, <2>4, OpensUnlessRefused
<1> QED
  BY <1>4, <1>5 DEF file

-----------------------------------------------------------------------------
(* Creating.                                                                 *)

(* A blank file of a volume, of a drive or of a ROM.                          *)
LEMMA BlankIsAFile ==
    ASSUME NEW ext \in Extensions, NEW holds \in Contents, NEW size \in FileSizes
    PROVE  LET file == BlankFile(ext, holds, size)
           IN  file \in File /\ file.ext = ext /\ file.holds = holds /\ file.outer = "sectors"
<1>1. "sectors" \in Outers /\ 0 \in 0 .. MaxVersion
  BY DEF Outers
<1> QED
  BY <1>1 DEF BlankFile, File

(* A raw drive of one volume, and a ROM.                                      *)
LEMMA OtherBlanksOpen ==
    ASSUME NEW file \in File, file.outer = "sectors",
           \/ file.ext = "raw" /\ file.holds \in Volumes
           \/ file.ext = "rom"
    PROVE  Kind(file, FALSE) # "refused"
<1>1. CASE file.ext = "rom"
  <2>1. Suggested(file, FALSE) = "rom"
    BY <1>1 DEF Suggested, detect_kind
  <2> QED
    BY <2>1 DEF Kind
<1>2. CASE file.ext = "raw" /\ file.holds \in Volumes
  <2>1. Suggested(file, FALSE) = "ffs"
    BY <1>2 DEF Suggested, detect_kind
  <2>2. Kind(file, FALSE) = identify_kind(file.holds, "ffs")
    BY <2>1 DEF Kind
  <2>3. file.holds \in Probes("ffs")
    BY <1>2 DEF Probes
  <2>4. Family(file.holds) # "refused"
    BY <1>2 DEF Family, Volumes, AmigaDOS
  <2> QED
    BY <2>2, <2>3, <2>4 DEF identify_kind
<1> QED
  BY <1>1, <1>2

(* What is created is an image of the kind that was asked for.                *)
LEMMA CreatedWell ==
    ASSUME Create
    PROVE  /\ session' \in Image /\ session'.holds = session'.file.holds
           /\ session'.kind \in {"rom", Family(session'.holds)} /\ ~ session'.harmed
<1>1. ASSUME NEW file \in File, Kind(file, FALSE) # "refused",
             NEW outer \in Outers, NEW tracks \in {"exact", "lossy"},
             \/ session' = [Made(file, FALSE) EXCEPT !.dirty = TRUE]
             \/ session' = [Made(file, FALSE) EXCEPT !.dirty = TRUE, !.outer = outer,
                                                     !.tracks = tracks]
      PROVE  /\ session' \in Image /\ session'.holds = session'.file.holds
             /\ session'.kind \in {"rom", Family(session'.holds)} /\ ~ session'.harmed
  <2> DEFINE made == Made(file, FALSE)
  <2>1. /\ made \in Image /\ made.holds = file.holds /\ ~ made.harmed
        /\ made.kind \in {"rom", Family(file.holds)}
    BY <1>1, MadeWell
  <2>2. made.file = file
    BY DEF Made
  <2> HIDE DEF made
  <2>3. \/ session' = [made EXCEPT !.dirty = TRUE]
        \/ session' = [made EXCEPT !.dirty = TRUE, !.outer = outer, !.tracks = tracks]
    BY <1>1 DEF made
  <2> QED
    BY <2>1, <2>2, <2>3, ZenonT(40) DEF Image
<1>2. /\ AmigaDOS \subseteq Volumes /\ Volumes \cup {"rdb", "kickfs", "romcode"} \subseteq Contents
      /\ {"adf", "hdf", "raw", "rom"} \subseteq Extensions
      /\ {"floppy", "hard", "vast"} \subseteq FileSizes
  BY DEF AmigaDOS, Volumes, Contents, Filesystems, Extensions, FileSizes, Floppies
<1>3. ASSUME NEW holds \in AmigaDOS, NEW outer \in {"sectors", "hfe"},
             CreateFloppy(holds, outer)
      PROVE  /\ session' \in Image /\ session'.holds = session'.file.holds
             /\ session'.kind \in {"rom", Family(session'.holds)} /\ ~ session'.harmed
  <2> DEFINE blank == BlankFile("adf", holds, "floppy")
             file == [[blank EXCEPT !.outer = outer] EXCEPT !.outer = "sectors"]
  <2>1. blank \in File /\ blank.ext = "adf" /\ blank.holds = holds
    BY <1>2, BlankIsAFile
  <2>2. PICK tracks \in {"exact", "lossy"} :
          session' = [Made(file, FALSE) EXCEPT !.dirty = TRUE, !.outer = outer,
                                               !.tracks = tracks]
    BY <1>3 DEF CreateFloppy
  <2> HIDE DEF blank
  <2>3. file \in File /\ file.ext = "adf" /\ file.holds = holds /\ file.outer = "sectors"
    BY <2>1 DEF File, Outers
  <2> HIDE DEF file
  <2>4. Kind(file, FALSE) # "refused"
    BY <2>3, SectorsOpen
  <2>5. outer \in Outers
    BY DEF Outers
  <2> QED
    BY <1>1, <2>2, <2>3, <2>4, <2>5
<1>4. ASSUME NEW format \in {"hardfile", "ffs-physical", "ffs-hard"},
             NEW holds \in Volumes, NEW size \in {"hard", "vast"},
             CreateHardDrive(format, holds, size)
      PROVE  /\ session' \in Image /\ session'.holds = session'.file.holds
             /\ session'.kind \in {"rom", Family(session'.holds)} /\ ~ session'.harmed
  <2>1. ASSUME NEW file \in File, file.outer = "sectors",
               \/ file.ext = "hdf" /\ file.holds \in Volumes \cup {"rdb"}
               \/ file.ext = "raw" /\ file.holds \in Volumes,
               session' = [Made(file, FALSE) EXCEPT !.dirty = TRUE]
        PROVE  /\ session' \in Image /\ session'.holds = session'.file.holds
               /\ session'.kind \in {"rom", Family(session'.holds)} /\ ~ session'.harmed
    <3>1. Kind(file, FALSE) # "refused"
      BY <2>1, SectorsOpen, OtherBlanksOpen
    <3>2. "sectors" \in Outers /\ "exact" \in {"exact", "lossy"}
      BY DEF Outers
    <3> QED
      BY <1>1, <2>1, <3>1, <3>2
  <2>2. CASE format = "hardfile"
    <3> DEFINE blank == BlankFile("hdf", holds, size)
               file == [blank EXCEPT !.geo = "same"]
    <3>1. /\ blank \in File /\ blank.ext = "hdf" /\ blank.holds = holds
          /\ blank.outer = "sectors"
      BY <1>2, BlankIsAFile
    <3>2. session' = [Made(file, FALSE) EXCEPT !.dirty = TRUE]
      BY <1>4, <2>2 DEF CreateHardDrive
    <3> HIDE DEF blank
    <3>3. file \in File /\ file.ext = "hdf" /\ file.holds = holds /\ file.outer = "sectors"
      BY <3>1 DEF File
    <3> QED
      BY <2>1, <3>2, <3>3
  <2>3. CASE format = "ffs-physical"
    <3> DEFINE file == BlankFile("raw", holds, size)
    <3>1. file \in File /\ file.ext = "raw" /\ file.holds = holds /\ file.outer = "sectors"
      BY <1>2, BlankIsAFile
    <3>2. session' = [Made(file, FALSE) EXCEPT !.dirty = TRUE]
      BY <1>4, <2>3 DEF CreateHardDrive
    <3> QED
      BY <2>1, <3>1, <3>2
  <2>4. CASE format = "ffs-hard"
    <3> DEFINE blank == BlankFile("hdf", "rdb", size)
               file == [blank EXCEPT !.part = holds]
    <3>1. /\ blank \in File /\ blank.ext = "hdf" /\ blank.holds = "rdb"
          /\ blank.outer = "sectors"
      BY <1>2, BlankIsAFile
    <3>2. session' = [Made(file, FALSE) EXCEPT !.dirty = TRUE]
      BY <1>4, <2>4 DEF CreateHardDrive
    <3> HIDE DEF blank
    <3>3. file \in File /\ file.ext = "hdf" /\ file.holds = "rdb" /\ file.outer = "sectors"
      BY <3>1 DEF File
    <3> QED
      BY <2>1, <3>2, <3>3
  <2> QED
    BY <2>2, <2>3, <2>4
<1>5. ASSUME NEW holds \in {"kickfs", "romcode"}, CreateRom(holds)
      PROVE  /\ session' \in Image /\ session'.holds = session'.file.holds
             /\ session'.kind \in {"rom", Family(session'.holds)} /\ ~ session'.harmed
  <2> DEFINE file == BlankFile("rom", holds, "hard")
  <2>1. file \in File /\ file.ext = "rom" /\ file.outer = "sectors"
    BY <1>2, BlankIsAFile
  <2>2. session' = [Made(file, FALSE) EXCEPT !.dirty = TRUE]
    BY <1>5 DEF CreateRom
  <2>3. Kind(file, FALSE) # "refused"
    BY <2>1, OtherBlanksOpen
  <2>4. "sectors" \in Outers /\ "exact" \in {"exact", "lossy"}
    BY DEF Outers
  <2> HIDE DEF file
  <2> QED
    BY <1>1, <2>1, <2>2, <2>3, <2>4
<1> QED
  BY <1>3, <1>4, <1>5 DEF Create

-----------------------------------------------------------------------------
(* The invariant.                                                            *)

(* A step keeps what is said of the image if the image it leaves open is one  *)
(* of its bytes, and what is said of the exports if they are as they were.    *)
LEMMA ImageChanges ==
    ASSUME OpeningInv, UNCHANGED <<exported, refused>>,
           \/ session' = Closed
           \/ /\ session' \in Image /\ session'.holds = session'.file.holds
              /\ session'.kind \in {"rom", Family(session'.holds)} /\ ~ session'.harmed
    PROVE  OpeningInv'
BY DEF OpeningInv, OpensAsWhatItHolds

LEMMA InitOpening == OpeningInit => OpeningInv
BY DEF OpeningInit, OpeningInv, OpensAsWhatItHolds

(* What can be opened is a file.                                              *)
LEMMA FilesAreFiles ==
    ASSUME OpeningInv
    PROVE  /\ Files \subseteq File
           /\ \A file \in File : file # NoFile
<1>1. ASSUME NEW file \in File PROVE file # NoFile
  <2>1. file.ext \in Extensions
    BY DEF File
  <2>2. NoFile.ext = "no file" /\ "no file" \notin Extensions
    BY DEF NoFile, Extensions
  <2> QED
    BY <2>1, <2>2
<1>2. Files \subseteq File
  BY DEF Files, OpeningInv
<1> QED
  BY <1>1, <1>2

LEMMA OpenKeeps ==
    ASSUME OpeningInv, NEW file \in Files, NEW asked \in Targets, NEW forced \in BOOLEAN,
           Open(file, asked, forced)
    PROVE  OpeningInv'
<1>1. file \in File /\ file # NoFile
  BY FilesAreFiles
<1>2. CASE session' \in Opened(file, asked, forced) /\ UNCHANGED refused
  <2>1. /\ session' \in Image /\ session'.holds = session'.file.holds
        /\ session'.kind \in {"rom", Family(session'.holds)} /\ ~ session'.harmed
    BY <1>1, <1>2, OpenedWell
  <2>2. UNCHANGED exported
    BY DEF Open
  <2> QED
    BY <1>2, <2>1, <2>2, ImageChanges
<1>3. CASE ~ (session' \in Opened(file, asked, forced) /\ UNCHANGED refused)
  <2>1. /\ Opened(file, asked, forced) = {}
        /\ refused' = IF file = exported.file /\ asked = "auto" /\ ~ forced
                      THEN refused \cup {file} ELSE refused
        /\ session = Closed /\ UNCHANGED <<session, exported>>
    BY <1>3 DEF Open
  <2>2. file = exported.file /\ asked = "auto" /\ ~ forced => Hidden(file)
    <3>1. SUFFICES ASSUME file = exported.file, asked = "auto", ~ forced PROVE Hidden(file)
      OBVIOUS
    <3>2. exported # NotExported
      BY <1>1, <3>1 DEF NotExported
    <3>3. Opened(file, "auto", FALSE) = {}
      BY <2>1, <3>1
    <3> QED
      BY <3>1, <3>2, <3>3 DEF OpeningInv
  <2>3. \A f \in refused' : Hidden(f)
    BY <2>1, <2>2 DEF OpeningInv
  <2> QED
    BY <2>1, <2>3 DEF OpeningInv, OpensAsWhatItHolds
<1> QED
  BY <1>2, <1>3

LEMMA ExportKeeps ==
    ASSUME OpeningInv, NEW format, Export(format)
    PROVE  OpeningInv'
<1>1. /\ session \in Image /\ session.kind \in {"rom", Family(session.holds)}
      /\ format \in ExportFormats(session)
      /\ format = "hardfile" => session.part # "none"
  BY DEF Export, OpeningInv, OpensAsWhatItHolds
<1>2. /\ exported' = [file |-> ExportFile(session, format), kind |-> ExportKind(session, format)]
      /\ UNCHANGED <<session, refused>>
  BY DEF Export
<1>3. /\ exported'.file \in File
      /\ exported'.kind = Family(exported'.file.holds)
      /\ Hidden(exported'.file) \/ Opened(exported'.file, "auto", FALSE) # {}
  BY <1>1, <1>2, ExportedWell
<1> QED
  BY <1>2, <1>3 DEF OpeningInv, OpensAsWhatItHolds

LEMMA NextOpening == OpeningInv /\ [OpeningNext]_openingVars => OpeningInv'
<1>1. SUFFICES ASSUME OpeningInv, [OpeningNext]_openingVars PROVE OpeningInv'
  OBVIOUS
<1>2. ASSUME NEW file \in Files, NEW asked \in Targets, NEW forced \in BOOLEAN,
             Open(file, asked, forced)
      PROVE  OpeningInv'
  BY <1>1, <1>2, OpenKeeps
<1>3. ASSUME Create PROVE OpeningInv'
  <2>1. UNCHANGED <<exported, refused>>
    BY <1>3 DEF Create
  <2> QED
    BY <1>1, <1>3, <2>1, CreatedWell, ImageChanges
<1>4. ASSUME EditImage PROVE OpeningInv'
  <2>1. /\ session \in Image /\ session.holds = session.file.holds /\ ~ session.harmed
        /\ session.kind \in {"rom", Family(session.holds)}
        /\ session.version \in 0 .. MaxVersion /\ session.version < MaxVersion
        /\ session' = [session EXCEPT !.version = @ + 1, !.dirty = TRUE]
        /\ UNCHANGED <<exported, refused>>
    BY <1>1, <1>4 DEF EditImage, OpeningInv, OpensAsWhatItHolds, Image
  <2>2. session.version + 1 \in 0 .. MaxVersion
    BY <2>1
  <2>3. /\ session' \in Image /\ session'.holds = session.holds
        /\ session'.file = session.file /\ session'.kind = session.kind /\ ~ session'.harmed
    BY <2>1, <2>2 DEF Image
  <2> QED
    BY <1>1, <2>1, <2>3, ImageChanges
<1>5. ASSUME NEW format, Export(format) PROVE OpeningInv'
  BY <1>1, <1>5, ExportKeeps
<1>6. ASSUME Close PROVE OpeningInv'
  BY <1>1, <1>6, ImageChanges DEF Close
<1>7. ASSUME Sent \/ UNCHANGED openingVars PROVE OpeningInv'
  BY <1>1, <1>7 DEF Sent, openingVars, OpeningInv, OpensAsWhatItHolds
<1> QED
  BY <1>1, <1>2, <1>3, <1>4, <1>5, <1>6, <1>7 DEF OpeningNext

(* An image remembers what the bytes of its file are, and the last export is  *)
(* of the kind of its bytes (ImageOpening).                                   *)
THEOREM OpeningInvariant == OpeningSpec => []OpeningInv
BY InitOpening, NextOpening, PTL DEF OpeningSpec

(* An image is what its bytes are, whatever its file was called, and neither  *)
(* a GEO nor a target costs it data (identify_kind, _apply_target_hardware).  *)
THEOREM FilesOpenAsWhatTheyHold == OpeningSpec => []OpensAsWhatItHolds
<1>1. OpeningInv => OpensAsWhatItHolds
  BY DEF OpeningInv
<1> QED
  BY <1>1, OpeningInvariant, PTL

(* What is exported opens again as the volume it was made from, with the      *)
(* exceptions that Hidden names (export_image, create_from_stream).           *)
THEOREM ExportsOpenAgain == OpeningSpec => []ExportOpensAgain
<1>1. OpeningInv => ExportOpensAgain
  <2>1. SUFFICES ASSUME OpeningInv PROVE ExportOpensAgain
    OBVIOUS
  <2>2. ASSUME session # Closed, session.file = exported.file
        PROVE  session.kind \in {"rom", exported.kind}
    <3>1. session.file \in File
      BY <2>1, <2>2 DEF OpeningInv, Image
    <3>2. exported # NotExported
      BY <2>1, <2>2, <3>1, FilesAreFiles DEF NotExported
    <3>3. session.kind \in {"rom", Family(session.file.holds)}
      BY <2>1, <2>2 DEF OpeningInv, OpensAsWhatItHolds
    <3> QED
      BY <2>1, <2>2, <3>2, <3>3 DEF OpeningInv
  <2> QED
    BY <2>1, <2>2 DEF OpeningInv, ExportOpensAgain
<1> QED
  BY <1>1, OpeningInvariant, PTL

=============================================================================
