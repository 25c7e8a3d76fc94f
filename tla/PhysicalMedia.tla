----------------------------- MODULE PhysicalMedia ----------------------------
(***************************************************************************)
(* Physical floppies: disks captured and written by the gw command         *)
(* (amiga_greaseweazle), which is a process that the request follows, or   *)
(* through a floppy controller (amiga_floppy), which the request reads and *)
(* writes itself; and the requests of routes/desktop.py around them.  The  *)
(* disk holds a content per track, and an image is the number of the edits *)
(* made to it.                                                             *)
(***************************************************************************)
EXTENDS Integers, Sequences

CONSTANTS
    Tracks,     \* the tracks of a disk, 1..n
    MaxJobs,    \* requests in a behaviour
    MaxRevisions \* edits of the image in a behaviour

VARIABLES
    floppy,     \* the disk in the drive: track -> what it holds
    working,    \* the edits the image has
    jobs,       \* the requests, by number
    captures    \* the images opened of what was captured

mediaVars == <<floppy, working, jobs, captures>>

Blank == -1     \* a track of another disk
Damaged == -2   \* a track that reads as something else
All == 1..Tracks
Nothing == [t \in {} |-> Blank]

Init ==
    /\ floppy = [t \in All |-> Blank]
    /\ working = 0
    /\ jobs = <<>>
    /\ captures = {}

\* The requests that are at a place, and those whose process may be at work.
At(j, places) == j \in DOMAIN jobs /\ jobs[j].at \in places
Busy == {j \in DOMAIN jobs : jobs[j].at # "over" \/ jobs[j].child}

Goto(j, place) == jobs' = [jobs EXCEPT ![j].at = place]

Ask(writes, via, flux) ==
    /\ Len(jobs) < MaxJobs
    /\ via = "controller" => ~flux
    /\ jobs' = Append([j \in DOMAIN jobs |-> [jobs[j] EXCEPT !.alone = @ /\ j \notin Busy]],
          [writes |-> writes, via |-> via, flux |-> flux,
           at |-> IF writes THEN "preparing" ELSE "ready",
           snapshot |-> 0, done |-> Nothing, child |-> FALSE, faults |-> FALSE,
           cancel |-> FALSE, result |-> "none", alone |-> Busy = {}])
    /\ UNCHANGED <<floppy, working, captures>>

\* Another request changes the image, which no write of a disk prevents.
Edit ==
    /\ working < MaxRevisions
    /\ working' = working + 1
    /\ UNCHANGED <<floppy, jobs, captures>>

\* _physical_media(): prepare_download() and stable_snapshot(), each under the
\* session's lock, and what is written is the copy.
Snapshot(j) ==
    /\ At(j, {"preparing"})
    /\ jobs' = [jobs EXCEPT ![j].snapshot = working, ![j].at = "ready"]
    /\ UNCHANGED <<floppy, working, captures>>

\* The client asks the operation to stop.
Cancel(j) ==
    /\ jobs[j].at # "over" /\ ~jobs[j].cancel
    /\ jobs' = [jobs EXCEPT ![j].cancel = TRUE]
    /\ UNCHANGED <<floppy, working, captures>>

\* The probe and the first report; gw is started.
Start(j) ==
    /\ At(j, {"ready"}) /\ ~jobs[j].cancel
    /\ jobs' = [jobs EXCEPT ![j].at = "working", ![j].child = jobs[j].via = "gw"]
    /\ UNCHANGED <<floppy, working, captures>>

-----------------------------------------------------------------------------
(* Tracks, written or read by the process or by the request.               *)

NextTrack(j) == {t \in All \ DOMAIN jobs[j].done : \A s \in 1..(t - 1) : s \in DOMAIN jobs[j].done}
Done(j, t, value) ==
    [x \in DOMAIN jobs[j].done \union {t} |-> IF x = t THEN value ELSE jobs[j].done[x]]

\* The process goes on until it is ended, whoever reads what it says.
AtWork(j) ==
    IF jobs[j].via = "gw" THEN jobs[j].child ELSE jobs[j].at = "working" /\ ~jobs[j].cancel

\* gw reads back what it wrote, of which it tells at its end, except of flux.
WriteTrack(j) ==
    /\ jobs[j].writes /\ AtWork(j)
    /\ \E t \in NextTrack(j), value \in {jobs[j].snapshot, Damaged} :
          /\ jobs[j].via = "controller" => value = jobs[j].snapshot
          /\ floppy' = [floppy EXCEPT ![t] = value]
          /\ jobs' = [jobs EXCEPT ![j].done = Done(j, t, value),
                                  ![j].faults = @ \/ (value = Damaged /\ ~jobs[j].flux)]
    /\ UNCHANGED <<working, captures>>

ReadTrack(j) ==
    /\ ~jobs[j].writes /\ AtWork(j)
    /\ \E t \in NextTrack(j) : jobs' = [jobs EXCEPT ![j].done = Done(j, t, floppy[t])]
    /\ UNCHANGED <<floppy, working, captures>>

\* The process ends, having done what it could, or failed: then its exit status
\* is not zero, except where all that failed is the verification.
ChildEnds(j) ==
    /\ jobs[j].child
    /\ jobs' = [jobs EXCEPT ![j].child = FALSE,
          ![j].result = IF DOMAIN jobs[j].done # All THEN "failed"
                        ELSE IF jobs[j].faults THEN "verify failure"
                        ELSE IF jobs[j].writes /\ ~jobs[j].flux THEN "all tracks verified"
                        ELSE "finished"]
    /\ UNCHANGED <<floppy, working, captures>>

-----------------------------------------------------------------------------
(* The end of a request.                                                   *)

\* _stream() after terminate(), and kill() if that does not end it.
Stopped(j) == At(j, {"working"}) /\ ~jobs[j].child

\* A report after a cancel, the time limit, or an error of the drive: the
\* process is ended and the request fails.
Interrupt(j) ==
    /\ At(j, {"ready", "working"})
    /\ jobs[j].at = "ready" \/ Stopped(j)
    /\ jobs[j].at = "ready" => jobs[j].cancel
    /\ Goto(j, "over")
    /\ UNCHANGED <<floppy, working, captures>>

\* terminate() or kill(), which may find the process at a track.
EndChild(j) ==
    /\ jobs[j].child
    /\ jobs' = [jobs EXCEPT ![j].child = FALSE, ![j].result = "failed"]
    /\ UNCHANGED <<floppy, working, captures>>

\* Mutant: the exit status is believed.
CompleteByExit(j) == jobs[j].result # "failed"

\* What _stream() returned, or what the request read or wrote itself, is a whole
\* disk: write() looks for the verification in what gw told.
Complete(j) ==
    IF jobs[j].via = "controller" THEN DOMAIN jobs[j].done = All
    ELSE IF jobs[j].writes /\ ~jobs[j].flux THEN jobs[j].result = "all tracks verified"
    ELSE jobs[j].result = "finished"

\* The request is over, and tells that the disk was written and verified, was
\* written, or was captured; the image is opened of a capture in a folder that
\* goes with the request.
Finish(j) ==
    /\ At(j, {"working"}) /\ ~jobs[j].child /\ ~jobs[j].cancel
    /\ jobs[j].via = "gw" => jobs[j].result # "none"
    /\ IF Complete(j)
       THEN /\ jobs' = [jobs EXCEPT ![j].at = "over", ![j].result =
                  CASE ~jobs[j].writes -> "captured"
                     [] jobs[j].writes /\ (jobs[j].flux \/ jobs[j].via = "controller") -> "written"
                     [] OTHER -> "verified"]
            /\ captures' = IF jobs[j].writes THEN captures
                           ELSE captures \union {[by |-> j, tracks |-> jobs[j].done]}
       ELSE /\ jobs[j].via = "gw"
            /\ Goto(j, "over") /\ UNCHANGED captures
    /\ UNCHANGED <<floppy, working>>

Next ==
    \/ Edit
    \/ \E writes, flux \in BOOLEAN, via \in {"gw", "controller"} : Ask(writes, via, flux)
    \/ \E j \in DOMAIN jobs :
          \/ Snapshot(j) \/ Cancel(j) \/ Start(j) \/ WriteTrack(j) \/ ReadTrack(j)
          \/ ChildEnds(j) \/ Interrupt(j) \/ EndChild(j) \/ Finish(j)

Spec == Init /\ [][Next]_mediaVars

-----------------------------------------------------------------------------
(* What is promised of a disk.                                             *)

\* A disk that a request calls verified holds the image as it was at one moment
\* in every track, whatever edits were made meanwhile, if no other request was
\* at the drive ("so later edits cannot alter a live write", client.py:91).
VerifiedIsOnTheDisk ==
    [][\A j \in DOMAIN jobs :
          jobs'[j].result = "verified" /\ jobs[j].result # "verified" /\ jobs[j].alone
              => \A t \in All : floppy[t] = jobs[j].snapshot]_mediaVars

===============================================================================
