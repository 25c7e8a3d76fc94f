------------------------------ MODULE AppUpdate ------------------------------
(***************************************************************************)
(* The update of the application itself: AppUpdater in app_update.py.      *)
(* One state is shown to every page.  A check and an install each run in a *)
(* thread of their own; the install asks for nothing while a disk is being *)
(* read or written, and its download can be cancelled.                     *)
(***************************************************************************)
EXTENDS Integers, FiniteSets

CONSTANTS
    Releases,       \* versions newer than the one that runs, 0 is none
    Installable,    \* those with a package for this system and its checksum
    PackageBlocks,  \* reads that a package takes
    MaxUpdates      \* checks and installs in a behaviour

ASSUME ReleasesAssumption == Releases \subseteq Nat \ {0} /\ Installable \subseteq Releases
ASSUME UpdateBoundsAssumption == PackageBlocks \in Nat /\ MaxUpdates \in Nat

VARIABLES
    busy,           \* Activity.busy: a disk is being read or written
    published,      \* the release that is the latest
    phase,
    release,        \* the release of the state, 0 is None
    cancel,         \* the thread whose Event _cancel is, 0 is None
    cancelled,      \* the threads whose Event is set
    thread,         \* the threads, by number
    package         \* release -> the package file in the cache folder

updateVars == <<busy, published, phase, release, cancel, cancelled, thread, package>>

BusyPhases == {"checking", "downloading", "installing"}

\* Where a thread is; "finally" is the end of install(), which it has left
\* the state before.
Working == {"ask", "sums", "fetch", "compare", "gate", "apt"}

UpdateInit ==
    /\ busy = FALSE
    /\ published = 0
    /\ phase = "idle"
    /\ release = 0
    /\ cancel = 0
    /\ cancelled = {}
    /\ thread = [w \in {} |-> 0]
    /\ package = [r \in Releases |-> "none"]

Publish ==
    /\ published' \in {r \in Releases : r > published}
    /\ UNCHANGED <<busy, phase, release, cancel, cancelled, thread, package>>

\* running(): a request of the drives, or of the floppy, begins and ends.
DiskAtWork ==
    /\ busy' = ~busy
    /\ UNCHANGED <<published, phase, release, cancel, cancelled, thread, package>>

StartThread(new) ==
    /\ Cardinality(DOMAIN thread) < MaxUpdates
    /\ thread' = [w \in 1 .. Cardinality(DOMAIN thread) + 1 |->
                    IF w \in DOMAIN thread THEN thread[w] ELSE new]

\* check(): nothing when an update is under way.
Check ==
    /\ phase \notin BusyPhases
    /\ StartThread([at |-> "ask", release |-> 0, got |-> 0])
    /\ phase' = "checking"
    /\ release' = 0
    /\ UNCHANGED <<busy, published, cancel, cancelled, package>>

\* Mutant: an install is started whatever is under way.
MayInstallAlways ==
    release \in Installable

MayInstall ==
    /\ phase = "available"
    /\ release \in Installable

\* install(): with a disk at work the state stays as it is.
Install ==
    /\ MayInstall
    /\ ~busy
    /\ StartThread([at |-> "sums", release |-> release, got |-> 0])
    /\ cancel' = Cardinality(DOMAIN thread) + 1
    /\ phase' = "downloading"
    /\ UNCHANGED <<busy, published, release, cancelled, package>>

\* cancel(): only the thread whose Event it is can see it.
CancelUpdate ==
    /\ cancel # 0
    /\ cancelled' = cancelled \cup {cancel}
    /\ UNCHANGED <<busy, published, phase, release, cancel, thread, package>>

-----------------------------------------------------------------------------
(* The steps of a thread.                                                  *)

Goto(w, place) == thread' = [thread EXCEPT ![w].at = place]

\* The thread leaves the state as the update ended.
Ends(w, as) ==
    /\ phase' = as
    /\ Goto(w, IF thread[w].at = "ask" THEN "gone" ELSE "finally")

\* Mutant: only the errors that were foreseen end a check.
AskFailsUnseen(w) ==
    /\ Goto(w, "gone")
    /\ UNCHANGED <<phase, release>>

AskFails(w) ==
    /\ Ends(w, "failed")
    /\ UNCHANGED release

\* GitHub is asked, and what it answers compared with the running version.
AskRelease(w) ==
    /\ thread[w].at = "ask"
    /\ \/ AskFails(w)
       \/ published = 0 /\ Ends(w, "current") /\ UNCHANGED release
       \/ published # 0 /\ Ends(w, "available") /\ release' = published
    /\ UNCHANGED <<busy, published, cancel, cancelled, package>>

\* The checksums come first; then the package, a block at a time, and before
\* each the Event is looked at.
ReadSums(w) ==
    /\ thread[w].at = "sums"
    /\ \/ Goto(w, "fetch") /\ UNCHANGED phase
       \/ Ends(w, "failed")
    /\ UNCHANGED <<busy, published, release, cancel, cancelled, package>>

Stopped(w) ==
    /\ thread[w].at = "fetch"
    /\ w \in cancelled
    /\ Ends(w, "available")
    /\ UNCHANGED <<busy, published, release, cancel, cancelled, package>>

Fetch(w) ==
    /\ thread[w].at = "fetch"
    /\ w \notin cancelled
    /\ IF thread[w].got < PackageBlocks
       THEN /\ \/ thread' = [thread EXCEPT ![w].got = @ + 1] /\ UNCHANGED phase
               \/ Ends(w, "failed")
            /\ UNCHANGED package
       ELSE /\ package' \in {[package EXCEPT ![thread[w].release] = file] :
                                file \in {"right", "wrong"}}
            /\ Goto(w, "compare")
            /\ UNCHANGED phase
    /\ UNCHANGED <<busy, published, release, cancel, cancelled>>

Compare(w) ==
    /\ thread[w].at = "compare"
    /\ IF package[thread[w].release] = "right"
       THEN /\ Goto(w, "gate")
            /\ UNCHANGED <<phase, package>>
       ELSE /\ Ends(w, "failed")
            /\ package' = [package EXCEPT ![thread[w].release] = "none"]
    /\ UNCHANGED <<busy, published, release, cancel, cancelled>>

\* A disk may have been started while the package was downloaded.
Gate(w) ==
    /\ thread[w].at = "gate"
    /\ IF busy
       THEN Ends(w, "available")
       ELSE phase' = "installing" /\ Goto(w, "apt")
    /\ UNCHANGED <<busy, published, release, cancel, cancelled, package>>

\* pkexec waits for the password as long as it takes, and apt is not stopped.
Apt(w) ==
    /\ thread[w].at = "apt"
    /\ \/ Ends(w, "available") /\ UNCHANGED package
       \/ Ends(w, "failed") /\ UNCHANGED package
       \/ /\ Ends(w, "installed")
          /\ package' = [package EXCEPT ![thread[w].release] = "none"]
    /\ UNCHANGED <<busy, published, release, cancel, cancelled>>

Finally(w) ==
    /\ thread[w].at = "finally"
    /\ cancel' = 0
    /\ Goto(w, "gone")
    /\ UNCHANGED <<busy, published, phase, release, cancelled, package>>

ThreadStep(w) ==
    \/ AskRelease(w)
    \/ ReadSums(w)
    \/ Stopped(w)
    \/ Fetch(w)
    \/ Compare(w)
    \/ Gate(w)
    \/ Finally(w)

UpdateNext ==
    \/ Publish
    \/ DiskAtWork
    \/ Check
    \/ Install
    \/ CancelUpdate
    \/ \E w \in DOMAIN thread : ThreadStep(w) \/ Apt(w)

\* Every read of the network has a time limit, so a thread goes on; the
\* password prompt has none.
UpdateFairness == WF_updateVars(\E w \in DOMAIN thread : ThreadStep(w))

UpdateSpec == UpdateInit /\ [][UpdateNext]_updateVars

-----------------------------------------------------------------------------
(* Properties.                                                             *)

Shows(place) ==
    CASE place = "ask" -> "checking"
      [] place = "apt" -> "installing"
      [] OTHER -> "downloading"

\* What every page is shown is what is going on: an update is under way
\* exactly when one thread is, and at that stage; and what apt is given is
\* the release that is shown, as it was compared with its checksum.
StateIsTheThread ==
    LET at_work == {w \in DOMAIN thread : thread[w].at \in Working} IN
    /\ Cardinality(at_work) <= 1
    /\ (phase \in BusyPhases) <=> (at_work # {})
    /\ \A w \in at_work :
        /\ phase = Shows(thread[w].at)
        /\ thread[w].at \in {"gate", "apt"} =>
            thread[w].release = release /\ package[release] = "right"

\* A check or a download always ends, with a reason when it fails.
UpdateEnds ==
    phase \in {"checking", "downloading"} ~> phase \notin {"checking", "downloading"}

(* Behind StateIsTheThread: also, the threads are numbered as they start,  *)
(* and every one that is under way is the only one.                        *)
UpdateInv ==
    /\ release \in Releases \cup {0} /\ published \in Releases \cup {0}
    /\ package \in [Releases -> {"none", "right", "wrong"}]
    /\ \E n \in 0..MaxUpdates :
        thread \in [1..n -> [at : Working \cup {"finally", "gone"},
                            release : Releases \cup {0}, got : Nat]]
    /\ \A v, w \in DOMAIN thread :
        thread[v].at \in Working /\ thread[w].at \in Working => v = w
    /\ phase \in BusyPhases => \E w \in DOMAIN thread : thread[w].at \in Working
    /\ \A w \in DOMAIN thread : thread[w].at \in Working =>
        /\ phase = Shows(thread[w].at)
        /\ thread[w].at # "ask" =>
              thread[w].release = release /\ release \in Installable
        /\ thread[w].at \in {"gate", "apt"} => package[release] = "right"
=============================================================================
