------------------------- MODULE OperationRegistry -------------------------
(***************************************************************************)
(* The progress records of long requests: a request starts a record under  *)
(* the id its client chose, reports at each safe boundary, and ends it;    *)
(* the client may ask it to stop at any time, also before it has started   *)
(* or after it has ended, and may clear the records that have ended.  The  *)
(* registry is written to operations.json on every change; a restart loads *)
(* it again and finds none of the requests it knew running.                *)
(*                                                                         *)
(* Each action is one hold of the registry's lock, with the write of       *)
(* operations.json that ends it: a crash before the file is replaced is a  *)
(* crash before the step.  All records belong to one browser.              *)
(***************************************************************************)
EXTENDS Naturals

CONSTANTS
    Operations,     \* operation ids, each used for one request
    Units,          \* the boundaries an operation passes, each before work
    MaxCrashes      \* bound on the restarts of the server

ASSUME UnitsAssumption == Units \in Nat
ASSUME CrashesAssumption == MaxCrashes \in Nat

VARIABLES
    items,      \* the state of each record, "none" where there is none
    disk,       \* the same in operations.json
    stale,      \* the record was last changed more than an hour ago
    worker,     \* what the request is doing
    units,      \* the units of work it has done
    asked,      \* history: a cancel of it was accepted and is remembered
    crashes     \* restarts so far

vars == <<items, disk, stale, worker, units, asked, crashes>>

Unfinished == {"running", "cancelling"}
(* "paused" exists in the registry, but no request uses it. *)
Terminal == {"complete", "failed", "cancelled", "interrupted"}

(* A request that stops at a boundary or fails still has to say so; then it *)
(* is "finished", "stopped" or "broken".  "gone" is a request lost in a    *)
(* restart.                                                                *)
Alive == {"running", "stopping", "failing"}
Over == {"finished", "stopped", "broken", "gone"}

TypeOK ==
    /\ items \in [Operations -> {"none"} \cup Unfinished \cup Terminal]
    /\ disk \in [Operations -> {"none"} \cup Unfinished \cup Terminal]
    /\ stale \in [Operations -> BOOLEAN]
    /\ worker \in [Operations -> {"idle"} \cup Alive \cup Over]
    /\ units \in [Operations -> 0..Units]
    /\ asked \in [Operations -> BOOLEAN]
    /\ crashes \in 0..MaxCrashes

-----------------------------------------------------------------------------
Init ==
    /\ items = [o \in Operations |-> "none"]
    /\ disk = items
    /\ stale = [o \in Operations |-> FALSE]
    /\ worker = [o \in Operations |-> "idle"]
    /\ units = [o \in Operations |-> 0]
    /\ asked = [o \in Operations |-> FALSE]
    /\ crashes = 0

(* _persist, at the end of every step that changes a record. *)
Persist == disk' = items'

(* The state of o's record becomes s, and its updatedAt is now. *)
Record(o, s) ==
    /\ items' = [items EXCEPT ![o] = s]
    /\ stale' = [stale EXCEPT ![o] = FALSE]
    /\ Persist

(* start drops every record that nobody changed for an hour, whatever it   *)
(* says; a cancel that came first is kept.                                 *)
Start(o) ==
    /\ worker[o] = "idle"
    /\ worker' = [worker EXCEPT ![o] = "running"]
    /\ LET fresh == [q \in Operations |-> IF stale[q] THEN "none" ELSE items[q]]
           kept == fresh[o] = "cancelling"
       IN  items' = [fresh EXCEPT ![o] = IF kept THEN "cancelling" ELSE "running"]
    /\ asked' = [q \in Operations |-> asked[q] /\ ~stale[q]]
    /\ stale' = [q \in Operations |-> FALSE]
    /\ Persist
    /\ UNCHANGED <<units, crashes>>

(* update raises when the record says cancelling.  Without a record it     *)
(* returns and the work goes on.                                           *)
Boundary(o) ==
    /\ worker[o] = "running"
    /\ IF items[o] = "cancelling"
       THEN /\ worker' = [worker EXCEPT ![o] = "stopping"]
            /\ UNCHANGED <<items, disk, stale, units>>
       ELSE /\ units[o] < Units
            /\ units' = [units EXCEPT ![o] = @ + 1]
            /\ IF items[o] = "none" THEN UNCHANGED <<items, disk, stale>>
               ELSE Record(o, items[o])
            /\ UNCHANGED worker
    /\ UNCHANGED <<asked, crashes>>

(* Something raises between two boundaries. *)
Break(o) ==
    /\ worker[o] = "running"
    /\ worker' = [worker EXCEPT ![o] = "failing"]
    /\ UNCHANGED <<items, disk, stale, units, asked, crashes>>

(* What the worker has come to, and what is recorded of it. *)
Outcome(o) ==
    CASE worker[o] = "stopping" -> [worker |-> "stopped", state |-> "cancelled"]
      [] worker[o] = "failing"  -> [worker |-> "broken", state |-> "failed"]
      [] OTHER                  -> [worker |-> "finished", state |-> "complete"]

(* Mutant of Settle: an operation somebody wanted to stop is recorded as   *)
(* cancelled, whatever it did.                                             *)
SettleAsAsked(o) ==
    /\ worker[o] \in {"stopping", "failing"} \/ (worker[o] = "running" /\ units[o] = Units)
    /\ worker' = [worker EXCEPT ![o] = Outcome(o).worker]
    /\ IF items[o] = "none" THEN UNCHANGED <<items, disk, stale>>
       ELSE Record(o, IF items[o] = "cancelling" THEN "cancelled" ELSE Outcome(o).state)
    /\ UNCHANGED <<units, asked, crashes>>

(* Mutant of Settle: a stopped operation is not recorded at all. *)
SettleUnlessStopped(o) ==
    /\ worker[o] \in {"stopping", "failing"} \/ (worker[o] = "running" /\ units[o] = Units)
    /\ worker' = [worker EXCEPT ![o] = Outcome(o).worker]
    /\ IF items[o] = "none" \/ worker[o] = "stopping" THEN UNCHANGED <<items, disk, stale>>
       ELSE Record(o, Outcome(o).state)
    /\ UNCHANGED <<units, asked, crashes>>

(* tracked ends the record: cancelled, failed, or complete, also when a    *)
(* cancel came after the last boundary.  A record that is gone stays gone. *)
Settle(o) ==
    /\ worker[o] \in {"stopping", "failing"} \/ (worker[o] = "running" /\ units[o] = Units)
    /\ worker' = [worker EXCEPT ![o] = Outcome(o).worker]
    /\ IF items[o] = "none" THEN UNCHANGED <<items, disk, stale>>
       ELSE Record(o, Outcome(o).state)
    /\ UNCHANGED <<units, asked, crashes>>

(* cancel may come before the start and makes a record then; one that has  *)
(* ended is left as it is.                                                 *)
Cancel(o) ==
    /\ IF items[o] \in {"none", "running"}
       THEN Record(o, "cancelling")
       ELSE UNCHANGED <<items, stale>> /\ Persist
    /\ asked' = [asked EXCEPT ![o] = items'[o] = "cancelling"]
    /\ UNCHANGED <<worker, units, crashes>>

(* clear_terminal. *)
Clear ==
    /\ items' = [o \in Operations |-> IF items[o] \in Terminal THEN "none" ELSE items[o]]
    /\ stale' = [o \in Operations |-> stale[o] /\ items'[o] # "none"]
    /\ Persist
    /\ UNCHANGED <<worker, units, asked, crashes>>

(* An hour passes in which nothing happens to the record. *)
Age(o) ==
    /\ items[o] # "none"
    /\ stale' = [stale EXCEPT ![o] = TRUE]
    /\ UNCHANGED <<items, disk, worker, units, asked, crashes>>

(* _load: nothing that was running is. *)
Loaded(s) == IF s \in Unfinished THEN "interrupted" ELSE s

(* The server stops and starts again. operations.json is not written then. *)
Crash ==
    /\ crashes < MaxCrashes
    /\ crashes' = crashes + 1
    /\ items' = [o \in Operations |-> Loaded(disk[o])]
    /\ worker' = [o \in Operations |-> IF worker[o] \in Alive THEN "gone" ELSE worker[o]]
    /\ asked' = [o \in Operations |-> FALSE]
    /\ UNCHANGED <<disk, stale, units>>

Step(o) == Boundary(o) \/ Break(o) \/ Settle(o)

Next ==
    \/ \E o \in Operations : Start(o) \/ Step(o) \/ Cancel(o) \/ Age(o)
    \/ Clear
    \/ Crash

(* A request that runs goes on running; nothing makes a client act. *)
Fairness == \A o \in Operations : WF_vars(Step(o))

Spec == Init /\ [][Next]_vars

FairSpec == Spec /\ Fairness

-----------------------------------------------------------------------------
(* Properties.                                                             *)

(* A cancel that was accepted, even one that came before the operation     *)
(* started, is kept: the operation passes no further boundary, whatever    *)
(* else is started, cleared or ended meanwhile (OperationCancelled).  It   *)
(* is forgotten with a record nobody touched for an hour.                  *)
CancelHolds ==
    [][\A o \in Operations : asked[o] => units'[o] = units[o]]_vars

(* A record that has ended says what the operation did: a cancel that came *)
(* too late is not reported as one, and a restart does not rewrite history. *)
ReportsAgree ==
    \A o \in Operations :
        /\ items[o] = "complete"  => worker[o] = "finished"
        /\ items[o] = "failed"    => worker[o] = "broken"
        /\ items[o] = "cancelled" => worker[o] = "stopped"

(* No record says running unless a request of this process is running it;  *)
(* one that says interrupted is of no request that still runs (_load).     *)
RunningIsAlive ==
    \A o \in Operations :
        /\ items[o] = "running" => worker[o] \in Alive
        /\ items[o] = "interrupted" => worker[o] \notin Alive

(* A restart brings back every record that had ended as it was.            *)
EndedSurvivesRestart ==
    [][crashes' # crashes =>
        \A o \in Operations : items[o] \in Terminal => items'[o] = items[o]]_vars

(* While it runs, an operation that is asked to stop comes to an end, and  *)
(* its record says so or is gone.                                          *)
CancelEnds ==
    \A o \in Operations :
        (items[o] = "cancelling" /\ worker[o] \in Alive)
            ~> (items[o] # "cancelling" /\ worker[o] \notin Alive)

(* What the accepted cancel of an operation that may still work relies on. *)
Remembered ==
    \A o \in Operations :
        (asked[o] /\ worker[o] \in {"idle", "running"}) => items[o] = "cancelling"

(* The file agrees with memory, except for what a restart found running.   *)
DiskAgrees == \A o \in Operations : items[o] \in {disk[o], Loaded(disk[o])}

(* What every step of the registry keeps, and the properties follow from.  *)
RegistryInv ==
    /\ TypeOK
    /\ Remembered
    /\ DiskAgrees
    /\ ReportsAgree
    /\ RunningIsAlive

=============================================================================
