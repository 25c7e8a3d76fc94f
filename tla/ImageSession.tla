---------------------------- MODULE ImageSession ----------------------------
(***************************************************************************)
(* One working image and every request that can reach it: the bracket of   *)
(* an image-changing request (check, automatic checkpoint, view, finish or *)
(* roll back), undo, restoring, naming and deleting checkpoints, saving    *)
(* for download, the hand-off to the emulator, and a crash of the server.  *)
(*                                                                         *)
(* Flask serves requests in threads, so requests interleave.  session.lock *)
(* is held inside one step of a request and released between two; each     *)
(* action below is one such locked step, or one unlocked test.             *)
(*                                                                         *)
(* The image's bytes are abstracted to the set of changes they hold: the   *)
(* requests that have written something, wholly or in part, and            *)
(* EmulatorRun once a machine has written to the drive.                    *)
(***************************************************************************)
EXTENDS Naturals, FiniteSets

CONSTANTS
    Requests,     \* HTTP requests for this image; each is made once
    Kinds,        \* the kinds of request that are made
    AutoLimit,    \* AUTOMATIC_CHECKPOINT_LIMIT
    EmulatorRun,  \* the change an emulated machine makes to the drive
    Serial,       \* the client waits for each answer before it asks again
    MaxCrashes    \* bound on the crashes of the server

AllKinds == {"edit", "prepare", "boot", "install",
             "restore", "undo", "name", "drop"}

(* The kinds declared with @image_mutation: each runs inside the bracket.  *)
Bracketed == {"edit", "prepare", "boot"}

ASSUME KindsAssumption == Kinds \subseteq AllKinds
ASSUME LimitAssumption == AutoLimit \in Nat \ {0}
ASSUME EmulatorRunAssumption == EmulatorRun \notin Requests
ASSUME SerialAssumption == Serial \in BOOLEAN
ASSUME CrashAssumption == MaxCrashes \in Nat

VARIABLES
    image,      \* the changes the working file holds
    dirty,      \* session.dirty
    stored,     \* the "dirty" field of session.json
    points,     \* the checkpoints on disk
    clock,      \* stamps a checkpoint's creation
    pc,         \* where each request stands
    kind,       \* what each request is
    target,     \* the checkpoint a request restores, by the request that made it
    touched,    \* the fingerprint taken by a request no longer matches
    emulator,   \* the managed emulator
    orphan,     \* an emulator a crash left behind still writes the image
    everSaved,  \* history: contents opened or prepared for download
    crashes     \* crashes so far

fileVars == <<image, points, stored>>
requestVars == <<pc, kind, target, touched>>
vars == <<image, dirty, stored, points, clock, pc, kind, target, touched,
          emulator, orphan, everSaved, crashes>>

Changes == Requests \cup {EmulatorRun}

Point == [by : Requests, auto : BOOLEAN, image : SUBSET Changes,
          dirty : BOOLEAN, created : Nat]

InView == {"begun", "cleared", "written", "marked"}
Open == {"checked", "failing", "rolling", "restored"} \cup InView
(* "unrolled" is an error answer whose rollback was refused; "lost" never  *)
(* answered, because the server stopped.                                   *)
Answered == {"ok", "failed", "unrolled", "lost"}

TypeOK ==
    /\ image \subseteq Changes
    /\ dirty \in BOOLEAN
    /\ stored \in BOOLEAN
    /\ points \subseteq Point
    /\ clock \in Nat
    /\ \A p \in points : p.created < clock
    /\ pc \in [Requests -> {"idle"} \cup Open \cup Answered]
    /\ kind \in [Requests -> AllKinds \cup {"none"}]
    /\ target \in [Requests -> Requests]
    /\ touched \in [Requests -> BOOLEAN]
    /\ emulator \in {"off", "running", "detached", "closing"}
    /\ orphan \in BOOLEAN
    /\ everSaved \subseteq SUBSET Changes
    /\ crashes \in 0..MaxCrashes

-----------------------------------------------------------------------------
(* Checkpoints.                                                            *)

InFlight == {r \in Requests : pc[r] \in Open}

Admitted == Serial => InFlight = {}

(* session.in_emulator, set on entering StagedMedia and cleared on leaving. *)
InEmulator == emulator \in {"running", "detached"}

PointOf(r) == {p \in points : p.by = r}

Automatic(P) == {p \in P : p.auto}

Latest(P) == {p \in P : \A q \in P : q.created <= p.created}

Snapshot(r, auto) ==
    [by |-> r, auto |-> auto, image |-> image, dirty |-> dirty,
     created |-> clock]

(* Mutant of Pruned: one automatic point too many is kept. *)
PrunedOffByOne(P) ==
    {p \in P : p.auto =>
        Cardinality({q \in Automatic(P) : q.created > p.created}) <= AutoLimit}

(* prune_automatic keeps the newest AutoLimit automatic points and every   *)
(* named one.                                                              *)
Pruned(P) ==
    {p \in P : p.auto =>
        Cardinality({q \in Automatic(P) : q.created > p.created}) < AutoLimit}

(* Every open fingerprint is stale once the image file is written.         *)
TouchAll == touched' = [r \in Requests |-> TRUE]

(* Mutant of RestoreTo: the session keeps the dirty flag it has. *)
RestoreKeepsDirty(p) ==
    /\ image' = p.image
    /\ stored' = dirty
    /\ emulator' = IF emulator = "running" THEN "detached" ELSE emulator
    /\ orphan' = FALSE
    /\ TouchAll
    /\ UNCHANGED dirty

(* CheckpointStore.restore replaces the working file by a copy of the      *)
(* point, so a machine that has the old file open no longer writes to this *)
(* image; then the session's fields follow and session.json is persisted.  *)
RestoreTo(p) ==
    /\ image' = p.image
    /\ dirty' = p.dirty
    /\ stored' = p.dirty
    /\ emulator' = IF emulator = "running" THEN "detached" ELSE emulator
    /\ orphan' = FALSE
    /\ TouchAll

Goto(r, label) == pc' = [pc EXCEPT ![r] = label]

Arrive(r, k, label) ==
    /\ pc[r] = "idle"
    /\ k \in Kinds
    /\ Admitted
    /\ kind' = [kind EXCEPT ![r] = k]
    /\ Goto(r, label)

-----------------------------------------------------------------------------
(* The bracket of an image-changing request (app/server.py).               *)

Init ==
    /\ image = {} /\ dirty = FALSE /\ stored = FALSE
    /\ points = {} /\ clock = 0
    /\ pc = [r \in Requests |-> "idle"]
    /\ kind = [r \in Requests |-> "none"]
    /\ target = [r \in Requests |-> r]
    /\ touched = [r \in Requests |-> FALSE]
    /\ emulator = "off" /\ orphan = FALSE
    /\ everSaved = {{}} /\ crashes = 0

(* before_request: a drive in the emulator is answered 409 and nothing     *)
(* happens; otherwise the request goes on to take its undo point.          *)
Check(r) ==
    /\ \E k \in Bracketed : Arrive(r, k, "checked")
    /\ ~InEmulator
    /\ UNCHANGED <<fileVars, dirty, clock, target, touched, emulator, orphan,
                   everSaved, crashes>>

(* Mutant of Begin: an undo point that exists already is used again. *)
BeginReusesPoint(r) ==
    /\ pc[r] = "checked"
    /\ IF Automatic(points) = {}
       THEN /\ points' = points \cup {Snapshot(r, TRUE)}
            /\ clock' = clock + 1
            /\ target' = [target EXCEPT ![r] = r]
       ELSE /\ \E p \in Latest(Automatic(points)) :
                    target' = [target EXCEPT ![r] = p.by]
            /\ UNCHANGED <<points, clock>>
    /\ touched' = [touched EXCEPT ![r] = FALSE]
    /\ Goto(r, "begun")
    /\ UNCHANGED <<image, dirty, stored, kind, emulator, orphan, everSaved,
                   crashes>>

(* begin_automatic_checkpoint: fingerprint and copy under one lock.        *)
Begin(r) ==
    /\ pc[r] = "checked"
    /\ points' = points \cup {Snapshot(r, TRUE)}
    /\ clock' = clock + 1
    /\ target' = [target EXCEPT ![r] = r]
    /\ touched' = [touched EXCEPT ![r] = FALSE]
    /\ Goto(r, "begun")
    /\ UNCHANGED <<image, dirty, stored, kind, emulator, orphan, everSaved,
                   crashes>>

(* require_writable_geometry looks at in_emulator before the lock is taken. *)
Clear(r) ==
    /\ pc[r] = "begun" /\ kind[r] = "edit"
    /\ ~InEmulator
    /\ Goto(r, "cleared")
    /\ UNCHANGED <<fileVars, dirty, clock, kind, target, touched, emulator,
                   orphan, everSaved, crashes>>

(* The locked part of an edit: some bytes of the change reach the file.    *)
Write(r) ==
    /\ pc[r] = "cleared"
    /\ image' = image \cup {r}
    /\ TouchAll
    /\ Goto(r, "written")
    /\ UNCHANGED <<dirty, stored, points, clock, kind, target, emulator,
                   orphan, everSaved, crashes>>

(* _mark_mutated comes after the volume's mount has let go of the lock.    *)
(* Some editing services persist here, others leave it to the finaliser.   *)
Mark(r) ==
    /\ pc[r] = "written"
    /\ dirty' = TRUE
    /\ stored' \in {stored, TRUE}
    /\ Goto(r, "marked")
    /\ UNCHANGED <<image, points, clock, kind, target, touched, emulator,
                   orphan, everSaved, crashes>>

(* prepare_image_download: the archive is built and mark_saved called in   *)
(* one hold of the lock.  Finalising may stamp the root block.             *)
Prepare(r) ==
    /\ pc[r] = "begun" /\ kind[r] = "prepare"
    /\ everSaved' = everSaved \cup {image}
    /\ dirty' = FALSE
    /\ stored' = FALSE
    /\ TouchAll \/ UNCHANGED touched
    /\ Goto(r, "marked")
    /\ UNCHANGED <<image, points, clock, kind, target, emulator, orphan,
                   crashes>>

(* The view raises: before writing, part way through, or after one of      *)
(* several items.                                                          *)
FailView(r) ==
    /\ pc[r] \in InView /\ kind[r] \in Bracketed
    /\ Goto(r, "failing")
    /\ UNCHANGED <<fileVars, dirty, clock, kind, target, touched, emulator,
                   orphan, everSaved, crashes>>

(* The view has returned.  An edit may find nothing to change.             *)
Succeeds(r) ==
    \/ pc[r] = "marked" /\ kind[r] \in Bracketed
    \/ pc[r] = "begun" /\ kind[r] = "edit"

(* Mutant of Finish: a running machine is not taken for a change. *)
FinishIgnoresMachine(r) ==
    /\ Succeeds(r)
    /\ points' = IF ~touched[r] THEN points \ PointOf(r) ELSE Pruned(points)
    /\ stored' = dirty
    /\ Goto(r, "ok")
    /\ UNCHANGED <<image, dirty, clock, kind, target, touched, emulator,
                   orphan, everSaved, crashes>>

(* finish_automatic_checkpoint: the undo point goes if the fingerprint     *)
(* still matches and no machine holds the drive; otherwise it stays and    *)
(* the oldest automatic points are pruned.  session.json is persisted.     *)
Finish(r) ==
    /\ Succeeds(r)
    /\ LET unchanged == ~touched[r] /\ ~InEmulator IN
       points' = IF unchanged THEN points \ PointOf(r) ELSE Pruned(points)
    /\ stored' = dirty
    /\ Goto(r, "ok")
    /\ UNCHANGED <<image, dirty, clock, kind, target, touched, emulator,
                   orphan, everSaved, crashes>>

-----------------------------------------------------------------------------
(* Going back to a checkpoint.                                             *)

(* Mutant of MayRestore: the machine is not looked at. *)
RestoreAnyway(r) ==
    /\ \/ pc[r] = "failing"
       \/ pc[r] = "begun" /\ kind[r] = "restore"
    /\ Goto(r, "rolling")
    /\ UNCHANGED <<fileVars, dirty, clock, kind, target, touched, emulator,
                   orphan, everSaved, crashes>>

(* restore_checkpoint looks at in_emulator before it takes the lock.  A    *)
(* rollback that is refused is only logged; the answer is already decided. *)
MayRestore(r) ==
    /\ \/ pc[r] = "failing"
       \/ pc[r] = "begun" /\ kind[r] = "restore"
    /\ IF ~InEmulator THEN Goto(r, "rolling")
       ELSE Goto(r, IF kind[r] = "restore" THEN "failed" ELSE "unrolled")
    /\ UNCHANGED <<fileVars, dirty, clock, kind, target, touched, emulator,
                   orphan, everSaved, crashes>>

(* The locked part.  The point may have gone meanwhile: undone, deleted or *)
(* pruned.  A rollback deletes its point in a second hold of the lock.     *)
Restore(r) ==
    /\ pc[r] = "rolling"
    /\ \E p \in PointOf(target[r]) :
        /\ RestoreTo(p)
        /\ Goto(r, IF kind[r] = "restore" THEN "ok" ELSE "restored")
    /\ UNCHANGED <<points, clock, kind, target, everSaved, crashes>>

PointGone(r) ==
    /\ pc[r] = "rolling"
    /\ PointOf(target[r]) = {}
    /\ Goto(r, IF kind[r] = "restore" THEN "failed" ELSE "unrolled")
    /\ UNCHANGED <<fileVars, dirty, clock, kind, target, touched, emulator,
                   orphan, everSaved, crashes>>

(* Mutant of DeleteRolledBack: the speculative point is left behind. *)
LeaveRolledBack(r) ==
    /\ pc[r] = "restored"
    /\ Goto(r, "failed")
    /\ UNCHANGED <<fileVars, dirty, clock, kind, target, touched, emulator,
                   orphan, everSaved, crashes>>

DeleteRolledBack(r) ==
    /\ pc[r] = "restored"
    /\ points' = points \ PointOf(r)
    /\ Goto(r, "failed")
    /\ UNCHANGED <<image, dirty, stored, clock, kind, target, touched,
                   emulator, orphan, everSaved, crashes>>

(* restore_image_checkpoint saves the state it is about to replace as a    *)
(* fresh automatic point.  No finaliser follows it, so nothing is pruned.  *)
RestoreBegin(r) ==
    /\ Arrive(r, "restore", "begun")
    /\ points' = points \cup {Snapshot(r, TRUE)}
    /\ clock' = clock + 1
    /\ \E t \in Requests \ {r} : target' = [target EXCEPT ![r] = t]
    /\ UNCHANGED <<image, dirty, stored, touched, emulator, orphan, everSaved,
                   crashes>>

(* Mutant of Undo: the newest point of any kind is taken. *)
UndoAnyPoint(r) ==
    /\ Arrive(r, "undo", "ok")
    /\ ~InEmulator
    /\ \E p \in Latest(points) : RestoreTo(p) /\ points' = points \ {p}
    /\ UNCHANGED <<clock, target, everSaved, crashes>>

(* undo_last_change restores and consumes the newest automatic point, in   *)
(* one hold of the lock.                                                   *)
Undo(r) ==
    /\ Arrive(r, "undo", "ok")
    /\ ~InEmulator
    /\ \E p \in Latest(Automatic(points)) :
        RestoreTo(p) /\ points' = points \ {p}
    /\ UNCHANGED <<clock, target, everSaved, crashes>>

(* A named checkpoint may be made at any time, also while a machine runs.  *)
Name(r) ==
    /\ Arrive(r, "name", "ok")
    /\ points' = points \cup {Snapshot(r, FALSE)}
    /\ clock' = clock + 1
    /\ UNCHANGED <<image, dirty, stored, target, touched, emulator, orphan,
                   everSaved, crashes>>

(* Any listed point may be deleted. *)
Drop(r) ==
    /\ Arrive(r, "drop", "ok")
    /\ \E p \in points : points' = points \ {p}
    /\ UNCHANGED <<image, dirty, stored, clock, target, touched, emulator,
                   orphan, everSaved, crashes>>

-----------------------------------------------------------------------------
(* The emulator.  Only runs that are given the image writable are modelled *)
(* here; the process and its staged media are not.                          *)

(* InteractiveEmulator.start first ends the machine that is running.  The  *)
(* manager's lock is held while a machine is being closed.                 *)
StartMachine ==
    /\ emulator # "closing"
    /\ emulator' = "running"
    /\ IF emulator = "off" THEN UNCHANGED <<dirty, stored>>
       ELSE dirty' = TRUE /\ stored' = TRUE

(* boot_amigaos_cd runs inside the bracket.                                *)
Boot(r) ==
    /\ pc[r] = "begun" /\ kind[r] = "boot"
    /\ StartMachine
    /\ Goto(r, "marked")
    /\ UNCHANGED <<image, points, clock, kind, target, touched, orphan,
                   everSaved, crashes>>

(* install_under_emulation is declared external: no bracket, no undo point. *)
Install(r) ==
    /\ Arrive(r, "install", "ok")
    /\ StartMachine
    /\ UNCHANGED <<image, points, clock, target, touched, orphan, everSaved,
                   crashes>>

MachineWrites ==
    /\ emulator = "running" \/ orphan
    /\ image' = image \cup {EmulatorRun}
    /\ TouchAll
    /\ UNCHANGED <<dirty, stored, points, clock, pc, kind, target, emulator,
                   orphan, everSaved, crashes>>

(* StagedMedia.__exit__ clears in_emulator, then emulator_finished takes   *)
(* session.lock to mark the image changed and persist it.                  *)
MachineCloses ==
    /\ InEmulator
    /\ emulator' = "closing"
    /\ UNCHANGED <<fileVars, requestVars, dirty, clock, orphan, everSaved,
                   crashes>>

MachineFinished ==
    /\ emulator = "closing"
    /\ emulator' = "off"
    /\ dirty' = TRUE
    /\ stored' = TRUE
    /\ UNCHANGED <<image, points, requestVars, clock, orphan, everSaved,
                   crashes>>

-----------------------------------------------------------------------------
(* A crash loses the requests in flight and everything held in memory; the *)
(* session comes back from session.json.  in_emulator is not stored there, *)
(* and the emulator, a process of its own, keeps the image open.           *)

CrashLeaving(bytes, detached) ==
    /\ crashes < MaxCrashes
    /\ crashes' = crashes + 1
    /\ image' = bytes
    /\ dirty' = stored
    /\ pc' = [r \in Requests |-> IF pc[r] \in Open THEN "lost" ELSE pc[r]]
    /\ emulator' = "off"
    /\ orphan' = (~detached /\ (orphan \/ emulator = "running"))
    /\ UNCHANGED <<points, stored, clock, kind, target, touched, everSaved>>

Crash == CrashLeaving(image, FALSE)

(* Inside a restore: the file is already the checkpoint's, session.json is *)
(* not yet.                                                                *)
CrashInRestore ==
    \E r \in Requests : \E p \in PointOf(target[r]) :
        /\ pc[r] = "rolling"
        /\ CrashLeaving(p.image, TRUE)

CrashInUndo ==
    \E r \in Requests :
        /\ pc[r] = "idle" /\ "undo" \in Kinds /\ Admitted
        /\ ~InEmulator
        /\ crashes < MaxCrashes
        /\ crashes' = crashes + 1
        /\ \E p \in Latest(Automatic(points)) : image' = p.image
        /\ dirty' = stored
        /\ pc' = [q \in Requests |->
                    IF q = r \/ pc[q] \in Open THEN "lost" ELSE pc[q]]
        /\ kind' = [kind EXCEPT ![r] = "undo"]
        /\ emulator' = "off"
        /\ orphan' = FALSE
        /\ UNCHANGED <<points, stored, clock, target, touched, everSaved>>

-----------------------------------------------------------------------------
RequestStep(r) ==
    \/ Check(r) \/ Begin(r) \/ Clear(r) \/ Write(r) \/ Mark(r)
    \/ Prepare(r) \/ Boot(r) \/ FailView(r) \/ Finish(r)
    \/ MayRestore(r) \/ Restore(r) \/ PointGone(r) \/ DeleteRolledBack(r)
    \/ RestoreBegin(r) \/ Undo(r) \/ Name(r) \/ Drop(r) \/ Install(r)

Next ==
    \/ \E r \in Requests : RequestStep(r)
    \/ MachineWrites \/ MachineCloses \/ MachineFinished
    \/ Crash \/ CrashInRestore \/ CrashInUndo

Spec == Init /\ [][Next]_vars

-----------------------------------------------------------------------------
(* Properties.                                                             *)

(* The step is that of an undo or of a restore somebody asked for. *)
GoingBack ==
    \E r \in Requests :
        kind'[r] \in {"undo", "restore"} /\ pc'[r] # pc[r]

(* A change that was answered with success leaves the image only when an   *)
(* undo or a restore is asked for: never because another request failed    *)
(* and was rolled back (rollback_automatic_checkpoint).                    *)
AcknowledgedChangeSurvives ==
    [][\A r \in Requests :
        (kind[r] = "edit" /\ pc[r] = "ok" /\ r \in image /\ r \notin image')
            => GoingBack]_vars

(* An edit that was answered with an error has been rolled back in full:   *)
(* the image holds nothing of it and its undo point is gone.               *)
FailedEditLeavesNothing ==
    \A r \in Requests :
        (kind[r] = "edit" /\ pc[r] \in {"failed", "unrolled"})
            => r \notin image /\ PointOf(r) = {}

(* Nothing is under way and no machine has the image. *)
Quiet == InFlight = {} /\ emulator = "off" /\ ~orphan

(* Nothing crashed, and no machine was given the image. *)
Plain == crashes = 0 /\ \A r \in Requests : kind[r] \notin {"boot", "install"}

(* An image shown as saved holds bytes that were once opened or prepared   *)
(* for download, whatever was undone or restored since (dirty travels in a *)
(* checkpoint's state).  Histories with a machine are left out: a point    *)
(* that is taken while it runs says clean of what the machine wrote.       *)
CleanMeansSaved ==
    (Quiet /\ ~dirty /\ Plain) => image \in everSaved

(* While a machine has the image that was handed over in a bracket, an     *)
(* automatic point holds it as it was then, apart from what earlier        *)
(* machines wrote: the run can be undone (finish_automatic_checkpoint      *)
(* keeps the point), unless somebody deletes a point.                      *)
HandoffCanBeUndone ==
    (InEmulator /\ \A r \in Requests : kind[r] \notin {"drop", "install"}) =>
        \E p \in Automatic(points) :
            p.image \ {EmulatorRun} = image \ {EmulatorRun}

(* Requests that finish leave at most AutoLimit undo points between them,  *)
(* however many were in flight together.                                   *)
FinishedWithinLimit ==
    Cardinality({p \in Automatic(points) :
        kind[p.by] \in Bracketed /\ pc[p.by] = "ok"}) <= AutoLimit

(* A rolled back request leaves no point behind to undo to, even when      *)
(* other requests finished, undid or pruned while it ran.                  *)
FailedLeavesNoPoint ==
    \A p \in points :
        kind[p.by] \in Bracketed => pc[p.by] # "failed"

(* While a machine has the image, nothing else changes it (the comment on  *)
(* ImageSession.in_emulator).                                              *)
EmulatorOwnsImage ==
    [][InEmulator /\ image' # image => image' = image \cup {EmulatorRun}]_vars

(* A request that holds its undo point and has not answered is hidden: the *)
(* user sees the image and the undo list as they were before it.           *)
Hidden == {p \in points : p.by \in InFlight}

Shown == IF Hidden = {} THEN image ELSE (CHOOSE p \in Hidden : TRUE).image
ShownUndo == Automatic(points \ Hidden)
ShownNamed == {p \in points \ Hidden : ~p.auto}
Attached == InEmulator \/ orphan

History == INSTANCE EditHistory WITH
    Changes <- Changes, Limit <- AutoLimit,
    image <- Shown, undo <- ShownUndo, named <- ShownNamed, attached <- Attached

(* With one request at a time the session implements the history.          *)
ImplementsHistory == History!Spec

-----------------------------------------------------------------------------
(* The invariant behind these properties when requests are serial.         *)

(* Requests are answered one at a time. *)
OneAtATime == \A r, q \in InFlight : r = q

KindFits ==
    \A r \in Requests :
        /\ pc[r] \in {"cleared", "written"} => kind[r] = "edit"
        /\ pc[r] \in {"checked", "marked", "failing", "restored"}
               => kind[r] \in Bracketed
        /\ pc[r] \in {"begun", "rolling"} => kind[r] \in Bracketed \cup {"restore"}

(* Only edits that are under way, were answered with success or never were *)
(* answered have bytes in the image.                                       *)
WrittenByEdits ==
    \A r \in Requests \cap image :
        /\ kind[r] = "edit"
        /\ pc[r] \in {"written", "marked", "failing", "rolling", "ok", "lost"}

(* A checkpoint never holds part of a request that can still be rolled back. *)
RecordedWhole ==
    \A p \in points : \A r \in Requests \cap p.image :
        kind[r] = "edit" /\ pc[r] \in {"ok", "lost"}

MadeByStarted ==
    \A p \in points : pc[p.by] \notin {"idle", "checked"}

(* A request that may yet fail still has its undo point, and nothing but   *)
(* its own change and a machine's has come to the image since.             *)
CanRollBack ==
    \A r \in Requests :
        (pc[r] \in InView \cup {"failing", "rolling"} /\ kind[r] \in Bracketed)
            => /\ target[r] = r
               /\ PointOf(r) # {}
               /\ \A p \in PointOf(r) : image \subseteq p.image \cup {r, EmulatorRun}

(* No machine has the image where a request relies on having looked. *)
LookedInTime ==
    \A r \in Requests :
        (pc[r] \in {"checked", "rolling"} \/ (kind[r] = "edit" /\ pc[r] \in Open))
            => ~InEmulator

EditUndone ==
    \A r \in Requests :
        (kind[r] = "edit" /\ pc[r] \in {"failed", "unrolled"}) => PointOf(r) = {}

(* What holds between the steps of serial requests, from which the three   *)
(* properties of the bracket follow.                                       *)
SerialInv ==
    /\ OneAtATime
    /\ KindFits
    /\ WrittenByEdits
    /\ RecordedWhole
    /\ MadeByStarted
    /\ CanRollBack
    /\ LookedInTime
    /\ EditUndone

-----------------------------------------------------------------------------
(* The invariants behind the other properties.                             *)

(* Behind FinishedWithinLimit, whatever the interleaving: no two points    *)
(* have one creation stamp, so pruning orders them all.                    *)
LimitInv ==
    /\ IsFiniteSet(points)
    /\ \A p, q \in points : p.created = q.created => p = q
    /\ FinishedWithinLimit

IdleIsNew == \A r \in Requests : pc[r] = "idle" => kind[r] = "none"

(* Behind CleanMeansSaved, with SerialInv: a point that says clean holds    *)
(* what was saved, and so does the image unless an edit that is under way  *)
(* has written it and not yet marked it.                                   *)
Unmarked(r) == kind[r] = "edit" /\ pc[r] \in {"written", "failing", "rolling"}

SavedInv ==
    /\ IdleIsNew
    /\ Plain =>
        /\ emulator = "off" /\ ~orphan
        /\ \A p \in points : ~p.dirty => p.image \in everSaved
        /\ dirty \/ image \in everSaved \/ \E r \in Requests : Unmarked(r)

(* The newest automatic point holds the image, but for a machine's writes. *)
NewestHoldsImage ==
    \E p \in Latest(Automatic(points)) :
        p.image \ {EmulatorRun} = image \ {EmulatorRun}

(* Behind HandoffCanBeUndone, with SerialInv: from the moment a boot has   *)
(* its undo point until its machine has closed, that point is the newest.  *)
HandoffInv ==
    /\ IdleIsNew
    /\ \A r \in Requests : pc[r] = "restored" => ~InEmulator
    /\ \A r \in Requests :
          (kind[r] = "boot" /\ pc[r] = "begun") => NewestHoldsImage
    /\ (InEmulator /\ \A r \in Requests : kind[r] \notin {"drop", "install"})
          => NewestHoldsImage

Untouched(r) ==
    ~touched[r] /\ kind[r] \in Bracketed /\ pc[r] \in InView

(* Behind ImplementsHistory, with SerialInv: the point of a request under  *)
(* way is the newest, the image holds all it recorded, and exactly that    *)
(* when nothing was written since or it has been rolled back.              *)
HistoryInv ==
    /\ \A p, q \in points : p.by = q.by => p = q
    /\ \A p \in Hidden :
        /\ p.auto
        /\ \A q \in points \ {p} : q.created < p.created
        /\ p.image \subseteq image
        /\ (pc[p.by] = "restored" \/ Untouched(p.by)) => p.image = image
    /\ \A r \in InFlight :
        /\ pc[r] = "restored" => emulator # "running" /\ ~orphan
        /\ kind[r] = "restore" => target[r] # r /\ PointOf(r) # {}

=============================================================================
