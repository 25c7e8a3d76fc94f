----------------------------- MODULE SystemInstall -----------------------------
(***************************************************************************)
(* Installing a system onto a volume: AmigaOS from its CD with the update  *)
(* packs that came after it (amigaos_cd_install.py, boingbag.py,           *)
(* boingbag_update.py, system_tree.py), Workbench from its disks           *)
(* (workbench_install.py) and WHDLoad (install_service.py, whdload.py).    *)
(* A path is a number, in the order in which files are written, and what   *)
(* it holds is a number too: which copy of the file it is, older copies    *)
(* first.  Every file takes one unit of the room there is.  A name that is *)
(* a file in one layer and a drawer in another is left out.                *)
(***************************************************************************)
EXTENDS Integers, Sequences, FiniteSetsExt

CONSTANTS
    Paths,      \* 1..n, the files, and the drawer that is made at the end
    Edited,     \* the file a person edits: S/User-Startup, S/WHDLoad.prefs
    NewDrawer,  \* the drawer that no disc provides
    Layers,     \* the layers of the release: <<[files, required]>>
    Packs,      \* its update packs, oldest first: <<[plain, locked]>>
    Disks,      \* the files of the disk of each role, in their order
    Piles,      \* the disks a person has, each a set of [role, version, quality]
    Program,    \* the files of WHDLoad; the least says whether it is there
    Faults,     \* what cannot be read, each a path and a copy of it, <<0, 0>> is nothing
    MaxRoom,    \* the room on the volume, 0..n
    BatchFiles  \* BATCH_FILES

VARIABLES
    drive,      \* path -> what it holds
    room,       \* the room left
    before,     \* [drive, room] when the request came
    job,        \* the request
    stage,      \* where it is
    tree,       \* SystemTree: path -> the copy to be written
    todo,       \* the packs to add, disks to copy or files to write
    target,     \* the drawer the Updater writes into: path -> how much of it
    marker,     \* whether the machine wrote that it was through
    outcome,    \* pack -> the files its Updater is reported to have written
    failed      \* packs whose Updater gave up, which nothing tells

installVars == <<drive, room, before, job, stage, tree, todo, target, marker, outcome,
               failed>>

-----------------------------------------------------------------------------
(* Copies of a file.                                                       *)

InPart == -2    \* a part of a file
Drawer == -1
Absent == 0
Own == 1        \* what was on the drive
Layer(i) == Own + i
Plain(k) == Own + Len(Layers) + 2 * k - 1
Locked(k) == Plain(k) + 1
Disk(i) == Own + i
Release == Own + 1      \* of WHDLoad

EmptyTree == [p \in Paths |-> Absent]
NotApplied == {}
Part == 1        \* of a file that is being written
Whole == 2
Numbers(s) == 1..Len(s)

ASSUME PathsAssumption ==
    /\ IsFiniteSet(Paths) /\ Paths \subseteq Nat \ {0}
    /\ Program \subseteq Paths /\ Program # {}
    /\ Edited \in Paths \ Program
    /\ NewDrawer \in Paths

ASSUME DiscsAssumption ==
    /\ Layers \in Seq([files : SUBSET Paths, required : BOOLEAN])
    /\ Packs \in Seq([plain : SUBSET Paths, locked : SUBSET Paths])
    /\ Disks \in Seq(SUBSET Paths)
    /\ Faults \subseteq Nat \X Nat

\* quality_of() is at most 3.
ASSUME PilesAssumption ==
    Piles \subseteq SUBSET [role : Numbers(Disks), version : Nat, quality : 0..3]

ASSUME BoundsAssumption == MaxRoom \in Nat /\ BatchFiles \in Nat \ {0}

\* SystemTree.add(): a later copy replaces an earlier one.
Add(t, files, copy) == [p \in Paths |-> IF p \in files THEN copy ELSE t[p]]

\* SystemTree.files()
Listed(t) == {p \in Paths : t[p] # Absent}

Size(t) == Cardinality(Listed(t))

-----------------------------------------------------------------------------
(* What is chosen.                                                         *)

\* plan_release(): of the layers the disc has a later one goes over an earlier.
Resolved(present) ==
    [p \in Paths |->
        LET having == {i \in present : p \in Layers[i].files}
        IN  IF having = {} THEN Absent ELSE Layer(Max(having))]

\* Mutant: the newest pack and the last disk come first.
LastFirst(numbers) == Max(numbers)

\* for_release() and _ordered_install_set(): packs and disks are taken in the
\* order of their numbers, whatever order they were given in.
First(numbers) == Min(numbers)

\* packs_in(): of those supplied the ones named, or all when none is.
PacksIn(archives, chosen) == {k \in archives : chosen = {} \/ k \in chosen}

NoVersion == 0

\* The disks that are not of another release than the one decided on.
Usable(pile, version) ==
    {d \in pile : NoVersion \in {d.version, version} \/ d.version = version}

Best(disks, score) == CHOOSE d \in disks : \A e \in disks : score[d] >= score[e]

\* choose_set(): the release is that of the best Workbench disk, or else the
\* newest that one has.
ReleaseOf(pile) ==
    LET workbench == {d \in pile : d.role = 1}
        best == Best(workbench, [d \in workbench |-> d.quality]).version
    IN  IF workbench = {} THEN NoVersion
        ELSE IF best # NoVersion THEN best
        ELSE Max({d.version : d \in workbench})

ChooseSet(pile) ==
    LET version == ReleaseOf(pile)
        usable == Usable(pile, version)
        matches(d) == IF d.version = version THEN 2 ELSE IF d.version = NoVersion THEN 1 ELSE 0
        score == [d \in usable |-> 10 * matches(d) + d.quality]
    IN  {Best({d \in usable : d.role = r}, score) : r \in {d.role : d \in usable}}

-----------------------------------------------------------------------------
(* Requests.                                                               *)

NoJob == [kind |-> "none"]

InstallInit ==
    /\ drive \in {d \in [Paths -> {Drawer, Absent, Own}] :
                    \A p \in Paths : d[p] = Drawer => p \in Program /\ d[NewDrawer] = Absent}
    /\ room \in 0..MaxRoom
    /\ before = [drive |-> drive, room |-> room]
    /\ job = NoJob
    /\ stage = "idle"
    /\ tree = EmptyTree
    /\ todo = {}
    /\ target = EmptyTree
    /\ marker = FALSE
    /\ outcome = [k \in Numbers(Packs) |-> NotApplied]
    /\ failed = {}

\* image_mutation() goes back to the undo point of an image; a drive that is
\* attached has none.
Fails(why, attached, written, left) ==
    /\ stage' = why
    /\ drive' = IF attached THEN written ELSE before.drive
    /\ room' = IF attached THEN left ELSE before.room

\* What cannot be read: one copy of one file, or none.
Bad(p, copy) == job.bad = <<p, copy>>

\* install_amigaos_cd() begins: the disc has every layer it must have, and by
\* amigaos_cd_preflight() the volume has room for them.
AskDisc ==
    \E present \in SUBSET Numbers(Layers), archives \in SUBSET Numbers(Packs),
       chosen \in SUBSET Numbers(Packs), emulate \in BOOLEAN, attached \in BOOLEAN, bad \in Faults :
        /\ stage = "idle"
        /\ job' = [kind |-> "cd", present |-> present, packs |-> PacksIn(archives, chosen),
                   emulate |-> emulate, attached |-> attached, bad |-> bad]
        /\ tree' = Resolved(present)
        /\ todo' = job'.packs
        /\ IF (\A i \in Numbers(Layers) : Layers[i].required => i \in present)
              /\ (room = 0 \/ Size(tree') <= room)
           THEN stage' = "packs" /\ UNCHANGED <<drive, room>>
           ELSE Fails("refused", attached, drive, room)
        /\ UNCHANGED <<before, target, marker, outcome, failed>>

\* install_workbench() of the set survey_workbench_discs() proposes.
AskDisks ==
    \E pile \in Piles, attached \in BOOLEAN, bad \in Faults :
        /\ stage = "idle"
        /\ job' = [kind |-> "workbench", disks |-> ChooseSet(pile),
                    attached |-> attached, bad |-> bad]
        /\ todo' = {d.role : d \in job'.disks}
        /\ IF 1 \in {d.role : d \in job'.disks}
           THEN stage' = "copying" /\ UNCHANGED <<drive, room>>
           ELSE Fails("refused", attached, drive, room)
        /\ UNCHANGED <<before, tree, target, marker, outcome, failed>>

\* install_whdload(): the archive is read whole before anything is written.
\* Preferences are kept when they are to be and WHDLoad is there.
AskWHDLoad ==
    \E keep \in BOOLEAN, attached \in BOOLEAN, lacks \in SUBSET Program :
        /\ stage = "idle"
        /\ job' = [kind |-> "whdload", keeps |-> keep /\ drive[Min(Program)] = Own,
                   attached |-> attached, bad |-> <<0, 0>>]
        /\ tree' = Add(EmptyTree, Program \cup (IF job'.keeps THEN {} ELSE {Edited}), Release)
        /\ todo' = Listed(tree')
        /\ IF lacks = {} THEN stage' = "writing" /\ UNCHANGED <<drive, room>>
           ELSE Fails("refused", attached, drive, room)
        /\ UNCHANGED <<before, target, marker, outcome, failed>>

-----------------------------------------------------------------------------
(* Update packs.                                                           *)

\* plan_pack(): what is in the clear; then apply_locked_pack(), if there is
\* anything locked and an emulator to run its Updater.
AddPack ==
    /\ stage = "packs" /\ todo # {}
    /\ tree' = Add(tree, Packs[First(todo)].plain, Plain(First(todo)))
    /\ IF Packs[First(todo)].locked # {} /\ job.emulate
       THEN stage' = "updater" /\ UNCHANGED todo
       ELSE todo' = todo \ {First(todo)} /\ UNCHANGED stage
    /\ UNCHANGED <<drive, room, before, job, target, marker, outcome, failed>>

Running == stage = "updater"

\* The machine: the Updater writes its files one by one, and each is in the
\* folder before all of it is.
UpdaterWrites ==
    /\ Running /\ ~marker
    /\ \A p \in Paths : target[p] # Part
    /\ \E p \in Packs[First(todo)].locked :
        target[p] = Absent /\ target' = [target EXCEPT ![p] = Part]
    /\ UNCHANGED <<drive, room, before, job, stage, tree, todo, marker, outcome, failed>>

Flushes ==
    /\ Running
    /\ \E p \in Paths : target[p] = Part /\ target' = [target EXCEPT ![p] = Whole]
    /\ UNCHANGED <<drive, room, before, job, stage, tree, todo, marker, outcome, failed>>

\* The startup script goes on to the marker whatever came of the Updater.
Marks ==
    /\ Running /\ ~marker
    /\ marker' = TRUE
    /\ failed' = IF \A p \in Packs[First(todo)].locked : target[p] # Absent
                 THEN failed ELSE failed \cup {First(todo)}
    /\ UNCHANGED <<drive, room, before, job, stage, tree, todo, target, outcome>>

\* collect(): what is in the folder goes over the system.
Collected(t, k) ==
    [p \in Paths |-> CASE target[p] = Absent -> t[p]
                      [] target[p] = Part -> InPart
                      [] OTHER -> Locked(k)]

\* Mutant: what an Updater that did not finish wrote is collected too.
AppliedAlways == TRUE

Applied == marker

\* The last file is in the folder POLL_SECONDS after the marker.
Settled == marker => \A p \in Paths : target[p] # Part

\* run_updater() is over: the marker was seen, or the machine ended, nothing
\* came for IDLE_TIMEOUT or the run took RUN_TIMEOUT.  The folder is removed.
UpdaterOver ==
    /\ Running /\ Settled
    /\ IF Applied
       THEN /\ tree' = Collected(tree, First(todo))
            /\ outcome' = [outcome EXCEPT ![First(todo)] = {p \in Paths : target[p] # Absent}]
       ELSE UNCHANGED <<tree, outcome>>
    /\ stage' = "packs"
    /\ todo' = todo \ {First(todo)}
    /\ target' = EmptyTree
    /\ marker' = FALSE
    /\ UNCHANGED <<drive, room, before, job, failed>>

-----------------------------------------------------------------------------
(* Writing.                                                                *)

\* KEPT_IF_PRESENT
LeftAlone(t) == IF drive[Edited] # Absent THEN [t EXCEPT ![Edited] = Absent] ELSE t

\* _require_room(), which a volume without any room is not asked.
HasRoom(t) == room = 0 \/ Size(t) <= room

StartWriting ==
    /\ stage = "packs" /\ todo = {}
    /\ tree' = LeftAlone(tree)
    /\ IF HasRoom(tree')
       THEN stage' = "writing" /\ todo' = Listed(tree') /\ UNCHANGED <<drive, room>>
       ELSE Fails("refused", job.attached, drive, room) /\ UNCHANGED todo
    /\ UNCHANGED <<before, job, target, marker, outcome, failed>>

\* The files before the volume is full: one that replaces takes no room.
Fitting(files) ==
    {p \in files : Cardinality({q \in files : q <= p /\ drive[q] = Absent}) <= room}

\* put_host_tree(): one mount for a batch.  A file cannot replace a drawer,
\* which is found before the first is written; a full volume is not.
Put(files, copies) ==
    LET done == Fitting(files)
        written == [p \in Paths |-> IF p \in done THEN copies[p] ELSE drive[p]]
        left == room - Cardinality({p \in done : drive[p] = Absent})
    IN  IF \E p \in files : drive[p] = Drawer
        THEN Fails("clash", job.attached, drive, room)
        ELSE IF done # files
        THEN Fails("full", job.attached, written, left)
        ELSE drive' = written /\ room' = left /\ UNCHANGED stage

\* _batches()
Batch(files, n) == {p \in files : Cardinality({q \in files : q < p}) < n}

\* A file that cannot be read is left out, with a warning.
Readable(files, copies) == {p \in files : ~Bad(p, copies[p])}

WriteBatch ==
    /\ stage = "writing" /\ todo # {}
    /\ LET files == Batch(todo, IF job.kind = "cd" THEN BatchFiles ELSE 1)
       IN  /\ Put(Readable(files, tree), tree)
           /\ todo' = todo \ files
    /\ UNCHANGED <<before, job, tree, target, marker, outcome, failed>>

\* existing="skip"
Stays(p) == drive[p] \notin {Absent, Drawer}

\* copy_volume_tree() of one disk.
CopyDisk ==
    /\ stage = "copying" /\ todo # {}
    /\ LET copies == Add(EmptyTree, {p \in Disks[First(todo)] : ~Stays(p)}, Disk(First(todo)))
       IN  Put(Readable(Listed(copies), copies), copies)
    /\ todo' = todo \ {First(todo)}
    /\ UNCHANGED <<before, job, tree, target, marker, outcome, failed>>

\* _create_system_drawers(): one that cannot be made is a warning.
FinishInstall ==
    /\ stage \in {"writing", "copying"} /\ todo = {}
    /\ stage' = "done"
    /\ IF job.kind # "whdload" /\ drive[NewDrawer] = Absent /\ room > 0
       THEN drive' = [drive EXCEPT ![NewDrawer] = Drawer] /\ room' = room - 1
       ELSE UNCHANGED <<drive, room>>
    /\ UNCHANGED <<before, job, tree, todo, target, marker, outcome, failed>>

\* OperationCancelled, raised where progress is next reported; the machine is
\* ended and its folder removed.
CancelInstall ==
    /\ stage \in {"packs", "updater", "copying", "writing"}
    /\ Fails("cancelled", job.attached, drive, room)
    /\ target' = EmptyTree /\ marker' = FALSE
    /\ UNCHANGED <<before, job, tree, todo, outcome, failed>>

InstallNext ==
    \/ AskDisc
    \/ AskDisks
    \/ AskWHDLoad
    \/ AddPack
    \/ UpdaterWrites
    \/ Flushes
    \/ Marks
    \/ UpdaterOver
    \/ StartWriting
    \/ WriteBatch
    \/ CopyDisk
    \/ FinishInstall
    \/ CancelInstall

InstallSpec == InstallInit /\ [][InstallNext]_installVars

-----------------------------------------------------------------------------
(* Properties.                                                             *)

\* The copies of a file that this installation had.
Copies(p) ==
    CASE job.kind = "cd" ->
            {Layer(i) : i \in {i \in job.present : p \in Layers[i].files}}
            \cup {Plain(k) : k \in {k \in job.packs : p \in Packs[k].plain}}
            \cup {Locked(k) : k \in {k \in job.packs : p \in outcome[k]}}
      [] job.kind = "workbench" -> {Disk(d.role) : d \in {d \in job.disks : p \in Disks[d.role]}}
      [] OTHER -> IF p \in Program \cup {Edited} THEN {Release} ELSE {}

\* After an installation from a CD every file is the newest copy there was of
\* it, one that cannot be read excepted, and what a person edited is as it
\* was; after one from disks what was there is, and the rest is of the first
\* disk that has it.
Expected(p) ==
    LET usable == IF job.kind = "workbench" THEN {c \in Copies(p) : ~Bad(p, c)} ELSE Copies(p)
        kept == CASE job.kind = "cd" -> p = Edited /\ before.drive[p] # Absent
                  [] job.kind = "workbench" -> before.drive[p] = Own
                  [] OTHER -> p = Edited /\ job.keeps
    IN  IF usable = {} \/ kept THEN before.drive[p]
        ELSE IF job.kind = "workbench" THEN Min(usable)
        ELSE IF Bad(p, Max(usable)) THEN before.drive[p]
        ELSE Max(usable)

RightCopyLands ==
    stage = "done" => \A p \in Paths \ {NewDrawer} : drive[p] = Expected(p)

\* Of a pack that is reported as not applied no locked file is installed, and
\* of one that is, all are and none in part, unless its Updater gave up.
PackIsWhole ==
    job.kind = "cd" =>
        /\ \A k \in Numbers(Packs), p \in Paths :
            Locked(k) \in {tree[p], drive[p]} => p \in outcome[k]
        /\ \A k \in Numbers(Packs) \ failed : outcome[k] \in {NotApplied, Packs[k].locked}
        /\ \A p \in Paths : InPart \notin {tree[p], drive[p]}

=============================================================================
