------------------------------- MODULE Staging -------------------------------
(***************************************************************************)
(* Staging the discs of one title on the drive it is to be installed on:   *)
(* install_service.py and volume_copy.py.  The discs merge into one        *)
(* drawer, the payload; a file a later disc disagrees about is filed aside *)
(* under the label of that disc, and a manifest on the drive says what     *)
(* came from where.  Each file is a write of its own, and a drive opened   *)
(* in place keeps what was written when one of them fails.                 *)
(***************************************************************************)
EXTENDS Integers, Sequences, FiniteSets, SequencesExt

CONSTANTS
    DiscPaths,  \* the files a disc can have
    DiscContents, \* what they can hold
    MaxDiscs,   \* labels are "Disc 1" .. "Disc MaxDiscs"
    MaxStaged,  \* attempts in a behaviour
    MaxFailures   \* writes that fail in a behaviour

VARIABLES
    attached,   \* the drive is opened in place and has no undo point
    payload,    \* path -> content, the drawer that will be installed
    aside,      \* label -> path -> content, filed in the housekeeping drawer
    manifest,   \* the discs in order and the conflicts, as recorded
    job,        \* the request at work, Idle between attempts
    before,      \* payload, aside and manifest when it came
    staged,     \* label -> the files that disc was staged with
    torn,       \* the discs a failed request left half done
    attempts,   \* counts attempts up to MaxStaged
    failures      \* counts failures up to MaxFailures

stagingVars == <<attached, payload, aside, manifest, job, before, staged, torn,
                 attempts, failures>>

Labels == 1..MaxDiscs
NoRecord == [discs |-> <<>>, conflicts |-> {}]
Idle == [op |-> "idle"]
Nothing == [p \in {} |-> 0]

Discs == UNION {[s -> DiscContents] : s \in SUBSET DiscPaths \ {{}}}

Recorded == {manifest.discs[i].label : i \in DOMAIN manifest.discs}

\* _next_disc_label(): the first number that no disc has.
NextLabel == CHOOSE n \in 1 .. MaxDiscs + 1 :
    /\ n \notin Recorded
    /\ \A m \in 1 .. n - 1 : m \in Recorded

\* What copy_volume_tree() does with the files of a disc, by what is there.
Written(there, files, replacing) ==
    IF replacing THEN DOMAIN files ELSE DOMAIN files \ DOMAIN there

\* Mutant: a file that is there is skipped, whatever it holds.
DivertedNever(there, files, replacing) == {}

Diverted(there, files, replacing) ==
    {p \in (DOMAIN files \cap DOMAIN there) : ~replacing /\ there[p] # files[p]}

\* The conflicts recorded before that still name the file on the drive.
StillTrue(label, rewritten) ==
    {c \in manifest.conflicts : c.alsoIn # label /\ c.path \notin rewritten}

\* The record of a disc replaces the one under its label.
Record(label, files) ==
    LET record == [label |-> label, paths |-> DOMAIN files] IN
    IF label \in Recorded
    THEN [i \in DOMAIN manifest.discs |->
            IF manifest.discs[i].label = label THEN record ELSE manifest.discs[i]]
    ELSE Append(manifest.discs, record)

\* The disc a conflict says the kept file is from, the first that has it.
KeptFrom(path, label, discs) ==
    LET from == SelectInSeq(discs, LAMBDA d : d.label # label /\ path \in d.paths) IN
    IF from = 0 THEN label ELSE discs[from].label

-----------------------------------------------------------------------------
StagingInit ==
    /\ attached \in BOOLEAN
    /\ payload = Nothing
    /\ aside = Nothing
    /\ manifest = NoRecord
    /\ job = Idle
    /\ before = Idle
    /\ staged = Nothing
    /\ torn = {}
    /\ attempts = 0
    /\ failures = 0

Take(request) ==
    /\ job = Idle
    /\ attempts < MaxStaged
    /\ job' = request
    /\ before' = [payload |-> payload, aside |-> aside, manifest |-> manifest,
                 staged |-> staged, torn |-> torn]
    /\ attempts' = attempts + 1
    /\ UNCHANGED <<attached, payload, aside, manifest, torn, failures>>

Less(f, s) == [x \in DOMAIN f \ s |-> f[x]]

PutOver(f, k, v) == [x \in DOMAIN f \cup {k} |-> IF x = k THEN v ELSE f[x]]

\* A disc is staged, under the label it was given or the next number.
Stage(label, files) ==
    /\ label \in Recorded \/ label = NextLabel
    /\ Take([op |-> "clear", label |-> label, files |-> files,
             replacing |-> label \in Recorded, write |-> {}, divert |-> {}])
    /\ staged' = Less(staged, {label})

Discard ==
    /\ payload # Nothing
    /\ Take([op |-> "discard"])
    /\ staged' = Nothing

\* The payload is moved to where the title will live, then what was kept
\* about it goes.
Install ==
    /\ payload # Nothing
    /\ Take([op |-> "install"])
    /\ staged' = Nothing

\* The title's own installer, or its owner, changes a staged file.
Edit(path, content) ==
    /\ job = Idle
    /\ attempts < MaxStaged
    /\ path \in DOMAIN payload
    /\ payload' = [payload EXCEPT ![path] = content]
    /\ staged' = [l \in DOMAIN staged |->
                    IF path \in DOMAIN staged[l] /\ staged[l][path] = payload[path]
                    THEN Less(staged[l], {path}) ELSE staged[l]]
    /\ attempts' = attempts + 1
    /\ UNCHANGED <<attached, aside, manifest, job, before, torn, failures>>

\* What was filed aside for a disc that is staged again goes first; then the
\* files that are there are looked at.
Clear ==
    /\ job.op = "clear"
    /\ aside' = IF job.replacing THEN Less(aside, {job.label}) ELSE aside
    /\ job' = [job EXCEPT
                !.op = "copy",
                !.write = Written(payload, job.files, job.replacing),
                !.divert = Diverted(payload, job.files, job.replacing)]
    /\ UNCHANGED <<attached, payload, manifest, before, staged, torn, attempts, failures>>

\* Files of other discs that this one replaces are no longer staged.
WriteOne(path) ==
    /\ job.op = "copy"
    /\ path \in job.write
    /\ payload' = PutOver(payload, path, job.files[path])
    /\ job' = [job EXCEPT !.write = @ \ {path}]
    /\ staged' = [l \in DOMAIN staged |->
                    IF path \in DOMAIN staged[l] /\ path \in DOMAIN payload
                        /\ staged[l][path] = payload[path]
                    THEN Less(staged[l], {path}) ELSE staged[l]]
    /\ UNCHANGED <<attached, aside, manifest, before, torn, attempts, failures>>

FileAside(path) ==
    /\ job.op = "copy"
    /\ job.write = {}
    /\ path \in job.divert
    /\ LET filed == IF job.label \in DOMAIN aside THEN aside[job.label] ELSE Nothing IN
        aside' = PutOver(aside, job.label, PutOver(filed, path, job.files[path]))
    /\ job' = [job EXCEPT !.divert = @ \ {path}]
    /\ UNCHANGED <<attached, payload, manifest, before, staged, torn, attempts, failures>>

\* The manifest is written last.
WriteManifest ==
    /\ job.op = "copy"
    /\ job.write = {} /\ job.divert = {}
    /\ LET written == Written(before.payload, job.files, job.replacing)
           diverted == Diverted(before.payload, job.files, job.replacing)
           discs == Record(job.label, job.files)
       IN  manifest' = [discs |-> discs,
                        conflicts |-> StillTrue(job.label, written) \cup
                            {[path |-> p, alsoIn |-> job.label,
                              keptFrom |-> KeptFrom(p, job.label, discs)] : p \in diverted}]
    /\ staged' = PutOver(staged, job.label, job.files)
    /\ torn' = torn \ {job.label}
    /\ job' = Idle
    /\ before' = Idle
    /\ UNCHANGED <<attached, payload, aside, attempts, failures>>

\* Discarding and installing take the payload away, then the housekeeping.
TakePayload ==
    /\ job.op \in {"discard", "install"}
    /\ payload' = Nothing
    /\ job' = [op |-> "forget"]
    /\ UNCHANGED <<attached, aside, manifest, before, staged, torn, attempts, failures>>

Forget ==
    /\ job.op = "forget"
    /\ aside' = Nothing
    /\ manifest' = NoRecord
    /\ torn' = {}
    /\ job' = Idle
    /\ before' = Idle
    /\ UNCHANGED <<attached, payload, staged, attempts, failures>>

\* A write fails.  An image goes back to its undo point.
WriteFails ==
    /\ job # Idle
    /\ failures < MaxFailures
    /\ failures' = failures + 1
    /\ IF attached
       THEN /\ torn' = IF job.op \in {"clear", "copy"} THEN torn \cup {job.label} ELSE Labels
            /\ UNCHANGED <<payload, aside, manifest, staged>>
       ELSE /\ payload' = before.payload
            /\ aside' = before.aside
            /\ manifest' = before.manifest
            /\ staged' = before.staged
            /\ torn' = before.torn
    /\ job' = Idle
    /\ before' = Idle
    /\ UNCHANGED <<attached, attempts>>

StagingNext ==
    \/ \E label \in Labels, files \in Discs : Stage(label, files)
    \/ Discard
    \/ Install
    \/ \E path \in DiscPaths, content \in DiscContents : Edit(path, content)
    \/ Clear
    \/ \E path \in DiscPaths : WriteOne(path) \/ FileAside(path)
    \/ WriteManifest
    \/ TakePayload
    \/ Forget
    \/ WriteFails

StagingSpec == StagingInit /\ [][StagingNext]_stagingVars

-----------------------------------------------------------------------------
(* Properties.                                                             *)

\* Every file of every disc of the set is on the drive, in the payload or
\* filed aside under its label, unless somebody changed it there or another
\* disc was staged over it again: a staging that fails, and the one that is
\* tried after it, take nothing of the other discs.
SetIsKept ==
    \A l \in DOMAIN staged : \A p \in DOMAIN staged[l] :
        \/ p \in DOMAIN payload /\ payload[p] = staged[l][p]
        \/ l \in DOMAIN aside /\ p \in DOMAIN aside[l] /\ aside[l][p] = staged[l][p]

-----------------------------------------------------------------------------
(* The invariant behind it.                                                *)

\* A staged file is in the payload, or filed aside.
OnDrive(files, label, there, filed) ==
    \A p \in DOMAIN files :
        \/ p \in DOMAIN there /\ there[p] = files[p]
        \/ label \in DOMAIN filed /\ p \in DOMAIN filed[label] /\ filed[label][p] = files[p]

ADisc ==
    [op : {"clear", "copy"}, label : Labels, files : Discs, replacing : BOOLEAN,
     write : SUBSET DiscPaths, divert : SUBSET DiscPaths]

AllOnDrive(stagedFiles, there, filed) ==
    \A l \in DOMAIN stagedFiles : OnDrive(stagedFiles[l], l, there, filed)

\* A disc that is being copied is not called staged, and each of its files is
\* on the drive or still to be written.  What a request began with was whole,
\* and while a set is taken away nothing of it is called staged.
StagingInv ==
    /\ AllOnDrive(staged, payload, aside)
    /\ job # Idle => AllOnDrive(before.staged, before.payload, before.aside)
    /\ job.op \in {"idle", "clear", "copy", "discard", "install", "forget"}
    /\ job.op = "idle" => job = Idle
    /\ job.op \in {"discard", "install", "forget"} => staged = Nothing
    /\ job.op \in {"clear", "copy"} => job \in ADisc /\ job.label \notin DOMAIN staged
    /\ job.op = "copy" =>
        OnDrive([p \in DOMAIN job.files \ (job.write \cup job.divert) |-> job.files[p]],
                job.label, payload, aside)

=============================================================================
