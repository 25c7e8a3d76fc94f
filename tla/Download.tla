------------------------------ MODULE Download ------------------------------
(***************************************************************************)
(* Saving one image: the prepared container, the download archive with its *)
(* metadata, and what may still be served when the image has changed, gone *)
(* back to a checkpoint or been recovered after a crash.                   *)
(*                                                                         *)
(* Bytes are abstracted to a version number: 0 is the image as it was      *)
(* opened, every change that is written makes a version of its own.  Files *)
(* carry the time they were last written, from a clock that never stands   *)
(* still; the time 0 stands for a file that does not exist.  Changes and   *)
(* preparations are serial here (ImageSession has the concurrent ones);    *)
(* downloads and crashes come at any time.                                 *)
(***************************************************************************)
EXTENDS Naturals, Sequences

CONSTANTS
    Containers,     \* the kinds of image file that are opened
    MaxVersions,    \* bound on the versions of the image
    MaxTime,        \* bound on the clock
    MaxCrashes      \* bound on the crashes of the server

(* A flux container is decoded into a working file when it is opened and   *)
(* encoded again when it is saved.  A pair is an HDA with its descriptor.  *)
Flux == {"hfe", "scp"}

ASSUME ContainersAssumption == Containers \subseteq {"plain", "pair"} \cup Flux
ASSUME BoundsAssumption ==
    MaxVersions \in Nat /\ MaxTime \in Nat \ {0} /\ MaxCrashes \in Nat

VARIABLES
    container,  \* the kind of image file
    image,      \* the version in the working file
    mtime,      \* when the working file was last written
    dirty,      \* session.dirty
    export,     \* session.<container>_export_path is set
    finalised,  \* session.finalised_mtime_ns, 0 for None
    stored,     \* session.json: dirty, export and finalised
    points,     \* automatic checkpoints, newest last
    job,        \* the request under way
    source,     \* the file prepare_download chose: it goes into the archive
    exported,   \* the edited container on disk
    archive,    \* the version in download-ready.zip
    meta,       \* download-ready.json
    served,     \* history: the last download that was answered
    fresh,      \* the next version
    time,       \* the clock
    crashes     \* crashes so far

fileVars == <<image, mtime, exported, archive, meta>>
sessionVars == <<dirty, export, finalised>>
boundVars == <<fresh, time, crashes>>
vars == <<container, fileVars, sessionVars, stored, points, job, source,
          served, boundVars>>

Versions == 0..MaxVersions
Times == 0..MaxTime
Session == [dirty : BOOLEAN, export : BOOLEAN, finalised : Times]

TypeOK ==
    /\ container \in Containers
    /\ image \in Versions /\ mtime \in Times
    /\ [dirty |-> dirty, export |-> export, finalised |-> finalised] \in Session
    /\ stored \in Session
    /\ points \in Seq([image : Versions, dirty : BOOLEAN])
    /\ job \in {"none", "written", "prepared", "zipped", "described"}
    /\ source \in {"working", "export", "original"}
    /\ exported \in [image : Versions, mtime : Times]
    /\ archive \in Versions
    /\ meta \in [file : {"working", "export", "original"}, mtime : Times]
    /\ served \in [image : Versions, count : 0..1]
    /\ fresh \in 0..MaxVersions + 1 /\ time \in Times \ {0}
    /\ crashes \in 0..MaxCrashes
    /\ mtime <= time /\ meta.mtime <= time /\ exported.mtime <= time
    /\ job # "none" => points # <<>>

-----------------------------------------------------------------------------
Init ==
    /\ container \in Containers
    /\ image = 0 /\ mtime = 1 /\ dirty = FALSE
    /\ export = FALSE /\ finalised = 0
    /\ stored = [dirty |-> FALSE, export |-> FALSE, finalised |-> 0]
    /\ points = <<>> /\ job = "none" /\ source = "working"
    /\ exported = [image |-> 0, mtime |-> 0] /\ archive = 0
    /\ meta = [file |-> "working", mtime |-> 0]
    /\ served = [image |-> 0, count |-> 0]
    /\ fresh = 1 /\ time = 1 /\ crashes = 0

Tick == time < MaxTime /\ time' = time + 1

(* session_metadata as it will be after the step. *)
Persist == stored' = [dirty |-> dirty', export |-> export', finalised |-> finalised']

(* The working file gets a version nobody has seen. *)
NewVersion ==
    /\ fresh <= MaxVersions
    /\ image' = fresh /\ fresh' = fresh + 1
    /\ Tick /\ mtime' = time'

TakePoint == points' = Append(points, [image |-> image, dirty |-> dirty])

Newest == points[Len(points)]
Older == SubSeq(points, 1, Len(points) - 1)

(* CheckpointStore.restore writes a new working file, and                  *)
(* invalidate_cached_views forgets what was derived from the old one.      *)
GoBack ==
    /\ image' = Newest.image /\ dirty' = Newest.dirty
    /\ Tick /\ mtime' = time'
    /\ export' = FALSE /\ finalised' = 0
    /\ UNCHANGED fresh
    /\ Persist

-----------------------------------------------------------------------------
(* Changing the image.                                                     *)

(* The undo point, then the locked part of the change. *)
Write ==
    /\ job = "none"
    /\ TakePoint /\ NewVersion
    /\ job' = "written"
    /\ UNCHANGED <<container, sessionVars, stored, source, exported, archive,
                   meta, served, crashes>>

(* _mark_mutated drops a prepared HFE, but not a prepared SCP.  The        *)
(* finaliser persists the session.                                         *)
Changed ==
    /\ job = "written"
    /\ dirty' = TRUE
    /\ export' = (export /\ container # "hfe")
    /\ UNCHANGED finalised
    /\ Persist
    /\ job' = "none"
    /\ UNCHANGED <<container, fileVars, points, source, served, boundVars>>

(* The change or the preparation failed, or it was cancelled. *)
RollBack ==
    /\ job # "none"
    /\ GoBack
    /\ points' = Older
    /\ job' = "none"
    /\ UNCHANGED <<container, source, exported, archive, meta, served, crashes>>

(* undo_last_change. *)
Undo ==
    /\ job = "none" /\ points # <<>>
    /\ GoBack
    /\ points' = Older
    /\ UNCHANGED <<container, job, source, exported, archive, meta, served,
                   crashes>>

-----------------------------------------------------------------------------
(* Saving: prepare_image_download holds session.lock from here to Saved.   *)

Choose(file) == source' = file /\ job' = "prepared"

(* prepare_download of an ordinary image. *)
PreparePlain ==
    /\ job = "none" /\ container = "plain"
    /\ TakePoint /\ Choose("working")
    /\ UNCHANGED <<container, fileVars, sessionVars, stored, served, boundVars>>

(* A pair that was finalised and has not changed since is taken as it is;  *)
(* any other gets a later datestamp in its root block.                     *)
PreparePair ==
    /\ job = "none" /\ container = "pair"
    /\ TakePoint /\ Choose("working")
    /\ IF ~dirty /\ finalised = mtime
       THEN UNCHANGED <<image, mtime, sessionVars, fresh, time>>
       ELSE /\ finalised # mtime => NewVersion /\ dirty' = TRUE
            /\ finalised = mtime => UNCHANGED <<image, mtime, dirty, fresh, time>>
            /\ finalised' = mtime'
            /\ UNCHANGED export
    /\ UNCHANGED <<container, stored, exported, archive, meta, served, crashes>>

(* Mutant of PrepareFlux: a prepared container is used again for changed   *)
(* sectors.                                                                *)
PrepareFluxOnce ==
    /\ job = "none" /\ container \in Flux
    /\ TakePoint
    /\ \/ /\ dirty /\ exported.mtime = 0
          /\ Tick
          /\ exported' = [image |-> image, mtime |-> time']
          /\ export' = TRUE
          /\ Choose("export")
       \/ /\ ~dirty \/ exported.mtime # 0
          /\ Choose(IF exported.mtime # 0 THEN "export" ELSE "original")
          /\ export' = (exported.mtime # 0)
          /\ UNCHANGED <<exported, time>>
    /\ UNCHANGED <<container, image, mtime, dirty, finalised, stored, archive,
                   meta, served, fresh, crashes>>

(* encode_and_verify: the sectors become a container that decodes to them. *)
Encode ==
    /\ Tick
    /\ exported' = [image |-> image, mtime |-> time']
    /\ export' = TRUE
    /\ Choose("export")

(* _prepare_flux_download: changed sectors are encoded and decoded again;  *)
(* an image that is not marked changed gives the prepared container if     *)
(* there is one, and otherwise the file that was opened.                   *)
PrepareFlux ==
    /\ job = "none" /\ container \in Flux
    /\ TakePoint
    /\ \/ /\ dirty
          /\ Encode
       \/ /\ ~dirty
          /\ Choose(IF export THEN "export" ELSE "original")
          /\ UNCHANGED <<exported, export, time>>
    /\ UNCHANGED <<container, image, mtime, dirty, finalised, stored, archive,
                   meta, served, fresh, crashes>>

(* What the chosen file holds, and when it was written. *)
SourceVersion ==
    CASE source = "working"  -> image
      [] source = "export"   -> exported.image
      [] source = "original" -> 0

FileTime(file) ==
    CASE file = "working"  -> mtime
      [] file = "export"   -> exported.mtime
      [] file = "original" -> 1

(* download-ready.zip is replaced ... *)
Zip ==
    /\ job = "prepared"
    /\ archive' = SourceVersion
    /\ job' = "zipped"
    /\ UNCHANGED <<container, image, mtime, exported, meta, sessionVars, stored,
                   points, source, served, boundVars>>

(* ... and then download-ready.json. *)
Describe ==
    /\ job = "zipped"
    /\ meta' = [file |-> source, mtime |-> FileTime(source)]
    /\ job' = "described"
    /\ UNCHANGED <<container, image, mtime, exported, archive, sessionVars,
                   stored, points, source, served, boundVars>>

(* mark_saved, and the finaliser: the undo point goes if the working file  *)
(* was not written.                                                        *)
Saved ==
    /\ job = "described"
    /\ dirty' = FALSE
    /\ UNCHANGED <<export, finalised>>
    /\ Persist
    /\ points' = IF Newest.image = image THEN Older ELSE points
    /\ job' = "none"
    /\ UNCHANGED <<container, fileVars, source, served, boundVars>>

(* Mutant of Download: the metadata is not compared with the file. *)
DownloadUnchecked ==
    /\ meta.mtime # 0
    /\ served' = [image |-> archive, count |-> 1 - served.count]
    /\ UNCHANGED <<container, fileVars, sessionVars, stored, points, job,
                   source, boundVars>>

(* prepared_download reads without the lock and compares the metadata with *)
(* the file it names.                                                      *)
Download ==
    /\ meta.mtime # 0
    /\ meta.mtime = FileTime(meta.file)
    /\ served' = [image |-> archive, count |-> 1 - served.count]
    /\ UNCHANGED <<container, fileVars, sessionVars, stored, points, job,
                   source, boundVars>>

(* The server stops, and the session comes back from session.json. *)
Crash ==
    /\ crashes < MaxCrashes
    /\ crashes' = crashes + 1
    /\ dirty' = stored.dirty
    /\ export' = (stored.export /\ exported.mtime # 0)
    /\ finalised' = stored.finalised
    /\ job' = "none"
    /\ UNCHANGED <<container, fileVars, stored, points, source, served, fresh,
                   time>>

Next ==
    \/ Write \/ Changed \/ RollBack \/ Undo
    \/ PreparePlain \/ PreparePair \/ PrepareFlux \/ Zip \/ Describe \/ Saved
    \/ Download \/ Crash

Spec == Init /\ [][Next]_vars

-----------------------------------------------------------------------------
(* Properties.                                                             *)

Served == served' # served

(* For images whose working file itself goes into the archive: it is marked *)
(* saved, and served, only when the archive holds the image that is shown.  *)
WorkingFile == container \notin Flux
PlainSavedIsOnScreen ==
    [][WorkingFile /\ Saved => archive = image]_vars
PlainServedMatches ==
    [][WorkingFile /\ Served => served'.image = image]_vars

(* What keeps an archive of the working file honest: its metadata names a   *)
(* time at which the file held what the archive holds.                     *)
ArchiveOfItsTime ==
    WorkingFile =>
        /\ meta.file = "working" /\ source = "working"
        /\ job \in {"zipped", "described"} => archive = image
        /\ meta.mtime = mtime => archive = image

(* A prepared container that an unchanged image would hand out again holds *)
(* its sectors, whatever was edited, rolled back or undone since.  (After  *)
(* a crash this fails: see the README.)                                    *)
CleanExportIsCurrent ==
    (job = "none" /\ crashes = 0 /\ ~dirty /\ export) => exported.image = image

(* The same while the container is being saved, until a change is written.  *)
ExportInv ==
    crashes = 0 /\ export =>
        /\ container \in Flux
        /\ job \in {"prepared", "zipped", "described"} \/ (job = "none" /\ ~dirty)
                => exported.image = image

=============================================================================
