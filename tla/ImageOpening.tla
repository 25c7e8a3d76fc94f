----------------------------- MODULE ImageOpening -----------------------------
(* How a file becomes an image and an image a file again.                    *)
(*                                                                           *)
(* A file that is opened is copied into a folder of its own, expanded if it  *)
(* is gzipped, decoded if it holds flux, and identified.  Its name decides   *)
(* which probe runs first, its bytes what it is.  An image may then be       *)
(* edited, and exported in any container its geometry allows; an export is a *)
(* file in the session's folder that a response sends while other requests   *)
(* go on.                                                                    *)
(*                                                                           *)
(* The bytes of a file are abstracted to what the probes tell apart: the     *)
(* container, what its sectors hold, their size, whether its tree validates, *)
(* how its tracks encode, and the version of the contents.  HxCFE, which     *)
(* decodes and encodes flux, is a program of its own: whether a container it *)
(* writes decodes back is either way.                                        *)
EXTENDS Naturals, FiniteSets

CONSTANTS Offered,          \* the files on the host: a set of File records
          MaxVersion        \* the changes made to the images (bound)

VARIABLES session,          \* the open image, or Closed
          exported,         \* the last export: its file and the kind of its image
          refused,          \* the exports that could not be opened again
          response          \* the export being sent, or Idle

openingVars == <<session, exported, refused, response>>

Extensions == {"adf", "hdf", "hdz", "hda", "raw", "bin", "dms", "hfe", "scp",
               "ipf", "iso", "rom", "none"}
AmigaDOS == {"ofs", "ffs"}
Volumes == AmigaDOS \cup {"sfs", "pfs3"}
Filesystems == Volumes \cup {"rdb", "kickfs"}
Targets == {"auto", "floppy", "hardfile"}

\* FLOPPY_SIZES: a 5.25-inch disk, and the 3.5-inch ones HxCFE can encode.
Floppies == {"five", "floppy"}
FileSizes == Floppies \cup {"hard", "vast"}
Outers == {"sectors", "hfe", "scp", "ipf"}
Contents == Filesystems \cup {"romcode", "iso", "dms", "junk"}

File == [ext : Extensions, pack : {"plain", "gzip", "zip", "several", "cut short"},
         outer : Outers, holds : Contents,
         part : Volumes \cup {"junk", "none"},  \* the selected partition of a drive,
                                            \* "junk" if it was never formatted
         size : FileSizes,
         geo : {"none", "same", "smaller", "larger"},
         tail : {"zero", "data"},           \* what lies past a smaller GEO
         sound : BOOLEAN,                   \* its tree validates
         tracks : {"exact", "lossy", "advanced"},
         version : 0 .. MaxVersion]

ASSUME OfferedAssumption == Offered \subseteq File
ASSUME VersionAssumption == MaxVersion \in Nat

Closed == [kind |-> "closed"]
NoFile == [ext |-> "no file"]
NotExported == [file |-> NoFile, kind |-> "closed"]
Idle == [format |-> "idle"]

\* The kind a session has for what an image holds.
Family(holds) == CASE holds \in {"ffs", "sfs", "pfs3"} -> "ffs"
                   [] holds = "rdb" -> "hdf"
                   [] OTHER -> holds

-------------------------------------------------------------------------------
\* What an image is.

\* detect_kind: what the name suggests.
detect_kind(ext) == CASE ext \in {"hdf", "hdz"} -> "hdf"
                      [] ext = "adf" -> "ofs"
                      [] ext \in {"hda", "raw", "bin"} -> "ffs"
                      [] ext = "none" -> "unknown"
                      [] OTHER -> ext

\* The probes that run for a kind that is expected.
Probes(kind) == CASE kind = "ffs" -> Volumes \cup {"rdb"}
                  [] kind = "ofs" -> AmigaDOS
                  [] kind = "hdf" -> Volumes \cup {"rdb"}
                  [] kind = "kickfs" -> {"kickfs"}
                  [] OTHER -> Filesystems

\* identify_kind: "refused" where no probe that ran knows the bytes.
identify_kind(holds, kind) ==
    IF holds = "iso" THEN "iso"
    ELSE IF holds \in Probes(kind) THEN Family(holds) ELSE "refused"

\* _decode_flux_to_sectors and _open_ipf: the kind of the decoded sectors.
Decoded(file) ==
    LET kind == identify_kind(file.holds, "unknown")
    IN  IF file.outer = "ipf" \/ kind \in AmigaDOS THEN kind ELSE "refused"

\* Mutant: every decoded image is named as a floppy.
SuffixIgnoresSize(size) == "adf"

\* sector_image_suffix
Suffix(size) == IF size \in Floppies THEN "adf" ELSE "hdf"

\* The path the session works on: the file, or its decoded sectors.
WorkingSuffix(file) ==
    CASE file.outer = "ipf" -> "adf"
      [] file.outer \in {"hfe", "scp"} -> Suffix(file.size)
      [] OTHER -> file.ext

\* The kind _finalize_new_session starts from: a flux name needs a flux file.
Suggested(file, forced) ==
    LET kind == IF forced THEN "rom" ELSE detect_kind(file.ext)
    IN  CASE kind \in {"hfe", "scp", "ipf"} ->
                IF file.outer = kind THEN Decoded(file) ELSE "refused"
          [] kind = "ffs" /\ file.ext = "bin" /\ file.holds \in {"romcode", "kickfs"} ->
                "rom"
          [] OTHER -> kind

\* Mutant: the name is believed where it names a kind.
KindByName(file, forced) ==
    LET kind == Suggested(file, forced)
    IN  IF kind = "unknown" THEN identify_kind(file.holds, kind)
        ELSE IF kind = "rom" /\ file.holds = "kickfs" THEN "kickfs" ELSE kind

\* The rest of it: ROMs and DiskMasher archives are what they are named, and
\* everything else is identified again from its bytes.
Kind(file, forced) ==
    LET kind == Suggested(file, forced)
        sectors == IF file.outer # "sectors" /\ detect_kind(file.ext) # file.outer
                   THEN "junk" ELSE file.holds
    IN  CASE kind = "rom" -> IF sectors = "kickfs" THEN "kickfs" ELSE "rom"
          [] kind = "dms" -> IF sectors = "dms" THEN "dms" ELSE "refused"
          [] kind \in {"refused", "kickfs"} -> kind
          [] OTHER -> identify_kind(sectors, kind)

-------------------------------------------------------------------------------
\* Opening.

\* open_disk_image_upload: a ZIP holds one image, and perhaps its GEO.
Unpacked(file) == IF file.pack = "zip" THEN [file EXCEPT !.pack = "plain"] ELSE file

\* _expand_gzip_image, whatever the file is called.
Expanded(file) == IF file.pack = "gzip" THEN [file EXCEPT !.pack = "plain"] ELSE file

\* _new_session_source and the opening of flux: what is refused at once.
Acceptable(file) ==
    /\ file.pack = "plain"
    /\ file.geo # "none" => file.ext \in {"hdf", "hda"}
    /\ file.ext = "scp" => file.outer = "scp" /\ file.sound

\* _scp_round_trips: the sectors encode, and decode back to the same.
Proven(file) == file.tracks = "exact" /\ file.size = "floppy"

\* An HFE is read-only for what its header says, an SCP unless it is proven.
ReadOnly(file) ==
    CASE file.ext = "hfe" -> file.tracks = "advanced"
      [] file.ext = "scp" -> ~ Proven(file)
      [] OTHER -> FALSE

Made(file, forced) ==
    [kind |-> Kind(file, forced), suffix |-> WorkingSuffix(file),
     outer |-> file.outer, holds |-> file.holds, part |-> file.part,
     size |-> file.size, geo |-> file.geo, tail |-> file.tail,
     sound |-> file.sound, tracks |-> file.tracks, version |-> file.version,
     readOnly |-> ReadOnly(file), dirty |-> FALSE, harmed |-> FALSE, file |-> file]

\* _normalise_hardfile_dat_size: an all-zero tail past the GEO is cut off.
Normalised(s) ==
    IF s.suffix \in {"hdf", "hda"} /\ s.geo = "smaller" /\ s.tail = "zero"
    THEN [s EXCEPT !.geo = "same", !.dirty = TRUE] ELSE s

\* _keeps_amigados_blocks
KeepsBlocks(s) == s.kind \in AmigaDOS /\ s.holds \in AmigaDOS

\* _finalise_hardfile_directories writes checksums and the bitmap flag where
\* AmigaDOS has them, which is file data on any other volume.
Repaired(s) ==
    IF KeepsBlocks(s) /\ (~ s.sound \/ s.holds \notin AmigaDOS)
    THEN [s EXCEPT !.sound = TRUE, !.dirty = TRUE, !.harmed = (s.holds \notin AmigaDOS)]
    ELSE s

\* _apply_target_hardware: the machine the image is meant for.
Fits(s, target) ==
    LET bare == s.suffix \in {"hdf", "hda"}
    IN  s.kind \in AmigaDOS /\ target # "auto" /\ (bare \/ target = "hardfile") =>
            bare /\ s.geo # "none"

ForTarget(s, target) ==
    IF s.kind \in AmigaDOS /\ target # "auto" THEN Repaired(s) ELSE s

\* create_from_stream and create_from_path, with _finalize_new_session: the
\* session that opening makes, or none, and then the folder is removed.
Opened(source, target, forced) ==
    LET file == Expanded(Unpacked(source))
        s == [Normalised(Made(file, forced)) EXCEPT !.file = source]
    IN  IF Acceptable(file) /\ s.kind # "refused" /\ Fits(s, target)
        THEN {ForTarget(s, target)} ELSE {}

Open(file, target, forced) ==
    /\ session = Closed
    /\ \/ session' \in Opened(file, target, forced) /\ UNCHANGED refused
       \/ /\ Opened(file, target, forced) = {}
          /\ refused' = IF file = exported.file /\ target = "auto" /\ ~ forced
                        THEN refused \cup {file} ELSE refused
          /\ UNCHANGED session
    /\ UNCHANGED <<exported, response>>

-------------------------------------------------------------------------------
\* Creating.

\* The file a blank image would be: its sectors are identified like any.
BlankFile(ext, holds, size) ==
    [ext |-> ext, pack |-> "plain", outer |-> "sectors", holds |-> holds,
     part |-> "none", size |-> size, geo |-> "none",
     tail |-> "zero", sound |-> TRUE, tracks |-> "exact", version |-> 0]

\* create_blank for a floppy, and for one in an HFE, which is encoded but not
\* decoded back.
CreateFloppy(holds, outer) ==
    LET file == [BlankFile("adf", holds, "floppy") EXCEPT !.outer = outer]
    IN  \E tracks \in IF outer = "hfe" THEN {"exact", "lossy"} ELSE {"exact"} :
            session' = [Made([file EXCEPT !.outer = "sectors"], FALSE)
                            EXCEPT !.dirty = TRUE, !.outer = outer, !.tracks = tracks]

\* _create_hard_drive and create_blank: a UAE hardfile with its GEO, a raw
\* drive of one volume, or a drive with a Rigid Disk Block.
CreateHardDrive(format, holds, size) ==
    LET file == CASE format = "hardfile" -> [BlankFile("hdf", holds, size) EXCEPT !.geo = "same"]
                  [] format = "ffs-physical" -> BlankFile("raw", holds, size)
                  [] OTHER -> [BlankFile("hdf", "rdb", size) EXCEPT !.part = holds]
    IN  /\ format = "hardfile" => holds \in AmigaDOS
        /\ holds \in AmigaDOS => size # "vast"
        /\ session' = [Made(file, FALSE) EXCEPT !.dirty = TRUE]

\* create_blank for a ROM: a Kickstart one, or banks of bytes.
CreateRom(holds) ==
    session' = [Made(BlankFile("rom", holds, "hard"), FALSE) EXCEPT !.dirty = TRUE]

Create ==
    /\ session = Closed
    /\ \/ \E holds \in AmigaDOS, outer \in {"sectors", "hfe"} : CreateFloppy(holds, outer)
       \/ \E format \in {"hardfile", "ffs-physical", "ffs-hard"},
             holds \in Volumes, size \in {"hard", "vast"} :
              CreateHardDrive(format, holds, size)
       \/ \E holds \in {"kickfs", "romcode"} : CreateRom(holds)
    /\ UNCHANGED <<exported, refused, response>>

-------------------------------------------------------------------------------
\* Changing, exporting and closing.

\* require_writable_geometry, for the images whose sectors can be exported.
Writable(s) ==
    /\ s.kind \in AmigaDOS \cup {"hdf"}
    /\ ~ s.readOnly
    /\ ~ (s.kind \in AmigaDOS /\ s.suffix \in {"hdf", "hda"} /\ s.geo = "none"
          /\ s.holds \in AmigaDOS)

EditImage ==
    /\ session # Closed
    /\ Writable(session)
    /\ session.version < MaxVersion
    /\ session' = [session EXCEPT !.version = @ + 1, !.dirty = TRUE]
    /\ UNCHANGED <<exported, refused, response>>

\* is_bare_hard_drive
IsBare(s) ==
    /\ s.kind \in AmigaDOS
    /\ s.geo # "none" \/ s.suffix \in {"hdf", "hda"} \/ s.size \in {"hard", "vast"}

\* is_flux_encodable
Encodable(s) == s.kind \in AmigaDOS /\ s.size = "floppy"

\* export_formats
ExportFormats(s) ==
    IF s.kind \notin AmigaDOS \cup {"hdf"} \/ s.geo # "none" THEN {}
    ELSE {"native"}
         \cup {f \in {"hardfile"} : s.kind = "hdf" /\ s.size # "vast"}
         \cup {f \in {"rdb"} : IsBare(s) /\ s.size # "vast"}
         \cup {f \in {"adz"} : s.size \in Floppies}
         \cup {f \in {"hfe", "scp"} : Encodable(s)}

\* wrap_volume: the volume in a drive of one partition of exactly its size.
Wrapped(volume) == [volume EXCEPT !.ext = "hdf", !.holds = "rdb", !.part = volume.holds]

\* extract_partition, for a drive that has partitions, and the GEO that takes
\* the place of the partition table.
Lifted(drive) == [drive EXCEPT !.ext = "hdf", !.holds = drive.part, !.part = "none",
                               !.geo = "same", !.pack = "zip"]

\* What export_image writes.  A flux container is given out only if it decodes
\* back to the sectors (encode_and_verify).
ExportFile(s, format) ==
    LET sectors == [BlankFile("adf", s.holds, s.size) EXCEPT
                        !.part = s.part, !.sound = s.sound, !.version = s.version]
    IN  CASE format = "native" -> [sectors EXCEPT !.ext = Suffix(s.size)]
          [] format = "adz" -> [sectors EXCEPT !.pack = "gzip"]
          [] format = "rdb" -> Wrapped(sectors)
          [] format = "hardfile" -> Lifted(sectors)
          [] OTHER -> [sectors EXCEPT !.ext = format, !.outer = format]

\* The kind of the volume or drive in it.
ExportKind(s, format) ==
    CASE format = "rdb" -> "hdf" [] format = "hardfile" -> Family(s.part) [] OTHER -> s.kind

\* The name of the output: a drive in either form is <stem>-export.hdf.
OutputName(s, format) == IF format = "rdb" THEN "hdf"
                         ELSE IF format = "native" THEN Suffix(s.size) ELSE format

\* A native export is copied over the file that was there; every other is a
\* new file, and a response goes on with the one it opened.
WritesInPlace(format) == format = "native"

\* export_image holds the session's lock; the response is sent after it.
Export(format) ==
    /\ session # Closed
    /\ format \in ExportFormats(session)
    /\ format = "hardfile" => session.part # "none"
    /\ exported' = [file |-> ExportFile(session, format), kind |-> ExportKind(session, format)]
    /\ LET sent == <<format, session.version>>
       IN  response' =
             CASE response = Idle ->
                    [format |-> format, name |-> OutputName(session, format), sends |-> {sent}]
               [] response # Idle /\ response.name = OutputName(session, format)
                                  /\ WritesInPlace(format) ->
                    [response EXCEPT !.sends = @ \cup {sent}]
               [] OTHER -> response
    /\ UNCHANGED <<session, refused>>

Sent ==
    /\ response # Idle
    /\ response' = Idle
    /\ UNCHANGED <<session, exported, refused>>

Close ==
    /\ session # Closed
    /\ session' = Closed
    /\ response' = Idle
    /\ UNCHANGED <<exported, refused>>

\* What is opened: a file of the host, and from then on what was exported.
Files == IF exported = NotExported THEN Offered ELSE {exported.file}

OpeningInit ==
    /\ session = Closed
    /\ exported = NotExported
    /\ refused = {}
    /\ response = Idle

OpeningNext ==
    \/ \E file \in Files, target \in Targets, forced \in BOOLEAN : Open(file, target, forced)
    \/ exported = NotExported /\ Create
    \/ EditImage
    \/ \E format \in {"native", "adz", "hfe", "scp", "rdb", "hardfile"} : Export(format)
    \/ Sent
    \/ Close

OpeningSpec == OpeningInit /\ [][OpeningNext]_openingVars

-------------------------------------------------------------------------------
\* Correctness.

\* An image is what its bytes are, whatever its file was called: its kind is
\* that of the volume in it unless it was opened as a ROM, and neither the
\* size its GEO declares nor the machine it was opened for costs it data
\* (identify_kind, _normalise_hardfile_dat_size, _finalise_hardfile_directories).
OpensAsWhatItHolds ==
    session # Closed =>
        /\ session.kind \in {"rom", Family(session.holds)}
        /\ ~ session.harmed

\* What cannot be opened again.
Hidden(file) ==
    \/ file.ext = "scp" /\ ~ file.sound
    \/ file.size \in Floppies /\ file.holds \notin AmigaDOS
    \/ file.holds = "junk"

\* What is exported can be opened again, and is the volume it was made from.
\* The exceptions are a capture of a volume that does not validate, which SCP
\* refuses, a floppy image of a volume that is not AmigaDOS, which its extension
\* hides from the probes, and a partition that holds no volume.
ExportOpensAgain ==
    /\ session # Closed /\ session.file = exported.file =>
           session.kind \in {"rom", exported.kind}
    /\ \A file \in refused : Hidden(file)

-------------------------------------------------------------------------------
\* The invariant behind them.

\* An open image.
Image == [kind : Contents \cup {"hdf", "rom"}, suffix : Extensions,
          outer : Outers, holds : Contents,
          part : Volumes \cup {"junk", "none"}, size : FileSizes,
          geo : {"none", "same", "smaller", "larger"}, tail : {"zero", "data"},
          sound : BOOLEAN, tracks : {"exact", "lossy", "advanced"},
          version : 0 .. MaxVersion, readOnly : BOOLEAN, dirty : BOOLEAN,
          harmed : BOOLEAN, file : File]

\* An image remembers what the bytes of its file are; the last export is of the
\* kind of its bytes and, if it is not one of the exceptions, opens.
OpeningInv ==
    /\ session # Closed => session \in Image /\ session.holds = session.file.holds
    /\ OpensAsWhatItHolds
    /\ exported # NotExported =>
        /\ exported.file \in File
        /\ exported.kind = Family(exported.file.holds)
        /\ Hidden(exported.file) \/ Opened(exported.file, "auto", FALSE) # {}
    /\ \A file \in refused : Hidden(file)

===============================================================================
