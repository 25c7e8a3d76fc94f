------------------------------- MODULE MCMedia -------------------------------
(* What is put on a medium and what comes off it: the table of a drive, an  *)
(* image opened and exported, a floppy read and written, a system           *)
(* installed, or the banks of a ROM.  No step is of two of them, and a      *)
(* behaviour is of one.                                                     *)
EXTENDS PhysicalMedia, ImageOpening, SystemInstall

CONSTANTS PerCylinder, MaxCylinders, RoomFor, Segments, WipeBlocks, Names, Largest, Sizes,
          Kinds, MaxOps,
          BankSize, Base, Signature, Roms, Data, Chips, Clients

VARIABLES subject,
          attached, media, disk, supplied, writes, op, old, ops,
          rom, request

D == INSTANCE RigidDisk WITH todo <- writes
R == INSTANCE RomBanks

table == <<attached, media, disk, supplied, writes, op, old, ops>>
banks == <<rom, request>>

\* A behaviour is about one subject, and the others are at one of their beginnings.
InitMedia ==
    /\ subject \in {"drive", "image", "floppy", "system", "rom"}
    /\ D!Init
    /\ subject # "drive" =>
            ~attached /\ media = MaxCylinders /\ supplied = {}
            /\ disk = [b \in D!Blocks |-> D!Blank]
    /\ OpeningInit
    /\ Init
    /\ InstallInit
    /\ subject # "system" => drive = [p \in Paths |-> 0] /\ room = 0
    /\ R!Init
    /\ subject # "rom" => rom = CHOOSE r \in Roms : TRUE

NextMedia ==
    /\ UNCHANGED subject
    /\ \/ subject = "drive" /\ D!Next /\ UNCHANGED <<openingVars, mediaVars, installVars, banks>>
       \/ subject = "image" /\ OpeningNext /\ UNCHANGED <<table, mediaVars, installVars, banks>>
       \/ subject = "floppy" /\ Next /\ UNCHANGED <<table, openingVars, installVars, banks>>
       \/ subject = "system" /\ InstallNext /\ UNCHANGED <<table, openingVars, mediaVars, banks>>
       \/ subject = "rom" /\ R!Next /\ UNCHANGED <<table, openingVars, mediaVars, installVars>>

SpecMedia ==
    InitMedia /\ [][NextMedia]_<<subject, table, openingVars, mediaVars, installVars, banks>>

-----------------------------------------------------------------------------
(* Values for the constants.                                                *)

MCLargest == [ffs |-> 3, pfs |-> 6, pds |-> 6]

PlainFile == [ext |-> "adf", pack |-> "plain", outer |-> "sectors", holds |-> "ofs",
          part |-> "none", size |-> "floppy", geo |-> "none", tail |-> "zero",
          sound |-> TRUE, tracks |-> "exact", version |-> 0]

OfferedFiles ==
    \* any bytes under any name
    {[PlainFile EXCEPT !.ext = e, !.holds = h, !.part = IF h = "rdb" THEN "sfs" ELSE "none",
                   !.size = IF h \in {"rdb", "iso", "kickfs"} THEN "hard" ELSE "floppy"] :
        e \in {"adf", "hdf", "hdz", "hda", "raw", "bin", "dms", "hfe", "scp", "ipf", "iso",
               "rom", "none"},
        h \in {"ofs", "ffs", "sfs", "pfs3", "rdb", "kickfs", "romcode", "iso", "dms", "junk"}}
    \* drives without partitions, and with one that holds no volume
    \cup {[PlainFile EXCEPT !.ext = "hdf", !.holds = "rdb", !.part = q, !.size = "hard"] :
        q \in {"junk", "none"}}
    \* archives, and files cut short
    \cup {[PlainFile EXCEPT !.ext = e, !.pack = k] :
        e \in {"adf", "hdz", "none"}, k \in {"gzip", "zip", "several", "cut short"}}
    \* flux
    \cup {[PlainFile EXCEPT !.ext = o, !.outer = o, !.holds = h, !.size = z, !.sound = s,
                        !.tracks = k] :
        o \in {"hfe", "scp", "ipf"}, h \in {"ffs", "pfs3"}, z \in {"five", "floppy"}, s \in BOOLEAN,
        k \in {"exact", "lossy", "advanced"}}
    \* hardfiles and their GEO
    \cup {[PlainFile EXCEPT !.ext = e, !.holds = h, !.size = "hard", !.geo = g, !.tail = t,
                        !.sound = s] :
        e \in {"hdf", "hda", "adf"}, h \in {"ffs", "sfs"},
        g \in {"none", "same", "smaller", "larger"}, t \in {"zero", "data"}, s \in BOOLEAN}

\* A release of two layers and two packs, disks of three roles, of two
\* releases and of none.
MCLayers == <<[files |-> {1, 2}, required |-> TRUE], [files |-> {2, 3}, required |-> FALSE]>>
MCPacks == <<[plain |-> {3}, locked |-> {2}], [plain |-> {2}, locked |-> {2, 3}]>>
MCDisks == <<{1, 2}, {2, 3}, {3}>>
MCFaults == {<<0, 0>>, <<2, 3>>, <<2, 5>>}

Floppy(role, version, quality) == [role |-> role, version |-> version, quality |-> quality]

MCPiles ==
    {{Floppy(1, 31, 2), Floppy(2, 31, 2), Floppy(3, 0, 3)},
     {Floppy(1, 31, 2), Floppy(1, 20, 3), Floppy(2, 31, 3), Floppy(2, 20, 0), Floppy(3, 31, 1)},
     {Floppy(1, 0, 2), Floppy(2, 31, 2), Floppy(3, 20, 2)},
     {Floppy(1, 0, 3), Floppy(1, 31, 2), Floppy(3, 0, 3), Floppy(3, 20, 3)},
     {Floppy(2, 31, 2)}}

\* ROMs whose last bank is in part and whose empty bank is the second, and one
\* that ends in a trailer with a wrong checksum.
MCRoms == {<<0, 1, 3>>, <<1, 3, 3, 3>>, <<1, 3, 2, 2, 0>>, <<1, 2, 0, 1, 2, 1>>}
MCData == {<<>>, <<2>>, <<0, 0, 0>>}
MCSignature == <<2, 1>>

-----------------------------------------------------------------------------
(* Properties.                                                              *)

\* The table of a drive describes it, and what no operation was about is
\* kept: see RigidDisk.
LayoutIsSound == subject = "drive" => D!LayoutIsSound

\* Every partition can be mounted: see RigidDisk.
EveryPartitionMounts == subject = "drive" => D!EveryPartitionMounts

\* A change to a ROM does what was asked for and no more: see RomBanks.
DoneAsAsked == R!DoneAsAsked

\* A repaired trailer has the checksum of its ROM: see RomBanks.
RepairedIsSound == subject = "rom" => R!RepairedIsSound

==============================================================================
