------------------------------ MODULE MCVolumes ------------------------------
(* A volume of AmigaDOS or one of PFS3, with interchangeable names: no step  *)
(* is of both, and a behaviour is of one of them.                            *)
EXTENDS Integers, TLC

CONSTANTS Names, MaxLength, MaxOps,
          Size, PerCache, Kinds,
          Reserved, DataBlocks, Threshold, AlwaysFree, PerDir, PerAnode, KeptAnodes, MaxSeq,
          CheckpointBlocks, MaxCrashes, MaxLost, Changes

VARIABLES volume,
          dircache, disk, free, todo, op, now,
          medium, stages, changes, crashes

A == INSTANCE AmigaVolume
P == INSTANCE PFS3Volume WITH disk <- medium, todo <- stages, now <- changes, Kinds <- Changes

amiga == <<dircache, disk, free, todo, op, now>>
pfs3 == <<medium, stages, changes, crashes>>

InitVolumes ==
    /\ A!Init
    /\ P!Init
    /\ volume \in {"amiga", "pfs3"} /\ (volume = "pfs3" => ~dircache)

NextVolumes ==
    /\ UNCHANGED volume
    /\ \/ volume = "amiga" /\ A!Next /\ UNCHANGED pfs3
       \/ volume = "pfs3" /\ P!Next /\ UNCHANGED amiga

SpecVolumes == InitVolumes /\ [][NextVolumes]_<<volume, amiga, pfs3>>

Symmetry == Permutations(Names)

\* An operation leaves a volume that validates: see AmigaVolume.
LeftClean == volume = "amiga" => A!LeftClean

\* What is stored can be read at every moment: see AmigaVolume.
NothingIsHarmed == volume = "amiga" => A!NothingIsHarmed

\* An operation gives the tree that was asked for or none: see AmigaVolume.
AmigaImplementsTree == A!ImplementsTree

\* The medium is sound whenever the power goes: see PFS3Volume.
MediumIsSound == volume = "pfs3" => P!MediumIsSound

\* The medium goes from one tree to the next in one step: see PFS3Volume.
PFS3ImplementsTree == P!ImplementsTree
==============================================================================
