------------------------------- MODULE MCFiles -------------------------------
(* The file operations of a volume, or the discs of a title being staged on *)
(* a drive: no step is of both, and a behaviour is of one of them.          *)
EXTENDS FileOperations, Staging

VARIABLE staging

InitFiles ==
    /\ Init
    /\ StagingInit
    /\ staging \in BOOLEAN
    /\ IF staging THEN kind = "image" ELSE attached = FALSE

NextFiles ==
    /\ UNCHANGED staging
    /\ \/ staging /\ StagingNext /\ UNCHANGED vars
       \/ ~staging /\ Next /\ UNCHANGED stagingVars

SpecFiles == InitFiles /\ [][NextFiles]_<<staging, vars, stagingVars>>

-----------------------------------------------------------------------------
\* A volume with two drawers and two files, what is dropped on it, and a disc.
MCTrees == {[p \in {<<"d">>, <<"d", "f">>, <<"e">>, <<"f">>} |->
                IF p = <<"f">> THEN File(1) ELSE IF p = <<"d", "f">> THEN File(2) ELSE Drawer]}
MCFolders == {<<<<"e">>, <<"f", "d">>>>, <<<<"f">>, <<"d", "f">>>>}
MCDisc == [p \in {<<"d">>, <<"d", "e">>} |-> IF p = <<"d">> THEN Drawer ELSE File(3)]

===============================================================================
