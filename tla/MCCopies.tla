------------------------------- MODULE MCCopies -------------------------------
(* What leaves the application: a saved image, or what is copied to drives   *)
(* and from them.  No step is of both, and a behaviour is of one of them.    *)
EXTENDS Download, DriveJobs, TLC

VARIABLE copying

\* The drives are alike, and no property is about liveness.
Symmetry == Permutations(Drives)

InitCopies ==
    /\ Init
    /\ DrivesInit
    /\ copying \in BOOLEAN
    /\ copying => container = "plain"

NextCopies ==
    /\ UNCHANGED copying
    /\ \/ copying /\ DrivesNext /\ UNCHANGED vars
       \/ ~copying /\ Next /\ UNCHANGED jobVars

SpecCopies == InitCopies /\ [][NextCopies]_<<copying, vars, jobVars>>

===============================================================================
