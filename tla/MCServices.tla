------------------------------ MODULE MCServices ------------------------------
(* What goes on beside the images: the registry of operations, the update of *)
(* the application, or the machines of the emulator.  No step is of two of   *)
(* them, and a behaviour is of one.                                          *)
EXTENDS OperationRegistry, AppUpdate, Emulator

VARIABLE service

InitServices ==
    /\ service \in {"operations", "update", "emulator"}
    /\ Init
    /\ UpdateInit
    /\ EmulatorInit

NextServices ==
    /\ UNCHANGED service
    /\ \/ service = "operations" /\ Next /\ UNCHANGED <<updateVars, emulatorVars>>
       \/ service = "update" /\ UpdateNext /\ UNCHANGED <<vars, emulatorVars>>
       \/ service = "emulator" /\ EmulatorNext /\ UNCHANGED <<vars, updateVars>>

SpecServices ==
    /\ InitServices /\ [][NextServices]_<<service, vars, updateVars, emulatorVars>>
    /\ service = "operations" => Fairness
    /\ service = "update" => UpdateFairness
    /\ service = "emulator" => EmulatorFairness
===============================================================================
