------------------------- MODULE ImageSession_proofs -------------------------
(* Theorems about ImageSession, for any set of requests, any kinds, any     *)
(* checkpoint limit and any number of crashes.                              *)
EXTENDS ImageSession, FiniteSetTheorems, TLAPS

USE DEF AllKinds, Bracketed, InView, Open, Answered

-----------------------------------------------------------------------------
(* Types.                                                                   *)

LEMMA RecordType ==
    ASSUME TypeOK, NEW r \in Requests, NEW auto \in BOOLEAN,
           points' = points \cup {Snapshot(r, auto)}, clock' = clock + 1
    PROVE  /\ points' \subseteq Point
           /\ clock' \in Nat
           /\ \A p \in points' : p.created < clock'
<1>1. Snapshot(r, auto) \in Point /\ Snapshot(r, auto).created = clock
  BY DEF TypeOK, Snapshot, Point
<1>2. ASSUME NEW p \in points PROVE p \in Point /\ p.created < clock + 1
  <2>1. p \in Point /\ p.created < clock /\ clock \in Nat
    BY <1>2 DEF TypeOK
  <2>2. p.created \in Nat
    BY <2>1 DEF Point
  <2>3. QED
    BY <2>1, <2>2
<1>3. QED
  BY <1>1, <1>2 DEF TypeOK

LEMMA RestoreToType ==
    ASSUME TypeOK, NEW p \in Point, RestoreTo(p)
    PROVE  /\ image' \subseteq Changes
           /\ dirty' \in BOOLEAN
           /\ stored' \in BOOLEAN
           /\ touched' \in [Requests -> BOOLEAN]
           /\ emulator' \in {"off", "running", "detached", "closing"}
           /\ orphan' \in BOOLEAN
BY DEF TypeOK, RestoreTo, TouchAll, Point

(* Every variable keeps to its type, and a checkpoint is always older than  *)
(* the clock: undo takes the points in the order they were made.            *)
THEOREM TypeCorrect == Spec => []TypeOK
<1>1. Init => TypeOK
  <2> SUFFICES ASSUME Init PROVE TypeOK
    OBVIOUS
  <2>1. crashes \in 0..MaxCrashes
    BY CrashAssumption DEF Init
  <2>2. everSaved \subseteq SUBSET Changes
    BY DEF Init
  <2>3. /\ pc \in [Requests -> {"idle"} \cup Open \cup Answered]
        /\ kind \in [Requests -> AllKinds \cup {"none"}]
        /\ target \in [Requests -> Requests]
        /\ touched \in [Requests -> BOOLEAN]
    BY DEF Init
  <2>4. QED
    BY <2>1, <2>2, <2>3 DEF Init, TypeOK
<1>2. TypeOK /\ [Next]_vars => TypeOK'
  <2> SUFFICES ASSUME TypeOK, [Next]_vars PROVE TypeOK'
    OBVIOUS
  <2> USE DEF Goto, Arrive, TouchAll, fileVars, requestVars
  <2>1. ASSUME NEW r \in Requests, Check(r) PROVE TypeOK'
    BY <2>1, KindsAssumption DEF Check, TypeOK
  <2>2. ASSUME NEW r \in Requests, Begin(r) PROVE TypeOK'
    BY <2>2, KindsAssumption, RecordType DEF Begin, TypeOK
  <2>3. ASSUME NEW r \in Requests, Clear(r) PROVE TypeOK'
    BY <2>3, KindsAssumption DEF Clear, TypeOK
  <2>4. ASSUME NEW r \in Requests, Write(r) PROVE TypeOK'
    BY <2>4, KindsAssumption DEF Write, TypeOK, Changes
  <2>5. ASSUME NEW r \in Requests, Mark(r) PROVE TypeOK'
    BY <2>5, KindsAssumption DEF Mark, TypeOK
  <2>6. ASSUME NEW r \in Requests, Prepare(r) PROVE TypeOK'
    BY <2>6, KindsAssumption DEF Prepare, TypeOK
  <2>7. ASSUME NEW r \in Requests, Boot(r) PROVE TypeOK'
    BY <2>7, KindsAssumption DEF Boot, TypeOK, StartMachine
  <2>8. ASSUME NEW r \in Requests, FailView(r) PROVE TypeOK'
    BY <2>8, KindsAssumption DEF FailView, TypeOK
  <2>9. ASSUME NEW r \in Requests, Finish(r) PROVE TypeOK'
    BY <2>9, KindsAssumption DEF Finish, TypeOK, Pruned, Succeeds, PointOf
  <2>10. ASSUME NEW r \in Requests, MayRestore(r) PROVE TypeOK'
    BY <2>10, KindsAssumption DEF MayRestore, TypeOK
  <2>11. ASSUME NEW r \in Requests, Restore(r) PROVE TypeOK'
    BY <2>11, KindsAssumption, RestoreToType DEF Restore, TypeOK, PointOf
  <2>12. ASSUME NEW r \in Requests, PointGone(r) PROVE TypeOK'
    BY <2>12, KindsAssumption DEF PointGone, TypeOK
  <2>13. ASSUME NEW r \in Requests, DeleteRolledBack(r) PROVE TypeOK'
    BY <2>13, KindsAssumption DEF DeleteRolledBack, TypeOK, PointOf
  <2>14. ASSUME NEW r \in Requests, RestoreBegin(r) PROVE TypeOK'
    <3>1. /\ points' \subseteq Point
          /\ clock' \in Nat
          /\ \A p \in points' : p.created < clock'
      BY <2>14, RecordType DEF RestoreBegin
    <3>2. target' \in [Requests -> Requests]
      BY <2>14 DEF RestoreBegin, TypeOK
    <3>3. QED
      BY <2>14, <3>1, <3>2, KindsAssumption DEF RestoreBegin, TypeOK
  <2>15. ASSUME NEW r \in Requests, Undo(r) PROVE TypeOK'
    BY <2>15, KindsAssumption, RestoreToType DEF Undo, TypeOK, Latest, Automatic
  <2>16. ASSUME NEW r \in Requests, Name(r) PROVE TypeOK'
    BY <2>16, KindsAssumption, RecordType DEF Name, TypeOK
  <2>17. ASSUME NEW r \in Requests, Drop(r) PROVE TypeOK'
    BY <2>17, KindsAssumption DEF Drop, TypeOK
  <2>18. ASSUME NEW r \in Requests, Install(r) PROVE TypeOK'
    BY <2>18, KindsAssumption DEF Install, TypeOK, StartMachine
  <2>19. ASSUME MachineWrites PROVE TypeOK'
    BY <2>19, CrashAssumption DEF MachineWrites, TypeOK, Changes
  <2>20. ASSUME MachineCloses PROVE TypeOK'
    BY <2>20, CrashAssumption DEF MachineCloses, TypeOK
  <2>21. ASSUME MachineFinished PROVE TypeOK'
    BY <2>21, CrashAssumption DEF MachineFinished, TypeOK
  <2>22. ASSUME Crash PROVE TypeOK'
    BY <2>22, CrashAssumption DEF Crash, TypeOK, CrashLeaving
  <2>23. ASSUME CrashInRestore PROVE TypeOK'
    BY <2>23, CrashAssumption DEF CrashInRestore, TypeOK, CrashLeaving, PointOf, Point
  <2>24. ASSUME CrashInUndo PROVE TypeOK'
    <3>1. image' \subseteq Changes
      BY <2>24 DEF CrashInUndo, TypeOK, Latest, Automatic, Point
    <3>2. crashes' \in 0..MaxCrashes
      BY <2>24, CrashAssumption DEF CrashInUndo, TypeOK
    <3>3. pc' \in [Requests -> {"idle"} \cup Open \cup Answered]
      BY <2>24 DEF CrashInUndo, TypeOK
    <3>4. kind' \in [Requests -> AllKinds \cup {"none"}]
      BY <2>24 DEF CrashInUndo, TypeOK
    <3>5. /\ dirty' \in BOOLEAN
          /\ emulator' \in {"off", "running", "detached", "closing"}
          /\ orphan' \in BOOLEAN
          /\ UNCHANGED <<points, stored, clock, target, touched, everSaved>>
      BY <2>24 DEF CrashInUndo, TypeOK
    <3>6. QED
      BY <3>1, <3>2, <3>3, <3>4, <3>5 DEF TypeOK
  <2>25. CASE UNCHANGED vars
    BY <2>25 DEF vars, TypeOK
  <2>26. QED
    BY <2>1, <2>2, <2>3, <2>4, <2>5, <2>6, <2>7, <2>8, <2>9, <2>10, <2>11, <2>12, <2>13, <2>14,
       <2>15, <2>16, <2>17, <2>18, <2>19, <2>20, <2>21, <2>22, <2>23, <2>24, <2>25
       DEF Next, RequestStep
<1>3. QED
  BY <1>1, <1>2, PTL DEF Spec

-----------------------------------------------------------------------------
(* Rolled back requests.                                                    *)

(* A request that was rolled back leaves no point to undo to, however many  *)
(* other requests began, finished, undid or pruned while it ran: for        *)
(* concurrent requests as for serial ones.                                  *)
THEOREM RolledBackLeavesNoPoint == Spec => []FailedLeavesNoPoint
<1>1. Init => FailedLeavesNoPoint
  BY DEF Init, FailedLeavesNoPoint
<1>2. TypeOK /\ FailedLeavesNoPoint /\ [Next]_vars => FailedLeavesNoPoint'
  <2> SUFFICES ASSUME TypeOK, FailedLeavesNoPoint, [Next]_vars
               PROVE  FailedLeavesNoPoint'
    OBVIOUS
  <2>0. /\ pc \in [Requests -> {"idle"} \cup Open \cup Answered]
        /\ kind \in [Requests -> AllKinds \cup {"none"}]
        /\ \A p \in points : p.by \in Requests
    BY DEF TypeOK, Point
  <2> USE <2>0 DEF Goto, Arrive, fileVars, requestVars, FailedLeavesNoPoint
  <2>1. ASSUME NEW r \in Requests, Check(r) PROVE FailedLeavesNoPoint'
    BY <2>1 DEF Check
  <2>2. ASSUME NEW r \in Requests, Begin(r) PROVE FailedLeavesNoPoint'
    BY <2>2 DEF Begin, Snapshot
  <2>3. ASSUME NEW r \in Requests, Clear(r) PROVE FailedLeavesNoPoint'
    BY <2>3 DEF Clear
  <2>4. ASSUME NEW r \in Requests, Write(r) PROVE FailedLeavesNoPoint'
    BY <2>4 DEF Write
  <2>5. ASSUME NEW r \in Requests, Mark(r) PROVE FailedLeavesNoPoint'
    BY <2>5 DEF Mark
  <2>6. ASSUME NEW r \in Requests, Prepare(r) PROVE FailedLeavesNoPoint'
    BY <2>6 DEF Prepare
  <2>7. ASSUME NEW r \in Requests, Boot(r) PROVE FailedLeavesNoPoint'
    BY <2>7 DEF Boot
  <2>8. ASSUME NEW r \in Requests, FailView(r) PROVE FailedLeavesNoPoint'
    BY <2>8 DEF FailView
  <2>9. ASSUME NEW r \in Requests, Finish(r) PROVE FailedLeavesNoPoint'
    BY <2>9 DEF Finish, Pruned, Succeeds, PointOf
  <2>10. ASSUME NEW r \in Requests, MayRestore(r) PROVE FailedLeavesNoPoint'
    BY <2>10 DEF MayRestore
  <2>11. ASSUME NEW r \in Requests, Restore(r) PROVE FailedLeavesNoPoint'
    BY <2>11 DEF Restore, PointOf
  <2>12. ASSUME NEW r \in Requests, PointGone(r) PROVE FailedLeavesNoPoint'
    BY <2>12 DEF PointGone, PointOf
  <2>13. ASSUME NEW r \in Requests, DeleteRolledBack(r) PROVE FailedLeavesNoPoint'
    BY <2>13 DEF DeleteRolledBack, PointOf
  <2>14. ASSUME NEW r \in Requests, RestoreBegin(r) PROVE FailedLeavesNoPoint'
    BY <2>14 DEF RestoreBegin, Snapshot
  <2>15. ASSUME NEW r \in Requests, Undo(r) PROVE FailedLeavesNoPoint'
    BY <2>15 DEF Undo, Latest, Automatic
  <2>16. ASSUME NEW r \in Requests, Name(r) PROVE FailedLeavesNoPoint'
    BY <2>16 DEF Name, Snapshot
  <2>17. ASSUME NEW r \in Requests, Drop(r) PROVE FailedLeavesNoPoint'
    BY <2>17 DEF Drop
  <2>18. ASSUME NEW r \in Requests, Install(r) PROVE FailedLeavesNoPoint'
    BY <2>18 DEF Install
  <2>19. ASSUME MachineWrites PROVE FailedLeavesNoPoint'
    BY <2>19 DEF MachineWrites
  <2>20. ASSUME MachineCloses PROVE FailedLeavesNoPoint'
    BY <2>20 DEF MachineCloses
  <2>21. ASSUME MachineFinished PROVE FailedLeavesNoPoint'
    BY <2>21 DEF MachineFinished
  <2>22. ASSUME Crash PROVE FailedLeavesNoPoint'
    BY <2>22 DEF Crash, CrashLeaving
  <2>23. ASSUME CrashInRestore PROVE FailedLeavesNoPoint'
    BY <2>23 DEF CrashInRestore, CrashLeaving
  <2>24. ASSUME CrashInUndo PROVE FailedLeavesNoPoint'
    BY <2>24 DEF CrashInUndo
  <2>25. CASE UNCHANGED vars
    BY <2>25 DEF vars
  <2>26. QED
    BY <2>1, <2>2, <2>3, <2>4, <2>5, <2>6, <2>7, <2>8, <2>9, <2>10, <2>11, <2>12, <2>13, <2>14,
       <2>15, <2>16, <2>17, <2>18, <2>19, <2>20, <2>21, <2>22, <2>23, <2>24, <2>25
       DEF Next, RequestStep
<1>3. QED
  BY <1>1, <1>2, TypeCorrect, PTL DEF Spec

-----------------------------------------------------------------------------
(* Serial requests: SerialInv is inductive.                                 *)

LEMMA OneAtATimeKept ==
    ASSUME Serial, TypeOK, SerialInv, [Next]_vars
    PROVE  OneAtATime'
<1>0. /\ pc \in [Requests -> {"idle"} \cup Open \cup Answered]
      /\ kind \in [Requests -> AllKinds \cup {"none"}]
      /\ target \in [Requests -> Requests]
      /\ \A p \in points : p.by \in Requests
  BY DEF TypeOK, Point
<1>inv. OneAtATime
  BY DEF SerialInv
<1> USE <1>0, <1>inv DEF Goto, Arrive, fileVars, requestVars, OneAtATime, InFlight
<1>1. ASSUME NEW r \in Requests, Check(r) PROVE OneAtATime'
  BY <1>1 DEF Check, Admitted
<1>2. ASSUME NEW r \in Requests, Begin(r) PROVE OneAtATime'
  BY <1>2 DEF Begin, Snapshot
<1>3. ASSUME NEW r \in Requests, Clear(r) PROVE OneAtATime'
  BY <1>3 DEF Clear
<1>4. ASSUME NEW r \in Requests, Write(r) PROVE OneAtATime'
  BY <1>4 DEF Write
<1>5. ASSUME NEW r \in Requests, Mark(r) PROVE OneAtATime'
  BY <1>5 DEF Mark
<1>6. ASSUME NEW r \in Requests, Prepare(r) PROVE OneAtATime'
  BY <1>6 DEF Prepare
<1>7. ASSUME NEW r \in Requests, Boot(r) PROVE OneAtATime'
  BY <1>7 DEF Boot, StartMachine
<1>8. ASSUME NEW r \in Requests, FailView(r) PROVE OneAtATime'
  BY <1>8 DEF FailView
<1>9. ASSUME NEW r \in Requests, Finish(r) PROVE OneAtATime'
  BY <1>9 DEF Finish, Pruned, Succeeds, PointOf
<1>10. ASSUME NEW r \in Requests, MayRestore(r) PROVE OneAtATime'
  BY <1>10 DEF MayRestore
<1>11. ASSUME NEW r \in Requests, Restore(r) PROVE OneAtATime'
  BY <1>11 DEF Restore, PointOf, RestoreTo
<1>12. ASSUME NEW r \in Requests, PointGone(r) PROVE OneAtATime'
  BY <1>12 DEF PointGone, PointOf
<1>13. ASSUME NEW r \in Requests, DeleteRolledBack(r) PROVE OneAtATime'
  BY <1>13 DEF DeleteRolledBack, PointOf
<1>14. ASSUME NEW r \in Requests, RestoreBegin(r) PROVE OneAtATime'
  BY <1>14 DEF RestoreBegin, Snapshot, Admitted
<1>15. ASSUME NEW r \in Requests, Undo(r) PROVE OneAtATime'
  BY <1>15 DEF Undo, Latest, Automatic, RestoreTo, Admitted
<1>16. ASSUME NEW r \in Requests, Name(r) PROVE OneAtATime'
  BY <1>16 DEF Name, Snapshot, Admitted
<1>17. ASSUME NEW r \in Requests, Drop(r) PROVE OneAtATime'
  BY <1>17 DEF Drop, Admitted
<1>18. ASSUME NEW r \in Requests, Install(r) PROVE OneAtATime'
  BY <1>18 DEF Install, Admitted, StartMachine
<1>19. ASSUME MachineWrites PROVE OneAtATime'
  BY <1>19 DEF MachineWrites
<1>20. ASSUME MachineCloses PROVE OneAtATime'
  BY <1>20 DEF MachineCloses
<1>21. ASSUME MachineFinished PROVE OneAtATime'
  BY <1>21 DEF MachineFinished
<1>22. ASSUME Crash PROVE OneAtATime'
  BY <1>22 DEF Crash, CrashLeaving
<1>23. ASSUME CrashInRestore PROVE OneAtATime'
  BY <1>23 DEF CrashInRestore, CrashLeaving, PointOf
<1>24. ASSUME CrashInUndo PROVE OneAtATime'
  BY <1>24 DEF CrashInUndo, Latest, Automatic, Admitted
<1>25. CASE UNCHANGED vars
  BY <1>25 DEF vars
<1>26. QED
  BY <1>1, <1>2, <1>3, <1>4, <1>5, <1>6, <1>7, <1>8, <1>9, <1>10, <1>11, <1>12, <1>13, <1>14,
     <1>15, <1>16, <1>17, <1>18, <1>19, <1>20, <1>21, <1>22, <1>23, <1>24, <1>25
     DEF Next, RequestStep

LEMMA KindFitsKept ==
    ASSUME Serial, TypeOK, SerialInv, [Next]_vars
    PROVE  KindFits'
<1>0. /\ pc \in [Requests -> {"idle"} \cup Open \cup Answered]
      /\ kind \in [Requests -> AllKinds \cup {"none"}]
      /\ target \in [Requests -> Requests]
      /\ \A p \in points : p.by \in Requests
  BY DEF TypeOK, Point
<1>inv. KindFits
  BY DEF SerialInv
<1> USE <1>0, <1>inv DEF Goto, Arrive, fileVars, requestVars, KindFits
<1>1. ASSUME NEW r \in Requests, Check(r) PROVE KindFits'
  BY <1>1 DEF Check, Admitted
<1>2. ASSUME NEW r \in Requests, Begin(r) PROVE KindFits'
  BY <1>2 DEF Begin, Snapshot
<1>3. ASSUME NEW r \in Requests, Clear(r) PROVE KindFits'
  BY <1>3 DEF Clear
<1>4. ASSUME NEW r \in Requests, Write(r) PROVE KindFits'
  BY <1>4 DEF Write
<1>5. ASSUME NEW r \in Requests, Mark(r) PROVE KindFits'
  BY <1>5 DEF Mark
<1>6. ASSUME NEW r \in Requests, Prepare(r) PROVE KindFits'
  BY <1>6 DEF Prepare
<1>7. ASSUME NEW r \in Requests, Boot(r) PROVE KindFits'
  BY <1>7 DEF Boot, StartMachine
<1>8. ASSUME NEW r \in Requests, FailView(r) PROVE KindFits'
  BY <1>8 DEF FailView
<1>9. ASSUME NEW r \in Requests, Finish(r) PROVE KindFits'
  BY <1>9 DEF Finish, Pruned, Succeeds, PointOf
<1>10. ASSUME NEW r \in Requests, MayRestore(r) PROVE KindFits'
  BY <1>10 DEF MayRestore
<1>11. ASSUME NEW r \in Requests, Restore(r) PROVE KindFits'
  BY <1>11 DEF Restore, PointOf, RestoreTo
<1>12. ASSUME NEW r \in Requests, PointGone(r) PROVE KindFits'
  BY <1>12 DEF PointGone, PointOf
<1>13. ASSUME NEW r \in Requests, DeleteRolledBack(r) PROVE KindFits'
  BY <1>13 DEF DeleteRolledBack, PointOf
<1>14. ASSUME NEW r \in Requests, RestoreBegin(r) PROVE KindFits'
  BY <1>14 DEF RestoreBegin, Snapshot, Admitted
<1>15. ASSUME NEW r \in Requests, Undo(r) PROVE KindFits'
  BY <1>15 DEF Undo, Latest, Automatic, RestoreTo, Admitted
<1>16. ASSUME NEW r \in Requests, Name(r) PROVE KindFits'
  BY <1>16 DEF Name, Snapshot, Admitted
<1>17. ASSUME NEW r \in Requests, Drop(r) PROVE KindFits'
  BY <1>17 DEF Drop, Admitted
<1>18. ASSUME NEW r \in Requests, Install(r) PROVE KindFits'
  BY <1>18 DEF Install, Admitted, StartMachine
<1>19. ASSUME MachineWrites PROVE KindFits'
  BY <1>19 DEF MachineWrites
<1>20. ASSUME MachineCloses PROVE KindFits'
  BY <1>20 DEF MachineCloses
<1>21. ASSUME MachineFinished PROVE KindFits'
  BY <1>21 DEF MachineFinished
<1>22. ASSUME Crash PROVE KindFits'
  BY <1>22 DEF Crash, CrashLeaving
<1>23. ASSUME CrashInRestore PROVE KindFits'
  BY <1>23 DEF CrashInRestore, CrashLeaving, PointOf
<1>24. ASSUME CrashInUndo PROVE KindFits'
  BY <1>24 DEF CrashInUndo, Latest, Automatic, Admitted
<1>25. CASE UNCHANGED vars
  BY <1>25 DEF vars
<1>26. QED
  BY <1>1, <1>2, <1>3, <1>4, <1>5, <1>6, <1>7, <1>8, <1>9, <1>10, <1>11, <1>12, <1>13, <1>14,
     <1>15, <1>16, <1>17, <1>18, <1>19, <1>20, <1>21, <1>22, <1>23, <1>24, <1>25
     DEF Next, RequestStep

LEMMA WrittenByEditsKept ==
    ASSUME Serial, TypeOK, SerialInv, [Next]_vars
    PROVE  WrittenByEdits'
<1>0. /\ pc \in [Requests -> {"idle"} \cup Open \cup Answered]
      /\ kind \in [Requests -> AllKinds \cup {"none"}]
      /\ target \in [Requests -> Requests]
      /\ \A p \in points : p.by \in Requests
  BY DEF TypeOK, Point
<1>inv. WrittenByEdits /\ RecordedWhole /\ KindFits /\ CanRollBack /\ LookedInTime
  BY DEF SerialInv
<1> USE <1>0, <1>inv DEF Goto, Arrive, fileVars, requestVars, CanRollBack, KindFits,
      LookedInTime, RecordedWhole, WrittenByEdits
<1>1. ASSUME NEW r \in Requests, Check(r) PROVE WrittenByEdits'
  BY <1>1 DEF Check, Admitted
<1>2. ASSUME NEW r \in Requests, Begin(r) PROVE WrittenByEdits'
  BY <1>2 DEF Begin, Snapshot
<1>3. ASSUME NEW r \in Requests, Clear(r) PROVE WrittenByEdits'
  BY <1>3 DEF Clear
<1>4. ASSUME NEW r \in Requests, Write(r) PROVE WrittenByEdits'
  BY <1>4 DEF Write
<1>5. ASSUME NEW r \in Requests, Mark(r) PROVE WrittenByEdits'
  BY <1>5 DEF Mark
<1>6. ASSUME NEW r \in Requests, Prepare(r) PROVE WrittenByEdits'
  BY <1>6 DEF Prepare
<1>7. ASSUME NEW r \in Requests, Boot(r) PROVE WrittenByEdits'
  BY <1>7 DEF Boot, StartMachine
<1>8. ASSUME NEW r \in Requests, FailView(r) PROVE WrittenByEdits'
  BY <1>8 DEF FailView
<1>9. ASSUME NEW r \in Requests, Finish(r) PROVE WrittenByEdits'
  BY <1>9 DEF Finish, Pruned, Succeeds, PointOf
<1>10. ASSUME NEW r \in Requests, MayRestore(r) PROVE WrittenByEdits'
  BY <1>10 DEF MayRestore
<1>11. ASSUME NEW r \in Requests, Restore(r) PROVE WrittenByEdits'
  BY <1>11 DEF Restore, PointOf, RestoreTo
<1>12. ASSUME NEW r \in Requests, PointGone(r) PROVE WrittenByEdits'
  BY <1>12 DEF PointGone, PointOf
<1>13. ASSUME NEW r \in Requests, DeleteRolledBack(r) PROVE WrittenByEdits'
  BY <1>13 DEF DeleteRolledBack, PointOf
<1>14. ASSUME NEW r \in Requests, RestoreBegin(r) PROVE WrittenByEdits'
  BY <1>14 DEF RestoreBegin, Snapshot, Admitted
<1>15. ASSUME NEW r \in Requests, Undo(r) PROVE WrittenByEdits'
  BY <1>15 DEF Undo, Latest, Automatic, RestoreTo, Admitted
<1>16. ASSUME NEW r \in Requests, Name(r) PROVE WrittenByEdits'
  BY <1>16 DEF Name, Snapshot, Admitted
<1>17. ASSUME NEW r \in Requests, Drop(r) PROVE WrittenByEdits'
  BY <1>17 DEF Drop, Admitted
<1>18. ASSUME NEW r \in Requests, Install(r) PROVE WrittenByEdits'
  BY <1>18 DEF Install, Admitted, StartMachine
<1>19. ASSUME MachineWrites PROVE WrittenByEdits'
  BY <1>19, EmulatorRunAssumption DEF MachineWrites
<1>20. ASSUME MachineCloses PROVE WrittenByEdits'
  BY <1>20 DEF MachineCloses
<1>21. ASSUME MachineFinished PROVE WrittenByEdits'
  BY <1>21 DEF MachineFinished
<1>22. ASSUME Crash PROVE WrittenByEdits'
  BY <1>22 DEF Crash, CrashLeaving
<1>23. ASSUME CrashInRestore PROVE WrittenByEdits'
  BY <1>23 DEF CrashInRestore, CrashLeaving, PointOf
<1>24. ASSUME CrashInUndo PROVE WrittenByEdits'
  BY <1>24 DEF CrashInUndo, Latest, Automatic, Admitted
<1>25. CASE UNCHANGED vars
  BY <1>25 DEF vars
<1>26. QED
  BY <1>1, <1>2, <1>3, <1>4, <1>5, <1>6, <1>7, <1>8, <1>9, <1>10, <1>11, <1>12, <1>13, <1>14,
     <1>15, <1>16, <1>17, <1>18, <1>19, <1>20, <1>21, <1>22, <1>23, <1>24, <1>25
     DEF Next, RequestStep

LEMMA RecordedWholeKept ==
    ASSUME Serial, TypeOK, SerialInv, [Next]_vars
    PROVE  RecordedWhole'
<1>0. /\ pc \in [Requests -> {"idle"} \cup Open \cup Answered]
      /\ kind \in [Requests -> AllKinds \cup {"none"}]
      /\ target \in [Requests -> Requests]
      /\ \A p \in points : p.by \in Requests
  BY DEF TypeOK, Point
<1>inv. RecordedWhole /\ WrittenByEdits /\ OneAtATime
  BY DEF SerialInv
<1> USE <1>0, <1>inv DEF Goto, Arrive, fileVars, requestVars, OneAtATime, RecordedWhole,
      WrittenByEdits, InFlight
<1>1. ASSUME NEW r \in Requests, Check(r) PROVE RecordedWhole'
  BY <1>1 DEF Check, Admitted
<1>2. ASSUME NEW r \in Requests, Begin(r) PROVE RecordedWhole'
  BY <1>2 DEF Begin, Snapshot
<1>3. ASSUME NEW r \in Requests, Clear(r) PROVE RecordedWhole'
  BY <1>3 DEF Clear
<1>4. ASSUME NEW r \in Requests, Write(r) PROVE RecordedWhole'
  BY <1>4 DEF Write
<1>5. ASSUME NEW r \in Requests, Mark(r) PROVE RecordedWhole'
  BY <1>5 DEF Mark
<1>6. ASSUME NEW r \in Requests, Prepare(r) PROVE RecordedWhole'
  BY <1>6 DEF Prepare
<1>7. ASSUME NEW r \in Requests, Boot(r) PROVE RecordedWhole'
  BY <1>7 DEF Boot, StartMachine
<1>8. ASSUME NEW r \in Requests, FailView(r) PROVE RecordedWhole'
  BY <1>8 DEF FailView
<1>9. ASSUME NEW r \in Requests, Finish(r) PROVE RecordedWhole'
  BY <1>9 DEF Finish, Pruned, Succeeds, PointOf
<1>10. ASSUME NEW r \in Requests, MayRestore(r) PROVE RecordedWhole'
  BY <1>10 DEF MayRestore
<1>11. ASSUME NEW r \in Requests, Restore(r) PROVE RecordedWhole'
  BY <1>11 DEF Restore, PointOf, RestoreTo
<1>12. ASSUME NEW r \in Requests, PointGone(r) PROVE RecordedWhole'
  BY <1>12 DEF PointGone, PointOf
<1>13. ASSUME NEW r \in Requests, DeleteRolledBack(r) PROVE RecordedWhole'
  BY <1>13 DEF DeleteRolledBack, PointOf
<1>14. ASSUME NEW r \in Requests, RestoreBegin(r) PROVE RecordedWhole'
  BY <1>14 DEF RestoreBegin, Snapshot, Admitted
<1>15. ASSUME NEW r \in Requests, Undo(r) PROVE RecordedWhole'
  BY <1>15 DEF Undo, Latest, Automatic, RestoreTo, Admitted
<1>16. ASSUME NEW r \in Requests, Name(r) PROVE RecordedWhole'
  BY <1>16 DEF Name, Snapshot, Admitted
<1>17. ASSUME NEW r \in Requests, Drop(r) PROVE RecordedWhole'
  BY <1>17 DEF Drop, Admitted
<1>18. ASSUME NEW r \in Requests, Install(r) PROVE RecordedWhole'
  BY <1>18 DEF Install, Admitted, StartMachine
<1>19. ASSUME MachineWrites PROVE RecordedWhole'
  BY <1>19 DEF MachineWrites
<1>20. ASSUME MachineCloses PROVE RecordedWhole'
  BY <1>20 DEF MachineCloses
<1>21. ASSUME MachineFinished PROVE RecordedWhole'
  BY <1>21 DEF MachineFinished
<1>22. ASSUME Crash PROVE RecordedWhole'
  BY <1>22 DEF Crash, CrashLeaving
<1>23. ASSUME CrashInRestore PROVE RecordedWhole'
  BY <1>23 DEF CrashInRestore, CrashLeaving, PointOf
<1>24. ASSUME CrashInUndo PROVE RecordedWhole'
  BY <1>24 DEF CrashInUndo, Latest, Automatic, Admitted
<1>25. CASE UNCHANGED vars
  BY <1>25 DEF vars
<1>26. QED
  BY <1>1, <1>2, <1>3, <1>4, <1>5, <1>6, <1>7, <1>8, <1>9, <1>10, <1>11, <1>12, <1>13, <1>14,
     <1>15, <1>16, <1>17, <1>18, <1>19, <1>20, <1>21, <1>22, <1>23, <1>24, <1>25
     DEF Next, RequestStep

LEMMA MadeByStartedKept ==
    ASSUME Serial, TypeOK, SerialInv, [Next]_vars
    PROVE  MadeByStarted'
<1>0. /\ pc \in [Requests -> {"idle"} \cup Open \cup Answered]
      /\ kind \in [Requests -> AllKinds \cup {"none"}]
      /\ target \in [Requests -> Requests]
      /\ \A p \in points : p.by \in Requests
  BY DEF TypeOK, Point
<1>inv. MadeByStarted
  BY DEF SerialInv
<1> USE <1>0, <1>inv DEF Goto, Arrive, fileVars, requestVars, MadeByStarted
<1>1. ASSUME NEW r \in Requests, Check(r) PROVE MadeByStarted'
  BY <1>1 DEF Check, Admitted
<1>2. ASSUME NEW r \in Requests, Begin(r) PROVE MadeByStarted'
  BY <1>2 DEF Begin, Snapshot
<1>3. ASSUME NEW r \in Requests, Clear(r) PROVE MadeByStarted'
  BY <1>3 DEF Clear
<1>4. ASSUME NEW r \in Requests, Write(r) PROVE MadeByStarted'
  BY <1>4 DEF Write
<1>5. ASSUME NEW r \in Requests, Mark(r) PROVE MadeByStarted'
  BY <1>5 DEF Mark
<1>6. ASSUME NEW r \in Requests, Prepare(r) PROVE MadeByStarted'
  BY <1>6 DEF Prepare
<1>7. ASSUME NEW r \in Requests, Boot(r) PROVE MadeByStarted'
  BY <1>7 DEF Boot, StartMachine
<1>8. ASSUME NEW r \in Requests, FailView(r) PROVE MadeByStarted'
  BY <1>8 DEF FailView
<1>9. ASSUME NEW r \in Requests, Finish(r) PROVE MadeByStarted'
  BY <1>9 DEF Finish, Pruned, Succeeds, PointOf
<1>10. ASSUME NEW r \in Requests, MayRestore(r) PROVE MadeByStarted'
  BY <1>10 DEF MayRestore
<1>11. ASSUME NEW r \in Requests, Restore(r) PROVE MadeByStarted'
  BY <1>11 DEF Restore, PointOf, RestoreTo
<1>12. ASSUME NEW r \in Requests, PointGone(r) PROVE MadeByStarted'
  BY <1>12 DEF PointGone, PointOf
<1>13. ASSUME NEW r \in Requests, DeleteRolledBack(r) PROVE MadeByStarted'
  BY <1>13 DEF DeleteRolledBack, PointOf
<1>14. ASSUME NEW r \in Requests, RestoreBegin(r) PROVE MadeByStarted'
  BY <1>14 DEF RestoreBegin, Snapshot, Admitted
<1>15. ASSUME NEW r \in Requests, Undo(r) PROVE MadeByStarted'
  BY <1>15 DEF Undo, Latest, Automatic, RestoreTo, Admitted
<1>16. ASSUME NEW r \in Requests, Name(r) PROVE MadeByStarted'
  BY <1>16 DEF Name, Snapshot, Admitted
<1>17. ASSUME NEW r \in Requests, Drop(r) PROVE MadeByStarted'
  BY <1>17 DEF Drop, Admitted
<1>18. ASSUME NEW r \in Requests, Install(r) PROVE MadeByStarted'
  BY <1>18 DEF Install, Admitted, StartMachine
<1>19. ASSUME MachineWrites PROVE MadeByStarted'
  BY <1>19 DEF MachineWrites
<1>20. ASSUME MachineCloses PROVE MadeByStarted'
  BY <1>20 DEF MachineCloses
<1>21. ASSUME MachineFinished PROVE MadeByStarted'
  BY <1>21 DEF MachineFinished
<1>22. ASSUME Crash PROVE MadeByStarted'
  BY <1>22 DEF Crash, CrashLeaving
<1>23. ASSUME CrashInRestore PROVE MadeByStarted'
  BY <1>23 DEF CrashInRestore, CrashLeaving, PointOf
<1>24. ASSUME CrashInUndo PROVE MadeByStarted'
  BY <1>24 DEF CrashInUndo, Latest, Automatic, Admitted
<1>25. CASE UNCHANGED vars
  BY <1>25 DEF vars
<1>26. QED
  BY <1>1, <1>2, <1>3, <1>4, <1>5, <1>6, <1>7, <1>8, <1>9, <1>10, <1>11, <1>12, <1>13, <1>14,
     <1>15, <1>16, <1>17, <1>18, <1>19, <1>20, <1>21, <1>22, <1>23, <1>24, <1>25
     DEF Next, RequestStep

LEMMA CanRollBackKept ==
    ASSUME Serial, TypeOK, SerialInv, [Next]_vars
    PROVE  CanRollBack'
<1>0. /\ pc \in [Requests -> {"idle"} \cup Open \cup Answered]
      /\ kind \in [Requests -> AllKinds \cup {"none"}]
      /\ target \in [Requests -> Requests]
      /\ \A p \in points : p.by \in Requests
  BY DEF TypeOK, Point
<1>inv. CanRollBack /\ MadeByStarted /\ OneAtATime /\ KindFits
  BY DEF SerialInv
<1> USE <1>0, <1>inv DEF Goto, Arrive, fileVars, requestVars, CanRollBack, KindFits,
      MadeByStarted, OneAtATime, InFlight, PointOf
<1>1. ASSUME NEW r \in Requests, Check(r) PROVE CanRollBack'
  BY <1>1 DEF Check, Admitted
<1>2. ASSUME NEW r \in Requests, Begin(r) PROVE CanRollBack'
  <2>1. r \in InFlight /\ \A q \in Requests \ {r} : pc'[q] \notin Open
    BY <1>2 DEF Begin
  <2>2. PointOf(r)' = {Snapshot(r, TRUE)}
    BY <1>2 DEF Begin, Snapshot, MadeByStarted
  <2>3. image' = Snapshot(r, TRUE).image /\ target'[r] = r
    BY <1>2 DEF Begin, Snapshot
  <2>4. ASSUME NEW q \in Requests,
               pc'[q] \in InView \cup {"failing", "rolling"}
        PROVE  q = r
    BY <2>1, <2>4
  <2>5. /\ target'[r] = r
        /\ PointOf(r)' # {}
        /\ \A p \in PointOf(r)' : image' \subseteq p.image \cup {r, EmulatorRun}
    <3> HIDE DEF PointOf
    <3> QED
      BY <2>2, <2>3
  <2>6. QED
    BY <2>4, <2>5
<1>3. ASSUME NEW r \in Requests, Clear(r) PROVE CanRollBack'
  BY <1>3 DEF Clear
<1>4. ASSUME NEW r \in Requests, Write(r) PROVE CanRollBack'
  BY <1>4 DEF Write
<1>5. ASSUME NEW r \in Requests, Mark(r) PROVE CanRollBack'
  BY <1>5 DEF Mark
<1>6. ASSUME NEW r \in Requests, Prepare(r) PROVE CanRollBack'
  BY <1>6 DEF Prepare
<1>7. ASSUME NEW r \in Requests, Boot(r) PROVE CanRollBack'
  BY <1>7 DEF Boot, StartMachine
<1>8. ASSUME NEW r \in Requests, FailView(r) PROVE CanRollBack'
  BY <1>8 DEF FailView
<1>9. ASSUME NEW r \in Requests, Finish(r) PROVE CanRollBack'
  BY <1>9 DEF Finish, Pruned, Succeeds, PointOf
<1>10. ASSUME NEW r \in Requests, MayRestore(r) PROVE CanRollBack'
  BY <1>10 DEF MayRestore
<1>11. ASSUME NEW r \in Requests, Restore(r) PROVE CanRollBack'
  BY <1>11 DEF Restore, PointOf, RestoreTo
<1>12. ASSUME NEW r \in Requests, PointGone(r) PROVE CanRollBack'
  BY <1>12 DEF PointGone, PointOf
<1>13. ASSUME NEW r \in Requests, DeleteRolledBack(r) PROVE CanRollBack'
  BY <1>13 DEF DeleteRolledBack, PointOf
<1>14. ASSUME NEW r \in Requests, RestoreBegin(r) PROVE CanRollBack'
  BY <1>14 DEF RestoreBegin, Snapshot, Admitted
<1>15. ASSUME NEW r \in Requests, Undo(r) PROVE CanRollBack'
  BY <1>15 DEF Undo, Latest, Automatic, RestoreTo, Admitted
<1>16. ASSUME NEW r \in Requests, Name(r) PROVE CanRollBack'
  BY <1>16 DEF Name, Snapshot, Admitted
<1>17. ASSUME NEW r \in Requests, Drop(r) PROVE CanRollBack'
  BY <1>17 DEF Drop, Admitted
<1>18. ASSUME NEW r \in Requests, Install(r) PROVE CanRollBack'
  BY <1>18 DEF Install, Admitted, StartMachine
<1>19. ASSUME MachineWrites PROVE CanRollBack'
  BY <1>19 DEF MachineWrites
<1>20. ASSUME MachineCloses PROVE CanRollBack'
  BY <1>20 DEF MachineCloses
<1>21. ASSUME MachineFinished PROVE CanRollBack'
  BY <1>21 DEF MachineFinished
<1>22. ASSUME Crash PROVE CanRollBack'
  BY <1>22 DEF Crash, CrashLeaving
<1>23. ASSUME CrashInRestore PROVE CanRollBack'
  BY <1>23 DEF CrashInRestore, CrashLeaving, PointOf
<1>24. ASSUME CrashInUndo PROVE CanRollBack'
  BY <1>24 DEF CrashInUndo, Latest, Automatic, Admitted
<1>25. CASE UNCHANGED vars
  BY <1>25 DEF vars
<1>26. QED
  BY <1>1, <1>2, <1>3, <1>4, <1>5, <1>6, <1>7, <1>8, <1>9, <1>10, <1>11, <1>12, <1>13, <1>14,
     <1>15, <1>16, <1>17, <1>18, <1>19, <1>20, <1>21, <1>22, <1>23, <1>24, <1>25
     DEF Next, RequestStep

LEMMA LookedInTimeKept ==
    ASSUME Serial, TypeOK, SerialInv, [Next]_vars
    PROVE  LookedInTime'
<1>0. /\ pc \in [Requests -> {"idle"} \cup Open \cup Answered]
      /\ kind \in [Requests -> AllKinds \cup {"none"}]
      /\ target \in [Requests -> Requests]
      /\ \A p \in points : p.by \in Requests
  BY DEF TypeOK, Point
<1>inv. LookedInTime /\ OneAtATime /\ KindFits
  BY DEF SerialInv
<1> USE <1>0, <1>inv DEF Goto, Arrive, fileVars, requestVars, KindFits, LookedInTime,
      OneAtATime, InFlight, InEmulator
<1>1. ASSUME NEW r \in Requests, Check(r) PROVE LookedInTime'
  BY <1>1 DEF Check, Admitted
<1>2. ASSUME NEW r \in Requests, Begin(r) PROVE LookedInTime'
  BY <1>2 DEF Begin, Snapshot
<1>3. ASSUME NEW r \in Requests, Clear(r) PROVE LookedInTime'
  BY <1>3 DEF Clear
<1>4. ASSUME NEW r \in Requests, Write(r) PROVE LookedInTime'
  BY <1>4 DEF Write
<1>5. ASSUME NEW r \in Requests, Mark(r) PROVE LookedInTime'
  BY <1>5 DEF Mark
<1>6. ASSUME NEW r \in Requests, Prepare(r) PROVE LookedInTime'
  BY <1>6 DEF Prepare
<1>7. ASSUME NEW r \in Requests, Boot(r) PROVE LookedInTime'
  BY <1>7 DEF Boot, StartMachine
<1>8. ASSUME NEW r \in Requests, FailView(r) PROVE LookedInTime'
  BY <1>8 DEF FailView
<1>9. ASSUME NEW r \in Requests, Finish(r) PROVE LookedInTime'
  BY <1>9 DEF Finish, Pruned, Succeeds, PointOf
<1>10. ASSUME NEW r \in Requests, MayRestore(r) PROVE LookedInTime'
  BY <1>10 DEF MayRestore
<1>11. ASSUME NEW r \in Requests, Restore(r) PROVE LookedInTime'
  BY <1>11 DEF Restore, PointOf, RestoreTo
<1>12. ASSUME NEW r \in Requests, PointGone(r) PROVE LookedInTime'
  BY <1>12 DEF PointGone, PointOf
<1>13. ASSUME NEW r \in Requests, DeleteRolledBack(r) PROVE LookedInTime'
  BY <1>13 DEF DeleteRolledBack, PointOf
<1>14. ASSUME NEW r \in Requests, RestoreBegin(r) PROVE LookedInTime'
  BY <1>14 DEF RestoreBegin, Snapshot, Admitted
<1>15. ASSUME NEW r \in Requests, Undo(r) PROVE LookedInTime'
  BY <1>15 DEF Undo, Latest, Automatic, RestoreTo, Admitted
<1>16. ASSUME NEW r \in Requests, Name(r) PROVE LookedInTime'
  BY <1>16 DEF Name, Snapshot, Admitted
<1>17. ASSUME NEW r \in Requests, Drop(r) PROVE LookedInTime'
  BY <1>17 DEF Drop, Admitted
<1>18. ASSUME NEW r \in Requests, Install(r) PROVE LookedInTime'
  BY <1>18 DEF Install, Admitted, StartMachine
<1>19. ASSUME MachineWrites PROVE LookedInTime'
  BY <1>19 DEF MachineWrites
<1>20. ASSUME MachineCloses PROVE LookedInTime'
  BY <1>20 DEF MachineCloses
<1>21. ASSUME MachineFinished PROVE LookedInTime'
  BY <1>21 DEF MachineFinished
<1>22. ASSUME Crash PROVE LookedInTime'
  BY <1>22 DEF Crash, CrashLeaving
<1>23. ASSUME CrashInRestore PROVE LookedInTime'
  BY <1>23 DEF CrashInRestore, CrashLeaving, PointOf
<1>24. ASSUME CrashInUndo PROVE LookedInTime'
  BY <1>24 DEF CrashInUndo, Latest, Automatic, Admitted
<1>25. CASE UNCHANGED vars
  BY <1>25 DEF vars
<1>26. QED
  BY <1>1, <1>2, <1>3, <1>4, <1>5, <1>6, <1>7, <1>8, <1>9, <1>10, <1>11, <1>12, <1>13, <1>14,
     <1>15, <1>16, <1>17, <1>18, <1>19, <1>20, <1>21, <1>22, <1>23, <1>24, <1>25
     DEF Next, RequestStep

LEMMA EditUndoneKept ==
    ASSUME Serial, TypeOK, SerialInv, [Next]_vars
    PROVE  EditUndone'
<1>0. /\ pc \in [Requests -> {"idle"} \cup Open \cup Answered]
      /\ kind \in [Requests -> AllKinds \cup {"none"}]
      /\ target \in [Requests -> Requests]
      /\ \A p \in points : p.by \in Requests
  BY DEF TypeOK, Point
<1>inv. EditUndone /\ KindFits /\ CanRollBack /\ LookedInTime
  BY DEF SerialInv
<1> USE <1>0, <1>inv DEF Goto, Arrive, fileVars, requestVars, CanRollBack, EditUndone,
      KindFits, LookedInTime, PointOf
<1>1. ASSUME NEW r \in Requests, Check(r) PROVE EditUndone'
  BY <1>1 DEF Check, Admitted
<1>2. ASSUME NEW r \in Requests, Begin(r) PROVE EditUndone'
  BY <1>2 DEF Begin, Snapshot
<1>3. ASSUME NEW r \in Requests, Clear(r) PROVE EditUndone'
  BY <1>3 DEF Clear
<1>4. ASSUME NEW r \in Requests, Write(r) PROVE EditUndone'
  BY <1>4 DEF Write
<1>5. ASSUME NEW r \in Requests, Mark(r) PROVE EditUndone'
  BY <1>5 DEF Mark
<1>6. ASSUME NEW r \in Requests, Prepare(r) PROVE EditUndone'
  BY <1>6 DEF Prepare
<1>7. ASSUME NEW r \in Requests, Boot(r) PROVE EditUndone'
  BY <1>7 DEF Boot, StartMachine
<1>8. ASSUME NEW r \in Requests, FailView(r) PROVE EditUndone'
  BY <1>8 DEF FailView
<1>9. ASSUME NEW r \in Requests, Finish(r) PROVE EditUndone'
  BY <1>9 DEF Finish, Pruned, Succeeds, PointOf
<1>10. ASSUME NEW r \in Requests, MayRestore(r) PROVE EditUndone'
  BY <1>10 DEF MayRestore
<1>11. ASSUME NEW r \in Requests, Restore(r) PROVE EditUndone'
  BY <1>11 DEF Restore, PointOf, RestoreTo
<1>12. ASSUME NEW r \in Requests, PointGone(r) PROVE EditUndone'
  BY <1>12 DEF PointGone, PointOf
<1>13. ASSUME NEW r \in Requests, DeleteRolledBack(r) PROVE EditUndone'
  BY <1>13 DEF DeleteRolledBack, PointOf
<1>14. ASSUME NEW r \in Requests, RestoreBegin(r) PROVE EditUndone'
  BY <1>14 DEF RestoreBegin, Snapshot, Admitted
<1>15. ASSUME NEW r \in Requests, Undo(r) PROVE EditUndone'
  BY <1>15 DEF Undo, Latest, Automatic, RestoreTo, Admitted
<1>16. ASSUME NEW r \in Requests, Name(r) PROVE EditUndone'
  BY <1>16 DEF Name, Snapshot, Admitted
<1>17. ASSUME NEW r \in Requests, Drop(r) PROVE EditUndone'
  BY <1>17 DEF Drop, Admitted
<1>18. ASSUME NEW r \in Requests, Install(r) PROVE EditUndone'
  BY <1>18 DEF Install, Admitted, StartMachine
<1>19. ASSUME MachineWrites PROVE EditUndone'
  BY <1>19 DEF MachineWrites
<1>20. ASSUME MachineCloses PROVE EditUndone'
  BY <1>20 DEF MachineCloses
<1>21. ASSUME MachineFinished PROVE EditUndone'
  BY <1>21 DEF MachineFinished
<1>22. ASSUME Crash PROVE EditUndone'
  BY <1>22 DEF Crash, CrashLeaving
<1>23. ASSUME CrashInRestore PROVE EditUndone'
  BY <1>23 DEF CrashInRestore, CrashLeaving, PointOf
<1>24. ASSUME CrashInUndo PROVE EditUndone'
  BY <1>24 DEF CrashInUndo, Latest, Automatic, Admitted
<1>25. CASE UNCHANGED vars
  BY <1>25 DEF vars
<1>26. QED
  BY <1>1, <1>2, <1>3, <1>4, <1>5, <1>6, <1>7, <1>8, <1>9, <1>10, <1>11, <1>12, <1>13, <1>14,
     <1>15, <1>16, <1>17, <1>18, <1>19, <1>20, <1>21, <1>22, <1>23, <1>24, <1>25
     DEF Next, RequestStep

(* Between any two steps of serial requests the bracket is sound: a request *)
(* that may still fail has the point to go back to, and no point holds part *)
(* of a request that may still fail.                                        *)
THEOREM SerialInvariant == ASSUME Serial PROVE Spec => []SerialInv
<1>1. Init => SerialInv
  BY DEF Init, SerialInv, OneAtATime, InFlight, KindFits, WrittenByEdits,
         RecordedWhole, MadeByStarted, CanRollBack, LookedInTime, EditUndone
<1>2. TypeOK /\ SerialInv /\ [Next]_vars => SerialInv'
  <2> SUFFICES ASSUME TypeOK, SerialInv, [Next]_vars PROVE SerialInv'
    OBVIOUS
  <2>1. OneAtATime' /\ KindFits' /\ WrittenByEdits' /\ RecordedWhole'
    BY OneAtATimeKept, KindFitsKept, WrittenByEditsKept, RecordedWholeKept
  <2>2. MadeByStarted' /\ CanRollBack' /\ LookedInTime' /\ EditUndone'
    BY MadeByStartedKept, CanRollBackKept, LookedInTimeKept, EditUndoneKept
  <2>3. QED
    BY <2>1, <2>2 DEF SerialInv
<1>3. QED
  BY <1>1, <1>2, TypeCorrect, PTL DEF Spec

(* With serial requests an edit that was answered with an error has left    *)
(* nothing in the image and no undo point (rollback_automatic_checkpoint).  *)
THEOREM FailedEditsAreUndone ==
    ASSUME Serial PROVE Spec => []FailedEditLeavesNothing
<1>1. SerialInv => FailedEditLeavesNothing
  BY DEF SerialInv, WrittenByEdits, EditUndone, FailedEditLeavesNothing
<1>2. QED
  BY <1>1, SerialInvariant, PTL

(* With serial requests only the machine changes an image it has: the tests *)
(* of in_emulator made without the lock are made in time.                   *)
THEOREM MachineHasImage == ASSUME Serial PROVE Spec => EmulatorOwnsImage
<1>1. TypeOK /\ SerialInv /\ [Next]_vars
        => [InEmulator /\ image' # image => image' = image \cup {EmulatorRun}]_vars
  <2> SUFFICES ASSUME TypeOK, SerialInv, [Next]_vars, InEmulator, image' # image
               PROVE  image' = image \cup {EmulatorRun}
    OBVIOUS
  <2>0. LookedInTime /\ KindFits
    BY DEF SerialInv
  <2>1. ASSUME NEW q \in Requests,
               \/ Check(q) \/ Begin(q) \/ Clear(q) \/ Mark(q) \/ Prepare(q)
               \/ Boot(q) \/ FailView(q) \/ Finish(q) \/ MayRestore(q)
               \/ PointGone(q) \/ DeleteRolledBack(q) \/ RestoreBegin(q)
               \/ Name(q) \/ Drop(q) \/ Install(q)
        PROVE  image' = image
    BY <2>1 DEF Check, Begin, Clear, Mark, Prepare, Boot, FailView, Finish,
                MayRestore, PointGone, DeleteRolledBack, RestoreBegin, Name,
                Drop, Install, fileVars
  <2>2. CASE MachineCloses \/ MachineFinished \/ Crash \/ UNCHANGED vars
    BY <2>2 DEF MachineCloses, MachineFinished, Crash, CrashLeaving, fileVars,
                vars
  <2>3. ASSUME NEW q \in Requests, Write(q) PROVE FALSE
    BY <2>0, <2>3 DEF Write, LookedInTime, KindFits
  <2>4. ASSUME NEW q \in Requests, Restore(q) PROVE FALSE
    BY <2>0, <2>4 DEF Restore, LookedInTime
  <2>5. ASSUME NEW q \in Requests, Undo(q) PROVE FALSE
    BY <2>5 DEF Undo
  <2>6. CASE MachineWrites
    BY <2>6 DEF MachineWrites
  <2>7. CASE CrashInRestore
    BY <2>0, <2>7 DEF CrashInRestore, LookedInTime
  <2>8. CASE CrashInUndo
    BY <2>8 DEF CrashInUndo
  <2>9. QED
    BY <2>1, <2>2, <2>3, <2>4, <2>5, <2>6, <2>7, <2>8 DEF Next, RequestStep
<1>2. QED
  BY <1>1, SerialInvariant, TypeCorrect, PTL DEF Spec, EmulatorOwnsImage

(* With serial requests a change that was answered with success is taken    *)
(* out of the image only by an undo or a restore that was asked for, never  *)
(* by the failure of another request, also when the server crashes.         *)
THEOREM AcknowledgedChangesStay ==
    ASSUME Serial PROVE Spec => AcknowledgedChangeSurvives
<1>1. ASSUME TypeOK, SerialInv, [Next]_vars, NEW r \in Requests,
             kind[r] = "edit", pc[r] = "ok", r \in image, r \notin image'
      PROVE  GoingBack
  <2>0. /\ pc \in [Requests -> {"idle"} \cup Open \cup Answered]
        /\ kind \in [Requests -> AllKinds \cup {"none"}]
        /\ CanRollBack /\ KindFits
    BY <1>1 DEF SerialInv, TypeOK
  <2>1. ASSUME NEW q \in Requests,
               \/ Check(q) \/ Begin(q) \/ Clear(q) \/ Mark(q) \/ Prepare(q)
               \/ Boot(q) \/ FailView(q) \/ Finish(q) \/ MayRestore(q)
               \/ PointGone(q) \/ DeleteRolledBack(q) \/ RestoreBegin(q)
               \/ Name(q) \/ Drop(q) \/ Install(q)
        PROVE  image' = image
    BY <2>1 DEF Check, Begin, Clear, Mark, Prepare, Boot, FailView, Finish,
                MayRestore, PointGone, DeleteRolledBack, RestoreBegin, Name,
                Drop, Install, fileVars
  <2>2. CASE MachineCloses \/ MachineFinished \/ Crash \/ UNCHANGED vars
    BY <1>1, <2>2 DEF MachineCloses, MachineFinished, Crash, CrashLeaving, fileVars,
                vars
  <2>3. ASSUME NEW q \in Requests, Write(q) PROVE GoingBack
    BY <1>1, <2>3 DEF Write
  <2>4. ASSUME NEW q \in Requests, Restore(q) PROVE GoingBack
    <3>1. CASE kind[q] = "restore"
      BY <2>0, <2>4, <3>1 DEF Restore, GoingBack, Goto
    <3>2. CASE kind[q] # "restore"
      BY <1>1, <2>0, <2>4, <3>2, EmulatorRunAssumption
         DEF Restore, RestoreTo, CanRollBack, KindFits
    <3>3. QED
      BY <3>1, <3>2
  <2>5. ASSUME NEW q \in Requests, Undo(q) PROVE GoingBack
    BY <2>0, <2>5 DEF Undo, Arrive, Goto, GoingBack
  <2>6. CASE MachineWrites
    BY <1>1, <2>6 DEF MachineWrites
  <2>7. CASE CrashInRestore
    <3>1. PICK q \in Requests : \E p \in PointOf(target[q]) :
            pc[q] = "rolling" /\ CrashLeaving(p.image, TRUE)
      BY <2>7 DEF CrashInRestore
    <3>2. CASE kind[q] = "restore"
      BY <2>0, <3>1, <3>2 DEF CrashLeaving, GoingBack
    <3>3. CASE kind[q] # "restore"
      BY <1>1, <2>0, <3>1, <3>3, EmulatorRunAssumption
         DEF CrashLeaving, CanRollBack, KindFits
    <3>4. QED
      BY <3>2, <3>3
  <2>8. CASE CrashInUndo
    BY <2>0, <2>8 DEF CrashInUndo, GoingBack
  <2>9. QED
    BY <1>1, <2>1, <2>2, <2>3, <2>4, <2>5, <2>6, <2>7, <2>8 DEF Next, RequestStep
<1>2. TypeOK /\ SerialInv /\ [Next]_vars
        => [\A r \in Requests :
              (kind[r] = "edit" /\ pc[r] = "ok" /\ r \in image /\ r \notin image')
                  => GoingBack]_vars
  BY <1>1
<1>3. QED
  BY <1>2, SerialInvariant, TypeCorrect, PTL DEF Spec, AcknowledgedChangeSurvives

-----------------------------------------------------------------------------
(* The checkpoint limit, whatever the interleaving.                         *)

Done(P) == {p \in Automatic(P) : kind[p.by] \in Bracketed /\ pc[p.by] = "ok"}

Newer(P, p) == {q \in P : q.created > p.created}

(* A finite set of points with different stamps, each of which has fewer    *)
(* than n newer ones beside it, has at most n: counting the newer ones is   *)
(* one to one.                                                              *)
LEMMA FewNewer ==
    ASSUME NEW S, IsFiniteSet(S), NEW n \in Nat \ {0},
           \A p \in S : p.created \in Nat,
           \A p, q \in S : p.created = q.created => p = q,
           \A p \in S : Cardinality(Newer(S, p)) < n
    PROVE  Cardinality(S) <= n
<1> DEFINE count == [p \in S |-> Cardinality(Newer(S, p))]
<1>1. ASSUME NEW p \in S PROVE IsFiniteSet(Newer(S, p)) /\ Cardinality(Newer(S, p)) \in Nat
  <2>1. Newer(S, p) \in SUBSET S
    BY DEF Newer
  <2>2. QED
    BY <2>1, FS_Subset, FS_CardinalityType
<1>2. count \in [S -> 0..(n - 1)]
  BY <1>1
<1>3. ASSUME NEW p \in S, NEW q \in S, p.created < q.created
      PROVE  Cardinality(Newer(S, q)) < Cardinality(Newer(S, p))
  <2>1. /\ Newer(S, q) \in SUBSET Newer(S, p)
        /\ Newer(S, q) # Newer(S, p)
    BY <1>3 DEF Newer
  <2>2. QED
    BY <1>1, <2>1, FS_Subset
<1>4. ASSUME NEW p \in S, NEW q \in S, p # q PROVE count[p] # count[q]
  <2>1. p.created # q.created
    BY <1>4
  <2>2. p.created < q.created \/ q.created < p.created
    BY <2>1
  <2>3. QED
    BY <1>1, <1>3, <2>2
<1>5. IsFiniteSet(0..(n - 1)) /\ Cardinality(0..(n - 1)) = n
  BY FS_Interval
<1>6. ~(Cardinality(0..(n - 1)) < Cardinality(S))
  <2> HIDE DEF count
  <2>1. SUFFICES ASSUME Cardinality(0..(n - 1)) < Cardinality(S) PROVE FALSE
    OBVIOUS
  <2>2. \E x, y \in S : x # y /\ count[x] = count[y]
    BY <1>2, <1>5, <2>1, FS_PigeonHole
  <2>3. QED
    BY <1>4, <2>2
<1>7. Cardinality(S) \in Nat
  BY FS_CardinalityType
<1>8. QED
  BY <1>5, <1>6, <1>7

(* prune_automatic leaves at most AutoLimit automatic points. *)
LEMMA PrunedWithinLimit ==
    ASSUME NEW P, IsFiniteSet(P), \A p \in P : p.created \in Nat,
           \A p, q \in P : p.created = q.created => p = q
    PROVE  Cardinality(Automatic(Pruned(P))) <= AutoLimit
<1> DEFINE S == Automatic(Pruned(P))
<1>1. S \in SUBSET P
  BY DEF Automatic, Pruned
<1>2. IsFiniteSet(S)
  BY <1>1, FS_Subset
<1>3. ASSUME NEW p \in S PROVE Cardinality(Newer(S, p)) < AutoLimit
  <2> DEFINE N == {q \in Automatic(P) : q.created > p.created}
  <2>1. Cardinality(N) < AutoLimit
    BY DEF Automatic, Pruned
  <2>2. N \in SUBSET P /\ Newer(S, p) \in SUBSET N
    BY <1>1 DEF Newer, Automatic, Pruned
  <2>3. IsFiniteSet(N)
    BY <2>2, FS_Subset
  <2>4. /\ IsFiniteSet(Newer(S, p))
        /\ Cardinality(Newer(S, p)) <= Cardinality(N)
    BY <2>2, <2>3, FS_Subset
  <2>5. Cardinality(N) \in Nat /\ Cardinality(Newer(S, p)) \in Nat
    BY <2>3, <2>4, FS_CardinalityType
  <2>6. QED
    BY <2>1, <2>4, <2>5, LimitAssumption
<1>4. /\ \A p \in S : p.created \in Nat
      /\ \A p, q \in S : p.created = q.created => p = q
  BY <1>1
<1> HIDE DEF S
<1>5. Cardinality(S) <= AutoLimit
  BY <1>2, <1>3, <1>4, FewNewer, LimitAssumption
<1>6. QED
  BY <1>5 DEF S

(* A step that leaves no more finished requests with a point keeps to the   *)
(* limit.                                                                   *)
LEMMA FewerDone ==
    ASSUME LimitInv, Done(points)' \subseteq Done(points)
    PROVE  FinishedWithinLimit'
<1>1. Done(points) \in SUBSET points
  BY DEF Done, Automatic
<1>2. IsFiniteSet(Done(points))
  BY <1>1, FS_Subset DEF LimitInv
<1>3. /\ IsFiniteSet(Done(points)')
      /\ Cardinality(Done(points)') <= Cardinality(Done(points))
  BY <1>2, FS_Subset
<1>4. Cardinality(Done(points)) \in Nat /\ Cardinality(Done(points)') \in Nat
  BY <1>2, <1>3, FS_CardinalityType
<1>5. Cardinality(Done(points)) <= AutoLimit
  BY DEF LimitInv, FinishedWithinLimit, Done
<1>6. Cardinality(Done(points)') <= AutoLimit
  BY <1>3, <1>4, <1>5, LimitAssumption
<1>7. QED
  BY <1>6 DEF FinishedWithinLimit, Done

(* A step takes points away, or adds one that is newer than all others.     *)
LEMMA StampsKept ==
    ASSUME TypeOK, [Next]_vars,
           IsFiniteSet(points),
           \A p, q \in points : p.created = q.created => p = q
    PROVE  /\ IsFiniteSet(points')
           /\ \A p, q \in points' : p.created = q.created => p = q
<1>1. \/ points' \in SUBSET points
      \/ \E r \in Requests, auto \in BOOLEAN : points' = points \cup {Snapshot(r, auto)}
  BY DEF Next, RequestStep, vars, fileVars, requestVars, Check, Begin, Clear, Write, Mark,
         Prepare, FailView, Finish, MayRestore, Restore, PointGone, DeleteRolledBack,
         RestoreBegin, Undo, Name, Drop, Boot, Install, MachineWrites, MachineCloses,
         MachineFinished, Crash, CrashInRestore, CrashInUndo, CrashLeaving, Pruned
<1>2. CASE points' \in SUBSET points
  BY <1>2, FS_Subset
<1>3. ASSUME NEW r \in Requests, NEW auto \in BOOLEAN,
             points' = points \cup {Snapshot(r, auto)}
      PROVE  /\ IsFiniteSet(points')
             /\ \A p, q \in points' : p.created = q.created => p = q
  <2>1. Snapshot(r, auto).created = clock /\ clock \in Nat
    BY DEF TypeOK, Snapshot
  <2>2. \A p \in points : p.created \in Nat /\ p.created < clock
    BY DEF TypeOK, Point
  <2>3. IsFiniteSet(points')
    BY <1>3, FS_AddElement
  <2>4. QED
    BY <1>3, <2>1, <2>2, <2>3
<1>4. QED
  BY <1>1, <1>2, <1>3

(* Requests that finish leave at most AutoLimit undo points between them:   *)
(* pruning in one finaliser is enough however many brackets are open,       *)
(* because only finalisers turn a request's point into an undo point.       *)
THEOREM LimitInvariant == Spec => []LimitInv
<1>1. Init => LimitInv
  <2> SUFFICES ASSUME Init PROVE LimitInv
    OBVIOUS
  <2>1. points = {}
    BY DEF Init
  <2>2. Done(points) = {}
    BY <2>1 DEF Done, Automatic
  <2>3. QED
    BY <2>1, <2>2, FS_EmptySet, LimitAssumption DEF LimitInv, FinishedWithinLimit, Done
<1>2. TypeOK /\ LimitInv /\ [Next]_vars => LimitInv'
  <2> SUFFICES ASSUME TypeOK, LimitInv, [Next]_vars PROVE LimitInv'
    OBVIOUS
  <2>0. /\ pc \in [Requests -> {"idle"} \cup Open \cup Answered]
        /\ kind \in [Requests -> AllKinds \cup {"none"}]
        /\ \A p \in points : p.by \in Requests /\ p.created \in Nat
    BY DEF TypeOK, Point
  <2>1. /\ IsFiniteSet(points')
        /\ \A p, q \in points' : p.created = q.created => p = q
    BY StampsKept DEF LimitInv
  <2>2. CASE \E r \in Requests : Finish(r)
    <3>1. PICK r \in Requests : Finish(r)
      BY <2>2
    <3>2. CASE points' = Pruned(points)
      <4>1. Done(points)' \in SUBSET Automatic(Pruned(points))
        BY <3>2 DEF Done, Automatic
      <4>2. Cardinality(Automatic(Pruned(points))) <= AutoLimit
        BY <2>0, PrunedWithinLimit DEF LimitInv
      <4>3. IsFiniteSet(Automatic(Pruned(points)))
        BY <2>1, <3>2, FS_Subset DEF Automatic
      <4>4. /\ IsFiniteSet(Done(points)')
            /\ Cardinality(Done(points)') <= Cardinality(Automatic(Pruned(points)))
        BY <4>1, <4>3, FS_Subset
      <4>5. /\ Cardinality(Done(points)') \in Nat
            /\ Cardinality(Automatic(Pruned(points))) \in Nat
        BY <4>3, <4>4, FS_CardinalityType
      <4>6. Cardinality(Done(points)') <= AutoLimit
        BY <4>2, <4>4, <4>5, LimitAssumption
      <4>7. QED
        BY <2>1, <4>6 DEF LimitInv, FinishedWithinLimit, Done
    <3>3. CASE points' = points \ PointOf(r)
      <4>1. Done(points)' \subseteq Done(points)
        BY <2>0, <3>1, <3>3 DEF Done, Automatic, PointOf, Finish, Goto
      <4>2. QED
        BY <2>1, <4>1, FewerDone DEF LimitInv
    <3>4. QED
      BY <3>1, <3>2, <3>3 DEF Finish
  <2>3. CASE ~\E r \in Requests : Finish(r)
    <3> DEFINE Kept == Done(points)' \subseteq Done(points)
    <3> USE <2>0 DEF Done, Automatic, Goto, Arrive, fileVars, requestVars, PointOf
    <3>1. ASSUME NEW r \in Requests,
                 \/ Check(r) \/ Clear(r) \/ Write(r) \/ Mark(r) \/ Prepare(r) \/ FailView(r)
                 \/ MayRestore(r) \/ PointGone(r) \/ Boot(r)
          PROVE  Kept
      <4>1. points' = points /\ \A q \in Requests : pc'[q] = "ok" /\ kind'[q] \in Bracketed
                                                    => pc[q] = "ok" /\ kind[q] \in Bracketed
        BY <3>1 DEF Check, Clear, Write, Mark, Prepare, FailView, MayRestore, PointGone, Boot
      <4>2. QED
        BY <4>1
    <3>10. ASSUME NEW r \in Requests, Drop(r) \/ Install(r) PROVE Kept
      BY <3>10 DEF Drop, Install
    <3>2. ASSUME NEW r \in Requests, Begin(r) \/ RestoreBegin(r) \/ Name(r) PROVE Kept
      BY <3>2 DEF Begin, RestoreBegin, Name, Snapshot
    <3>3. ASSUME NEW r \in Requests, Restore(r) \/ DeleteRolledBack(r) \/ Undo(r) PROVE Kept
      BY <3>3 DEF Restore, DeleteRolledBack, Undo, Latest
    <3>4. ASSUME MachineWrites \/ MachineCloses \/ MachineFinished PROVE Kept
      BY <3>4 DEF MachineWrites, MachineCloses, MachineFinished
    <3>5. ASSUME Crash \/ CrashInRestore PROVE Kept
      BY <3>5 DEF Crash, CrashInRestore, CrashLeaving
    <3>6. ASSUME CrashInUndo PROVE Kept
      BY <3>6 DEF CrashInUndo
    <3>7. ASSUME UNCHANGED vars PROVE Kept
      BY <3>7 DEF vars
    <3>8. Kept
      BY <2>3, <3>1, <3>2, <3>3, <3>4, <3>5, <3>6, <3>7, <3>10 DEF Next, RequestStep
    <3>9. QED
      BY <2>1, <3>8, FewerDone DEF LimitInv
  <2>4. QED
    BY <2>2, <2>3
<1>3. QED
  BY <1>1, <1>2, TypeCorrect, PTL DEF Spec

(* However many requests run and whenever they end, an image never has more *)
(* finished automatic points than the limit (prune_automatic).              *)
THEOREM UndoPointsWithinLimit == Spec => []FinishedWithinLimit
BY LimitInvariant, PTL DEF LimitInv

-----------------------------------------------------------------------------
(* What a clean image holds, when requests are serial.                      *)

(* A request keeps the kind it came with. *)
LEMMA KindsStay ==
    ASSUME TypeOK, IdleIsNew, [Next]_vars
    PROVE  IdleIsNew' /\ \A q \in Requests : kind[q] # "none" => kind'[q] = kind[q]
<1>0. /\ pc \in [Requests -> {"idle"} \cup Open \cup Answered]
      /\ kind \in [Requests -> AllKinds \cup {"none"}]
  BY DEF TypeOK
<1> USE <1>0, KindsAssumption DEF Goto, Arrive, fileVars, requestVars, IdleIsNew
<1> DEFINE Goal == IdleIsNew' /\ \A q \in Requests : kind[q] # "none" => kind'[q] = kind[q]
<1>1. ASSUME NEW r \in Requests,
             \/ Begin(r) \/ Clear(r) \/ Write(r) \/ Mark(r) \/ Prepare(r) \/ FailView(r)
             \/ Finish(r) \/ MayRestore(r) \/ Restore(r) \/ PointGone(r)
             \/ DeleteRolledBack(r) \/ Boot(r)
      PROVE  Goal
  <2>1. kind' = kind /\ \A q \in Requests : pc'[q] = "idle" => pc[q] = "idle"
    BY <1>1 DEF Begin, Clear, Write, Mark, Prepare, FailView, Finish, MayRestore,
                Restore, PointGone, DeleteRolledBack, Boot
  <2>2. QED
    BY <2>1
<1>2. ASSUME NEW r \in Requests,
             \/ Check(r) \/ RestoreBegin(r) \/ Undo(r) \/ Name(r) \/ Drop(r) \/ Install(r)
      PROVE  Goal
  BY <1>2 DEF Check, RestoreBegin, Undo, Name, Drop, Install
<1>3. ASSUME MachineWrites \/ MachineCloses \/ MachineFinished \/ UNCHANGED vars PROVE Goal
  BY <1>3 DEF MachineWrites, MachineCloses, MachineFinished, vars
<1>4. ASSUME Crash \/ CrashInRestore \/ CrashInUndo PROVE Goal
  BY <1>4 DEF Crash, CrashInRestore, CrashInUndo, CrashLeaving
<1>5. QED
  BY <1>1, <1>2, <1>3, <1>4 DEF Next, RequestStep

LEMMA SavedInvKept ==
    ASSUME Serial, TypeOK, SerialInv, SavedInv, [Next]_vars
    PROVE  SavedInv'
<1> DEFINE Tells == /\ emulator = "off" /\ ~orphan
                    /\ \A p \in points : ~p.dirty => p.image \in everSaved
                    /\ dirty \/ image \in everSaved \/ \E r \in Requests : Unmarked(r)
<1>0. /\ pc \in [Requests -> {"idle"} \cup Open \cup Answered]
      /\ kind \in [Requests -> AllKinds \cup {"none"}]
      /\ target \in [Requests -> Requests]
      /\ \A p \in points : p.by \in Requests
      /\ dirty \in BOOLEAN /\ crashes \in Nat
  BY CrashAssumption DEF TypeOK, Point
<1>1. OneAtATime /\ KindFits /\ CanRollBack
  BY DEF SerialInv
<1>2. IdleIsNew' /\ \A q \in Requests : kind[q] # "none" => kind'[q] = kind[q]
  BY KindsStay DEF SavedInv
<1>3. SUFFICES ASSUME Plain' PROVE Tells'
  BY <1>2 DEF SavedInv
<1>4. crashes' \in Nat /\ crashes <= crashes'
  <2>1. crashes' = crashes \/ crashes' = crashes + 1
    BY DEF Next, RequestStep, vars, fileVars, requestVars, Check, Begin, Clear, Write,
           Mark, Prepare, FailView, Finish, MayRestore, Restore, PointGone, DeleteRolledBack,
           RestoreBegin, Undo, Name, Drop, Boot, Install, MachineWrites, MachineCloses,
           MachineFinished, Crash, CrashInRestore, CrashInUndo, CrashLeaving
  <2>2. QED
    BY <1>0, <2>1
<1>5. Plain
  BY <1>0, <1>2, <1>3, <1>4 DEF Plain
<1>6. Tells
  BY <1>5 DEF SavedInv
<1> USE <1>0, <1>1, <1>6 DEF Goto, Arrive, fileVars, requestVars, Unmarked, InEmulator
<1>7. ASSUME NEW r \in Requests, Check(r) \/ Clear(r) \/ MayRestore(r) \/ Drop(r) PROVE Tells'
  BY <1>7 DEF Check, Clear, MayRestore, Drop, KindFits
<1>8. ASSUME NEW r \in Requests, Begin(r) \/ RestoreBegin(r) \/ Name(r) PROVE Tells'
  <2>1. \A q \in Requests : ~Unmarked(q)
    <3>1. CASE Begin(r)
      <4>1. r \in InFlight /\ pc[r] = "checked"
        BY <3>1 DEF Begin, InFlight
      <4>2. \A q \in Requests : Unmarked(q) => q \in InFlight
        BY DEF InFlight
      <4>3. QED
        BY <4>1, <4>2 DEF OneAtATime
    <3>2. CASE RestoreBegin(r) \/ Name(r)
      <4>1. InFlight = {}
        BY <3>2 DEF RestoreBegin, Name, Admitted
      <4>2. QED
        BY <4>1 DEF InFlight
    <3>3. QED
      BY <1>8, <3>1, <3>2
  <2>2. QED
    BY <1>8, <2>1 DEF Begin, RestoreBegin, Name, Snapshot
<1>9. ASSUME NEW r \in Requests, Write(r) PROVE Tells'
  BY <1>9 DEF Write, KindFits
<1>10. ASSUME NEW r \in Requests, Mark(r) \/ Prepare(r) PROVE Tells'
  <2>1. CASE Mark(r)
    BY <2>1 DEF Mark
  <2>2. CASE Prepare(r)
    BY <2>2 DEF Prepare
  <2>3. QED
    BY <1>10, <2>1, <2>2
<1>11. ASSUME NEW r \in Requests, FailView(r) PROVE Tells'
  BY <1>11 DEF FailView, KindFits
<1>12. ASSUME NEW r \in Requests, Finish(r) PROVE Tells'
  BY <1>12 DEF Finish, Succeeds, Pruned
<1>13. ASSUME NEW r \in Requests, Restore(r) PROVE Tells'
  BY <1>13 DEF Restore, RestoreTo, PointOf
<1>14. ASSUME NEW r \in Requests, PointGone(r) PROVE Tells'
  <2>1. kind[r] = "restore"
    BY <1>14 DEF PointGone, CanRollBack, KindFits, PointOf
  <2>2. QED
    BY <1>14, <2>1 DEF PointGone
<1>15. ASSUME NEW r \in Requests, DeleteRolledBack(r) PROVE Tells'
  BY <1>15 DEF DeleteRolledBack
<1>16. ASSUME NEW r \in Requests, Undo(r) PROVE Tells'
  BY <1>16 DEF Undo, RestoreTo, Latest, Automatic
<1>17. ASSUME NEW r \in Requests, Boot(r) \/ Install(r) PROVE FALSE
  BY <1>3, <1>17 DEF Boot, Install, Plain
<1>18. ASSUME MachineWrites \/ MachineCloses \/ MachineFinished PROVE FALSE
  BY <1>18 DEF MachineWrites, MachineCloses, MachineFinished
<1>19. ASSUME Crash \/ CrashInRestore \/ CrashInUndo PROVE FALSE
  BY <1>3, <1>19 DEF Crash, CrashInRestore, CrashInUndo, CrashLeaving, Plain
<1>20. ASSUME UNCHANGED vars PROVE Tells'
  BY <1>20 DEF vars
<1>21. QED
  BY <1>7, <1>8, <1>9, <1>10, <1>11, <1>12, <1>13, <1>14, <1>15, <1>16, <1>17, <1>18, <1>19,
     <1>20 DEF Next, RequestStep

(* With serial requests an image shown as saved holds bytes that were once  *)
(* opened or prepared for download, whatever was undone, restored or rolled *)
(* back since: the flag travels in the checkpoint (session_disk_service).   *)
THEOREM CleanImagesWereSaved == ASSUME Serial PROVE Spec => []CleanMeansSaved
<1>1. Init => SavedInv
  BY DEF Init, SavedInv, IdleIsNew
<1>2. TypeOK /\ SerialInv /\ SavedInv /\ [Next]_vars => SavedInv'
  BY SavedInvKept
<1>3. TypeOK /\ SavedInv => CleanMeansSaved
  BY DEF TypeOK, SavedInv, CleanMeansSaved, Unmarked, Quiet, InFlight
<1>4. QED
  BY <1>1, <1>2, <1>3, TypeCorrect, SerialInvariant, PTL DEF Spec

-----------------------------------------------------------------------------
(* The point a machine can be undone to, when requests are serial.          *)

(* A point made now is the newest, and holds the image. *)
LEMMA SnapshotIsNewest ==
    ASSUME TypeOK, NEW r \in Requests,
           points' = points \cup {Snapshot(r, TRUE)}, image' = image
    PROVE  NewestHoldsImage'
<1> DEFINE s == Snapshot(r, TRUE)
<1>1. s.created = clock /\ s.auto /\ s.image = image /\ clock \in Nat
  BY DEF TypeOK, Snapshot
<1>2. \A p \in points : p.created \in Nat /\ p.created < clock
  BY DEF TypeOK, Point
<1>3. points' = points \cup {s}
  OBVIOUS
<1> HIDE DEF s
<1>4. Automatic(points') = Automatic(points) \cup {s}
  BY <1>1, <1>3 DEF Automatic
<1>5. ASSUME NEW q \in Automatic(points') PROVE q.created <= s.created
  <2>1. q \in points \/ q = s
    BY <1>4 DEF Automatic
  <2>2. q.created \in Nat /\ (q.created < clock \/ q.created = clock)
    BY <1>1, <1>2, <2>1
  <2>3. QED
    BY <1>1, <2>2
<1>6. s \in Latest(Automatic(points'))
  BY <1>4, <1>5 DEF Latest
<1>7. QED
  BY <1>1, <1>6 DEF NewestHoldsImage

(* The newest automatic point outlives the deletion of points none of which *)
(* is automatic and newest, and pruning.                                    *)
LEMMA NewestStays ==
    ASSUME NewestHoldsImage, points' \subseteq points,
           Latest(Automatic(points)) \subseteq points',
           image' \ {EmulatorRun} = image \ {EmulatorRun}
    PROVE  NewestHoldsImage'
BY DEF NewestHoldsImage, Latest, Automatic

LEMMA PrunedKeepsNewest ==
    ASSUME TypeOK PROVE Latest(Automatic(points)) \subseteq Pruned(points)
<1>1. SUFFICES ASSUME NEW p \in Latest(Automatic(points)) PROVE p \in Pruned(points)
  OBVIOUS
<1>2. /\ p \in points /\ p.created \in Nat
      /\ \A q \in Automatic(points) : q.created \in Nat /\ q.created <= p.created
  BY <1>1 DEF Latest, Automatic, TypeOK, Point
<1>3. {q \in Automatic(points) : q.created > p.created} = {}
  BY <1>2
<1>4. Cardinality({q \in Automatic(points) : q.created > p.created}) < AutoLimit
  BY <1>3, FS_EmptySet, LimitAssumption
<1>5. QED
  BY <1>2, <1>4 DEF Pruned

LEMMA HandoffInvKept ==
    ASSUME Serial, TypeOK, SerialInv, HandoffInv, [Next]_vars
    PROVE  HandoffInv'
<1> DEFINE Free == \A r \in Requests : kind[r] \notin {"drop", "install"}
           Back == \A r \in Requests : pc[r] = "restored" => ~InEmulator
           Ready == \A r \in Requests :
                       (kind[r] = "boot" /\ pc[r] = "begun") => NewestHoldsImage
           Held == (InEmulator /\ Free) => NewestHoldsImage
<1>0. /\ pc \in [Requests -> {"idle"} \cup Open \cup Answered]
      /\ kind \in [Requests -> AllKinds \cup {"none"}]
      /\ target \in [Requests -> Requests]
      /\ \A p \in points : p.by \in Requests
  BY DEF TypeOK, Point
<1>1. OneAtATime /\ KindFits /\ CanRollBack /\ LookedInTime
  BY DEF SerialInv
<1>2. IdleIsNew' /\ \A q \in Requests : kind[q] # "none" => kind'[q] = kind[q]
  BY KindsStay DEF HandoffInv
<1>3. IdleIsNew /\ Back /\ Ready /\ Held
  BY DEF HandoffInv
<1>4. Free' => Free
  BY <1>0, <1>2
<1>5. SUFFICES Back' /\ Ready' /\ Held'
  BY <1>2 DEF HandoffInv
<1> DEFINE Goal == Back' /\ Ready' /\ Held'
<1> USE <1>0, <1>1, <1>3, <1>4 DEF Goto, Arrive, fileVars, requestVars
<1>6. ASSUME InEmulator' = InEmulator, points' = points,
             image' \ {EmulatorRun} = image \ {EmulatorRun},
             \A q \in Requests : pc'[q] = "restored" => pc[q] = "restored",
             \A q \in Requests : kind'[q] = "boot" /\ pc'[q] = "begun"
                                   => kind[q] = "boot" /\ pc[q] = "begun"
      PROVE  Goal
  <2>1. NewestHoldsImage => NewestHoldsImage'
    BY <1>6, NewestStays DEF Latest, Automatic
  <2>2. QED
    BY <1>6, <2>1
<1>7. ASSUME NEW r \in Requests,
             \/ Check(r) \/ Clear(r) \/ Write(r) \/ Mark(r) \/ Prepare(r) \/ FailView(r)
             \/ MayRestore(r) \/ PointGone(r)
      PROVE  Goal
  <2>1. /\ InEmulator' = InEmulator /\ points' = points
        /\ \A q \in Requests : pc'[q] = "restored" => pc[q] = "restored"
        /\ \A q \in Requests : kind'[q] = "boot" /\ pc'[q] = "begun"
                                   => kind[q] = "boot" /\ pc[q] = "begun"
    BY <1>7 DEF Check, Clear, Write, Mark, Prepare, FailView, MayRestore, PointGone, InEmulator
  <2>2. CASE image' = image
    BY <1>6, <2>1, <2>2
  <2>3. CASE Write(r)
    <3>1. /\ kind[r] = "edit" /\ pc[r] = "cleared" /\ pc' = [pc EXCEPT ![r] = "written"]
          /\ kind' = kind
      BY <2>3 DEF Write, KindFits
    <3>2. ~InEmulator
      BY <3>1 DEF LookedInTime
    <3>3. \A q \in Requests : pc'[q] \in {"begun", "restored"} => FALSE
      BY <3>1 DEF OneAtATime, InFlight
    <3>4. QED
      BY <2>1, <3>2, <3>3
  <2>4. QED
    BY <1>7, <2>2, <2>3 DEF Check, Clear, Mark, Prepare, FailView, MayRestore, PointGone
<1>8. ASSUME NEW r \in Requests, Begin(r) \/ RestoreBegin(r) PROVE Goal
  <2>1. /\ points' = points \cup {Snapshot(r, TRUE)} /\ image' = image
        /\ InEmulator' = InEmulator
        /\ \A q \in Requests : pc'[q] = "restored" => pc[q] = "restored"
    BY <1>8 DEF Begin, RestoreBegin, InEmulator
  <2>2. NewestHoldsImage'
    BY <2>1, SnapshotIsNewest
  <2>3. QED
    BY <2>1, <2>2
<1>9. ASSUME NEW r \in Requests, Finish(r) PROVE Goal
  <2>1. /\ pc' = [pc EXCEPT ![r] = "ok"] /\ kind' = kind /\ image' = image
        /\ InEmulator' = InEmulator /\ r \in InFlight
    BY <1>9 DEF Finish, Succeeds, InEmulator, InFlight
  <2>2. \A q \in Requests : pc'[q] \notin {"begun", "restored"}
    BY <2>1 DEF OneAtATime, InFlight
  <2>3. CASE InEmulator
    <3>1. points' = Pruned(points)
      BY <1>9, <2>3 DEF Finish
    <3>2. points' \subseteq points
      BY <3>1 DEF Pruned
    <3>3. NewestHoldsImage => NewestHoldsImage'
      BY <2>1, <3>1, <3>2, NewestStays, PrunedKeepsNewest
    <3>4. QED
      BY <2>1, <2>2, <3>3
  <2>4. QED
    BY <2>1, <2>2, <2>3
<1>10. ASSUME NEW r \in Requests, Restore(r) PROVE Goal
  <2>1. /\ pc[r] = "rolling" /\ kind' = kind
        /\ \E l \in {"ok", "restored"} : pc' = [pc EXCEPT ![r] = l]
        /\ \E p \in points : RestoreTo(p)
    BY <1>10 DEF Restore, PointOf
  <2>2. ~InEmulator /\ ~InEmulator'
    BY <2>1 DEF LookedInTime, RestoreTo, InEmulator
  <2>3. \A q \in Requests : pc'[q] # "begun"
    BY <2>1 DEF OneAtATime, InFlight
  <2>4. QED
    BY <2>2, <2>3
<1>11. ASSUME NEW r \in Requests, DeleteRolledBack(r) PROVE Goal
  <2>1. /\ pc[r] = "restored" /\ pc' = [pc EXCEPT ![r] = "failed"] /\ kind' = kind
        /\ InEmulator' = InEmulator
    BY <1>11 DEF DeleteRolledBack, InEmulator
  <2>2. ~InEmulator
    BY <2>1
  <2>3. \A q \in Requests : pc'[q] \notin {"begun", "restored"}
    BY <2>1 DEF OneAtATime, InFlight
  <2>4. QED
    BY <2>1, <2>2, <2>3
<1>12. ASSUME NEW r \in Requests, Undo(r) PROVE Goal
  <2>1. ~InEmulator /\ InFlight = {} /\ pc' = [pc EXCEPT ![r] = "ok"]
        /\ \E p \in points : RestoreTo(p)
    BY <1>12 DEF Undo, Admitted, Latest, Automatic
  <2>2. ~InEmulator'
    BY <2>1 DEF InEmulator, RestoreTo
  <2>3. \A q \in Requests : pc'[q] \notin {"begun", "restored"}
    BY <2>1 DEF InFlight
  <2>4. QED
    BY <2>2, <2>3
<1>13. ASSUME NEW r \in Requests, Name(r) PROVE Goal
  <2>1. /\ InFlight = {} /\ pc' = [pc EXCEPT ![r] = "ok"] /\ image' = image
        /\ points' = points \cup {Snapshot(r, FALSE)}
        /\ InEmulator' = InEmulator
    BY <1>13 DEF Name, Admitted, InEmulator
  <2>2. Automatic(points') = Automatic(points)
    BY <2>1 DEF Automatic, Snapshot
  <2>3. \A q \in Requests : pc'[q] \notin {"begun", "restored"}
    BY <2>1 DEF InFlight
  <2>4. NewestHoldsImage => NewestHoldsImage'
    BY <2>1, <2>2 DEF NewestHoldsImage
  <2>5. QED
    BY <2>1, <2>3, <2>4
<1>14. ASSUME NEW r \in Requests, Drop(r) \/ Install(r) PROVE Goal
  <2>1. /\ InFlight = {} /\ pc' = [pc EXCEPT ![r] = "ok"]
        /\ kind'[r] \in {"drop", "install"}
    BY <1>14 DEF Drop, Install, Admitted
  <2>2. \A q \in Requests : pc'[q] \notin {"begun", "restored"}
    BY <2>1 DEF InFlight
  <2>3. QED
    BY <2>1, <2>2
<1>15. ASSUME NEW r \in Requests, Boot(r) PROVE Goal
  <2>1. /\ kind[r] = "boot" /\ pc[r] = "begun" /\ pc' = [pc EXCEPT ![r] = "marked"]
        /\ points' = points /\ image' = image
    BY <1>15 DEF Boot
  <2>2. NewestHoldsImage'
    BY <2>1, NewestStays DEF Latest, Automatic
  <2>3. \A q \in Requests : pc'[q] # "restored"
    BY <2>1 DEF OneAtATime, InFlight
  <2>4. QED
    BY <2>2, <2>3
<1>16. ASSUME MachineWrites PROVE Goal
  BY <1>6, <1>16 DEF MachineWrites, InEmulator
<1>17. ASSUME MachineCloses \/ MachineFinished PROVE Goal
  <2>1. /\ ~InEmulator' /\ points' = points /\ image' = image /\ pc' = pc /\ kind' = kind
    BY <1>17 DEF MachineCloses, MachineFinished, InEmulator
  <2>2. NewestHoldsImage => NewestHoldsImage'
    BY <2>1, NewestStays DEF Latest, Automatic
  <2>3. QED
    BY <2>1, <2>2
<1>18. ASSUME Crash \/ CrashInRestore \/ CrashInUndo PROVE Goal
  <2>1. emulator' = "off" /\ \A q \in Requests : pc'[q] \notin Open
    BY <1>18 DEF Crash, CrashInRestore, CrashInUndo, CrashLeaving
  <2>2. QED
    BY <2>1 DEF InEmulator
<1>19. ASSUME UNCHANGED vars PROVE Goal
  BY <1>6, <1>19 DEF vars, InEmulator
<1>20. QED
  BY <1>7, <1>8, <1>9, <1>10, <1>11, <1>12, <1>13, <1>14, <1>15, <1>16, <1>17, <1>18, <1>19
     DEF Next, RequestStep

(* With serial requests a machine that was given the image in a bracket can *)
(* be undone, unless somebody deletes a point: whatever else is asked for   *)
(* while it runs, the newest automatic point holds the image it was given.  *)
THEOREM HandoffsCanBeUndone == ASSUME Serial PROVE Spec => []HandoffCanBeUndone
<1>1. Init => HandoffInv
  BY DEF Init, HandoffInv, IdleIsNew, InEmulator
<1>2. TypeOK /\ SerialInv /\ HandoffInv /\ [Next]_vars => HandoffInv'
  BY HandoffInvKept
<1>3. HandoffInv => HandoffCanBeUndone
  BY DEF HandoffInv, HandoffCanBeUndone, NewestHoldsImage, Latest
<1>4. QED
  BY <1>1, <1>2, <1>3, TypeCorrect, SerialInvariant, PTL DEF Spec

-----------------------------------------------------------------------------
(* The abstract history of edits: with one request at a time each step of a *)
(* request is a step of EditHistory or is hidden.  The inductive invariant. *)

(* The point of the one request under way is all that is hidden. *)
LEMMA HiddenPoint ==
    ASSUME OneAtATime
    PROVE  /\ InFlight = {} => Hidden = {}
           /\ \A r \in InFlight : Hidden = PointOf(r)
BY DEF OneAtATime, Hidden, PointOf, InFlight

OnePerRequest == \A p, q \in points : p.by = q.by => p = q

LEMMA NothingUnderWay ==
    ASSUME InFlight' = {}, OnePerRequest'
    PROVE  HistoryInv'
<1>1. Hidden' = {}
  BY DEF Hidden
<1>2. QED
  BY <1>1 DEF HistoryInv, OnePerRequest

(* A step of the request under way that makes no point and takes none. *)
LEMMA SameRequest ==
    ASSUME HistoryInv, points' = points, InFlight' = InFlight,
           target' = target, kind' = kind, image \subseteq image',
           \A r \in InFlight : Untouched(r)' => Untouched(r) /\ image' = image,
           \A r \in InFlight : pc'[r] = "restored" =>
               /\ pc[r] = "restored" /\ image' = image
               /\ emulator' # "running" /\ ~orphan'
    PROVE  HistoryInv'
<1>1. Hidden' = Hidden
  BY DEF Hidden
<1>2. ASSUME NEW p \in Hidden PROVE p.by \in InFlight
  BY <1>2 DEF Hidden
<1>3. QED
  BY <1>1, <1>2 DEF HistoryInv, PointOf

(* A request arrives at its point. *)
LEMMA NewPoint ==
    ASSUME TypeOK, HistoryInv, MadeByStarted, NEW r \in Requests,
           pc[r] \in {"idle", "checked"}, pc'[r] = "begun",
           points' = points \cup {Snapshot(r, TRUE)}, image' = image,
           InFlight' = {r},
           kind'[r] = "restore" => target'[r] # r
    PROVE  HistoryInv' /\ Hidden' = {Snapshot(r, TRUE)}
<1> DEFINE s == Snapshot(r, TRUE)
<1>1. s.by = r /\ s.auto /\ s.image = image /\ s.created = clock
  BY DEF Snapshot
<1>2. \A p \in points : p.by # r
  BY DEF MadeByStarted
<1>3. \A p \in points : p.created < clock
  BY DEF TypeOK
<1>4. points' = points \cup {s}
  OBVIOUS
<1> HIDE DEF s
<1>5. Hidden' = {s}
  BY <1>1, <1>2, <1>4 DEF Hidden
<1>6. \A p, q \in points' : p.by = q.by => p = q
  BY <1>1, <1>2, <1>4 DEF HistoryInv
<1>7. PointOf(r)' # {}
  BY <1>1, <1>4 DEF PointOf
<1>8. HistoryInv'
  BY <1>1, <1>3, <1>4, <1>5, <1>6, <1>7 DEF HistoryInv
<1>9. QED
  BY <1>5, <1>8 DEF s

LEMMA HistoryInvKept ==
    ASSUME Serial, TypeOK, SerialInv, HistoryInv, [Next]_vars
    PROVE  HistoryInv'
<1>0. /\ pc \in [Requests -> {"idle"} \cup Open \cup Answered]
      /\ kind \in [Requests -> AllKinds \cup {"none"}]
      /\ target \in [Requests -> Requests]
      /\ touched \in [Requests -> BOOLEAN]
      /\ \A p \in points : p.by \in Requests
  BY DEF TypeOK, Point
<1>1. OneAtATime /\ KindFits /\ CanRollBack /\ LookedInTime /\ MadeByStarted
  BY DEF SerialInv
<1>2. OnePerRequest
  BY DEF HistoryInv, OnePerRequest
<1> USE <1>0, <1>1 DEF Goto, Arrive, fileVars, requestVars
<1>3. ASSUME NEW r \in Requests, Check(r) PROVE HistoryInv'
  <2>1. /\ pc[r] = "idle" /\ InFlight = {} /\ pc' = [pc EXCEPT ![r] = "checked"]
        /\ kind'[r] \in Bracketed /\ points' = points
    BY <1>3 DEF Check, Admitted
  <2>2. InFlight' = {r}
    BY <2>1 DEF InFlight
  <2>3. \A p \in points' : p.by # r
    BY <2>1 DEF MadeByStarted
  <2>4. Hidden' = {}
    BY <2>2, <2>3 DEF Hidden
  <2>5. QED
    BY <1>2, <2>1, <2>2, <2>4 DEF HistoryInv, OnePerRequest
<1>4. ASSUME NEW r \in Requests, Begin(r) PROVE HistoryInv'
  <2>1. /\ pc[r] = "checked" /\ pc' = [pc EXCEPT ![r] = "begun"] /\ r \in InFlight
        /\ kind' = kind /\ image' = image
        /\ points' = points \cup {Snapshot(r, TRUE)}
    BY <1>4 DEF Begin, InFlight
  <2>2. InFlight' = {r}
    BY <2>1 DEF OneAtATime, InFlight
  <2>3. kind'[r] # "restore"
    BY <2>1 DEF KindFits
  <2>4. QED
    BY <2>1, <2>2, <2>3, NewPoint
<1>5. ASSUME NEW r \in Requests, RestoreBegin(r) PROVE HistoryInv'
  <2>1. /\ pc[r] = "idle" /\ pc' = [pc EXCEPT ![r] = "begun"] /\ InFlight = {}
        /\ image' = image /\ target'[r] # r
        /\ points' = points \cup {Snapshot(r, TRUE)}
    BY <1>5 DEF RestoreBegin, Admitted
  <2>2. InFlight' = {r}
    BY <2>1 DEF InFlight
  <2>3. QED
    BY <2>1, <2>2, NewPoint
<1>6. ASSUME NEW r \in Requests,
             \/ Clear(r) \/ Write(r) \/ Mark(r) \/ Prepare(r) \/ FailView(r) \/ Boot(r)
             \/ MayRestore(r) /\ pc'[r] = "rolling"
      PROVE  HistoryInv'
  <2>1. /\ pc[r] \in Open /\ \E l \in Open \ {"restored"} : pc' = [pc EXCEPT ![r] = l]
        /\ points' = points /\ target' = target /\ kind' = kind /\ image \subseteq image'
    BY <1>6 DEF Clear, Write, Mark, Prepare, FailView, Boot, MayRestore
  <2>2. InFlight' = InFlight /\ r \in InFlight
    BY <2>1 DEF InFlight
  <2>3. \A q \in InFlight : q = r
    BY <2>2 DEF OneAtATime
  <2>4. Untouched(r)' => Untouched(r) /\ image' = image
    BY <1>6 DEF Clear, Write, Mark, Prepare, FailView, Boot, MayRestore, TouchAll, Untouched
  <2>5. QED
    BY <2>1, <2>2, <2>3, <2>4, SameRequest
<1>7. ASSUME NEW r \in Requests, r \in InFlight, pc'[r] \notin Open,
             \E l \in Answered : pc' = [pc EXCEPT ![r] = l],
             points' \subseteq points
      PROVE  HistoryInv'
  <2>1. InFlight' = {}
    BY <1>7 DEF OneAtATime, InFlight
  <2>2. QED
    BY <1>2, <1>7, <2>1, NothingUnderWay DEF OnePerRequest
<1>8. ASSUME NEW r \in Requests,
             \/ MayRestore(r) /\ pc'[r] # "rolling"
             \/ Finish(r) \/ PointGone(r) \/ DeleteRolledBack(r)
             \/ Restore(r) /\ kind[r] = "restore"
      PROVE  HistoryInv'
  <2>1. /\ r \in InFlight /\ pc'[r] \notin Open
        /\ \E l \in Answered : pc' = [pc EXCEPT ![r] = l]
        /\ points' \subseteq points
    BY <1>8 DEF MayRestore, Finish, Succeeds, PointGone, DeleteRolledBack, Restore, InFlight,
                Pruned
  <2>2. QED
    BY <1>7, <2>1
<1>9. ASSUME NEW r \in Requests, Restore(r), kind[r] # "restore" PROVE HistoryInv'
  <2>1. /\ pc[r] = "rolling" /\ pc' = [pc EXCEPT ![r] = "restored"] /\ r \in InFlight
        /\ target' = target /\ kind' = kind /\ points' = points
        /\ \E p \in PointOf(target[r]) : RestoreTo(p)
    BY <1>9 DEF Restore, InFlight
  <2>2. target[r] = r
    BY <1>9, <2>1 DEF CanRollBack, KindFits
  <2>3. PICK p \in PointOf(r) : RestoreTo(p)
    BY <2>1, <2>2
  <2>4. InFlight' = {r} /\ InFlight = {r}
    BY <2>1 DEF OneAtATime, InFlight
  <2>5. Hidden = {p} /\ Hidden' = {p}
    BY <1>2, <2>1, <2>3, <2>4 DEF Hidden, PointOf, OnePerRequest
  <2>6. image' = p.image /\ emulator' # "running" /\ ~orphan'
    BY <2>3 DEF RestoreTo
  <2>7. QED
    BY <1>9, <2>1, <2>4, <2>5, <2>6 DEF HistoryInv
<1>10. ASSUME NEW r \in Requests, Undo(r) \/ Name(r) \/ Drop(r) \/ Install(r)
       PROVE  HistoryInv'
  <2>1. InFlight = {} /\ pc[r] = "idle" /\ pc' = [pc EXCEPT ![r] = "ok"]
    BY <1>10 DEF Undo, Name, Drop, Install, Admitted
  <2>2. InFlight' = {}
    BY <2>1 DEF InFlight
  <2>3. \A p \in points : p.by # r
    BY <2>1 DEF MadeByStarted
  <2>4. OnePerRequest'
    <3>1. CASE points' \subseteq points
      BY <1>2, <3>1 DEF OnePerRequest
    <3>2. CASE Name(r)
      <4> DEFINE s == Snapshot(r, FALSE)
      <4>1. points' = points \cup {s}
        BY <3>2 DEF Name
      <4>2. s.by = r
        BY DEF Snapshot
      <4> HIDE DEF s
      <4>3. QED
        BY <1>2, <2>3, <4>1, <4>2 DEF OnePerRequest
    <3>3. QED
      BY <1>10, <3>1, <3>2 DEF Undo, Drop, Install
  <2>5. QED
    BY <2>2, <2>4, NothingUnderWay
<1>11. ASSUME MachineWrites \/ MachineCloses \/ MachineFinished PROVE HistoryInv'
  <2>1. /\ points' = points /\ pc' = pc /\ target' = target /\ kind' = kind
        /\ image \subseteq image'
    BY <1>11 DEF MachineWrites, MachineCloses, MachineFinished
  <2>2. InFlight' = InFlight
    BY <2>1 DEF InFlight
  <2>3. ASSUME NEW r \in InFlight, pc'[r] = "restored"
        PROVE  image' = image /\ emulator' # "running" /\ ~orphan'
    <3>1. emulator # "running" /\ ~orphan
      BY <2>1, <2>3 DEF HistoryInv
    <3>2. QED
      BY <1>11, <3>1 DEF MachineWrites, MachineCloses, MachineFinished
  <2>4. \A r \in InFlight : Untouched(r)' => Untouched(r) /\ image' = image
    BY <1>11 DEF MachineWrites, MachineCloses, MachineFinished, TouchAll, Untouched, InFlight
  <2>5. QED
    BY <2>1, <2>2, <2>3, <2>4, SameRequest
<1>12. ASSUME Crash \/ CrashInRestore \/ CrashInUndo PROVE HistoryInv'
  <2>1. points' = points /\ \A r \in Requests : pc'[r] \notin Open
    BY <1>12 DEF Crash, CrashInRestore, CrashInUndo, CrashLeaving
  <2>2. QED
    BY <1>2, <2>1, NothingUnderWay DEF OnePerRequest, InFlight
<1>13. ASSUME UNCHANGED vars PROVE HistoryInv'
  BY <1>13 DEF vars, HistoryInv, Hidden, InFlight, PointOf, Untouched
<1>14. QED
  BY <1>3, <1>4, <1>5, <1>6, <1>8, <1>9, <1>10, <1>11, <1>12, <1>13 DEF Next, RequestStep

-----------------------------------------------------------------------------
(* Each step of the session is a step of the history.                       *)

(* What the user sees: with nothing hidden, the image and every point; with *)
(* one hidden point, what it recorded and the other points.                 *)
LEMMA WhatIsShown ==
    /\ Hidden = {} => /\ Shown = image
                      /\ ShownUndo = Automatic(points)
                      /\ ShownNamed = {p \in points : ~p.auto}
    /\ \A p : Hidden = {p} => /\ Shown = p.image
                              /\ ShownUndo = Automatic(points) \ {p}
                              /\ ShownNamed = {q \in points \ {p} : ~q.auto}
<1>1. ASSUME Hidden = {} PROVE Shown = image /\ points \ Hidden = points
  BY <1>1 DEF Shown
<1>2. ASSUME NEW p, Hidden = {p} PROVE Shown = p.image /\ points \ Hidden = points \ {p}
  BY <1>2 DEF Shown
<1>3. QED
  BY <1>1, <1>2 DEF ShownUndo, ShownNamed, Automatic

LEMMA ShownNext ==
    /\ Hidden' = {} => /\ Shown' = image'
                       /\ ShownUndo' = Automatic(points')
                       /\ ShownNamed' = {p \in points' : ~p.auto}
    /\ \A p : Hidden' = {p} => /\ Shown' = p.image
                               /\ ShownUndo' = Automatic(points') \ {p}
                               /\ ShownNamed' = {q \in points' \ {p} : ~q.auto}
<1>1. ASSUME Hidden' = {} PROVE Shown' = image' /\ points' \ Hidden' = points'
  BY <1>1 DEF Shown
<1>2. ASSUME NEW p, Hidden' = {p} PROVE Shown' = p.image /\ points' \ Hidden' = points' \ {p}
  BY <1>2 DEF Shown
<1>3. QED
  BY <1>1, <1>2 DEF ShownUndo, ShownNamed, Automatic

LEMMA AttachedType == TypeOK' => Attached' \in BOOLEAN
BY DEF TypeOK, Attached, InEmulator

(* Nothing the user sees changes, but for the machine. *)
LEMMA Unseen ==
    ASSUME TypeOK', Shown' = Shown, ShownUndo' = ShownUndo, ShownNamed' = ShownNamed
    PROVE  History!Next
BY AttachedType DEF History!Next, History!Attach

LEMMA SameHidden ==
    ASSUME TypeOK', points' = points, Hidden' = Hidden, Hidden # {} \/ image' = image
    PROVE  History!Next
<1>1. Shown' = Shown
  BY DEF Shown
<1>2. ShownUndo' = ShownUndo /\ ShownNamed' = ShownNamed
  BY DEF ShownUndo, ShownNamed, Automatic
<1>3. QED
  BY <1>1, <1>2, Unseen

(* A request that is hidden until it begins. *)
LEMMA Hides ==
    ASSUME TypeOK', Hidden = {}, image' = image, NEW s, s \notin points,
           points' = points \cup {s}, Hidden' = {s}, s.image = image
    PROVE  History!Next
<1>1. Shown' = Shown
  BY WhatIsShown, ShownNext
<1>2. Automatic(points') \ {s} = Automatic(points)
  BY DEF Automatic
<1>3. ShownUndo' = ShownUndo /\ ShownNamed' = ShownNamed
  <2>1. ShownUndo' = Automatic(points') \ {s} /\ ShownUndo = Automatic(points)
    BY WhatIsShown, ShownNext
  <2>2. /\ ShownNamed' = {q \in points' \ {s} : ~q.auto}
        /\ ShownNamed = {q \in points : ~q.auto}
    BY WhatIsShown, ShownNext
  <2>3. QED
    BY <1>2, <2>1, <2>2
<1>4. QED
  BY <1>1, <1>3, Unseen

(* A hidden request ends, its point comes to light and the image is as it   *)
(* left it; or its point goes and the image is what it was.                 *)
LEMMA Reveals ==
    ASSUME TypeOK', NEW p \in points, Hidden = {p}, Hidden' = {}, p.auto,
           \A q \in points \ {p} : q.created < p.created,
           points' = points, p.image \subseteq image'
    PROVE  History!CutShort(image') /\ History!Next
<1>1. Shown = p.image /\ Shown' = image'
  BY WhatIsShown, ShownNext
<1>2. ShownNamed' = ShownNamed
  BY WhatIsShown, ShownNext
<1>3. /\ ShownUndo' = Automatic(points)
      /\ ShownUndo = Automatic(points) \ {p}
      /\ p \in Automatic(points)
  BY WhatIsShown, ShownNext DEF Automatic
<1>4. p \in ShownUndo' /\ ShownUndo' = ShownUndo \cup {p}
  BY <1>3
<1>5. History!Records(p, ShownUndo)
  BY <1>1, <1>3 DEF History!Records, Automatic
<1>6. History!CutShort(image')
  BY <1>1, <1>2, <1>4, <1>5, AttachedType DEF History!CutShort
<1>7. image' \in SUBSET Changes
  BY DEF TypeOK
<1>8. QED
  BY <1>6, <1>7 DEF History!Next

LEMMA Withdraws ==
    ASSUME TypeOK', NEW p \in points, Hidden = {p}, Hidden' = {}, p.auto,
           points' = points \ {p}, image' = p.image
    PROVE  History!Next
<1>1. Shown' = Shown
  BY WhatIsShown, ShownNext
<1>2. Automatic(points') = Automatic(points) \ {p}
  BY DEF Automatic
<1>3. ShownUndo' = ShownUndo /\ ShownNamed' = ShownNamed
  <2>1. ShownUndo' = Automatic(points') /\ ShownUndo = Automatic(points) \ {p}
    BY WhatIsShown, ShownNext
  <2>2. ShownNamed' = {q \in points' : ~q.auto} /\ ShownNamed = {q \in points \ {p} : ~q.auto}
    BY WhatIsShown, ShownNext
  <2>3. QED
    BY <1>2, <2>1, <2>2
<1>4. QED
  BY <1>1, <1>3, Unseen

(* The history counts as the session does. *)
LEMMA SameCount == \A S : History!Cardinality(S) = Cardinality(S)
BY Zenon DEF History!Cardinality, Cardinality

(* A request commits: its point joins the undo list, which is pruned.       *)
LEMMA Commits ==
    ASSUME TypeOK, TypeOK', NEW p \in points, Hidden = {p}, Hidden' = {}, p.auto,
           \A q \in points \ {p} : q.created < p.created,
           points' = Pruned(points), p.image \subseteq image', Attached' = Attached
    PROVE  History!Next
<1>1. Shown = p.image /\ Shown' = image'
  BY WhatIsShown, ShownNext
<1>2. ShownNamed' = ShownNamed
  <2>1. \A q \in points : ~q.auto => q \in Pruned(points)
    BY DEF Pruned
  <2>2. Pruned(points) \subseteq points
    BY DEF Pruned
  <2>3. {q \in Pruned(points) : ~q.auto} = {q \in points \ {p} : ~q.auto}
    BY <2>1, <2>2
  <2>4. QED
    BY <2>3, WhatIsShown, ShownNext
<1>3. /\ ShownUndo' = Automatic(Pruned(points))
      /\ ShownUndo \cup {p} = Automatic(points)
  BY WhatIsShown, ShownNext DEF Automatic
<1>4. Automatic(Pruned(points)) = History!Newest(Automatic(points), AutoLimit)
  <2> DEFINE Few(q) ==
               Cardinality({n \in Automatic(points) : n.created > q.created}) < AutoLimit
  <2>1. Pruned(points) = {q \in points : q.auto => Few(q)}
    BY DEF Pruned
  <2>2. History!Newest(Automatic(points), AutoLimit) = {q \in Automatic(points) : Few(q)}
    BY SameCount DEF History!Newest
  <2> HIDE DEF Few
  <2>3. QED
    BY <2>1, <2>2 DEF Automatic
<1>5. p \in Latest(Automatic(points))
  <2>1. \A q \in points : q.created \in Nat
    BY DEF TypeOK, Point
  <2>2. QED
    BY <2>1 DEF Latest, Automatic
<1>6. p \in ShownUndo'
  BY <1>3, <1>5, PrunedKeepsNewest DEF Automatic
<1>7. History!Records(p, ShownUndo)
  BY <1>1, WhatIsShown DEF History!Records, Automatic
<1>8. History!Commit(image')
  BY <1>1, <1>2, <1>3, <1>4, <1>6, <1>7 DEF History!Commit
<1>9. image' \in SUBSET Changes
  BY DEF TypeOK
<1>10. QED
  BY <1>8, <1>9 DEF History!Next

(* A restore that was asked for: the replaced state joins the undo list.    *)
LEMMA Restores ==
    ASSUME TypeOK', NEW p \in points, Hidden = {p}, Hidden' = {}, p.auto,
           \A q \in points \ {p} : q.created < p.created,
           points' = points, NEW t \in points \ {p}, image' = t.image
    PROVE  History!Next
<1>1. Shown = p.image /\ Shown' = image'
  BY WhatIsShown, ShownNext
<1>2. ShownNamed' = ShownNamed
  BY WhatIsShown, ShownNext
<1>3. /\ ShownUndo' = Automatic(points)
      /\ ShownUndo = Automatic(points) \ {p}
      /\ p \in Automatic(points)
  BY WhatIsShown, ShownNext DEF Automatic
<1>4. p \in ShownUndo' /\ ShownUndo' = ShownUndo \cup {p}
  BY <1>3
<1>5. History!Records(p, ShownUndo)
  BY <1>1, <1>3 DEF History!Records, Automatic
<1>6. t \in ShownUndo \cup ShownNamed
  BY WhatIsShown DEF Automatic
<1>7. image' \in History!Recorded
  BY <1>6 DEF History!Recorded
<1>8. History!Restore(image')
  BY <1>1, <1>2, <1>4, <1>5, <1>7, AttachedType DEF History!Restore
<1>9. image' \in SUBSET Changes
  BY DEF TypeOK
<1>10. QED
  BY <1>8, <1>9 DEF History!Next

LEMMA StepOfHistory ==
    ASSUME Serial, TypeOK, TypeOK', SerialInv, HistoryInv, HistoryInv', [Next]_vars
    PROVE  [History!Next]_<<Shown, ShownUndo, ShownNamed, Attached>>
<1>0. /\ pc \in [Requests -> {"idle"} \cup Open \cup Answered]
      /\ kind \in [Requests -> AllKinds \cup {"none"}]
      /\ target \in [Requests -> Requests]
      /\ touched \in [Requests -> BOOLEAN]
      /\ \A p \in points : p.by \in Requests
      /\ image' \in SUBSET Changes
  BY DEF TypeOK, Point
<1>1. OneAtATime /\ KindFits /\ CanRollBack /\ LookedInTime /\ MadeByStarted
  BY DEF SerialInv
<1>2. OnePerRequest
  BY DEF HistoryInv, OnePerRequest
<1>3. /\ InFlight = {} => Hidden = {}
      /\ InFlight' = {} => Hidden' = {}
      /\ \A r \in InFlight : Hidden = PointOf(r)
  BY <1>1, HiddenPoint DEF Hidden
<1>4. ASSUME NEW r \in InFlight, NEW p \in PointOf(r)
      PROVE  /\ Hidden = {p} /\ p \in points /\ p.auto /\ p.image \subseteq image
             /\ \A q \in points \ {p} : q.created < p.created
             /\ (pc[r] = "restored" \/ Untouched(r)) => p.image = image
  <2>1. Hidden = {p} /\ p \in points /\ p.by = r
    BY <1>2, <1>3, <1>4 DEF PointOf, OnePerRequest
  <2>2. QED
    BY <2>1 DEF HistoryInv
<1> USE <1>0, <1>1 DEF Goto, Arrive, fileVars, requestVars
<1>5. ASSUME NEW r \in Requests, Check(r) PROVE History!Next
  <2>1. /\ InFlight = {} /\ pc[r] = "idle" /\ pc' = [pc EXCEPT ![r] = "checked"]
        /\ points' = points /\ image' = image
    BY <1>5 DEF Check, Admitted
  <2>2. \A p \in points : p.by # r
    BY <2>1 DEF MadeByStarted
  <2>3. InFlight' = {r}
    BY <2>1 DEF InFlight
  <2>4. Hidden = {} /\ Hidden' = {}
    BY <1>3, <2>1, <2>2, <2>3 DEF Hidden
  <2>5. QED
    BY <2>1, <2>4, SameHidden
<1>6. ASSUME NEW r \in Requests, Begin(r) \/ RestoreBegin(r) PROVE History!Next
  <2>1. /\ pc[r] \in {"idle", "checked"} /\ pc' = [pc EXCEPT ![r] = "begun"]
        /\ image' = image
        /\ points' = points \cup {Snapshot(r, TRUE)}
        /\ InFlight \subseteq {r}
    BY <1>6 DEF Begin, RestoreBegin, Admitted, OneAtATime, InFlight
  <2>2. \A p \in points : p.by # r
    BY <2>1 DEF MadeByStarted
  <2>3. InFlight' = {r}
    BY <2>1 DEF InFlight
  <2> DEFINE s == Snapshot(r, TRUE)
  <2>4. s.by = r /\ s.image = image
    BY DEF Snapshot
  <2>5. points' = points \cup {s}
    BY <2>1
  <2> HIDE DEF s
  <2>6. Hidden = {} /\ Hidden' = {s} /\ s \notin points
    BY <2>1, <2>2, <2>3, <2>4, <2>5 DEF Hidden
  <2>7. QED
    BY <2>1, <2>4, <2>5, <2>6, Hides
<1>7. ASSUME NEW r \in Requests,
             \/ Clear(r) \/ Write(r) \/ Mark(r) \/ Prepare(r) \/ FailView(r) \/ Boot(r)
             \/ MayRestore(r) /\ pc'[r] = "rolling"
             \/ Restore(r) /\ kind[r] # "restore"
      PROVE  History!Next
  <2>1. /\ pc[r] \in Open /\ \E l \in Open : pc' = [pc EXCEPT ![r] = l]
        /\ points' = points
    BY <1>7 DEF Clear, Write, Mark, Prepare, FailView, Boot, MayRestore, Restore
  <2>2. InFlight' = InFlight /\ r \in InFlight
    BY <2>1 DEF InFlight
  <2>3. Hidden' = Hidden
    BY <2>1, <2>2 DEF Hidden
  <2>4. Hidden # {} \/ image' = image
    <3>1. CASE Write(r) \/ Restore(r)
      <4>1. pc[r] \in {"cleared", "rolling"} /\ kind[r] \in Bracketed
        BY <1>7, <3>1 DEF Write, Restore, KindFits, Clear, Mark, Prepare, FailView, Boot,
                          MayRestore
      <4>2. PointOf(r) # {}
        BY <4>1 DEF CanRollBack
      <4>3. QED
        BY <1>3, <2>2, <4>2
    <3>2. QED
      BY <1>7, <3>1 DEF Clear, Mark, Prepare, FailView, Boot, MayRestore
  <2>5. QED
    BY <2>1, <2>3, <2>4, SameHidden
<1>8. ASSUME NEW r \in InFlight, \E l \in Answered : pc' = [pc EXCEPT ![r] = l]
      PROVE  Hidden' = {}
  BY <1>3, <1>8 DEF OneAtATime, InFlight
<1>9. ASSUME NEW r \in Requests, Finish(r) PROVE History!Next
  <2>1. /\ r \in InFlight /\ pc' = [pc EXCEPT ![r] = "ok"] /\ image' = image
        /\ Attached' = Attached /\ pc[r] \in InView /\ kind[r] \in Bracketed
    BY <1>9 DEF Finish, Succeeds, InFlight, Attached, InEmulator
  <2>2. PICK p \in PointOf(r) : TRUE
    BY <2>1 DEF CanRollBack
  <2>3. /\ Hidden = {p} /\ p \in points /\ p.auto /\ p.image \subseteq image
        /\ \A q \in points \ {p} : q.created < p.created
        /\ Untouched(r) => p.image = image
    BY <1>4, <2>1, <2>2
  <2>4. Hidden' = {}
    BY <1>8, <2>1
  <2>5. CASE ~touched[r] /\ ~InEmulator
    <3>1. points' = points \ {p}
      BY <1>3, <1>9, <2>1, <2>3, <2>5 DEF Finish
    <3>2. image' = p.image
      BY <2>1, <2>3, <2>5 DEF Untouched
    <3>3. QED
      BY <2>3, <2>4, <3>1, <3>2, Withdraws
  <2>6. CASE ~(~touched[r] /\ ~InEmulator)
    <3>1. points' = Pruned(points)
      BY <1>9, <2>6 DEF Finish
    <3>2. QED
      BY <2>1, <2>3, <2>4, <3>1, Commits
  <2>7. QED
    BY <2>5, <2>6
<1>10. ASSUME NEW r \in InFlight, Hidden' = {}, points' = points, image' = image
       PROVE  History!Next
  <2>1. CASE PointOf(r) = {}
    BY <1>3, <1>10, <2>1, SameHidden
  <2>2. CASE PointOf(r) # {}
    <3>1. PICK p \in PointOf(r) : TRUE
      BY <2>2
    <3>2. QED
      BY <1>4, <1>10, <3>1, Reveals
  <2>3. QED
    BY <2>1, <2>2
<1>11. ASSUME NEW r \in Requests, (MayRestore(r) /\ pc'[r] # "rolling") \/ PointGone(r)
       PROVE  History!Next
  <2>1. /\ r \in InFlight /\ points' = points /\ image' = image
        /\ \E l \in Answered : pc' = [pc EXCEPT ![r] = l]
    BY <1>11 DEF MayRestore, PointGone, InFlight
  <2>2. QED
    BY <1>8, <1>10, <2>1
<1>12. ASSUME NEW r \in Requests, DeleteRolledBack(r) PROVE History!Next
  <2>1. /\ r \in InFlight /\ pc[r] = "restored" /\ pc' = [pc EXCEPT ![r] = "failed"]
        /\ points' = points \ PointOf(r) /\ image' = image
    BY <1>12 DEF DeleteRolledBack, InFlight
  <2>2. Hidden' = {}
    BY <1>8, <2>1
  <2>3. CASE PointOf(r) = {}
    BY <1>3, <2>1, <2>2, <2>3, SameHidden
  <2>4. CASE PointOf(r) # {}
    <3>1. PICK p \in PointOf(r) : TRUE
      BY <2>4
    <3>2. /\ Hidden = {p} /\ p \in points /\ p.auto /\ p.image = image
      BY <1>4, <2>1, <3>1
    <3>3. points' = points \ {p}
      BY <1>3, <2>1, <3>2
    <3>4. QED
      BY <2>1, <2>2, <3>2, <3>3, Withdraws
  <2>5. QED
    BY <2>3, <2>4
<1>13. ASSUME NEW r \in InFlight, pc[r] = "rolling", kind[r] = "restore", Hidden' = {},
              points' = points, NEW t \in PointOf(target[r]), image' = t.image
       PROVE  History!Next
  <2>1. target[r] # r /\ PointOf(r) # {}
    BY <1>13 DEF HistoryInv
  <2>2. PICK p \in PointOf(r) : TRUE
    BY <2>1
  <2>3. t \in points \ {p}
    BY <2>1, <2>2 DEF PointOf
  <2>4. QED
    BY <1>4, <1>13, <2>2, <2>3, Restores
<1>14. ASSUME NEW r \in Requests, Restore(r), kind[r] = "restore" PROVE History!Next
  <2>1. /\ r \in InFlight /\ pc[r] = "rolling" /\ points' = points
        /\ pc' = [pc EXCEPT ![r] = "ok"]
    BY <1>14 DEF Restore, InFlight
  <2>2. PICK t \in PointOf(target[r]) : image' = t.image
    BY <1>14 DEF Restore, RestoreTo
  <2>3. QED
    BY <1>8, <1>13, <1>14, <2>1, <2>2
<1>15. ASSUME NEW r \in Requests, Undo(r) \/ Name(r) \/ Drop(r) \/ Install(r)
       PROVE  Hidden = {} /\ Hidden' = {} /\ pc[r] = "idle"
  <2>1. InFlight = {} /\ pc[r] = "idle" /\ pc' = [pc EXCEPT ![r] = "ok"]
    BY <1>15 DEF Undo, Name, Drop, Install, Admitted
  <2>2. InFlight' = {}
    BY <2>1 DEF InFlight
  <2>3. QED
    BY <1>3, <2>1, <2>2
<1>16. ASSUME NEW r \in Requests, Undo(r) PROVE History!Next
  <2>1. PICK p \in Latest(Automatic(points)) : image' = p.image /\ points' = points \ {p}
    BY <1>16 DEF Undo, RestoreTo
  <2>2. /\ Shown' = image' /\ ShownUndo = Automatic(points) /\ ShownUndo' = Automatic(points')
        /\ ShownNamed = {q \in points : ~q.auto} /\ ShownNamed' = {q \in points' : ~q.auto}
    BY <1>15, <1>16, WhatIsShown, ShownNext
  <2>3. p.auto /\ p \in History!Last(Automatic(points))
    BY <2>1 DEF Latest, Automatic, History!Last
  <2>4. Automatic(points') = Automatic(points) \ {p} /\ ShownNamed' = ShownNamed
    BY <2>1, <2>2, <2>3 DEF Automatic
  <2>5. History!Undo
    BY <2>1, <2>2, <2>3, <2>4, AttachedType DEF History!Undo
  <2>6. QED
    BY <2>5 DEF History!Next
<1>17. ASSUME NEW r \in Requests, Name(r) PROVE History!Next
  <2> DEFINE s == Snapshot(r, FALSE)
  <2>1. /\ s.image = image /\ ~s.auto /\ s.created = clock
        /\ points' = points \cup {s} /\ image' = image /\ Attached' = Attached
    BY <1>17 DEF Name, Snapshot, Attached, InEmulator
  <2>2. \A p \in points : p.created < clock
    BY DEF TypeOK
  <2> HIDE DEF s
  <2>3. /\ Shown = image /\ Shown' = image'
        /\ ShownUndo = Automatic(points) /\ ShownUndo' = Automatic(points')
        /\ ShownNamed = {q \in points : ~q.auto} /\ ShownNamed' = {q \in points' : ~q.auto}
    BY <1>15, <1>17, WhatIsShown, ShownNext
  <2>4. ShownUndo' = ShownUndo
    BY <2>1, <2>3 DEF Automatic
  <2>5. s \in ShownNamed' /\ ShownNamed' = ShownNamed \cup {s}
    BY <2>1, <2>3
  <2>6. History!Records(s, ShownNamed)
    BY <2>1, <2>2, <2>3 DEF History!Records
  <2>7. History!Name
    BY <2>1, <2>3, <2>4, <2>5, <2>6 DEF History!Name
  <2>8. QED
    BY <2>7 DEF History!Next
<1>18. ASSUME NEW r \in Requests, Drop(r) PROVE History!Next
  <2>1. PICK p \in points : points' = points \ {p}
    BY <1>18 DEF Drop
  <2>2. image' = image /\ Attached' = Attached
    BY <1>18 DEF Drop, Attached, InEmulator
  <2>3. /\ Shown = image /\ Shown' = image'
        /\ ShownUndo = Automatic(points) /\ ShownUndo' = Automatic(points')
        /\ ShownNamed = {q \in points : ~q.auto} /\ ShownNamed' = {q \in points' : ~q.auto}
    BY <1>15, <1>18, WhatIsShown, ShownNext
  <2>4. CASE p.auto
    <3>1. p \in ShownUndo /\ ShownUndo' = ShownUndo \ {p} /\ ShownNamed' = ShownNamed
      BY <2>1, <2>3, <2>4 DEF Automatic
    <3>2. QED
      BY <2>2, <2>3, <3>1 DEF History!Forget, History!Next
  <2>5. CASE ~p.auto
    <3>1. p \in ShownNamed /\ ShownNamed' = ShownNamed \ {p} /\ ShownUndo' = ShownUndo
      BY <2>1, <2>3, <2>5 DEF Automatic
    <3>2. QED
      BY <2>2, <2>3, <3>1 DEF History!Forget, History!Next
  <2>6. QED
    BY <2>4, <2>5
<1>19. ASSUME NEW r \in Requests, Install(r) PROVE History!Next
  BY <1>15, <1>19, SameHidden DEF Install
<1>20. ASSUME MachineCloses \/ MachineFinished \/ MachineWrites PROVE History!Next
  <2>1. points' = points /\ pc' = pc
    BY <1>20 DEF MachineCloses, MachineFinished, MachineWrites
  <2>2. Hidden' = Hidden
    BY <2>1 DEF Hidden, InFlight
  <2>3. CASE Hidden # {} \/ image' = image
    BY <2>1, <2>2, <2>3, SameHidden
  <2>4. CASE Hidden = {} /\ image' # image
    <3>1. MachineWrites
      BY <1>20, <2>4 DEF MachineCloses, MachineFinished
    <3>2. Attached /\ Attached' = Attached /\ image \subseteq image'
      BY <3>1 DEF MachineWrites, Attached, InEmulator
    <3>3. Shown = image /\ Shown' = image'
      BY <2>2, <2>4, WhatIsShown, ShownNext
    <3>4. ShownUndo' = ShownUndo /\ ShownNamed' = ShownNamed
      BY <2>1, <2>2 DEF ShownUndo, ShownNamed, Automatic
    <3>5. History!MachineWrites(image')
      BY <3>2, <3>3, <3>4 DEF History!MachineWrites
    <3>6. QED
      BY <3>5 DEF History!Next
  <2>5. QED
    BY <2>3, <2>4
<1>21. ASSUME \A r \in Requests : pc'[r] \notin Open PROVE InFlight' = {} /\ Hidden' = {}
  BY <1>21 DEF InFlight, Hidden
<1>22. ASSUME Crash PROVE History!Next
  <2>1. /\ points' = points /\ image' = image
        /\ \A r \in Requests : pc'[r] \notin Open
    BY <1>22 DEF Crash, CrashLeaving
  <2>2. CASE InFlight = {}
    BY <1>3, <1>21, <2>1, <2>2, SameHidden
  <2>3. CASE InFlight # {}
    BY <1>10, <1>21, <2>1, <2>3
  <2>4. QED
    BY <2>2, <2>3
<1>23. ASSUME CrashInRestore PROVE History!Next
  <2>1. PICK r \in Requests : \E t \in PointOf(target[r]) :
            pc[r] = "rolling" /\ CrashLeaving(t.image, TRUE)
    BY <1>23 DEF CrashInRestore
  <2>2. PICK t \in PointOf(target[r]) : pc[r] = "rolling" /\ CrashLeaving(t.image, TRUE)
    BY <2>1
  <2>3. /\ r \in InFlight /\ image' = t.image /\ points' = points
        /\ \A q \in Requests : pc'[q] \notin Open
    BY <2>2 DEF InFlight, CrashLeaving
  <2>4. Hidden' = {}
    BY <1>21, <2>3
  <2>5. CASE kind[r] = "restore"
    BY <1>13, <2>2, <2>3, <2>4, <2>5
  <2>6. CASE kind[r] # "restore"
    <3>1. target[r] = r
      BY <2>2, <2>6 DEF CanRollBack, KindFits
    <3>2. QED
      BY <1>4, <2>2, <2>3, <2>4, <3>1, Reveals
  <2>7. QED
    BY <2>5, <2>6
<1>24. ASSUME CrashInUndo PROVE History!Next
  <2>1. /\ InFlight = {} /\ points' = points /\ ~Attached'
        /\ \E p \in Latest(Automatic(points)) : image' = p.image
        /\ \A q \in Requests : pc'[q] \notin Open
    BY <1>24 DEF CrashInUndo, Admitted, Attached, InEmulator
  <2>2. Hidden = {} /\ Hidden' = {}
    BY <1>3, <1>21, <2>1
  <2>3. /\ Shown' = image' /\ ShownUndo = Automatic(points)
        /\ ShownUndo' = ShownUndo /\ ShownNamed' = ShownNamed
    BY <2>1, <2>2, WhatIsShown, ShownNext
  <2>4. \E p \in History!Last(ShownUndo) : Shown' = p.image
    BY <2>1, <2>3 DEF Latest, History!Last
  <2>5. Attached' = FALSE
    BY <2>1, AttachedType
  <2>6. History!UndoCutShort
    BY <2>3, <2>4, <2>5 DEF History!UndoCutShort
  <2>7. QED
    BY <2>6 DEF History!Next
<1>25. ASSUME UNCHANGED vars
       PROVE  UNCHANGED <<Shown, ShownUndo, ShownNamed, Attached>>
  <2>1. points' = points /\ image' = image /\ Hidden' = Hidden /\ Attached' = Attached
    BY <1>25 DEF vars, Hidden, InFlight, Attached, InEmulator
  <2>2. QED
    BY <2>1 DEF Shown, ShownUndo, ShownNamed, Automatic
<1>26. QED
  BY <1>5, <1>6, <1>7, <1>9, <1>11, <1>12, <1>14, <1>16, <1>17, <1>18, <1>19, <1>20, <1>22,
     <1>23, <1>24, <1>25 DEF Next, RequestStep

-----------------------------------------------------------------------------
(* With serial requests the session keeps its promise to the user: every    *)
(* request happens as a whole and leaves one undo point or does not happen, *)
(* and the image goes back only to recorded states, only when asked to,     *)
(* although a request is many locked and unlocked steps, may fail and be    *)
(* rolled back, shares the image with a machine and may be cut short by a   *)
(* crash of the server.                                                     *)
THEOREM SessionImplementsHistory == ASSUME Serial PROVE Spec => ImplementsHistory
<1>1. Init => HistoryInv /\ History!Init
  <2>1. Init => Hidden = {}
    BY DEF Init, Hidden
  <2>2. Init => HistoryInv
    BY <2>1 DEF Init, HistoryInv, InFlight
  <2>3. Init => History!Init
    BY <2>1, WhatIsShown DEF Init, History!Init, Automatic, Attached, InEmulator
  <2>4. QED
    BY <2>2, <2>3
<1>2. TypeOK /\ SerialInv /\ HistoryInv /\ [Next]_vars => HistoryInv'
  BY HistoryInvKept
<1>3. TypeOK /\ TypeOK' /\ SerialInv /\ HistoryInv /\ HistoryInv' /\ [Next]_vars
        => [History!Next]_(History!vars)
  BY StepOfHistory DEF History!vars
<1>4. QED
  BY <1>1, <1>2, <1>3, TypeCorrect, SerialInvariant, PTL
     DEF Spec, History!Spec, ImplementsHistory

=============================================================================
