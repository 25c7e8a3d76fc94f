-------------------------- MODULE Download_proofs --------------------------
(***************************************************************************)
(* An image whose working file itself goes into the archive is marked      *)
(* saved only with the bytes on screen, and served only while the archive  *)
(* holds them, for any number of edits, saves, failures and crashes.  The  *)
(* argument: a time never comes back, so metadata that names the time at   *)
(* which the working file was last written names the bytes it holds.       *)
(* (For flux containers both fail, as README.md says.)                     *)
(***************************************************************************)
EXTENDS Download, SequenceTheorems, TLAPS

(* Shortening a sequence of points at its newer end gives such a sequence. *)
LEMMA OlderPoints ==
    ASSUME NEW S, NEW s \in Seq(S), s # <<>>
    PROVE  /\ s[Len(s)] \in S
           /\ SubSeq(s, 1, Len(s) - 1) \in Seq(S)
<1>1. Len(s) \in Nat /\ Len(s) >= 1
  BY EmptySeq
<1>2. s[Len(s)] \in S
  BY <1>1, ElementOfSeq
<1>3. \A i \in 1..Len(s) - 1 : s[i] \in S
  BY <1>1, ElementOfSeq
<1>4. SubSeq(s, 1, Len(s) - 1) \in Seq(S)
  BY <1>1, <1>3, SubSeqProperties
<1> QED BY <1>2, <1>4

(* What session.json is given is of its type. *)
LEMMA SessionType ==
    ASSUME NEW d \in BOOLEAN, NEW e \in BOOLEAN, NEW f \in Times
    PROVE  [dirty |-> d, export |-> e, finalised |-> f] \in Session
BY DEF Session

(* The new image is of its type. *)
LEMMA InitType == Init => TypeOK
<1>1. SUFFICES ASSUME Init PROVE TypeOK
  OBVIOUS
<1>2. points \in Seq([image : Versions, dirty : BOOLEAN])
  BY <1>1, EmptySeq DEF Init
<1>3. 0 \in Versions /\ 0 \in Times /\ 1 \in Times /\ 1 \in 0..MaxVersions + 1
      /\ 0 \in 0..MaxCrashes
  BY BoundsAssumption DEF Versions, Times
<1>4. /\ [dirty |-> dirty, export |-> export, finalised |-> finalised] \in Session
      /\ stored \in Session
  BY <1>1, <1>3 DEF Init, Session
<1> QED BY <1>1, <1>2, <1>3, <1>4 DEF Init, TypeOK

(* Every step keeps the types, and the stamps of files behind the clock.   *)
LEMMA NextType == TypeOK /\ [Next]_vars => TypeOK'
<1>1. SUFFICES ASSUME TypeOK, [Next]_vars PROVE TypeOK'
  OBVIOUS
<1> DEFINE P == [image : Versions, dirty : BOOLEAN]
<1> USE <1>1, BoundsAssumption DEF TypeOK, Versions, Times, Session
<1>2. Append(points, [image |-> image, dirty |-> dirty]) \in Seq(P)
      /\ Append(points, [image |-> image, dirty |-> dirty]) # <<>>
  <2>1. dirty \in BOOLEAN
    OBVIOUS
  <2>2. points \in Seq(P) /\ [image |-> image, dirty |-> dirty] \in P
    BY <2>1
  <2> HIDE <1>1, BoundsAssumption DEF P, TypeOK, Versions, Times, Session
  <2> QED
    BY <2>2, AppendProperties
<1>3. points # <<>> => /\ Newest.image \in Versions /\ Newest.dirty \in BOOLEAN
                       /\ Older \in Seq(P)
  <2>1. SUFFICES ASSUME points # <<>> PROVE Newest \in P /\ Older \in Seq(P)
    BY DEF P
  <2> QED BY <2>1, OlderPoints DEF Newest, Older
<1> HIDE DEF P
<1>4. CASE Write
  BY <1>2, <1>4, SMTT(30) DEF Write, TakePoint, NewVersion, Tick, fileVars, sessionVars, P
<1>5. CASE Changed
  BY <1>5 DEF Changed, Persist, fileVars, boundVars
<1>6. CASE RollBack
  <2>1. /\ image' \in Versions /\ dirty' \in BOOLEAN /\ points' \in Seq(P)
        /\ mtime' = time + 1 /\ time' = time + 1 /\ time < MaxTime
    BY <1>3, <1>6 DEF RollBack, GoBack, Tick
  <2>2. export' = FALSE /\ finalised' = 0 /\ stored' = [dirty |-> dirty', export |-> export',
                                                        finalised |-> finalised']
    BY <1>6 DEF RollBack, GoBack, Persist
  <2>3. [dirty |-> dirty', export |-> export', finalised |-> finalised'] \in Session
    <3>1. finalised' \in Times
      BY <2>2
    <3> HIDE <1>1
    <3> HIDE DEF Session, Times, TypeOK
    <3>2. dirty' \in BOOLEAN
      BY <2>1
    <3>3. export' \in BOOLEAN
      BY <2>2, Zenon
    <3> QED BY <3>1, <3>2, <3>3, SessionType
  <2> QED BY <1>6, <2>1, <2>2, <2>3 DEF RollBack, GoBack, P
<1>7. CASE Undo
  <2>1. /\ image' \in Versions /\ dirty' \in BOOLEAN /\ points' \in Seq(P)
        /\ mtime' = time + 1 /\ time' = time + 1 /\ time < MaxTime
    BY <1>3, <1>7 DEF Undo, GoBack, Tick
  <2>2. export' = FALSE /\ finalised' = 0 /\ stored' = [dirty |-> dirty', export |-> export',
                                                        finalised |-> finalised']
    BY <1>7 DEF Undo, GoBack, Persist
  <2>3. [dirty |-> dirty', export |-> export', finalised |-> finalised'] \in Session
    <3>1. finalised' \in Times
      BY <2>2
    <3> HIDE <1>1
    <3> HIDE DEF Session, Times, TypeOK
    <3>2. dirty' \in BOOLEAN
      BY <2>1
    <3>3. export' \in BOOLEAN
      BY <2>2, Zenon
    <3> QED BY <3>1, <3>2, <3>3, SessionType
  <2> QED BY <1>7, <2>1, <2>2, <2>3 DEF Undo, GoBack, P
<1>8. CASE PreparePlain
  BY <1>2, <1>8 DEF PreparePlain, TakePoint, Choose, fileVars, sessionVars, boundVars, P
<1>9. CASE PreparePair
  <2>1. points' \in Seq(P) /\ points' # <<>> /\ source' = "working" /\ job' = "prepared"
    BY <1>2, <1>9 DEF PreparePair, TakePoint, Choose
  <2>2. CASE finalised = mtime
    BY <1>9, <2>1, <2>2 DEF PreparePair, sessionVars, P
  <2>3. CASE finalised # mtime
    <3>1. /\ image' = fresh /\ fresh <= MaxVersions /\ fresh' = fresh + 1
          /\ time < MaxTime /\ time' = time + 1 /\ mtime' = time'
          /\ dirty' = TRUE /\ finalised' = mtime' /\ export' = export
          /\ UNCHANGED <<container, stored, exported, archive, meta, served, crashes>>
      BY <1>9, <2>3 DEF PreparePair, NewVersion, Tick
    <3> QED BY <2>1, <3>1 DEF P
  <2> QED BY <2>2, <2>3
<1>10. CASE PrepareFlux
  <2>1. points' \in Seq(P) /\ points' # <<>> /\ job' = "prepared"
    BY <1>2, <1>10 DEF PrepareFlux, Encode, TakePoint, Choose
  <2>2. CASE dirty
    BY <1>10, <2>1, <2>2 DEF PrepareFlux, Encode, Choose, Tick, P
  <2>3. CASE ~dirty
    BY <1>10, <2>1, <2>3 DEF PrepareFlux, Encode, Choose, P
  <2> QED BY <2>2, <2>3
<1>11. CASE Zip
  BY <1>11 DEF Zip, SourceVersion, sessionVars, boundVars
<1>12. CASE Describe
  <2>1. FileTime(source) \in Times /\ FileTime(source) <= time
    <3>1. time >= 1
      BY BoundsAssumption
    <3> QED BY <3>1 DEF FileTime
  <2> QED BY <1>12, <2>1 DEF Describe, sessionVars, boundVars
<1>13. CASE Saved
  BY <1>3, <1>13 DEF Saved, Persist, fileVars, boundVars, P
<1>14. CASE Download
  BY <1>14 DEF Download, fileVars, sessionVars, boundVars
<1>15. CASE Crash
  BY <1>15 DEF Crash, fileVars
<1>16. CASE UNCHANGED vars
  BY <1>16 DEF vars, fileVars, sessionVars, boundVars
<1> QED BY <1>1, <1>4, <1>5, <1>6, <1>7, <1>8, <1>9, <1>10, <1>11, <1>12,
           <1>13, <1>14, <1>15, <1>16 DEF Next

(* The archive of a working file is of the time its metadata names         *)
(* (build_download_archive replaces one file after the other).             *)
LEMMA NextArchive == TypeOK /\ ArchiveOfItsTime /\ [Next]_vars => ArchiveOfItsTime'
<1>1. SUFFICES ASSUME TypeOK, ArchiveOfItsTime, [Next]_vars, container' \notin Flux
               PROVE  ArchiveOfItsTime'
  BY DEF ArchiveOfItsTime, WorkingFile
<1>2. container' = container
  BY <1>1 DEF Next, vars, Write, Changed, RollBack, Undo, PreparePlain,
     PreparePair, PrepareFlux, Encode, Zip, Describe, Saved, Download, Crash
<1>3. /\ meta.file = "working" /\ source = "working"
      /\ job \in {"zipped", "described"} => archive = image
      /\ meta.mtime = mtime => archive = image
      /\ meta.mtime <= time /\ meta.mtime \in Nat /\ time \in Nat
  BY <1>1, <1>2, BoundsAssumption DEF ArchiveOfItsTime, WorkingFile, TypeOK, Times
<1> USE DEF ArchiveOfItsTime
<1>4. CASE Write
  BY <1>3, <1>4 DEF Write, NewVersion, Tick
<1>5. CASE Changed
  BY <1>3, <1>5 DEF Changed, fileVars
<1>6. CASE RollBack \/ Undo
  BY <1>3, <1>6 DEF RollBack, Undo, GoBack, Tick
<1>7. CASE PreparePlain
  BY <1>3, <1>7 DEF PreparePlain, Choose, fileVars
<1>8. CASE PreparePair
  BY <1>3, <1>8 DEF PreparePair, Choose, NewVersion, Tick
<1>9. CASE PrepareFlux
  BY <1>1, <1>2, <1>9 DEF PrepareFlux, Encode
<1>10. CASE Zip
  BY <1>3, <1>10 DEF Zip, SourceVersion
<1>11. CASE Describe
  BY <1>3, <1>11 DEF Describe, FileTime
<1>12. CASE Saved \/ Download \/ Crash
  BY <1>3, <1>12 DEF Saved, Download, Crash, fileVars
<1>13. CASE UNCHANGED vars
  BY <1>3, <1>13 DEF vars, fileVars
<1> QED BY <1>1, <1>4, <1>5, <1>6, <1>7, <1>8, <1>9, <1>10, <1>11, <1>12, <1>13 DEF Next

(* The types and the archive's time hold in every state (Download).        *)
THEOREM ArchiveInvariant == Spec => [](TypeOK /\ ArchiveOfItsTime)
<1>1. Init => ArchiveOfItsTime
  BY DEF Init, ArchiveOfItsTime
<1> QED BY <1>1, InitType, NextType, NextArchive, PTL DEF Spec

(* An image whose working file is archived is marked saved only when the   *)
(* archive holds the bytes on screen (prepare_image_download, mark_saved). *)
THEOREM SavedHoldsTheImage == Spec => PlainSavedIsOnScreen
<1>1. TypeOK /\ ArchiveOfItsTime /\ [Next]_vars
        => [WorkingFile /\ Saved => archive = image]_vars
  BY DEF ArchiveOfItsTime, Saved
<1> QED BY <1>1, ArchiveInvariant, PTL DEF Spec, PlainSavedIsOnScreen

(* A download of such an image is answered with the bytes it holds then    *)
(* (prepared_download).                                                    *)
THEOREM ServedHoldsTheImage == Spec => PlainServedMatches
<1>1. ASSUME TypeOK, ArchiveOfItsTime, [Next]_vars
      PROVE  [WorkingFile /\ Served => served'.image = image]_vars
  <2>1. SUFFICES ASSUME Next, WorkingFile, served' # served
                 PROVE  served'.image = image
    BY <1>1 DEF Served
  <2>2. Download
    BY <2>1 DEF Next, Write, Changed, RollBack, Undo, PreparePlain, PreparePair,
       PrepareFlux, Encode, Zip, Describe, Saved, Crash
  <2> QED BY <1>1, <2>1, <2>2 DEF ArchiveOfItsTime, Download, FileTime
<1> QED BY <1>1, ArchiveInvariant, PTL DEF Spec, PlainServedMatches

LEMMA NextExport == TypeOK /\ ExportInv /\ [Next]_vars => ExportInv'
<1> SUFFICES ASSUME TypeOK, ExportInv, [Next]_vars, crashes' = 0, export'
             PROVE  /\ container' \in Flux
                    /\ job' \in {"prepared", "zipped", "described"} \/ (job' = "none" /\ ~dirty')
                            => exported'.image = image'
  BY DEF ExportInv
<1>1. CASE UNCHANGED vars
  BY <1>1 DEF ExportInv, vars, fileVars, sessionVars, boundVars
<1>2. CASE Write \/ Changed
  BY <1>2 DEF ExportInv, Write, Changed, fileVars, sessionVars, boundVars
<1>3. CASE RollBack \/ Undo
  BY <1>3 DEF RollBack, Undo, GoBack
<1>4. CASE PreparePlain \/ PreparePair
  <2>1. container \notin Flux /\ crashes' = crashes /\ export' = export
    BY <1>4 DEF PreparePlain, PreparePair, Flux, sessionVars, boundVars
  <2>2. QED
    BY <2>1 DEF ExportInv
<1>5. CASE PrepareFlux
  <2>1. container \in Flux /\ UNCHANGED <<container, image, crashes>>
    BY <1>5 DEF PrepareFlux, Encode
  <2>2. CASE exported' = [image |-> image, mtime |-> time']
    BY <2>1, <2>2
  <2>3. CASE ~dirty /\ UNCHANGED <<exported, export>>
    <3>1. job = "none"
      BY <1>5 DEF PrepareFlux, Encode
    <3>2. QED
      BY <2>1, <2>3, <3>1 DEF ExportInv
  <2>4. QED
    BY <1>5, <2>2, <2>3 DEF PrepareFlux, Encode
<1>6. CASE Zip \/ Describe \/ Saved
  BY <1>6 DEF ExportInv, Zip, Describe, Saved, fileVars, sessionVars, boundVars
<1>7. CASE Download
  BY <1>7 DEF ExportInv, Download, fileVars, sessionVars, boundVars
<1>8. CASE Crash
  BY <1>8 DEF TypeOK, Crash
<1>9. QED
  BY <1>1, <1>2, <1>3, <1>4, <1>5, <1>6, <1>7, <1>8 DEF Next

(* A flux container that is handed out again without encoding it holds the   *)
(* sectors of the image as it is now, until the server crashes: saving,      *)
(* editing, rolling back and undoing leave no other one to be found.         *)
THEOREM CleanExportHoldsTheImage == Spec => []CleanExportIsCurrent
<1>1. Init => ExportInv
  BY DEF Init, ExportInv
<1>2. ExportInv => CleanExportIsCurrent
  BY DEF ExportInv, CleanExportIsCurrent
<1>3. QED
  BY <1>1, <1>2, InitType, NextType, NextExport, PTL DEF Spec

=============================================================================
