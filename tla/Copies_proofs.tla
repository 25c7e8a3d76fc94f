---------------------------- MODULE Copies_proofs ----------------------------
(***************************************************************************)
(* What is said to be on a drive is there: the files of a staged set, for  *)
(* any number of discs, paths, attempts and writes that fail, and the      *)
(* blocks of a verified copy and of a saved file, for any number of        *)
(* drives, images, sessions and jobs at work at once.                      *)
(***************************************************************************)
EXTENDS DriveJobs, Staging, FiniteSetTheorems, TLAPS

-----------------------------------------------------------------------------
(* The discs of a set.                                                       *)

LEMMA StagingBegins == StagingInit => StagingInv
<1> SUFFICES ASSUME StagingInit PROVE StagingInv
  OBVIOUS
<1>1. DOMAIN staged = {} /\ job = Idle
  BY DEF StagingInit, Nothing
<1>2. QED
  BY <1>1 DEF StagingInv, AllOnDrive, Idle

(* What does not touch the drive keeps what is on it, and so does a writer   *)
(* that first gives up the files it is to replace.                           *)
LEMMA FewerStaged ==
    ASSUME NEW olds, NEW news, NEW there, NEW filed, AllOnDrive(olds, there, filed),
           \A l \in DOMAIN news : l \in DOMAIN olds /\ news[l] = olds[l]
    PROVE  AllOnDrive(news, there, filed)
BY DEF AllOnDrive

\* The files of one disc, of the others that still have theirs.
LEMMA LessKeeps ==
    ASSUME NEW f, NEW s, NEW there, NEW filed, AllOnDrive(f, there, filed)
    PROVE  AllOnDrive(Less(f, s), there, filed)
<1>1. \A l \in DOMAIN Less(f, s) : l \in DOMAIN f /\ Less(f, s)[l] = f[l]
  BY DEF Less
<1>2. QED
  BY <1>1, FewerStaged

LEMMA FilesArePaths == \A files \in Discs : DOMAIN files \subseteq DiscPaths
BY DEF Discs

(* A request is taken.                                                       *)
LEMMA TakeKeeps ==
    ASSUME StagingInv, NEW request, Take(request), AllOnDrive(staged', payload, aside),
           request.op \in {"clear", "discard", "install"}, request # Idle,
           request.op \in {"discard", "install"} => staged' = Nothing,
           request.op = "clear" => request \in ADisc /\ request.label \notin DOMAIN staged'
    PROVE  StagingInv'
<1>1. /\ job' = request /\ payload' = payload /\ aside' = aside
      /\ before'.staged = staged /\ before'.payload = payload /\ before'.aside = aside
  BY DEF Take
<1>2. AllOnDrive(staged, payload, aside)'
  BY <1>1 DEF AllOnDrive, OnDrive
<1>3. AllOnDrive(before.staged, before.payload, before.aside)'
  BY <1>1 DEF StagingInv, AllOnDrive, OnDrive
<1>4. QED
  BY <1>1, <1>2, <1>3 DEF StagingInv, Idle, Nothing

(* A file is written where nothing of it, or of another disc, was.           *)
LEMMA StagingNextInv == StagingInv /\ [StagingNext]_stagingVars => StagingInv'
<1> SUFFICES ASSUME StagingInv, [StagingNext]_stagingVars PROVE StagingInv'
  OBVIOUS
<1>1. CASE UNCHANGED stagingVars
  BY <1>1, ZenonT(40) DEF StagingInv, stagingVars, AllOnDrive, OnDrive
<1>2. ASSUME NEW label \in Labels, NEW files \in Discs, Stage(label, files) PROVE StagingInv'
  <2> DEFINE request == [op |-> "clear", label |-> label, files |-> files,
             replacing |-> label \in Recorded, write |-> {}, divert |-> {}]
  <2>1. Take(request) /\ staged' = Less(staged, {label})
    BY <1>2 DEF Stage
  <2>2. request.op = "clear" /\ request.label = label /\ request # Idle
    BY DEF Idle
  <2>3. request \in ADisc
    BY DEF ADisc
  <2>4. label \notin DOMAIN staged' /\ AllOnDrive(staged', payload, aside)
    <3>1. AllOnDrive(Less(staged, {label}), payload, aside)
      BY LessKeeps DEF StagingInv
    <3>2. QED
      BY <2>1, <3>1 DEF Less
  <2> HIDE DEF request
  <2>5. QED
    BY <2>1, <2>2, <2>3, <2>4, TakeKeeps
<1>3. CASE Discard \/ Install
  <2>1. PICK request \in {[op |-> "discard"], [op |-> "install"]} :
            Take(request) /\ staged' = Nothing
    BY <1>3 DEF Discard, Install
  <2>2. request.op \in {"discard", "install"} /\ request # Idle
    BY DEF Idle
  <2>3. AllOnDrive(staged', payload, aside)
    BY <2>1 DEF AllOnDrive, Nothing
  <2>4. QED
    BY <2>1, <2>2, <2>3, TakeKeeps
(* Edited by its owner: whoever had that text there is no longer staged so.  *)
<1>4. ASSUME NEW path \in DiscPaths, NEW content \in DiscContents, Edit(path, content)
      PROVE  StagingInv'
  <2>1. /\ job = Idle /\ job' = job /\ aside' = aside
        /\ payload' = [payload EXCEPT ![path] = content] /\ path \in DOMAIN payload
        /\ staged' = [l \in DOMAIN staged |->
                IF path \in DOMAIN staged[l] /\ staged[l][path] = payload[path]
                THEN Less(staged[l], {path}) ELSE staged[l]]
    BY <1>4 DEF Edit
  <2>2. ASSUME NEW l \in DOMAIN staged', NEW p \in DOMAIN staged'[l]
        PROVE  \/ p \in DOMAIN payload' /\ payload'[p] = staged'[l][p]
               \/ l \in DOMAIN aside /\ p \in DOMAIN aside[l] /\ aside[l][p] = staged'[l][p]
    <3>1. /\ l \in DOMAIN staged /\ p \in DOMAIN staged[l] /\ staged'[l][p] = staged[l][p]
          /\ p = path => staged[l][path] # payload[path]
      BY <2>1 DEF Less
    <3>2. \/ p \in DOMAIN payload /\ payload[p] = staged[l][p]
          \/ l \in DOMAIN aside /\ p \in DOMAIN aside[l] /\ aside[l][p] = staged[l][p]
      BY <3>1 DEF StagingInv, AllOnDrive, OnDrive
    <3>3. QED
      BY <2>1, <3>1, <3>2
  <2>3. AllOnDrive(staged, payload, aside)'
    BY <2>1, <2>2, ZenonT(40) DEF AllOnDrive, OnDrive
  <2>4. QED
    BY <2>1, <2>3 DEF StagingInv, Idle
<1>5. CASE Clear
  <2> DEFINE write == Written(payload, job.files, job.replacing)
             divert == Diverted(payload, job.files, job.replacing)
  <2>1. /\ job.op = "clear" /\ UNCHANGED <<payload, staged, before>>
        /\ aside' = IF job.replacing THEN Less(aside, {job.label}) ELSE aside
        /\ job' = [job EXCEPT !.op = "copy", !.write = write, !.divert = divert]
    BY <1>5 DEF Clear
  <2>2. job \in ADisc /\ write \in SUBSET DiscPaths /\ divert \in SUBSET DiscPaths
        /\ job.label \notin DOMAIN staged
    BY <2>1, FilesArePaths DEF StagingInv, ADisc, Written, Diverted
  <2>3. \A p \in DOMAIN job.files \ (write \cup divert) :
            p \in DOMAIN payload /\ payload[p] = job.files[p]
    BY DEF Written, Diverted
  <2> HIDE DEF write, divert
  <2>4. /\ job'.op = "copy" /\ job'.label = job.label /\ job'.files = job.files
        /\ job'.write = write /\ job'.divert = divert /\ job' \in ADisc
    BY <2>1, <2>2 DEF ADisc
  <2>5. AllOnDrive(staged, payload, aside)'
    <3>1. \A l \in DOMAIN staged : l # job.label
      BY <2>2
    <3>2. \A l \in DOMAIN aside : l # job.label => l \in DOMAIN aside' /\ aside'[l] = aside[l]
      BY <2>1 DEF Less
    <3>3. ASSUME NEW l \in DOMAIN staged, NEW p \in DOMAIN staged[l]
          PROVE  \/ p \in DOMAIN payload /\ payload[p] = staged[l][p]
                 \/ /\ l \in DOMAIN aside' /\ p \in DOMAIN aside'[l]
                    /\ aside'[l][p] = staged[l][p]
      <4>1. \/ p \in DOMAIN payload /\ payload[p] = staged[l][p]
            \/ l \in DOMAIN aside /\ p \in DOMAIN aside[l] /\ aside[l][p] = staged[l][p]
        BY DEF StagingInv, AllOnDrive, OnDrive
      <4>2. QED
        BY <3>1, <3>2, <4>1
    <3>4. QED
      BY <2>1, <3>3 DEF AllOnDrive, OnDrive
  <2>6. OnDrive([p \in DOMAIN job.files \ (job.write \cup job.divert) |-> job.files[p]],
                job.label, payload, aside)'
    BY <2>1, <2>3, <2>4 DEF OnDrive
  <2>7. job # Idle /\ job' # Idle
    <3>1. job.op = "clear" /\ job'.op = "copy" /\ Idle.op = "idle"
      BY <2>1, <2>4 DEF Idle
    <3>2. QED
      BY <3>1
  <2>8. AllOnDrive(before.staged, before.payload, before.aside)'
    BY <2>1, <2>7 DEF StagingInv, AllOnDrive, OnDrive
  <2>9. QED
    BY <2>1, <2>2, <2>4, <2>5, <2>6, <2>7, <2>8 DEF StagingInv
<1>6. ASSUME NEW path \in DiscPaths, WriteOne(path) PROVE StagingInv'
  <2>1. /\ job.op = "copy" /\ path \in job.write /\ UNCHANGED <<aside, before>>
        /\ payload' = PutOver(payload, path, job.files[path])
        /\ job' = [job EXCEPT !.write = @ \ {path}]
        /\ staged' = [l \in DOMAIN staged |->
                IF path \in DOMAIN staged[l] /\ path \in DOMAIN payload
                    /\ staged[l][path] = payload[path]
                THEN Less(staged[l], {path}) ELSE staged[l]]
    BY <1>6 DEF WriteOne
  <2>2. job \in ADisc /\ job.label \notin DOMAIN staged
    BY <2>1 DEF StagingInv
  <2>3. /\ job'.op = "copy" /\ job'.label = job.label /\ job'.files = job.files
        /\ job'.write = job.write \ {path} /\ job'.divert = job.divert /\ job' \in ADisc
    BY <2>1, <2>2 DEF ADisc
  <2>4. /\ DOMAIN payload' = {path} \cup DOMAIN payload /\ payload'[path] = job.files[path]
        /\ \A p \in DOMAIN payload \ {path} : payload'[p] = payload[p]
    BY <2>1 DEF PutOver
  <2>5. ASSUME NEW l \in DOMAIN staged', NEW p \in DOMAIN staged'[l]
        PROVE  \/ p \in DOMAIN payload' /\ payload'[p] = staged'[l][p]
               \/ l \in DOMAIN aside /\ p \in DOMAIN aside[l] /\ aside[l][p] = staged'[l][p]
    <3>1. /\ l \in DOMAIN staged /\ p \in DOMAIN staged[l] /\ staged'[l][p] = staged[l][p]
          /\ p = path => ~(path \in DOMAIN payload /\ staged[l][path] = payload[path])
      BY <2>1 DEF Less
    <3>2. \/ p \in DOMAIN payload /\ payload[p] = staged[l][p]
          \/ l \in DOMAIN aside /\ p \in DOMAIN aside[l] /\ aside[l][p] = staged[l][p]
      BY <3>1 DEF StagingInv, AllOnDrive, OnDrive
    <3>3. QED
      BY <2>4, <3>1, <3>2
  <2>6. AllOnDrive(staged, payload, aside)'
    BY <2>1, <2>5 DEF AllOnDrive, OnDrive
  <2>7. OnDrive([p \in DOMAIN job.files \ (job.write \cup job.divert) |-> job.files[p]],
                job.label, payload, aside)'
    <3>1. \A p \in DOMAIN job.files \ (job.write \cup job.divert) :
            \/ p \in DOMAIN payload /\ payload[p] = job.files[p]
            \/ /\ job.label \in DOMAIN aside /\ p \in DOMAIN aside[job.label]
               /\ aside[job.label][p] = job.files[p]
      BY <2>1 DEF StagingInv, OnDrive
    <3>2. QED
      BY <2>1, <2>3, <2>4, <3>1 DEF OnDrive
  <2>8. QED
    <3>1. job # Idle /\ job' # Idle /\ DOMAIN staged' = DOMAIN staged
      BY <2>1, <2>3 DEF Idle
    <3>2. AllOnDrive(before.staged, before.payload, before.aside)'
      BY <2>1, <3>1 DEF StagingInv, AllOnDrive, OnDrive
    <3>3. QED
      BY <2>1, <2>2, <2>3, <2>6, <2>7, <3>1, <3>2 DEF StagingInv
<1>7. ASSUME NEW path \in DiscPaths, FileAside(path) PROVE StagingInv'
  <2> DEFINE filed == IF job.label \in DOMAIN aside THEN aside[job.label] ELSE Nothing
  <2>1. /\ job.op = "copy" /\ path \in job.divert /\ UNCHANGED <<payload, staged, before>>
        /\ aside' = PutOver(aside, job.label, PutOver(filed, path, job.files[path]))
        /\ job' = [job EXCEPT !.divert = @ \ {path}]
    BY <1>7 DEF FileAside
  <2>2. job \in ADisc /\ job.label \notin DOMAIN staged
    BY <2>1 DEF StagingInv
  <2>3. /\ job'.op = "copy" /\ job'.label = job.label /\ job'.files = job.files
        /\ job'.write = job.write /\ job'.divert = job.divert \ {path} /\ job' \in ADisc
    BY <2>1, <2>2 DEF ADisc
  <2>4. /\ DOMAIN aside' = {job.label} \cup DOMAIN aside
        /\ aside'[job.label] = PutOver(filed, path, job.files[path])
        /\ \A l \in DOMAIN aside \ {job.label} : aside'[l] = aside[l]
    <3> HIDE DEF filed
    <3>1. QED
      BY <2>1 DEF PutOver
  <2>5. /\ DOMAIN aside'[job.label] = {path} \cup DOMAIN filed
        /\ aside'[job.label][path] = job.files[path]
        /\ \A p \in DOMAIN filed \ {path} : aside'[job.label][p] = filed[p]
    <3> HIDE DEF filed
    <3>1. QED
      BY <2>4 DEF PutOver
  <2>6. AllOnDrive(staged, payload, aside)'
    <3>1. \A l \in DOMAIN staged : l # job.label
      BY <2>2
    <3>2. QED
      BY <2>1, <2>4, <3>1 DEF StagingInv, AllOnDrive, OnDrive
  <2>7. OnDrive([p \in DOMAIN job.files \ (job.write \cup job.divert) |-> job.files[p]],
                job.label, payload, aside)'
    <3>1. \A p \in DOMAIN job.files \ (job.write \cup job.divert) :
            \/ p \in DOMAIN payload /\ payload[p] = job.files[p]
            \/ /\ job.label \in DOMAIN aside /\ p \in DOMAIN aside[job.label]
               /\ aside[job.label][p] = job.files[p]
      BY <2>1 DEF StagingInv, OnDrive
    <3>2. QED
      BY <2>1, <2>3, <2>4, <2>5, <3>1 DEF OnDrive
  <2>8. QED
    <3>1. job # Idle /\ job' # Idle
      BY <2>1, <2>3 DEF Idle
    <3>2. AllOnDrive(before.staged, before.payload, before.aside)'
      BY <2>1, <3>1 DEF StagingInv, AllOnDrive, OnDrive
    <3>3. QED
      BY <2>1, <2>2, <2>3, <2>6, <2>7, <3>1, <3>2 DEF StagingInv
(* All of its files are there: the disc is staged.                           *)
<1>8. CASE WriteManifest
  <2>1. /\ job.op = "copy" /\ job.write = {} /\ job.divert = {} /\ UNCHANGED <<payload, aside>>
        /\ staged' = PutOver(staged, job.label, job.files) /\ job' = Idle
    BY <1>8 DEF WriteManifest
  <2>2. OnDrive(job.files, job.label, payload, aside)
    BY <2>1 DEF StagingInv, OnDrive
  <2>3. /\ DOMAIN staged' = {job.label} \cup DOMAIN staged /\ staged'[job.label] = job.files
        /\ \A l \in DOMAIN staged \ {job.label} : staged'[l] = staged[l]
    BY <2>1 DEF PutOver
  <2>4. AllOnDrive(staged, payload, aside)'
    BY <2>1, <2>2, <2>3 DEF StagingInv, AllOnDrive, OnDrive
  <2>5. QED
    BY <2>1, <2>4 DEF StagingInv, Idle
<1>9. CASE TakePayload
  <2>1. /\ staged = Nothing /\ staged' = Nothing /\ job' = [op |-> "forget"]
        /\ before' = before /\ job # Idle
    BY <1>9 DEF TakePayload, StagingInv, Idle
  <2>2. AllOnDrive(staged, payload, aside)'
    BY <2>1 DEF AllOnDrive, Nothing
  <2>3. AllOnDrive(before.staged, before.payload, before.aside)'
    BY <2>1 DEF StagingInv, AllOnDrive, OnDrive
  <2>4. QED
    BY <2>1, <2>2, <2>3 DEF StagingInv, Idle, Nothing
<1>10. CASE Forget
  <2>1. staged' = Nothing /\ job' = Idle
    BY <1>10 DEF Forget, StagingInv
  <2>2. AllOnDrive(staged, payload, aside)'
    BY <2>1 DEF AllOnDrive, Nothing
  <2>3. QED
    BY <2>1, <2>2 DEF StagingInv, Idle
(* A write fails: what is there stays, or all goes back to where it was.     *)
<1>11. CASE WriteFails
  <2>1. /\ job # Idle /\ job' = Idle
        /\ \/ UNCHANGED <<payload, aside, staged>>
           \/ payload' = before.payload /\ aside' = before.aside /\ staged' = before.staged
    BY <1>11 DEF WriteFails
  <2>2. AllOnDrive(staged, payload, aside)'
    BY <2>1 DEF StagingInv, AllOnDrive, OnDrive
  <2>3. QED
    BY <2>1, <2>2 DEF StagingInv, Idle
<1>12. QED
  BY <1>1, <1>2, <1>3, <1>4, <1>5, <1>6, <1>7, <1>8, <1>9, <1>10, <1>11 DEF StagingNext

(* No staging, discarding, installing or editing takes a file from a disc    *)
(* that was staged, whichever write fails and whatever is tried after it.    *)
THEOREM SetStaysWhole == StagingSpec => []SetIsKept
<1>1. StagingInv => SetIsKept
  BY DEF StagingInv, AllOnDrive, OnDrive, SetIsKept
<1>2. QED
  BY <1>1, StagingBegins, StagingNextInv, PTL DEF StagingSpec

-----------------------------------------------------------------------------
(* The jobs of the drives.                                                   *)

\* The sessions there are stay, and others may come.
SessionsStay ==
    /\ DOMAIN sessions \subseteq DOMAIN sessions'
    /\ \A s \in DOMAIN sessions : sessions'[s] = sessions[s]

\* No drive or image changes that the job reads or wrote and claims to be alone with.
Unharmed(copy) ==
    /\ copy.at \in {"write", "verify"} /\ copy.alone /\ copy.from # None =>
          disk'[On(copy.from)] = disk[On(copy.from)]
    /\ copy.at \in {"verify", "done"} /\ copy.alone /\ copy.kind \in {"clone", "write"} =>
          disk'[copy.to] = disk[copy.to]

LEMMA OnStays ==
    ASSUME NEW copy, WellAsked(copy), SessionsStay, copy.from # None
    PROVE  On(copy.from)' = On(copy.from)
BY DEF WellAsked, SessionsStay, On

(* A job that is left alone stays right.                                     *)
LEMMA JobStays ==
    ASSUME NEW copy, JobOK(copy), SessionsStay, Unharmed(copy)
    PROVE  JobOK(copy)'
<1>1. CASE copy.at \in {"failed", "refused"}
  BY <1>1 DEF JobOK, AtWork
<1>2. CASE copy.at \in AtWork \cup {"done"}
  <2>1. copy \in AJob /\ WellAsked(copy)
    BY <1>2 DEF JobOK
  <2>2. WellAsked(copy)'
    BY <2>1 DEF WellAsked, SessionsStay
  <2>3. (copy \in AJob)'
    BY <2>1 DEF AJob
  <2>4. copy.from # None => On(copy.from)' = On(copy.from)
    BY <2>1, OnStays
  <2>5. ASSUME copy.at \in {"write", "verify"} PROVE ReadsTheSource(copy)' /\ HasWritten(copy)'
    <3>1. /\ ReadsTheSource(copy) /\ HasWritten(copy)
          /\ copy.at = "verify" => copy.kind \in {"clone", "write"}
      BY <2>5 DEF JobOK
    <3>2. ReadsTheSource(copy)'
      BY <2>4, <2>5, <3>1 DEF ReadsTheSource, Unharmed
    <3>3. HasWritten(copy)'
      BY <2>5, <3>1 DEF HasWritten, Unharmed
    <3>4. QED
      BY <3>2, <3>3
  <2>6. ASSUME copy.at = "done" PROVE DoneTrue(copy)'
    BY <2>6 DEF JobOK, DoneTrue, Unharmed
  <2>7. QED
    BY <1>2, <2>2, <2>3, <2>5, <2>6 DEF JobOK
<1>3. QED
  BY <1>1, <1>2 DEF JobOK

(* One that is no longer alone claims nothing.                               *)
LEMMA JobFlagged ==
    ASSUME NEW copy, JobOK(copy), SessionsStay, copy.at \in AtWork \cup {"done"},
           NEW flagged, flagged = [copy EXCEPT !.alone = FALSE]
    PROVE  JobOK(flagged)'
<1>1. copy \in AJob /\ WellAsked(copy)
  BY DEF JobOK
<1>2. /\ flagged \in AJob /\ flagged.alone = FALSE /\ flagged.at = copy.at
      /\ flagged.from = copy.from /\ flagged.to = copy.to /\ flagged.kind = copy.kind
      /\ flagged.every = copy.every /\ flagged.source = copy.source /\ flagged.file = copy.file
  BY <1>1 DEF AJob
<1>3. WellAsked(flagged)'
  BY <1>1, <1>2 DEF WellAsked, SessionsStay
<1>4. (flagged \in AJob)'
  BY <1>2 DEF AJob
<1>5. copy.from # None => On(copy.from)' = On(copy.from)
  BY <1>1, OnStays
<1>6. flagged.at \in {"write", "verify"} => ReadsTheSource(flagged)'
  BY <1>2, <1>5 DEF JobOK, ReadsTheSource
<1>7. HasWritten(flagged)' /\ DoneTrue(flagged)'
  BY <1>2 DEF HasWritten, DoneTrue
<1>8. QED
  BY <1>2, <1>3, <1>4, <1>6, <1>7 DEF JobOK

(* What is known of a job's record holds of the job that has it.             *)
LEMMA OfTheRecord ==
    ASSUME NEW j, NEW copy, copy = jobs'[j], JobOK(copy)'
    PROVE  JobOK(jobs[j])'
BY DEF JobOK, AJob, WellAsked, ReadsTheSource, HasWritten, DoneTrue, On

(* The jobs a step is not of, where it changes one place at most.            *)
LEMMA OthersStay ==
    ASSUME JobsInv, SessionsStay, NEW j \in DOMAIN jobs, jobs'[j] = jobs[j],
           Unharmed(jobs[j])
    PROVE  JobOK(jobs[j])'
<1>1. PICK copy : copy = jobs[j]
  OBVIOUS
<1>2. JobOK(copy)'
  <2>1. JobOK(copy) /\ Unharmed(copy)
    BY <1>1 DEF JobsInv
  <2>2. QED
    BY <2>1, JobStays
<1>3. QED
  BY <1>1, <1>2, OfTheRecord

LEMMA OthersAreTold ==
    ASSUME JobsInv, SessionsStay, DrivesOK, NEW place, NEW source, NEW but,
           \A p \in Places : p # place => disk'[p] = disk[p],
           \A i \in DOMAIN jobs :
               jobs[i].at \in {"write", "verify"} /\ i # but /\ source # None =>
                   jobs[i].from # source,
           NEW j \in DOMAIN jobs, j # but, jobs'[j] = NotAlone(place, source, but)[j]
    PROVE  JobOK(jobs[j])'
<1>1. PICK copy : copy = jobs[j]
  OBVIOUS
<1>2. JobOK(copy)
  BY <1>1 DEF JobsInv
<1>3. CASE jobs'[j] = [copy EXCEPT !.alone = FALSE] /\ copy.at \in AtWork \cup {"done"}
  <2>1. PICK flagged : flagged = [copy EXCEPT !.alone = FALSE]
    OBVIOUS
  <2>2. JobOK(flagged)'
    BY <1>2, <1>3, <2>1, JobFlagged
  <2>3. QED
    BY <1>3, <2>1, <2>2, OfTheRecord
<1>4. CASE /\ jobs'[j] = copy
           /\ copy.at \in {"write", "verify"} =>
                  copy.from \in {None, source} \/ On(copy.from) # place
           /\ copy.at \in {"write", "verify", "done"} => copy.to # place
  <2>1. Unharmed(copy)
    <3>1. ASSUME copy.at \in {"write", "verify"}, copy.from # None
          PROVE  disk'[On(copy.from)] = disk[On(copy.from)]
      <4>1. copy.from # source
        BY <1>1, <3>1
      <4>2. On(copy.from) # place
        BY <1>4, <3>1, <4>1
      <4>3. On(copy.from) \in Places
        BY <1>2, <3>1 DEF JobOK, AtWork, WellAsked, On, Places, DrivesOK
      <4>4. QED
        BY <4>2, <4>3
    <3>2. ASSUME copy.at \in {"verify", "done"}, copy.kind \in {"clone", "write"}
          PROVE  disk'[copy.to] = disk[copy.to]
      <4>1. copy \in AJob /\ WellAsked(copy)
        BY <1>2, <3>2 DEF JobOK, AtWork
      <4>2. copy.to \in Places
        BY <3>2, <4>1 DEF AJob, WellAsked, Places, Filed
      <4>3. QED
        BY <1>4, <3>2, <4>2
    <3>3. QED
      BY <3>1, <3>2 DEF Unharmed
  <2>2. QED
    BY <1>1, <1>4, <2>1, OthersStay
<1>5. QED
  <2>1. NotAlone(place, source, but)[j] =
          IF /\ j # but
             /\ \/ copy.at \in {"write", "verify", "done"} /\ copy.to = place
                \/ /\ copy.at \in {"write", "verify"}
                   /\ copy.from \notin {None, source} /\ On(copy.from) = place
          THEN [copy EXCEPT !.alone = FALSE] ELSE copy
    BY <1>1 DEF NotAlone
  <2>2. copy.at \in {"write", "verify", "done"} => copy.at \in AtWork \cup {"done"}
    BY DEF AtWork
  <2>3. QED
    BY <1>3, <1>4, <2>1, <2>2

(* The numbers of sessions and of jobs run from 1.                           *)
LEMMA Numbers ==
    ASSUME NEW S, NEW n \in 0..Cardinality(S), S = 1..n
    PROVE  Cardinality(S) = n /\ n \in Nat /\ n + 1 \in Nat
<1>1. n \in Int /\ 0 <= n
  OBVIOUS
<1>2. Cardinality(1..n) = n
  BY <1>1, FS_Interval
<1>3. QED
  BY <1>1, <1>2

LEMMA OneMore ==
    ASSUME NEW S, NEW T, NEW n \in 0..Cardinality(S), S = 1..n,
           T = 1..(Cardinality(S) + 1)
    PROVE  /\ T = S \cup {Cardinality(S) + 1}
           /\ \E m \in 0..Cardinality(T) : T = 1..m
<1>1. Cardinality(S) = n /\ n \in Nat
  BY Numbers
<1>2. Cardinality(1..(n + 1)) = n + 1
  BY <1>1, FS_Interval
<1>3. QED
  BY <1>1, <1>2

LEMMA DrivesBegin == DrivesInit => DrivesOK /\ JobsInv
<1> SUFFICES ASSUME DrivesInit PROVE DrivesOK /\ JobsInv
  OBVIOUS
<1>1. disk \in [Places -> [Blocks -> Nat]] /\ edits \in Nat
  <2>1. disk \in [Places -> [Blocks -> 0..2]] /\ edits = 0
    BY DEF DrivesInit
  <2>2. QED
    BY <2>1
<1>2. DOMAIN sessions = {} /\ DOMAIN jobs = {} /\ panes = {}
  BY DEF DrivesInit
<1>3. {} = 1..0 /\ Cardinality({}) = 0
  BY FS_EmptySet
<1>4. \E n \in 0..Cardinality(DOMAIN sessions) : DOMAIN sessions = 1..n
  <2>1. 0 \in 0..Cardinality(DOMAIN sessions) /\ DOMAIN sessions = 1..0
    BY <1>2, <1>3
  <2>2. QED
    BY <2>1
<1>5. \E n \in 0..Cardinality(DOMAIN jobs) : DOMAIN jobs = 1..n
  <2>1. 0 \in 0..Cardinality(DOMAIN jobs) /\ DOMAIN jobs = 1..0
    BY <1>2, <1>3
  <2>2. QED
    BY <2>1
<1>6. QED
  BY <1>1, <1>2, <1>4, <1>5 DEF DrivesOK, JobsInv

(* A session is opened.                                                      *)
LEMMA OpenedStays ==
    ASSUME DrivesOK, NEW drive \in Drives, Opened(drive)
    PROVE  /\ SessionsStay /\ panes' \subseteq DOMAIN sessions'
           /\ \E n \in 0..Cardinality(DOMAIN sessions') : DOMAIN sessions' = 1..n
           /\ \A s \in DOMAIN sessions' : sessions'[s] \in Drives
<1> DEFINE new == Cardinality(DOMAIN sessions) + 1
<1>1. PICK n \in 0..Cardinality(DOMAIN sessions) : DOMAIN sessions = 1..n
  BY DEF DrivesOK
<1>2. /\ sessions' = [x \in 1..new |-> IF x = new THEN drive ELSE sessions[x]]
      /\ panes' = panes \cup {new}
  BY DEF Opened
<1>3. /\ DOMAIN sessions' = DOMAIN sessions \cup {new}
      /\ \E m \in 0..Cardinality(DOMAIN sessions') : DOMAIN sessions' = 1..m
  <2>1. DOMAIN sessions' = 1..new
    BY <1>2
  <2>2. QED
    BY <1>1, <2>1, OneMore
<1>4. new \notin DOMAIN sessions
  BY <1>1, Numbers
<1> HIDE DEF new
<1>5. \A s \in DOMAIN sessions' : sessions'[s] = IF s = new THEN drive ELSE sessions[s]
  BY <1>2
<1>6. QED
  BY <1>2, <1>3, <1>4, <1>5 DEF SessionsStay, DrivesOK

(* Every job keeps its record, or one has another.                           *)
LEMMA SameJobs ==
    ASSUME JobsInv, SessionsStay, jobs' = jobs, disk' = disk
    PROVE  JobsInv'
<1>1. ASSUME NEW j \in DOMAIN jobs PROVE JobOK(jobs[j])'
  <2>1. jobs'[j] = jobs[j] /\ Unharmed(jobs[j])
    BY DEF Unharmed
  <2>2. QED
    BY <2>1, OthersStay
<1>2. QED
  BY <1>1 DEF JobsInv

LEMMA OneJob ==
    ASSUME JobsInv, SessionsStay, disk' = disk, NEW j \in DOMAIN jobs, NEW record,
           jobs' = [jobs EXCEPT ![j] = record], JobOK(record)'
    PROVE  JobsInv'
<1>1. ASSUME NEW i \in DOMAIN jobs PROVE JobOK(jobs[i])'
  <2>1. CASE i = j
    <3>1. record = jobs'[i]
      BY <2>1
    <3>2. QED
      BY <3>1, OfTheRecord
  <2>2. CASE i # j
    <3>1. jobs'[i] = jobs[i] /\ Unharmed(jobs[i])
      BY <2>2 DEF Unharmed
    <3>2. QED
      BY <3>1, OthersStay
  <2>3. QED
    BY <2>1, <2>2
<1>2. DOMAIN jobs' = DOMAIN jobs
  OBVIOUS
<1>3. QED
  BY <1>1, <1>2 DEF JobsInv

(* A job that is given up says nothing; one that is done, what it had found. *)
LEMMA GivenUp ==
    ASSUME JobsInv, SessionsStay, disk' = disk, NEW j \in DOMAIN jobs,
           NEW how \in {"failed", "refused"}, jobs' = Over(j, how)
    PROVE  JobsInv'
<1>1. PICK record : record = [at |-> how, from |-> None, to |-> None]
  OBVIOUS
<1>2. jobs' = [jobs EXCEPT ![j] = record]
  BY <1>1 DEF Over
<1>3. record.at = how
  BY <1>1
<1>4. JobOK(record)'
  BY <1>3 DEF JobOK, AtWork
<1>5. QED
  BY <1>2, <1>4, OneJob

LEMMA SaidDone ==
    ASSUME JobsInv, SessionsStay, disk' = disk, NEW j \in DOMAIN jobs,
           NEW copy, copy = jobs[j], copy.at \in AtWork, DoneTrue(copy), jobs' = Over(j, "done")
    PROVE  JobsInv'
<1>1. PICK record : record = [copy EXCEPT !.at = "done", !.left = {}]
  OBVIOUS
<1>2. jobs' = [jobs EXCEPT ![j] = record]
  BY <1>1 DEF Over
<1>3. copy \in AJob /\ WellAsked(copy)
  BY DEF JobsInv, JobOK
<1>4. /\ record \in AJob /\ record.at = "done" /\ record.alone = copy.alone
      /\ record.from = copy.from /\ record.to = copy.to /\ record.kind = copy.kind
      /\ record.every = copy.every /\ record.source = copy.source /\ record.file = copy.file
      /\ record.extents = copy.extents
  BY <1>1, <1>3 DEF AJob
<1>5. (record \in AJob)' /\ WellAsked(record)'
  BY <1>3, <1>4 DEF AJob, WellAsked, SessionsStay
<1>6. DoneTrue(record)'
  BY <1>4 DEF DoneTrue
<1>7. JobOK(record)'
  BY <1>4, <1>5, <1>6 DEF JobOK
<1>8. QED
  BY <1>2, <1>7, OneJob

\* What no step of a job at work changes but of the jobs and of the disks.
LEMMA SameSessions ==
    ASSUME DrivesOK, UNCHANGED <<sessions, panes, edits>>, DOMAIN jobs' = DOMAIN jobs,
           disk' \in [Places -> [Blocks -> Nat]]
    PROVE  SessionsStay /\ DrivesOK'
BY DEF DrivesOK, SessionsStay, Places

(* A request is noted.                                                       *)
LEMMA Asked ==
    ASSUME DrivesOK, JobsInv,
           NEW kind \in {"clone", "write", "initialise"} \cup Filed,
           NEW source \in Images \cup panes \cup {None}, NEW target \in Drives \cup {None},
           NEW every \in BOOLEAN, Ask(kind, source, target, every),
           kind = "initialise" <=> source = None, kind \in Filed <=> target = None
    PROVE  DrivesOK' /\ JobsInv'
<1> DEFINE new == Cardinality(DOMAIN jobs) + 1
<1>1. PICK record :
        record = [kind |-> kind, from |-> source, to |-> target, every |-> every, at |-> "wait",
                  extents |-> {}, left |-> {}, source |-> None, file |-> None, alone |-> TRUE]
  OBVIOUS
<1>2. /\ jobs' = [x \in 1..new |-> IF x # new THEN jobs[x] ELSE record]
      /\ UNCHANGED <<disk, sessions, panes, writable, edits, faults>>
  BY <1>1 DEF Ask
<1>3. PICK n \in 0..Cardinality(DOMAIN jobs) : DOMAIN jobs = 1..n
  BY DEF DrivesOK
<1>4. /\ DOMAIN jobs' = DOMAIN jobs \cup {new}
      /\ \E m \in 0..Cardinality(DOMAIN jobs') : DOMAIN jobs' = 1..m
  <2>1. DOMAIN jobs' = 1..new
    BY <1>2
  <2>2. QED
    BY <1>3, <2>1, OneMore
<1>5. new \notin DOMAIN jobs
  BY <1>3, Numbers
<1> HIDE DEF new
<1>6. SessionsStay
  BY <1>2 DEF SessionsStay
<1>7. JobOK(record)'
  <2>1. source \in Images \cup DOMAIN sessions \cup {None} /\ DOMAIN sessions \subseteq Nat
    BY <1>2 DEF DrivesOK
  <2>2. /\ record \in AJob /\ record.at = "wait" /\ record.from = source
        /\ record.to = target /\ record.kind = kind /\ record.every = every
    BY <1>1, <2>1 DEF AJob, AtWork
  <2>3. (record \in AJob)' /\ WellAsked(record)'
    BY <1>2, <2>1, <2>2 DEF AJob, WellAsked
  <2>4. QED
    BY <2>2, <2>3 DEF JobOK, AtWork
<1>8. ASSUME NEW j \in DOMAIN jobs' PROVE JobOK(jobs[j])'
  <2>1. CASE j = new
    <3>1. record = jobs'[j]
      BY <1>2, <2>1
    <3>2. QED
      BY <1>7, <3>1, OfTheRecord
  <2>2. CASE j # new
    <3>1. j \in DOMAIN jobs /\ jobs'[j] = jobs[j] /\ Unharmed(jobs[j])
      BY <1>2, <1>4, <2>2 DEF Unharmed
    <3>2. QED
      BY <1>6, <3>1, OthersStay
  <2>3. QED
    BY <2>1, <2>2
<1>9. DrivesOK'
  BY <1>2, <1>4 DEF DrivesOK, Places
<1>10. QED
  BY <1>8, <1>9 DEF JobsInv

(* A job begins: what it is to read is another place than the one to erase.  *)
LEMMA PlanKeeps ==
    ASSUME DrivesOK, JobsInv, NEW j \in DOMAIN jobs, Plan(j)
    PROVE  DrivesOK' /\ JobsInv'
<1>1. PICK copy : copy = jobs[j]
  OBVIOUS
<1>2. /\ copy.at = "wait"
      /\ UNCHANGED <<disk, sessions, panes, writable, edits, faults>>
  BY <1>1 DEF Plan
<1>3. copy \in AJob /\ WellAsked(copy)
  BY <1>1, <1>2 DEF JobsInv, JobOK, AtWork
<1>4. DrivesOK' /\ SessionsStay
  <2>1. DOMAIN jobs' = DOMAIN jobs
    BY DEF Plan, Over
  <2>2. QED
    BY <1>2, <2>1, SameSessions DEF DrivesOK
<1>5. CASE Problem(copy)
  <2>1. jobs' = Over(j, "refused")
    BY <1>1, <1>5 DEF Plan
  <2>2. QED
    BY <1>2, <1>4, <2>1, GivenUp
<1>6. CASE ~Problem(copy)
  <2>1. PICK extents : extents = Extents(copy)
    OBVIOUS
  <2>2. PICK source : source = IF copy.from = None THEN [b \in Blocks |-> 9]
                               ELSE disk[On(copy.from)]
    OBVIOUS
  <2>3. PICK file : file = [b \in Blocks |-> 0]
    OBVIOUS
  <2>4. PICK record : record = [copy EXCEPT !.at = "write", !.extents = extents,
                                  !.left = extents, !.source = source, !.file = file]
    OBVIOUS
  <2>5. jobs' = [jobs EXCEPT ![j] = record]
    BY <1>1, <1>6, <2>1, <2>2, <2>3, <2>4 DEF Plan
  <2>6. copy.from # None => On(copy.from) \in Places
    BY <1>3 DEF WellAsked, On, Places, DrivesOK
  <2>7. extents \in SUBSET Blocks /\ source \in [Blocks -> Nat] /\ file \in [Blocks -> Nat]
    BY <2>1, <2>2, <2>3, <2>6 DEF Extents, Held, Runs, DrivesOK
  <2>8. /\ record \in AJob /\ record.at = "write" /\ record.alone = copy.alone
        /\ record.from = copy.from /\ record.to = copy.to /\ record.kind = copy.kind
        /\ record.every = copy.every /\ record.source = source /\ record.file = file
        /\ record.extents = extents /\ record.left = extents
    BY <1>3, <2>4, <2>7 DEF AJob, AtWork
  <2>9. (record \in AJob)' /\ WellAsked(record)'
    BY <1>2, <1>3, <2>8 DEF AJob, WellAsked
  <2>10. ReadsTheSource(record)'
    <3>1. copy.from # None => On(copy.from) # copy.to
      <4>1. CASE copy.from \in Images
        BY <1>3, <4>1, DrivesAssumption DEF On, AJob
      <4>2. CASE copy.from \in DOMAIN sessions \ Images
        <5>1. On(copy.from) = sessions[copy.from] /\ sessions[copy.from] \in Drives
          BY <4>2 DEF On, DrivesOK
        <5>2. copy.to # None => copy.to \notin OpenDevices
          BY <1>6 DEF Problem
        <5>3. sessions[copy.from] \in OpenDevices
          BY <4>2 DEF OpenDevices
        <5>4. QED
          BY <5>1, <5>2, <5>3, DrivesAssumption
      <4>3. QED
        BY <1>3, <4>1, <4>2 DEF WellAsked
    <3>2. record.from # None =>
            On(record.from)' = On(copy.from) /\ record.source = disk[On(copy.from)]
      BY <1>2, <2>2, <2>8 DEF On
    <3>3. QED
      BY <1>2, <2>7, <2>8, <3>1, <3>2 DEF ReadsTheSource
  <2>11. HasWritten(record)'
    <3>1. ASSUME copy.kind \in Filed PROVE \A b \in Blocks \ extents : file[b] = source[b]
      <4>1. copy.from # None
        BY <1>3, <3>1 DEF WellAsked, Filed
      <4>2. \A b \in Blocks \ extents : disk[On(copy.from)][b] = 0
        BY <2>1 DEF Extents, Held, Runs
      <4>3. QED
        BY <2>2, <2>3, <4>1, <4>2
    <3>2. QED
      BY <2>8, <3>1 DEF HasWritten
  <2>12. JobOK(record)'
    BY <2>8, <2>9, <2>10, <2>11 DEF JobOK, AtWork
  <2>13. QED
    BY <1>2, <1>4, <2>5, <2>12, OneJob
<1>7. QED
  BY <1>5, <1>6

\* A job at work on a drive or a file, and what is known of it.
LEMMA OfOneAtWork ==
    ASSUME DrivesOK, JobsInv, NEW j \in DOMAIN jobs, NEW copy, copy = jobs[j],
           copy.at \in {"write", "verify"}
    PROVE  /\ copy \in AJob /\ WellAsked(copy) /\ ReadsTheSource(copy) /\ HasWritten(copy)
           /\ copy.at = "verify" => copy.kind \in {"clone", "write"}
           /\ copy.from # None => On(copy.from) \in Places
           /\ copy.to # None => copy.to \in Places
BY DEF JobsInv, JobOK, AtWork, AJob, WellAsked, On, Places, DrivesOK

(* A block of a file is written: it is what the drive has held all along.    *)
LEMMA FileGrows ==
    ASSUME DrivesOK, JobsInv, NEW j \in DOMAIN jobs, SaveBlock(j)
    PROVE  DrivesOK' /\ JobsInv'
<1>1. PICK copy : copy = jobs[j]
  OBVIOUS
<1>2. PICK b : b = Min(copy.left)
  OBVIOUS
<1>3. PICK byte : byte = Read(copy, b)
  OBVIOUS
<1>4. /\ copy.at = "write" /\ copy.to = None
      /\ jobs' = [jobs EXCEPT ![j].left = @ \ {b}, ![j].file[b] = byte]
      /\ UNCHANGED <<disk, sessions, panes, writable, edits, faults>>
  BY <1>1, <1>2, <1>3 DEF SaveBlock
<1>5. /\ copy \in AJob /\ WellAsked(copy) /\ ReadsTheSource(copy) /\ HasWritten(copy)
      /\ copy.from # None => On(copy.from) \in Places
  BY <1>1, <1>4, OfOneAtWork
<1>6. /\ copy.kind \in Filed /\ copy.from # None
      /\ copy.source \in [Blocks -> Nat] /\ copy.file \in [Blocks -> Nat]
      /\ copy.alone => copy.source = disk[On(copy.from)]
  BY <1>4, <1>5 DEF WellAsked, ReadsTheSource, Filed
<1>7. PICK file : file = [copy.file EXCEPT ![b] = byte]
  OBVIOUS
<1>8. PICK record : record = [copy EXCEPT !.left = @ \ {b}, !.file = file]
  OBVIOUS
<1>9. jobs' = [jobs EXCEPT ![j] = record]
  BY <1>1, <1>4, <1>7, <1>8
<1>10. /\ file \in [Blocks -> Nat]
       /\ \A x \in Blocks : file[x] = IF x = b THEN byte ELSE copy.file[x]
       /\ b \in Blocks => byte = disk[On(copy.from)][b]
  <2>1. b \in Blocks => byte = disk[On(copy.from)][b] /\ byte \in Nat
    BY <1>3, <1>5, <1>6 DEF Read, DrivesOK
  <2>2. QED
    BY <1>6, <1>7, <2>1
<1>11. /\ record \in AJob /\ record.at = "write" /\ record.alone = copy.alone
       /\ record.from = copy.from /\ record.to = copy.to /\ record.kind = copy.kind
       /\ record.every = copy.every /\ record.source = copy.source /\ record.file = file
       /\ record.extents = copy.extents /\ record.left = copy.left \ {b}
  BY <1>4, <1>5, <1>8, <1>10 DEF AJob
<1>12. DrivesOK' /\ SessionsStay
  BY <1>4, <1>9, SameSessions DEF DrivesOK
<1>13. (record \in AJob)' /\ WellAsked(record)' /\ ReadsTheSource(record)'
  BY <1>4, <1>5, <1>10, <1>11 DEF AJob, WellAsked, ReadsTheSource, On
<1>14. HasWritten(record)'
  <2>1. \A x \in Blocks \ record.left : copy.alone => file[x] = copy.source[x]
    BY <1>4, <1>5, <1>6, <1>10, <1>11 DEF HasWritten
  <2>2. QED
    BY <1>11, <2>1 DEF HasWritten
<1>15. JobOK(record)'
  BY <1>11, <1>13, <1>14 DEF JobOK, AtWork
<1>16. QED
  BY <1>4, <1>9, <1>12, <1>15, OneJob

(* A block of a drive is written: the others that count on it are told, and  *)
(* the drive it is read from is another.                                     *)
LEMMA DriveIsWritten ==
    ASSUME DrivesOK, JobsInv, NEW j \in DOMAIN jobs, WriteBlock(j)
    PROVE  DrivesOK' /\ JobsInv'
<1>1. PICK copy : copy = jobs[j]
  OBVIOUS
<1>2. PICK b : b = Min(copy.left)
  OBVIOUS
<1>3. PICK byte : byte = Read(copy, b)
  OBVIOUS
<1>4. /\ copy.at = "write" /\ copy.to # None
      /\ jobs' = [NotAlone(copy.to, None, j) EXCEPT ![j].left = @ \ {b}]
      /\ disk' = [disk EXCEPT ![copy.to][b] = byte] \/ disk' = disk
      /\ UNCHANGED <<sessions, panes, writable, edits>>
  BY <1>1, <1>2, <1>3 DEF WriteBlock
<1>5. /\ copy \in AJob /\ WellAsked(copy) /\ ReadsTheSource(copy) /\ copy.to \in Places
      /\ copy.from # None => On(copy.from) \in Places
  BY <1>1, <1>4, OfOneAtWork
<1>6. /\ copy.kind \notin Filed /\ copy.source \in [Blocks -> Nat]
      /\ copy.file \in [Blocks -> Nat]
      /\ copy.from # None => On(copy.from) # copy.to
      /\ copy.from # None /\ copy.alone => copy.source = disk[On(copy.from)]
  BY <1>4, <1>5 DEF WellAsked, ReadsTheSource
<1>7. PICK record : record = [copy EXCEPT !.left = @ \ {b}]
  OBVIOUS
<1>8. /\ DOMAIN jobs' = DOMAIN jobs /\ jobs'[j] = record
      /\ \A i \in DOMAIN jobs : i # j => jobs'[i] = NotAlone(copy.to, None, j)[i]
  <2>1. DOMAIN NotAlone(copy.to, None, j) = DOMAIN jobs /\ NotAlone(copy.to, None, j)[j] = copy
    BY <1>1 DEF NotAlone
  <2>2. QED
    BY <1>4, <1>7, <2>1
<1>9. /\ disk' \in [Places -> [Blocks -> Nat]]
      /\ \A p \in Places : p # copy.to => disk'[p] = disk[p]
  <2>1. b \in Blocks => byte \in Nat
    BY <1>3, <1>5, <1>6 DEF Read, DrivesOK
  <2>2. disk \in [Places -> [Blocks -> Nat]]
    BY DEF DrivesOK
  <2>3. QED
    BY <1>4, <1>5, <2>1, <2>2
<1>10. DrivesOK' /\ SessionsStay
  BY <1>4, <1>8, <1>9, SameSessions
<1>11. /\ record \in AJob /\ record.at = "write" /\ record.alone = copy.alone
       /\ record.from = copy.from /\ record.to = copy.to /\ record.kind = copy.kind
       /\ record.every = copy.every /\ record.source = copy.source /\ record.file = copy.file
  BY <1>4, <1>5, <1>7 DEF AJob
<1>12. JobOK(record)'
  <2>1. (record \in AJob)' /\ WellAsked(record)'
    BY <1>4, <1>5, <1>11 DEF AJob, WellAsked
  <2>2. ReadsTheSource(record)'
    <3>1. copy.from # None => /\ On(copy.from)' = On(copy.from)
                             /\ disk'[On(copy.from)] = disk[On(copy.from)]
      BY <1>4, <1>5, <1>6, <1>9 DEF On
    <3>2. QED
      BY <1>6, <1>11, <3>1 DEF ReadsTheSource
  <2>3. HasWritten(record)'
    BY <1>6, <1>11 DEF HasWritten
  <2>4. QED
    BY <1>11, <2>1, <2>2, <2>3 DEF JobOK, AtWork
<1>13. ASSUME NEW i \in DOMAIN jobs PROVE JobOK(jobs[i])'
  <2>1. CASE i = j
    BY <1>8, <1>12, <2>1, OfTheRecord
  <2>2. CASE i # j
    <3>1. jobs'[i] = NotAlone(copy.to, None, j)[i]
      BY <1>8, <2>2
    <3>2. QED
      BY <1>9, <1>10, <2>2, <3>1, OthersAreTold
  <2>3. QED
    BY <2>1, <2>2
<1>14. QED
  BY <1>8, <1>10, <1>13 DEF JobsInv

(* All is written: a file is saved, a new table opened, a copy read back.    *)
LEMMA AllWrittenKeeps ==
    ASSUME DrivesOK, JobsInv, NEW j \in DOMAIN jobs, AllWritten(j)
    PROVE  DrivesOK' /\ JobsInv'
<1>1. PICK copy : copy = jobs[j]
  OBVIOUS
<1>2. copy.at = "write" /\ copy.left = {} /\ UNCHANGED <<disk, edits, faults>>
  BY <1>1 DEF AllWritten
<1>3. /\ copy \in AJob /\ WellAsked(copy) /\ ReadsTheSource(copy) /\ HasWritten(copy)
  BY <1>1, <1>2, OfOneAtWork
<1>4. CASE copy.kind \in Filed
  <2>1. jobs' = Over(j, "done") /\ UNCHANGED <<sessions, panes>>
    BY <1>1, <1>4 DEF AllWritten, Filed
  <2>2. DrivesOK' /\ SessionsStay
    BY <1>2, <2>1, SameSessions DEF Over, DrivesOK
  <2>3. DoneTrue(copy)
    <3>1. copy.alone => copy.file = copy.source
      BY <1>2, <1>3, <1>4 DEF HasWritten, ReadsTheSource
    <3>2. QED
      BY <1>4, <3>1 DEF DoneTrue, Filed
  <2>4. QED
    BY <1>1, <1>2, <2>1, <2>2, <2>3, SaidDone DEF AtWork
<1>5. CASE copy.kind = "initialise"
  <2>1. jobs' = Over(j, "done") /\ Opened(copy.to) /\ copy.to \in Drives
    BY <1>1, <1>3, <1>5 DEF AllWritten, AJob, WellAsked, Filed
  <2>2. DrivesOK' /\ SessionsStay
    <3>1. DOMAIN jobs' = DOMAIN jobs
      BY <2>1 DEF Over
    <3>2. QED
      BY <1>2, <2>1, <3>1, OpenedStays DEF DrivesOK, Places
  <2>3. DoneTrue(copy)
    BY <1>5 DEF DoneTrue, Filed
  <2>4. QED
    BY <1>1, <1>2, <2>1, <2>2, <2>3, SaidDone DEF AtWork
<1>6. CASE copy.kind \notin Filed \cup {"initialise"}
  <2>1. PICK record : record = [copy EXCEPT !.at = "verify", !.left = copy.extents]
    OBVIOUS
  <2>2. jobs' = [jobs EXCEPT ![j] = record] /\ UNCHANGED <<sessions, panes>>
    BY <1>1, <1>6, <2>1 DEF AllWritten
  <2>3. /\ record \in AJob /\ record.at = "verify" /\ record.alone = copy.alone
        /\ record.from = copy.from /\ record.to = copy.to /\ record.kind = copy.kind
        /\ record.every = copy.every /\ record.source = copy.source /\ record.file = copy.file
        /\ record.extents = copy.extents /\ record.left = copy.extents
    BY <1>3, <2>1 DEF AJob, AtWork
  <2>4. DrivesOK' /\ SessionsStay
    BY <1>2, <2>2, SameSessions DEF DrivesOK
  <2>5. (record \in AJob)' /\ WellAsked(record)' /\ ReadsTheSource(record)' /\ HasWritten(record)'
    BY <1>2, <1>3, <2>2, <2>3 DEF AJob, WellAsked, ReadsTheSource, HasWritten, On
  <2>6. record.kind \in {"clone", "write"}
    BY <1>3, <1>6, <2>3 DEF AJob
  <2>7. JobOK(record)'
    BY <2>3, <2>5, <2>6 DEF JobOK, AtWork
  <2>8. QED
    BY <1>2, <2>2, <2>4, <2>7, OneJob
<1>7. QED
  BY <1>4, <1>5, <1>6

(* A block is compared: it is the source's, or the copy is given up.         *)
LEMMA VerifyKeeps ==
    ASSUME DrivesOK, JobsInv, NEW j \in DOMAIN jobs, Verify(j)
    PROVE  DrivesOK' /\ JobsInv'
<1>1. PICK copy : copy = jobs[j]
  OBVIOUS
<1>2. PICK b : b = Min(copy.left)
  OBVIOUS
<1>3. copy.at = "verify" /\ UNCHANGED <<disk, sessions, panes, writable, edits, faults>>
  BY <1>1 DEF Verify
<1>4. /\ copy \in AJob /\ WellAsked(copy) /\ ReadsTheSource(copy) /\ HasWritten(copy)
      /\ copy.kind \in {"clone", "write"} /\ copy.from # None
  BY <1>1, <1>3, OfOneAtWork DEF WellAsked
<1>5. DrivesOK' /\ SessionsStay
  <2>1. DOMAIN jobs' = DOMAIN jobs
    BY DEF Verify, Over
  <2>2. QED
    BY <1>3, <2>1, SameSessions DEF DrivesOK
<1>6. CASE jobs' = Over(j, "failed")
  BY <1>3, <1>5, <1>6, GivenUp
<1>7. CASE jobs' # Over(j, "failed")
  <2>1. PICK record : record = [copy EXCEPT !.left = @ \ {b}]
    OBVIOUS
  <2>2. /\ jobs' = [jobs EXCEPT ![j] = record]
        /\ b \in copy.extents => disk[copy.to][b] = disk[On(copy.from)][b]
    BY <1>1, <1>2, <1>4, <1>7, <2>1 DEF Verify, Read, Checked
  <2>3. /\ record \in AJob /\ record.at = "verify" /\ record.alone = copy.alone
        /\ record.from = copy.from /\ record.to = copy.to /\ record.kind = copy.kind
        /\ record.every = copy.every /\ record.source = copy.source /\ record.file = copy.file
        /\ record.extents = copy.extents /\ record.left = copy.left \ {b}
    BY <1>3, <1>4, <2>1 DEF AJob
  <2>4. (record \in AJob)' /\ WellAsked(record)' /\ ReadsTheSource(record)'
    BY <1>3, <1>4, <2>3 DEF AJob, WellAsked, ReadsTheSource, On
  <2>5. HasWritten(record)'
    <3>1. copy.alone => copy.source = disk[On(copy.from)]
      BY <1>4 DEF ReadsTheSource
    <3>2. copy.alone => \A x \in copy.extents \ record.left : disk[copy.to][x] = copy.source[x]
      BY <1>3, <1>4, <2>2, <2>3, <3>1 DEF HasWritten
    <3>3. QED
      BY <1>3, <2>3, <3>2 DEF HasWritten
  <2>6. JobOK(record)'
    BY <1>4, <2>3, <2>4, <2>5 DEF JobOK, AtWork
  <2>7. QED
    BY <1>3, <1>5, <2>2, <2>6, OneJob
<1>8. QED
  BY <1>6, <1>7

LEMMA DrivesNextInv == DrivesOK /\ JobsInv /\ [DrivesNext]_jobVars => DrivesOK' /\ JobsInv'
<1> SUFFICES ASSUME DrivesOK, JobsInv, [DrivesNext]_jobVars PROVE DrivesOK' /\ JobsInv'
  OBVIOUS
<1>1. CASE UNCHANGED jobVars
  <2>1. SessionsStay /\ DrivesOK'
    BY <1>1 DEF jobVars, SessionsStay, DrivesOK, Places
  <2>2. QED
    BY <1>1, <2>1, SameJobs DEF jobVars
<1>2. ASSUME NEW d \in Drives, Open(d) PROVE DrivesOK' /\ JobsInv'
  <2>1. Opened(d) /\ UNCHANGED <<disk, jobs, edits>>
    BY <1>2 DEF Open
  <2>2. SessionsStay /\ DrivesOK'
    BY <2>1, OpenedStays DEF DrivesOK, Places
  <2>3. QED
    BY <2>1, <2>2, SameJobs
<1>3. ASSUME NEW s \in DOMAIN sessions, AllowWrites(s) \/ Close(s) \/ Recover(s)
      PROVE  DrivesOK' /\ JobsInv'
  <2>1. UNCHANGED <<disk, sessions, jobs, edits>> /\ panes' \subseteq DOMAIN sessions
    BY <1>3 DEF AllowWrites, Close, Recover, DrivesOK
  <2>2. SessionsStay /\ DrivesOK'
    BY <2>1 DEF SessionsStay, DrivesOK, Places
  <2>3. QED
    BY <2>1, <2>2, SameJobs
(* No job that reads through the session is at work: it holds the lock.      *)
<1>4. ASSUME NEW source \in Images \cup panes, NEW b \in Blocks, EditDrive(source, b)
      PROVE  DrivesOK' /\ JobsInv'
  <2>1. PICK value \in {0, New} : disk' = [disk EXCEPT ![On(source)][b] = value]
    BY <1>4 DEF EditDrive
  <2>2. /\ ~Locked(source) /\ jobs' = NotAlone(On(source), source, 0)
        /\ edits' = edits + 1 /\ UNCHANGED <<sessions, panes>>
    BY <1>4 DEF EditDrive, MayEdit
  <2>3. On(source) \in Places /\ value \in Nat
    BY DEF On, Places, New, DrivesOK
  <2>4. /\ disk' \in [Places -> [Blocks -> Nat]]
        /\ \A p \in Places : p # On(source) => disk'[p] = disk[p]
    BY <2>1, <2>3 DEF DrivesOK
  <2>5. DOMAIN jobs' = DOMAIN jobs
    BY <2>2 DEF NotAlone
  <2>6. SessionsStay
    BY <2>2 DEF SessionsStay
  <2>7. DrivesOK'
    BY <2>2, <2>4, <2>5 DEF DrivesOK, Places
  <2>8. \A i \in DOMAIN jobs : jobs[i].at \in {"write", "verify"} => jobs[i].from # source
    BY <2>2 DEF Locked, Working, AtWork
  <2>9. ASSUME NEW i \in DOMAIN jobs PROVE JobOK(jobs[i])'
    <3>1. i # 0
      BY DEF DrivesOK
    <3>2. QED
      BY <2>2, <2>4, <2>6, <2>8, <3>1, OthersAreTold
  <2>10. QED
    BY <2>5, <2>7, <2>9 DEF JobsInv
<1>5. None \notin Images /\ None \notin panes /\ None \notin Drives
  BY DrivesAssumption DEF DrivesOK
<1>6. ASSUME NEW s \in panes, Export(s) \/ \E d \in Drives : Clone(s, d)
      PROVE  DrivesOK' /\ JobsInv'
  BY <1>5, <1>6, Asked DEF Export, Clone, Filed
<1>7. ASSUME NEW i \in Images,
             SaveDriveImage(i) \/ \E d \in Drives, every \in BOOLEAN : WriteImage(i, d, every)
      PROVE  DrivesOK' /\ JobsInv'
  BY <1>5, <1>7, Asked DEF SaveDriveImage, WriteImage, Filed
<1>8. ASSUME NEW d \in Drives, Initialise(d) PROVE DrivesOK' /\ JobsInv'
  BY <1>5, <1>8, Asked DEF Initialise, Filed
<1>9. ASSUME NEW j \in DOMAIN jobs, Plan(j) PROVE DrivesOK' /\ JobsInv'
  BY <1>9, PlanKeeps
<1>10. ASSUME NEW j \in DOMAIN jobs, SaveBlock(j) PROVE DrivesOK' /\ JobsInv'
  BY <1>10, FileGrows
<1>11. ASSUME NEW j \in DOMAIN jobs, WriteBlock(j) PROVE DrivesOK' /\ JobsInv'
  BY <1>11, DriveIsWritten
<1>12. ASSUME NEW j \in DOMAIN jobs, AllWritten(j) PROVE DrivesOK' /\ JobsInv'
  BY <1>12, AllWrittenKeeps
<1>13. ASSUME NEW j \in DOMAIN jobs, Verify(j) PROVE DrivesOK' /\ JobsInv'
  BY <1>13, VerifyKeeps
<1>14. ASSUME NEW j \in DOMAIN jobs, Verified(j) PROVE DrivesOK' /\ JobsInv'
  <2>1. PICK copy : copy = jobs[j]
    OBVIOUS
  <2>2. /\ copy.at = "verify" /\ copy.left = {} /\ jobs' = Over(j, "done")
        /\ UNCHANGED <<disk, sessions, panes, writable, edits, faults>>
    BY <1>14, <2>1 DEF Verified
  <2>3. HasWritten(copy) /\ copy.kind \in {"clone", "write"}
    BY <2>1, <2>2, OfOneAtWork
  <2>4. DoneTrue(copy)
    BY <2>2, <2>3 DEF HasWritten, DoneTrue, Filed
  <2>5. DrivesOK' /\ SessionsStay
    BY <2>2, SameSessions DEF Over, DrivesOK
  <2>6. QED
    BY <2>1, <2>2, <2>4, <2>5, SaidDone DEF AtWork
<1>15. ASSUME NEW j \in DOMAIN jobs, Stop(j) PROVE DrivesOK' /\ JobsInv'
  <2>1. jobs' = Over(j, "failed") /\ UNCHANGED <<disk, sessions, panes, writable, edits, faults>>
    BY <1>15 DEF Stop
  <2>2. DrivesOK' /\ SessionsStay
    BY <2>1, SameSessions DEF Over, DrivesOK
  <2>3. QED
    BY <2>1, <2>2, GivenUp
<1>16. QED
  BY <1>1, <1>2, <1>3, <1>4, <1>6, <1>7, <1>8, <1>9, <1>10, <1>11, <1>12, <1>13, <1>14, <1>15
     DEF DrivesNext

(* A copy that is said to be verified is on the drive, and a file that is    *)
(* said to be saved is the drive as it was, whatever other jobs, changes and *)
(* lost writes came between, unless one of them wrote where the job counted  *)
(* on being alone.                                                           *)
THEOREM VerifiedCopiesAreTrue == DrivesSpec => []CopiesAreTrue
<1>1. DrivesOK /\ JobsInv => CopiesAreTrue
  <2> SUFFICES ASSUME JobsInv, NEW j \in DOMAIN jobs, jobs[j].at = "done", jobs[j].alone
      PROVE  /\ jobs[j].kind \in Filed => jobs[j].file = jobs[j].source
             /\ jobs[j].kind \in {"clone", "write"} =>
                   \A b \in jobs[j].extents : disk[jobs[j].to][b] = jobs[j].source[b]
    BY DEF CopiesAreTrue
  <2>1. DoneTrue(jobs[j])
    BY DEF JobsInv, JobOK
  <2>2. QED
    BY <2>1 DEF DoneTrue
<1>2. QED
  BY <1>1, DrivesBegin, DrivesNextInv, PTL DEF DrivesSpec

===============================================================================
