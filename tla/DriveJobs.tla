------------------------------- MODULE DriveJobs -------------------------------
(***************************************************************************)
(* Drives attached through USB: opened in place, copied onto one another,  *)
(* exported to a file, given a working image or a new table; and a working *)
(* image of a drive saved to a file without its empty space.  What is      *)
(* erased is chosen here: routes/desktop.py, attached_drives.py,           *)
(* drive_clone.py, drive_write.py, drive_export.py, with the panes of      *)
(* app.js, and save_drive_image of drive_layout_service.py.                *)
(***************************************************************************)
EXTENDS Integers, FiniteSets, FiniteSetsExt

CONSTANTS
    Drives,         \* the drives that are attached
    Images,         \* working images of a drive
    None,           \* no drive, no session
    Blocks,         \* 1 .. n; 1 is the edge that is always written
    MaxSessions,    \* drives opened in a behaviour
    MaxJobs,        \* copies in a behaviour
    MaxEdits,       \* changes in a behaviour
    MaxFaults       \* writes a drive loses in a behaviour

ASSUME DrivesAssumption ==
    Drives \cap Images = {} /\ None \notin Drives \cup Images /\ None \notin Nat

VARIABLES
    disk,       \* drive or image -> block -> what it holds, 0 is zeros
    sessions,   \* service.sessions: session -> the drive it is of
    panes,      \* the sessions some pane of the page shows
    writable,   \* those with device_writes
    jobs,       \* the requests at work or over, by number
    edits,      \* counts changes up to MaxEdits
    faults      \* counts lost writes up to MaxFaults

jobVars == <<disk, sessions, panes, writable, jobs, edits, faults>>

Places == Drives \cup Images
New == 10 + edits

\* What a session or an image is kept on.
On(source) == IF source \in Images THEN source ELSE sessions[source]

AtWork == {"wait", "write", "verify"}
Working == {j \in DOMAIN jobs : jobs[j].at \in AtWork}

\* The lock of a session, held from the check to the end of a job.
Locked(source) ==
    \E j \in Working : jobs[j].from = source /\ jobs[j].at # "wait"

\* Activity.busy: an update of the application waits, but not for a save.
Busy == \E j \in Working : jobs[j].kind # "save"

\* _open_devices()
OpenDevices == {sessions[s] : s \in DOMAIN sessions}

Shown == {sessions[s] : s \in panes}

-----------------------------------------------------------------------------
DrivesInit ==
    /\ disk \in [Places -> [Blocks -> 0..2]]
    /\ \A d \in Drives : \A b \in Blocks : disk[d][b] = 1
    /\ \A i \in Images : disk[i][1] = 2 /\ \A b \in Blocks : disk[i][b] \in {0, 2}
    /\ sessions = [s \in {} |-> 0]
    /\ panes = {}
    /\ writable = {}
    /\ jobs = [j \in {} |-> 0]
    /\ edits = 0
    /\ faults = 0

\* A session of its own for every time a drive is opened.
Opened(drive) ==
    LET s == Cardinality(DOMAIN sessions) + 1 IN
    /\ s <= MaxSessions
    /\ sessions' = [x \in 1..s |-> IF x = s THEN drive ELSE sessions[x]]
    /\ panes' = panes \cup {s}

\* The page does not offer a drive that one of its panes shows.
Open(drive) ==
    /\ drive \notin Shown
    /\ Opened(drive)
    /\ UNCHANGED <<disk, writable, jobs, edits, faults>>

AllowWrites(s) ==
    /\ s \in panes
    /\ ~Locked(s)
    /\ writable' \in {writable \cup {s}, writable \ {s}}
    /\ UNCHANGED <<disk, sessions, panes, jobs, edits, faults>>

\* A pane is closed when none is at work; its session stays, to be recovered.
Close(s) ==
    /\ s \in panes
    /\ ~Busy
    /\ panes' = panes \ {s}
    /\ UNCHANGED <<disk, sessions, writable, jobs, edits, faults>>

Recover(s) ==
    /\ s \in DOMAIN sessions \ panes
    /\ panes' = panes \cup {s}
    /\ UNCHANGED <<disk, sessions, writable, jobs, edits, faults>>

\* The other jobs that write or wrote a place are no longer alone there, nor are
\* those that read it through another session.
NotAlone(place, source, but) ==
    [j \in DOMAIN jobs |->
        LET job == jobs[j]
            reads == /\ job.at \in {"write", "verify"}
                     /\ job.from \notin {None, source} /\ On(job.from) = place
            wrote == job.at \in {"write", "verify", "done"} /\ job.to = place
        IN  IF j # but /\ (wrote \/ reads) THEN [job EXCEPT !.alone = FALSE] ELSE job]

\* Mutant: a change does not wait for the lock of its session.
MayEditAnytime(source) ==
    source \in Images \/ source \in panes \cap writable

MayEdit(source) ==
    /\ source \in Images \/ source \in panes \cap writable
    /\ ~Locked(source)

\* A block of the pane is changed, to something new or to zeros.
EditDrive(source, b) ==
    /\ MayEdit(source)
    /\ edits < MaxEdits
    /\ \E value \in {0, New} : disk' = [disk EXCEPT ![On(source)][b] = value]
    /\ jobs' = NotAlone(On(source), source, 0)
    /\ edits' = edits + 1
    /\ UNCHANGED <<sessions, panes, writable, faults>>

-----------------------------------------------------------------------------
(* The jobs.                                                               *)

\* A request names the drive to erase, which has to be attached.
Ask(kind, source, target, every) ==
    LET j == Cardinality(DOMAIN jobs) + 1 IN
    /\ j <= MaxJobs
    /\ jobs' = [x \in 1..j |-> IF x # j THEN jobs[x] ELSE
        [kind |-> kind, from |-> source, to |-> target, every |-> every, at |-> "wait",
         extents |-> {}, left |-> {}, source |-> None, file |-> None, alone |-> TRUE]]
    /\ UNCHANGED <<disk, sessions, panes, writable, edits, faults>>

Clone(s, d) == s \in panes /\ Ask("clone", s, d, TRUE)
WriteImage(i, d, every) == Ask("write", i, d, every)
Export(s) == s \in panes /\ Ask("export", s, None, TRUE)
SaveDriveImage(i) == Ask("save", i, None, FALSE)
Initialise(d) == Ask("initialise", None, d, TRUE)

\* What goes to a file of the host, in whatever shape.
Filed == {"export", "save"}

\* target_problem(): why a drive cannot be the target.
Problem(job) == job.to # None /\ job.to \in OpenDevices

\* The runs of an image that hold data; a drive also gets the first mebibyte.
Runs(place) == {b \in Blocks : disk[place][b] # 0}
Held(place) == Runs(place) \cup {b \in Blocks : b = 1}

Extents(job) ==
    IF job.every THEN Blocks
    ELSE IF job.kind = "save" THEN Runs(On(job.from)) ELSE Held(On(job.from))

\* Of a job that is over only what it said remains; of one that failed, that.
Over(j, how) ==
    [jobs EXCEPT ![j] = IF how = "done" THEN [@ EXCEPT !.at = how, !.left = {}]
                        ELSE [at |-> how, from |-> None, to |-> None]]

\* With the lock of its session held, the target is looked at and the job
\* begins.
Plan(j) ==
    LET job == jobs[j] IN
    /\ job.at = "wait"
    /\ job.from = None \/ ~Locked(job.from)
    /\ IF Problem(job) THEN jobs' = Over(j, "refused")
       ELSE jobs' = [jobs EXCEPT ![j].at = "write", ![j].extents = Extents(job),
                        ![j].left = Extents(job),
                        ![j].source = IF job.from = None THEN [b \in Blocks |-> 9]
                                      ELSE disk[On(job.from)],
                        ![j].file = [b \in Blocks |-> 0]]
    /\ UNCHANGED <<disk, sessions, panes, writable, edits, faults>>

\* What is read for a block: of the session's drive or image, or a new table.
Read(job, b) == IF job.from = None THEN job.source[b] ELSE disk[On(job.from)][b]

\* A block is written to the .part file, which begins as one hole.
SaveBlock(j) ==
    LET job == jobs[j]
        b == Min(job.left)
    IN  /\ job.at = "write" /\ job.left # {} /\ job.to = None
        /\ jobs' = [jobs EXCEPT ![j].left = @ \ {b}, ![j].file[b] = Read(job, b)]
        /\ UNCHANGED <<disk, sessions, panes, writable, edits, faults>>

\* A block is written to the drive, which may lose it.
WriteBlock(j) ==
    LET job == jobs[j]
        b == Min(job.left)
    IN  /\ job.at = "write" /\ job.left # {} /\ job.to # None
        /\ jobs' = [NotAlone(job.to, None, j) EXCEPT ![j].left = @ \ {b}]
        /\ \/ disk' = [disk EXCEPT ![job.to][b] = Read(job, b)] /\ UNCHANGED faults
           \/ /\ faults < MaxFaults /\ disk[job.to][b] # Read(job, b)
              /\ faults' = faults + 1 /\ UNCHANGED disk
        /\ UNCHANGED <<sessions, panes, writable, edits>>

\* A file is renamed into place, a drive with a new table is opened in a pane,
\* with writes if they were asked for, and a copy is read back.
AllWritten(j) ==
    LET job == jobs[j] IN
    /\ job.at = "write" /\ job.left = {}
    /\ CASE job.kind \in Filed ->
                jobs' = Over(j, "done") /\ UNCHANGED <<sessions, panes, writable>>
         [] job.kind = "initialise" ->
                /\ jobs' = Over(j, "done") /\ Opened(job.to)
                /\ writable' \in {writable, writable \cup (panes' \ panes)}
         [] OTHER ->
                /\ jobs' = [jobs EXCEPT ![j].at = "verify", ![j].left = job.extents]
                /\ UNCHANGED <<sessions, panes, writable>>
    /\ UNCHANGED <<disk, edits, faults>>

Checked(job) == job.extents

\* A block is compared with the source.
Verify(j) ==
    LET job == jobs[j]
        b == Min(job.left)
    IN  /\ job.at = "verify" /\ job.left # {}
        /\ jobs' = IF b \in Checked(job) /\ disk[job.to][b] # Read(job, b) THEN Over(j, "failed")
                   ELSE [jobs EXCEPT ![j].left = @ \ {b}]
        /\ UNCHANGED <<disk, sessions, panes, writable, edits, faults>>

Verified(j) ==
    /\ jobs[j].at = "verify" /\ jobs[j].left = {}
    /\ jobs' = Over(j, "done")
    /\ UNCHANGED <<disk, sessions, panes, writable, edits, faults>>

\* Reporting its progress is where a job can be cancelled; a medium may fail.
Stop(j) ==
    /\ jobs[j].at \in AtWork
    /\ jobs' = Over(j, "failed")
    /\ UNCHANGED <<disk, sessions, panes, writable, edits, faults>>

DrivesNext ==
    \/ \E d \in Drives : Open(d)
    \/ \E s \in DOMAIN sessions : AllowWrites(s) \/ Close(s) \/ Recover(s)
    \/ \E source \in Images \cup panes, b \in Blocks : EditDrive(source, b)
    \/ \E s \in panes : Export(s) \/ \E d \in Drives : Clone(s, d)
    \/ \E i \in Images :
        SaveDriveImage(i) \/ \E d \in Drives, every \in BOOLEAN : WriteImage(i, d, every)
    \/ \E d \in Drives : Initialise(d)
    \/ \E j \in DOMAIN jobs :
        \/ Plan(j) \/ SaveBlock(j) \/ WriteBlock(j) \/ AllWritten(j)
        \/ Verify(j) \/ Verified(j) \/ Stop(j)

DrivesSpec == DrivesInit /\ [][DrivesNext]_jobVars

-----------------------------------------------------------------------------
(* Properties.                                                             *)

\* A drive that is said to hold a verified copy holds what was to be written,
\* whatever writes it lost, when nobody else wrote to it; and a file that is
\* said to be saved is the drive, or the image, as it was, holes and all.
CopiesAreTrue ==
    \A j \in DOMAIN jobs :
        LET job == jobs[j] IN
        (job.at = "done" /\ job.alone) =>
            /\ job.kind \in Filed => job.file = job.source
            /\ job.kind \in {"clone", "write"} =>
                \A b \in job.extents : disk[job.to][b] = job.source[b]

-----------------------------------------------------------------------------
(* The invariants behind it.                                               *)

DrivesOK ==
    /\ disk \in [Places -> [Blocks -> Nat]] /\ edits \in Nat
    /\ \E n \in 0..Cardinality(DOMAIN sessions) : DOMAIN sessions = 1..n
    /\ \A s \in DOMAIN sessions : sessions[s] \in Drives
    /\ panes \subseteq DOMAIN sessions
    /\ \E n \in 0..Cardinality(DOMAIN jobs) : DOMAIN jobs = 1..n

\* A job that is at work, or done.
AJob ==
    [kind : {"clone", "write", "initialise"} \cup Filed, from : Images \cup Nat \cup {None},
     to : Drives \cup {None}, every : BOOLEAN, at : AtWork \cup {"done"},
     extents : SUBSET Blocks, left : SUBSET Blocks, source : [Blocks -> Nat] \cup {None},
     file : [Blocks -> Nat] \cup {None}, alone : BOOLEAN]

\* What it was asked.
WellAsked(job) ==
    /\ job.from \in Images \cup DOMAIN sessions \cup {None}
    /\ job.kind = "initialise" <=> job.from = None
    /\ job.kind \in Filed <=> job.to = None

\* One that reads a drive or an image, and is alone there, has read what is there,
\* and does not write to it.
ReadsTheSource(job) ==
    /\ job.source \in [Blocks -> Nat] /\ job.file \in [Blocks -> Nat]
    /\ job.from # None => On(job.from) # job.to
    /\ job.from # None /\ job.alone => job.source = disk[On(job.from)]

\* What has been written to the file, and what has been compared.
HasWritten(job) ==
    /\ job.at = "write" /\ job.kind \in Filed /\ job.alone =>
        \A b \in Blocks \ job.left : job.file[b] = job.source[b]
    /\ job.at = "verify" /\ job.alone =>
        \A b \in job.extents \ job.left : disk[job.to][b] = job.source[b]

DoneTrue(job) ==
    job.alone =>
        /\ job.kind \in Filed => job.file = job.source
        /\ job.kind \in {"clone", "write"} =>
            \A b \in job.extents : disk[job.to][b] = job.source[b]

\* What holds of a job, wherever it is.
JobOK(job) ==
    /\ job.at \in AtWork \cup {"failed", "refused", "done"}
    /\ job.at \in AtWork \cup {"done"} => job \in AJob /\ WellAsked(job)
    /\ job.at \in {"write", "verify"} => ReadsTheSource(job) /\ HasWritten(job)
    /\ job.at = "verify" => job.kind \in {"clone", "write"}
    /\ job.at = "done" => DoneTrue(job)

JobsInv == \A j \in DOMAIN jobs : JobOK(jobs[j])

=============================================================================
