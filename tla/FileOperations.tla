--------------------------- MODULE FileOperations ---------------------------
(***************************************************************************)
(* The requests that change the files of an image or of a partition:       *)
(* routes/files.py, ffs_items.py and the file operations of                *)
(* disk_service.py.  A request names its partition, checks itself against  *)
(* the mounted volume, and is then a set of calls of the mount, each with  *)
(* its turn, any of which can be refused or meet a device that fails.  An  *)
(* image goes back to its undo point then; a drive opened in place has     *)
(* none.                                                                   *)
(***************************************************************************)
EXTENDS VolumeFiles

CONSTANTS
    Kinds,          \* "image" one volume, "drive" an image of a partitioned
                    \* drive, "attached" a partitioned drive opened in place
    Names,          \* the names an object can have
    Trees,          \* what a volume can hold when it is opened
    Folders,        \* the folders of the host, each the paths of its files
    Disc,           \* the volume of the other image, for an extraction
    Room,           \* the objects a volume has room for
    MaxRequests,    \* requests in a behaviour
    MaxFaults       \* device faults in a behaviour

\* A drawer has no data.
IsObject(o) ==
    /\ o \in [type : {"drawer", "file"}, data : Nat]
    /\ o.type = "drawer" => o = Drawer

\* Every object of a volume has a path of names and lies in a drawer.
IsTree(t) ==
    /\ IsFiniteSet(DOMAIN t) /\ DOMAIN t \subseteq Seq(Names) \ {<<>>}
    /\ t = [q \in DOMAIN t |-> t[q]] /\ \A q \in DOMAIN t : IsObject(t[q])
    /\ \A q \in DOMAIN t : \A n \in 1 .. Len(q) - 1 : IsDrawer(t, SubSeq(q, 1, n))

ASSUME KindsAssumption == Kinds \subseteq {"image", "drive", "attached"}
ASSUME TreesAssumption == IsTree(Disc) /\ \A t \in Trees : IsTree(t)
\* No file of a folder lies in a file of it.
ASSUME FoldersAssumption ==
    /\ Folders \subseteq Seq(Seq(Names) \ {<<>>})
    /\ \A f \in Folders : \A i, j \in DOMAIN f : IsPrefix(f[i], f[j]) => f[i] = f[j]

VARIABLES
    kind,       \* what is open
    volumes,    \* partition -> tree
    selected,   \* the partition selected in the session, of all its panes
    notes,      \* editor_projects: path -> what was noted of the file there
    names,      \* ffs_source_names: the drawers that name their disc
    request,    \* the request at work, None between requests
    work,       \* the calls left of it, Unopened before the mount is opened
    at,         \* the partition its mount was opened on
    start,      \* volumes, notes and names when the request came
    requests,   \* counts requests up to MaxRequests
    faults      \* counts faults up to MaxFaults

vars == <<kind, volumes, selected, notes, names, request, work, at, start,
          requests, faults>>

None == [op |-> "none"]
Nowhere == [volumes |-> <<>>, notes |-> <<>>, names |-> {}]
Unopened == {None}

Partitions == DOMAIN volumes
Bracketed == kind # "attached"

Paths == UNION {[1..n -> Names] : n \in 1..2}

\* A file's data tells which request wrote it.
Fresh == 10 + requests

Drawers(t) == {<<>>} \cup (DOMAIN t \ Files(t))

\* One object, or two of them in the order they were picked.
Selections(t) ==
    {<<p>> : p \in DOMAIN t} \cup {<<p, q>> : p, q \in DOMAIN t}

-----------------------------------------------------------------------------
(* The requests.                                                           *)

Ask(op, part, from, to) ==
    [op |-> op, part |-> part, from |-> from, to |-> to, flag |-> FALSE,
     source |-> part, data |-> Fresh]

\* What is picked is on the screen.  The browser renames in place; what is
\* dragged keeps its name and goes into a drawer.  A copy can come from
\* another partition of the drive, and a whole disc out of another image.
Requests(part) ==
    LET t == volumes[part] IN
    {Ask("delete", part, s, <<>>) : s \in {x \in Selections(t) : IsInjective(x)}}
    \cup {Ask(op, part, <<>>, p) : op \in {"mkdir", "put"}, p \in Paths}
    \cup {[Ask("import", part, folder, d) EXCEPT !.flag = replace] :
            folder \in Folders, d \in Drawers(t), replace \in BOOLEAN}
    \cup {[Ask("rename", part, <<p>>, Append(Front(p), n)) EXCEPT !.flag = overwrite] :
            p \in DOMAIN t, n \in Names, overwrite \in {FALSE, kind # "image"}}
    \cup {Ask("annotate", part, <<p>>, <<>>) : p \in Files(t)}
    \cup (UNION {{[Ask("copy", part, <<p>>, q) EXCEPT !.source = source] :
            p \in DOMAIN volumes[source], q \in Paths} : source \in Partitions})
    \cup (IF kind # "image" THEN {}
          ELSE {Ask("move", part, s, d) : s \in Selections(t), d \in Drawers(t)}
               \cup {Ask("extract", part, <<>>, p) : p \in Paths})

\* Where each object of a move or a rename goes; one that stays is left out.
Destination(r, p) == IF r.op = "move" THEN Append(r.to, Last(p)) ELSE r.to

MovesOf(r) ==
    {[turn |-> i, from |-> r.from[i], to |-> Destination(r, r.from[i])] :
        i \in {j \in DOMAIN r.from : Destination(r, r.from[j]) # r.from[j]}}

\* Mutant: a selected drawer lies below itself, and is left out.
TargetsBelowThemselves(t, r) ==
    {i \in DOMAIN r.from : ~\E d \in Range(r.from) : IsDrawer(t, d) /\ IsPrefix(d, r.from[i])}

\* A selected drawer stands for what is selected below it.
Targets(t, r) ==
    {i \in DOMAIN r.from :
        ~\E d \in Range(r.from) \ {r.from[i]} : IsDrawer(t, d) /\ IsPrefix(d, r.from[i])}

\* Where the files of a put land.
Landing(r) == IF r.op = "put" THEN {r.to} ELSE {r.to \o p : p \in Range(r.from)}

\* The drawers a folder import has to have.
Chain(r) ==
    UNION {{r.to \o SubSeq(p, 1, n) : n \in 1 .. Len(p) - 1} : p \in Range(r.from)}

\* A copy onto a drawer goes into it.
Base(t, r) == IF IsDrawer(t, r.to) THEN Append(r.to, Last(r.from[1])) ELSE r.to

Original(all, r) == IF r.op = "extract" THEN Disc ELSE all[r.source]

\* What is copied of it, and where in t each object lands.
Copied(from, t, r) ==
    IF r.op = "extract" THEN [q \in DOMAIN from |-> r.to \o q]
    ELSE LET p == r.from[1] IN [q \in Below(from, p) |-> Moved(q, p, Base(t, r))]

-----------------------------------------------------------------------------
(* What a request checks before it changes anything, and its calls.        *)

MoveAllowed(t, r) ==
    \A m \in MovesOf(r) :
        /\ Exists(t, m.from)
        /\ ~(IsDrawer(t, m.from) /\ IsPrefix(m.from, m.to))
        /\ \A n \in MovesOf(r) \ {m} : n.to # m.to
        /\ ~Exists(t, m.to)
        /\ IsDrawer(t, Front(m.to))

\* Mutant: whether it may be overwritten is not asked.
RenameAllowedAnyway(t, r) == Exists(t, r.from[1])

\* A rename on a partition: what is there goes only if that was asked.
RenameAllowed(t, r) == Exists(t, r.to) => r.flag \/ r.to = r.from[1]

CopyAllowed(from, t, r) ==
    LET copied == Copied(from, t, r) IN
    /\ r.op = "copy" => Exists(from, r.from[1])
    /\ \A q \in DOMAIN copied : IsFile(from, q) => ~Exists(t, copied[q])
    /\ Cardinality(DOMAIN t) + Cardinality(DOMAIN copied) <= Room

\* _extract_image_to_ffs_directory() makes a drawer of its own for the disc.
ExtractAllowed(t, r) ==
    /\ ~Exists(t, r.to)
    /\ IsDrawer(t, Front(r.to))
    /\ CopyAllowed(Disc, t, r)

Allowed(t, r) ==
    CASE r.op \in {"move", "rename"} /\ kind = "image" -> MoveAllowed(t, r)
      [] r.op = "rename" /\ kind # "image" ->
            RenameAllowed(t, r)
      [] r.op = "delete" /\ kind = "image" -> \A p \in Range(r.from) : Exists(t, p)
      [] r.op = "mkdir" -> ~Exists(t, r.to)
      [] r.op = "import" ->
            /\ \A d \in Chain(r) : ~IsFile(t, d)
            /\ \A p \in Landing(r) : ~IsDrawer(t, p)
            /\ Cardinality(Landing(r)) = Len(r.from)
      [] r.op = "copy" -> CopyAllowed(Original(volumes, r), t, r)
      [] r.op = "extract" -> ExtractAllowed(t, r)
      [] OTHER -> TRUE

\* A call and when it is made: at its turn, and within a turn at its step.
\* What is in a drawer goes before the drawer, and drawers are made before
\* those in them; beside one another they go in any order.
Turn(turn, step, call) == [turn |-> turn, step |-> step, call |-> call]

Sooner(c, d) == c.turn < d.turn \/ (c.turn = d.turn /\ c.step < d.step)

Drawered(paths) == {Turn(0, Len(p), MakingDrawer(p)) : p \in paths}

\* What is removed below each path, innermost first: on a partition it may be
\* gone already (--force), in an image it may not.
Discards(t, paths) ==
    UNION {{Turn(i, 0 - Len(p), Discarding(p)) : p \in Below(t, paths[i])} : i \in DOMAIN paths}

Removals(t, r) ==
    UNION {{Turn(i, 0 - Len(p), Removing(p)) : p \in Below(t, r.from[i])} : i \in Targets(t, r)}

\* Drawers first, from the top; then the files in the order the source has
\* them stored, each read when its turn comes.
CopyCalls(from, t, r) ==
    LET copied == Copied(from, t, r)
        drawers == {q \in DOMAIN copied : IsDrawer(from, q)}
        files == SetToSeq(DOMAIN copied \ drawers)
    IN  Drawered({copied[q] : q \in drawers})
        \cup {Turn(i, 1, MakingDrawer(Front(copied[files[i]]))) : i \in DOMAIN files}
        \cup {Turn(i, 2, Creating(copied[files[i]], from[files[i]].data)) : i \in DOMAIN files}

\* _copy_rows_to_ffs(), into the drawer that was made for it.
ExtractCalls(t, r) == Drawered({r.to}) \cup CopyCalls(Disc, t, r)

\* The files that are there are reported and nothing is done, unless they may
\* be replaced.
FolderCalls(t, r) ==
    IF ~r.flag /\ \E p \in Landing(r) : Exists(t, p) THEN {}
    ELSE Drawered(Chain(r))
         \cup {Turn(i, 1, MakingDrawer(Front(r.to \o r.from[i]))) : i \in DOMAIN r.from}
         \cup {Turn(i, 2, Writing(r.to \o r.from[i], r.data)) : i \in DOMAIN r.from}

\* On a partition the object at the destination is removed first.
RenameCalls(t, r) ==
    (IF r.to = r.from[1] \/ r.to \notin DOMAIN t THEN {} ELSE Discards(t, <<r.to>>))
    \cup {Turn(2, 0, Renaming(r.from[1], r.to))}

Calls(t, r) ==
    CASE r.op \in {"move", "rename"} /\ kind = "image" ->
            {Turn(m.turn, 0, Renaming(m.from, m.to)) : m \in MovesOf(r)}
      [] r.op = "rename" /\ kind # "image" -> RenameCalls(t, r)
      [] r.op = "delete" /\ kind = "image" -> Removals(t, r)
      [] r.op = "delete" /\ kind # "image" -> Discards(t, r.from)
      [] r.op = "mkdir" -> {Turn(1, 0, MakingDrawer(r.to))}
      [] r.op = "put" -> {Turn(1, 0, Writing(r.to, r.data))}
      [] r.op = "import" -> FolderCalls(t, r)
      [] r.op = "copy" -> CopyCalls(Original(volumes, r), t, r)
      [] r.op = "extract" -> ExtractCalls(t, r)
      [] OTHER -> {}

-----------------------------------------------------------------------------
(* What is kept about files, by their paths.                               *)

\* Mutant: the shortest path that matches does.
FollowedShortest(path, moves) ==
    LET matching == {m \in moves : IsPrefix(m.from, path)}
        shortest == {m \in matching : \A n \in matching : Len(n.from) >= Len(m.from)}
    IN  IF matching = {} THEN path
        ELSE LET m == CHOOSE m \in shortest : TRUE IN Moved(path, m.from, m.to)

\* move_editor_projects(): the longest path that matches says where it went.
Followed(path, moves) ==
    LET matching == {m \in moves : IsPrefix(m.from, path)}
        longest == {m \in matching : \A n \in matching : Len(n.from) <= Len(m.from)}
    IN  IF matching = {} THEN path
        ELSE LET m == CHOOSE m \in longest : TRUE IN Moved(path, m.from, m.to)

\* What is noted at a path that something else is moved to is replaced.
NotesMoved(moves) ==
    LET leaving == {p \in DOMAIN notes : \E m \in moves : IsPrefix(m.from, p)}
        arriving == [p \in leaving |-> Followed(p, moves)]
    IN  LaidOver([q \in Range(arriving) |-> notes[CHOOSE p \in leaving : arriving[p] = q]],
                 Without(notes, leaving))

\* _rewrite_path(): the first move that matches, in the order they were made.
Rewritten(path, moves) ==
    LET matching == {m \in moves : IsPrefix(m.from, path)}
        first == CHOOSE m \in matching : \A n \in matching : m.turn <= n.turn
    IN  IF matching = {} THEN path ELSE Moved(path, first.from, first.to)

\* delete_editor_projects(): the notes of what was picked and of all below it.
NotesLeft(paths) ==
    Without(notes, {p \in DOMAIN notes : \E d \in Range(paths) : IsPrefix(d, p)})

NotesAfter(r) ==
    CASE r.op \in {"move", "rename"} -> NotesMoved(MovesOf(r))
      [] r.op = "delete" -> NotesLeft(r.from)
      [] r.op = "annotate" -> With(notes, r.from[1], r.data)
      [] OTHER -> notes

\* Only an image of one volume keeps these.
NamesAfter(r) ==
    CASE kind = "image" /\ r.op \in {"move", "rename"} ->
            {Rewritten(p, MovesOf(r)) : p \in names}
      [] kind = "image" /\ r.op = "delete" ->
            {p \in names : ~\E d \in Range(r.from) : IsPrefix(d, p)}
      [] r.op = "extract" -> names \cup {r.to}
      [] OTHER -> names

-----------------------------------------------------------------------------
Init ==
    /\ kind \in Kinds
    /\ volumes \in [IF kind = "image" THEN {0} ELSE {0, 1} -> Trees]
    /\ selected = 0
    /\ notes = [p \in Files(volumes[0]) |-> 0]
    /\ names = {}
    /\ request = None
    /\ work = Unopened
    /\ at = 0
    /\ start = Nowhere
    /\ requests = 0
    /\ faults = 0

\* A request comes, an undo point is taken and the partition it names is
\* selected.
Begin(r) ==
    /\ request = None
    /\ requests < MaxRequests
    /\ request' = r
    /\ selected' = r.part
    /\ start' = [volumes |-> volumes, notes |-> notes, names |-> names]
    /\ requests' = requests + 1
    /\ UNCHANGED <<kind, volumes, notes, names, work, at, faults>>

Over ==
    /\ request' = None
    /\ work' = Unopened
    /\ start' = Nowhere

\* The request ends with an error, and the bracket puts an image back.
PutBack ==
    IF Bracketed THEN volumes' = start.volumes ELSE UNCHANGED volumes

\* The partition that is selected now is mounted, the request is checked
\* against it, and the calls it needs are known.
Open ==
    /\ request # None
    /\ work = Unopened
    /\ Allowed(volumes[selected], request)
    /\ at' = selected
    /\ work' = Calls(volumes[selected], request)
    /\ UNCHANGED <<kind, volumes, selected, notes, names, request, start,
                   requests, faults>>

Turned ==
    /\ request # None
    /\ work = Unopened
    /\ ~Allowed(volumes[selected], request)
    /\ PutBack
    /\ Over
    /\ UNCHANGED <<kind, selected, notes, names, at, requests, faults>>

Working == request # None /\ work \notin {Unopened, {}}

\* The calls whose turn it is.
Due == {c \in work : ~\E d \in work : Sooner(d, c)}

\* The volume makes the next call.
Call ==
    /\ Working
    /\ \E c \in Due :
        /\ Accepts(volumes[at], c.call, Room)
        /\ volumes' = [volumes EXCEPT ![at] = After(@, c.call)]
        /\ work' = work \ {c}
    /\ UNCHANGED <<kind, selected, notes, names, request, at, start,
                   requests, faults>>

\* The volume refuses it.
Refuse ==
    /\ Working
    /\ \E c \in Due : ~Accepts(volumes[at], c.call, Room)
    /\ PutBack
    /\ Over
    /\ UNCHANGED <<kind, selected, notes, names, at, requests, faults>>

\* The device fails under it: what it is about can be gone from the volume by
\* then.
Fault ==
    /\ Working
    /\ faults < MaxFaults
    /\ \E c \in Due :
        /\ Accepts(volumes[at], c.call, Room)
        /\ \E gone \in {{}, IF c.call.op = "drawer" THEN {} ELSE Below(volumes[at], c.call.path)} :
            IF Bracketed THEN volumes' = start.volumes
            ELSE volumes' = [volumes EXCEPT ![at] = Without(@, gone)]
    /\ faults' = faults + 1
    /\ Over
    /\ UNCHANGED <<kind, selected, notes, names, at, requests>>

\* All calls are made; what is kept by path follows.
Finish ==
    /\ request # None
    /\ work = {}
    /\ notes' = NotesAfter(request)
    /\ names' = NamesAfter(request)
    /\ Over
    /\ UNCHANGED <<kind, volumes, selected, at, requests, faults>>

Next ==
    \/ \E part \in Partitions : \E r \in Requests(part) : Begin(r)
    \/ Open
    \/ Turned
    \/ Call
    \/ Refuse
    \/ Fault
    \/ Finish

Spec == Init /\ [][Next]_vars

-----------------------------------------------------------------------------
(* Properties.                                                             *)

\* What a request puts something else in the place of.
Replaced(t, r) ==
    CASE r.op = "rename" /\ r.flag -> Below(t, r.to)
      [] r.op = "put" \/ (r.op = "import" /\ r.flag) -> Landing(r)
      [] OTHER -> {}

\* What a request may take from its volume.
MayGo(t, r) ==
    IF r.op = "delete" THEN UNION {Below(t, p) : p \in Range(r.from)}
    ELSE Replaced(t, r)

\* Where a file is while the moves of a request are being made.
Places(r, p) == {p} \cup {Moved(p, m.from, m.to) : m \in MovesOf(r)}

\* The files of a partition that are neither named nor broken are still there.
FilesStay(part, broke) ==
    LET t == start.volumes[part]
        asked == part = request.part
        stay == Files(t) \ (IF asked THEN MayGo(t, request) \cup broke ELSE {})
    IN  \A p \in stay :
            \E q \in IF asked /\ request.op \in {"move", "rename"} THEN Places(request, p)
                     ELSE {p} :
                IsFile(volumes'[part], q) /\ volumes'[part][q] = t[p]

\* Whatever happens to a request, and as soon as it happens, a file it does
\* not name is on the volume as it was: it did not go with a file beside it,
\* with the half of a failed selection or with the drawer it was copied from,
\* and what a request moves is at the old place or at the new one.  This is
\* about drives opened in place above all, where nothing puts a file back.
OnlyNamedFilesGo ==
    [][request # None =>
        \A part \in Partitions :
            IF faults' = faults THEN FilesStay(part, {})
            ELSE \E c \in Due : FilesStay(part, Below(start.volumes[part], c.call.path))]_vars

Finished == request # None /\ work = {} /\ request' = None

\* What a request makes of the tree it was asked about.
Promised(from, t, r) ==
    CASE r.op \in {"move", "rename"} ->
            LET moves == MovesOf(r)
                old == IF r.flag /\ moves # {} THEN Without(t, Below(t, r.to)) ELSE t
            IN  [q \in {Followed(p, moves) : p \in DOMAIN old} |->
                    old[CHOOSE p \in DOMAIN old : Followed(p, moves) = q]]
      [] r.op = "delete" -> Without(t, UNION {Below(t, p) : p \in Range(r.from)})
      [] r.op = "mkdir" -> LaidOver(t, [p \in Above(r.to) \cup {r.to} |-> Drawer])
      [] r.op = "put" -> With(t, r.to, File(r.data))
      [] r.op = "import" ->
            IF ~r.flag /\ Landing(r) \cap DOMAIN t # {} THEN t
            ELSE LaidOver([p \in Landing(r) |-> File(r.data)],
                          LaidOver([p \in Chain(r) |-> Drawer], t))
      [] r.op = "copy" ->
            LET copied == Copied(from, t, r) IN
            LaidOver([q \in Range(copied) |-> from[CHOOSE p \in DOMAIN copied : copied[p] = q]],
                     LaidOver(t, [p \in Above(Base(t, r)) |-> Drawer]))
      [] r.op = "extract" ->
            [q \in DOMAIN t \cup {r.to} \cup {r.to \o p : p \in DOMAIN Disc} |->
                IF q \in DOMAIN t THEN t[q] ELSE IF q = r.to THEN Drawer
                ELSE Disc[SubSeq(q, Len(r.to) + 1, Len(q))]]
      [] OTHER -> t

\* A request that is answered without an error has done all it was asked, on
\* the volume it named and nowhere else: the selected tree is gone or moved
\* in one piece, and a copy has every object of its original, once.
KeepsItsPromise ==
    [][Finished =>
        volumes = [start.volumes EXCEPT ![request.part] =
                      Promised(Original(start.volumes, request), @, request)]]_vars

\* What is noted of a file stays with it: wherever a request takes the only
\* file with some content, the note is found there afterwards; a file that is
\* deleted takes its notes along, and the name of the disc a drawer came from
\* goes where the notes of that drawer go.
NotesFollow ==
    [][Finished /\ request.op \in {"move", "rename", "delete"} =>
        LET t == start.volumes[at]
            now == volumes[at]
            same(v, file) == {q \in DOMAIN v : v[q] = file}
        IN  /\ \A p \in (DOMAIN start.notes \cap Files(t)) \ Replaced(t, request) :
                  (same(t, t[p]) = {p} /\ t[p].data < 10 + requests) =>
                    \/ \E q \in same(now, t[p]) \cap DOMAIN notes' : notes'[q] = notes[p]
                    \/ same(now, t[p]) = {} /\ p \notin DOMAIN notes'
            /\ kind = "image" /\ request.op # "delete" =>
                  names' = {Followed(p, MovesOf(request)) : p \in names}]_vars
=============================================================================
