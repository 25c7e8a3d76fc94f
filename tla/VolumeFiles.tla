----------------------------- MODULE VolumeFiles -----------------------------
(***************************************************************************)
(* A mounted volume as the application sees it through AmigaDOSMount: a    *)
(* function from paths to objects, and what one call of the mount changes. *)
(* VolumeTree.tla says the same of the volume as a state machine, and      *)
(* AmigaVolume, PFS3Volume and SFSVolume show that the three filing        *)
(* systems keep it; here the calls are the steps of larger requests.       *)
(***************************************************************************)
EXTENDS Integers, FiniteSets, Sequences, SequencesExt, Functions

Drawer == [type |-> "drawer", data |-> 0]
File(data) == [type |-> "file", data |-> data]

Exists(t, path) == path \in DOMAIN t \cup {<<>>}
IsDrawer(t, path) ==
    path = <<>> \/ (path \in DOMAIN t /\ t[path].type = "drawer")
IsFile(t, path) == path \in DOMAIN t /\ t[path].type = "file"

\* An object and all that is in it.
Below(t, path) == {q \in DOMAIN t : IsPrefix(path, q)}

Files(t) == {q \in DOMAIN t : t[q].type = "file"}

Without(t, gone) == Restrict(t, DOMAIN t \ gone)
With(t, path, object) ==
    [q \in DOMAIN t \cup {path} |-> IF q = path THEN object ELSE t[q]]
LaidOver(new, old) ==
    [q \in DOMAIN new \cup DOMAIN old |-> IF q \in DOMAIN new THEN new[q] ELSE old[q]]

\* The drawers above a path, and what of a path is not there yet.
Above(path) == {SubSeq(path, 1, n) : n \in 1 .. Len(path) - 1}
Missing(t, path) == (Above(path) \cup {path}) \ (DOMAIN t \cup {<<>>})

\* A path after the object at "from" went to "to".
Moved(path, from, to) ==
    IF IsPrefix(from, path) THEN to \o SubSeq(path, Len(from) + 1, Len(path)) ELSE path

Renamed(t, from, to) ==
    LET kept == DOMAIN t \ Below(t, from) IN
    [q \in kept \cup {Moved(p, from, to) : p \in Below(t, from)} |->
        IF q \in kept THEN t[q] ELSE t[Moved(q, to, from)]]

-----------------------------------------------------------------------------
(* One call of the mount, as a record, and whether the volume accepts it.   *)

Renaming(from, to) == [op |-> "rename", path |-> from, to |-> to, data |-> 0]
Removing(path) == [op |-> "remove", path |-> path, to |-> <<>>, data |-> 0]
Discarding(path) == [op |-> "discard", path |-> path, to |-> <<>>, data |-> 0]
MakingDrawer(path) == [op |-> "drawer", path |-> path, to |-> <<>>, data |-> 0]
Writing(path, data) == [op |-> "write", path |-> path, to |-> <<>>, data |-> data]
Creating(path, data) == [op |-> "create", path |-> path, to |-> <<>>, data |-> data]

\* The volume is full at room objects.  A drawer is made with the chain above
\* it; only "create" refuses a path that is taken, and "discard" does not
\* mind one that is not there.
Accepts(t, call, room) ==
    LET path == call.path IN
    \/ /\ call.op = "rename"
       /\ path \in DOMAIN t
       /\ IsDrawer(t, Front(call.to))
       /\ ~IsPrefix(path, Front(call.to))
       /\ Exists(t, call.to) => call.to = path
    \/ /\ call.op = "remove"
       /\ Below(t, path) = {path}
    \/ /\ call.op = "discard"
       /\ Below(t, path) \subseteq {path}
    \/ /\ call.op = "drawer"
       /\ \A n \in 1 .. Len(path) : ~IsFile(t, SubSeq(path, 1, n))
       /\ Cardinality(DOMAIN t \cup Missing(t, path)) <= room
    \/ /\ call.op \in {"write", "create"}
       /\ path # <<>>
       /\ IsDrawer(t, Front(path))
       /\ IF call.op = "create" THEN ~Exists(t, path) ELSE Below(t, path) \subseteq {path}
       /\ Cardinality(DOMAIN t \cup {path}) <= room

After(t, call) ==
    CASE call.op = "rename" -> Renamed(t, call.path, call.to)
      [] call.op \in {"remove", "discard"} -> Without(t, {call.path})
      [] call.op = "drawer" ->
            [q \in DOMAIN t \cup Missing(t, call.path) |->
                IF q \in DOMAIN t THEN t[q] ELSE Drawer]
      [] OTHER -> With(t, call.path, File(call.data))
=============================================================================
