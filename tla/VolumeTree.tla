----------------------------- MODULE VolumeTree -----------------------------
(***************************************************************************)
(* What a volume promises: a tree of drawers and files under names, and    *)
(* operations that change exactly what they were asked to change.  The     *)
(* volume interface is AmigaDOSMount in amiganut/filesystem/__init__.py,   *)
(* shared by FFS, SFS and PFS3; AmigaVolume.tla, PFS3Volume.tla and     *)
(* SFSVolume.tla are shown to implement this module.                       *)
(***************************************************************************)
EXTENDS Integers, Sequences, SequencesExt

CONSTANTS
    Names,      \* the names an object can have
    Payloads,   \* what can be written to a file, one value per write
    Removal     \* how a drawer goes with all that is in it: "unlocked" if
                \* nothing there is protected, "pieces" in several steps, what
                \* is in it first, "whole" in one step, protected or not

VARIABLE
    tree        \* the objects: path, type, what a file holds, protected

Drawer(path) == [path |-> path, type |-> "drawer", payload |-> 0, locked |-> FALSE]

File(path, payload) ==
    [path |-> path, type |-> "file", payload |-> payload, locked |-> FALSE]

\* The object at a path, as a set of none or one.
At(path) == {o \in tree : o.path = path}

Drawers == {<<>>} \cup {o.path : o \in {x \in tree : x.type = "drawer"}}

\* An object and all it contains.
Under(path) == {o \in tree : IsPrefix(path, o.path)}

Init == tree = {}

MakeDirectory(parent, name) ==
    /\ At(Append(parent, name)) = {}
    /\ tree' = tree \cup {Drawer(Append(parent, name))}

\* A file is created, or takes the place of a file or of an empty drawer; of
\* a protected one only where a drawer goes whole, which is SFS.
WriteFile(parent, name, payload) ==
    LET path == Append(parent, name) IN
    /\ Under(path) \subseteq {o \in At(path) : o.locked => Removal = "whole"}
    /\ tree' = (tree \ At(path)) \cup {File(path, payload)}

SetProtection(o) ==
    /\ o.type = "file"
    /\ tree' = (tree \ {o}) \cup {[o EXCEPT !.locked = ~@]}

\* An object that is not protected goes with all that is in it.
Delete(o) ==
    /\ ~o.locked
    /\ Removal = "unlocked" => \A x \in Under(o.path) : ~x.locked
    /\ tree' = tree \ Under(o.path)

\* A drawer goes with all that is in it, protected or not, or some of that
\* goes and the rest is left for a later step.
DeleteSome(o) ==
    /\ ~o.locked
    /\ \E gone \in SUBSET Under(o.path) :
        /\ \A x \in gone : Under(x.path) \subseteq gone
        /\ tree' = tree \ gone

\* Moving keeps the object and everything below it, under the new path.
Rename(o, parent, name) ==
    LET to == Append(parent, name) IN
    /\ ~IsPrefix(o.path, parent)
    /\ At(to) \subseteq {o}
    /\ tree' = (tree \ Under(o.path)) \cup
            {[x EXCEPT !.path = to \o SubSeq(@, Len(o.path) + 1, Len(@))] :
                x \in Under(o.path)}

Next ==
    \/ \E parent \in Drawers, name \in Names :
        \/ MakeDirectory(parent, name)
        \/ \E payload \in Payloads : WriteFile(parent, name, payload)
    \/ \E o \in tree :
        \/ SetProtection(o)
        \/ IF Removal = "pieces" THEN DeleteSome(o) ELSE Delete(o)
        \/ \E parent \in Drawers, name \in Names : Rename(o, parent, name)

Spec == Init /\ [][Next]_tree
=============================================================================
