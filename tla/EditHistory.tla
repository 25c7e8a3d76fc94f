---------------------------- MODULE EditHistory ----------------------------
(***************************************************************************)
(* What the undo history of one image promises to its user.  A request     *)
(* that changes the image happens as a whole and leaves one undo point, or *)
(* does not happen.  The image goes back only to a state that was recorded, *)
(* and only when an undo or a restore is asked for.                        *)
(*                                                                         *)
(* A recorded state p has its content, p.image, and the moment it was      *)
(* recorded, p.created.                                                    *)
(***************************************************************************)
EXTENDS Naturals, FiniteSets

CONSTANTS
    Changes,    \* what an image may hold
    Limit       \* how many undo points a finished request leaves

VARIABLES
    image,      \* the changes the image holds
    undo,       \* the states an undo steps back through
    named,      \* the states kept under a name
    attached    \* a machine has the image

vars == <<image, undo, named, attached>>

Recorded == {p.image : p \in undo \cup named}

Newest(P, n) ==
    {p \in P : Cardinality({q \in P : q.created > p.created}) < n}

Last(P) == {p \in P : \A q \in P : q.created <= p.created}

(* p records the image as it is, after every state of P. *)
Records(p, P) ==
    /\ p.image = image
    /\ \A q \in P : q.created < p.created

Init == image = {} /\ undo = {} /\ named = {} /\ attached = FALSE

(* A request changed the image, or wrote it without changing it. *)
Commit(c) ==
    /\ image \subseteq c
    /\ image' = c
    /\ \E p \in undo' :
        Records(p, undo) /\ undo' = Newest(undo \cup {p}, Limit)
    /\ UNCHANGED <<named, attached>>

(* A request was cut short.  What it wrote stays, and can be undone. *)
CutShort(c) ==
    /\ image \subseteq c
    /\ image' = c
    /\ \E p \in undo' : Records(p, undo) /\ undo' = undo \cup {p}
    /\ attached' \in BOOLEAN
    /\ UNCHANGED named

Undo ==
    /\ \E p \in Last(undo) : image' = p.image /\ undo' = undo \ {p}
    /\ attached' \in BOOLEAN
    /\ UNCHANGED named

(* An undo was cut short after the image went back. *)
UndoCutShort ==
    /\ \E p \in Last(undo) : image' = p.image
    /\ attached' = FALSE
    /\ UNCHANGED <<undo, named>>

(* Restoring keeps the state that is replaced as a new undo point. *)
Restore(c) ==
    /\ c \in Recorded
    /\ image' = c
    /\ \E p \in undo' : Records(p, undo) /\ undo' = undo \cup {p}
    /\ attached' \in BOOLEAN
    /\ UNCHANGED named

Name ==
    /\ \E p \in named' : Records(p, named) /\ named' = named \cup {p}
    /\ UNCHANGED <<image, undo, attached>>

Forget ==
    /\ \/ (\E p \in undo : undo' = undo \ {p}) /\ UNCHANGED named
       \/ (\E p \in named : named' = named \ {p}) /\ UNCHANGED undo
    /\ UNCHANGED <<image, attached>>

Attach ==
    /\ attached' \in BOOLEAN
    /\ UNCHANGED <<image, undo, named>>

(* Only a machine that has the image changes it outside a request. *)
MachineWrites(c) ==
    /\ attached
    /\ image \subseteq c
    /\ image' = c
    /\ UNCHANGED <<undo, named, attached>>

Next ==
    \/ \E c \in SUBSET Changes :
        Commit(c) \/ CutShort(c) \/ Restore(c) \/ MachineWrites(c)
    \/ Undo \/ UndoCutShort \/ Name \/ Forget \/ Attach

Spec == Init /\ [][Next]_vars

=============================================================================
