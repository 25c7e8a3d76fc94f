------------------------------ MODULE MCWorkspace -----------------------------
(* The browser client: its panes and clipboard, the source editor or the hex *)
(* editor.  No step is of two of them, and a behaviour is of one.            *)
EXTENDS Panes, Editor, HexEditor

VARIABLE part

InitWorkspace ==
    /\ part \in {"panes", "editor", "hex"}
    /\ PanesInit
    /\ EditorInit
    /\ HexInit

NextWorkspace ==
    /\ UNCHANGED part
    /\ \/ part = "panes" /\ PanesNext /\ UNCHANGED <<editorVars, hexVars>>
       \/ part = "editor" /\ EditorNext /\ UNCHANGED <<paneVars, hexVars>>
       \/ part = "hex" /\ HexNext /\ UNCHANGED <<paneVars, editorVars>>

SpecWorkspace == InitWorkspace /\ [][NextWorkspace]_<<part, paneVars, editorVars, hexVars>>
===============================================================================
