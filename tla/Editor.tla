-------------------------------- MODULE Editor --------------------------------
(***************************************************************************)
(* The source editor of the browser client (app.js) and the part of the    *)
(* server that saves its text (file_editor.py).  There is one dialog; the  *)
(* documents are what it remembers of every file it was opened for.  A     *)
(* document is named by the position of its pane and its file, and panes   *)
(* move up when one before them is closed.  A text is the nth one that was *)
(* written for a file.                                                     *)
(***************************************************************************)
EXTENDS Integers, Sequences, SequencesExt

CONSTANTS
    Files,      \* the files of the image "disk"
    MaxTexts,   \* texts typed or written by others in a behaviour
    MaxAsked    \* inspections in a behaviour

VARIABLES
    file,       \* file -> the text the image holds
    panes,      \* the image each pane shows
    documents,  \* editorDocuments: key -> what is remembered of it
    active,     \* editorWorkspace.state.active, or None
    open,       \* the dialog is open
    content,    \* what is in the dialog, open or not
    asked,      \* the inspections that were not answered yet
    typed,      \* key -> the last text typed for it and not given up
    strayed,    \* an editor came up, or stayed, that is not the active document's
    texts,      \* counts the texts up to MaxTexts
    inspections \* counts the inspections up to MaxAsked

editorVars == <<file, panes, documents, active, open, content, asked, typed, strayed,
                texts, inspections>>

Absent == [none |-> TRUE]
Empty == [is |-> "empty"]
Reading == [is |-> "loading"]

Key(k, f) == [pane |-> k, file |-> f]
Text(f, n) == [of |-> f, n |-> n]

\* The editor of a file: its textarea, dataset.savedValue and report.sha256.
Sheet(key, value, saved, read) ==
    [is |-> "editor", key |-> key, value |-> value, saved |-> saved, sha |-> read]

\* Pane k has the image of the files.
Shows(k) == k \in DOMAIN panes /\ panes[k] = "disk"

IsEditor == content.is = "editor"
Editing == open /\ IsEditor
Dirty == content.value # content.saved

EditorInit ==
    /\ file = [f \in Files |-> Text(f, 0)]
    /\ panes = <<"other", "disk">>
    /\ documents = [k \in {} |-> Absent]
    /\ active = Absent
    /\ open = FALSE
    /\ content = Empty
    /\ asked = {}
    /\ typed = [k \in {} |-> Absent]
    /\ strayed = FALSE
    /\ texts = 0
    /\ inspections = 0

-----------------------------------------------------------------------------
(* The documents.                                                          *)

\* captureActiveEditorDocument(): what the textarea holds becomes the draft of
\* whichever document is the active one.
Captured ==
    IF active \in DOMAIN documents /\ IsEditor
    THEN [documents EXCEPT ![active] = [draft |-> content.value, saved |-> content.saved]]
    ELSE documents

Put(docs, key, document) ==
    [x \in DOMAIN docs \union {key} |-> IF x = key THEN document ELSE docs[x]]

Without(docs, keys) == [x \in DOMAIN docs \ keys |-> docs[x]]

\* retainEditorDocument(): the document that was active first gets its draft.
Retained(key) ==
    IF key \in DOMAIN Captured THEN Captured
    ELSE Put(Captured, key, [draft |-> Absent, saved |-> Absent])

\* openFileEditor(), up to the answer of the server.
AskInspection(key, docs) ==
    /\ inspections < MaxAsked
    /\ inspections' = inspections + 1
    /\ documents' = docs
    /\ active' = key
    /\ open' = TRUE
    /\ content' = Reading
    /\ asked' = asked \union {[key |-> key, n |-> inspections]}

\* A file of a pane is opened, from the pane or from the editor of another.
OpenFileEditor(k, f) ==
    /\ Shows(k)
    /\ open => IsEditor /\ (content.key.pane = k \/ Key(k, f) \in DOMAIN documents)
    /\ AskInspection(Key(k, f), Retained(Key(k, f)))
    /\ UNCHANGED <<file, panes, typed, strayed, texts>>

\* activateEditorDocument() of a tab whose pane shows another image by now.
ForgetLost(key) ==
    /\ Editing /\ key \in DOMAIN documents /\ key # active
    /\ ~Shows(key.pane)
    /\ documents' = Without(Captured, {key})
    /\ typed' = Without(typed, {key})
    /\ UNCHANGED <<file, panes, active, open, content, asked, strayed, texts, inspections>>

\* inspect_editable_file(): the text of a file and its hash.
Inspection(f) == file[f]

\* The rest of openFileEditor(): whatever dialog is open gives way to the
\* editor, which shows the draft of the active document if it has one.
Inspected(q) ==
    LET now == Inspection(q.key.file)
        kept == IF active \in DOMAIN documents THEN documents[active].draft ELSE Absent
    IN  /\ q \in asked
        /\ asked' = asked \ {q}
        /\ IF ~open THEN UNCHANGED <<content, strayed>>
           ELSE /\ content' = IF kept = Absent THEN Sheet(q.key, now, now, now)
                              ELSE Sheet(q.key, kept, documents[active].saved, now)
                /\ strayed' = (strayed \/ q.key # active \/ IsEditor)
        /\ UNCHANGED <<file, panes, documents, active, open, typed, texts, inspections>>

\* The file has gone: a message, and the dialog is closed.
InspectFails(q) ==
    /\ q \in asked
    /\ asked' = asked \ {q}
    /\ open' = FALSE
    /\ UNCHANGED <<file, panes, documents, active, content, typed, strayed, texts, inspections>>

-----------------------------------------------------------------------------
(* The dialog.                                                             *)

TypeText ==
    /\ Editing /\ texts < MaxTexts
    /\ texts' = texts + 1
    /\ LET text == Text(content.key.file, texts + 1)
       IN  /\ content' = [content EXCEPT !.value = text]
           /\ typed' = Put(typed, content.key, text)
    /\ UNCHANGED <<file, panes, documents, active, open, asked, strayed, inspections>>

\* The timer of the textarea, a quarter of a second after it changed.
Timer ==
    /\ IsEditor
    /\ documents' = Captured
    /\ UNCHANGED <<file, panes, active, open, content, asked, typed, strayed, texts, inspections>>

\* replace_file_bytes() compares the file with what the editor was given.
Accepts(sha, now) == sha = now

\* save_editor_text() and the answer to it.  A file that changed is refused and
\* the editor is left as it was.
SaveText ==
    LET f == content.key.file IN
    /\ Editing /\ Dirty
    /\ Accepts(content.sha, file[f])
    /\ file' = [file EXCEPT ![f] = content.value]
    /\ content' = [content EXCEPT !.saved = content.value, !.sha = content.value]
    /\ UNCHANGED <<panes, documents, active, open, asked, typed, strayed, texts, inspections>>

\* installEditorCloseGuard(): what was not saved is given up if the user says
\* so, and the dialog is closed with its textarea still in it.
CloseEditor ==
    /\ Editing
    /\ open' = FALSE
    /\ content' = [content EXCEPT !.value = content.saved]
    /\ documents' = IF Dirty /\ active \in DOMAIN documents
                    THEN [documents EXCEPT ![active] =
                            [draft |-> content.saved, saved |-> content.saved]]
                    ELSE documents
    /\ typed' = IF Dirty THEN Without(typed, {content.key}) ELSE typed
    /\ UNCHANGED <<file, panes, active, asked, strayed, texts, inspections>>

\* The dialog is closed while its file is being read.
CloseLoading ==
    /\ open /\ content = Reading
    /\ open' = FALSE
    /\ UNCHANGED <<file, panes, documents, active, content, asked, typed, strayed, texts,
                   inspections>>

\* The cross of a tab, with the user's consent when it is dirty.  The tab that
\* was shown gives way to another, to nothing if it was the last, and stays on
\* the screen if the image of the other has gone.
CloseTab(key) ==
    LET rest == Without(Captured, {key}) IN
    /\ Editing /\ key \in DOMAIN documents
    /\ typed' = Without(typed, {key})
    /\ UNCHANGED <<file, panes, texts>>
    /\ \/ /\ key # active
          /\ documents' = rest
          /\ UNCHANGED <<active, open, content, asked, strayed, inspections>>
       \/ /\ key = active /\ DOMAIN rest = {}
          /\ documents' = rest /\ active' = Absent /\ open' = FALSE
          /\ UNCHANGED <<content, asked, strayed, inspections>>
       \/ /\ key = active
          /\ \E next \in DOMAIN rest : Shows(next.pane) /\ AskInspection(next, rest)
          /\ UNCHANGED strayed
       \/ /\ key = active
          /\ \E next \in DOMAIN rest : ~Shows(next.pane) /\ documents' = Without(rest, {next})
          /\ active' = Absent /\ strayed' = TRUE
          /\ UNCHANGED <<open, content, asked, inspections>>

-----------------------------------------------------------------------------
(* The panes and the page.                                                 *)

\* Mutant: the documents keep the position their pane had.
Unmoved(key, k) == key

\* removePane() gives the documents of the panes behind it their new position.
Moved(key, k) == IF key.pane > k THEN [key EXCEPT !.pane = key.pane - 1] ELSE key

\* docs, of which those of pane k go and those behind it move up.
Renumbered(docs, k) ==
    LET stay == {key \in DOMAIN docs : key.pane # k}
    IN  [new \in {Moved(key, k) : key \in stay} |->
            docs[CHOOSE key \in stay : Moved(key, k) = new]]

\* What was typed for the panes that are left, each of which is the same or the
\* next of those there were.
TypedWithout(k) ==
    LET Was(key) == IF key.pane < k THEN key ELSE [key EXCEPT !.pane = key.pane + 1]
        left == {Key(p, f) : p \in 1..(Len(panes) - 1), f \in Files}
    IN  [key \in {x \in left : Was(x) \in DOMAIN typed} |-> typed[Was(key)]]

\* closePane() of a pane that has nothing to save.  Where a dialog of its own
\* comes first, the timer has fired and the textarea is replaced.  An answer to
\* the pane finds it where it is by then, or gone.
RemovePane(k) ==
    /\ ~open /\ Len(panes) > 1
    /\ \/ content' = content
       \/ content' = Empty /\ Captured = documents
    /\ panes' = RemoveAt(panes, k)
    /\ documents' = Renumbered(Captured, k)
    /\ active' = IF active = Absent \/ active.pane = k THEN Absent ELSE Moved(active, k)
    /\ asked' = {[q EXCEPT !.key = IF @.pane = k THEN [@ EXCEPT !.pane = 0] ELSE Moved(@, k)]
                    : q \in asked}
    /\ typed' = TypedWithout(k)
    /\ UNCHANGED <<file, open, strayed, texts, inspections>>

\* acceptImage(): another image is opened in a pane, whose documents stay.
OtherImage(k, image) ==
    /\ ~open /\ panes[k] # image
    /\ panes' = [panes EXCEPT ![k] = image]
    /\ UNCHANGED <<file, documents, active, open, content, asked, typed, strayed, texts,
                   inspections>>

\* The page is loaded again: the documents come from the session's storage and
\* the active one is opened by restore() once its pane has its image.
Reload ==
    LET docs == Captured IN
    /\ UNCHANGED <<file, panes, strayed, texts>>
    /\ IF active \in DOMAIN docs /\ Shows(active.pane)
       THEN /\ inspections < MaxAsked
            /\ inspections' = inspections + 1
            /\ documents' = docs /\ active' = active
            /\ open' = TRUE /\ content' = Reading
            /\ asked' = {[key |-> active, n |-> inspections]}
            /\ UNCHANGED typed
       ELSE /\ documents' = Without(docs, {active}) /\ typed' = Without(typed, {active})
            /\ active' = Absent /\ open' = FALSE /\ content' = Empty /\ asked' = {}
            /\ UNCHANGED inspections

\* The file is changed by another operation of the workspace.
FileChanges(f) ==
    /\ texts < MaxTexts
    /\ texts' = texts + 1
    /\ file' = [file EXCEPT ![f] = Text(f, texts')]
    /\ UNCHANGED <<panes, documents, active, open, content, asked, typed, strayed, inspections>>

EditorNext ==
    \/ \E k \in DOMAIN panes, f \in Files : OpenFileEditor(k, f)
    \/ \E key \in DOMAIN documents : ForgetLost(key) \/ CloseTab(key)
    \/ \E q \in asked : Inspected(q) \/ InspectFails(q)
    \/ TypeText \/ Timer \/ SaveText \/ CloseEditor \/ CloseLoading \/ Reload
    \/ \E k \in DOMAIN panes :
          RemovePane(k) \/ (\E image \in {"disk", "other"} : OtherImage(k, image))
    \/ \E f \in Files : FileChanges(f)

EditorSpec == EditorInit /\ [][EditorNext]_editorVars

-----------------------------------------------------------------------------
(* What the editor promises.                                               *)

\* What was typed for a file and neither given up nor lost with its pane is in
\* the editor of that file or in the draft of its document, whatever tabs are
\* changed, panes closed and pages loaded again meanwhile: "Each tab retains
\* its unsaved draft" (docs/FILE-EDITOR-GUIDE.md:264).  Where an editor came up
\* under the name of another document, which takes a dialog that was closed
\* before its answer came, nothing is claimed.
TypedIsKept ==
    strayed \/ \A key \in DOMAIN typed :
        \/ IsEditor /\ content.key = key /\ content.value = typed[key]
        \/ key \in DOMAIN documents /\ documents[key].draft = typed[key]

\* "The stale-file check prevents one editor from silently replacing a newer
\* change made elsewhere in the workspace" (docs/FILE-EDITOR-GUIDE.md:24): a
\* save replaces the text its editor calls the saved one.
StaleCheckHolds ==
    [][SaveText => content.saved = file[content.key.file]]_editorVars

-----------------------------------------------------------------------------
(* The invariant behind TypedIsKept, where nothing strayed.                *)

Keys == [pane : Nat, file : Files]

EditorOK ==
    /\ panes \in Seq({"disk", "other"})
    /\ DOMAIN documents \subseteq Keys /\ DOMAIN typed \subseteq Keys
    /\ asked \subseteq [key : Keys, n : Nat] /\ inspections \in Nat
    /\ active # Absent => active \in DOMAIN documents
    /\ IsEditor => /\ content.key \in Keys
                   /\ content = Sheet(content.key, content.value, content.saved, content.sha)
    /\ \A key \in DOMAIN typed : typed[key] # Absent

\* An editor on the screen is the active document's, and one that is there, on the
\* screen or not, holds what was typed for that document: to capture it is right.
EditorIsActive ==
    /\ Editing => active = content.key
    /\ IsEditor /\ active \in DOMAIN typed => content.value = typed[active]

\* What was typed for another is in its draft.
DraftsAreKept ==
    \A key \in DOMAIN typed :
        \/ IsEditor /\ key = active /\ key = content.key
        \/ key \in DOMAIN documents /\ documents[key].draft = typed[key]

TypedInv == strayed \/ (EditorOK /\ EditorIsActive /\ DraftsAreKept)
===============================================================================
