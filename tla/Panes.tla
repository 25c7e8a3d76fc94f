-------------------------------- MODULE Panes ---------------------------------
(***************************************************************************)
(* The panes of the browser client and its clipboard (app.js): directories *)
(* read by requests that are answered in any order, files cut in one pane  *)
(* and pasted in another while panes are navigated, replaced and closed.   *)
(* What the images hold is a set of files, each a name in a place with the *)
(* content it was given; "ffs" is one volume, "hdf" a hard drive.          *)
(***************************************************************************)
EXTENDS Integers, FiniteSets, Sequences, SequencesExt

CONSTANTS
    Places,     \* the directories of an image
    Names,
    MaxLoads,   \* directories asked for in a behaviour
    MaxCuts,    \* times that files are put on the clipboard
    MaxPastes   \* pastes in a behaviour

ASSUME PlacesAssumption == "root" \in Places /\ Names # {} /\ "new" \notin Names

VARIABLES
    disk,       \* what the images hold
    windows,    \* panes: the pane objects, by position
    requests,   \* directories asked for and not answered
    clipboard,  \* workspaceClipboard, or None
    pasting,    \* clipboardMutationInProgress
    pastes,     \* the pastes begun, by number
    cuts,       \* counts what was put on the clipboard, up to MaxCuts
    objects,    \* counts the pane objects
    loads       \* counts the requests up to MaxLoads

paneVars == <<disk, windows, requests, clipboard, pasting, pastes, cuts, objects, loads>>

None == [none |-> TRUE]
Images == {"ffs", "hdf"}

File(image, place, name, content) ==
    [image |-> image, place |-> place, name |-> name, content |-> content]

Path(f) == [image |-> f.image, place |-> f.place, name |-> f.name]
Present == {Path(f) : f \in disk}

\* The names in a directory, as the tree request answers them.
Listing(image, place) ==
    [image |-> image, place |-> place,
     names |-> {f.name : f \in {x \in disk : x.image = image /\ x.place = place}}]

\* newPaneState().
NewPane(id, image, place) ==
    [id |-> id, image |-> image, place |-> place, token |-> 1, loading |-> TRUE,
     rows |-> [Listing(image, place) EXCEPT !.names = {}], told |-> FALSE]

TheFiles ==
    {File("ffs", "root", n, n) : n \in Names}
        \union {File("hdf", "root", CHOOSE n \in Names : TRUE, "taken")}

\* A pane that has read the top of its image.
Loaded(id, image) ==
    [NewPane(id, image, "root") EXCEPT !.loading = FALSE,
        !.rows.names = {f.name : f \in {x \in TheFiles : x.image = image}}]

PanesInit ==
    /\ disk = TheFiles
    /\ windows = <<Loaded(1, "ffs"), Loaded(2, "hdf")>>
    /\ requests = {}
    /\ clipboard = None
    /\ pasting = FALSE
    /\ pastes = <<>>
    /\ cuts = 0
    /\ objects = 2
    /\ loads = 0

-----------------------------------------------------------------------------
(* Directories.                                                            *)

Request(pane) ==
    [id |-> pane.id, token |-> pane.token, image |-> pane.image, place |-> pane.place]

\* The panes of ks ask for the directories they are at.
Asking(shown, ks) ==
    [k \in DOMAIN shown |-> IF k \notin ks THEN shown[k]
        ELSE [shown[k] EXCEPT !.token = @ + 1, !.loading = TRUE, !.told = FALSE]]

\* loadDirectory() of the panes ks, of which shown is what they are by now.
Load(shown, ks) ==
    /\ loads + Cardinality(ks) <= MaxLoads
    /\ loads' = loads + Cardinality(ks)
    /\ windows' = Asking(shown, ks)
    /\ requests' = requests \union {Request(windows'[k]) : k \in ks}

Navigate(k, place) ==
    /\ Load([windows EXCEPT ![k].place = place], {k})
    /\ UNCHANGED <<disk, clipboard, pasting, pastes, cuts, objects>>

\* Mutant: the answer is shown in the pane, wherever it is by now.
WantedByPane(q, pane) == pane.id = q.id

\* The pane is the one that asked, it did not ask again, and it is still there.
Wanted(q, pane) == Request(pane) = q

\* The answer, or an error, which leaves the rows there were and is told.
Answered(q, rows, told) ==
    /\ q \in requests
    /\ requests' = requests \ {q}
    /\ windows' = [k \in DOMAIN windows |-> IF ~Wanted(q, windows[k]) THEN windows[k]
          ELSE [windows[k] EXCEPT !.loading = FALSE, !.told = told,
                                  !.rows = IF told THEN @ ELSE rows]]
    /\ UNCHANGED <<disk, clipboard, pasting, pastes, cuts, objects, loads>>

DirectoryComes(q) == Answered(q, Listing(q.image, q.place), FALSE)
DirectoryFails(q) == Answered(q, None, TRUE)

\* acceptImage(): the position gets a pane object of its own.
AcceptImage(k, image) ==
    /\ ~windows[k].loading
    /\ objects' = objects + 1
    /\ loads < MaxLoads /\ loads' = loads + 1
    /\ windows' = [windows EXCEPT ![k] = NewPane(objects', image, "root")]
    /\ requests' = requests \union {Request(windows'[k])}
    /\ UNCHANGED <<disk, clipboard, pasting, pastes, cuts>>

\* closePane(), which waits for every pane to be idle.
ClosePane(k) ==
    /\ Len(windows) > 1
    /\ \A j \in DOMAIN windows : ~windows[j].loading
    /\ windows' = RemoveAt(windows, k)
    /\ UNCHANGED <<disk, requests, clipboard, pasting, pastes, cuts, objects, loads>>

-----------------------------------------------------------------------------
(* The clipboard.                                                          *)

\* setWorkspaceClipboard(): the rows selected, at the place the pane is at.
SetClipboard(k, mode, names) ==
    /\ names # {} /\ names \subseteq windows[k].rows.names
    /\ clipboard' = [mode |-> mode, pane |-> k,
        items |-> {[image |-> windows[k].image, place |-> windows[k].place, name |-> n]
                    : n \in names}]
    /\ cuts < MaxCuts /\ cuts' = cuts + 1
    /\ UNCHANGED <<disk, windows, requests, pasting, pastes, objects, loads>>

\* pasteWorkspaceClipboard(), pasteFileItems() and transferFiles() up to the
\* first request; the paste is of the clipboard as it is now.
Paste(k) ==
    LET within == \A i \in clipboard.items : i.image = windows[k].image
        way == IF within /\ windows[k].image = "ffs" THEN "moving"
               ELSE IF clipboard.pane = k THEN "refused" ELSE "copying"
    IN  /\ clipboard # None /\ Len(pastes) < MaxPastes
        /\ pasting' = TRUE
        /\ pastes' = Append(pastes,
              [cut |-> clipboard.mode = "cut", items |-> clipboard.items, left |-> clipboard.items,
               k |-> k, id |-> windows[k].id, image |-> windows[k].image,
               place |-> windows[k].place, at |-> way, done |-> FALSE, reload |-> None])
        /\ windows' = [windows EXCEPT ![k].loading = @ \/ way # "refused"]
        /\ UNCHANGED <<disk, requests, clipboard, cuts, objects, loads>>

Going(p, way) == pastes[p].at = way
Target(p, item) == [item EXCEPT !.image = pastes[p].image, !.place = pastes[p].place]

\* The files of some paths, at the place a paste puts them.
Placed(p, paths) ==
    {File(pastes[p].image, pastes[p].place, f.name, f.content)
        : f \in {x \in disk : Path(x) \in paths}}

\* performFfsMoves(): one request moves what is not there already, or nothing;
\* then every pane of the image is read again.
Move(p) ==
    LET items == {i \in pastes[p].items : Target(p, i) # i}
        shared == {k \in DOMAIN windows : windows[k].image = pastes[p].image}
    IN  /\ Going(p, "moving")
        /\ IF items # {} /\ items \subseteq Present
                /\ Present \intersect {Target(p, i) : i \in items} = {}
           THEN /\ disk' = {f \in disk : Path(f) \notin items} \union Placed(p, items)
                /\ Load(windows, shared)
           ELSE /\ windows' = [k \in DOMAIN windows |-> [windows[k] EXCEPT !.loading =
                                  IF windows[k].id = pastes[p].id THEN FALSE ELSE @]]
                /\ UNCHANGED <<disk, requests, loads>>
        /\ pastes' = [pastes EXCEPT ![p].at = "refused"]
        /\ UNCHANGED <<clipboard, pasting, cuts, objects>>

\* performTransfers(): the pane that is at the position by now is read again,
\* unless there is none, which is an error like any other.
Reloads(p, done) ==
    LET k == pastes[p].k IN
    IF k \in DOMAIN windows
    THEN /\ Load([j \in DOMAIN windows |-> [windows[j] EXCEPT !.loading =
                     IF windows[j].id = pastes[p].id THEN FALSE ELSE @]], {k})
         /\ pastes' = [pastes EXCEPT ![p].at = "copied", ![p].done = done,
                                     ![p].reload = Request(windows'[k])]
    ELSE /\ pastes' = [pastes EXCEPT ![p].at = "refused"]
         /\ UNCHANGED <<windows, requests, loads>>

\* Mutant: an item that could not be copied is passed over.
TransferSkips(p, item) ==
    /\ disk' = disk \union IF Target(p, item) \in Present THEN {} ELSE Placed(p, {item})
    /\ pastes' = [pastes EXCEPT ![p].left = @ \ {item}]
    /\ UNCHANGED <<windows, requests, loads>>

\* One request to copy one item, which does not write over what is there.
Transfer(p, item) ==
    IF item \in Present /\ Target(p, item) \notin Present
    THEN /\ disk' = disk \union Placed(p, {item})
         /\ pastes' = [pastes EXCEPT ![p].left = @ \ {item}]
         /\ UNCHANGED <<windows, requests, loads>>
    ELSE Reloads(p, FALSE) /\ UNCHANGED disk

Copy(p) ==
    /\ Going(p, "copying")
    /\ IF pastes[p].left = {} THEN Reloads(p, TRUE) /\ UNCHANGED disk
       ELSE \E item \in pastes[p].left : Transfer(p, item)
    /\ UNCHANGED <<clipboard, pasting, cuts, objects>>

\* A request to copy that fails: the drive is full, or cannot be read.
CopyFails(p) ==
    /\ Going(p, "copying") /\ pastes[p].left # {}
    /\ Reloads(p, FALSE)
    /\ UNCHANGED <<disk, clipboard, pasting, cuts, objects>>

\* deleteCutFileSources(), once the directory came: all of the items go in one
\* request, or none, and every pane of their image is read again.
DeleteSources(p) ==
    LET paste == pastes[p]
        shared == {k \in DOMAIN windows : windows[k].image \in {i.image : i \in paste.items}}
    IN  /\ Going(p, "copied") /\ paste.reload \notin requests
        /\ IF paste.done /\ paste.cut /\ paste.items \subseteq Present
           THEN /\ disk' = {f \in disk : Path(f) \notin paste.items}
                /\ Load(windows, shared)
           ELSE UNCHANGED <<disk, windows, requests, loads>>
        /\ pastes' = [pastes EXCEPT ![p].at = "refused"]
        /\ UNCHANGED <<clipboard, pasting, cuts, objects>>

\* The finally of pasteWorkspaceClipboard(), whatever the clipboard is by now.
Finish(p) ==
    /\ Going(p, "refused")
    /\ pastes' = [pastes EXCEPT ![p] = [at |-> "over"]]
    /\ clipboard' = None
    /\ pasting' = FALSE
    /\ UNCHANGED <<disk, windows, requests, cuts, objects, loads>>

\* Another change: a file is made in the directory of a pane.  Unless a paste is
\* on its way, api() clears the clipboard first.
Create(k, name) ==
    LET path == [image |-> windows[k].image, place |-> windows[k].place, name |-> name] IN
    /\ ~windows[k].loading /\ path \notin Present
    /\ disk' = disk \union {File(path.image, path.place, name, "new")}
    /\ clipboard' = IF pasting THEN clipboard ELSE None
    /\ Load(windows, {k})
    /\ UNCHANGED <<pasting, pastes, cuts, objects>>

PanesNext ==
    \/ \E k \in DOMAIN windows :
        \/ \E place \in Places : Navigate(k, place)
        \/ \E image \in Images : AcceptImage(k, image)
        \/ \E mode \in {"cut", "copy"}, names \in SUBSET Names : SetClipboard(k, mode, names)
        \/ \E name \in Names : Create(k, name)
        \/ ClosePane(k) \/ Paste(k)
    \/ \E q \in requests : DirectoryComes(q) \/ DirectoryFails(q)
    \/ \E p \in DOMAIN pastes :
        Move(p) \/ Copy(p) \/ CopyFails(p) \/ DeleteSources(p) \/ Finish(p)

PanesSpec == PanesInit /\ [][PanesNext]_paneVars

-----------------------------------------------------------------------------
(* What the panes promise.                                                 *)

\* A pane that waits for no answer, and was not told of an error, shows the rows
\* of the directory it is at: an answer that comes late is not shown in a pane
\* that has gone elsewhere or was given another image (loadDirectory, app.js:2179).
RowsAreOfTheirPlace ==
    \A k \in DOMAIN windows :
        Request(windows[k]) \notin requests /\ ~windows[k].told =>
            /\ windows[k].rows.image = windows[k].image
            /\ windows[k].rows.place = windows[k].place

\* "A cut is not removed from its source until its destination has been written
\* successfully" (app/static/help.js:643): what the images held is still there,
\* whatever fails, is closed or is pasted twice on the way.  It is of one cut at a
\* time (OneAtATime): setWorkspaceClipboard() may be called while a paste is on its
\* way, and what the other paste puts where a file was cut goes with its sources.
CutIsKept ==
    \A f \in TheFiles : \E x \in disk : x.content = f.content

-----------------------------------------------------------------------------
(* The invariants behind them.                                             *)

Item == [image : Images, place : Places, name : Names]

AFile == [image : Images, place : Places, name : Names, content : Names \union {"taken", "new"}]

APane ==
    [id : Nat, image : Images, place : Places, token : Nat, loading : BOOLEAN, told : BOOLEAN,
     rows : [image : Images, place : Places, names : SUBSET Names]]

ARequest == [id : Nat, token : Nat, image : Images, place : Places]

APaste ==
    [cut : BOOLEAN, items : SUBSET Item, left : SUBSET Item, k : Nat, id : Nat, image : Images,
     place : Places, at : {"moving", "copying", "copied", "refused"}, done : BOOLEAN,
     reload : ARequest \union {None}]

Over == [at |-> "over"]

PanesOK ==
    /\ \E n \in Nat : windows \in [1..n -> APane]
    /\ requests \subseteq ARequest
    /\ disk \subseteq AFile
    /\ clipboard \in [mode : {"cut", "copy"}, pane : Nat, items : SUBSET Item] \union {None}
    /\ \E n \in Nat : pastes \in [1..n -> APaste \union {Over}]
    /\ cuts \in Nat /\ objects \in Nat

Contents == {f.content : f \in TheFiles}

\* The content is in a file that is at none of the items' places, so that it is
\* not taken away with them.
Safe(content, items) ==
    \E x \in disk : x.content = content /\ Path(x) \notin items

\* A paste of the items: what it has copied is safe, and at its end that is all.
PasteIsSafe(paste, items) ==
    /\ paste.items = items /\ paste.left \subseteq items
    /\ paste.at \in {"copying", "copied"} =>
        \A x \in disk : x.content \in Contents /\ Path(x) \in items \ paste.left =>
            Safe(x.content, items)
    /\ paste.at = "copied" /\ paste.done => paste.left = {}

\* All that is on the clipboard or on its way are these items, of one directory.
CutOf(items) ==
    /\ \A i, j \in items : i.image = j.image /\ i.place = j.place
    /\ clipboard # None => clipboard.items = items
    /\ CutIsKept
    /\ \A p \in DOMAIN pastes : pastes[p] # Over => PasteIsSafe(pastes[p], items)

CutInv == \E items \in SUBSET Item : CutOf(items)

\* No files are put on the clipboard while a paste is on its way.
OneAtATime ==
    [][cuts' # cuts => \A p \in DOMAIN pastes : pastes[p] = Over]_paneVars
===============================================================================
