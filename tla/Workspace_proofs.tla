--------------------------- MODULE Workspace_proofs --------------------------
(* Theorems about Panes, Editor and HexEditor: for any files, any places,    *)
(* any bytes and any number of panes, documents, requests and changes.       *)
EXTENDS Panes, Editor, HexEditor, SequenceTheorems, FiniteSetTheorems, TLAPS

-----------------------------------------------------------------------------
(* The hex editor.                                                           *)

(* A byte that is staged is claimed over the version of its page, if the     *)
(* editor will not take another whatever is staged.                          *)
LEMMA StageKeeps ==
    ASSUME StagedInv, NEW values, Stage(values), UNCHANGED <<version, answers, posting>>
    PROVE  StagedInv'
<1> DEFINE known == [o \in DOMAIN originals \union DOMAIN values |->
                        IF o \in DOMAIN originals THEN originals[o] ELSE Effective(o)]
           back == {o \in DOMAIN values : values[o] = known[o]}
           staged == (DOMAIN changes \union DOMAIN values) \ back
           resetting == version = NoVersion \/ \E a \in answers : a.kind = "reset"
<1>1. /\ changes' = [o \in staged |-> IF o \in DOMAIN values THEN values[o] ELSE changes[o]]
      /\ basis' = [o \in staged |-> IF o \notin DOMAIN values THEN basis[o]
                                    ELSE IF resetting THEN Unclaimed ELSE version]
  BY DEF Stage
<1> HIDE DEF back
<1>2. \A o \in staged \ DOMAIN values : o \in DOMAIN basis
  BY DEF StagedInv
<1> HIDE DEF staged
<1>3. DOMAIN basis' = DOMAIN changes' /\ DOMAIN basis' = staged
  BY <1>1
<1>4. \A o \in staged : basis'[o] \in {Unclaimed, version}
  BY <1>1, <1>2 DEF StagedInv
<1>5. resetting => \A o \in staged : basis'[o] = Unclaimed
  BY <1>1, <1>2 DEF StagedInv
<1> HIDE DEF resetting
<1>6. version' = version /\ answers' = answers /\ posting' = posting
  OBVIOUS
<1>7. QED
  BY <1>3, <1>4, <1>5, <1>6 DEF StagedInv, resetting

LEMMA InitStaged == HexInit => StagedInv
  BY DEF HexInit, StagedInv, Nothing, NoWrite

LEMMA NextStaged == StagedInv /\ [HexNext]_hexVars => StagedInv'
<1> SUFFICES ASSUME StagedInv, [HexNext]_hexVars PROVE StagedInv'
  OBVIOUS
<1>1. CASE UNCHANGED hexVars
  BY <1>1 DEF StagedInv, hexVars
(* A page or some bytes are asked for: not one whose version is taken. *)
<1>2. ASSUME NEW o \in Offsets, GoTo(o) \/ EnsureRange(o) PROVE StagedInv'
  <2>1. /\ UNCHANGED <<version, changes, basis, posting>>
        /\ \A a \in answers' : a \in answers \/ a.kind \in {"page", "range"}
    BY <1>2 DEF GoTo, EnsureRange, Ask
  <2>2. (\E a \in answers' : a.kind = "reset") => \E a \in answers : a.kind = "reset"
    BY <2>1
  <2>3. QED
    BY <2>1, <2>2 DEF StagedInv
<1>3. ASSUME NEW a \in answers, Answer(a) PROVE StagedInv'
  <2>1. /\ answers' = answers \ {a} /\ UNCHANGED <<changes, basis, posting>>
        /\ \/ version' = version
           \/ MayTake(a) /\ a.kind # "range" /\ version' = a.version
    <3>1. CASE MayTake(a) /\ a.kind # "range"
      BY <1>3, <3>1 DEF Answer
    <3>2. CASE MayTake(a) /\ a.kind = "range"
      BY <1>3, <3>2 DEF Answer
    <3>3. CASE ~MayTake(a)
      BY <1>3, <3>3 DEF Answer
    <3>4. QED
      BY <3>1, <3>2, <3>3
  <2>2. CASE version' = version
    BY <2>1, <2>2 DEF StagedInv
  <2>3. CASE MayTake(a) /\ a.kind # "range" /\ version' = a.version /\ version' # version
    <3>1. \A o \in DOMAIN basis : basis[o] = Unclaimed
      <4>1. CASE a.kind = "reset"
        BY <4>1 DEF StagedInv
      <4>2. CASE a.kind # "reset"
        <5>1. version = NoVersion \/ changes = Nothing
          <6>1. a.kind = "page"
            BY <2>3, <4>2 DEF StagedInv
          <6>2. QED
            BY <2>3, <6>1 DEF MayTake
        <5>2. QED
          BY <5>1 DEF StagedInv, Nothing
      <4>3. QED
        BY <4>1, <4>2
    <3>2. QED
      BY <2>1, <3>1 DEF StagedInv
  <2>4. QED
    BY <2>1, <2>2, <2>3
<1>4. ASSUME NEW a \in answers, AnswerFails(a) PROVE StagedInv'
  BY <1>4 DEF AnswerFails, StagedInv
<1>5. ASSUME NEW values, ApplyEdit(values) PROVE StagedInv'
  <2> DEFINE real == {o \in DOMAIN values \intersect DOMAIN bytes : Effective(o) # values[o]}
  <2>1. Stage([o \in real |-> values[o]]) /\ UNCHANGED <<version, answers, posting>>
    BY <1>5 DEF ApplyEdit
  <2>2. QED
    BY <2>1, StageKeeps
<1>6. CASE Undo \/ Redo
  <2>1. UNCHANGED <<version, answers, posting>> /\ \E values : Stage(values)
    BY <1>6 DEF Undo, Redo
  <2>2. QED
    BY <2>1, StageKeeps
<1>7. CASE Save
  BY <1>7 DEF Save, StagedInv
<1>8. CASE WriteRawImage
  <2>1. UNCHANGED <<version, changes, answers, basis>>
    BY <1>8 DEF WriteRawImage
  <2>2. \/ posting' = NoWrite
        \/ "is" \in DOMAIN posting' /\ posting'.is = "written"
    <3>1. CASE Accepted
      <4>1. posting' = [posting EXCEPT !.is = "written", !.version.n = @ + 1]
        BY <1>8, <3>1 DEF WriteRawImage
      <4>2. "is" \in DOMAIN posting
        BY <1>8 DEF WriteRawImage, StagedInv
      <4>3. QED
        BY <4>1, <4>2
    <3>2. CASE ~Accepted
      BY <1>8, <3>2 DEF WriteRawImage
    <3>3. QED
      BY <3>1, <3>2
  <2>3. QED
    BY <2>1, <2>2 DEF StagedInv
(* What was staged is forgotten as the page is asked for. *)
<1>9. ASSUME NEW of, Forget, Ask(of, offset', "reset"), posting' = NoWrite \/ posting' = posting
      PROVE  StagedInv'
  <2>1. \A a \in answers' : a \in answers \/ a.kind = "reset"
    BY <1>9 DEF Ask
  <2>2. DOMAIN basis' = {} /\ DOMAIN changes' = {}
    BY <1>9 DEF Forget, Nothing
  <2>3. QED
    BY <1>9, <2>1, <2>2 DEF StagedInv
<1>10. ASSUME Written \/ \E of \in Targets : ChangeTarget(of) PROVE StagedInv'
  BY <1>9, <1>10 DEF Written, ChangeTarget
<1>11. ASSUME NEW of \in Targets, NEW o \in Offsets, NEW value \in Values,
              ChangeElsewhere(of, o, value)
       PROVE  StagedInv'
  BY <1>11 DEF ChangeElsewhere, StagedInv
<1>12. QED
  BY <1>1, <1>2, <1>3, <1>4, <1>5, <1>6, <1>7, <1>8, <1>10, <1>11
     DEF HexNext, Type, Fill, RevertAll

(* Bytes are never written over another version than the one they were       *)
(* staged over, however many pages, edits and writes are on their way.       *)
THEOREM WritesKnowTheirVersion == HexSpec => StagedOverItsVersion
<1>1. StagedInv => (Accepted /\ WriteRawImage =>
          \A o \in DOMAIN posting.basis :
             posting.basis[o] \in {Unclaimed, Now(posting.of)})
  BY DEF StagedInv, Accepted
<1>2. QED
  BY <1>1, InitStaged, NextStaged, PTL DEF HexSpec, StagedOverItsVersion

-----------------------------------------------------------------------------
(* The panes: what they show.                                                *)

LEMMA SeqOfFunction ==
    ASSUME NEW S, NEW n \in Nat, NEW f \in [1..n -> S]
    PROVE  f \in Seq(S) /\ Len(f) = n /\ DOMAIN f = 1..n
<1>1. f \in Seq(S)
  BY SeqDef
<1>2. Len(f) \in Nat /\ DOMAIN f = 1..Len(f)
  BY <1>1, LenProperties
<1>3. QED
  BY <1>1, <1>2

\* The sequence g is f, of length n, without its element k.
OneLess(g, f, k, n, S) ==
    /\ g \in [1..(n - 1) -> S]
    /\ \A j \in 1..(n - 1) : /\ j < k => g[j] = f[j]
                             /\ ~(j < k) => g[j] = f[j + 1]

(* What is left when one of a sequence goes.                                 *)
LEMMA Removed ==
    ASSUME NEW S, NEW n \in Nat, NEW f \in [1..n -> S], NEW k \in 1..n
    PROVE  OneLess(RemoveAt(f, k), f, k, n, S)
<1> SUFFICES /\ RemoveAt(f, k) \in [1..(n - 1) -> S]
             /\ \A j \in 1..(n - 1) : /\ j < k => RemoveAt(f, k)[j] = f[j]
                                      /\ ~(j < k) => RemoveAt(f, k)[j] = f[j + 1]
  BY DEF OneLess
<1>1. f \in Seq(S) /\ Len(f) = n
  BY SeqOfFunction
<1> DEFINE a == SubSeq(f, 1, k - 1)
           b == SubSeq(f, k + 1, n)
<1>2. /\ a \in Seq(S) /\ Len(a) = k - 1
      /\ \A i \in 1..(k - 1) : a[i] = f[i]
  <2>1. \A i \in 1..(k - 1) : f[i] \in S
    OBVIOUS
  <2>2. /\ a \in Seq(S) /\ Len(a) = IF 1 <= k - 1 THEN k - 1 - 1 + 1 ELSE 0
        /\ \A i \in 1..(k - 1 - 1 + 1) : a[i] = f[1 + i - 1]
    BY <2>1, SubSeqProperties
  <2>3. QED
    BY <2>2
<1>3. /\ b \in Seq(S) /\ Len(b) = n - k
      /\ \A i \in 1..(n - k) : b[i] = f[k + i]
  <2>1. \A i \in (k + 1)..n : f[i] \in S
    OBVIOUS
  <2>2. /\ b \in Seq(S) /\ Len(b) = IF k + 1 <= n THEN n - (k + 1) + 1 ELSE 0
        /\ \A i \in 1..(n - (k + 1) + 1) : b[i] = f[k + 1 + i - 1]
    BY <2>1, SubSeqProperties
  <2>3. QED
    BY <2>2
<1> HIDE DEF a, b
<1>4. /\ a \o b \in Seq(S) /\ Len(a \o b) = n - 1
      /\ \A i \in 1..(n - 1) : (a \o b)[i] = IF i <= k - 1 THEN a[i] ELSE b[i - (k - 1)]
  <2>1. /\ a \o b \in Seq(S) /\ Len(a \o b) = Len(a) + Len(b)
        /\ \A i \in 1..(Len(a) + Len(b)) :
              (a \o b)[i] = IF i <= Len(a) THEN a[i] ELSE b[i - Len(a)]
    BY <1>2, <1>3, ConcatProperties
  <2>2. Len(a) = k - 1 /\ Len(a) + Len(b) = n - 1
    BY <1>2, <1>3
  <2>3. QED
    BY <2>1, <2>2
<1>5. RemoveAt(f, k) = a \o b
  BY <1>1 DEF RemoveAt, a, b
<1>6. a \o b \in [1..(n - 1) -> S]
  BY <1>4, LenProperties
<1>7. ASSUME NEW j \in 1..(n - 1)
      PROVE  /\ j < k => (a \o b)[j] = f[j]
             /\ ~(j < k) => (a \o b)[j] = f[j + 1]
  <2>1. CASE j < k
    BY <1>2, <1>4, <2>1
  <2>2. CASE ~(j < k)
    <3>1. j - (k - 1) \in 1..(n - k) /\ k + (j - (k - 1)) = j + 1 /\ ~(j <= k - 1)
      BY <2>2
    <3>2. (a \o b)[j] = b[j - (k - 1)]
      BY <1>4, <3>1
    <3>3. b[j - (k - 1)] = f[j + 1]
      BY <1>3, <3>1
    <3>4. QED
      BY <2>2, <3>2, <3>3
  <2>3. QED
    BY <2>1, <2>2
<1>8. QED
  BY <1>5, <1>6, <1>7

(* A pane that asks for its directory waits for the answer.                  *)
LEMMA PanesLoad ==
    ASSUME PanesOK, RowsAreOfTheirPlace,
           NEW n \in Nat, windows \in [1..n -> APane], NEW shown \in [1..n -> APane],
           NEW ks \in SUBSET (1..n),
           \A k \in 1..n : /\ shown[k].id = windows[k].id
                           /\ shown[k].token = windows[k].token
                           /\ shown[k].image = windows[k].image
                           /\ shown[k].rows = windows[k].rows
                           /\ shown[k].told = windows[k].told
                           /\ k \notin ks => shown[k].place = windows[k].place,
           Load(shown, ks)
    PROVE  /\ windows' \in [1..n -> APane]
           /\ requests' \subseteq ARequest
           /\ RowsAreOfTheirPlace'
<1>1. /\ windows' = [k \in 1..n |-> IF k \notin ks THEN shown[k]
            ELSE [shown[k] EXCEPT !.token = @ + 1, !.loading = TRUE, !.told = FALSE]]
      /\ requests' = requests \union {Request(windows'[k]) : k \in ks}
  BY DEF Load, Asking
<1>2. windows' \in [1..n -> APane]
  <2>1. ASSUME NEW k \in 1..n
        PROVE  [shown[k] EXCEPT !.token = @ + 1, !.loading = TRUE, !.told = FALSE] \in APane
    <3>1. shown[k] \in APane
      OBVIOUS
    <3>2. shown[k].token + 1 \in Nat
      BY <3>1 DEF APane
    <3>3. QED
      BY <3>1, <3>2 DEF APane
  <2>2. QED
    BY <1>1, <2>1
<1>3. \A k \in 1..n : Request(windows'[k]) \in ARequest
  BY <1>2 DEF Request, APane, ARequest
<1>4. requests' \subseteq ARequest
  BY <1>1, <1>3 DEF PanesOK
<1>5. ASSUME NEW k \in 1..n, Request(windows'[k]) \notin requests', ~windows'[k].told
      PROVE  /\ windows'[k].rows.image = windows'[k].image
             /\ windows'[k].rows.place = windows'[k].place
  <2>1. k \notin ks /\ windows'[k] = shown[k]
    BY <1>1, <1>5
  <2>2. Request(shown[k]) = Request(windows[k])
    BY <2>1 DEF Request
  <2>3. Request(windows[k]) \notin requests /\ ~windows[k].told
    BY <1>1, <1>5, <2>1, <2>2
  <2>4. QED
    BY <2>1, <2>3 DEF RowsAreOfTheirPlace
<1>6. QED
  BY <1>2, <1>4, <1>5 DEF RowsAreOfTheirPlace

(* Panes that only begin or end to be loading, or of which some go.          *)
LEMMA PanesStay ==
    ASSUME RowsAreOfTheirPlace, NEW n \in Nat, windows \in [1..n -> APane],
           NEW m \in Nat, windows' \in [1..m -> APane], requests' = requests,
           \A k \in 1..m : \E j \in 1..n :
              /\ windows'[k].id = windows[j].id
              /\ windows'[k].token = windows[j].token
              /\ windows'[k].image = windows[j].image
              /\ windows'[k].place = windows[j].place
              /\ windows'[k].rows = windows[j].rows
              /\ windows'[k].told = windows[j].told
    PROVE  RowsAreOfTheirPlace'
<1>1. \A k \in 1..m : \E j \in 1..n :
          /\ Request(windows'[k]) = Request(windows[j])
          /\ windows'[k].image = windows[j].image
          /\ windows'[k].place = windows[j].place
          /\ windows'[k].rows = windows[j].rows
          /\ windows'[k].told = windows[j].told
  BY DEF Request
<1>2. DOMAIN windows = 1..n /\ DOMAIN windows' = 1..m
  OBVIOUS
<1>3. SUFFICES ASSUME NEW k \in 1..m, Request(windows'[k]) \notin requests, ~windows'[k].told
               PROVE  /\ windows'[k].rows.image = windows'[k].image
                      /\ windows'[k].rows.place = windows'[k].place
  BY <1>2 DEF RowsAreOfTheirPlace, Request
<1>4. PICK j \in 1..n : /\ Request(windows'[k]) = Request(windows[j])
                        /\ windows'[k].image = windows[j].image
                        /\ windows'[k].place = windows[j].place
                        /\ windows'[k].rows = windows[j].rows
                        /\ windows'[k].told = windows[j].told
  BY <1>1
<1>5. Request(windows[j]) \notin requests /\ ~windows[j].told
  BY <1>3, <1>4
<1>6. QED
  BY <1>2, <1>4, <1>5 DEF RowsAreOfTheirPlace

LEMMA PanesTyped ==
    ASSUME PanesOK
    PROVE  /\ \E n \in Nat : windows \in [1..n -> APane] /\ DOMAIN windows = 1..n
           /\ \A k \in DOMAIN windows : windows[k] \in APane
           /\ \A p \in DOMAIN pastes : pastes[p] # Over => pastes[p] \in APaste
           /\ \A p \in DOMAIN pastes : pastes[p].at # "over" => pastes[p] \in APaste
  BY DEF PanesOK, Over

LEMMA PlacedTyped ==
    ASSUME PanesOK, NEW p, pastes[p] \in APaste, NEW paths
    PROVE  Placed(p, paths) \subseteq AFile
  BY DEF PanesOK, Placed, File, APaste, AFile

(* One paste goes on.                                                        *)
LEMMA PasteGoesOn ==
    ASSUME PanesOK, NEW p \in DOMAIN pastes, NEW paste \in APaste \union {Over},
           pastes' = [pastes EXCEPT ![p] = paste]
    PROVE  /\ \E n \in Nat : pastes' \in [1..n -> APaste \union {Over}]
           /\ DOMAIN pastes' = DOMAIN pastes
           /\ pastes'[p] = paste
           /\ \A q \in DOMAIN pastes \ {p} : pastes'[q] = pastes[q]
  BY DEF PanesOK

(* A pane that begins or ends to load is the same pane.                      *)
LEMMA PaneLoading ==
    ASSUME NEW w \in APane, NEW b \in BOOLEAN
    PROVE  /\ [w EXCEPT !.loading = b] \in APane
           /\ [w EXCEPT !.loading = b].id = w.id /\ [w EXCEPT !.loading = b].token = w.token
           /\ [w EXCEPT !.loading = b].image = w.image /\ [w EXCEPT !.loading = b].rows = w.rows
           /\ [w EXCEPT !.loading = b].told = w.told /\ [w EXCEPT !.loading = b].place = w.place
BY DEF APane

(* performTransfers() at its end, and whatever it then reads.                *)
LEMMA ReloadsKeeps ==
    ASSUME PanesOK, RowsAreOfTheirPlace, NEW p \in DOMAIN pastes, pastes[p] \in APaste,
           NEW done \in BOOLEAN, Reloads(p, done), disk' \subseteq AFile,
           UNCHANGED <<clipboard, cuts, objects>>
    PROVE  /\ PanesOK' /\ RowsAreOfTheirPlace'
           /\ DOMAIN pastes' = DOMAIN pastes
           /\ \A q \in DOMAIN pastes \ {p} : pastes'[q] = pastes[q]
           /\ pastes'[p] # Over /\ pastes'[p].at \in {"copied", "refused"}
           /\ pastes'[p].items = pastes[p].items /\ pastes'[p].left = pastes[p].left
           /\ pastes'[p].at = "copied" => pastes'[p].done = done
<1>1. PICK n \in Nat : windows \in [1..n -> APane] /\ DOMAIN windows = 1..n
  BY PanesTyped
<1>2. CASE pastes[p].k \in DOMAIN windows
  <2> DEFINE shown == [j \in 1..n |-> [windows[j] EXCEPT !.loading =
                          IF windows[j].id = pastes[p].id THEN FALSE ELSE @]]
             k == pastes[p].k
             paste == [pastes[p] EXCEPT !.at = "copied", !.done = done,
                                        !.reload = Request(windows'[k])]
  <2>1. Load(shown, {k}) /\ k \in 1..n
    BY <1>1, <1>2 DEF Reloads
  <2>2. \A j \in 1..n : /\ shown[j] \in APane
                        /\ shown[j].id = windows[j].id /\ shown[j].token = windows[j].token
                        /\ shown[j].image = windows[j].image /\ shown[j].rows = windows[j].rows
                        /\ shown[j].told = windows[j].told /\ shown[j].place = windows[j].place
    <3> SUFFICES ASSUME NEW j \in 1..n
                 PROVE  /\ shown[j] \in APane
                        /\ shown[j].id = windows[j].id /\ shown[j].token = windows[j].token
                        /\ shown[j].image = windows[j].image /\ shown[j].rows = windows[j].rows
                        /\ shown[j].told = windows[j].told /\ shown[j].place = windows[j].place
      OBVIOUS
    <3> DEFINE b == IF windows[j].id = pastes[p].id THEN FALSE ELSE windows[j].loading
    <3>1. windows[j] \in APane /\ windows[j].loading \in BOOLEAN
      BY <1>1 DEF APane
    <3>2. b \in BOOLEAN /\ shown[j] = [windows[j] EXCEPT !.loading = b]
      BY <3>1
    <3> HIDE DEF b, shown
    <3> QED
      BY <3>1, <3>2, PaneLoading
  <2>3. shown \in [1..n -> APane]
    BY <2>2
  <2> HIDE DEF shown
  <2>4. /\ windows' \in [1..n -> APane] /\ requests' \subseteq ARequest
        /\ RowsAreOfTheirPlace'
    BY <1>1, <2>1, <2>2, <2>3, PanesLoad, SMTT(30)
  <2>5. Request(windows'[k]) \in ARequest
    BY <2>1, <2>4 DEF Request, APane, ARequest
  <2>6. /\ paste \in APaste /\ paste.items = pastes[p].items /\ paste.left = pastes[p].left
        /\ paste.at = "copied" /\ paste.done = done
    BY <2>5 DEF APaste
  <2>7. pastes' = [pastes EXCEPT ![p] = paste]
    BY <1>2 DEF Reloads
  <2>8. paste # Over
    BY <2>6 DEF Over
  <2> HIDE DEF paste
  <2>9. QED
    BY <2>4, <2>6, <2>7, <2>8, PasteGoesOn DEF PanesOK
<1>3. CASE pastes[p].k \notin DOMAIN windows
  <2> DEFINE paste == [pastes[p] EXCEPT !.at = "refused"]
  <2>1. /\ paste \in APaste /\ paste.items = pastes[p].items /\ paste.left = pastes[p].left
        /\ paste.at = "refused"
    BY DEF APaste
  <2>2. pastes' = [pastes EXCEPT ![p] = paste] /\ UNCHANGED <<windows, requests, loads>>
    BY <1>3 DEF Reloads
  <2>3. paste # Over
    BY <2>1 DEF Over
  <2> HIDE DEF paste
  <2>4. RowsAreOfTheirPlace'
    BY <2>2 DEF RowsAreOfTheirPlace, Request
  <2>5. QED
    BY <2>1, <2>2, <2>3, <2>4, PasteGoesOn DEF PanesOK
<1>4. QED
  BY <1>2, <1>3

LEMMA NewPaneFields ==
    ASSUME NEW id, NEW image, NEW place
    PROVE  NewPane(id, image, place) =
              [id |-> id, image |-> image, place |-> place, token |-> 1, loading |-> TRUE,
               rows |-> [image |-> image, place |-> place, names |-> {}], told |-> FALSE]
<1> DEFINE names == {f.name : f \in {x \in disk : x.image = image /\ x.place = place}}
           rows == [image |-> image, place |-> place, names |-> names]
<1>1. Listing(image, place) = rows
  BY DEF Listing
<1> HIDE DEF names
<1>2. [rows EXCEPT !.names = {}] = [image |-> image, place |-> place, names |-> {}]
  OBVIOUS
<1>3. QED
  BY <1>1, <1>2 DEF NewPane

LEMMA InitPanes == PanesInit => PanesOK /\ RowsAreOfTheirPlace
<1> SUFFICES ASSUME PanesInit PROVE PanesOK /\ RowsAreOfTheirPlace
  OBVIOUS
<1>1. TheFiles \subseteq AFile
  <2>1. (CHOOSE n \in Names : TRUE) \in Names
    BY PlacesAssumption
  <2>2. QED
    BY <2>1, PlacesAssumption DEF TheFiles, File, AFile, Images
<1>2. ASSUME NEW image \in Images, NEW id \in Nat
      PROVE  /\ Loaded(id, image) \in APane
             /\ Loaded(id, image).rows.image = Loaded(id, image).image
             /\ Loaded(id, image).rows.place = Loaded(id, image).place
  <2> DEFINE names == {f.name : f \in {x \in TheFiles : x.image = image}}
  <2>1. names \in SUBSET Names
    BY <1>1 DEF AFile
  <2> HIDE DEF names
  <2>2. Loaded(id, image) =
          [id |-> id, image |-> image, place |-> "root", token |-> 1, loading |-> FALSE,
           rows |-> [image |-> image, place |-> "root", names |-> names], told |-> FALSE]
    <3> DEFINE rows == [image |-> image, place |-> "root", names |-> {}]
               pane == NewPane(id, image, "root")
    <3>1. pane = [id |-> id, image |-> image, place |-> "root", token |-> 1,
                  loading |-> TRUE, rows |-> rows, told |-> FALSE]
      BY NewPaneFields
    <3>2. Loaded(id, image) = [pane EXCEPT !.loading = FALSE, !.rows.names = names]
      BY DEF Loaded, names
    <3>3. [rows EXCEPT !.names = names] =
            [image |-> image, place |-> "root", names |-> names]
      OBVIOUS
    <3> HIDE DEF pane
    <3>4. Loaded(id, image) = [pane EXCEPT !.loading = FALSE,
                                           !.rows = [rows EXCEPT !.names = names]]
      BY <3>1, <3>2
    <3> HIDE DEF rows
    <3>5. QED
      BY <3>1, <3>3, <3>4
  <2>3. QED
    BY <2>1, <2>2, PlacesAssumption DEF APane
<1>3. windows = <<Loaded(1, "ffs"), Loaded(2, "hdf")>>
  BY DEF PanesInit
<1>4. Loaded(1, "ffs") \in APane /\ Loaded(2, "hdf") \in APane
  BY <1>2 DEF Images
<1>5. windows \in [1..2 -> APane]
  BY <1>3, <1>4
<1>6. pastes = <<>> /\ pastes \in [1..0 -> APaste \union {Over}]
  BY DEF PanesInit
<1>7. PanesOK
  BY <1>1, <1>5, <1>6 DEF PanesInit, PanesOK
<1>8. RowsAreOfTheirPlace
  BY <1>2, <1>3, <1>5 DEF RowsAreOfTheirPlace, Images
<1>9. QED
  BY <1>7, <1>8

LEMMA NextPanes ==
    PanesOK /\ RowsAreOfTheirPlace /\ [PanesNext]_paneVars => PanesOK' /\ RowsAreOfTheirPlace'
<1> SUFFICES ASSUME PanesOK, RowsAreOfTheirPlace, [PanesNext]_paneVars
             PROVE  PanesOK' /\ RowsAreOfTheirPlace'
  OBVIOUS
<1>0. PICK n \in Nat : windows \in [1..n -> APane] /\ DOMAIN windows = 1..n
  BY PanesTyped
<1>1. CASE UNCHANGED paneVars
  BY <1>1 DEF paneVars, PanesOK, RowsAreOfTheirPlace, Request
<1>2. ASSUME NEW k \in DOMAIN windows, NEW place \in Places, Navigate(k, place)
      PROVE  PanesOK' /\ RowsAreOfTheirPlace'
  <2> DEFINE shown == [windows EXCEPT ![k].place = place]
  <2>1. \A j \in 1..n : /\ shown[j] \in APane
                        /\ shown[j].id = windows[j].id /\ shown[j].token = windows[j].token
                        /\ shown[j].image = windows[j].image /\ shown[j].rows = windows[j].rows
                        /\ shown[j].told = windows[j].told
                        /\ j # k => shown[j].place = windows[j].place
    BY <1>0 DEF APane
  <2>2. shown \in [1..n -> APane]
    BY <1>0, <2>1
  <2>3. Load(shown, {k}) /\ UNCHANGED <<disk, clipboard, pastes, cuts, objects>>
    BY <1>2 DEF Navigate
  <2> HIDE DEF shown
  <2>4. windows' \in [1..n -> APane] /\ requests' \subseteq ARequest /\ RowsAreOfTheirPlace'
    BY <1>0, <2>1, <2>2, <2>3, PanesLoad
  <2>5. QED
    BY <2>3, <2>4 DEF PanesOK
(* An answer, which only the pane that still asks for it takes. *)
<1>3. ASSUME NEW q \in requests, DirectoryComes(q) \/ DirectoryFails(q)
      PROVE  PanesOK' /\ RowsAreOfTheirPlace'
  <2> DEFINE rows == Listing(q.image, q.place)
  <2>1. q \in ARequest /\ rows \in [image : Images, place : Places, names : SUBSET Names]
        /\ rows.image = q.image /\ rows.place = q.place
    BY DEF PanesOK, ARequest, Listing, AFile
  <2> HIDE DEF rows
  <2>2. PICK told \in BOOLEAN :
          /\ windows' = [k \in 1..n |-> IF ~Wanted(q, windows[k]) THEN windows[k]
                ELSE [windows[k] EXCEPT !.loading = FALSE, !.told = told,
                                        !.rows = IF told THEN @ ELSE rows]]
          /\ requests' = requests \ {q}
          /\ UNCHANGED <<disk, clipboard, pastes, cuts, objects>>
    <3>1. CASE DirectoryComes(q)
      <4>1. Answered(q, rows, FALSE)
        BY <3>1 DEF DirectoryComes, rows
      <4>2. QED
        BY <1>0, <4>1 DEF Answered
    <3>2. CASE DirectoryFails(q)
      BY <1>0, <3>2 DEF DirectoryFails, Answered
    <3>3. QED
      BY <1>3, <3>1, <3>2
  <2>3. ASSUME NEW k \in 1..n, Wanted(q, windows[k])
        PROVE  /\ windows'[k] \in APane /\ windows'[k].told = told
               /\ windows'[k].image = q.image /\ windows'[k].place = q.place
               /\ windows'[k].rows = IF told THEN windows[k].rows ELSE rows
    <3>1. windows[k] \in APane /\ windows[k].image = q.image /\ windows[k].place = q.place
      BY <1>0, <2>3 DEF Wanted, Request
    <3>2. windows'[k] = [windows[k] EXCEPT !.loading = FALSE, !.told = told,
                                           !.rows = IF told THEN windows[k].rows ELSE rows]
      BY <2>2, <2>3
    <3>3. QED
      BY <2>1, <3>1, <3>2 DEF APane
  <2>4. \A k \in 1..n : ~Wanted(q, windows[k]) =>
            windows'[k] = windows[k] /\ windows'[k] \in APane
    BY <1>0, <2>2
  <2>5. windows' \in [1..n -> APane]
    BY <2>2, <2>3, <2>4
  <2>6. ASSUME NEW k \in 1..n, Request(windows'[k]) \notin requests', ~windows'[k].told
        PROVE  /\ windows'[k].rows.image = windows'[k].image
               /\ windows'[k].rows.place = windows'[k].place
    <3>1. CASE Wanted(q, windows[k])
      BY <2>1, <2>3, <2>6, <3>1
    <3>2. CASE ~Wanted(q, windows[k])
      <4>1. windows'[k] = windows[k] /\ Request(windows[k]) # q
        BY <2>4, <3>2 DEF Wanted
      <4>2. Request(windows[k]) \notin requests
        BY <2>2, <2>6, <4>1
      <4>3. QED
        BY <1>0, <2>6, <4>1, <4>2 DEF RowsAreOfTheirPlace
    <3>3. QED
      BY <3>1, <3>2
  <2>7. RowsAreOfTheirPlace'
    BY <2>5, <2>6 DEF RowsAreOfTheirPlace
  <2>8. QED
    BY <2>2, <2>5, <2>7 DEF PanesOK
(* Another image in a pane: one of its own, which waits for its rows. *)
<1>4. ASSUME NEW k \in DOMAIN windows, NEW image \in Images, AcceptImage(k, image)
      PROVE  PanesOK' /\ RowsAreOfTheirPlace'
  <2> DEFINE pane == NewPane(objects + 1, image, "root")
  <2>1. pane = [id |-> objects + 1, image |-> image, place |-> "root", token |-> 1,
                loading |-> TRUE,
                rows |-> [image |-> image, place |-> "root", names |-> {}], told |-> FALSE]
    BY NewPaneFields
  <2>2. objects + 1 \in Nat
    BY DEF PanesOK
  <2>3. pane \in APane
    <3>1. [image |-> image, place |-> "root", names |-> {}]
            \in [image : Images, place : Places, names : SUBSET Names]
      BY PlacesAssumption
    <3> HIDE DEF pane
    <3>2. QED
      BY <2>1, <2>2, <3>1, PlacesAssumption DEF APane
  <2>4. /\ windows' = [windows EXCEPT ![k] = pane]
        /\ requests' = requests \union {Request(windows'[k])}
        /\ objects' = objects + 1 /\ UNCHANGED <<disk, clipboard, pastes, cuts>>
    BY <1>4 DEF AcceptImage
  <2> HIDE DEF pane
  <2>5. windows' \in [1..n -> APane] /\ k \in 1..n
    BY <1>0, <2>3, <2>4
  <2>6. requests' \subseteq ARequest
    BY <2>4, <2>5 DEF PanesOK, Request, APane, ARequest
  <2>7. RowsAreOfTheirPlace'
    BY <1>0, <2>4, <2>5 DEF RowsAreOfTheirPlace, Request
  <2>8. QED
    BY <2>2, <2>4, <2>5, <2>6, <2>7 DEF PanesOK
<1>5. ASSUME NEW k \in DOMAIN windows, ClosePane(k) PROVE PanesOK' /\ RowsAreOfTheirPlace'
  <2>1. /\ windows' = RemoveAt(windows, k)
        /\ UNCHANGED <<disk, requests, clipboard, pastes, cuts, objects>>
    BY <1>5 DEF ClosePane
  <2>2. /\ windows' \in [1..(n - 1) -> APane]
        /\ \A j \in 1..(n - 1) : /\ j < k => windows'[j] = windows[j]
                                 /\ ~(j < k) => windows'[j] = windows[j + 1]
    <3>1. k \in 1..n /\ windows \in [1..n -> APane]
      BY <1>0
    <3>2. OneLess(RemoveAt(windows, k), windows, k, n, APane)
      BY <3>1, <1>0, Removed
    <3>3. QED
      BY <2>1, <3>2 DEF OneLess
  <2>3. ASSUME NEW j \in 1..(n - 1) PROVE \E i \in 1..n : windows'[j] = windows[i]
    <3>1. j \in 1..n /\ j + 1 \in 1..n
      BY <1>0
    <3>2. CASE j < k
      BY <2>2, <3>1, <3>2
    <3>3. CASE ~(j < k)
      <4>1. windows'[j] = windows[j + 1]
        BY <2>2, <3>3
      <4>2. QED
        BY <3>1, <4>1
    <3>4. QED
      BY <3>2, <3>3
  <2>4. n - 1 \in Nat
    BY <1>0
  <2>5. RowsAreOfTheirPlace'
    BY <1>0, <2>1, <2>2, <2>3, <2>4, PanesStay
  <2>6. QED
    BY <2>1, <2>2, <2>4, <2>5 DEF PanesOK
<1>6. ASSUME NEW k \in DOMAIN windows, NEW mode \in {"cut", "copy"}, NEW names \in SUBSET Names,
             SetClipboard(k, mode, names)
      PROVE  PanesOK' /\ RowsAreOfTheirPlace'
  <2> DEFINE items == {[image |-> windows[k].image, place |-> windows[k].place, name |-> x]
                        : x \in names}
  <2>1. windows[k] \in APane
    BY PanesTyped
  <2>2. items \in SUBSET Item
    BY <2>1 DEF APane, Item
  <2>3. clipboard' = [mode |-> mode, pane |-> k, items |-> items] /\ k \in Nat
        /\ cuts' = cuts + 1
        /\ UNCHANGED <<disk, windows, requests, pastes, objects>>
    BY <1>0, <1>6 DEF SetClipboard
  <2> HIDE DEF items
  <2>4. QED
    BY <2>2, <2>3 DEF PanesOK, RowsAreOfTheirPlace, Request
<1>7. ASSUME NEW k \in DOMAIN windows, Paste(k) PROVE PanesOK' /\ RowsAreOfTheirPlace'
  <2>1. PICK m \in Nat : pastes \in [1..m -> APaste \union {Over}]
    BY DEF PanesOK
  <2>2. PICK way \in {"moving", "copying", "refused"} :
          /\ clipboard # None
          /\ pastes' = Append(pastes,
              [cut |-> clipboard.mode = "cut", items |-> clipboard.items, left |-> clipboard.items,
               k |-> k, id |-> windows[k].id, image |-> windows[k].image,
               place |-> windows[k].place, at |-> way, done |-> FALSE, reload |-> None])
          /\ windows' = [windows EXCEPT ![k].loading = @ \/ way # "refused"]
          /\ UNCHANGED <<disk, requests, clipboard, cuts, objects>>
    BY <1>7 DEF Paste
  <2> DEFINE paste == [cut |-> clipboard.mode = "cut", items |-> clipboard.items,
               left |-> clipboard.items,
               k |-> k, id |-> windows[k].id, image |-> windows[k].image,
               place |-> windows[k].place, at |-> way, done |-> FALSE, reload |-> None]
  <2>3. windows[k] \in APane /\ k \in Nat
    BY <1>0
  <2>4. clipboard.items \in SUBSET Item
    BY <2>2 DEF PanesOK
  <2>5. paste \in APaste
    BY <2>3, <2>4 DEF APaste, APane
  <2> HIDE DEF paste
  <2>6. pastes' \in [1..(m + 1) -> APaste \union {Over}]
    <3>1. pastes \in Seq(APaste \union {Over}) /\ Len(pastes) = m
      BY <2>1, SeqOfFunction
    <3>2. pastes' = Append(pastes, paste)
      BY <2>2 DEF paste
    <3>3. pastes' \in Seq(APaste \union {Over}) /\ Len(pastes') = m + 1
      BY <2>5, <3>1, <3>2, AppendProperties
    <3>4. QED
      BY <3>3, LenProperties
  <2>7. windows' \in [1..n -> APane]
    BY <1>0, <2>2, ZenonT(40) DEF APane
  <2>8. \A j \in 1..n : /\ windows'[j].id = windows[j].id
                        /\ windows'[j].token = windows[j].token
                        /\ windows'[j].image = windows[j].image
                        /\ windows'[j].place = windows[j].place
                        /\ windows'[j].rows = windows[j].rows
                        /\ windows'[j].told = windows[j].told
    BY <1>0, <2>2 DEF APane
  <2>9. RowsAreOfTheirPlace'
    BY <1>0, <2>2, <2>7, <2>8, PanesStay
  <2>10. m + 1 \in Nat
    OBVIOUS
  <2>11. QED
    BY <2>2, <2>6, <2>7, <2>9, <2>10 DEF PanesOK
<1>8. ASSUME NEW p \in DOMAIN pastes, Move(p) PROVE PanesOK' /\ RowsAreOfTheirPlace'
  <2> DEFINE items == {i \in pastes[p].items : Target(p, i) # i}
             shared == {k \in DOMAIN windows : windows[k].image = pastes[p].image}
             paste == [pastes[p] EXCEPT !.at = "refused"]
  <2>1. pastes[p] \in APaste /\ paste \in APaste
    <3>1. pastes[p] \in APaste
      BY <1>8, PanesTyped DEF Move, Going
    <3>2. QED
      BY <3>1 DEF APaste
  <2>2. pastes' = [pastes EXCEPT ![p] = paste] /\ UNCHANGED <<clipboard, cuts, objects>>
    BY <1>8 DEF Move
  <2>3. \E m \in Nat : pastes' \in [1..m -> APaste \union {Over}]
    <3> HIDE DEF paste
    <3>1. QED
      BY <2>1, <2>2, PasteGoesOn
  <2>4. CASE /\ disk' = {f \in disk : Path(f) \notin items} \union Placed(p, items)
             /\ Load(windows, shared)
    <3>1. disk' \subseteq AFile
      BY <2>1, <2>4, PlacedTyped DEF PanesOK
    <3>2. shared \in SUBSET (1..n)
      BY <1>0
    <3> HIDE DEF shared
    <3>3. windows' \in [1..n -> APane] /\ requests' \subseteq ARequest /\ RowsAreOfTheirPlace'
      BY <1>0, <2>4, <3>2, PanesLoad
    <3>4. QED
      BY <2>2, <2>3, <3>1, <3>3 DEF PanesOK
  <2>5. CASE /\ windows' = [k \in DOMAIN windows |-> [windows[k] EXCEPT !.loading =
                                  IF windows[k].id = pastes[p].id THEN FALSE ELSE @]]
             /\ UNCHANGED <<disk, requests, loads>>
    <3>1. windows' \in [1..n -> APane]
      BY <1>0, <2>5, ZenonT(40) DEF APane
    <3>2. \A j \in 1..n : /\ windows'[j].id = windows[j].id
                          /\ windows'[j].token = windows[j].token
                          /\ windows'[j].image = windows[j].image
                          /\ windows'[j].place = windows[j].place
                          /\ windows'[j].rows = windows[j].rows
                          /\ windows'[j].told = windows[j].told
      BY <1>0, <2>5 DEF APane
    <3>3. RowsAreOfTheirPlace'
      BY <1>0, <2>5, <3>1, <3>2, PanesStay, ZenonT(40)
    <3>4. QED
      BY <2>2, <2>3, <2>5, <3>1, <3>3 DEF PanesOK
  <2>6. QED
    BY <1>8, <2>4, <2>5 DEF Move
<1>9. ASSUME NEW p \in DOMAIN pastes, Copy(p) \/ CopyFails(p)
      PROVE  PanesOK' /\ RowsAreOfTheirPlace'
  <2>1. pastes[p] \in APaste /\ UNCHANGED <<clipboard, cuts, objects>>
    BY <1>9, PanesTyped DEF Copy, CopyFails, Going
  <2>2. ASSUME NEW done \in BOOLEAN, Reloads(p, done), UNCHANGED disk
        PROVE  PanesOK' /\ RowsAreOfTheirPlace'
    <3>1. disk' \subseteq AFile
      BY <2>2 DEF PanesOK
    <3>2. QED
      BY <2>1, <2>2, <3>1, ReloadsKeeps
  <2>3. ASSUME NEW item \in pastes[p].left, Transfer(p, item)
        PROVE  PanesOK' /\ RowsAreOfTheirPlace'
    <3>1. CASE item \in Present /\ Target(p, item) \notin Present
      <4> DEFINE paste == [pastes[p] EXCEPT !.left = @ \ {item}]
      <4>1. /\ disk' = disk \union Placed(p, {item})
            /\ pastes' = [pastes EXCEPT ![p] = paste]
            /\ UNCHANGED <<windows, requests, loads>>
        BY <2>3, <3>1 DEF Transfer
      <4>2. paste \in APaste
        BY <2>1 DEF APaste
      <4> HIDE DEF paste
      <4>3. \E m \in Nat : pastes' \in [1..m -> APaste \union {Over}]
        BY <4>1, <4>2, PasteGoesOn
      <4>4. disk' \subseteq AFile
        BY <2>1, <4>1, PlacedTyped DEF PanesOK
      <4>5. QED
        BY <2>1, <4>1, <4>3, <4>4 DEF PanesOK, RowsAreOfTheirPlace, Request
    <3>2. CASE ~(item \in Present /\ Target(p, item) \notin Present)
      BY <2>2, <2>3, <3>2 DEF Transfer
    <3>3. QED
      BY <3>1, <3>2
  <2>4. QED
    BY <1>9, <2>2, <2>3 DEF Copy, CopyFails
<1>10. ASSUME NEW p \in DOMAIN pastes, DeleteSources(p) PROVE PanesOK' /\ RowsAreOfTheirPlace'
  <2> DEFINE shared == {k \in DOMAIN windows :
                          windows[k].image \in {i.image : i \in pastes[p].items}}
             paste == [pastes[p] EXCEPT !.at = "refused"]
  <2>1. pastes[p] \in APaste /\ paste \in APaste
    <3>1. pastes[p] \in APaste
      BY <1>10, PanesTyped DEF DeleteSources, Going
    <3>2. QED
      BY <3>1 DEF APaste
  <2>2. pastes' = [pastes EXCEPT ![p] = paste] /\ UNCHANGED <<clipboard, cuts, objects>>
    BY <1>10 DEF DeleteSources
  <2>3. \E m \in Nat : pastes' \in [1..m -> APaste \union {Over}]
    <3> HIDE DEF paste
    <3>1. QED
      BY <2>1, <2>2, PasteGoesOn
  <2>4. CASE /\ disk' = {f \in disk : Path(f) \notin pastes[p].items}
             /\ Load(windows, shared)
    <3>1. disk' \subseteq AFile
      BY <2>4 DEF PanesOK
    <3>2. shared \in SUBSET (1..n)
      BY <1>0
    <3> HIDE DEF shared
    <3>3. windows' \in [1..n -> APane] /\ requests' \subseteq ARequest /\ RowsAreOfTheirPlace'
      BY <1>0, <2>4, <3>2, PanesLoad
    <3>4. QED
      BY <2>2, <2>3, <3>1, <3>3 DEF PanesOK
  <2>5. CASE UNCHANGED <<disk, windows, requests, loads>>
    BY <2>2, <2>3, <2>5 DEF PanesOK, RowsAreOfTheirPlace, Request
  <2>6. QED
    BY <1>10, <2>4, <2>5 DEF DeleteSources
<1>11. ASSUME NEW p \in DOMAIN pastes, Finish(p) PROVE PanesOK' /\ RowsAreOfTheirPlace'
  <2>1. /\ pastes' = [pastes EXCEPT ![p] = Over] /\ clipboard' = None
        /\ UNCHANGED <<disk, windows, requests, cuts, objects>>
    BY <1>11 DEF Finish, Over
  <2>2. \E m \in Nat : pastes' \in [1..m -> APaste \union {Over}]
    BY <2>1, PasteGoesOn
  <2>3. QED
    BY <2>1, <2>2 DEF PanesOK, RowsAreOfTheirPlace, Request
<1>12. ASSUME NEW k \in DOMAIN windows, NEW name \in Names, Create(k, name)
       PROVE  PanesOK' /\ RowsAreOfTheirPlace'
  <2>1. windows[k] \in APane
    BY PanesTyped
  <2>2. disk' = disk \union {File(windows[k].image, windows[k].place, name, "new")}
    BY <1>12 DEF Create
  <2>3. disk' \subseteq AFile
    BY <2>1, <2>2 DEF PanesOK, File, APane, AFile
  <2>4. Load(windows, {k}) /\ UNCHANGED <<pastes, cuts, objects>>
        /\ clipboard' \in {clipboard, None}
    BY <1>12 DEF Create
  <2>5. windows' \in [1..n -> APane] /\ requests' \subseteq ARequest /\ RowsAreOfTheirPlace'
    BY <1>0, <2>4, PanesLoad
  <2>6. QED
    BY <2>3, <2>4, <2>5 DEF PanesOK
<1>13. QED
  BY <1>1, <1>2, <1>3, <1>4, <1>5, <1>6, <1>7, <1>8, <1>9, <1>10, <1>11, <1>12 DEF PanesNext

(* No pane shows the rows of another directory or another image than its     *)
(* own, in whatever order any number of directories, panes and images are    *)
(* asked for and answered.                                                   *)
THEOREM PanesShowTheirPlace == PanesSpec => []RowsAreOfTheirPlace
  BY InitPanes, NextPanes, PTL DEF PanesSpec

-----------------------------------------------------------------------------
(* The clipboard.                                                            *)

\* No file leaves the disk but from where an item is, and none comes there but
\* a new one.
Keeps(items) ==
    /\ \A x \in disk : Path(x) \notin items => x \in disk'
    /\ \A x \in disk' : Path(x) \in items /\ x.content \in Contents => x \in disk

(* What is safe stays so.                                                    *)
LEMMA SafeStays ==
    ASSUME NEW items, Keeps(items)
    PROVE  /\ \A c : Safe(c, items) => Safe(c, items)'
           /\ \A paste : PasteIsSafe(paste, items) => PasteIsSafe(paste, items)'
<1>1. \A c : Safe(c, items) => Safe(c, items)'
  BY DEF Keeps, Safe, Path
<1>2. Contents' = Contents
  BY DEF Contents, TheFiles, File
<1>3. ASSUME NEW paste, PasteIsSafe(paste, items), paste.at \in {"copying", "copied"},
             NEW x \in disk', x.content \in Contents, Path(x) \in items \ paste.left
      PROVE  Safe(x.content, items)'
  <2>1. x \in disk
    BY <1>3 DEF Keeps
  <2>2. Safe(x.content, items)
    BY <1>3, <2>1 DEF PasteIsSafe
  <2>3. QED
    BY <1>1, <2>2
<1>4. QED
  BY <1>1, <1>2, <1>3 DEF PasteIsSafe, Path

(* One paste goes on, and the others are what they were.                     *)
LEMMA OnePaste ==
    ASSUME NEW items \in SUBSET Item, CutOf(items), Keeps(items),
           NEW p \in DOMAIN pastes, DOMAIN pastes' = DOMAIN pastes,
           \A q \in DOMAIN pastes \ {p} : pastes'[q] = pastes[q],
           (pastes[p] # Over => PasteIsSafe(pastes[p], items))',
           CutIsKept', clipboard' \in {clipboard, None}
    PROVE  CutOf(items)'
<1>1. ASSUME NEW q \in DOMAIN pastes PROVE (pastes[q] # Over => PasteIsSafe(pastes[q], items))'
  <2>1. CASE q = p
    BY <2>1
  <2>2. CASE q # p
    <3>1. pastes'[q] = pastes[q]
      BY <2>2
    <3>2. pastes[q] # Over => PasteIsSafe(pastes[q], items)
      BY DEF CutOf
    <3>3. QED
      BY <3>1, <3>2, SafeStays DEF PasteIsSafe, Path, Contents, TheFiles, File
  <2>3. QED
    BY <2>1, <2>2
<1>2. QED
  BY <1>1 DEF CutOf

LEMMA DiskStays ==
    ASSUME CutIsKept, disk \subseteq disk'
    PROVE  CutIsKept'
BY DEF CutIsKept, TheFiles, File

(* Nothing is pasted, and nothing leaves the disk.                           *)
LEMMA NoPaste ==
    ASSUME NEW items \in SUBSET Item, CutOf(items), disk \subseteq disk', Keeps(items),
           UNCHANGED pastes, clipboard' \in {clipboard, None}
    PROVE  CutOf(items)'
<1>1. ASSUME NEW p \in DOMAIN pastes PROVE (pastes[p] # Over => PasteIsSafe(pastes[p], items))'
  <2>1. pastes[p] # Over => PasteIsSafe(pastes[p], items)
    BY DEF CutOf
  <2>2. QED
    BY <2>1, SafeStays DEF PasteIsSafe, Path, Contents, TheFiles, File
<1>2. QED
  BY <1>1, DiskStays DEF CutOf

(* What performTransfers() does at its end keeps what a paste has copied.    *)
LEMMA ReloadsIsSafe ==
    ASSUME PanesOK, RowsAreOfTheirPlace, NEW items \in SUBSET Item, CutOf(items),
           NEW p \in DOMAIN pastes, Going(p, "copying"), NEW done \in BOOLEAN,
           done => pastes[p].left = {}, Reloads(p, done),
           UNCHANGED <<disk, clipboard, cuts, objects>>
    PROVE  CutOf(items)'
<1>1. pastes[p] \in APaste /\ pastes[p].at = "copying" /\ pastes[p] # Over
  BY PanesTyped DEF Going, Over
<1>2. disk' \subseteq AFile
  BY DEF PanesOK
<1>3. /\ DOMAIN pastes' = DOMAIN pastes
      /\ \A q \in DOMAIN pastes \ {p} : pastes'[q] = pastes[q]
      /\ pastes'[p].items = pastes[p].items /\ pastes'[p].left = pastes[p].left
      /\ pastes'[p].at \in {"copied", "refused"}
      /\ pastes'[p].at = "copied" => pastes'[p].done = done
  BY <1>1, <1>2, ReloadsKeeps
<1>4. Keeps(items) /\ CutIsKept'
  BY DiskStays DEF Keeps, CutOf
<1>5. (pastes[p] # Over => PasteIsSafe(pastes[p], items))'
  <2>1. PasteIsSafe(pastes[p], items)
    BY <1>1 DEF CutOf
  <2>2. \A x \in disk : x.content \in Contents /\ Path(x) \in items \ pastes[p].left
            => Safe(x.content, items)'
    BY <1>1, <1>4, <2>1, SafeStays DEF PasteIsSafe
  <2>3. Contents' = Contents
    BY DEF Contents, TheFiles, File
  <2>4. QED
    BY <1>3, <2>1, <2>2, <2>3 DEF PasteIsSafe, Path
<1>6. QED
  BY <1>3, <1>4, <1>5, OnePaste

LEMMA TargetFields ==
    ASSUME NEW p, NEW i \in Item
    PROVE  Target(p, i) = [image |-> pastes[p].image, place |-> pastes[p].place, name |-> i.name]
<1>1. i = [image |-> i.image, place |-> i.place, name |-> i.name]
  BY DEF Item
<1> DEFINE j == [image |-> i.image, place |-> i.place, name |-> i.name]
<1>2. Target(p, i) = [j EXCEPT !.image = pastes[p].image, !.place = pastes[p].place]
  BY <1>1 DEF Target
<1>3. QED
  BY <1>2

(* The items of the clipboard, moved by one request.                         *)
LEMMA MoveIsSafe ==
    ASSUME PanesOK, NEW items \in SUBSET Item, CutOf(items),
           NEW p \in DOMAIN pastes, Move(p)
    PROVE  CutOf(items)'
<1> DEFINE moved == {i \in pastes[p].items : Target(p, i) # i}
<1>1. /\ pastes[p] \in APaste /\ pastes[p] # Over /\ PasteIsSafe(pastes[p], items)
      /\ pastes[p].items = items
  BY PanesTyped DEF Move, Going, Over, CutOf, PasteIsSafe
<1>2. /\ DOMAIN pastes' = DOMAIN pastes
      /\ \A q \in DOMAIN pastes \ {p} : pastes'[q] = pastes[q]
      /\ pastes'[p].items = items /\ pastes'[p].left = pastes[p].left
      /\ pastes'[p].at = "refused" /\ UNCHANGED <<clipboard, cuts>>
  BY <1>1 DEF Move, PanesOK, APaste
<1>3. (pastes[p] # Over => PasteIsSafe(pastes[p], items))'
  BY <1>1, <1>2 DEF PasteIsSafe
<1>4. CASE disk' = disk
  <2>1. Keeps(items) /\ CutIsKept'
    BY <1>4, DiskStays DEF Keeps, CutOf
  <2>2. QED
    BY <1>2, <1>3, <2>1, OnePaste
<1>5. CASE /\ disk' = {f \in disk : Path(f) \notin moved} \union Placed(p, moved)
           /\ moved # {} /\ moved \subseteq Present
           /\ Present \intersect {Target(p, i) : i \in moved} = {}
  <2>1. moved \subseteq items
    BY <1>1
  <2>2. ASSUME NEW f \in disk, Path(f) \in moved
        PROVE  LET x == File(pastes[p].image, pastes[p].place, f.name, f.content)
               IN  Path(x) \notin items
    <3> DEFINE x == File(pastes[p].image, pastes[p].place, f.name, f.content)
    <3>1. f \in AFile
      BY DEF PanesOK
    <3>2. Path(x) = Target(p, Path(f))
      <4>1. Path(f) \in Item /\ Path(f).name = f.name
        BY <3>1 DEF Path, AFile, Item
      <4>2. Path(x) = [image |-> pastes[p].image, place |-> pastes[p].place, name |-> f.name]
        BY DEF Path, File
      <4>3. QED
        BY <4>1, <4>2, TargetFields
    <3>3. ASSUME Path(x) \in items PROVE FALSE
      <4>1. Path(f) \in items
        BY <2>1, <2>2
      <4>2. Path(x).image = Path(f).image /\ Path(x).place = Path(f).place
        BY <3>3, <4>1 DEF CutOf
      <4>3. Path(x).name = Path(f).name
        BY DEF Path, File
      <4>4. Path(x) = Path(f)
        BY <4>2, <4>3 DEF Path, File
      <4>5. QED
        BY <2>2, <3>2, <4>4
    <3>4. QED
      BY <3>3
  <2>3. Keeps(items)
    <3>1. \A x \in disk : Path(x) \notin items => x \in disk'
      BY <1>5, <2>1
    <3>2. \A x \in Placed(p, moved) : Path(x) \notin items
      BY <2>2 DEF Placed
    <3>3. QED
      BY <1>5, <3>1, <3>2 DEF Keeps
  <2>4. CutIsKept'
    <3>1. ASSUME NEW f \in TheFiles PROVE \E x \in disk' : x.content = f.content
      <4>1. PICK x \in disk : x.content = f.content
        BY DEF CutOf, CutIsKept
      <4>2. CASE Path(x) \notin moved
        BY <1>5, <4>1, <4>2
      <4>3. CASE Path(x) \in moved
        <5>1. File(pastes[p].image, pastes[p].place, x.name, x.content) \in disk'
          BY <1>5, <4>3 DEF Placed
        <5>2. QED
          BY <4>1, <5>1 DEF File
      <4>4. QED
        BY <4>2, <4>3
    <3>2. QED
      BY <3>1 DEF CutIsKept, TheFiles, File
  <2>5. QED
    BY <1>2, <1>3, <2>3, <2>4, OnePaste
<1>6. QED
  BY <1>4, <1>5 DEF Move

(* One item is copied to where nothing was: no item is there.                *)
LEMMA TransferIsSafe ==
    ASSUME PanesOK, NEW items \in SUBSET Item, CutOf(items),
           NEW p \in DOMAIN pastes, Going(p, "copying"), NEW item \in pastes[p].left,
           item \in Present, Target(p, item) \notin Present, Transfer(p, item),
           UNCHANGED <<clipboard, cuts>>
    PROVE  CutOf(items)'
<1>1. /\ pastes[p] \in APaste /\ pastes[p] # Over /\ PasteIsSafe(pastes[p], items)
      /\ pastes[p].items = items /\ pastes[p].at = "copying"
  BY PanesTyped DEF Going, Over, CutOf, PasteIsSafe
<1>2. /\ disk' = disk \union Placed(p, {item})
      /\ pastes' = [pastes EXCEPT ![p].left = @ \ {item}]
  BY DEF Transfer
<1>3. /\ DOMAIN pastes' = DOMAIN pastes
      /\ \A q \in DOMAIN pastes \ {p} : pastes'[q] = pastes[q]
      /\ pastes'[p].items = items /\ pastes'[p].at = "copying"
      /\ pastes'[p].left = pastes[p].left \ {item}
  BY <1>1, <1>2 DEF PanesOK, APaste
<1>4. item \in Item
  BY <1>1 DEF APaste
<1>5. Target(p, item) \notin items
  <2>1. item \in items /\ Target(p, item).name = item.name
    BY <1>1, <1>4, TargetFields DEF PasteIsSafe
  <2>2. ASSUME Target(p, item) \in items PROVE FALSE
    <3>1. Target(p, item).image = item.image /\ Target(p, item).place = item.place
      BY <2>1, <2>2 DEF CutOf
    <3>2. Target(p, item) = item
      BY <1>4, <2>1, <2>2, <3>1 DEF Item
    <3>3. QED
      BY <3>2
  <2>3. QED
    BY <2>2
<1>6. ASSUME NEW f \in disk, Path(f) = item
      PROVE  LET x == File(pastes[p].image, pastes[p].place, f.name, f.content)
             IN  Path(x) \notin items
  <2> DEFINE x == File(pastes[p].image, pastes[p].place, f.name, f.content)
  <2>1. f \in AFile
    BY DEF PanesOK
  <2>2. Path(x) = Target(p, Path(f))
    <3>1. Path(f) \in Item /\ Path(f).name = f.name
      BY <2>1 DEF Path, AFile, Item
    <3>2. Path(x) = [image |-> pastes[p].image, place |-> pastes[p].place, name |-> f.name]
      BY DEF Path, File
    <3>3. QED
      BY <3>1, <3>2, TargetFields
  <2>3. QED
    BY <1>5, <1>6, <2>2
<1>7. Keeps(items) /\ CutIsKept'
  <2>1. \A x \in Placed(p, {item}) : Path(x) \notin items
    BY <1>6 DEF Placed
  <2>2. QED
    BY <1>2, <2>1, DiskStays DEF Keeps, CutOf
<1>8. (pastes[p] # Over => PasteIsSafe(pastes[p], items))'
  <2>1. ASSUME NEW f \in disk', f.content \in Contents,
               Path(f) \in items \ (pastes[p].left \ {item})
        PROVE  Safe(f.content, items)'
    <3>1. f \in disk
      BY <1>7, <2>1 DEF Keeps
    <3>2. CASE Path(f) = item
      <4> DEFINE x == File(pastes[p].image, pastes[p].place, f.name, f.content)
      <4>1. x \in disk' /\ x.content = f.content /\ Path(x) \notin items
        BY <1>2, <1>6, <3>1, <3>2 DEF Placed, File
      <4> HIDE DEF x
      <4>2. QED
        BY <4>1 DEF Safe, Path
    <3>3. CASE Path(f) # item
      <4>1. Safe(f.content, items)
        BY <1>1, <2>1, <3>1, <3>3 DEF PasteIsSafe
      <4>2. QED
        BY <1>7, <4>1, SafeStays
    <3>4. QED
      BY <3>2, <3>3
  <2>2. Contents' = Contents
    BY DEF Contents, TheFiles, File
  <2>3. QED
    BY <1>1, <1>3, <2>1, <2>2 DEF PasteIsSafe, Path
<1>9. QED
  BY <1>3, <1>7, <1>8, OnePaste

(* The items go when all of them were copied, and what was there is safe.    *)
LEMMA DeleteIsSafe ==
    ASSUME PanesOK, NEW items \in SUBSET Item, CutOf(items),
           NEW p \in DOMAIN pastes, DeleteSources(p)
    PROVE  CutOf(items)'
<1>1. /\ pastes[p] \in APaste /\ pastes[p] # Over /\ PasteIsSafe(pastes[p], items)
      /\ pastes[p].items = items /\ pastes[p].at = "copied"
  BY PanesTyped DEF DeleteSources, Going, Over, CutOf, PasteIsSafe
<1>2. /\ DOMAIN pastes' = DOMAIN pastes
      /\ \A q \in DOMAIN pastes \ {p} : pastes'[q] = pastes[q]
      /\ pastes'[p].items = items /\ pastes'[p].left = pastes[p].left
      /\ pastes'[p].at = "refused" /\ UNCHANGED <<clipboard, cuts>>
  BY <1>1 DEF DeleteSources, PanesOK, APaste
<1>3. (pastes[p] # Over => PasteIsSafe(pastes[p], items))'
  BY <1>1, <1>2 DEF PasteIsSafe
<1>4. CASE disk' = disk
  <2>1. Keeps(items) /\ CutIsKept'
    BY <1>4, DiskStays DEF Keeps, CutOf
  <2>2. QED
    BY <1>2, <1>3, <2>1, OnePaste
<1>5. CASE disk' = {f \in disk : Path(f) \notin items} /\ pastes[p].done
  <2>1. Keeps(items)
    BY <1>5 DEF Keeps
  <2>2. ASSUME NEW f \in TheFiles PROVE \E x \in disk' : x.content = f.content
    <3>1. PICK x \in disk : x.content = f.content
      BY DEF CutOf, CutIsKept
    <3>2. CASE Path(x) \notin items
      BY <1>5, <3>1, <3>2
    <3>3. CASE Path(x) \in items
      <4>1. x.content \in Contents
        BY <3>1 DEF Contents
      <4>2. Safe(x.content, items)
        BY <1>1, <1>5, <3>3, <4>1 DEF PasteIsSafe
      <4>3. QED
        BY <1>5, <3>1, <4>2 DEF Safe
    <3>4. QED
      BY <3>2, <3>3
  <2>3. CutIsKept'
    BY <2>2 DEF CutIsKept, TheFiles, File
  <2>4. QED
    BY <1>2, <1>3, <2>1, <2>3, OnePaste
<1>6. QED
  BY <1>1, <1>4, <1>5 DEF DeleteSources

(* Every step is of the items there are, but the one that puts others on the *)
(* clipboard when nothing is on its way.                                     *)
LEMMA NextCut ==
    ASSUME PanesOK, RowsAreOfTheirPlace, CutInv, [PanesNext]_paneVars,
           cuts' # cuts => \A p \in DOMAIN pastes : pastes[p] = Over
    PROVE  CutInv'
<1>1. PICK items \in SUBSET Item : CutOf(items)
  BY DEF CutInv
<1>2. ASSUME CutOf(items)' PROVE CutInv'
  BY <1>2 DEF CutInv, Item
<1>3. CASE UNCHANGED <<disk, clipboard, pastes>>
  <2>1. Keeps(items)
    BY <1>3 DEF Keeps
  <2>2. QED
    BY <1>1, <1>2, <1>3, <2>1, NoPaste
<1>4. ASSUME NEW k \in DOMAIN windows, NEW mode \in {"cut", "copy"}, NEW names \in SUBSET Names,
             SetClipboard(k, mode, names)
      PROVE  CutInv'
  <2>1. windows[k] \in APane
    BY PanesTyped
  <2>2. PICK new \in SUBSET Item :
          /\ clipboard' = [mode |-> mode, pane |-> k, items |-> new]
          /\ \A i, j \in new : i.image = j.image /\ i.place = j.place
    <3> DEFINE those == {[image |-> windows[k].image, place |-> windows[k].place, name |-> x]
                          : x \in names}
    <3>1. those \in SUBSET Item /\ \A i, j \in those : i.image = j.image /\ i.place = j.place
      BY <2>1 DEF APane, Item
    <3>2. clipboard' = [mode |-> mode, pane |-> k, items |-> those]
      BY <1>4 DEF SetClipboard
    <3> HIDE DEF those
    <3>3. QED
      BY <3>1, <3>2
  <2>3. cuts' # cuts /\ UNCHANGED <<disk, pastes>>
    BY <1>4 DEF SetClipboard, PanesOK
  <2>4. \A p \in DOMAIN pastes : pastes[p] = Over
    BY <2>3
  <2>5. CutIsKept'
    BY <1>1, <2>3, DiskStays DEF CutOf
  <2>6. CutOf(new)'
    BY <2>2, <2>3, <2>4, <2>5 DEF CutOf, Over
  <2>7. QED
    BY <2>6 DEF CutInv, Item
<1>5. ASSUME NEW k \in DOMAIN windows, Paste(k) PROVE CutInv'
  <2>1. PICK m \in Nat : pastes \in [1..m -> APaste \union {Over}]
    BY DEF PanesOK
  <2>2. PICK way \in {"moving", "copying", "refused"} :
          /\ clipboard # None
          /\ pastes' = Append(pastes,
              [cut |-> clipboard.mode = "cut", items |-> clipboard.items, left |-> clipboard.items,
               k |-> k, id |-> windows[k].id, image |-> windows[k].image,
               place |-> windows[k].place, at |-> way, done |-> FALSE, reload |-> None])
          /\ UNCHANGED <<disk, requests, clipboard, cuts, objects>>
    BY <1>5 DEF Paste
  <2> DEFINE paste == [cut |-> clipboard.mode = "cut", items |-> clipboard.items,
               left |-> clipboard.items,
               k |-> k, id |-> windows[k].id, image |-> windows[k].image,
               place |-> windows[k].place, at |-> way, done |-> FALSE, reload |-> None]
  <2>3. clipboard.items = items
    BY <1>1, <2>2 DEF CutOf
  <2>4. paste.items = items /\ paste.left = items /\ paste.at # "copied"
    BY <2>3
  <2>5. pastes' = Append(pastes, paste)
    BY <2>2
  <2>6. windows[k] \in APane /\ k \in Nat
    BY PanesTyped
  <2>7. paste \in APaste
    BY <2>2, <2>3, <2>6 DEF APaste, APane
  <2> HIDE DEF paste
  <2>8. DOMAIN pastes = 1..m /\ DOMAIN pastes' = 1..(m + 1)
        /\ pastes'[m + 1] = paste /\ \A p \in 1..m : pastes'[p] = pastes[p]
    <3>1. pastes \in Seq(APaste \union {Over}) /\ Len(pastes) = m
      BY <2>1, SeqOfFunction
    <3>2. QED
      BY <2>5, <2>7, <3>1, AppendProperties, LenProperties
  <2>9. Keeps(items) /\ CutIsKept'
    BY <1>1, <2>2, DiskStays DEF Keeps, CutOf
  <2>10. ASSUME NEW p \in DOMAIN pastes'
         PROVE  (pastes[p] # Over => PasteIsSafe(pastes[p], items))'
    <3>1. CASE p = m + 1
      <4>1. pastes'[p] = paste
        BY <2>8, <3>1
      <4>2. QED
        BY <2>4, <4>1 DEF PasteIsSafe
    <3>2. CASE p # m + 1
      <4>1. p \in DOMAIN pastes /\ pastes'[p] = pastes[p]
        BY <2>8, <3>2
      <4>2. pastes[p] # Over => PasteIsSafe(pastes[p], items)
        BY <1>1, <4>1 DEF CutOf
      <4>3. QED
        BY <2>9, <4>1, <4>2, SafeStays
            DEF PasteIsSafe, Path, Contents, TheFiles, File
    <3>3. QED
      BY <3>1, <3>2
  <2>11. CutOf(items)'
    BY <1>1, <2>2, <2>9, <2>10 DEF CutOf
  <2>12. QED
    BY <1>2, <2>11
<1>6. ASSUME NEW p \in DOMAIN pastes, Move(p) PROVE CutInv'
  BY <1>1, <1>2, <1>6, MoveIsSafe
<1>7. ASSUME NEW p \in DOMAIN pastes, Copy(p) \/ CopyFails(p) PROVE CutInv'
  <2>1. Going(p, "copying") /\ UNCHANGED <<clipboard, cuts, objects>>
    BY <1>7 DEF Copy, CopyFails
  <2>2. ASSUME NEW done \in BOOLEAN, done => pastes[p].left = {}, Reloads(p, done),
               UNCHANGED disk
        PROVE  CutInv'
    BY <1>1, <1>2, <2>1, <2>2, ReloadsIsSafe
  <2>3. ASSUME NEW item \in pastes[p].left, Transfer(p, item)
        PROVE  CutInv'
    <3>1. CASE item \in Present /\ Target(p, item) \notin Present
      BY <1>1, <1>2, <2>1, <2>3, <3>1, TransferIsSafe
    <3>2. CASE ~(item \in Present /\ Target(p, item) \notin Present)
      BY <2>2, <2>3, <3>2 DEF Transfer
    <3>3. QED
      BY <3>1, <3>2
  <2>4. QED
    BY <1>7, <2>2, <2>3 DEF Copy, CopyFails
<1>8. ASSUME NEW p \in DOMAIN pastes, DeleteSources(p) PROVE CutInv'
  BY <1>1, <1>2, <1>8, DeleteIsSafe
<1>9. ASSUME NEW p \in DOMAIN pastes, Finish(p) PROVE CutInv'
  <2>1. pastes' = [pastes EXCEPT ![p] = Over] /\ clipboard' = None /\ UNCHANGED <<disk, cuts>>
    BY <1>9 DEF Finish, Over
  <2>2. DOMAIN pastes' = DOMAIN pastes /\ \A q \in DOMAIN pastes \ {p} : pastes'[q] = pastes[q]
    BY <2>1, PasteGoesOn
  <2>3. (pastes[p] # Over => PasteIsSafe(pastes[p], items))'
    BY <2>1 DEF Over
  <2>4. Keeps(items) /\ CutIsKept'
    BY <1>1, <2>1, DiskStays DEF Keeps, CutOf
  <2>5. CutOf(items)'
    BY <1>1, <2>1, <2>2, <2>3, <2>4, OnePaste
  <2>6. QED
    BY <1>2, <2>5
<1>10. ASSUME NEW k \in DOMAIN windows, NEW name \in Names, Create(k, name) PROVE CutInv'
  <2>1. /\ disk' = disk \union {File(windows[k].image, windows[k].place, name, "new")}
        /\ UNCHANGED pastes /\ clipboard' \in {clipboard, None}
    BY <1>10 DEF Create
  <2>2. "new" \notin Contents
    BY PlacesAssumption DEF Contents, TheFiles, File
  <2>3. Keeps(items)
    BY <2>1, <2>2 DEF Keeps, File
  <2>4. QED
    BY <1>1, <1>2, <2>1, <2>3, NoPaste
<1>11. CASE UNCHANGED paneVars
  BY <1>3, <1>11 DEF paneVars
<1>12. CASE \/ \E k \in DOMAIN windows, place \in Places : Navigate(k, place)
            \/ \E k \in DOMAIN windows, image \in Images : AcceptImage(k, image)
            \/ \E k \in DOMAIN windows : ClosePane(k)
            \/ \E q \in requests : DirectoryComes(q) \/ DirectoryFails(q)
  BY <1>3, <1>12 DEF Navigate, AcceptImage, ClosePane, DirectoryComes, DirectoryFails, Answered
<1>13. QED
  BY <1>4, <1>5, <1>6, <1>7, <1>8, <1>9, <1>10, <1>11, <1>12 DEF PanesNext

LEMMA InitCut == PanesInit => CutInv
<1> SUFFICES ASSUME PanesInit PROVE CutOf({})
  BY DEF CutInv
<1>1. DOMAIN <<>> = {}
  OBVIOUS
<1>2. QED
  BY <1>1 DEF PanesInit, CutOf, CutIsKept

(* What is cut is not lost, however many panes there are, wherever they go,  *)
(* and however often it is pasted, before or after one of its pastes has     *)
(* failed, if no other files are cut while a paste is on its way.            *)
THEOREM CutFilesAreKept == PanesSpec /\ OneAtATime => []CutIsKept
<1>1. PanesInit => PanesOK /\ RowsAreOfTheirPlace /\ CutInv
  BY InitPanes, InitCut
<1>2. PanesOK /\ RowsAreOfTheirPlace /\ CutInv /\ [PanesNext]_paneVars
          /\ [cuts' # cuts => \A p \in DOMAIN pastes : pastes[p] = Over]_paneVars
        => (PanesOK /\ RowsAreOfTheirPlace /\ CutInv)'
  <2> SUFFICES ASSUME PanesOK, RowsAreOfTheirPlace, CutInv, [PanesNext]_paneVars,
                      [cuts' # cuts => \A p \in DOMAIN pastes : pastes[p] = Over]_paneVars
               PROVE  (PanesOK /\ RowsAreOfTheirPlace /\ CutInv)'
    OBVIOUS
  <2>1. cuts' # cuts => \A p \in DOMAIN pastes : pastes[p] = Over
    BY DEF paneVars
  <2>2. QED
    BY <2>1, NextPanes, NextCut
<1>3. CutInv => CutIsKept
  BY DEF CutInv, CutOf
<1>4. QED
  BY <1>1, <1>2, <1>3, PTL DEF PanesSpec, OneAtATime

-----------------------------------------------------------------------------
(* The source editor.                                                        *)

\* Each of the texts is the draft of its document.
Drafted(docs, whats) == \A x \in DOMAIN whats : x \in DOMAIN docs /\ docs[x].draft = whats[x]

LEMMA KeysAreThere == \A key \in Keys : key # Absent
BY DEF Keys, Absent

LEMMA CapturedDomain == DOMAIN Captured = DOMAIN documents
BY DEF Captured

(* Once the dialog is captured all that was typed is in the documents.       *)
LEMMA CapturedKeeps ==
    ASSUME EditorOK, EditorIsActive, DraftsAreKept
    PROVE  Drafted(Captured, typed)
<1> SUFFICES ASSUME NEW key \in DOMAIN typed
             PROVE  key \in DOMAIN Captured /\ Captured[key].draft = typed[key]
  BY DEF Drafted
<1>1. key # Absent
  BY KeysAreThere DEF EditorOK
<1>2. CASE IsEditor /\ key = active
  <2>1. active \in DOMAIN documents /\ content.value = typed[key]
    BY <1>1, <1>2 DEF EditorOK, EditorIsActive
  <2>2. Captured = [documents EXCEPT ![active] = [draft |-> content.value,
                                                  saved |-> content.saved]]
    BY <1>2, <2>1 DEF Captured
  <2>3. Captured[active] = [draft |-> content.value, saved |-> content.saved]
    BY <2>1, <2>2
  <2>4. QED
    BY <1>2, <2>1, <2>3, CapturedDomain
<1>3. CASE ~(IsEditor /\ key = active)
  <2>1. key \in DOMAIN documents /\ documents[key].draft = typed[key]
    BY <1>3 DEF DraftsAreKept
  <2>2. Captured[key] = documents[key]
    BY <1>3, <2>1 DEF Captured
  <2>3. QED
    BY <2>1, <2>2, CapturedDomain
<1>4. QED
  BY <1>2, <1>3

LEMMA WithoutKeeps ==
    ASSUME NEW docs, NEW whats, NEW ks, Drafted(docs, whats)
    PROVE  Drafted(Without(docs, ks), Without(whats, ks))
BY DEF Drafted, Without

LEMMA WithoutDomain ==
    ASSUME NEW docs, NEW ks
    PROVE  /\ DOMAIN Without(docs, ks) = DOMAIN docs \ ks
           /\ \A x \in DOMAIN docs \ ks : Without(docs, ks)[x] = docs[x]
BY DEF Without

(* No editor is in the dialog: all that is typed has to be a draft.          *)
LEMMA NoEditor ==
    ASSUME EditorOK', ~IsEditor', Drafted(documents, typed)'
    PROVE  (EditorOK /\ EditorIsActive /\ DraftsAreKept)'
BY DEF EditorIsActive, DraftsAreKept, Editing, IsEditor, Drafted

(* A file is asked for, and its document is there by then.                   *)
LEMMA AskKeeps ==
    ASSUME EditorOK, NEW key, NEW docs, key \in DOMAIN docs, DOMAIN docs \subseteq Keys,
           AskInspection(key, docs), UNCHANGED panes, DOMAIN typed' \subseteq Keys,
           \A x \in DOMAIN typed' : typed'[x] # Absent,
           Drafted(docs, typed')
    PROVE  (EditorOK /\ EditorIsActive /\ DraftsAreKept)'
<1>1. /\ documents' = docs /\ active' = key /\ content' = Reading
      /\ asked' = asked \union {[key |-> key, n |-> inspections]}
  BY DEF AskInspection
<1>2. ~IsEditor'
  BY <1>1 DEF IsEditor, Reading
<1>3. asked' \subseteq [key : Keys, n : Nat] /\ inspections' \in Nat
  BY <1>1 DEF EditorOK, AskInspection
<1>4. EditorOK'
  BY <1>1, <1>2, <1>3 DEF EditorOK, Keys
<1>5. Drafted(documents, typed)'
  BY <1>1 DEF Drafted
<1>6. QED
  BY <1>2, <1>4, <1>5, NoEditor

LEMMA PaneNumbers ==
    ASSUME EditorOK
    PROVE  DOMAIN panes \subseteq Nat /\ Len(panes) \in Nat
BY LenProperties DEF EditorOK

(* To move up is to stay apart.                                              *)
LEMMA MovedApart ==
    ASSUME NEW k \in Nat, NEW a \in Keys, NEW b \in Keys, a.pane # k, b.pane # k,
           Moved(a, k) = Moved(b, k)
    PROVE  a = b
<1>1. ASSUME NEW c \in Keys
      PROVE  /\ Moved(c, k).pane = IF c.pane > k THEN c.pane - 1 ELSE c.pane
             /\ Moved(c, k).file = c.file
  BY DEF Moved, Keys
<1>2. a.pane = b.pane /\ a.file = b.file
  <2>1. (IF a.pane > k THEN a.pane - 1 ELSE a.pane) = (IF b.pane > k THEN b.pane - 1 ELSE b.pane)
    BY <1>1
  <2>2. a.pane \in Nat /\ b.pane \in Nat
    BY DEF Keys
  <2>3. a.file = b.file
    BY <1>1
  <2>4. QED
    BY <2>1, <2>2, <2>3
<1>3. QED
  BY <1>2 DEF Keys

LEMMA MovedTyped ==
    ASSUME NEW k \in Nat \ {0}, NEW a \in Keys
    PROVE  Moved(a, k) \in Keys
BY DEF Moved, Keys

(* What is left of the documents is found under their new positions.         *)
LEMMA RenumberedKeeps ==
    ASSUME NEW k \in Nat \ {0}, NEW docs, DOMAIN docs \subseteq Keys
    PROVE  /\ DOMAIN Renumbered(docs, k) \subseteq Keys
           /\ \A key \in DOMAIN docs : key.pane # k =>
                /\ Moved(key, k) \in DOMAIN Renumbered(docs, k)
                /\ Renumbered(docs, k)[Moved(key, k)] = docs[key]
<1> DEFINE stay == {key \in DOMAIN docs : key.pane # k}
           which(new) == CHOOSE key \in stay : Moved(key, k) = new
<1>1. Renumbered(docs, k) = [new \in {Moved(key, k) : key \in stay} |-> docs[which(new)]]
  BY DEF Renumbered
<1>2. DOMAIN Renumbered(docs, k) = {Moved(key, k) : key \in stay}
  BY <1>1
<1>3. DOMAIN Renumbered(docs, k) \subseteq Keys
  BY <1>2, MovedTyped
<1>4. ASSUME NEW key \in DOMAIN docs, key.pane # k
      PROVE  /\ Moved(key, k) \in DOMAIN Renumbered(docs, k)
             /\ Renumbered(docs, k)[Moved(key, k)] = docs[key]
  <2>1. key \in stay
    BY <1>4
  <2>2. which(Moved(key, k)) \in stay /\ Moved(which(Moved(key, k)), k) = Moved(key, k)
    BY <2>1
  <2>3. which(Moved(key, k)) = key
    <3> DEFINE other == which(Moved(key, k))
    <3>1. other \in Keys /\ other.pane # k /\ Moved(other, k) = Moved(key, k)
      BY <2>2
    <3> HIDE DEF other
    <3>2. other = key
      BY <1>4, <3>1, MovedApart
    <3>3. QED
      BY <3>2 DEF other
  <2>4. Moved(key, k) \in {Moved(x, k) : x \in stay}
    BY <2>1
  <2> HIDE DEF which, stay
  <2>5. Renumbered(docs, k)[Moved(key, k)] = docs[which(Moved(key, k))]
    BY <1>1, <2>4
  <2>6. QED
    BY <1>2, <2>3, <2>4, <2>5
<1>5. QED
  BY <1>3, <1>4

(* A pane goes: what was typed for those that are left moves with them.      *)
LEMMA RemovePaneKeeps ==
    ASSUME EditorOK, EditorIsActive, DraftsAreKept, NEW k \in DOMAIN panes, RemovePane(k)
    PROVE  (EditorOK /\ EditorIsActive /\ DraftsAreKept)'
<1>0. k \in Nat \ {0} /\ Len(panes) \in Nat /\ k \in 1..Len(panes)
  BY LenProperties DEF EditorOK
<1> DEFINE Was(key) == IF key.pane < k THEN key ELSE [key EXCEPT !.pane = key.pane + 1]
           left == {Key(p, f) : p \in 1..(Len(panes) - 1), f \in Files}
<1>1. /\ ~open /\ open' = open
      /\ content' = content \/ (content' = Empty /\ Captured = documents)
      /\ panes' = RemoveAt(panes, k)
      /\ documents' = Renumbered(Captured, k)
      /\ active' = IF active = Absent \/ active.pane = k THEN Absent ELSE Moved(active, k)
      /\ asked' = {[q EXCEPT !.key = IF @.pane = k THEN [@ EXCEPT !.pane = 0] ELSE Moved(@, k)]
                      : q \in asked}
  BY DEF RemovePane
<1>2. /\ DOMAIN typed' = {x \in left : Was(x) \in DOMAIN typed}
      /\ \A x \in DOMAIN typed' : typed'[x] = typed[Was(x)]
  BY DEF RemovePane, TypedWithout
<1>3. ASSUME NEW x \in DOMAIN typed'
      PROVE  /\ x \in Keys /\ Was(x) \in DOMAIN typed /\ Was(x) \in Keys
             /\ Was(x).pane # k /\ Moved(Was(x), k) = x
  <2>1. x \in left /\ Was(x) \in DOMAIN typed
    BY <1>2
  <2>2. x \in Keys
    BY <1>0, <2>1 DEF Key, Keys
  <2>3. Was(x) = [pane |-> IF x.pane < k THEN x.pane ELSE x.pane + 1, file |-> x.file]
    BY <1>0, <2>2 DEF Keys
  <2>4. Was(x) \in Keys /\ Was(x).pane # k
    BY <1>0, <2>2, <2>3 DEF Keys
  <2>5. Moved(Was(x), k) = x
    <3>1. CASE x.pane < k
      <4>1. Was(x) = x
        BY <3>1
      <4>2. QED
        BY <1>0, <2>2, <3>1, <4>1 DEF Moved, Keys
    <3>2. CASE ~(x.pane < k)
      <4>1. Was(x) = [pane |-> x.pane + 1, file |-> x.file]
        BY <2>3, <3>2
      <4>2. /\ Was(x).pane = x.pane + 1 /\ Was(x).pane > k /\ Was(x).file = x.file
            /\ Was(x).pane - 1 = x.pane
        BY <1>0, <2>2, <3>2, <4>1 DEF Keys
      <4> HIDE DEF Was
      <4>3. Moved(Was(x), k) = [Was(x) EXCEPT !.pane = x.pane]
        BY <4>2 DEF Moved
      <4>4. Moved(Was(x), k) = [pane |-> x.pane, file |-> x.file]
        BY <4>1, <4>3
      <4>5. QED
        BY <2>2, <4>4 DEF Keys
    <3>3. QED
      BY <3>1, <3>2
  <2>6. QED
    BY <2>1, <2>2, <2>4, <2>5
<1> HIDE DEF Was, left
<1>4. Drafted(Captured, typed) /\ DOMAIN Captured \subseteq Keys
  BY CapturedKeeps, CapturedDomain DEF EditorOK
<1>5. /\ DOMAIN documents' \subseteq Keys
      /\ \A key \in DOMAIN Captured : key.pane # k =>
            /\ Moved(key, k) \in DOMAIN documents'
            /\ documents'[Moved(key, k)] = Captured[key]
  BY <1>0, <1>1, <1>4, RenumberedKeeps
<1>6. Drafted(documents, typed)'
  <2>1. ASSUME NEW x \in DOMAIN typed'
        PROVE  x \in DOMAIN documents' /\ documents'[x].draft = typed'[x]
    <3>1. Was(x) \in DOMAIN Captured /\ Captured[Was(x)].draft = typed[Was(x)]
      BY <1>3, <1>4 DEF Drafted
    <3>2. x \in DOMAIN documents' /\ documents'[x] = Captured[Was(x)]
      BY <1>3, <1>5, <3>1
    <3>3. QED
      BY <1>2, <3>1, <3>2
  <2>2. QED
    BY <2>1 DEF Drafted
<1>7. panes' \in Seq({"disk", "other"})
  <2>1. OneLess(RemoveAt(panes, k), panes, k, Len(panes), {"disk", "other"})
    <3>1. panes \in [1..Len(panes) -> {"disk", "other"}]
      BY LenProperties DEF EditorOK
    <3>2. QED
      BY <1>0, <3>1, Removed
  <2>2. Len(panes) - 1 \in Nat
    BY <1>0
  <2>3. QED
    BY <1>1, <2>1, <2>2, SeqOfFunction DEF OneLess
<1>8. ASSUME active' # Absent
      PROVE  /\ active # Absent /\ active \in DOMAIN documents /\ active \in Keys
             /\ active.pane # k /\ active' = Moved(active, k) /\ active' \in DOMAIN documents'
  <2>1. active # Absent /\ active.pane # k /\ active' = Moved(active, k)
    BY <1>1, <1>8
  <2>2. active \in DOMAIN documents /\ active \in Keys
    BY <2>1 DEF EditorOK
  <2>3. QED
    BY <1>5, <2>1, <2>2, CapturedDomain
<1>9. asked' \subseteq [key : Keys, n : Nat] /\ inspections' \in Nat
  <2>1. ASSUME NEW q \in asked
        PROVE  [q EXCEPT !.key = IF @.pane = k THEN [@ EXCEPT !.pane = 0]
                                 ELSE Moved(@, k)] \in [key : Keys, n : Nat]
    <3>1. q.key \in Keys /\ q \in [key : Keys, n : Nat]
      BY DEF EditorOK
    <3>2. [q.key EXCEPT !.pane = 0] \in Keys /\ Moved(q.key, k) \in Keys
      BY <1>0, <3>1, MovedTyped DEF Keys
    <3>3. QED
      BY <3>1, <3>2
  <2>2. QED
    BY <1>1, <2>1 DEF EditorOK, RemovePane
<1>10. EditorOK'
  <2>1. DOMAIN typed' \subseteq Keys
    BY <1>3
  <2>2. \A x \in DOMAIN typed' : typed'[x] # Absent
    BY <1>2, <1>3 DEF EditorOK
  <2>3. (IsEditor => /\ content.key \in Keys
                     /\ content = Sheet(content.key, content.value, content.saved,
                                        content.sha))'
    BY <1>1 DEF EditorOK, IsEditor, Empty, Sheet
  <2>4. QED
    BY <1>5, <1>7, <1>8, <1>9, <2>1, <2>2, <2>3 DEF EditorOK, Keys
<1>11. EditorIsActive'
  <2>1. ASSUME IsEditor', active' \in DOMAIN typed' PROVE content'.value = typed'[active']
    <3>1. content' = content /\ IsEditor
      BY <1>1, <2>1 DEF IsEditor, Empty
    <3>2. active' # Absent
      BY <1>3, <2>1, KeysAreThere
    <3>3. Was(active') \in DOMAIN typed /\ Was(active') = active
      <4>1. Was(active') \in Keys /\ Was(active').pane # k /\ Moved(Was(active'), k) = active'
        BY <1>3, <2>1
      <4>2. active \in Keys /\ active.pane # k /\ active' = Moved(active, k)
        BY <1>8, <3>2
      <4> DEFINE other == Was(active')
      <4> HIDE DEF other
      <4>3. other = active
        BY <1>0, <4>1, <4>2, MovedApart DEF other
      <4>4. QED
        BY <1>3, <2>1, <4>3 DEF other
    <3>4. QED
      BY <1>2, <2>1, <3>1, <3>3 DEF EditorIsActive
  <2>2. QED
    BY <1>1, <2>1 DEF EditorIsActive, Editing
<1>12. QED
  BY <1>6, <1>10, <1>11 DEF DraftsAreKept, Drafted

(* The dialog and the documents stay, whatever else changes.                 *)
LEMMA DialogStays ==
    ASSUME EditorOK, EditorIsActive, DraftsAreKept, EditorOK',
           UNCHANGED <<documents, active, open, content, typed>>
    PROVE  (EditorOK /\ EditorIsActive /\ DraftsAreKept)'
BY DEF EditorIsActive, DraftsAreKept, Editing, IsEditor

LEMMA SavedSheet ==
    ASSUME NEW key, NEW value, NEW saved, NEW read
    PROVE  [Sheet(key, value, saved, read) EXCEPT !.saved = value, !.sha = value]
              = Sheet(key, value, value, value)
<1> DEFINE first == [is |-> "editor", key |-> key, value |-> value, saved |-> saved, sha |-> read]
           second == [is |-> "editor", key |-> key, value |-> value, saved |-> value, sha |-> read]
           third == [is |-> "editor", key |-> key, value |-> value, saved |-> value, sha |-> value]
<1>1. [first EXCEPT !.saved = value] = second
  OBVIOUS
<1>2. [second EXCEPT !.sha = value] = third
  OBVIOUS
<1>3. Sheet(key, value, saved, read) = first /\ Sheet(key, value, value, value) = third
  BY DEF Sheet
<1> HIDE DEF first, second, third
<1>4. [first EXCEPT !.saved = value, !.sha = value] = third
  BY <1>1, <1>2, Zenon
<1>5. QED
  BY <1>3, <1>4

(* Every step keeps what was typed, if it does not stray.                    *)
LEMMA NextTyped ==
    ASSUME EditorOK, EditorIsActive, DraftsAreKept, ~strayed, ~strayed', EditorNext
    PROVE  (EditorOK /\ EditorIsActive /\ DraftsAreKept)'
<1> DEFINE Goal == (EditorOK /\ EditorIsActive /\ DraftsAreKept)'
<1>0. Drafted(Captured, typed) /\ DOMAIN Captured = DOMAIN documents
      /\ DOMAIN documents \subseteq Keys /\ DOMAIN typed \subseteq Keys
  BY CapturedKeeps, CapturedDomain DEF EditorOK
<1>1. ASSUME NEW k \in DOMAIN panes, NEW f \in Files, OpenFileEditor(k, f) PROVE Goal
  <2> DEFINE key == Key(k, f)
  <2>1. AskInspection(key, Retained(key)) /\ UNCHANGED <<panes, typed>>
    BY <1>1 DEF OpenFileEditor
  <2>2. key \in Keys
    BY PaneNumbers DEF Key, Keys
  <2> HIDE DEF key
  <2>3. key \in DOMAIN Retained(key) /\ DOMAIN Retained(key) \subseteq Keys
    BY <1>0, <2>2 DEF Retained, Put
  <2>4. \A x \in DOMAIN Captured : /\ x \in DOMAIN Retained(key)
                                   /\ Retained(key)[x] = Captured[x]
    BY DEF Retained, Put
  <2>5. Drafted(Retained(key), typed')
    BY <1>0, <2>1, <2>4 DEF Drafted
  <2>6. QED
    BY <1>0, <2>1, <2>3, <2>5, AskKeeps DEF EditorOK
<1>2. ASSUME NEW key \in DOMAIN documents, ForgetLost(key) PROVE Goal
  <2>1. /\ documents' = Without(Captured, {key}) /\ typed' = Without(typed, {key})
        /\ key # active /\ Editing
        /\ UNCHANGED <<file, panes, active, open, content, asked, inspections>>
    BY <1>2 DEF ForgetLost
  <2>2. DOMAIN documents' = DOMAIN documents \ {key} /\ DOMAIN typed' = DOMAIN typed \ {key}
        /\ \A x \in DOMAIN typed' : typed'[x] = typed[x]
    BY <1>0, <2>1 DEF Without
  <2>3. Drafted(documents, typed)'
    <3>1. Drafted(documents', typed')
      BY <1>0, <2>1, WithoutKeeps
    <3>2. QED
      BY <3>1 DEF Drafted
  <2>4. EditorOK'
    BY <2>1, <2>2 DEF EditorOK, IsEditor
  <2>5. EditorIsActive'
    BY <2>1, <2>2 DEF EditorIsActive, Editing, IsEditor
  <2>6. QED
    BY <2>3, <2>4, <2>5 DEF DraftsAreKept, Drafted
<1>3. ASSUME NEW q \in asked, Inspected(q) PROVE Goal
  <2>1. /\ UNCHANGED <<file, panes, documents, active, open, typed, inspections>>
        /\ asked' = asked \ {q}
    BY <1>3 DEF Inspected
  <2>2. CASE ~open
    <3>1. content' = content
      BY <1>3, <2>2 DEF Inspected, Inspection
    <3>2. EditorOK'
      BY <2>1, <3>1 DEF EditorOK, IsEditor
    <3>3. QED
      BY <2>1, <3>1, <3>2, DialogStays
  <2>3. CASE open
    <3> DEFINE now == file[q.key.file]
               kept == IF active \in DOMAIN documents THEN documents[active].draft ELSE Absent
    <3>1. /\ q.key = active /\ ~IsEditor
          /\ content' = IF kept = Absent THEN Sheet(q.key, now, now, now)
                        ELSE Sheet(q.key, kept, documents[active].saved, now)
      BY <1>3, <2>3 DEF Inspected, Inspection
    <3>2. PICK value, saved, read :
            content' = Sheet(q.key, value, saved, read) /\ (kept # Absent => value = kept)
      BY <3>1
    <3>3. content'.key = q.key /\ content'.value = value /\ content'.is = "editor"
          /\ content'.saved = saved /\ content'.sha = read
      BY <3>2 DEF Sheet
    <3>4. /\ IsEditor' /\ content'.key \in Keys
          /\ (content = Sheet(content.key, content.value, content.saved, content.sha))'
      BY <3>2, <3>3 DEF IsEditor, EditorOK
    <3>5. ASSUME active \in DOMAIN typed PROVE value = typed[active]
      <4>1. active \in DOMAIN documents /\ documents[active].draft = typed[active]
        BY <3>1, <3>5 DEF DraftsAreKept
      <4>2. typed[active] # Absent
        BY <3>5 DEF EditorOK
      <4>3. QED
        BY <3>2, <4>1, <4>2
    <3>6. EditorOK'
      BY <2>1, <3>4 DEF EditorOK
    <3>7. EditorIsActive'
      BY <2>1, <3>1, <3>3, <3>5 DEF EditorIsActive, Editing
    <3>8. DraftsAreKept'
      BY <2>1, <3>1 DEF DraftsAreKept
    <3>9. QED
      BY <3>6, <3>7, <3>8
  <2>4. QED
    BY <2>2, <2>3
<1>4. ASSUME NEW q \in asked, InspectFails(q) PROVE Goal
  <2>1. /\ UNCHANGED <<file, panes, documents, active, content, typed, inspections>>
        /\ asked' = asked \ {q} /\ ~open'
    BY <1>4 DEF InspectFails
  <2>2. EditorOK'
    BY <2>1 DEF EditorOK, IsEditor
  <2>3. QED
    BY <2>1, <2>2 DEF EditorIsActive, DraftsAreKept, Editing, IsEditor
<1>5. CASE TypeText
  <2> DEFINE text == Text(content.key.file, texts + 1)
  <2>1. /\ Editing /\ content' = [content EXCEPT !.value = text]
        /\ typed' = Put(typed, content.key, text)
        /\ UNCHANGED <<file, panes, documents, active, open, asked, inspections>>
    BY <1>5 DEF TypeText
  <2>2. text # Absent
    BY DEF Text, Absent
  <2> HIDE DEF text
  <2>3. active = content.key /\ IsEditor
    BY <2>1 DEF EditorIsActive, Editing
  <2>4. content = Sheet(content.key, content.value, content.saved, content.sha)
    BY <2>3 DEF EditorOK
  <2>5. content' = Sheet(content.key, text, content.saved, content.sha)
    BY <2>1, <2>4 DEF Sheet
  <2>6. /\ content'.key = content.key /\ content'.value = text /\ IsEditor'
        /\ content'.saved = content.saved /\ content'.sha = content.sha
    BY <2>5 DEF IsEditor, Sheet
  <2>8. active \in Keys
    BY <2>3 DEF EditorOK
  <2>9. /\ DOMAIN typed' = DOMAIN typed \union {active} /\ typed'[active] = text
        /\ \A x \in DOMAIN typed \ {active} : typed'[x] = typed[x]
    BY <2>1, <2>3 DEF Put
  <2>10. EditorOK'
    <3>1. (content = Sheet(content.key, content.value, content.saved, content.sha))'
      BY <2>5, <2>6
    <3>2. content'.key \in Keys /\ DOMAIN typed' \subseteq Keys
      BY <1>0, <2>3, <2>6, <2>8, <2>9
    <3>3. \A x \in DOMAIN typed' : typed'[x] # Absent
      BY <2>2, <2>9 DEF EditorOK
    <3>4. QED
      BY <2>1, <3>1, <3>2, <3>3 DEF EditorOK
  <2>11. EditorIsActive'
    BY <2>1, <2>3, <2>6, <2>9 DEF EditorIsActive, Editing
  <2>12. DraftsAreKept'
    BY <2>1, <2>3, <2>6, <2>9 DEF DraftsAreKept
  <2>13. QED
    BY <2>10, <2>11, <2>12
<1>6. CASE Timer
  <2>1. /\ documents' = Captured
        /\ UNCHANGED <<file, panes, active, open, content, asked, typed, inspections>>
    BY <1>6 DEF Timer
  <2>2. EditorOK'
    BY <1>0, <2>1 DEF EditorOK, IsEditor
  <2>3. EditorIsActive'
    BY <2>1 DEF EditorIsActive, Editing, IsEditor
  <2>4. DraftsAreKept'
    BY <1>0, <2>1 DEF DraftsAreKept, Drafted
  <2>5. QED
    BY <2>2, <2>3, <2>4
<1>7. CASE SaveText
  <2>1. /\ Editing
        /\ content' = [content EXCEPT !.saved = content.value, !.sha = content.value]
        /\ UNCHANGED <<panes, documents, active, open, asked, typed, inspections>>
    BY <1>7 DEF SaveText
  <2>2. content = Sheet(content.key, content.value, content.saved, content.sha)
    BY <2>1 DEF EditorOK, Editing
  <2>3. content' = Sheet(content.key, content.value, content.value, content.value)
    <3> DEFINE value == content.value
               sheet == Sheet(content.key, value, content.saved, content.sha)
    <3>1. content' = [sheet EXCEPT !.saved = value, !.sha = value]
      BY <2>1, <2>2
    <3>2. [sheet EXCEPT !.saved = value, !.sha = value] = Sheet(content.key, value, value, value)
      BY SavedSheet
    <3>3. QED
      BY <3>1, <3>2
  <2>4. /\ content'.key = content.key /\ content'.value = content.value /\ IsEditor'
        /\ content'.saved = content.value /\ content'.sha = content.value /\ IsEditor
    BY <2>1, <2>3 DEF IsEditor, Sheet, Editing
  <2>5. EditorOK'
    BY <2>1, <2>3, <2>4 DEF EditorOK
  <2>6. QED
    BY <2>1, <2>4, <2>5 DEF EditorIsActive, DraftsAreKept, Editing
<1>8. CASE CloseEditor
  <2>1. /\ Editing /\ ~open' /\ content' = [content EXCEPT !.value = content.saved]
        /\ UNCHANGED <<file, panes, active, asked, inspections>>
    BY <1>8 DEF CloseEditor
  <2>2. content = Sheet(content.key, content.value, content.saved, content.sha)
        /\ active = content.key
    BY <2>1 DEF EditorOK, Editing, EditorIsActive
  <2>3. content' = Sheet(content.key, content.saved, content.saved, content.sha)
    BY <2>1, <2>2 DEF Sheet
  <2>4. /\ content'.key = content.key /\ content'.value = content.saved /\ IsEditor'
        /\ content'.saved = content.saved /\ content'.sha = content.sha /\ IsEditor
    BY <2>1, <2>3 DEF IsEditor, Sheet, Editing
  <2>5. CASE Dirty
    <3>1. typed' = Without(typed, {active})
      BY <1>8, <2>2, <2>5 DEF CloseEditor
    <3>2. DOMAIN typed' = DOMAIN typed \ {active} /\ \A x \in DOMAIN typed' : typed'[x] = typed[x]
      <4>1. /\ DOMAIN Without(typed, {active}) = DOMAIN typed \ {active}
            /\ \A x \in DOMAIN typed \ {active} : Without(typed, {active})[x] = typed[x]
        BY WithoutDomain, ZenonT(30)
      <4> QED
        BY <3>1, <4>1, Zenon
    <3>3. DOMAIN documents' = DOMAIN documents
          /\ \A x \in DOMAIN documents \ {active} : documents'[x] = documents[x]
      BY <1>8 DEF CloseEditor
    <3>4. EditorOK'
      BY <2>1, <2>3, <2>4, <3>2, <3>3 DEF EditorOK
    <3>5. QED
      BY <2>1, <2>4, <3>2, <3>3, <3>4 DEF EditorIsActive, DraftsAreKept, Editing
  <2>6. CASE ~Dirty
    <3>1. typed' = typed /\ documents' = documents
      BY <1>8, <2>6 DEF CloseEditor
    <3>2. content'.value = content.value
      BY <2>4, <2>6 DEF Dirty
    <3>3. EditorOK'
      BY <2>1, <2>3, <2>4, <3>1 DEF EditorOK
    <3>4. QED
      BY <2>1, <2>4, <3>1, <3>2, <3>3 DEF EditorIsActive, DraftsAreKept, Editing
  <2>7. QED
    BY <2>5, <2>6
<1>9. CASE CloseLoading
  <2>1. /\ UNCHANGED <<file, panes, documents, active, content, typed, asked, inspections>>
        /\ ~open'
    BY <1>9 DEF CloseLoading
  <2>2. EditorOK'
    BY <2>1 DEF EditorOK, IsEditor
  <2>3. QED
    BY <2>1, <2>2 DEF EditorIsActive, DraftsAreKept, Editing, IsEditor
<1>10. ASSUME NEW key \in DOMAIN documents, CloseTab(key) PROVE Goal
  <2> DEFINE rest == Without(Captured, {key})
  <2>1. Editing /\ typed' = Without(typed, {key}) /\ UNCHANGED <<file, panes>>
    BY <1>10 DEF CloseTab
  <2>2. /\ DOMAIN rest = DOMAIN documents \ {key} /\ DOMAIN typed' = DOMAIN typed \ {key}
        /\ \A x \in DOMAIN typed' : typed'[x] = typed[x]
    BY <1>0, <2>1 DEF Without
  <2>3. Drafted(rest, typed')
    BY <1>0, <2>1, WithoutKeeps
  <2>4. /\ DOMAIN rest \subseteq Keys /\ DOMAIN typed' \subseteq Keys
        /\ \A x \in DOMAIN typed' : typed'[x] # Absent
    BY <1>0, <2>2 DEF EditorOK
  <2>5. CASE /\ key # active /\ documents' = rest
             /\ UNCHANGED <<active, open, content, asked, inspections>>
    <3>1. EditorOK'
      BY <2>1, <2>2, <2>4, <2>5 DEF EditorOK, IsEditor
    <3>2. EditorIsActive'
      BY <2>2, <2>5 DEF EditorIsActive, Editing, IsEditor
    <3>3. DraftsAreKept'
      BY <2>3, <2>5 DEF DraftsAreKept, Drafted
    <3>4. QED
      BY <3>1, <3>2, <3>3
  <2>6. CASE /\ DOMAIN rest = {} /\ documents' = rest /\ active' = Absent /\ open' = FALSE
             /\ UNCHANGED <<content, asked, inspections>>
    <3>1. DOMAIN typed' = {}
      BY <2>3, <2>6 DEF Drafted
    <3>2. EditorOK'
      BY <2>1, <2>2, <2>4, <2>6 DEF EditorOK, IsEditor
    <3>3. QED
      BY <2>6, <3>1, <3>2 DEF EditorIsActive, DraftsAreKept, Editing
  <2>7. ASSUME NEW next \in DOMAIN rest, AskInspection(next, rest) PROVE Goal
    <3> HIDE DEF rest
    <3>1. QED
      BY <2>1, <2>3, <2>4, <2>7, AskKeeps
  <2>8. QED
    BY <1>10, <2>5, <2>6, <2>7 DEF CloseTab
<1>11. ASSUME NEW k \in DOMAIN panes, RemovePane(k) PROVE Goal
  BY <1>11, RemovePaneKeeps
<1>12. ASSUME NEW k \in DOMAIN panes, NEW image \in {"disk", "other"}, OtherImage(k, image)
       PROVE  Goal
  <2>1. /\ panes' = [panes EXCEPT ![k] = image]
        /\ UNCHANGED <<documents, active, open, content, asked, typed, inspections>>
    BY <1>12 DEF OtherImage
  <2>2. panes' \in Seq({"disk", "other"})
    <3>1. panes \in [1..Len(panes) -> {"disk", "other"}] /\ Len(panes) \in Nat
      BY LenProperties DEF EditorOK
    <3>2. panes' \in [1..Len(panes) -> {"disk", "other"}]
      BY <2>1, <3>1
    <3>3. QED
      BY <3>1, <3>2, SeqOfFunction
  <2>3. EditorOK'
    BY <2>1, <2>2 DEF EditorOK, IsEditor
  <2>4. QED
    BY <2>1, <2>3, DialogStays
<1>13. CASE Reload
  <2>1. UNCHANGED <<file, panes>> /\ ~IsEditor'
    BY <1>13 DEF Reload, IsEditor, Reading, Empty
  <2>2. CASE active \in DOMAIN Captured /\ Shows(active.pane)
    <3>1. /\ inspections' = inspections + 1 /\ documents' = Captured /\ active' = active
          /\ asked' = {[key |-> active, n |-> inspections]} /\ typed' = typed
      BY <1>13, <2>2 DEF Reload
    <3>2. active \in Keys
      BY <1>0, <2>2
    <3>3. EditorOK'
      BY <1>0, <2>1, <2>2, <3>1, <3>2 DEF EditorOK, Keys
    <3>4. Drafted(documents, typed)'
      BY <1>0, <3>1 DEF Drafted
    <3>5. QED
      BY <2>1, <3>3, <3>4, NoEditor
  <2>3. CASE ~(active \in DOMAIN Captured /\ Shows(active.pane))
    <3>1. /\ documents' = Without(Captured, {active}) /\ typed' = Without(typed, {active})
          /\ active' = Absent /\ asked' = {} /\ UNCHANGED inspections
      BY <1>13, <2>3 DEF Reload
    <3>2. DOMAIN documents' = DOMAIN documents \ {active}
          /\ DOMAIN typed' = DOMAIN typed \ {active}
          /\ \A x \in DOMAIN typed' : typed'[x] = typed[x]
      BY <1>0, <3>1 DEF Without
    <3>3. EditorOK'
      BY <1>0, <2>1, <3>1, <3>2 DEF EditorOK, Keys
    <3>4. Drafted(documents', typed')
      BY <1>0, <3>1, WithoutKeeps
    <3>5. Drafted(documents, typed)'
      BY <3>4 DEF Drafted
    <3>6. QED
      BY <2>1, <3>3, <3>5, NoEditor
  <2>4. QED
    BY <2>2, <2>3
<1>14. ASSUME NEW f \in Files, FileChanges(f) PROVE Goal
  <2>1. UNCHANGED <<panes, documents, active, open, content, asked, typed, inspections>>
    BY <1>14 DEF FileChanges
  <2>2. EditorOK'
    BY <2>1 DEF EditorOK, IsEditor
  <2>3. QED
    BY <2>1, <2>2, DialogStays
<1>15. QED
  BY <1>1, <1>2, <1>3, <1>4, <1>5, <1>6, <1>7, <1>8, <1>9, <1>10, <1>11, <1>12, <1>13, <1>14
  DEF EditorNext

(* What strayed stays so: nothing more is claimed.                           *)
LEMMA StrayedStays ==
    ASSUME strayed, [EditorNext]_editorVars
    PROVE  strayed'
<1>1. ASSUME NEW k \in DOMAIN panes, NEW f \in Files, OpenFileEditor(k, f) PROVE strayed'
  BY <1>1 DEF OpenFileEditor
<1>2. ASSUME NEW key \in DOMAIN documents, ForgetLost(key) \/ CloseTab(key) PROVE strayed'
  BY <1>2 DEF ForgetLost, CloseTab
<1>3. ASSUME NEW q \in asked, Inspected(q) \/ InspectFails(q) PROVE strayed'
  BY <1>3 DEF Inspected, InspectFails
<1>4. ASSUME NEW k \in DOMAIN panes, NEW image \in {"disk", "other"},
             RemovePane(k) \/ OtherImage(k, image)
      PROVE  strayed'
  BY <1>4 DEF RemovePane, OtherImage
<1>5. CASE TypeText \/ Timer \/ SaveText \/ CloseEditor \/ CloseLoading \/ Reload
  BY <1>5 DEF TypeText, Timer, SaveText, CloseEditor, CloseLoading, Reload
<1>6. ASSUME NEW f \in Files, FileChanges(f) PROVE strayed'
  BY <1>6 DEF FileChanges
<1>7. CASE UNCHANGED editorVars
  BY <1>7 DEF editorVars
<1>8. QED
  BY <1>1, <1>2, <1>3, <1>4, <1>5, <1>6, <1>7 DEF EditorNext

LEMMA InitTyped == EditorInit => TypedInv
<1> SUFFICES ASSUME EditorInit PROVE EditorOK /\ EditorIsActive /\ DraftsAreKept
  BY DEF TypedInv
<1>1. DOMAIN documents = {} /\ DOMAIN typed = {}
  BY DEF EditorInit
<1>2. panes \in Seq({"disk", "other"})
  BY DEF EditorInit
<1>3. QED
  BY <1>1, <1>2 DEF EditorInit, EditorOK, EditorIsActive, DraftsAreKept, Editing, IsEditor, Empty

(* No step loses what was typed, whatever tabs are changed, panes closed and *)
(* pages loaded again, for any number of files, panes and documents.         *)
THEOREM TypedTextIsKept == EditorSpec => []TypedIsKept
<1>1. TypedInv /\ [EditorNext]_editorVars => TypedInv'
  <2> SUFFICES ASSUME TypedInv, [EditorNext]_editorVars PROVE TypedInv'
    OBVIOUS
  <2>1. CASE strayed
    BY <2>1, StrayedStays DEF TypedInv
  <2>2. CASE ~strayed /\ UNCHANGED editorVars
    BY <2>2 DEF TypedInv, editorVars, EditorOK, EditorIsActive, DraftsAreKept, Editing, IsEditor
  <2>3. CASE ~strayed /\ EditorNext
    BY <2>3, NextTyped DEF TypedInv
  <2>4. QED
    BY <2>1, <2>2, <2>3
<1>2. TypedInv => TypedIsKept
  <2> SUFFICES ASSUME EditorIsActive, DraftsAreKept, NEW key \in DOMAIN typed
               PROVE  \/ IsEditor /\ content.key = key /\ content.value = typed[key]
                      \/ key \in DOMAIN documents /\ documents[key].draft = typed[key]
    BY DEF TypedInv, TypedIsKept
  <2>1. QED
    BY DEF EditorIsActive, DraftsAreKept
<1>3. QED
  BY <1>1, <1>2, InitTyped, PTL DEF EditorSpec

=============================================================================
