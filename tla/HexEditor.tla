------------------------------- MODULE HexEditor ------------------------------
(***************************************************************************)
(* The hex editor of the browser client (hex-editor.js) and the requests   *)
(* that read and write raw bytes (hex_service.py).  A page is one byte, and *)
(* an answer holds what the server read when it was asked for.             *)
(***************************************************************************)
EXTENDS Integers, Sequences, SequencesExt, Functions

CONSTANTS
    Offsets,    \* the offsets of an image and of its descriptor
    Values,     \* what a byte can be
    MaxWrites,  \* versions of a component
    MaxEdits,   \* edits made in the hex editor
    MaxReads    \* requests to read bytes

VARIABLES
    server,     \* component -> its version and its bytes
    target, offset, version,    \* state.target, state.offset, state.version
    bytes,      \* state.bytes: the offsets read, and what was there
    originals, changes,         \* state.originals, state.changes
    past, future,               \* state.history, state.future
    answers,    \* the requests to read that were not answered yet
    posting,    \* the request to write, or NoWrite
    basis,      \* staged offset -> the version it was staged over, or Unclaimed
    edits, reads                \* counts up to MaxEdits and MaxReads

hexVars == <<server, target, offset, version, bytes, originals, changes, past, future,
             answers, posting, basis, edits, reads>>

Targets == {"image", "descriptor"}
Nothing == [x \in {} |-> 0]
NoVersion == [of |-> "none", n |-> 0]
NoWrite == [version |-> NoVersion]
Unclaimed == [of |-> "any", n |-> 0]

\* The size and the time of change of a component.
Version(of, n) == [of |-> of, n |-> n]
Now(of) == Version(of, server[of].n)

Set(f, key, value) == [x \in DOMAIN f \union {key} |-> IF x = key THEN value ELSE f[x]]

HexInit ==
    /\ server = [of \in Targets |-> [n |-> 0, bytes |-> [o \in Offsets |-> 0]]]
    /\ target = "image" /\ offset = 0 /\ version = Version("image", 0)
    /\ bytes = [o \in {0} |-> 0]
    /\ originals = Nothing /\ changes = Nothing /\ basis = Nothing
    /\ past = <<>> /\ future = <<>>
    /\ answers = {} /\ posting = NoWrite
    /\ edits = 0 /\ reads = 0

-----------------------------------------------------------------------------
(* Pages.                                                                  *)

\* A request to read: a page, a page whose version is taken whatever is staged,
\* or the bytes that a selection lacks.
Ask(of, o, kind) ==
    /\ reads < MaxReads /\ reads' = reads + 1
    /\ answers' = answers \union
         {[n |-> reads, kind |-> kind, offset |-> o, version |-> Now(of),
           byte |-> server[of].bytes[o]]}

GoTo(o) ==
    /\ o # offset
    /\ Ask(target, o, "page")
    /\ UNCHANGED <<server, target, offset, version, bytes, originals, changes, past, future,
                   posting, basis, edits>>

EnsureRange(o) ==
    /\ o \notin DOMAIN bytes
    /\ Ask(target, o, "range")
    /\ UNCHANGED <<server, target, offset, version, bytes, originals, changes, past, future,
                   posting, basis, edits>>

\* Mutant: a page is taken although bytes are staged over another version.
MayTakeAny(a) == a.kind = "range" => version \in {NoVersion, a.version}

\* "The image changed outside the hex editor": loadPage() and ensureRange().
MayTake(a) ==
    CASE a.kind = "reset" -> TRUE
      [] a.kind = "page" -> version = NoVersion \/ changes = Nothing \/ a.version = version
      [] a.kind = "range" -> version \in {NoVersion, a.version}

Answer(a) ==
    /\ a \in answers
    /\ answers' = answers \ {a}
    /\ IF MayTake(a)
       THEN /\ bytes' = Set(bytes, a.offset, a.byte)
            /\ IF a.kind = "range" THEN UNCHANGED <<version, offset>>
               ELSE version' = a.version /\ offset' = a.offset
       ELSE UNCHANGED <<bytes, version, offset>>
    /\ UNCHANGED <<server, target, originals, changes, past, future, posting, basis, edits, reads>>

AnswerFails(a) ==
    /\ a \in answers
    /\ answers' = answers \ {a}
    /\ UNCHANGED <<server, target, offset, version, bytes, originals, changes, past, future,
                   posting, basis, edits, reads>>

-----------------------------------------------------------------------------
(* Edits.                                                                  *)

Effective(o) == IF o \in DOMAIN changes THEN changes[o] ELSE bytes[o]

\* stageByte() of every byte of an edit, each of an offset of its own.
Stage(values) ==
    LET known == [o \in DOMAIN originals \union DOMAIN values |->
                     IF o \in DOMAIN originals THEN originals[o] ELSE Effective(o)]
        back == {o \in DOMAIN values : values[o] = known[o]}
        staged == (DOMAIN changes \union DOMAIN values) \ back
        resetting == version = NoVersion \/ \E a \in answers : a.kind = "reset"
    IN  /\ originals' = known
        /\ changes' = [o \in staged |-> IF o \in DOMAIN values THEN values[o] ELSE changes[o]]
        /\ basis' = [o \in staged |-> IF o \notin DOMAIN values THEN basis[o]
                                      ELSE IF resetting THEN Unclaimed ELSE version]

\* applyEdit(): a byte typed, a selection filled, pasted over or reverted.  A
\* byte that was not read, or has the value already, is left out.
ApplyEdit(values) ==
    LET real == {o \in DOMAIN values \intersect DOMAIN bytes : Effective(o) # values[o]} IN
    /\ edits < MaxEdits /\ edits' = edits + 1
    /\ real # {}
    /\ Stage([o \in real |-> values[o]])
    /\ past' = Append(past, [before |-> [o \in real |-> Effective(o)],
                             after |-> [o \in real |-> values[o]]])
    /\ future' = <<>>
    /\ UNCHANGED <<server, target, offset, version, bytes, answers, posting, reads>>

Type(value) == ApplyEdit([o \in {offset} |-> value])
Fill(value) == ApplyEdit([o \in Offsets |-> value])
RevertAll == ApplyEdit([o \in DOMAIN changes |-> originals[o]])

Undo ==
    /\ past # <<>>
    /\ Stage([o \in DOMAIN Last(past).before |-> Last(past).before[o]])
    /\ past' = Front(past) /\ future' = Append(future, Last(past))
    /\ UNCHANGED <<server, target, offset, version, bytes, answers, posting, edits, reads>>

Redo ==
    /\ future # <<>>
    /\ Stage([o \in DOMAIN Last(future).after |-> Last(future).after[o]])
    /\ future' = Front(future) /\ past' = Append(past, Last(future))
    /\ UNCHANGED <<server, target, offset, version, bytes, answers, posting, edits, reads>>

-----------------------------------------------------------------------------
(* Writing.                                                                *)

Forget ==
    /\ changes' = Nothing /\ originals' = Nothing /\ basis' = Nothing
    /\ past' = <<>> /\ future' = <<>>

\* save(), confirmed.
Save ==
    /\ changes # Nothing /\ posting = NoWrite
    /\ posting' = [version |-> version, of |-> target, changes |-> changes, basis |-> basis,
                   is |-> "asked"]
    /\ UNCHANGED <<server, target, offset, version, bytes, originals, changes, past, future,
                   answers, basis, edits, reads>>

Accepted == posting # NoWrite /\ posting.is = "asked" /\ posting.version = Now(posting.of)

\* write_raw_image(): the bytes go into the component, all at once under its
\* lock, if it is the version the editor names.
WriteRawImage ==
    /\ posting # NoWrite /\ posting.is = "asked"
    /\ IF Accepted
       THEN /\ server[posting.of].n < MaxWrites
            /\ server' = [server EXCEPT ![posting.of].n = @ + 1,
                  ![posting.of].bytes = [o \in Offsets |-> IF o \in DOMAIN posting.changes
                                            THEN posting.changes[o] ELSE @[o]]]
            /\ posting' = [posting EXCEPT !.is = "written", !.version.n = @ + 1]
       ELSE /\ posting' = NoWrite
            /\ UNCHANGED server
    /\ UNCHANGED <<target, offset, version, bytes, originals, changes, past, future,
                   answers, basis, edits, reads>>

\* The answer: what is staged by now is cleared, and the page is read again.
Written ==
    /\ posting # NoWrite /\ posting.is = "written"
    /\ posting' = NoWrite
    /\ version' = posting.version
    /\ Forget
    /\ Ask(target, offset, "reset")
    /\ UNCHANGED <<server, target, offset, bytes, edits>>

\* changeTarget(), confirmed if bytes are staged.
ChangeTarget(of) ==
    /\ of # target
    /\ target' = of /\ offset' = 0 /\ version' = NoVersion /\ bytes' = Nothing
    /\ Forget
    /\ Ask(of, 0, "reset")
    /\ UNCHANGED <<server, posting, edits>>

\* Another operation of the workspace changes a byte.
ChangeElsewhere(of, o, value) ==
    /\ server[of].n < MaxWrites
    /\ server' = [server EXCEPT ![of].n = @ + 1, ![of].bytes[o] = value]
    /\ UNCHANGED <<target, offset, version, bytes, originals, changes, past, future,
                   answers, posting, basis, edits, reads>>

HexNext ==
    \/ \E o \in Offsets : GoTo(o) \/ EnsureRange(o)
    \/ \E a \in answers : Answer(a) \/ AnswerFails(a)
    \/ \E value \in Values : Type(value) \/ Fill(value)
    \/ RevertAll \/ Undo \/ Redo \/ Save \/ WriteRawImage \/ Written
    \/ \E of \in Targets :
          \/ ChangeTarget(of)
          \/ \E o \in Offsets, value \in Values : ChangeElsewhere(of, o, value)

HexSpec == HexInit /\ [][HexNext]_hexVars

-----------------------------------------------------------------------------
(* What the hex editor promises.                                           *)

\* Bytes that were staged over one version of the image are never written over
\* another: the editor takes no page of another version while bytes are staged,
\* and the server refuses the version it has not ("The image changed after the
\* hex editor loaded it", hex_service.py:273).  Nothing is claimed of a byte
\* staged while the editor reads a page again after a write or for another
\* component, which takes the version of that page whatever is staged.
StagedOverItsVersion ==
    [][Accepted /\ WriteRawImage =>
          \A o \in DOMAIN posting.basis :
             posting.basis[o] \in {Unclaimed, Now(posting.of)}]_hexVars
(* Behind it: what is staged is claimed over the version the editor has, and *)
(* over none while a page is awaited whose version it will take.             *)
StagedInv ==
    /\ DOMAIN basis = DOMAIN changes
    /\ \A o \in DOMAIN basis : basis[o] \in {Unclaimed, version}
    /\ version = NoVersion \/ (\E a \in answers : a.kind = "reset") =>
          \A o \in DOMAIN basis : basis[o] = Unclaimed
    /\ \A a \in answers : a.kind \in {"page", "reset", "range"}
    /\ posting # NoWrite => "is" \in DOMAIN posting
    /\ posting # NoWrite /\ posting.is = "asked" =>
          \A o \in DOMAIN posting.basis : posting.basis[o] \in {Unclaimed, posting.version}
===============================================================================
