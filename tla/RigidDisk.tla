------------------------------ MODULE RigidDisk ------------------------------
(***************************************************************************)
(* A hard drive that describes itself: the partition table of              *)
(* amiganut/filesystem/rdb.py (RDSK, PART, FSHD and LSEG blocks), the      *)
(* steps amiganut/filesystem/drive.py makes of a request for a drive or a  *)
(* partition, and the checks app/drive_layout.py and                       *)
(* app/drive_layout_service.py make before them.                           *)
(*                                                                         *)
(* An operation reads the table, works out its writes over a work record   *)
(* and makes them one at a time; an interruption (the program ends, the    *)
(* drive is unplugged) stops between two of them.  A drive image belongs   *)
(* to a session, which puts it back when an operation fails (ImageSession);*)
(* a drive attached through USB has no undo.                               *)
(*                                                                         *)
(* A cylinder has PerCylinder blocks.  A volume is its first block, which  *)
(* names its filing system, its root block, and whatever else its blocks   *)
(* held.  A partition's flags, priority and buffers are left out, and so   *)
(* is the layout releases up to 1.6 wrote.                                 *)
(***************************************************************************)
EXTENDS Integers, Sequences, FiniteSets, SequencesExt, FiniteSetsExt

CONSTANTS
    PerCylinder,    \* blocks of a cylinder
    MaxCylinders,   \* cylinders of the largest medium
    RoomFor,        \* partition entries a new table keeps room for, 8 in the code
    Segments,       \* blocks a handler's load file takes
    Names,          \* device names of partitions
    WipeBlocks,     \* blocks cleared at each end of a drive, 1 MiB in the code
    Largest,        \* the cylinders a partition of each filing system may have
    Sizes,          \* sizes in blocks that are asked for, 0 for "the rest"
    Kinds,          \* the kinds of operation that are asked for
    MaxOps          \* bound on the operations of a behaviour

VARIABLES
    attached,   \* whether this is a drive attached through USB
    media,      \* cylinders of the medium
    disk,       \* its blocks
    supplied,   \* filing systems whose handler the store holds
    todo,       \* writes of the running operation still to be made
    op,         \* the running or the last operation
    old,        \* the blocks when it began
    ops         \* operations so far

vars == <<attached, media, disk, supplied, todo, op, old, ops>>

Blocks == 0..((MaxCylinders + 1) * PerCylinder - 1)
End == 0                    \* the end of a chain: 0 and -1 in the code
Types == {"ffs", "pfs", "pds"}

\* Kickstart holds the FastFileSystem and nothing else.
NeedsHandler(fs) == fs # "ffs"

\* The Professional File System is one binary for all its DOS types.
Satisfies(have, want) == have = want \/ (NeedsHandler(have) /\ NeedsHandler(want))

Blank == [type |-> "blank"]
Boot(fs, by) == [type |-> "boot", fs |-> fs, by |-> by]
VolumeRoot(fs, by) == [type |-> "root", fs |-> fs, by |-> by]
UserData == [type |-> "data"]

CeilDiv(a, b) == (a + b - 1) \div b
Larger(a, b) == IF a > b THEN a ELSE b
Smaller(a, b) == IF a < b THEN a ELSE b

Extent(p) == (p.low * PerCylinder)..((p.high + 1) * PerCylinder - 1)
Cylinders(p) == p.high - p.low + 1

(***************************************************************************)
(* Reading a table.                                                        *)
(***************************************************************************)
\* Blocks of one type that follow one another from the first.
Follow(d, first, type) ==
    LET Fits(b, s) == b # End /\ b \in DOMAIN d /\ b \notin ToSet(s) /\ d[b].type = type
        walk[n \in 0..Cardinality(DOMAIN d)] ==
            IF n = 0 THEN IF Fits(first, <<>>) THEN <<first>> ELSE <<>>
            ELSE LET s == walk[n - 1]
                 IN  IF s # <<>> /\ Fits(d[Last(s)].next, s)
                     THEN Append(s, d[Last(s)].next) ELSE s
    IN  walk[RoomFor + Segments]

EndsWell(d, first, s) == IF s = <<>> THEN first = End ELSE d[Last(s)].next = End

HasTable(d) == d[0].type = "RDSK"

NoTable ==
    [ok |-> FALSE, cylinders |-> 0, low |-> 0, parts |-> <<>>, handlers |-> <<>>, used |-> {}]

\* A damaged partition chain is an error; a handler chain just ends.
ReadTable(d) ==
    IF ~HasTable(d) THEN NoTable ELSE
    LET at == Follow(d, d[0].parts, "PART")
        hs == Follow(d, d[0].handlers, "FSHD")
        segs(h) == Follow(d, d[h].segments, "LSEG")
        used == {0} \cup ToSet(at) \cup ToSet(hs) \cup UNION {ToSet(segs(h)) : h \in ToSet(hs)}
        lows == {d[b].low : b \in ToSet(at)}
        sensible == d[0].low > 0 /\ \A l \in lows : d[0].low <= l
    IN [ok |-> EndsWell(d, d[0].parts, at),
        cylinders |-> d[0].cylinders,
        low |-> CASE sensible -> d[0].low
                  [] lows # {} /\ ~sensible -> Larger(1, Min(lows))
                  [] OTHER -> Larger(1, CeilDiv(Max(used) + 1, PerCylinder)),
        parts |-> [i \in DOMAIN at |->
                      [name |-> d[at[i]].name, fs |-> d[at[i]].fs,
                       low |-> d[at[i]].low, high |-> d[at[i]].high]],
        handlers |-> [i \in DOMAIN hs |-> d[hs[i]].fs],
        used |-> used]

\* new_partition.
NewPartition(name, fs, low, high) == [name |-> name, fs |-> fs, low |-> low, high |-> high]

Taken(t) == {p.name : p \in ToSet(t.parts)}

\* The runs of cylinders no partition uses.
FreeRanges(t) ==
    LET free == {c \in t.low..(t.cylinders - 1) :
                    \A p \in ToSet(t.parts) : c \notin p.low..p.high}
        starts == {c \in free : c - 1 \notin free}
        end(c) == Min({e \in free : e >= c /\ e + 1 \notin free})
    IN  {[low |-> c, high |-> end(c)] : c \in starts}

\* The largest run, the first of several.
LargestRange(R) ==
    CHOOSE r \in R : \A s \in R : \/ Cylinders(r) > Cylinders(s)
                                  \/ Cylinders(r) = Cylinders(s) /\ r.low <= s.low

(***************************************************************************)
(* Work: the drive as the operation sees it and the writes it made.  A     *)
(* write is a function from blocks to what they then hold.                 *)
(***************************************************************************)
Start == [disk |-> disk, log |-> <<>>, ok |-> TRUE]

Fail(w) == [w EXCEPT !.ok = FALSE]

Merge(d, f) == [b \in DOMAIN d |-> IF b \in DOMAIN f THEN f[b] ELSE d[b]]

Put(w, f) ==
    IF w.ok THEN [w EXCEPT !.disk = Merge(@, f), !.log = Append(@, f)] ELSE w

Clear(w, S) == IF S = {} THEN w ELSE Put(w, [b \in S |-> Blank])

(***************************************************************************)
(* Writing a table: partitions, then each handler with its segments, all   *)
(* behind the RDSK block.  What the old table used and the new one does    *)
(* not is cleared first; the rest goes down from the last block to RDSK.   *)
(***************************************************************************)
HandlerBlocks == 1 + Segments
BlocksNeeded(parts, handlers) == 1 + parts + handlers * HandlerBlocks

\* Where the blocks of the handler at j in a table begin.
FirstOf(t, j) == Len(t.parts) + 1 + (j - 1) * HandlerBlocks

\* _partition_block: the entry at i in a table.
PartitionBlock(t, i) ==
    [type |-> "PART", next |-> IF i < Len(t.parts) THEN i + 1 ELSE End,
     name |-> t.parts[i].name, fs |-> t.parts[i].fs,
     low |-> t.parts[i].low, high |-> t.parts[i].high]

\* _handler_blocks: a handler and its segments follow one another.
HandlerBlock(t, b) ==
    LET j == (b - FirstOf(t, 1)) \div HandlerBlocks + 1
        piece == b - FirstOf(t, j)
    IN  IF piece = 0
        THEN [type |-> "FSHD", fs |-> t.handlers[j], segments |-> b + 1,
              next |-> IF j < Len(t.handlers) THEN FirstOf(t, j + 1) ELSE End]
        ELSE [type |-> "LSEG", next |-> IF piece < Segments THEN b + 1 ELSE End]

Layout(t) ==
    LET n == Len(t.parts)
        h == Len(t.handlers)
    IN [b \in 0..(BlocksNeeded(n, h) - 1) |->
          CASE b = 0 -> [type |-> "RDSK", cylinders |-> t.cylinders, low |-> t.low,
                         parts |-> IF n > 0 THEN 1 ELSE End,
                         handlers |-> IF h > 0 THEN FirstOf(t, 1) ELSE End]
            [] b \in 1..n -> PartitionBlock(t, b)
            [] OTHER -> HandlerBlock(t, b)]

Acceptable(t) ==
    /\ \A p \in ToSet(t.parts) : p.low <= p.high /\ p.high < t.cylinders
    /\ \A i, j \in DOMAIN t.parts : i # j => Extent(t.parts[i]) \cap Extent(t.parts[j]) = {}

TableLimit(t) ==
    Min({t.low * PerCylinder, media * PerCylinder}
        \cup {p.low * PerCylinder : p \in ToSet(t.parts)})

\* Mutant: what the old table used is left there.
StaleForgotten(t, needed) == {}

Stale(t, needed) == {b \in t.used : b >= needed /\ b < TableLimit(t)}

StoreTable(w, t) ==
    LET new == Layout(t)
        needed == BlocksNeeded(Len(t.parts), Len(t.handlers))
        stale == Stale(t, needed)
        blanks == [i \in 1..Cardinality(stale) |-> [b \in {SetToSortSeq(stale, <)[i]} |-> Blank]]
        entries == [i \in 1..needed |-> [b \in {needed - i} |-> new[needed - i]]]
    IN  IF needed > TableLimit(t) \/ ~Acceptable(t) THEN Fail(w)
        ELSE FoldLeft(Put, w, blanks \o entries)

\* The table that is there is changed to t.
WithTable(w, t) == IF w.ok /\ ReadTable(w.disk).ok THEN StoreTable(w, t) ELSE Fail(w)

SetHandler(w, fs) ==
    LET others == SelectSeq(ReadTable(w.disk).handlers, LAMBDA h : h # fs)
    IN  WithTable(w, [ReadTable(w.disk) EXCEPT !.handlers = Append(others, fs)])

AddPartition(w, p) ==
    IF p.name \in Taken(ReadTable(w.disk)) THEN Fail(w)
    ELSE WithTable(w, [ReadTable(w.disk) EXCEPT !.parts = Append(@, p)])

RemoveEntry(w, i) == WithTable(w, [ReadTable(w.disk) EXCEPT !.parts = RemoveAt(@, i)])

(***************************************************************************)
(* Formatting.  The FastFileSystem has its root block in the middle of the *)
(* partition, the others near its start.                                   *)
(***************************************************************************)
RootOf(p) ==
    p.low * PerCylinder + (IF p.fs = "ffs" THEN (Cylinders(p) * PerCylinder) \div 2 ELSE 2)

FormatPartition(w, p) ==
    IF ~w.ok \/ p.high >= media THEN Fail(w)
    ELSE LET first == p.low * PerCylinder
             cleared == Clear(w, {first})
             rooted == Put(cleared, [b \in {RootOf(p)} |-> VolumeRoot(p.fs, ops + 1)])
         IN  Put(rooted, [b \in {first} |-> Boot(p.fs, ops + 1)])

\* The volume a partition holds can be mounted as what its entry says.
Mounts(d, p) ==
    LET b == d[p.low * PerCylinder]
        r == d[RootOf(p)]
    IN  b.type = "boot" /\ r.type = "root" /\ b.fs = p.fs /\ r.fs = p.fs /\ b.by = r.by

\* The handlers that have to be added to a table for a partition.
WantedFor(t, fs) ==
    IF NeedsHandler(fs) /\ (\A h \in ToSet(t.handlers) : h # fs)
       /\ (\E h \in ToSet(t.handlers) \cup supplied : Satisfies(h, fs))
    THEN {fs} ELSE {}

Provide(w, fs) ==
    IF WantedFor(ReadTable(w.disk), fs) = {} THEN w ELSE SetHandler(w, fs)

\* A partition that cannot be formatted is taken out of the table again.
AddFormatted(w, p) ==
    LET added == AddPartition(Provide(w, p.fs), p)
        formatted == FormatPartition(added, p)
    IN  IF ~added.ok \/ formatted.ok THEN formatted
        ELSE Fail(RemoveEntry(added, Len(ReadTable(added.disk).parts)))

WithType(w, i, fs) == WithTable(w, [ReadTable(w.disk) EXCEPT !.parts[i].fs = fs])

\* Mutant: the volume is made in the filing system the entry had before.
ReformattedAsBefore(w, i, fs) ==
    LET p == ReadTable(w.disk).parts[i]
    IN  FormatPartition(IF p.fs = fs THEN w
                        ELSE WithType(Provide(w, fs), i, fs), p)

Reformatted(w, i, fs) ==
    LET p == [ReadTable(w.disk).parts[i] EXCEPT !.fs = fs]
        same == ReadTable(w.disk).parts[i].fs = fs
        changed == IF same THEN w
                   ELSE WithType(Provide(w, fs), i, fs)
    IN  FormatPartition(changed, p)

(***************************************************************************)
(* Planning a drive.  A row asks for a size in blocks, rounded up to whole *)
(* cylinders; rows without one share what the others leave, and the last   *)
(* of them takes the remainder.                                            *)
(***************************************************************************)
ReservedCylinders(rows, handlers) ==
    Larger(1, CeilDiv(BlocksNeeded(Larger(Len(rows), RoomFor), handlers), PerCylinder))

RoundUp(size) == CeilDiv(size, PerCylinder)

RoomOnDrive(rows, handlers) == media - ReservedCylinders(rows, handlers)

Requested(rows, handlers) ==
    LET fixed == FoldLeft(LAMBDA sum, r : sum + RoundUp(r.size), 0, rows)
        rest == {i \in DOMAIN rows : rows[i].size = 0}
        left == RoomOnDrive(rows, handlers) - fixed
        share == left \div Cardinality(rest)
    IN [i \in DOMAIN rows |->
           CASE rows[i].size > 0 -> RoundUp(rows[i].size)
             [] rows[i].size = 0 /\ i = Max(rest) -> share + (left % Cardinality(rest))
             [] OTHER -> share]

PlanFits(rows, handlers) ==
    LET fixed == FoldLeft(LAMBDA sum, r : sum + RoundUp(r.size), 0, rows)
        rest == {i \in DOMAIN rows : rows[i].size = 0}
    IN  /\ RoomOnDrive(rows, handlers) >= Larger(1, Len(rows))
        /\ fixed + Cardinality(rest) <= RoomOnDrive(rows, handlers)

Plan(rows, handlers) ==
    LET asked == Requested(rows, handlers)
        low(i) == ReservedCylinders(rows, handlers)
                    + FoldLeft(LAMBDA a, b : a + b, 0, SubSeq(asked, 1, i - 1))
    IN  [i \in DOMAIN rows |->
            NewPartition(rows[i].name, rows[i].fs, low(i), low(i) + asked[i] - 1)]

HandlersOf(rows) ==
    LET needed == SelectSeq(rows, LAMBDA r : NeedsHandler(r.fs))
    IN  FoldLeft(LAMBDA s, r : IF r.fs \in ToSet(s) THEN s ELSE Append(s, r.fs), <<>>, needed)

\* What described the drive before is removed at both its ends.
ClearDriveEnds(w) ==
    LET length == media * PerCylinder
        span == Smaller(WipeBlocks, length)
    IN  Clear(Clear(w, 0..(span - 1)),
              IF length > 2 * span THEN (length - span)..(length - 1) ELSE {})

\* write_rigid_disk: the table of a drive whose ends are cleared already.
WriteTable(w, rows, parts) ==
    StoreTable(w, [ok |-> TRUE, cylinders |-> media, parts |-> parts,
                   low |-> ReservedCylinders(rows, Len(HandlersOf(rows))),
                   handlers |-> HandlersOf(rows), used |-> {}])

\* Everything the drive held is given up: its ends are cleared, the new table
\* is written, and every partition is formatted.
Initialised(w, rows, parts) ==
    FoldLeft(FormatPartition, WriteTable(ClearDriveEnds(w), rows, parts), parts)

\* create_volume: one volume across the drive, which then has no table.
VolumeAcross(w, whole) == FormatPartition(ClearDriveEnds(w), whole)

(***************************************************************************)
(* Requests.                                                               *)
(***************************************************************************)
Idle == op.at = "ended"

Touched(parts) == UNION {Extent(p) : p \in parts}

\* One handler file serves every DOS type of the Professional File System.
HandlerSupplied(fs) == NeedsHandler(fs) => "pfs" \in supplied

\* An operation begins with its writes worked out; target holds the blocks
\* it may write besides the table.
Begin(kind, w, target, asked) ==
    /\ kind \in Kinds
    /\ op' = [kind |-> kind, at |-> "running", ok |-> w.ok, target |-> target,
              asked |-> asked, media |-> media]
    /\ todo' = w.log
    /\ old' = disk
    /\ ops' = ops + 1
    /\ UNCHANGED <<attached, disk, supplied>>

Ready == Idle /\ ops < MaxOps

Editable == Ready /\ HasTable(disk)

\* Rows whose names differ.
Rows == {<<[name |-> "DH0", fs |-> f, size |-> s]>> : f \in Types, s \in Sizes}
          \cup {<<[name |-> "DH0", fs |-> f, size |-> s], [name |-> n, fs |-> g, size |-> 0]>> :
                    n \in Names \ {"DH0"}, f \in Types, g \in {"ffs", "pds"}, s \in Sizes}

\* The layout is worked out and refused before anything is written.
Accepted(rows) ==
    LET handlers == Len(HandlersOf(rows))
    IN  /\ \A r \in ToSet(rows) : HandlerSupplied(r.fs)
        /\ PlanFits(rows, handlers)
        /\ \A p \in ToSet(Plan(rows, handlers)) : Cylinders(p) <= Largest[p.fs]

LayOut(rows) ==
    /\ Accepted(rows)
    /\ Begin("create", Initialised(Start, rows, Plan(rows, Len(HandlersOf(rows)))), Blocks, rows)
    /\ UNCHANGED media

Create(rows) == Ready /\ ~attached /\ ~HasTable(disk) /\ LayOut(rows)

\* A drive is initialised whatever it holds.
InitialiseAttached(rows) == Ready /\ attached /\ LayOut(rows)

\* One volume and no table, in an image or across an attached drive.
CreateVolume(fs) ==
    LET whole == [name |-> "", fs |-> fs, low |-> 0, high |-> media - 1]
    IN  /\ Ready /\ (attached \/ ~HasTable(disk)) /\ media <= Largest[fs]
        /\ Begin("volume", VolumeAcross(Start, whole), Blocks, <<whole>>)
        /\ UNCHANGED media

\* _check_partition_fits: no filing system takes more than it can address.
PartitionFits(fs, cylinders) == cylinders <= Largest[fs]

\* The service picks the run and checks the size; the engine does the rest.
Add(name, fs, size, wanted) ==
    LET t == ReadTable(disk)
        ranges == {r \in FreeRanges(t) : wanted = 0 \/ wanted \in r.low..r.high}
        space == LargestRange(ranges)
        cylinders == IF size = 0 THEN Cylinders(space) ELSE RoundUp(size)
        p == NewPartition(name, fs, space.low, space.low + cylinders - 1)
    IN  /\ Editable /\ t.ok /\ ranges # {}
        /\ size <= Cylinders(space) * PerCylinder
        /\ PartitionFits(fs, cylinders)
        /\ HandlerSupplied(fs)
        /\ Begin("add", AddFormatted(Start, p), Extent(p), <<p>>)
        /\ UNCHANGED media

Delete(i) ==
    /\ Editable /\ i \in DOMAIN ReadTable(disk).parts
    /\ Begin("remove", RemoveEntry(Start, i), {}, <<>>)
    /\ UNCHANGED media

Format(i, fs) ==
    LET t == ReadTable(disk)
    IN  /\ Editable /\ t.ok /\ i \in DOMAIN t.parts
        /\ PartitionFits(fs, Cylinders(t.parts[i]))
        /\ HandlerSupplied(fs)
        /\ Begin("format", Reformatted(Start, i, fs), Extent(t.parts[i]), <<>>)
        /\ UNCHANGED media

Rename(i, name) ==
    LET t == ReadTable(disk)
    IN  /\ Editable /\ t.ok /\ i \in DOMAIN t.parts
        /\ \A j \in (DOMAIN t.parts) \ {i} : t.parts[j].name # name
        /\ Begin("rename", WithTable(Start, [t EXCEPT !.parts[i].name = name]), {}, <<>>)
        /\ UNCHANGED media

\* The table is made to describe the whole medium, which an image may first
\* be made larger for.
Extend(size) ==
    /\ Editable /\ ReadTable(disk).ok
    /\ size = media \/ (size > media /\ ~attached)
    /\ size > ReadTable(disk).cylinders
    /\ media' = size
    /\ Begin("extend", WithTable(Start, [ReadTable(disk) EXCEPT !.cylinders = size]), {}, <<>>)

\* The handlers its partitions lack and the store has.
Embed ==
    LET t == ReadTable(disk)
        lacking == {p.fs : p \in {x \in ToSet(t.parts) :
                      NeedsHandler(x.fs) /\ \A h \in ToSet(t.handlers) : ~Satisfies(h, x.fs)}}
    IN  /\ Editable /\ t.ok /\ lacking # {} /\ "pfs" \in supplied
        /\ Begin("embed", FoldLeft(SetHandler, Start, SetToSeq(lacking)), {}, <<>>)
        /\ UNCHANGED media

\* A handler is kept for every drive made from now on, is taken from a drive
\* that carries one, or is forgotten.
SetSupplied(S) ==
    /\ Ready /\ supplied # S /\ supplied' = S
    /\ UNCHANGED <<attached, media, disk, todo, op, old, ops>>

KeepHandler == SetSupplied({"pfs"})

KeepFromDrive == HasTable(disk) /\ ReadTable(disk).handlers # <<>> /\ SetSupplied({"pfs"})

ForgetHandler == SetSupplied({})

(***************************************************************************)
(* The medium.                                                             *)
(***************************************************************************)
WriteNext ==
    /\ op.at = "running" /\ todo # <<>>
    /\ disk' = Merge(disk, Head(todo))
    /\ todo' = Tail(todo)
    /\ UNCHANGED <<attached, media, supplied, op, old, ops>>

\* A failed change of an image is undone by its session.
Return ==
    LET undone == ~op.ok /\ ~attached
    IN  /\ op.at = "running" /\ todo = <<>>
        /\ op' = [op EXCEPT !.at = "ended"]
        /\ disk' = IF undone THEN old ELSE disk
        /\ media' = IF undone THEN op.media ELSE media
        /\ UNCHANGED <<attached, supplied, todo, old, ops>>

Interrupt ==
    /\ op.at = "running" /\ todo # <<>>
    /\ op' = [op EXCEPT !.at = "torn"]
    /\ todo' = <<>>
    /\ UNCHANGED <<attached, media, disk, supplied, old, ops>>

Nothing == [kind |-> "none", at |-> "ended", ok |-> TRUE, target |-> {}, asked |-> <<>>,
            media |-> 0]

\* A drive somebody else prepared: with its limit written down or not, with
\* a handler for its second partition or without, and perhaps copied to a
\* medium that ends before its last partition does.
Foreign(low, handlers, size) ==
    [ok |-> TRUE, cylinders |-> size, low |-> low, used |-> {}, handlers |-> handlers,
     parts |-> <<[name |-> "DH0", fs |-> "ffs", low |-> 2, high |-> 3],
                 [name |-> "DH1", fs |-> "pds", low |-> 4, high |-> 4]>>
               \o IF size <= media THEN <<>>
                  ELSE <<[name |-> "DH2", fs |-> "pfs", low |-> size - 2, high |-> size - 1]>>]

Prepared(t) ==
    LET table == Merge([b \in Blocks |-> Blank], Layout(t))
        volume(d, p) == Merge(d, [b \in Extent(p) |->
            CASE b = p.low * PerCylinder -> Boot(p.fs, 0)
              [] b = RootOf(p) -> VolumeRoot(p.fs, 0)
              [] OTHER -> UserData])
    IN  FoldLeft(volume, table, t.parts)

Init ==
    /\ attached \in BOOLEAN
    /\ media \in {MaxCylinders - 1, MaxCylinders}
    /\ \/ disk = [b \in Blocks |-> Blank]
       \/ \E low \in {0, 2}, handlers \in {<<>>, <<"pds">>},
           size \in {media - 1, media, media + 1} :
             disk = Prepared(Foreign(low, handlers, size))
    /\ supplied \in SUBSET {"pfs"}
    /\ todo = <<>> /\ op = Nothing /\ old = disk /\ ops = 0

Next ==
    \/ \E rows \in Rows : Create(rows)
    \/ \E rows \in Rows : InitialiseAttached(rows)
    \/ \E fs \in Types : CreateVolume(fs)
    \/ \E name \in Names, fs \in Types, size \in Sizes, wanted \in {0, media - 1} :
            Add(name, fs, size, wanted)
    \/ \E i \in 1..RoomFor : Delete(i)
    \/ \E i \in 1..RoomFor, fs \in Types : Format(i, fs)
    \/ \E i \in 1..RoomFor, name \in Names : Rename(i, name)
    \/ \E size \in 1..MaxCylinders : Extend(size)
    \/ Embed
    \/ KeepHandler
    \/ KeepFromDrive
    \/ ForgetHandler
    \/ WriteNext
    \/ Return
    \/ Interrupt

Spec == Init /\ [][Next]_vars

(***************************************************************************)
(* Properties.                                                             *)
(***************************************************************************)
Before == ReadTable(old)
Now == ReadTable(disk)

\* Whatever sequence of operations led here, refused ones included, a table
\* reads back, its partitions lie apart behind it and on the cylinders it
\* describes, their names differ, and in front of them there is nothing left
\* of an entry, a handler or a segment the table no longer uses.
TableIsSound ==
    Idle /\ HasTable(disk) =>
        /\ Now.ok
        /\ \A i, j \in DOMAIN Now.parts : i # j =>
              /\ Now.parts[i].name # Now.parts[j].name
              /\ Extent(Now.parts[i]) \cap Extent(Now.parts[j]) = {}
        /\ \A p \in ToSet(Now.parts) : Now.low <= p.low /\ p.high < Now.cylinders
        /\ \A b \in Blocks :
              b < Now.low * PerCylinder /\ disk[b].type # "blank" => b \in Now.used

\* An operation, running, finished or torn, writes no block of a partition it
\* was not asked to write, and none of a volume that only the table's end is
\* near to.
VolumesKept ==
    HasTable(old) =>
        \A p \in ToSet(Before.parts) : Extent(p) \cap op.target = {} =>
            \A b \in Extent(p) \cap Blocks : disk[b] = old[b]

\* Both: once an operation is over its table describes the drive, and at every
\* moment of it, torn or not, the volumes nobody named are as they were
\* (store_rigid_disk goes no further than the first partition).
LayoutIsSound == TableIsSound /\ VolumesKept

\* Every partition the table lists, and that lies on the medium, holds a
\* volume that mounts as what the table calls it: after a format, a removal
\* and a new partition in its place, and a change that was refused.  A drive
\* made into one volume has that volume and no table.
EveryPartitionMounts ==
    Idle =>
        /\ HasTable(disk) => \A p \in ToSet(Now.parts) : p.high < media => Mounts(disk, p)
        /\ op.kind = "volume" => ~HasTable(disk) /\ Mounts(disk, op.asked[1])

=============================================================================
