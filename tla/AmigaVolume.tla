----------------------------- MODULE AmigaVolume -----------------------------
(***************************************************************************)
(* An AmigaDOS volume as amiganut/filesystem/amigados.py writes it: header *)
(* blocks on hash chains, data blocks, the directory cache of DOS\4 and    *)
(* DOS\5, and the allocation bitmap, which is kept in memory while an      *)
(* operation runs and stored at its end.                                   *)
(*                                                                         *)
(* An operation is worked out block write by block write (the operators    *)
(* over a work record w) and its writes then reach the medium one at a     *)
(* time, so that what an interruption leaves behind is a state too.  An    *)
(* operation that fails half way has made the writes up to that point; the *)
(* session that asked for it then puts the volume back (ImageSession).     *)
(*                                                                         *)
(* Every name has the same hash (one slot, the longest chains), every      *)
(* cache record the same size, and dates are the number of the operation.  *)
(* Extension blocks of files past 72 data blocks, links and the overflow   *)
(* comment blocks of DOS\6 and DOS\7 are left out.                         *)
(***************************************************************************)
EXTENDS Integers, Sequences, FiniteSets, SequencesExt, FiniteSetsExt

CONSTANTS
    Size,       \* blocks that can be allocated
    Names,      \* names of objects
    MaxLength,  \* data blocks of the longest file
    PerCache,   \* records a cache block holds
    Kinds,      \* the kinds of operation that are asked for
    MaxOps      \* bound on the operations of a behaviour

VARIABLES
    dircache,   \* whether the volume keeps directory caches
    disk,       \* the blocks on the medium
    free,       \* the bitmap in memory, as the set of free blocks
    todo,       \* block writes of the running operation still to be made
    op,         \* the running operation, Idle when there is none
    now         \* operations so far, and the date they write

vars == <<dircache, disk, free, todo, op, now>>

Root == 0               \* the root block, and the null pointer of chains
Map == Size + 1         \* the bitmap blocks
Blocks == 1..Size

(***************************************************************************)
(* Blocks.                                                                 *)
(***************************************************************************)
Blank == [type |-> "blank"]

Drawer(name, parent) ==
    [type |-> "drawer", name |-> name, parent |-> parent, next |-> 0,
     head |-> 0, cache |-> 0, date |-> now]

File(name, parent, data, payload, date) ==
    [type |-> "file", name |-> name, parent |-> parent, next |-> 0,
     data |-> data, payload |-> payload, date |-> date, locked |-> FALSE]

Data(payload, index) == [type |-> "data", payload |-> payload, index |-> index]

CachePage(drawer, records, next) ==
    [type |-> "cache", drawer |-> drawer, records |-> records, next |-> next]

Bitmap(S) == [type |-> "bitmap", free |-> S]

\* The record that describes the header at b in its parent's cache.
CacheRecord(d, b) ==
    LET h == d[b] IN
    [header |-> b, name |-> h.name, date |-> h.date, type |-> h.type,
     size |-> IF h.type = "file" THEN Len(h.data) ELSE 0,
     locked |-> h.type = "file" /\ h.locked]

(***************************************************************************)
(* Reading.                                                                *)
(***************************************************************************)
\* A chain of blocks from its first one.
Chain(d, first) ==
    LET walk[b \in 0..Size] == IF b = 0 THEN <<>> ELSE <<b>> \o walk[d[b].next]
    IN  walk[first]

Children(d, drawer) == Chain(d, d[drawer].head)

CacheChain(d, drawer) == Chain(d, d[drawer].cache)

\* The entries of a drawer with this name, the first one on the chain.
Find(d, drawer, name) ==
    LET found == SelectSeq(Children(d, drawer), LAMBDA b : d[b].name = name)
    IN  IF found = <<>> THEN {} ELSE {found[1]}

\* The objects below a block, and then the block.
PostOrder(d, top) ==
    LET post[b \in 0..Size] ==
            IF d[b].type = "drawer"
            THEN LET kids == Children(d, b)
                 IN  FlattenSeq([i \in DOMAIN kids |-> post[kids[i]]]) \o <<b>>
            ELSE <<b>>
    IN  post[top]

\* Every object reached from the root, by path.
Listing(d) ==
    LET level[depth \in 0..Size] ==
            IF depth = 0 THEN {[path |-> <<>>, at |-> Root]}
            ELSE UNION {{[path |-> Append(e.path, d[c].name), at |-> c] :
                            c \in ToSet(Children(d, e.at))} :
                        e \in {x \in level[depth - 1] : d[x.at].type = "drawer"}}
    IN  UNION {level[depth] : depth \in 0..Size}

Reached(d) == {e.at : e \in Listing(d)}

Drawers(d) == {b \in Reached(d) : d[b].type = "drawer"}

\* The blocks an object holds besides its header.
Body(d, b) == IF d[b].type = "file" THEN d[b].data ELSE CacheChain(d, b)

(***************************************************************************)
(* Work: the volume as the operation sees it, the writes it made, and      *)
(* whether it is still going.  After a failure nothing more happens.       *)
(***************************************************************************)
Start == [disk |-> disk, free |-> free, log |-> <<>>, ok |-> TRUE]

Fail(w) == [w EXCEPT !.ok = FALSE]

Put(w, b, block) ==
    IF w.ok
    THEN [w EXCEPT !.disk[b] = block, !.log = Append(@, [at |-> b, block |-> block])]
    ELSE w

Release(w, S) == IF w.ok THEN [w EXCEPT !.free = @ \cup S] ELSE w

StoreBitmap(w) == Put(w, Map, Bitmap(w.free))

Distance(b, c) == IF b >= c THEN b - c ELSE c - b

\* The block _allocate takes: the nearest free one, the higher of two.
Nearest(S, near) ==
    IF S = {} THEN Root
    ELSE CHOOSE b \in S : \A c \in S :
            \/ Distance(b, near) < Distance(c, near)
            \/ Distance(b, near) = Distance(c, near) /\ b >= c

Allocate(w, b) ==
    IF w.ok /\ b # Root THEN [w EXCEPT !.free = @ \ {b}] ELSE Fail(w)

\* The n blocks that as many calls of _allocate take.
NearestMany(S, near, n) ==
    LET take[k \in 0..n] ==
            IF k = 0 THEN <<>>
            ELSE Append(take[k - 1], Nearest(S \ ToSet(take[k - 1]), near))
    IN  take[n]

(***************************************************************************)
(* The directory cache.                                                    *)
(***************************************************************************)
\* Writes the pages that changed, the last first, and points the drawer at
\* the first.
CommitCache(w, drawer, chain, records) ==
    LET Page(i) == CachePage(drawer, records[i],
                             IF i < Len(chain) THEN chain[i + 1] ELSE 0)
        changed == SelectSeq(Reverse([i \in DOMAIN chain |-> i]),
                             LAMBDA i : w.disk[chain[i]] # Page(i))
        pages == FoldLeft(LAMBDA v, i : Put(v, chain[i], Page(i)), w, changed)
    IN  IF pages.disk[drawer].cache = chain[1] THEN pages
        ELSE Put(pages, drawer, [pages.disk[drawer] EXCEPT !.cache = chain[1]])

\* A new drawer gets one empty page.
FirstPage(w, drawer) ==
    LET page == Nearest(w.free, drawer) IN
    IF ~dircache THEN w
    ELSE CommitCache(Allocate(w, page), drawer, <<page>>, <<{}>>)

\* A page left empty is released unless it is the only one.
DropRecord(w, drawer, header) ==
    LET chain == CacheChain(w.disk, drawer)
        Left(b) == {r \in w.disk[b].records : r.header # header}
        full == SelectSeq(chain, LAMBDA b : Left(b) # {})
        kept == IF full = <<>> THEN <<Last(chain)>> ELSE full
    IN  IF ~dircache \/ ~w.ok THEN w
        ELSE CommitCache(Release(w, ToSet(chain) \ ToSet(kept)), drawer, kept,
                         [i \in DOMAIN kept |-> Left(kept[i])])

\* A record replaces the one for its header, or goes to the first page with
\* room, or to a new page at the end of the chain.
AddRecord(w, drawer, record) ==
    LET chain == CacheChain(w.disk, drawer)
        records == [i \in DOMAIN chain |-> w.disk[chain[i]].records]
        Others(i) == {r \in records[i] : r.header # record.header}
        holds == {i \in DOMAIN chain : Others(i) # records[i]}
        room == {i \in DOMAIN chain : Cardinality(records[i]) < PerCache}
        slot == IF holds # {} THEN holds ELSE room
        page == Nearest(w.free, Last(chain))
    IN  IF ~dircache \/ ~w.ok THEN w
        ELSE IF slot # {}
        THEN CommitCache(w, drawer, chain,
                         [records EXCEPT ![Min(slot)] = Others(Min(slot)) \cup {record}])
        ELSE CommitCache(Allocate(w, page), drawer, Append(chain, page),
                         Append(records, {record}))

SyncRecord(w, b) ==
    IF b = Root THEN w ELSE AddRecord(w, w.disk[b].parent, CacheRecord(w.disk, b))

LinkInto(w, parent, child) ==
    LET one == Put(w, child, [w.disk[child] EXCEPT !.next = w.disk[parent].head])
        two == Put(one, parent,
                   [one.disk[parent] EXCEPT !.head = child, !.date = now])
    IN  SyncRecord(AddRecord(two, parent, CacheRecord(two.disk, child)), parent)

Unlink(w, parent, child) ==
    LET after == w.disk[child].next
        first == w.disk[parent].head = child
        before == SelectSeq(Children(w.disk, parent),
                            LAMBDA b : w.disk[b].next = child)
        one == IF first THEN w
               ELSE Put(w, before[1], [w.disk[before[1]] EXCEPT !.next = after])
        two == Put(one, parent,
                   [one.disk[parent] EXCEPT !.head = IF first THEN after ELSE @,
                                            !.date = now])
    IN  SyncRecord(DropRecord(two, parent, child), parent)

(***************************************************************************)
(* The operations, as work.                                                *)
(***************************************************************************)
\* Mutant: the cache pages of a removed drawer stay allocated.
RemoveOneKeepsCache(w, b) ==
    LET h == w.disk[b]
        body == IF h.type = "file" THEN Release(w, ToSet(h.data)) ELSE w
    IN  IF h.type = "file" /\ h.locked THEN Fail(w)
        ELSE StoreBitmap(Release(Unlink(body, h.parent, b), {b}))

\* remove() of an object whose children are gone.
RemoveOne(w, b) ==
    LET h == w.disk[b]
        body == Release(w, ToSet(Body(w.disk, b)))
    IN  IF h.type = "file" /\ h.locked THEN Fail(w)
        ELSE StoreBitmap(Release(Unlink(body, h.parent, b), {b}))

RemoveTree(w, b) == FoldLeft(RemoveOne, w, PostOrder(w.disk, b))

\* One more block may be needed for the parent's cache.
Spare == IF dircache THEN 1 ELSE 0

\* Mutant: the file is linked before its data is written.
WriteBytesLinkFirst(w, parent, name, length, payload) ==
    LET old == Find(w.disk, parent, name)
        gone == FoldSet(LAMBDA b, v : RemoveOne(v, b), w, old)
        header == Nearest(gone.free, parent)
        headed == Allocate(gone, header)
        data == NearestMany(headed.free, header, length)
        written == Put(FoldLeft(Allocate, headed, data), header,
                       File(name, parent, data, payload, now))
    IN  IF length + 1 + Spare > Cardinality(gone.free) THEN Fail(gone)
        ELSE StoreBitmap(FoldLeft(LAMBDA v, i : Put(v, data[i], Data(payload, i)),
                                  LinkInto(written, parent, header),
                                  [i \in 1..length |-> i]))

\* write_bytes(): what is replaced is removed before the space is counted.
WriteBytes(w, parent, name, length, payload) ==
    LET old == Find(w.disk, parent, name)
        date == IF old = {} THEN now ELSE w.disk[Min(old)].date
        gone == FoldSet(LAMBDA b, v : RemoveOne(v, b), w, old)
        header == Nearest(gone.free, parent)
        headed == Allocate(gone, header)
        data == NearestMany(headed.free, header, length)
        taken == FoldLeft(Allocate, headed, data)
        filled == FoldLeft(LAMBDA v, i : Put(v, data[i], Data(payload, i)),
                           taken, [i \in 1..length |-> i])
        written == Put(filled, header, File(name, parent, data, payload, date))
    IN  IF length + 1 + Spare > Cardinality(gone.free) THEN Fail(gone)
        ELSE StoreBitmap(LinkInto(written, parent, header))

NewDrawer(w, parent, name) ==
    LET header == Nearest(w.free, parent)
        written == Put(Allocate(w, header), header, Drawer(name, parent))
    IN  StoreBitmap(LinkInto(FirstPage(written, header), parent, header))

Renamed(w, b, parent, name) ==
    LET away == Unlink(w, w.disk[b].parent, b)
        written == Put(away, b, [away.disk[b] EXCEPT !.name = name,
                                    !.parent = parent, !.next = 0])
    IN  StoreBitmap(LinkInto(written, parent, b))

Contiguous(data) == \A i \in 1..Len(data) - 1 : data[i + 1] = data[i] + 1

DefragmentFile(w, b) ==
    LET h == w.disk[b] IN
    IF h.type # "file" \/ Contiguous(h.data) THEN w
    ELSE WriteBytes(w, h.parent, h.name, Len(h.data), h.payload)

Defragmented(w) ==
    StoreBitmap(FoldLeft(DefragmentFile, w, PostOrder(w.disk, Root)))

(***************************************************************************)
(* Running an operation.                                                   *)
(***************************************************************************)
Idle == [kind |-> "idle"]

Running == op # Idle /\ op.alive

PathOf(d, b) == (CHOOSE e \in Listing(d) : e.at = b).path

\* The operation is worked out; touched are the paths it is asked to change.
Begin(kind, touched, w) ==
    /\ op = Idle
    /\ kind \in Kinds
    /\ now < MaxOps
    /\ op' = [kind |-> kind, ok |-> w.ok, alive |-> TRUE, before |-> disk,
              touched |-> touched]
    /\ todo' = w.log
    /\ free' = w.free
    /\ now' = now + 1
    /\ UNCHANGED <<dircache, disk>>

MakeDirectory(parent, name) ==
    /\ Find(disk, parent, name) = {}
    /\ Begin("drawer", {Append(PathOf(disk, parent), name)},
             NewDrawer(Start, parent, name))

\* A file may take the place of a file or of an empty drawer.
WriteFile(parent, name, length) ==
    LET old == Find(disk, parent, name) IN
    /\ \A b \in old : disk[b].type = "drawer" => Children(disk, b) = <<>>
    /\ Begin(IF old = {} THEN "new file" ELSE "replace",
             {Append(PathOf(disk, parent), name)},
             WriteBytes(Start, parent, name, length, now))

SetProtection(b) ==
    LET w == Put(Start, b, [disk[b] EXCEPT !.locked = ~@]) IN
    /\ disk[b].type = "file"
    /\ Begin("protect", {PathOf(disk, b)}, StoreBitmap(SyncRecord(w, b)))

Delete(b) ==
    /\ b # Root
    /\ Begin("remove", {PathOf(disk, b)}, RemoveTree(Start, b))

\* Mutant: a drawer may move inside itself.
RenameAnywhere(b, parent, name) ==
    /\ b # Root
    /\ Find(disk, parent, name) \subseteq {b}
    /\ Begin("rename", {PathOf(disk, b), Append(PathOf(disk, parent), name)},
             Renamed(Start, b, parent, name))

\* The callers of rename() refuse a drawer that would move inside itself.
Rename(b, parent, name) ==
    /\ b # Root
    /\ ~IsPrefix(PathOf(disk, b), PathOf(disk, parent))
    /\ Find(disk, parent, name) \subseteq {b}
    /\ Begin("rename", {PathOf(disk, b), Append(PathOf(disk, parent), name)},
             Renamed(Start, b, parent, name))

Defragment ==
    Begin("defragment", {e.path : e \in Listing(disk)}, Defragmented(Start))

\* The next block write of the operation reaches the medium.
WriteBlock ==
    /\ Running
    /\ todo # <<>>
    /\ disk' = [disk EXCEPT ![Head(todo).at] = Head(todo).block]
    /\ todo' = Tail(todo)
    /\ UNCHANGED <<dircache, free, op, now>>

\* The operation is over.  A failed one is put back by its session, and the
\* bitmap is read again when the volume is mounted next.
Return ==
    /\ Running
    /\ todo = <<>>
    /\ disk' = IF op.ok THEN disk ELSE op.before
    /\ free' = IF op.ok THEN free ELSE op.before[Map].free
    /\ op' = Idle
    /\ UNCHANGED <<dircache, todo, now>>

\* The process stops between two writes.
Interrupt ==
    /\ Running
    /\ op' = [op EXCEPT !.alive = FALSE]
    /\ todo' = <<>>
    /\ UNCHANGED <<dircache, disk, free, now>>

\* format_volume: an empty root, with one empty cache page if it has a cache.
Init ==
    /\ now = 0
    /\ dircache \in BOOLEAN
    /\ free = IF dircache THEN Blocks \ {1} ELSE Blocks
    /\ disk = [b \in 0..Map |->
                 CASE b = Root -> [Drawer("/", Root) EXCEPT !.cache = IF dircache THEN 1 ELSE 0]
                   [] b = Map -> Bitmap(free)
                   [] b = 1 /\ dircache -> CachePage(Root, {}, 0)
                   [] OTHER -> Blank]
    /\ todo = <<>>
    /\ op = Idle

Operate ==
    \/ \E parent \in Drawers(disk), name \in Names :
        \/ MakeDirectory(parent, name)
        \/ \E length \in 0..MaxLength : WriteFile(parent, name, length)
        \/ \E b \in Reached(disk) : Rename(b, parent, name)
    \/ \E b \in Reached(disk) : SetProtection(b) \/ Delete(b)
    \/ Defragment

Next == (op = Idle /\ Operate) \/ WriteBlock \/ Return \/ Interrupt

Spec == Init /\ [][Next]_vars

(***************************************************************************)
(* Properties.                                                             *)
(***************************************************************************)
\* The blocks an object claims, its header (but the root's) first.
Claims(d, b) == (IF b = Root THEN <<>> ELSE <<b>>) \o Body(d, b)

Used(d) == UNION {ToSet(Claims(d, b)) : b \in Reached(d)}

\* validate() finds nothing between operations: no block is claimed twice, no
\* claimed block is free, and every cache says what the headers say.
ClaimedOnce(d) ==
    \A b, c \in Reached(d) :
        IF b = c THEN IsInjective(Claims(d, b))
        ELSE ToSet(Claims(d, b)) \cap ToSet(Claims(d, c)) = {}

CachesMatch(d) ==
    dircache => \A p \in Drawers(d) :
        LET pages == CacheChain(d, p) IN
        /\ pages # <<>>
        /\ UNION {d[b].records : b \in ToSet(pages)} =
               {CacheRecord(d, c) : c \in ToSet(Children(d, p))}
        /\ \A b \in ToSet(pages) : d[b].drawer = p

ValidatesClean ==
    op = Idle => /\ ClaimedOnce(disk)
                 /\ Used(disk) \cap disk[Map].free = {}
                 /\ CachesMatch(disk)

\* No block is lost: between operations every block nothing claims is free,
\* in memory and on the medium.
NoBlockLost ==
    op = Idle => free = Blocks \ Used(disk) /\ disk[Map].free = free

\* A file that can be reached has all its data behind it, at every moment of
\* an operation and whatever an interruption leaves ("a failure never leaves a
\* header pointing at blocks that were never written").
HeadersHaveTheirData ==
    \A b \in Reached(disk) :
        disk[b].type = "file" =>
            \A i \in DOMAIN disk[b].data :
                disk[disk[b].data[i]] = Data(disk[b].payload, i)

TreeOf(d) ==
    {[path |-> e.path,
      type |-> d[e.at].type,
      payload |-> IF d[e.at].type = "file" THEN d[e.at].payload ELSE 0,
      locked |-> d[e.at].type = "file" /\ d[e.at].locked] :
        e \in {x \in Listing(d) : x.at # Root}}

Touched(path) == \E t \in op.touched : IsPrefix(t, path)

\* At every moment of an operation, done, failed or interrupted, the objects
\* it was not asked to change are all there and as they were.
OthersUntouched ==
    op # Idle =>
        {o \in TreeOf(disk) : ~Touched(o.path)} =
        {o \in TreeOf(op.before) : ~Touched(o.path)}

\* A new file that does not fit is refused with nothing changed: the space
\* counted beforehand covers every block the file and the caches will need.
RefusedFileChangesNothing ==
    op # Idle /\ op.kind = "new file" /\ ~op.ok => disk = op.before

\* Between operations the volume validates and has lost no block.
LeftClean == ValidatesClean /\ NoBlockLost

\* At every moment, a torn one included, what can be read of the volume is
\* what was stored.
NothingIsHarmed == HeadersHaveTheirData /\ OthersUntouched /\ RefusedFileChangesNothing

Promised == UNION {TreeOf(d) : d \in {IF op = Idle THEN disk ELSE op.before}}

Tree == INSTANCE VolumeTree
        WITH tree <- Promised,
             Payloads <- 0..MaxOps, Removal <- "unlocked"

\* Whatever an operation does block by block, the volume goes from one tree to
\* the tree that was asked for, or stays as it is.
ImplementsTree == Tree!Init /\ [][Promised' # Promised => Tree!Next]_vars
==============================================================================
