----------------------------- MODULE SFSVolume ------------------------------
(***************************************************************************)
(* A Smart File System volume as amiganut/filesystem/sfs_write.py changes  *)
(* it.  A change is gathered in memory and committed with SFS's own crash  *)
(* protocol: file data is already in free blocks and flushed; the changed  *)
(* blocks are written to free space as a log and flushed; a marker that    *)
(* names the log is written and flushed; the changed blocks are written in *)
(* place and flushed; the marker is reset.  A volume whose marker names a  *)
(* log is read through that log, and the next change first completes it.   *)
(*                                                                         *)
(* Writes between two flushes may reach the medium in any order, so what a *)
(* power loss leaves of them is any subset: a change is a sequence of      *)
(* stages, each a set of writes that a flush completes.                    *)
(*                                                                         *)
(* The extent tree and the node tree are one block each here: that they    *)
(* grow and shrink is left out.  A log block holds PerLog changed blocks.  *)
(* A name and its entry take one unit of an object container, a comment    *)
(* another.  Dates, soft links and objects in .recycled are left out.      *)
(***************************************************************************)
EXTENDS Integers, Sequences, FiniteSets, SequencesExt, FiniteSetsExt

CONSTANTS
    Total,          \* blocks of the volume behind its first root block
    Region,         \* ADMIN_REGION
    PerAdmin,       \* regions an admin space container records
    PerContainer,   \* units an object container holds
    PerLog,         \* changed blocks a log block holds
    MaxExtent,      \* MAX_EXTENT_BLOCKS
    AlwaysFree,     \* ALWAYS_FREE
    Headroom,       \* CHANGE_HEADROOM
    Roving,         \* where SFS starts looking for file data
    MaxNode,        \* the last object node
    Names,          \* names of objects
    HashOf,         \* the chain of a directory's hash table a name belongs to
    Lengths,        \* data blocks of the files that are written
    Kinds,          \* the kinds of change that are asked for
    MaxOps,         \* bound on the changes of a behaviour
    MaxCrashes,     \* bound on the power losses
    MaxLost         \* bound on the writes a power loss keeps from the medium,
                    \* unless it keeps all that are not flushed

VARIABLES
    disk,       \* the blocks
    todo,       \* stages of the running change that are not flushed yet
    roving,     \* where the mounted volume looks for file data next
    now,        \* changes so far
    crashes     \* power losses so far

vars == <<disk, todo, roving, now, crashes>>

Blocks == 1..Total
Nodes == 3..MaxNode
Chains == {HashOf[n] : n \in Names} \cup {0}

\* Where format_sfs_volume puts what has a fixed place.
AdminSpace == 1
RootContainer == 2
RootTable == 3
Marker == 4
ExtentRoot == 5
NodeRoot == 6
RecycledBlock == 7
Bitmap == Region + 1
RootNode == 1
RecycledNode == 2

Blank == [id |-> "blank"]
Unused == [container |-> 0, next |-> 0]
Object(node, name, type, first, second) ==
    [node |-> node, name |-> name, type |-> type, first |-> first, second |-> second,
     locked |-> FALSE, comment |-> FALSE]
Container(parent, next, prev, objects) ==
    [id |-> "objects", parent |-> parent, next |-> next, prev |-> prev, objects |-> objects]
HashTable(node) == [id |-> "hash", node |-> node, chain |-> [c \in Chains |-> 0]]

Units(objects) == FoldLeft(LAMBDA n, o : n + (IF o.comment THEN 2 ELSE 1), 0, objects)

(***************************************************************************)
(* Reading.  A view v is the blocks as they are seen.                      *)
(***************************************************************************)
\* The log the marker names; it ends early where a block of it is damaged.
LogChain(d) ==
    LET walk[b \in 0..Total] ==
            IF b = 0 \/ d[b].id # "log" THEN <<b>> ELSE <<b>> \o walk[d[b].next]
    IN  IF d[Marker].id = "failed" THEN walk[d[Marker].log] ELSE <<0>>

LogIsReadable(d) == Last(LogChain(d)) = 0

\* _load_pending_transaction: what an unfinished change would have written.
Overlay(d) ==
    IF ~LogIsReadable(d) THEN <<>>
    ELSE FoldLeft(LAMBDA f, b : d[b].writes @@ f, <<>>, Front(LogChain(d)))

View(d) ==
    LET over == Overlay(d)
    IN  IF over = <<>> THEN d ELSE [b \in Blocks |-> IF b \in DOMAIN over THEN over[b] ELSE d[b]]

Free(v) == v[Bitmap].free

\* The object of a node, and the containers and the objects of a directory.
ObjectOf(v, node) ==
    LET c == v[v[NodeRoot].at[node].container].objects
    IN  c[CHOOSE i \in DOMAIN c : c[i].node = node]

Containers(v, dir) ==
    LET walk[b \in 0..Total] == IF b = 0 THEN <<>> ELSE <<b>> \o walk[v[b].next]
    IN  walk[ObjectOf(v, dir).second]

Children(v, dir) ==
    LET cs == Containers(v, dir) IN FlattenSeq([i \in DOMAIN cs |-> v[cs[i]].objects])

\* _find: through the hash chain.
Find(v, dir, name) ==
    LET walk[n \in 0..MaxNode] == IF n = 0 THEN <<>> ELSE <<n>> \o walk[v[NodeRoot].at[n].next]
        chain == walk[v[ObjectOf(v, dir).first].chain[HashOf[name]]]
    IN  {n \in ToSet(chain) : ObjectOf(v, n).name = name}

Extent(v, key) == CHOOSE e \in v[ExtentRoot].extents : e.key = key

Extents(v, first) ==
    LET walk[k \in 0..Total] == IF k = 0 THEN <<>> ELSE <<Extent(v, k)>> \o walk[Extent(v, k).next]
    IN  walk[first]

DataOf(v, o) ==
    LET es == Extents(v, o.first)
    IN  FlattenSeq([i \in DOMAIN es |-> [k \in 1..es[i].count |-> es[i].key + k - 1]])

(***************************************************************************)
(* A change: the view as changed so far, the blocks changed in memory, the *)
(* blocks that are free on the medium, the roving pointer, what was given  *)
(* out last, the file data written and where.                              *)
(***************************************************************************)
Start ==
    [block |-> View(disk), pending |-> {}, free |-> Free(View(disk)), roving |-> roving,
     got |-> 0, data |-> {}, runs |-> <<>>, ok |-> TRUE]

Fail(w) == [w EXCEPT !.ok = FALSE]

\* _edit and _create: the block is changed in memory.
Put(w, b, block) ==
    IF w.ok THEN [w EXCEPT !.block[b] = block, !.pending = @ \cup {b}] ELSE w

\* _adjust_root_info.
CountFree(w, n) == Put(w, RootContainer, [w.block[RootContainer] EXCEPT !.free = @ + n])

\* _mark.
MarkUsed(w, S) ==
    IF S \subseteq Free(w.block)
    THEN CountFree(Put(w, Bitmap, [w.block[Bitmap] EXCEPT !.free = @ \ S]), 0 - Cardinality(S))
    ELSE Fail(w)

MarkFree(w, S) ==
    IF S \cap Free(w.block) = {}
    THEN CountFree(Put(w, Bitmap, [w.block[Bitmap] EXCEPT !.free = @ \cup S]), Cardinality(S))
    ELSE Fail(w)

\* Mutant of Usable: what the change itself frees is taken again.
UsableAtOnce(w) == Free(w.block)

\* Free both on the medium and in the change.
Usable(w) == Free(w.block) \cap w.free

Up(S) == SelectSeq([b \in 1..Total |-> b], LAMBDA b : b \in S)

\* _find_space, for data and for the log: the next n usable blocks, round
\* the volume from the roving pointer.
NextBlocks(w, n) ==
    SubSeq(Up({b \in Usable(w) : b >= w.roving}) \o Up({b \in Usable(w) : b < w.roving}), 1, n)

Runs(blocks) ==
    FoldLeft(LAMBDA rs, b :
                IF rs # <<>> /\ Last(rs).key + Last(rs).count = b /\ Last(rs).count < MaxExtent
                THEN [rs EXCEPT ![Len(rs)].count = @ + 1]
                ELSE Append(rs, [key |-> b, count |-> 1]),
             <<>>, blocks)

\* _allocate_data, and the data written there.
Take(w, blocks) ==
    [MarkUsed(w, ToSet(blocks)) EXCEPT
        !.roving = Last(blocks) + 1,
        !.runs = Runs(blocks),
        !.data = {[at |-> blocks[i], what |-> [id |-> "data", payload |-> now + 1, index |-> i]]
                    : i \in DOMAIN blocks}]

AllocateData(w, n) ==
    IF n = 0 THEN w
    ELSE IF w.block[RootContainer].free < n + AlwaysFree + Headroom \/ Cardinality(Usable(w)) < n
    THEN Fail(w)
    ELSE Take(w, NextBlocks(w, n))

(***************************************************************************)
(* Metadata blocks, from the regions the admin space containers record.    *)
(***************************************************************************)
AdminChain(v) ==
    LET walk[b \in 0..Total] == IF b = 0 THEN <<>> ELSE <<b>> \o walk[v[b].next]
    IN  walk[AdminSpace]

In(space) == space.start..space.start + Region - 1

\* The first block of a region that is not given out yet, or 0.
Vacant(v) ==
    LET chain == AdminChain(v)
        roomy == SelectSeq(FlattenSeq([i \in DOMAIN chain |-> v[chain[i]].spaces]),
                           LAMBDA s : In(s) # s.used)
    IN  IF roomy = <<>> THEN 0 ELSE Min(In(Head(roomy)) \ Head(roomy).used)

\* The region of a block is recorded anew.
Record(w, b, given) ==
    LET c == CHOOSE x \in ToSet(AdminChain(w.block)) :
                \E s \in ToSet(w.block[x].spaces) : b \in In(s)
    IN  Put(w, c, [w.block[c] EXCEPT !.spaces =
            [i \in DOMAIN @ |-> IF b \notin In(@[i]) THEN @[i]
                                ELSE [@[i] EXCEPT !.used = IF given THEN @ \cup {b} ELSE @ \ {b}]]])

\* The new region goes into the first container with room, or its own first
\* block becomes the next container.
RecordRegion(w, chain, start) ==
    LET roomy == {i \in DOMAIN chain : Len(w.block[chain[i]].spaces) < PerAdmin}
        c == IF roomy # {} THEN chain[Min(roomy)] ELSE Last(chain)
        fresh == [id |-> "admin", next |-> 0, prev |-> c,
                  spaces |-> <<[start |-> start, used |-> {start}]>>]
    IN  IF roomy # {}
        THEN Put(w, c, [w.block[c] EXCEPT !.spaces = Append(@, [start |-> start, used |-> {}])])
        ELSE Put(Put(w, c, [w.block[c] EXCEPT !.next = start]), start, fresh)

\* _add_admin_region.
AddRegion(w) ==
    LET starts == {b \in 1..Total - Region + 1 : b..b + Region - 1 \subseteq Usable(w)}
    IN  IF w.block[RootContainer].free < Region + AlwaysFree \/ starts = {} THEN Fail(w)
        ELSE RecordRegion(MarkUsed(w, Min(starts)..Min(starts) + Region - 1),
                          AdminChain(w.block), Min(starts))

\* _allocate_admin.
GiveOut(w, b, block) == [Put(Record(w, b, TRUE), b, block) EXCEPT !.got = b]

Grown(w) == IF Vacant(w.block) = 0 THEN AddRegion(w) ELSE w

AllocateAdmin(w, block) ==
    IF ~w.ok THEN w
    ELSE IF ~Grown(w).ok THEN Fail(w)
    ELSE GiveOut(Grown(w), Vacant(Grown(w).block), block)

\* _free_admin.
FreeAdmin(w, b) == IF w.ok THEN [Record(w, b, FALSE) EXCEPT !.pending = @ \ {b}] ELSE w

(***************************************************************************)
(* Objects, their nodes and their hash chains.                             *)
(***************************************************************************)
SetNode(w, n, node) == Put(w, NodeRoot, [w.block[NodeRoot] EXCEPT !.at[n] = node])

NodeOf(w, n) == w.block[NodeRoot].at[n]

\* _create_node takes the first of these.
FreeNodes(w) == {n \in Nodes : NodeOf(w, n).container = 0}

SetObject(w, o) ==
    LET c == NodeOf(w, o.node).container
    IN  Put(w, c, [w.block[c] EXCEPT !.objects =
            [i \in DOMAIN @ |-> IF @[i].node = o.node THEN o ELSE @[i]]])

\* The directory's object with a new list of containers, or a new date.
SetSecond(w, dir, c) == SetObject(w, [ObjectOf(w.block, dir) EXCEPT !.second = c])

Bump(w, dir) == SetObject(w, ObjectOf(w.block, dir))

SetHead(w, table, name, n) == Put(w, table, [w.block[table] EXCEPT !.chain[HashOf[name]] = n])

\* _hash_in.
HashIn(w, table, n, name) ==
    SetNode(SetHead(w, table, name, n), n,
            [NodeOf(w, n) EXCEPT !.next = w.block[table].chain[HashOf[name]]])

\* _hash_out.
HashOut(w, table, n, name) ==
    LET m == CHOOSE x \in 2..MaxNode : NodeOf(w, x).container # 0 /\ NodeOf(w, x).next = n
    IN  IF w.block[table].chain[HashOf[name]] = n
        THEN SetHead(w, table, name, NodeOf(w, n).next)
        ELSE SetNode(w, m, [NodeOf(w, m) EXCEPT !.next = NodeOf(w, n).next])

\* _insert_object: in the first container with room, or in a new one in
\* front; node 0 asks for a new node.
LinkContainer(w, dir, second) ==
    IF ~w.ok THEN w
    ELSE SetSecond(IF second = 0 THEN w
                   ELSE Put(w, second, [w.block[second] EXCEPT !.prev = w.got]), dir, w.got)

AddContainer(w, dir, second) ==
    LinkContainer(AllocateAdmin(w, Container(dir, second, 0, <<>>)), dir, second)

Place(w, dir, c, n, o) ==
    LET noded == SetNode(w, n, [NodeOf(w, n) EXCEPT !.container = c])
    IN  Bump(HashIn(Put(noded, c, [noded.block[c] EXCEPT
                            !.objects = Append(@, [o EXCEPT !.node = n])]),
                    ObjectOf(w.block, dir).first, n, o.name), dir)

PlaceNew(w, dir, c, o) ==
    IF ~w.ok THEN w
    ELSE IF o.node # 0 THEN Place(w, dir, c, o.node, o)
    ELSE IF FreeNodes(w) = {} THEN Fail(w)
    ELSE [Place(w, dir, c, Min(FreeNodes(w)), o) EXCEPT !.got = Min(FreeNodes(w))]

InsertWithRoom(w, dir, roomy, o) ==
    IF roomy # <<>> THEN PlaceNew(w, dir, Head(roomy), o)
    ELSE LET grown == AddContainer(w, dir, ObjectOf(w.block, dir).second)
         IN  PlaceNew(grown, dir, grown.got, o)

InsertObject(w, dir, o) ==
    IF ~w.ok THEN w
    ELSE InsertWithRoom(w, dir,
            SelectSeq(Containers(w.block, dir),
                      LAMBDA c : Units(w.block[c].objects) + Units(<<o>>) <= PerContainer), o)

\* _remove_container.
Unlink(w, dir, prev, next) ==
    LET back == IF next = 0 THEN w ELSE Put(w, next, [w.block[next] EXCEPT !.prev = prev])
    IN  IF prev # 0 THEN Put(back, prev, [back.block[prev] EXCEPT !.next = next])
        ELSE SetSecond(back, dir, next)

RemoveContainer(w, dir, c) == FreeAdmin(Unlink(w, dir, w.block[c].prev, w.block[c].next), c)

\* _remove_object: an emptied container goes.  The node stays with an object
\* that only moves.
TakeOut(w, dir, c, n) ==
    LET left == SelectSeq(w.block[c].objects, LAMBDA x : x.node # n)
    IN  Bump(IF left = <<>> THEN RemoveContainer(w, dir, c)
             ELSE Put(w, c, [w.block[c] EXCEPT !.objects = left]), dir)

Detach(w, n, o, c) ==
    LET dir == w.block[c].parent
    IN  TakeOut(HashOut(w, ObjectOf(w.block, dir).first, n, o.name), dir, c, n)

RemoveObject(w, n, keep) ==
    IF ~w.ok THEN w
    ELSE IF keep THEN Detach(w, n, ObjectOf(w.block, n), NodeOf(w, n).container)
    ELSE SetNode(Detach(w, n, ObjectOf(w.block, n), NodeOf(w, n).container), n, Unused)

\* _add_extents and _delete_extents.
AddExtents(w, n, runs) ==
    LET entry(i) == [key |-> runs[i].key, count |-> runs[i].count,
                     next |-> IF i < Len(runs) THEN runs[i + 1].key ELSE 0,
                     prev |-> IF i = 1 THEN 0 - n ELSE runs[i - 1].key]
    IN  Put(w, ExtentRoot, [w.block[ExtentRoot] EXCEPT
            !.extents = @ \cup {entry(i) : i \in DOMAIN runs}])

DeleteExtents(w, o) ==
    Put(MarkFree(w, ToSet(DataOf(w.block, o))), ExtentRoot,
        [w.block[ExtentRoot] EXCEPT !.extents = @ \ ToSet(Extents(w.block, o.first))])

\* _delete_object: what is in a drawer goes first, protected or not.
Emptied(w, o) ==
    CASE o.type = "drawer" -> FreeAdmin(w, o.first)
      [] o.type = "file" /\ o.first # 0 -> DeleteExtents(w, o)
      [] OTHER -> w

DeleteOne(w, n) == IF w.ok THEN RemoveObject(Emptied(w, ObjectOf(w.block, n)), n, FALSE) ELSE w

Below(v, n) ==
    LET below[m \in 0..MaxNode] ==
            LET os == Children(v, m)
            IN  FlattenSeq([i \in DOMAIN os |->
                    (IF os[i].type = "drawer" THEN below[os[i].node] ELSE <<>>) \o <<os[i].node>>])
    IN  IF ObjectOf(v, n).type = "drawer" THEN below[n] ELSE <<>>

DeleteObject(w, n) == FoldLeft(DeleteOne, w, Append(Below(w.block, n), n))

\* _reinsert: an object is written anew, perhaps elsewhere.
Reinsert(w, n, dir, o) == InsertObject(RemoveObject(w, n, TRUE), dir, o)

(***************************************************************************)
(* The commit.                                                             *)
(***************************************************************************)
Write(at, what) == [at |-> at, what |-> what]
Ok == Write(Marker, [id |-> "ok"])

\* _complete_recovered_transaction.
Recovery ==
    IF Overlay(disk) = <<>> THEN <<>>
    ELSE <<{Write(b, Overlay(disk)[b]) : b \in DOMAIN Overlay(disk)}, {Ok}>>

LogBlocks(w) == (Cardinality(w.pending) + PerLog - 1) \div PerLog

\* The blocks of the log, each with its share of what the change writes.
Log(w) ==
    LET at == NextBlocks(w, LogBlocks(w))
        changed == Up(w.pending)
        share(i) == {changed[k] : k \in (i - 1) * PerLog + 1..Min({i * PerLog, Len(changed)})}
    IN  {Write(at[i], [id |-> "log", next |-> IF i < Len(at) THEN at[i + 1] ELSE 0,
                       writes |-> [b \in share(i) |-> w.block[b]]]) : i \in DOMAIN at}

Failed(w) == Write(Marker, [id |-> "failed", log |-> NextBlocks(w, 1)[1]])

InPlace(w) == {Write(b, w.block[b]) : b \in w.pending}

Fits(w) == w.ok /\ LogBlocks(w) <= Cardinality(Usable(w))

\* Mutant of Commit: the marker is not kept back until the log is flushed.
CommitUnsynced(w) ==
    IF Fits(w) THEN <<w.data, Log(w) \cup {Failed(w)}, InPlace(w), {Ok}>> ELSE <<w.data>>

\* _commit; a change that fails leaves its file data in blocks that stay free.
Commit(w) ==
    IF Fits(w) THEN <<w.data, Log(w), {Failed(w)}, InPlace(w), {Ok}>> ELSE <<w.data>>

\* _change.
Change(kind, w) ==
    /\ kind \in Kinds /\ now < MaxOps
    /\ todo' = Recovery \o SelectSeq(Commit(w), LAMBDA stage : stage # {})
    /\ roving' = w.roving
    /\ now' = now + 1
    /\ UNCHANGED <<disk, crashes>>

(***************************************************************************)
(* The changes.  One that is refused still completes a recovered one.      *)
(***************************************************************************)
Refused ==
    /\ Recovery # <<>> /\ now < MaxOps
    /\ todo' = Recovery
    /\ now' = now + 1
    /\ UNCHANGED <<disk, roving, crashes>>

\* write_bytes: a file that is there goes first, protected or not.
Filled(w) ==
    IF ~w.ok \/ w.runs = <<>> THEN w
    ELSE SetObject(AddExtents(w, w.got, w.runs),
                   [ObjectOf(w.block, w.got) EXCEPT !.first = w.runs[1].key])

WriteBytes(dir, name, length) ==
    LET found == Find(View(disk), dir, name)
        cleared == FoldLeft(DeleteObject, Start, SetToSeq(found))
    IN  /\ \A n \in found : ObjectOf(View(disk), n).type = "file"
        /\ Change("write", Filled(InsertObject(AllocateData(cleared, length), dir,
                                               Object(0, name, "file", 0, length))))

\* mkdir.
NameTable(w, table) == IF w.ok THEN Put(w, table, HashTable(w.got)) ELSE w

Furnished(w, dir, name) ==
    NameTable(InsertObject(w, dir, Object(0, name, "drawer", w.got, 0)), w.got)

MakeDrawer(dir, name) ==
    /\ Find(View(disk), dir, name) = {}
    /\ Change("drawer", Furnished(AllocateAdmin(Start, HashTable(0)), dir, name))

\* remove.
Delete(o) ==
    /\ o.type = "file" => ~o.locked
    /\ Change("remove", DeleteObject(Start, o.node))

ParentOf(v, n) == v[v[NodeRoot].at[n].container].parent

Ancestors(v, n) ==
    LET up[m \in 1..MaxNode] == {m} \cup IF m = RootNode THEN {} ELSE up[ParentOf(v, m)]
    IN  up[n]

\* rename.
Rename(o, dir, name) ==
    /\ Find(View(disk), dir, name) \subseteq {o.node}
    /\ o.node \notin Ancestors(View(disk), dir)
    /\ Change("rename", Reinsert(Start, o.node, dir, [o EXCEPT !.name = name]))

\* set_access, in place, and set_comment, which needs more room.
SetProtection(o) == Change("protect", SetObject(Start, [o EXCEPT !.locked = ~@]))

SetComment(o) ==
    Change("comment", Reinsert(Start, o.node, ParentOf(View(disk), o.node),
                               [o EXCEPT !.comment = ~@]))

\* Every object but the root and .recycled, by path.
Listing(v) ==
    LET under[n \in 1..MaxNode] ==
            UNION {{[path |-> <<o.name>>, object |-> o]} \cup
                   (IF o.type = "drawer"
                    THEN {[x EXCEPT !.path = <<o.name>> \o @] : x \in under[o.node]} ELSE {})
                   : o \in {x \in ToSet(Children(v, n)) : x.type # "bin"}}
    IN  under[RootNode]

Operate ==
    LET objects == {x.object : x \in Listing(View(disk))}
        directories == {RootNode} \cup {o.node : o \in {x \in objects : x.type = "drawer"}}
    IN  \/ Refused
        \/ \E dir \in directories, name \in Names :
            \/ \E length \in Lengths : WriteBytes(dir, name, length)
            \/ MakeDrawer(dir, name)
            \/ \E o \in objects : Rename(o, dir, name)
        \/ \E o \in objects : Delete(o) \/ SetProtection(o) \/ SetComment(o)

(***************************************************************************)
(* The medium.                                                             *)
(***************************************************************************)
Applied(writes) ==
    [b \in Blocks |-> LET hit == {x \in writes : x.at = b}
                      IN  IF hit = {} THEN disk[b] ELSE (CHOOSE x \in hit : TRUE).what]

\* A flush: everything written since the last one is on the medium.
Flush ==
    /\ todo # <<>>
    /\ disk' = Applied(Head(todo))
    /\ todo' = Tail(todo)
    /\ UNCHANGED <<roving, now, crashes>>

\* Before a flush is over, the writes have reached the medium in any order:
\* some are lost.  The volume is mounted afresh.
PowerLoss ==
    /\ todo # <<>> /\ crashes < MaxCrashes
    /\ \E lost \in UNION {kSubset(k, Head(todo)) : k \in 1..MaxLost} \cup {Head(todo)} :
        disk' = Applied(Head(todo) \ lost)
    /\ todo' = <<>>
    /\ roving' = Roving
    /\ crashes' = crashes + 1
    /\ UNCHANGED now

\* format_sfs_volume.
Init ==
    LET fixed == <<
            [id |-> "admin", next |-> 0, prev |-> 0, spaces |-> <<[start |-> 1, used |-> 1..7]>>],
            [free |-> Total - Region - 1] @@
                Container(0, 0, 0,
                          <<Object(RootNode, "root", "drawer", RootTable, RecycledBlock)>>),
            [HashTable(RootNode) EXCEPT !.chain[0] = RecycledNode],
            [id |-> "ok"],
            [id |-> "extents", extents |-> {}],
            [id |-> "nodes", at |-> [n \in 1..MaxNode |->
                CASE n = RootNode -> [container |-> RootContainer, next |-> 0]
                  [] n = RecycledNode -> [container |-> RecycledBlock, next |-> 0]
                  [] OTHER -> Unused]],
            Container(RootNode, 0, 0, <<Object(RecycledNode, "recycled", "bin", 0, 0)>>)>>
        bitmap == [id |-> "bitmap", free |-> Bitmap + 1..Total]
    IN  /\ disk = [b \in Blocks |-> IF b <= 7 THEN fixed[b]
                                    ELSE IF b = Bitmap THEN bitmap ELSE Blank]
        /\ todo = <<>>
        /\ roving = Roving
        /\ now = 0
        /\ crashes = 0

Next == (todo = <<>> /\ Operate) \/ Flush \/ PowerLoss

Spec == Init /\ [][Next]_vars

(***************************************************************************)
(* Properties of the volume as it would be mounted, at every moment:       *)
(* between the flushes of a change, and after a power loss.                *)
(***************************************************************************)
Directories(v) ==
    {RootNode} \cup {x.object.node : x \in {y \in Listing(v) : y.object.type = "drawer"}}
Files(v) == {x.object : x \in {y \in Listing(v) : y.object.type = "file"}}

\* _check_catalogue and _check_hash_table, for one directory: containers
\* linked both ways and never empty, each object where its node says, and
\* once in the hash chain of its name.
DirectoryIsWhole(v, dir) ==
    LET cs == Containers(v, dir)
        children == Children(v, dir)
        table == v[ObjectOf(v, dir).first]
        walk[n \in 0..MaxNode] == IF n = 0 THEN <<>> ELSE <<n>> \o walk[v[NodeRoot].at[n].next]
        Hash(o) == IF o.type = "bin" THEN 0 ELSE HashOf[o.name]
    IN  /\ table.id = "hash" /\ table.node = dir
        /\ \A i \in DOMAIN cs :
            /\ v[cs[i]].id = "objects" /\ v[cs[i]].parent = dir /\ v[cs[i]].objects # <<>>
            /\ v[cs[i]].prev = IF i = 1 THEN 0 ELSE cs[i - 1]
            /\ \A o \in ToSet(v[cs[i]].objects) : v[NodeRoot].at[o.node].container = cs[i]
        /\ \A i, j \in DOMAIN children : children[i].name = children[j].name => i = j
        /\ \A c \in Chains :
            /\ IsInjective(walk[table.chain[c]])
            /\ ToSet(walk[table.chain[c]]) = {o.node : o \in {x \in ToSet(children) : Hash(x) = c}}

\* _check_file: the extents of a file are chained both ways and hold its size.
FileIsWhole(v, o) ==
    LET es == Extents(v, o.first)
    IN  /\ o.second = Len(DataOf(v, o))
        /\ \A i \in DOMAIN es : es[i].prev = IF i = 1 THEN 0 - o.node ELSE es[i - 1].key

\* "Power lost before step 3 leaves the volume exactly as it was; power lost
\* after it leaves a log that SFS replays": whatever part of a stage is on the
\* medium, the marker names no damaged log and the volume read through the
\* log is whole, as validate checks it (sfs.py).
MountsWhole ==
    LET v == View(disk) IN
    /\ LogIsReadable(disk)
    /\ \A dir \in Directories(v) : DirectoryIsWhole(v, dir)
    /\ \A o \in Files(v) : FileIsWhole(v, o)

\* Metadata in use: admin space and object containers, hash tables, what has
\* a fixed place.
Metadata(v) ==
    ToSet(AdminChain(v)) \cup {RootContainer, Marker, ExtentRoot, NodeRoot}
        \cup UNION {ToSet(Containers(v, d)) \cup {ObjectOf(v, d).first} : d \in Directories(v)}

\* _check_node_tree and _check_extent_tree: what the two trees hold.
NodesInUse(v) == {n \in 1..MaxNode : v[NodeRoot].at[n].container # 0}
ExtentsKept(v) == v[ExtentRoot].extents

Spaces(v) == UNION {ToSet(v[c].spaces) : c \in ToSet(AdminChain(v))}

\* Nothing is lost and nothing is owned twice, at every moment: a block is
\* free exactly when it is in no admin region and in no file, a metadata block
\* is given out exactly when something refers to it, nodes and extents are
\* those of the objects there are, and the free count is right.
NothingLost ==
    LET v == View(disk)
        data == UNION {ToSet(DataOf(v, o)) : o \in Files(v)}
        regions == UNION {s.start..s.start + Region - 1 : s \in Spaces(v)}
    IN  /\ Free(v) = Blocks \ (data \cup regions \cup {Bitmap})
        /\ data \cap (regions \cup {Bitmap}) = {}
        /\ \A o, p \in Files(v) : o # p => ToSet(DataOf(v, o)) \cap ToSet(DataOf(v, p)) = {}
        /\ v[RootContainer].free = Cardinality(Free(v))
        /\ UNION {s.used : s \in Spaces(v)} = Metadata(v)
        /\ NodesInUse(v) = {RootNode, RecycledNode} \cup {x.object.node : x \in Listing(v)}
        /\ ExtentsKept(v) = UNION {ToSet(Extents(v, o.first)) : o \in Files(v)}

\* What a mount finds after a power loss at any moment: a whole volume that
\* has lost no block and owns none twice.
MediumIsSound == MountsWhole /\ NothingLost

\* What a file holds: the one write it is from, or -1 if it is torn.
Holds(v, o) ==
    LET blocks == DataOf(v, o)
        first == v[blocks[1]]
    IN  IF blocks = <<>> THEN 0
        ELSE IF \A i \in DOMAIN blocks :
                    v[blocks[i]].id = "data" /\ v[blocks[i]].index = i
                    /\ v[blocks[i]].payload = first.payload
        THEN first.payload ELSE -1

TreeOf(v) ==
    {[path |-> x.path, type |-> x.object.type,
      payload |-> IF x.object.type = "file" THEN Holds(v, x.object) ELSE 0,
      locked |-> x.object.type = "file" /\ x.object.locked] : x \in Listing(v)}

Mounted == UNION {TreeOf(v) : v \in {View(disk)}}

Tree == INSTANCE VolumeTree
        WITH tree <- Mounted, Payloads <- 0..MaxOps, Removal <- "whole"

\* The volume goes from one tree to the tree that was asked for in one step,
\* whenever the power goes, drawers with all that is in them included.
ImplementsTree ==
    Tree!Init /\ [][Mounted' # Mounted => Tree!Next]_disk
=============================================================================
