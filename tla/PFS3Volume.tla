----------------------------- MODULE PFS3Volume -----------------------------
(***************************************************************************)
(* A PFS3 volume as amiganut/filesystem/pfs3_write.py changes it: a change *)
(* is gathered in memory and committed copy-on-write.  Every changed       *)
(* reserved block moves to a free place and its parent is pointed there,   *)
(* up to the root; the moved blocks are written and flushed, then the      *)
(* root, then the root once more with the old places released.             *)
(*                                                                         *)
(* Writes between two flushes (BlockReader.sync) may reach the medium in   *)
(* any order, so what a power loss leaves of them is any subset: a change  *)
(* is a sequence of stages, each a set of writes that a flush completes.   *)
(* The root cluster is written as a whole.                                 *)
(*                                                                         *)
(* The reserved area's trees are kept: directory blocks under anodes,      *)
(* anode blocks under the index block, the bitmap block under the bitmap   *)
(* index, the extension.  There is one index block and one bitmap block,   *)
(* no super index, no deleted-files directory and no hard links; a name    *)
(* and its entry count one unit of a directory block, a comment another.   *)
(***************************************************************************)
EXTENDS Integers, Sequences, FiniteSets, SequencesExt, FiniteSetsExt

CONSTANTS
    Reserved,           \* blocks of the reserved area behind the root cluster
    DataBlocks,         \* blocks for file data
    Threshold,          \* RESFREE_THRESHOLD
    AlwaysFree,         \* data blocks the volume keeps free
    PerDir,             \* units a directory block holds
    PerAnode,           \* anodes an anode block holds
    KeptAnodes,         \* RESERVEDANODES, kept for chained anodes
    MaxSeq,             \* the last anode block the index block has room for
    CheckpointBlocks,   \* CHECKPOINT_BLOCKS
    Names,              \* names of objects
    MaxLength,          \* data blocks of the longest file
    Kinds,              \* the kinds of change that are asked for
    MaxOps,             \* bound on the changes and power losses of a behaviour
    MaxCrashes,         \* bound on the power losses
    MaxLost             \* bound on the writes a power loss keeps from the medium,
                        \* unless it keeps all that are not flushed

VARIABLES
    disk,       \* the medium: root cluster, reserved blocks, data blocks
    todo,       \* stages of the running change that are not flushed yet
    now,        \* changes so far
    crashes     \* power losses so far

vars == <<disk, todo, now, crashes>>

Blocks == 1..Reserved
RootDir == 1                                    \* ANODE_ROOTDIR
AnodeNumbers == 0..(MaxSeq + 1) * PerAnode - 1  \* 0 ends a chain

(***************************************************************************)
(* Blocks and anodes.                                                      *)
(***************************************************************************)
Blank == [type |-> "blank"]
DirBlock(main, parent, entries) ==
    [type |-> "directory", main |-> main, parent |-> parent, entries |-> entries]
AnodeBlock(seq, anodes) == [type |-> "anodes", seq |-> seq, anodes |-> anodes]
IndexBlock(blocks) == [type |-> "index", blocks |-> blocks]
BitmapIndex(page) == [type |-> "maps", page |-> page]
BitmapBlock(S) == [type |-> "bitmap", free |-> S]
Extension(roving, seq) == [type |-> "extension", roving |-> roving, seq |-> seq]

Run(first, size, next) == [first |-> first, size |-> size, next |-> next]
Free == Run(0, 0, 0)
Empty == Run(-1, 0, 0)

Entry(name, type, anode, size) ==
    [name |-> name, type |-> type, anode |-> anode, size |-> size,
     locked |-> FALSE, comment |-> FALSE]

Units(entries) ==
    FoldLeft(LAMBDA n, e : n + (IF e.comment THEN 2 ELSE 1), 0, entries)

(***************************************************************************)
(* Reading, on the medium or in a change: v has a root and blocks.         *)
(***************************************************************************)
AnodeSeq(n) == n \div PerAnode
Slot(n) == n % PerAnode

AnodeBlockAt(v, seq) == v.block[v.root.index].blocks[seq]

Anode(v, n) == v.block[AnodeBlockAt(v, AnodeSeq(n))].anodes[Slot(n)]

Chain(v, first) ==
    LET walk[n \in AnodeNumbers] ==
            IF n = 0 THEN <<>> ELSE <<n>> \o walk[Anode(v, n).next]
    IN  walk[first]

DirBlocks(v, main) ==
    LET chain == Chain(v, main) IN [i \in DOMAIN chain |-> Anode(v, chain[i]).first]

Entries(v, main) ==
    LET blocks == DirBlocks(v, main)
    IN  FlattenSeq([i \in DOMAIN blocks |-> v.block[blocks[i]].entries])

Find(v, main, name) == {e \in ToSet(Entries(v, main)) : e.name = name}

BlockOf(v, main, n) ==
    CHOOSE b \in ToSet(DirBlocks(v, main)) :
        \E e \in ToSet(v.block[b].entries) : e.anode = n

ParentOf(v, main) == v.block[DirBlocks(v, main)[1]].parent

\* The blocks of a file, in order.
DataOf(v, n) ==
    LET chain == Chain(v, n)
        run(a) == [i \in 1..a.size |-> a.first + i - 1]
    IN  FlattenSeq([i \in DOMAIN chain |-> run(Anode(v, chain[i]))])

\* Every object that can be reached, by path.
Listing(v) ==
    LET under[main \in AnodeNumbers] ==
            UNION {{[path |-> <<e.name>>, entry |-> e]} \cup
                   (IF e.type = "drawer"
                    THEN {[o EXCEPT !.path = <<e.name>> \o @] : o \in under[e.anode]}
                    ELSE {}) : e \in ToSet(Entries(v, main))}
    IN  under[RootDir]

\* What is in a drawer, each object behind what it contains.
Below(v, main) ==
    LET below[m \in AnodeNumbers] ==
            LET es == Entries(v, m) IN
            FlattenSeq([i \in DOMAIN es |->
                (IF es[i].type = "drawer" THEN below[es[i].anode] ELSE <<>>)
                    \o <<[dir |-> m, entry |-> es[i]]>>])
    IN  below[main]

(***************************************************************************)
(* A change: the volume as changed so far, the reserved blocks changed in  *)
(* the order they were first touched, those new to it, what it frees, the  *)
(* roving pointers, the number last given out, the stages it has written.  *)
(***************************************************************************)
Start ==
    LET ext == disk.block[disk.root.ext] IN
    [root |-> disk.root, block |-> disk.block, dirty |-> <<>>, fresh |-> {},
     gone |-> {}, frees |-> {}, roving |-> ext.roving, seq |-> ext.seq,
     got |-> 0, chain |-> <<>>, stages |-> <<>>, ok |-> TRUE]

Fail(w) == [w EXCEPT !.ok = FALSE]

\* _edit: the block is changed in memory.
Put(w, b, block) ==
    IF ~w.ok THEN w
    ELSE [w EXCEPT !.block[b] = block,
                   !.dirty = IF Contains(@, b) THEN @ ELSE Append(@, b)]

\* _alloc_reserved and _new_block.
NewBlock(w, block) ==
    LET later == {b \in w.root.reserved : b >= w.roving}
        b == Min(IF later # {} THEN later ELSE w.root.reserved)
        taken == [w EXCEPT !.root.reserved = @ \ {b}, !.root.spare = @ - 1,
                           !.roving = b, !.fresh = @ \cup {b}, !.got = b]
    IN  IF ~w.ok \/ w.root.spare <= Threshold \/ w.root.reserved = {} THEN Fail(w)
        ELSE Put(taken, b, block)

\* _drop_block: the place is released when the change is committed.
DropBlock(w, b) ==
    IF ~w.ok THEN w
    ELSE [w EXCEPT !.dirty = SelectSeq(@, LAMBDA x : x # b),
                   !.fresh = @ \ {b}, !.frees = @ \cup {b}]

(***************************************************************************)
(* Anodes.                                                                 *)
(***************************************************************************)
PutAnode(w, n, anode) ==
    LET b == AnodeBlockAt(w, AnodeSeq(n))
    IN  Put(w, b, [w.block[b] EXCEPT !.anodes[Slot(n)] = anode])

TakeAnode(w, seq, slot) ==
    LET n == seq * PerAnode + slot
    IN  IF ~w.ok THEN w ELSE [PutAnode(w, n, Empty) EXCEPT !.seq = seq, !.got = n]

NewAnodeBlock(w, seq) ==
    LET new == NewBlock(w, AnodeBlock(seq, [s \in 0..PerAnode - 1 |-> Free]))
    IN  Put(new, w.root.index, [w.block[w.root.index] EXCEPT !.blocks[seq] = new.got])

\* _alloc_anode: beside connect if there is room, or in the first anode block
\* from the roving one on, or in a new one.
AllocAnode(w, connect) ==
    LET IsFree(seq, slot) == w.block[AnodeBlockAt(w, seq)].anodes[slot] = Free
        beside == {s \in 0..PerAnode - 1 : connect # 0 /\ IsFree(AnodeSeq(connect), s)}
        highest == Max({s \in 0..MaxSeq : AnodeBlockAt(w, s) # 0})
        slots(seq) == {s \in 0..PerAnode - KeptAnodes - 1 : IsFree(seq, s)}
        room == {s \in 0..highest : slots(s) # {}}
        later == {s \in room : s >= w.seq}
        seq == Min(IF later # {} THEN later ELSE room)
    IN  IF ~w.ok THEN w
        ELSE IF beside # {} THEN TakeAnode(w, AnodeSeq(connect), Max(beside))
        ELSE IF room # {} THEN TakeAnode(w, seq, Min(slots(seq)))
        ELSE IF highest = MaxSeq THEN Fail(w)
        ELSE TakeAnode(NewAnodeBlock(w, highest + 1), highest + 1, 0)

\* _write_chain: one anode for each run, the first in the head.
WriteChain(w, head, runs) ==
    LET More(v, i) == LET x == AllocAnode(v, Last(v.chain))
                      IN  [x EXCEPT !.chain = Append(@, x.got)]
        all == FoldLeft(More, [w EXCEPT !.chain = <<head>>],
                        [i \in 1..Len(runs) - 1 |-> i])
        After(i) == IF i < Len(runs) THEN all.chain[i + 1] ELSE 0
    IN  IF ~w.ok THEN w
        ELSE IF runs = <<>> THEN PutAnode(w, head, Empty)
        ELSE FoldLeft(LAMBDA v, i : PutAnode(v, all.chain[i],
                                        Run(runs[i].first, runs[i].size, After(i))),
                      all, [i \in DOMAIN runs |-> i])

\* _free_chain: the blocks are listed, and marked free when committed.
FreeChain(w, head, keep) ==
    LET freed == FoldLeft(LAMBDA v, n : PutAnode(v, n, Free), w, Tail(Chain(w, head)))
    IN  PutAnode([freed EXCEPT !.gone = @ \cup ToSet(DataOf(w, head))],
                 head, IF keep THEN Empty ELSE Free)

(***************************************************************************)
(* Data blocks.                                                            *)
(***************************************************************************)
Page(v) == v.block[v.root.maps].page

Runs(blocks) ==
    FoldLeft(LAMBDA rs, b :
                IF rs # <<>> /\ Last(rs).first + Last(rs).size = b
                THEN [rs EXCEPT ![Len(rs)].size = @ + 1]
                ELSE Append(rs, Run(b, 1, 0)),
             <<>>, blocks)

\* The blocks _allocate_data takes, from the roving pointer on.
NextData(w, n) ==
    LET free == w.block[Page(w)].free
        Up(S) == SetToSortSeq(S, LAMBDA b, c : b < c)
    IN  SubSeq(Up({b \in free : b >= w.root.rover}) \o Up({b \in free : b < w.root.rover}), 1, n)

AllocateData(w, n) ==
    LET taken == NextData(w, n)
        after == Last(taken) + 1
    IN  IF n = 0 THEN w
        ELSE IF n > w.root.blocksfree - AlwaysFree THEN Fail(w)
        ELSE Put([w EXCEPT !.root.blocksfree = @ - n,
                           !.root.rover = IF after > DataBlocks THEN 1 ELSE after],
                 Page(w), BitmapBlock(w.block[Page(w)].free \ ToSet(taken)))

DataWrites(blocks, payload) ==
    {[to |-> "data", at |-> blocks[i], what |-> [payload |-> payload, index |-> i]] :
        i \in DOMAIN blocks}

WriteData(w, blocks, payload) ==
    IF ~w.ok \/ blocks = <<>> THEN w
    ELSE [w EXCEPT !.stages = Append(@, DataWrites(blocks, payload))]

\* _apply_data_frees.
ApplyDataFrees(w) ==
    LET free == w.block[Page(w)].free IN
    IF w.gone = {} THEN w
    ELSE Put([w EXCEPT !.root.blocksfree = @ + Cardinality(w.gone \ free), !.gone = {}],
             Page(w), BitmapBlock(free \cup w.gone))

(***************************************************************************)
(* The commit: changed blocks move, children before their parents.         *)
(***************************************************************************)
RelocationOrder == <<"directory", "anodes", "index", "bitmap", "maps", "extension">>

Waiting(w, kind) ==
    SelectSeq(w.dirty, LAMBDA b : b \notin w.fresh /\ w.block[b].type = kind)

\* What points at a block that moved from b, by the kind of block.
Repoint(w, b, block, to) ==
    CASE block.type = "directory" ->
            LET n == CHOOSE n \in ToSet(Chain(w, block.main)) : Anode(w, n).first = b
            IN  PutAnode(w, n, [Anode(w, n) EXCEPT !.first = to])
      [] block.type = "anodes" ->
            Put(w, w.root.index, [w.block[w.root.index] EXCEPT !.blocks[block.seq] = to])
      [] block.type = "index" -> [w EXCEPT !.root.index = to]
      [] block.type = "bitmap" -> Put(w, w.root.maps, BitmapIndex(to))
      [] block.type = "maps" -> [w EXCEPT !.root.maps = to]
      [] block.type = "extension" -> [w EXCEPT !.root.ext = to]

Relocate(w, b) ==
    LET moved == NewBlock(DropBlock(w, b), w.block[b])
    IN  IF moved.ok THEN Repoint(moved, b, w.block[b], moved.got) ELSE moved

Writes(w) == {[to |-> "reserved", at |-> b, what |-> w.block[b]] : b \in ToSet(w.dirty)}

RootWrite(root) == {[to |-> "root", at |-> 0, what |-> root]}

\* The change as it is to be committed: freed data marked free, every changed
\* block moved, the pointers stored in the extension.
Gathered(w) ==
    LET freed == ApplyDataFrees(w)
        edited == Put(freed, freed.root.ext, freed.block[freed.root.ext])
        Move(v, kind) == FoldLeft(Relocate, v, Waiting(v, kind))
        moved == FoldLeft(Move, edited, RelocationOrder)
    IN  Put(moved, moved.root.ext, Extension(moved.roving, moved.seq))

Released(w) ==
    [w.root EXCEPT !.reserved = @ \cup w.frees,
                   !.spare = @ + Cardinality(w.frees \ w.root.reserved)]

Committed(w, stages) ==
    [w EXCEPT !.root = Released(w), !.dirty = <<>>, !.fresh = {}, !.frees = {},
              !.stages = @ \o stages]

\* Mutant of Commit: the root is not kept back until the blocks are flushed.
CommitUnsynced(w) ==
    LET g == Gathered(w)
    IN  IF ~w.ok \/ ~g.ok THEN Fail(w)
        ELSE Committed(g, <<Writes(g) \cup RootWrite(g.root), RootWrite(Released(g))>>)

\* Mutant of Commit: file data is flushed after the root.
CommitBeforeData(w) ==
    LET g == Gathered(w)
    IN  IF ~w.ok \/ ~g.ok THEN Fail(w)
        ELSE [Committed(g, <<>>) EXCEPT
                !.stages = <<Writes(g), RootWrite(g.root), RootWrite(Released(g))>> \o @]

\* _commit.  Nothing of a commit that fails is written.
Commit(w) ==
    LET g == Gathered(w)
    IN  IF ~w.ok \/ ~g.ok THEN Fail(w)
        ELSE Committed(g, <<Writes(g), RootWrite(g.root), RootWrite(Released(g))>>)

Checkpoint(w) == IF w.ok /\ Len(w.dirty) >= CheckpointBlocks THEN Commit(w) ELSE w

(***************************************************************************)
(* Directory entries.                                                      *)
(***************************************************************************)
\* _add_entry: in the first block with room, or in a new one in front.
AddEntry(w, main, e) ==
    LET roomy == SelectSeq(DirBlocks(w, main),
                    LAMBDA b : Units(w.block[b].entries) + Units(<<e>>) <= PerDir)
        b == Head(roomy)
        head == Anode(w, main)
        new == NewBlock(w, DirBlock(main, ParentOf(w, main), <<e>>))
        moved == AllocAnode(new, IF head.next = 0 THEN main ELSE head.next)
    IN  IF roomy # <<>> THEN Put(w, b, [w.block[b] EXCEPT !.entries = Append(@, e)])
        ELSE PutAnode(PutAnode(moved, moved.got, head), main, Run(new.got, 1, moved.got))

\* _remove_entry and _drop_empty_dirblock: an emptied block goes, unless it
\* is the first.
RemoveEntry(w, main, n) ==
    LET b == BlockOf(w, main, n)
        chain == Chain(w, main)
        i == CHOOSE k \in DOMAIN chain : Anode(w, chain[k]).first = b
        left == SelectSeq(w.block[b].entries, LAMBDA e : e.anode # n)
        put == Put(w, b, [w.block[b] EXCEPT !.entries = left])
        before == [Anode(w, chain[i - 1]) EXCEPT !.next = Anode(w, chain[i]).next]
    IN  IF ~w.ok THEN w
        ELSE IF left # <<>> \/ i = 1 THEN put
        ELSE DropBlock(PutAnode(PutAnode(put, chain[i - 1], before), chain[i], Free), b)

\* _replace_entry: in place when it still fits its block.
ReplaceEntry(w, main, e) ==
    LET b == BlockOf(w, main, e.anode)
        new == [i \in DOMAIN w.block[b].entries |->
                    IF w.block[b].entries[i].anode = e.anode THEN e
                    ELSE w.block[b].entries[i]]
    IN  IF w.ok /\ Units(new) <= PerDir THEN Put(w, b, [w.block[b] EXCEPT !.entries = new])
        ELSE AddEntry(RemoveEntry(w, main, e.anode), main, e)

\* _touch: the entry of a directory is dated, the root's date is in the extension.
Touch(w, main) ==
    LET b == IF main = RootDir THEN w.root.ext ELSE BlockOf(w, ParentOf(w, main), main)
    IN  Put(w, b, w.block[b])

(***************************************************************************)
(* Operations.  A refused one changes nothing; one that fails has written  *)
(* at most data in free blocks and the checkpoints it had reached.         *)
(***************************************************************************)
Change(kind, w) ==
    /\ todo = <<>> /\ now + crashes < MaxOps /\ kind \in Kinds
    /\ todo' = Commit(w).stages
    /\ now' = now + 1
    /\ UNCHANGED <<disk, crashes>>

\* write_bytes: file data goes to free blocks before anything else changes.
WriteBytes(main, name, length) ==
    LET found == Find(disk, main, name)
        blocks == NextData(Start, length)
        written == WriteData(AllocateData(Start, length), blocks, now + 1)
        old == CHOOSE e \in found : TRUE
        cleared == FreeChain(written, old.anode, TRUE)
        new == AllocAnode(written, 0)
        Chained(w, head) == WriteChain(w, head, Runs(blocks))
    IN  /\ \A e \in found : e.type = "file" /\ ~e.locked
        /\ Change("write",
                  Touch(IF found # {}
                        THEN ReplaceEntry(Chained(cleared, old.anode), main,
                                          [old EXCEPT !.size = length])
                        ELSE AddEntry(Chained(new, new.got), main,
                                      Entry(name, "file", new.got, length)),
                        main))

\* mkdir.
MakeDrawer(main, name) ==
    LET new == AllocAnode(Start, 0)
        added == AddEntry(new, main, Entry(name, "drawer", new.got, 0))
        block == NewBlock(added, DirBlock(new.got, main, <<>>))
    IN  /\ Find(disk, main, name) = {}
        /\ Change("drawer", Touch(PutAnode(block, new.got, Run(block.got, 1, 0)), main))

\* _delete of an empty drawer or a file.
DeleteOne(w, x) ==
    LET n == x.entry.anode
        freed == IF x.entry.type = "file" THEN FreeChain(w, n, FALSE)
                 ELSE FoldLeft(LAMBDA v, a : DropBlock(PutAnode(v, a, Free), Anode(w, a).first),
                               w, Chain(w, n))
    IN  IF w.ok THEN Touch(RemoveEntry(freed, x.dir, n), x.dir) ELSE w

\* remove: what is in a drawer goes first, whether it is protected or not.
Delete(main, e) ==
    LET inside == IF e.type = "drawer" THEN Below(disk, e.anode) ELSE <<>>
        emptied == FoldLeft(LAMBDA w, x : Checkpoint(DeleteOne(w, x)), Start, inside)
    IN  /\ e.type = "file" => ~e.locked
        /\ Change("remove", DeleteOne(emptied, [dir |-> main, entry |-> e]))

\* The directories from one up to the root.
Ancestors(main) ==
    LET up[m \in AnodeNumbers] == {m} \cup IF m = RootDir THEN {} ELSE up[ParentOf(disk, m)]
    IN  up[main]

Moved(main, e, target, name) ==
    LET renamed == [e EXCEPT !.name = name]
        away == RemoveEntry(AddEntry(Start, target, renamed), main, e.anode)
        told == IF e.type = "file" THEN away
                ELSE FoldLeft(LAMBDA w, b : Put(w, b, [w.block[b] EXCEPT !.parent = target]),
                              away, DirBlocks(away, e.anode))
    IN  IF target = main THEN Touch(ReplaceEntry(Start, main, renamed), main)
        ELSE Touch(Touch(told, main), target)

MayTake(main, e, target, name) ==
    LET clash == Find(disk, target, name) IN clash = {} \/ (target = main /\ clash = {e})

\* rename.
Rename(main, e, target, name) ==
    /\ MayTake(main, e, target, name)
    /\ e.anode \notin Ancestors(target)
    /\ Change("rename", Moved(main, e, target, name))

\* set_access and set_comment, through set_amiga_meta.
SetProtection(main, e) == Change("protect", ReplaceEntry(Start, main, [e EXCEPT !.locked = ~@]))

SetComment(main, e) == Change("comment", ReplaceEntry(Start, main, [e EXCEPT !.comment = ~@]))

(***************************************************************************)
(* The medium.                                                             *)
(***************************************************************************)
Applied(writes) ==
    LET What(to, at, old) ==
            LET hit == {x \in writes : x.to = to /\ x.at = at}
            IN  IF hit = {} THEN old ELSE (CHOOSE x \in hit : TRUE).what
    IN  [root |-> What("root", 0, disk.root),
         block |-> [b \in Blocks |-> What("reserved", b, disk.block[b])],
         data |-> [b \in 1..DataBlocks |-> What("data", b, disk.data[b])]]

\* A flush: everything written since the last one is on the medium.
Flush ==
    /\ todo # <<>>
    /\ disk' = Applied(Head(todo))
    /\ todo' = Tail(todo)
    /\ UNCHANGED <<now, crashes>>

\* Before a flush is over, the writes have reached the medium in any order:
\* some are lost.
PowerLoss ==
    /\ todo # <<>> /\ crashes < MaxCrashes
    /\ \E lost \in UNION {kSubset(k, Head(todo)) : k \in 1..MaxLost} \cup {Head(todo)} :
        disk' = Applied(Head(todo) \ lost)
    /\ todo' = <<>>
    /\ crashes' = crashes + 1
    /\ UNCHANGED now

\* _format: extension, bitmap index, bitmap, anode index, anodes, root directory.
Init ==
    LET anodes == [s \in 0..PerAnode - 1 |->
                    IF s < RootDir THEN Empty ELSE IF s = RootDir THEN Run(6, 1, 0) ELSE Free]
        first == <<Extension(6, 0), BitmapIndex(3), BitmapBlock(1..DataBlocks),
                   IndexBlock([s \in 0..MaxSeq |-> IF s = 0 THEN 5 ELSE 0]),
                   AnodeBlock(0, anodes), DirBlock(RootDir, 0, <<>>)>>
    IN  /\ disk = [root |-> [ext |-> 1, maps |-> 2, index |-> 4,
                             reserved |-> 7..Reserved, spare |-> Reserved - 6,
                             blocksfree |-> DataBlocks, rover |-> 1],
                   block |-> [b \in Blocks |-> IF b <= 6 THEN first[b] ELSE Blank],
                   data |-> [b \in 1..DataBlocks |-> Blank]]
        /\ todo = <<>>
        /\ now = 0
        /\ crashes = 0

Directories == {RootDir} \cup
               {o.entry.anode : o \in {x \in Listing(disk) : x.entry.type = "drawer"}}

Operate ==
    \E main \in Directories :
        \/ \E name \in Names :
            \/ MakeDrawer(main, name)
            \/ \E length \in 0..MaxLength : WriteBytes(main, name, length)
        \/ \E e \in ToSet(Entries(disk, main)) :
            \/ Delete(main, e)
            \/ SetProtection(main, e)
            \/ SetComment(main, e)
            \/ \E target \in Directories, name \in Names : Rename(main, e, target, name)

Next == (todo = <<>> /\ Operate) \/ Flush \/ PowerLoss

Spec == Init /\ [][Next]_vars

(***************************************************************************)
(* Properties of the medium, at every moment: between the flushes of a     *)
(* change, and after a power loss.                                         *)
(***************************************************************************)
AnodeBlocks(v) == {s \in 0..MaxSeq : AnodeBlockAt(v, s) # 0}

\* check_tree, check_anode_tree and check_bitmap_tree: every block is of the
\* kind its parent takes it for, a directory block names its directory and
\* that one's parent, no name appears twice, a file has its blocks.
WholeDirectories(v) ==
    LET whole[x \in AnodeNumbers \X AnodeNumbers] ==
            LET blocks == DirBlocks(v, x[1])
                entries == Entries(v, x[1])
            IN  /\ IsInjective(blocks)
                /\ \A b \in ToSet(blocks) :
                    /\ v.block[b].type = "directory"
                    /\ v.block[b].main = x[1] /\ v.block[b].parent = x[2]
                /\ \A i, j \in DOMAIN entries : entries[i].name = entries[j].name => i = j
                /\ \A e \in ToSet(entries) :
                    IF e.type = "drawer" THEN whole[<<e.anode, x[1]>>]
                    ELSE Len(DataOf(v, e.anode)) = e.size
    IN  whole[<<RootDir, 0>>]

\* _load_root: the volume opens.
RootLoads(v) == v.block[v.root.ext].type = "extension"

Whole(v) ==
    /\ RootLoads(v)
    /\ v.block[v.root.maps].type = "maps"
    /\ v.block[Page(v)].type = "bitmap"
    /\ v.block[v.root.index].type = "index"
    /\ \A s \in AnodeBlocks(v) :
        LET b == AnodeBlockAt(v, s) IN v.block[b].type = "anodes" /\ v.block[b].seq = s
    /\ WholeDirectories(v)

\* Everything that is in use, as often as it is claimed.
Files(v) == {o \in Listing(v) : o.entry.type = "file"}

UsedData(v) == UNION {ToSet(DataOf(v, o.entry.anode)) : o \in Files(v)}

UsedAnodes(v) ==
    {0} \cup UNION {ToSet(Chain(v, n)) : n \in {RootDir} \cup {o.entry.anode : o \in Listing(v)}}

DirectoryBlocks(v) ==
    UNION {ToSet(DirBlocks(v, n)) :
            n \in {RootDir} \cup {o.entry.anode : o \in Listing(v) \ Files(v)}}

UsedReserved(v) ==
    {v.root.ext, v.root.maps, Page(v), v.root.index}
        \cup {AnodeBlockAt(v, s) : s \in AnodeBlocks(v)} \cup DirectoryBlocks(v)

\* "Power lost before step 5 leaves the volume exactly as it was; power lost
\* after it leaves the new volume": the tree the root leads to is whole, at
\* every moment and whatever part of a stage has reached the medium.
TreeIsWhole == Whole(disk)

\* What a file or a directory owns is its own.
ClaimedOnce ==
    /\ \A o, p \in Listing(disk) : o # p =>
        ToSet(Chain(disk, o.entry.anode)) \cap ToSet(Chain(disk, p.entry.anode)) = {}
    /\ \A o, p \in Files(disk) : o # p =>
        ToSet(DataOf(disk, o.entry.anode)) \cap ToSet(DataOf(disk, p.entry.anode)) = {}
    /\ \A o \in Files(disk) : IsInjective(DataOf(disk, o.entry.anode))

\* compare_anodes and compare_bitmap find nothing, at every moment: a data
\* block or an anode is free exactly when nothing refers to it, and the free
\* count is right.  Not even a power loss leaks one.
NoDataLost ==
    LET free == disk.block[Page(disk)].free IN
    /\ free = (1..DataBlocks) \ UsedData(disk)
    /\ disk.root.blocksfree = Cardinality(free)
    /\ {n \in AnodeNumbers : AnodeSeq(n) \in AnodeBlocks(disk) /\ Anode(disk, n) # Free}
        = UsedAnodes(disk)

\* compare_reserved: no reserved block in use is marked free, at any moment,
\* and unless a power loss kept a change from releasing the old places of
\* what it moved, none is marked in use that nothing refers to.
ReservedAccounted ==
    LET unused == Blocks \ UsedReserved(disk) IN
    /\ disk.root.reserved \subseteq unused
    /\ disk.root.spare = Cardinality(disk.root.reserved)
    /\ todo = <<>> /\ crashes = 0 => disk.root.reserved = unused

\* The medium is sound at every moment, whenever the power goes.
MediumIsSound == TreeIsWhole /\ ClaimedOnce /\ NoDataLost /\ ReservedAccounted

\* What a file holds: the one write it is from, or -1 if it is torn.
Holds(v, n) ==
    LET blocks == DataOf(v, n)
        first == v.data[blocks[1]]
    IN  IF blocks = <<>> THEN 0
        ELSE IF first # Blank /\ \A i \in DOMAIN blocks :
                    v.data[blocks[i]] = [payload |-> first.payload, index |-> i]
        THEN first.payload ELSE -1

TreeOf(v) ==
    {[path |-> o.path, type |-> o.entry.type,
      payload |-> IF o.entry.type = "file" THEN Holds(v, o.entry.anode) ELSE 0,
      locked |-> o.entry.type = "file" /\ o.entry.locked] :
        o \in Listing(v)}

Shown == UNION {TreeOf(v) : v \in {disk}}

Tree == INSTANCE VolumeTree
        WITH tree <- Shown, Payloads <- 0..MaxOps, Removal <- "pieces"

\* The medium goes from one tree to the tree that was asked for in one step,
\* whenever the power goes; only removing a drawer may stop part way.
ImplementsTree == Tree!Init /\ [][Shown' # Shown => Tree!Next]_disk
=============================================================================
