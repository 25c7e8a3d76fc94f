------------------------------- MODULE RomBanks -------------------------------
(***************************************************************************)
(* Changing a ROM by its banks (rom_disk_service.py), by a patch or a      *)
(* repair (rom_workbench.py) and by the chips it is burned into            *)
(* (rom_components.py).  A request reads the ROM first and takes the lock  *)
(* of its session only to write, so that another may write between.        *)
(***************************************************************************)
EXTENDS Integers, FiniteSets, SequencesExt

CONSTANTS
    BankSize,
    Base,       \* of a byte: 0..Base-1, of which the greatest is the erase byte
    Signature,  \* EXTENDED_ROM_SIGNATURE, a word of two bytes
    Roms,       \* ROMs to begin with and to compare with
    Data,       \* what is put into a bank
    Chips,      \* the layouts: numbers of chips
    Clients     \* requests, of which two may be at work at once

VARIABLES
    rom,        \* the working file
    request     \* client -> its request

romVars == <<rom, request>>

-----------------------------------------------------------------------------
(* The bytes of a ROM.                                                     *)

Erase == Base - 1
Repeated(byte, n) == IF n <= 0 THEN <<>> ELSE [i \in 1..n |-> byte]
Fill(n) == Repeated(Erase, n)
Blank == Fill(BankSize)
Padded(data) == data \o Fill(BankSize - Len(data))

Least(a, b) == IF a < b THEN a ELSE b
Slice(bytes, first, last) == SubSeq(bytes, first, Least(last, Len(bytes)))

Ascending(s) == SelectSeq([i \in 1..(Max(s \cup {0}) + 1) |-> i - 1], LAMBDA n : n \in s)

\* seek() and write(), which fills what lies between with zeros.
WriteAt(bytes, offset, data) ==
    LET all == bytes \o Repeated(0, offset - Len(bytes))
    IN  IF data = <<>> THEN bytes
        ELSE SubSeq(all, 1, offset) \o data \o SubSeq(all, offset + Len(data) + 1, Len(all))

\* bank_count() and read_bank()
Count(bytes) == (Len(bytes) + BankSize - 1) \div BankSize
Banks(bytes) == 0..(Count(bytes) - 1)
Bank(bytes, b) == Slice(bytes, b * BankSize + 1, (b + 1) * BankSize)

IsErased(bytes) == \A i \in 1..Len(bytes) : bytes[i] = Erase

\* The words of two bytes that a checksum is made of.
Word(bytes, o) == bytes[o] * Base + bytes[o + 1]
LittleEndian(word) == <<word % Base, word \div Base>>
Top == Base * Base - 1

\* rom_checksum(): the complement of a sum whose carry comes back in.
Checksum(bytes) ==
    LET carried(total) == IF total > Top THEN total - Top ELSE total
    IN  Top - FoldLeft(LAMBDA total, i : carried(total + Word(bytes, 2 * i - 1)),
                       0, [i \in 1..(Len(bytes) \div 2) |-> i])

\* parse_extended_rom_header(): size, checksum and signature end the ROM.
IsExtended(bytes) ==
    /\ Len(bytes) >= 6 /\ Len(bytes) % 2 = 0
    /\ SubSeq(bytes, Len(bytes) - 1, Len(bytes)) = Signature
    /\ Word(bytes, Len(bytes) - 5) = Len(bytes)

Stored(bytes) == Word(bytes, Len(bytes) - 3)
Calculated(bytes) == Checksum(SubSeq(bytes, 1, Len(bytes) - 4))

-----------------------------------------------------------------------------
(* What a request makes of the bytes.                                      *)

\* put_rom_bank()
PutBank(bytes, b, data) ==
    WriteAt(bytes \o Fill(b * BankSize - Len(bytes)), b * BankSize, Padded(data))

\* clear_rom_banks(): of the last bank only as much as there is.  In a ROM
\* that has become shorter the length is negative, and counts from the end.
ClearBanks(bytes, banks) ==
    LET cleared(now, b) ==
            LET length == Least(BankSize, Len(now) - b * BankSize)
            IN  WriteAt(now, b * BankSize,
                        Fill(IF length >= 0 THEN length ELSE BankSize + length))
    IN  FoldLeft(cleared, bytes, Ascending(banks))

Targets(sources, start) == start..(start + Len(sources) - 1)

\* Mutant: bank after bank is copied and cleared.
MovedInTurn(bytes, sources, start, data) ==
    LET moved(now, i) ==
            WriteAt(WriteAt(now, sources[i] * BankSize, Blank),
                    (start + i - 1) * BankSize, Padded(Bank(now, sources[i])))
    IN  FoldLeft(moved, bytes, [i \in 1..Len(sources) |-> i])

\* move_rom_banks(): data is what the banks held when they were read.
Moved(bytes, sources, start, data) ==
    LET left(now, b) ==
            IF b \in Targets(sources, start) THEN now ELSE WriteAt(now, b * BankSize, Blank)
        arrived(now, i) == WriteAt(now, (start + i - 1) * BankSize, Padded(data[i]))
    IN  FoldLeft(arrived, FoldLeft(left, bytes, sources), [i \in 1..Len(sources) |-> i])

\* compare_roms(): the longest runs of bytes that differ, as [first, last].
Ranges(left, right) ==
    LET longest == IF Len(left) > Len(right) THEN Len(left) ELSE Len(right)
        differs == {o \in 1..longest :
                        o > Len(left) \/ o > Len(right) \/ left[o] # right[o]}
        run(a) == [first |-> a,
                   last |-> Min({b \in differs : b >= a /\ b + 1 \notin differs})]
        firsts == Ascending({a \in differs : a - 1 \notin differs})
    IN  [i \in 1..Len(firsts) |-> run(firsts[i])]

\* The loop of apply_patch() and make_selective_patch(): what is left of a
\* range in the one ROM gives way to what there is of it in the other.
Replaced(left, right, ranges) ==
    LET put(now, r) ==
            LET offset == r.first - 1 + now.adjustment
                remove == Len(Slice(left, r.first, r.last))
                data == Slice(right, r.first, r.last)
            IN  [bytes |-> SubSeq(now.bytes, 1, offset) \o data
                           \o SubSeq(now.bytes, offset + remove + 1, Len(now.bytes)),
                 adjustment |-> now.adjustment + Len(data) - remove]
    IN  FoldLeft(put, [bytes |-> left, adjustment |-> 0], ranges).bytes

\* make_patch(), and make_selective_patch() for the ranges that are chosen,
\* which it refuses to take from beyond the end of the other ROM.
Selectable(left, right, chosen) ==
    chosen # {} /\ \A i \in chosen : Ranges(left, right)[i].first <= Len(right)

Patched(left, right, chosen) ==
    LET all == Ranges(left, right)
        target == Replaced(left, right, SelectSeq(all, LAMBDA r : \E i \in chosen : all[i] = r))
    IN  Replaced(left, target, Ranges(left, target))

\* repair_extension_checksum()
Repaired(bytes) == WriteAt(bytes, Len(bytes) - 4, LittleEndian(Calculated(bytes)))

\* rom_component_exports(), and write_combined_rom() of what it gives.
Lane(bytes, n, k) == [i \in 1..(Len(bytes) \div n) |-> bytes[(i - 1) * n + k]]
Lanes(bytes, n) == [k \in 1..n |-> Lane(bytes, n, k)]
Combined(lanes) ==
    [o \in 1..(Len(lanes) * Len(lanes[1])) |->
        lanes[((o - 1) % Len(lanes)) + 1][((o - 1) \div Len(lanes)) + 1]]

-----------------------------------------------------------------------------
(* Requests.                                                               *)

Init ==
    /\ rom \in Roms
    /\ request = [c \in Clients |-> [stage |-> "new"]]

\* What a request found, and whether it goes on.
Ask(c, asked, allowed) ==
    /\ request[c].stage = "new"
    /\ request' = [request EXCEPT ![c] =
            IF allowed THEN [asked EXCEPT !.stage = "read"] ELSE [stage |-> "refused"]]
    /\ UNCHANGED rom

FirstEmpty(bytes) ==
    LET empty == {b \in Banks(bytes) : IsErased(Bank(bytes, b))}
    IN  IF empty = {} THEN Count(bytes) ELSE Min(empty)

\* put_file() to a bank that is named, or to the first that is empty;
\* append_blank_rom_bank()
AskPut(c) ==
    \E data \in Data \cup {Blank}, to \in {"named", "empty", "end"} :
        \E b \in CASE to = "named" -> 0..(Count(rom) + 1)
                   [] to = "empty" -> {FirstEmpty(rom)}
                   [] to = "end" -> {Count(rom)} :
            Ask(c, [stage |-> "", op |-> "put", found |-> rom, to |-> to,
                    bank |-> b, data |-> data],
                data # <<>> /\ Len(data) <= BankSize /\ (to = "end" => data = Blank))

AskClear(c) ==
    \E banks \in SUBSET (0..Count(rom)) :
        Ask(c, [stage |-> "", op |-> "clear", found |-> rom, banks |-> banks],
            banks # {} /\ banks \subseteq Banks(rom))

AskMove(c) ==
    \E sources \in SeqOf(0..Count(rom), 2), start \in 0..(Count(rom) + 1) :
        Ask(c, [stage |-> "", op |-> "move", found |-> rom, sources |-> sources, start |-> start],
            /\ sources # <<>> /\ IsInjective(sources)
            /\ ToSet(sources) \subseteq Banks(rom) /\ start <= Count(rom))

\* rom_patch(): a patch fits the one ROM it was made for.
AskPatch(c) ==
    \/ \E right \in Roms :
        LET all == 1..Len(Ranges(rom, right))
        IN  \E chosen \in SUBSET all :
                /\ chosen = all \/ Selectable(rom, right, chosen)
                /\ Ask(c, [stage |-> "", op |-> "patch", found |-> rom, right |-> right,
                           chosen |-> chosen], TRUE)
    \/ \E left \in Roms \ {rom} : Ask(c, [stage |-> ""], FALSE)

AskRepair(c) == Ask(c, [stage |-> "", op |-> "repair", found |-> rom], IsExtended(rom))

\* The chips of the ROM, opened as a ROM again.
AskChips(c) ==
    \E n \in Chips :
        Ask(c, [stage |-> "", op |-> "chips", found |-> rom, chips |-> n], Len(rom) % n = 0)

\* The write, for which the lock is taken.
Write(c) ==
    LET r == request[c]
    IN  /\ r.stage = "read"
        /\ request' = [request EXCEPT ![c].stage = "done"]
        /\ rom' = CASE r.op = "put" -> PutBank(rom, r.bank, r.data)
                    [] r.op = "clear" -> ClearBanks(rom, r.banks)
                    [] r.op = "move" -> Moved(rom, r.sources, r.start,
                            [i \in 1..Len(r.sources) |-> Bank(r.found, r.sources[i])])
                    [] r.op = "patch" -> Patched(r.found, r.right, r.chosen)
                    [] r.op = "repair" -> Repaired(r.found)
                    [] r.op = "chips" -> Combined(Lanes(r.found, r.chips))

Next ==
    \E c \in Clients :
        AskPut(c) \/ AskClear(c) \/ AskMove(c) \/ AskPatch(c) \/ AskRepair(c) \/ AskChips(c)
        \/ Write(c)

Spec == Init /\ [][Next]_romVars

-----------------------------------------------------------------------------
(* Properties.                                                             *)

\* The banks that a request names.
Named(r) ==
    CASE r.op = "put" -> {r.bank}
      [] r.op = "clear" -> r.banks
      [] r.op = "move" -> ToSet(r.sources) \cup Targets(r.sources, r.start)

BankOf(o) == (o - 1) \div BankSize

\* Whatever was written since a request read the ROM, it leaves every byte
\* of the banks it does not name, and the banks it names hold what it was
\* asked for: banks that are moved arrive as they were found, wherever the
\* places they leave and the places they go to meet.
BanksAreAsAsked(r) ==
    /\ Len(rom') >= Len(rom)
    /\ \A o \in 1..Len(rom) : BankOf(o) \notin Named(r) => rom'[o] = rom[o]
    /\ CASE r.op = "put" -> /\ Bank(rom', r.bank) = Padded(r.data)
                            /\ r.to # "named" => IsErased(Bank(r.found, r.bank))
         [] r.op = "clear" -> \A o \in 1..Len(rom) : BankOf(o) \in r.banks => rom'[o] = Erase
         [] r.op = "move" ->
                /\ \A i \in 1..Len(r.sources) :
                    Bank(rom', r.start + i - 1) = Padded(Bank(r.found, r.sources[i]))
                /\ \A b \in ToSet(r.sources) \ Targets(r.sources, r.start) :
                    IsErased(Bank(rom', b))

\* A patch of every range gives the other ROM, one of some gives the bytes
\* of the other ROM there and its own elsewhere; chips give the ROM they
\* were made from.
WholeIsAsAsked(r) ==
    LET ranges == Ranges(r.found, r.right)
        fromRight(o) == \E i \in r.chosen : o \in ranges[i].first..ranges[i].last
    IN  CASE r.op = "patch" ->
                /\ r.chosen = 1..Len(ranges) => rom' = r.right
                /\ \A o \in 1..Len(rom') :
                    rom'[o] = IF fromRight(o) THEN r.right[o] ELSE r.found[o]
          [] r.op = "chips" -> rom' = r.found
          [] OTHER -> Len(rom') = Len(r.found)

DoneAsAsked ==
    [][\A c \in Clients :
        request[c].stage = "read" /\ request'[c].stage = "done" =>
            IF request[c].op \in {"put", "clear", "move"} THEN BanksAreAsAsked(request[c])
            ELSE WholeIsAsAsked(request[c])]_romVars

\* After a repair the checksum that is stored is the one that is calculated,
\* until the next write: docs/ROM-GUIDE.md, "rebuild the checksum of a
\* standard AmigaOS extension-ROM trailer".
RepairedIsSound ==
    \A c \in Clients :
        /\ request[c].stage = "done" /\ request[c].op = "repair"
        /\ \A d \in Clients \ {c} : request[d].stage # "done"
        => Stored(rom) = Calculated(rom)
=============================================================================
