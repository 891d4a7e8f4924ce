------------------------------ MODULE GptFlash ------------------------------
(***************************************************************************)
(* Flashing a partition table: "flash partition" of FastbootCmds.c with    *)
(* UpdatePartitionTable, WriteGpt and PatchGpt of PartitionTableUpdate.c,  *)
(* on one LUN of a UFS device, together with what lives on the result: the *)
(* partition driver that reads and repairs it at power on                  *)
(* (MdeModulePkg/Universal/Disk/PartitionDxe/Gpt.c) and the attribute      *)
(* updates that rewrite both copies, which ABSlots has for several LUNs.   *)
(*                                                                         *)
(* The LUN is a function from LBA to block.  An entry fills a block, so an *)
(* array of MAX_NUM_PARTITIONS entries takes as many.  A checksum of       *)
(* entries is the entries it was computed over, that of a header the       *)
(* number of bytes it was computed over; 0 is a wrong one.  The name of a  *)
(* partition stands for its type GUID.                                     *)
(***************************************************************************)
EXTENDS Naturals, Sequences, FiniteSets

CONSTANTS
  NumSectors,  \* DeviceDensity / BlkSz
  MaxParts,    \* MAX_NUM_PARTITIONS
  BlkSz,       \* Media->BlockSize
  Ids,         \* names of partitions
  Images,      \* bound: the images that are flashed
  MayCrash,    \* power may be lost, any number of times
  MayFail      \* writes and calls may fail, any number of times

GPT_HEADER_SIZE == 92

LBAs == 0 .. NumSectors - 1

(* An unused entry has no GUID and may still be given attributes.          *)
Unused == [kind : {"zero"}, attr : {0, 1}]
Zero   == [kind |-> "zero", attr |-> 0]
Mbr    == [kind |-> "mbr"]
Entry == [kind : {"entry"}, id : Ids, first : Nat, last : Nat, attr : {0, 1}]

(* A block with the signature and the one entry size there is.  my, alt:   *)
(* LBA of this header and of the other; entries: LBA of its array; cnt:    *)
(* entries in it; first, last: usable LBAs.                                *)
Header ==
  [kind : {"header"}, size : Nat, crc : Nat, my : Nat, alt : Nat, first : Nat,
   last : Nat, entries : Nat, cnt : Nat, acrc : Seq(Entry \cup Unused)]

Array == [1 .. MaxParts -> Entry \cup {Zero}]

(* type: what PartitionGetType finds; blocks: its length.                  *)
Image == [type : {"gpt", "mbr", "backup", "none"}, blocks : Nat,
          prim : Header \cup {Zero}, sec : Header \cup {Zero},
          parts : Array, parts2 : Array]

ASSUME GptAssumption ==
  /\ MaxParts \in Nat \ {0} /\ NumSectors \in Nat /\ NumSectors > 2 * MaxParts + 3
  /\ BlkSz \in Nat /\ BlkSz > GPT_HEADER_SIZE
  /\ \A i \in Images : i \in Image
  /\ MayCrash \in BOOLEAN /\ MayFail \in BOOLEAN

VARIABLES
  disk,     \* the LUN
  bootLun,  \* UFS boot LUN
  pc,       \* where the device is
  secondary,\* ParseSecondaryGpt, which is never reset
  gpt,      \* the image in the download buffer while it is written; the next
            \*   flash has a download of its own
  table,    \* the partitions that have handles, in order (PtnEntries)
  img,      \* ghost: the image being written, or the sound one that was
  cut,      \* ghost: the table was given up: a flash did not reach its end or
            \*   wrote no sound image, or an update of one copy was cut short
            \*   while the other was not valid
  single,   \* ghost: since the driver last found or made two valid copies, a
            \*   flash, a failed update or a failed repair
  stale     \* ghost: a flash failed after it had begun to write, since power on

vars == <<disk, bootLun, pc, secondary, gpt, table, img, cut, single, stale>>

-----------------------------------------------------------------------------
(* Layout.  Mutants: off by one.                                           *)

PtnEntryBlks == MaxParts + 1

BackUpGptLba_Count == NumSectors

BackUpGptLba == NumSectors - 1

LastUsableLba == NumSectors - (PtnEntryBlks + 1)

(* The n blocks of the LUN from lba on, and the LUN with s written there.  *)
Blocks(d, lba, n) == [k \in 1 .. n |-> d[lba + k - 1]]

Put(d, lba, s) ==
  [b \in LBAs |-> IF b \in lba .. lba + Len(s) - 1 THEN s[b - lba + 1] ELSE d[b]]

(* As much of it as was written when power was lost or the write failed.   *)
PutSome(d, lba, s) == {Put(d, lba, SubSeq(s, 1, n)) : n \in 0 .. Len(s)}

InDevice(lba, n) == lba + n <= NumSectors

-----------------------------------------------------------------------------
(* The partition driver.                                                   *)

(* PartitionValidGptTable: the header, then the array.                     *)
ValidHeader(d, lba) ==
  /\ lba \in LBAs /\ d[lba].kind = "header"
  /\ LET h == d[lba]
     IN  /\ h.crc = h.size /\ h.size <= BlkSz /\ h.my = lba
         /\ InDevice(h.entries, h.cnt)

ValidGptTable(d, lba) ==
  /\ ValidHeader(d, lba)
  /\ Blocks(d, d[lba].entries, d[lba].cnt) = d[lba].acrc

(* PartitionRestoreGptTable from the header at lba: the header, both, and  *)
(* as much of them as was written when power was lost or a write failed.   *)
RestoreLba(h) == IF h.my = 1 THEN h.last + 1 ELSE 2

RestoreHeader(d, lba) ==
  LET h == d[lba]
  IN  Put(d, h.alt, <<[h EXCEPT !.my = h.alt, !.alt = h.my,
                                !.entries = RestoreLba(h), !.crc = h.size]>>)

Restore(d, lba) ==
  LET h == d[lba]
      r == RestoreHeader(d, lba)
  IN  IF InDevice(RestoreLba(h), h.cnt)
      THEN Put(r, RestoreLba(h), Blocks(r, h.entries, h.cnt)) ELSE r

RestoreSome(d, lba) ==
  LET h == d[lba]
      r == RestoreHeader(d, lba)
  IN  {d} \cup PutSome(r, RestoreLba(h), Blocks(r, h.entries, h.cnt))

(* The copy that PartitionInstallGptChildHandles restores from, or 0.      *)
RestoreFrom(d) ==
  CASE d[0] # Mbr -> 0
    [] d[0] = Mbr /\ ValidGptTable(d, 1) ->
         IF ValidGptTable(d, d[1].alt) THEN 0 ELSE 1
    [] OTHER -> IF ValidGptTable(d, NumSectors - 1) THEN NumSectors - 1 ELSE 0

Repaired(d) == IF RestoreFrom(d) = 0 THEN d ELSE Restore(d, RestoreFrom(d))

PartlyRepaired(d) == IF RestoreFrom(d) = 0 THEN {d} ELSE RestoreSome(d, RestoreFrom(d))

(* PartitionCheckGptEntry: entries out of range or overlapping get no      *)
(* handle.  No partition here is OS specific: attr stands for the other    *)
(* attribute bits, those of the slots.                                     *)
InUse(h, k) == h.acrc[k].kind = "entry"

InRange(h, k) ==
  /\ h.acrc[k].first <= h.acrc[k].last
  /\ h.acrc[k].first >= h.first /\ h.acrc[k].last <= h.last

Overlap(h, j, k) ==
  h.acrc[j].last >= h.acrc[k].first /\ h.acrc[j].first <= h.acrc[k].last

GetsHandle(h, k) ==
  /\ InUse(h, k) /\ InRange(h, k)
  /\ \A j \in (1 .. h.cnt) \ {k} :
       InUse(h, j) /\ (j > k \/ InRange(h, j)) => ~Overlap(h, j, k)

(* PartitionInstallGptChildHandles: the entries with a handle, in order.   *)
Handles(h) ==
  LET H[k \in 0 .. h.cnt] ==
        IF k = 0 THEN <<>>
        ELSE IF GetsHandle(h, k) THEN Append(H[k - 1], h.acrc[k]) ELSE H[k - 1]
  IN  H[h.cnt]

(* The driver goes on when its repair has failed: with one valid copy it   *)
(* takes the header at LBA 1 if that can be read, and the array that is    *)
(* there.  A block that is no entry counts as unused.                      *)
PrimaryHeader(d) ==
  [d[1] EXCEPT !.acrc = [k \in 1 .. d[1].cnt |->
                           LET b == d[d[1].entries + k - 1]
                           IN  IF b.kind = "entry" THEN b ELSE Zero]]

Enumerated(d) ==
  IF /\ d[0] = Mbr /\ ValidHeader(d, 1)
     /\ ValidGptTable(d, 1) \/ ValidGptTable(d, NumSectors - 1)
  THEN Handles(PrimaryHeader(d)) ELSE <<>>

-----------------------------------------------------------------------------
(* WriteGpt, up to the first write.                                        *)

(* ParseGptHeader.                                                         *)
ParseGptHeader(h, second) ==
  /\ h.kind = "header" /\ h.size >= GPT_HEADER_SIZE /\ h.size <= BlkSz
  /\ h.crc = h.size /\ (second \/ h.my = 1)
  /\ h.first <= NumSectors /\ h.last <= NumSectors /\ h.cnt <= MaxParts

PrimaryParsed(i) ==
  /\ i.type = "gpt" /\ i.blocks > 2 /\ ParseGptHeader(i.prim, secondary)
  /\ i.blocks >= 2 * MaxParts + 3

(* The partitions before the first free entry.                             *)
TotalPart(i) ==
  Cardinality({n \in 1 .. i.sec.cnt : \A k \in 1 .. n : i.parts[k] # Zero})

(* The last partition takes the rest of the device.  Mutant: up to where   *)
(* the backup's entries begin.                                             *)
LastLba_Next == LastUsableLba + 1

LastLba == LastUsableLba

Grow(a, n) ==
  IF n = 0 \/ a[n] = Zero THEN a ELSE [a EXCEPT ![n].last = LastLba]

(* PatchGpt: GptHeader is the secondary's by now, and so is the count of   *)
(* entries in both checksums; the secondary header is given LBA 1.         *)
PatchGpt(i) ==
  LET n  == TotalPart(i)
      p1 == Grow(i.parts, n)
      p2 == Grow(i.parts2, n)
  IN  [i EXCEPT
        !.parts = p1, !.parts2 = p2,
        !.prim = [@ EXCEPT !.alt = BackUpGptLba, !.last = LastUsableLba,
                           !.acrc = SubSeq(p1, 1, i.sec.cnt),
                           !.crc = GPT_HEADER_SIZE],
        !.sec  = [@ EXCEPT !.my = 1, !.last = LastUsableLba,
                           !.entries = NumSectors - PtnEntryBlks,
                           !.acrc = SubSeq(p2, 1, i.sec.cnt),
                           !.crc = GPT_HEADER_SIZE]]

Fault == MayFail

(* CmdFlash of "partition".  The boot LUN is set before the image is       *)
(* looked at.  Without any partition PatchGpt writes far behind the        *)
(* buffer: the device may hang.                                            *)
FlashPartition ==
  /\ pc = "idle"
  /\ bootLun' = 1
  /\ \E i \in Images :
       /\ secondary' = (secondary \/ PrimaryParsed(i))
       /\ \/ /\ PrimaryParsed(i) /\ ParseGptHeader(i.sec, TRUE)
             /\ pc' \in {"erase"} \cup (IF TotalPart(i) = 0 THEN {"dead"} ELSE {})
             /\ gpt' = PatchGpt(i) /\ img' = IF pc' = "erase" THEN i ELSE img
          \/ /\ ~(PrimaryParsed(i) /\ ParseGptHeader(i.sec, TRUE)) \/ Fault
             /\ UNCHANGED <<pc, gpt, img>>
  /\ UNCHANGED <<disk, table, cut, single, stale>>

-----------------------------------------------------------------------------
(* WriteGpt: the LUN is erased, then five writes and a flush.              *)

Write(p) ==
  CASE p = "mbr"   -> [lba |-> 0, data |-> <<Mbr>>, next |-> "prim"]
    [] p = "prim"  -> [lba |-> 1, data |-> <<gpt.prim>>, next |-> "sec"]
    [] p = "sec"   -> [lba |-> gpt.prim.alt, data |-> <<gpt.sec>>, next |-> "parts"]
    [] p = "parts" -> [lba |-> gpt.prim.entries, data |-> gpt.parts, next |-> "parts2"]
    [] p = "parts2" -> [lba |-> gpt.sec.entries, data |-> gpt.parts2, next |-> "flush"]

Writing == {"mbr", "prim", "sec", "parts", "parts2"}

(* What may be on the LUN when the step at pc is interrupted.              *)
Interrupted ==
  IF pc = "erase" THEN PutSome(disk, 0, [k \in 1 .. NumSectors |-> Zero])
  ELSE IF InDevice(Write(pc).lba, Len(Write(pc).data))
       THEN PutSome(disk, Write(pc).lba, Write(pc).data) ELSE {disk}

WriteGpt ==
  /\ \/ /\ pc = "erase" /\ pc' = "mbr" /\ disk' = [b \in LBAs |-> Zero]
     \/ /\ pc \in Writing /\ pc' = Write(pc).next
        /\ InDevice(Write(pc).lba, Len(Write(pc).data))
        /\ disk' = Put(disk, Write(pc).lba, Write(pc).data)
  /\ cut' = TRUE /\ single' = TRUE
  /\ UNCHANGED <<bootLun, secondary, gpt, table, img, stale>>

WriteGptFails ==
  /\ pc \in Writing \cup {"erase"}
  /\ Fault \/ (pc # "erase" /\ ~InDevice(Write(pc).lba, Len(Write(pc).data)))
  /\ disk' \in Interrupted
  /\ pc' = "idle" /\ cut' = TRUE /\ single' = TRUE /\ stale' = TRUE
  /\ img' = Zero /\ gpt' = Zero /\ UNCHANGED <<bootLun, secondary, table>>

(* An image as partitioning tools make it: one header and one array for    *)
(* both copies, the array behind the header, partitions in the order of their blocks that this      *)
(* device has room for.                                                    *)
Used(i) == {k \in 1 .. MaxParts : i.parts[k] # Zero}

Sound(i) ==
  LET n == TotalPart(i)
  IN  /\ i.prim.my = 1 /\ i.prim.size = GPT_HEADER_SIZE /\ i.prim.entries = 2
      /\ i.prim.cnt = i.sec.cnt /\ i.prim.first = 2 + MaxParts
      /\ i.parts2 = i.parts
      /\ n > 0 /\ Used(i) = 1 .. n
      /\ i.parts[1].first >= i.prim.first /\ i.parts[n].first <= LastUsableLba
      /\ \A k \in 1 .. n - 1 : /\ i.parts[k].first <= i.parts[k].last
                               /\ i.parts[k].last < i.parts[k + 1].first

Flush ==
  /\ pc = "flush"
  /\ \/ pc' = "refresh" /\ UNCHANGED stale
     \/ pc' = "idle" /\ stale' = TRUE /\ Fault
  /\ gpt' = Zero /\ cut' = ~Sound(img) /\ img' = IF Sound(img) THEN img ELSE Zero
  /\ UNCHANGED <<disk, bootLun, secondary, table, single>>

(* ReenumeratePartTable: the storage driver is told to refresh; it may     *)
(* repair the backup as at power on, or try to.  When boot is on this LUN, the slots  *)
(* may be given their attributes.                                          *)
Flip(t, n) == [t EXCEPT ![n].attr = 1 - @]

Refresh ==
  /\ pc = "refresh"
  /\ \/ /\ disk' \in {disk, Repaired(disk)} \cup (IF Fault THEN PartlyRepaired(disk) ELSE {})
        /\ stale' = FALSE /\ single' = (disk' # Repaired(disk))
        /\ \/ table' = Enumerated(disk') /\ pc' = "idle"
           \/ LET t == Enumerated(disk')
              IN  pc' = "update" /\ \E n \in 1 .. Len(t) : table' = Flip(t, n)
     \/ stale' = TRUE /\ pc' = "idle" /\ Fault /\ UNCHANGED <<disk, table, single>>
  /\ UNCHANGED <<bootLun, secondary, gpt, img, cut>>

-----------------------------------------------------------------------------
(* UpdatePartitionAttributes: the primary copy, then the backup, each in   *)
(* one write.                                                              *)

(* The array with the attributes of table: the walk stays at an entry of   *)
(* another name and does not mind an unused one.                           *)
AttrStep(w, e) ==
  LET b == w.array[w.at]
  IN  IF b.kind = "zero" \/ (b.kind = "entry" /\ b.id = e.id)
      THEN [array |-> [k \in DOMAIN w.array |->
                         IF k = w.at THEN [b EXCEPT !.attr = e.attr] ELSE w.array[k]],
            at    |-> w.at + 1]
      ELSE w

WithAttr(old) ==
  LET W[n \in 0 .. Len(table)] ==
        IF n = 0 THEN [array |-> old, at |-> 1] ELSE AttrStep(W[n - 1], table[n])
  IN  W[Len(table)].array

BackupLba == NumSectors - PtnEntryBlks

Copy(p) == IF p = "update" THEN [header |-> 1, entries |-> 2]
           ELSE [header |-> NumSectors - 1, entries |-> BackupLba]

OldArray(p) == Blocks(disk, Copy(p).entries, MaxParts)

NewArray(p) == WithAttr(OldArray(p))

(* Mutant: the checksum of the entries is forgotten.                       *)
NewHeader_NoCrc(p) == [disk[Copy(p).header] EXCEPT !.crc = GPT_HEADER_SIZE]

NewHeader(p) ==
  LET h == disk[Copy(p).header]
  IN  [h EXCEPT !.acrc = SubSeq(NewArray(p), 1, h.cnt), !.crc = GPT_HEADER_SIZE]

(* ~SkipUpdation, and a header with entries to compute a checksum over.    *)
Changed(p) == NewArray(p) # OldArray(p)

HasEntries(p) == LET h == disk[Copy(p).header] IN h.kind = "header" /\ h.cnt > 0

NewCopy(p) ==
  IF p = "update" THEN [lba |-> 1, data |-> <<NewHeader(p)>> \o NewArray(p)]
  ELSE [lba |-> BackupLba, data |-> NewArray(p) \o <<NewHeader(p)>>]

SetAttribute ==
  /\ pc = "idle" /\ pc' = "update"
  /\ \E n \in 1 .. Len(table) : table' = Flip(table, n)
  /\ UNCHANGED <<disk, bootLun, secondary, gpt, img, cut, single, stale>>

Updating == {"update", "update2"}

(* Without a header the update ends, the backup untouched.                 *)
UpdateCopy ==
  /\ pc \in Updating
  /\ \/ /\ Changed(pc) /\ HasEntries(pc)
        /\ disk' = Put(disk, NewCopy(pc).lba, NewCopy(pc).data)
     \/ ~(Changed(pc) /\ HasEntries(pc)) /\ UNCHANGED disk
  /\ pc' = IF pc = "update" /\ (Changed(pc) => HasEntries(pc))
           THEN "update2" ELSE "idle"
  /\ UNCHANGED <<bootLun, secondary, gpt, table, img, cut, single, stale>>

(* A write cut short loses the table when the other copy is no good.       *)
OtherCopy(p) == IF p = "update" THEN Copy("update2") ELSE Copy("update")

UpdateInterrupted ==
  /\ pc \in Updating /\ Changed(pc) /\ HasEntries(pc)
  /\ disk' \in PutSome(disk, NewCopy(pc).lba, NewCopy(pc).data)
  /\ cut' = (cut \/ ~ValidGptTable(disk, OtherCopy(pc).header))

(* A failed write ends the update; nobody learns of it.  The next update   *)
(* may find a damaged copy and does not repair it.                         *)
UpdateFails ==
  /\ Fault /\ UpdateInterrupted
  /\ pc' = "idle" /\ single' = TRUE
  /\ UNCHANGED <<bootLun, secondary, gpt, table, img, stale>>

-----------------------------------------------------------------------------
Off == pc' = "off" /\ secondary' = FALSE /\ table' = <<>> /\ stale' = FALSE

(* Power is lost during a write, or between two.                           *)
PowerLoss ==
  /\ MayCrash /\ pc # "off" /\ Off
  /\ \/ /\ pc \in Writing \cup {"erase"} /\ disk' \in Interrupted
        /\ cut' = TRUE /\ img' = Zero
     \/ UpdateInterrupted /\ UNCHANGED img
     \/ pc \notin Writing \cup {"erase"} /\ UNCHANGED <<disk, cut, img>>
  /\ gpt' = Zero /\ UNCHANGED <<bootLun, single>>

Leave ==
  /\ pc \in {"idle", "dead"} /\ Off
  /\ gpt' = Zero /\ UNCHANGED <<disk, bootLun, img, cut, single>>

(* The driver repairs a copy.  Its writes may fail, and it goes on; power  *)
(* may be lost anywhere in it.                                             *)
PowerOn ==
  /\ pc = "off"
  /\ \/ /\ disk' \in {Repaired(disk)} \cup (IF Fault THEN PartlyRepaired(disk) ELSE {})
        /\ table' = Enumerated(disk') /\ pc' = "idle"
        /\ single' = (disk' # Repaired(disk))
     \/ /\ MayCrash /\ disk' \in PartlyRepaired(disk)
        /\ UNCHANGED <<pc, table, single>>
  /\ UNCHANGED <<bootLun, secondary, gpt, img, cut, stale>>

(* Slot a or b, on a LUN without a table.                                  *)
Init ==
  /\ disk = [b \in LBAs |-> Zero] /\ bootLun \in {1, 2} /\ pc = "off"
  /\ secondary = FALSE /\ gpt = Zero /\ table = <<>>
  /\ img = Zero /\ cut = TRUE /\ single = TRUE /\ stale = FALSE

Next ==
  \/ FlashPartition \/ WriteGpt \/ WriteGptFails \/ Flush \/ Refresh
  \/ SetAttribute \/ UpdateCopy \/ UpdateFails
  \/ PowerLoss \/ Leave \/ PowerOn

Spec == Init /\ [][Next]_vars

-----------------------------------------------------------------------------
(* Properties.                                                             *)

Block == {Mbr} \cup Unused \cup Entry \cup Header

(* Every variable keeps its type: the LUN holds blocks of known kinds,     *)
(* the primary header names a backup within the LUN, and there are no more *)
(* handles than entries.                                                   *)
TypeOK ==
  /\ disk \in [LBAs -> Block] /\ bootLun \in {1, 2}
  /\ disk[1].kind = "header" => disk[1].alt \in LBAs
  /\ pc \in Writing \cup Updating
             \cup {"off", "idle", "dead", "erase", "flush", "refresh"}
  /\ secondary \in BOOLEAN /\ table \in Seq(Entry) /\ Len(table) <= MaxParts
  /\ cut \in BOOLEAN /\ single \in BOOLEAN /\ stale \in BOOLEAN
  /\ img = Zero \/ img \in Images

Extent(e) == [id |-> e.id, first |-> e.first, last |-> e.last]

Expected(i) ==
  {[id |-> i.parts[k].id, first |-> i.parts[k].first,
    last |-> IF k = TotalPart(i) THEN LastUsableLba ELSE i.parts[k].last] : k \in Used(i)}

Extents(t) == {Extent(t[n]) : n \in 1 .. Len(t)}

(* Once WriteGpt has written a sound table, every later boot finds its     *)
(* partitions, the last one grown to the last block before the backup,     *)
(* whether the driver's repair succeeds, fails or stops halfway; and they  *)
(* are the ones the boot loader works with, unless that flash failed in    *)
(* the end (PatchGpt, ReenumeratePartTable).  This lasts until a flash     *)
(* passes the checks, or an attribute update of one copy is cut short      *)
(* while the other is not valid, which may be right after the flash:       *)
(* WriteGpt leaves a backup that is not (BackupUsable).                    *)
Flashed ==
  pc = "idle" /\ ~cut =>
    /\ ~stale => Extents(table) = Expected(img)
    /\ \A d \in {Repaired(disk)} \cup PartlyRepaired(disk) :
         Extents(Enumerated(d)) = Expected(img)

(* A table outlives every write that is cut short or fails in the driver's *)
(* repair, and in UpdatePartitionAttributes as long as the other copy is   *)
(* valid: a copy is left.  And while the device is on both are valid,      *)
(* unless there was a flash, a failed update or a failed repair since the  *)
(* driver last went over them; so from two copies it takes two writes that *)
(* go wrong, with no repair between them, to lose the table.               *)
TableSurvives ==
  ~cut /\ pc \notin Writing \cup {"erase"} =>
    /\ disk[0] = Mbr
    /\ ValidGptTable(disk, 1) \/ ValidGptTable(disk, NumSectors - 1)
    /\ ~single /\ pc # "off" =>
         ValidGptTable(disk, 1) /\ ValidGptTable(disk, NumSectors - 1)

(* "Update the primary and backup GPT header offset with the sector        *)
(* location": when WriteGpt returns, the backup is one that can be         *)
(* restored from.                                                          *)
BackupUsable ==
  pc = "refresh" /\ ~cut => ValidGptTable(disk, NumSectors - 1)

=============================================================================
