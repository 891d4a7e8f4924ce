---------------------------- MODULE SparseImage -----------------------------
(***************************************************************************)
(* Flashing a sparse image: HandleSparseImgFlash and the chunk handlers of *)
(* src/QcomModulePkg/Library/FastbootLib/FastbootCmds.c, on a device that  *)
(* is not NAND.                                                            *)
(*                                                                         *)
(* The image in the download buffer says how long it is, how many blocks   *)
(* it expands to, and of every chunk how many blocks it stands for and how *)
(* many bytes it takes; none of this need be true.  Each field is chosen   *)
(* when the code reads it, which is once, so the behaviours are those of   *)
(* every buffer content.  Sizes and offsets are in bytes from the start of *)
(* the buffer; the error codes are all "ERROR".                            *)
(***************************************************************************)
EXTENDS Integers, Sequences

CONSTANTS
  BlockSize,        \* Media->BlockSize
  PartitionBlocks,  \* Media->LastBlock + 1
  MaxUint32,        \* MAX_UINT32
  HeaderSz,         \* sizeof (sparse_header_t)
  ChunkHdrSz,       \* sizeof (chunk_header_t)
  FillSz,           \* sizeof (UINT32)
  Headers,          \* bound: the image headers that occur
  Chunks            \* bound: the chunk headers that occur

Uint32 == 0 .. MaxUint32

Header == [sz : Nat, file_hdr_sz : Nat, chunk_hdr_sz : Nat, blk_sz : Uint32,
           total_blks : Uint32, total_chunks : Uint32]

Chunk == [type : {"raw", "fill", "skip", "crc", "other"}, chunk_sz : Uint32,
          total_sz : Uint32]

(* A block size divides 2^32, and no partition has 2^32 blocks; the sums   *)
(* of the code then stay within their width.                               *)
ASSUME SparseAssumption ==
  /\ BlockSize \in Nat \ {0} /\ MaxUint32 \in Nat
  /\ PartitionBlocks \in 1 .. MaxUint32 /\ (MaxUint32 + 1) % BlockSize = 0
  /\ HeaderSz \in Nat /\ ChunkHdrSz \in Nat /\ FillSz \in Nat
  /\ Headers \subseteq Header /\ Chunks \subseteq Chunk

VARIABLES
  pc,           \* "idle", "chunk" while chunks are handled, then "done"
  header,       \* the image header, and sz, the number of bytes downloaded
  Image,        \* offset of the next chunk header
  TotalBlocks,  \* blocks of the chunks handled
  chunks,       \* the chunk headers read; its length is the loop's counter
  disk,         \* what was written: device block -> content
  Status,       \* of the last image
  failed        \* ghost: a call to the device failed

vars == <<pc, header, Image, TotalBlocks, chunks, disk, Status, failed>>

(* GetPartitionSize.                                                       *)
PartitionSize == PartitionBlocks * BlockSize

BlockCountFactor == header.blk_sz \div BlockSize

-----------------------------------------------------------------------------
(* The checks before the first chunk.                                      *)
HeaderValid(h) ==
  /\ h.sz >= HeaderSz
  /\ h.total_blks * h.blk_sz <= PartitionSize
  /\ h.file_hdr_sz = HeaderSz
  /\ h.blk_sz # 0 /\ h.blk_sz % BlockSize = 0

ChunkDataSz(c) == header.blk_sz * c.chunk_sz

(* Where the chunk's data starts.                                          *)
Data == Image + ChunkHdrSz

(* The next chunk header can be read.                                      *)
HeaderFits ==
  /\ TotalBlocks * header.blk_sz < PartitionSize
  /\ Data <= header.sz

(* "Make sure that chunk size calculate from sparse image does not exceed  *)
(* the partition size".  Mutants: the chunk's own size is left out; a      *)
(* chunk that fills the partition is refused.                              *)
BlocksFit_Start(c) == TotalBlocks * header.blk_sz < PartitionSize
BlocksFit_Full(c) ==
  TotalBlocks * header.blk_sz + ChunkDataSz(c) < PartitionSize

BlocksFit(c) ==
  TotalBlocks * header.blk_sz + ChunkDataSz(c) <= PartitionSize

(* The bytes of the buffer a chunk is followed by.  Don't care moves on by *)
(* none, whatever the chunk claims; a CRC by as many as its blocks.        *)
DataSz(c) ==
  CASE c.type = "raw"  -> ChunkDataSz(c)
    [] c.type = "fill" -> FillSz
    [] c.type = "crc"  -> ChunkDataSz(c) % (MaxUint32 + 1)
    [] OTHER           -> 0

(* What HandleChunkTypeRaw, HandleChunkTypeFill and                        *)
(* ValidateChunkDataAndFlash ask of a chunk.  The check that the loop of   *)
(* HandleChunkTypeFill makes for every block follows from BlocksFit, and   *)
(* the checks of the width of TotalBlocks from SparseAssumption.  Mutant:  *)
(* the data of a raw chunk may run past the end.                           *)
ChunkValid_Overread(c) ==
  /\ c.type # "other"
  /\ c.type = "raw"  => c.total_sz = header.chunk_hdr_sz + ChunkDataSz(c)
  /\ c.type = "fill" => c.total_sz = header.chunk_hdr_sz + FillSz
  /\ c.type = "crc"  => c.total_sz = header.chunk_hdr_sz
  /\ c.type # "raw"  => Data + DataSz(c) <= header.sz

ChunkValid(c) ==
  /\ c.type # "other"
  /\ c.type = "raw"  => c.total_sz = header.chunk_hdr_sz + ChunkDataSz(c)
  /\ c.type = "fill" => c.total_sz = header.chunk_hdr_sz + FillSz
  /\ c.type = "crc"  => c.total_sz = header.chunk_hdr_sz
  /\ Data + DataSz(c) <= header.sz

-----------------------------------------------------------------------------
(* The device blocks a chunk writes, and what it writes to block b.        *)
First     == TotalBlocks * BlockCountFactor
Count(c)  == IF c.type \in {"raw", "fill"} THEN c.chunk_sz * BlockCountFactor ELSE 0

Content(c, b) ==
  [type |-> c.type,
   from |-> IF c.type = "raw" THEN Data + (b - First) * BlockSize ELSE Data]

(* The first n blocks of the chunk are on the device.                      *)
Written(c, n) ==
  LET W == First .. First + n - 1
  IN  [b \in DOMAIN disk \cup W |-> IF b \in W THEN Content(c, b) ELSE disk[b]]

Return(s) == pc' = "done" /\ Status' = s

-----------------------------------------------------------------------------
(* The flash command, up to the first chunk; the partition is not found,   *)
(* or the header is refused.                                               *)
Flash ==
  /\ pc = "idle"
  /\ header' \in Headers
  /\ Image' = HeaderSz /\ TotalBlocks' = 0 /\ chunks' = <<>> /\ disk' = <<>>
  /\ \/ HeaderValid(header') /\ pc' = "chunk" /\ Status' = "SUCCESS" /\ failed' = FALSE
     \/ ~HeaderValid(header') /\ Return("ERROR") /\ failed' = FALSE
     \/ Return("ERROR") /\ failed' = TRUE

(* The loop is at a chunk.                                                 *)
AtChunk == pc = "chunk" /\ Len(chunks) < header.total_chunks

(* The partition or the buffer is at its end.                              *)
NoChunk ==
  /\ AtChunk /\ ~HeaderFits /\ Return("ERROR")
  /\ UNCHANGED <<header, Image, TotalBlocks, chunks, disk, failed>>

HandleChunk(c) ==
  /\ AtChunk /\ HeaderFits
  /\ header.chunk_hdr_sz = ChunkHdrSz /\ BlocksFit(c) /\ ChunkValid(c)
  /\ disk' = Written(c, Count(c))
  /\ TotalBlocks' = TotalBlocks + c.chunk_sz
  /\ Image' = Data + DataSz(c)
  /\ chunks' = Append(chunks, c)
  /\ UNCHANGED <<pc, header, Status, failed>>

RefuseChunk(c) ==
  /\ AtChunk /\ HeaderFits
  /\ ~(header.chunk_hdr_sz = ChunkHdrSz /\ BlocksFit(c) /\ ChunkValid(c))
  /\ chunks' = Append(chunks, c) /\ Return("ERROR")
  /\ UNCHANGED <<header, Image, TotalBlocks, disk, failed>>

(* The buffer of a fill chunk cannot be allocated, or a write fails.       *)
WriteFails(c) ==
  /\ AtChunk /\ HeaderFits
  /\ header.chunk_hdr_sz = ChunkHdrSz /\ BlocksFit(c) /\ ChunkValid(c)
  /\ \E n \in 0 .. Count(c) - 1 : disk' = Written(c, n)
  /\ chunks' = Append(chunks, c) /\ failed' = TRUE /\ Return("ERROR")
  /\ UNCHANGED <<header, Image, TotalBlocks>>

(* After the last chunk; the flush may fail.  Mutant: an image that is     *)
(* shorter than it says is taken for whole.                                *)
Complete_AtMost == TotalBlocks <= header.total_blks

Complete == TotalBlocks = header.total_blks

Finish ==
  /\ pc = "chunk" /\ Len(chunks) = header.total_chunks
  /\ \/ Complete /\ Return("SUCCESS") /\ UNCHANGED failed
     \/ ~Complete /\ Return("ERROR") /\ UNCHANGED failed
     \/ Complete /\ Return("ERROR") /\ failed' = TRUE
  /\ UNCHANGED <<header, Image, TotalBlocks, chunks, disk>>

(* No image is being flashed.                                              *)
NoHeader == [sz |-> 0, file_hdr_sz |-> 0, chunk_hdr_sz |-> 0, blk_sz |-> 0,
             total_blks |-> 0, total_chunks |-> 0]

(* The host is answered and downloads the next image.                      *)
Answer ==
  /\ pc = "done"
  /\ pc' = "idle" /\ header' = NoHeader
  /\ Image' = 0 /\ TotalBlocks' = 0 /\ chunks' = <<>> /\ disk' = <<>>
  /\ Status' = "ERROR" /\ failed' = FALSE

Init ==
  /\ pc = "idle" /\ header = NoHeader
  /\ Image = 0 /\ TotalBlocks = 0 /\ chunks = <<>> /\ disk = <<>>
  /\ Status = "ERROR" /\ failed = FALSE

Next ==
  \/ Flash \/ NoChunk \/ Finish \/ Answer
  \/ \E c \in Chunks : HandleChunk(c) \/ RefuseChunk(c) \/ WriteFails(c)

Spec == Init /\ [][Next]_vars

-----------------------------------------------------------------------------
(* The reference: what an image of these chunks expands to.  It is         *)
(* computed from what the chunks say of themselves, as SparseFormat.h      *)
(* describes the format, and not from where the code was.                  *)

(* Sums over the first k chunks: blocks of the output, bytes of the input. *)
BlocksBefore ==
  LET B[k \in 0 .. Len(chunks)] ==
        IF k = 0 THEN 0 ELSE B[k - 1] + chunks[k].chunk_sz
  IN  B

BytesBefore ==
  LET B[k \in 0 .. Len(chunks)] ==
        IF k = 0 THEN HeaderSz ELSE B[k - 1] + chunks[k].total_sz
  IN  B

(* Device blocks of chunk k.                                               *)
BlocksOf(k) ==
  BlocksBefore[k - 1] * BlockCountFactor .. BlocksBefore[k] * BlockCountFactor - 1

DataChunks == {k \in 1 .. Len(chunks) : chunks[k].type \in {"raw", "fill"}}

Expansion ==
  [b \in UNION {BlocksOf(k) : k \in DataChunks} |->
     LET k    == CHOOSE j \in DataChunks : b \in BlocksOf(j)
         data == BytesBefore[k - 1] + ChunkHdrSz
     IN  [type |-> chunks[k].type,
          from |-> IF chunks[k].type = "raw"
                   THEN data + (b - BlocksBefore[k - 1] * BlockCountFactor) * BlockSize
                   ELSE data]]

(* Chunk k is what the format says: raw data of its size, the four bytes   *)
(* of a fill, nothing after don't care; an empty CRC is passed over.       *)
WellFormed(k) ==
  LET c == chunks[k]
  IN  /\ c.total_sz = ChunkHdrSz + (CASE c.type = "raw"  -> ChunkDataSz(c)
                                      [] c.type = "fill" -> FillSz
                                      [] OTHER           -> 0)
      /\ c.type # "other" /\ (c.type = "crc" => c.chunk_sz = 0)

-----------------------------------------------------------------------------
(* Properties.                                                             *)

(* Every variable keeps its type; TotalBlocks, which is a UINT32 that      *)
(* HandleChunkTypeFill increments without a check, does not wrap.          *)
TypeOK ==
  /\ pc \in {"idle", "chunk", "done"} /\ header \in Headers \cup {NoHeader}
  /\ Image \in Nat /\ TotalBlocks \in Uint32 /\ chunks \in Seq(Chunks)
  /\ Status \in {"SUCCESS", "ERROR"} /\ failed \in BOOLEAN

(* Whatever an image claims, HandleSparseImgFlash writes inside the        *)
(* partition, and what it writes comes from inside the download buffer.    *)
InBounds ==
  \A b \in DOMAIN disk :
    /\ b \in 0 .. PartitionBlocks - 1
    /\ disk[b].from >= HeaderSz
    /\ disk[b].from + (IF disk[b].type = "raw" THEN BlockSize ELSE FillSz) <= header.sz

(* A well formed image that HandleSparseImgFlash reports as flashed is on  *)
(* the device: each block has the data of its chunk, the blocks of don't   *)
(* care chunks and those behind the image are untouched, and the chunks    *)
(* make up the size of the header.                                         *)
Exact ==
  pc = "done" /\ Status = "SUCCESS" /\ (\A k \in 1 .. Len(chunks) : WellFormed(k))
    => /\ disk = Expansion
       /\ Len(chunks) = header.total_chunks
       /\ BlocksBefore[Len(chunks)] = header.total_blks

(* Conversely no well formed image is refused that fits the partition and  *)
(* has no empty chunks, up to one that fills partition and buffer to the   *)
(* last byte.                                                              *)
Accepts ==
  LET n == Len(chunks)
  IN  /\ pc = "done" /\ HeaderValid(header) /\ header.chunk_hdr_sz = ChunkHdrSz
      /\ n > 0 /\ ~failed
      /\ \A k \in 1 .. n : WellFormed(k) /\ chunks[k].chunk_sz > 0
      /\ BytesBefore[n] <= header.sz
      /\ IF n = header.total_chunks THEN BlocksBefore[n] = header.total_blks
         ELSE /\ BlocksBefore[n] < header.total_blks
              /\ BytesBefore[n] + ChunkHdrSz <= header.sz
      => Status = "SUCCESS"

=============================================================================
