-------------------------- MODULE SparseImage_proofs ------------------------
(***************************************************************************)
(* For every block size, partition, image header and chunk:                *)
(* HandleSparseImgFlash stays inside the partition and the download        *)
(* buffer, its 32 bit counter does not wrap and its 64 bit sums do not     *)
(* overflow; for every sequence of chunks, what it reports as flashed is   *)
(* what the chunks expand to, and what fits it accepts.                    *)
(***************************************************************************)
EXTENDS SparseImage, WellFoundedInduction, TLAPS

USE SparseAssumption DEF Uint32

-----------------------------------------------------------------------------
(* Arithmetic.                                                             *)

(* Multiplication is monotonic.                                            *)
LEMMA MulMono ==
  ASSUME NEW a \in Nat, NEW b \in Nat, NEW c \in Nat, a <= b
  PROVE  /\ a * c <= b * c
         /\ a * c \in Nat /\ b * c \in Nat
OBVIOUS

(* A common factor can be cancelled.                                       *)
LEMMA MulCancel ==
  ASSUME NEW a \in Nat, NEW b \in Nat, NEW c \in Nat \ {0}, a * c <= b * c
  PROVE  a <= b
<1> SUFFICES ASSUME a >= b + 1 PROVE FALSE
  OBVIOUS
<1>1. (b + 1) * c <= a * c
  BY MulMono
<1>2. (b + 1) * c = b * c + c
  OBVIOUS
<1> QED BY <1>1, <1>2

(* A sparse block is a whole number, and at least one, of device blocks.   *)
LEMMA Factor ==
  ASSUME NEW s \in Nat, s # 0, s % BlockSize = 0
  PROVE  /\ s \div BlockSize \in Nat \ {0}
         /\ s = (s \div BlockSize) * BlockSize
<1>1. s \div BlockSize \in Nat /\ s = (s \div BlockSize) * BlockSize
  OBVIOUS
<1> QED BY <1>1

(* What fits in bytes fits in device blocks.                               *)
LEMMA FitsInBlocks ==
  ASSUME NEW s \in Nat, s # 0, s % BlockSize = 0,
         NEW t \in Nat, NEW n \in Nat, t * s + s * n <= PartitionSize
  PROVE  /\ (t + n) * (s \div BlockSize) <= PartitionBlocks
         /\ t + n <= PartitionBlocks
<1> DEFINE f == s \div BlockSize
<1>1. f \in Nat \ {0} /\ s = f * BlockSize
  BY Factor
<1> HIDE DEF f
<1>2. t * s + s * n = ((t + n) * f) * BlockSize
  <2>1. t * s + s * n = (t + n) * s
    BY <1>1
  <2>2. (t + n) * (f * BlockSize) = ((t + n) * f) * BlockSize
    BY <1>1
  <2> QED BY <2>1, <2>2, <1>1
<1>3. (t + n) * f \in Nat
  BY <1>1
<1>4. (t + n) * f <= PartitionBlocks
  BY <1>2, <1>3, MulCancel DEF PartitionSize
<1>5. t + n <= (t + n) * f
  BY <1>1, MulMono
<1> QED BY <1>4, <1>5, <1>3 DEF f

(* Counted from the first block of a chunk, every block that is written    *)
(* has its bytes inside the chunk.                                         *)
LEMMA BytesOfBlock ==
  ASSUME NEW s \in Nat, s # 0, s % BlockSize = 0, NEW n \in Nat,
         NEW i \in Nat, i < n * (s \div BlockSize)
  PROVE  /\ i * BlockSize \in Nat
         /\ i * BlockSize + BlockSize <= s * n
<1> DEFINE f == s \div BlockSize
<1>1. f \in Nat \ {0} /\ s = f * BlockSize
  BY Factor
<1> HIDE DEF f
<1>2. i + 1 <= n * f /\ n * f \in Nat
  BY <1>1 DEF f
<1>3. (i + 1) * BlockSize <= (n * f) * BlockSize
  BY <1>2, MulMono
<1>4. (i + 1) * BlockSize = i * BlockSize + BlockSize /\ i * BlockSize \in Nat
  OBVIOUS
<1>5. (n * f) * BlockSize = s * n
  BY <1>1
<1> QED BY <1>3, <1>4, <1>5

(* The sums that HandleSparseImgFlash computes in 64 bits do not overflow. *)
LEMMA SumsFit ==
  ASSUME NEW s \in Uint32, s % BlockSize = 0, NEW n \in Uint32,
         NEW t \in Nat, t * s <= PartitionSize
  PROVE  t * s + s * n < (MaxUint32 + 1) * (MaxUint32 + 1)
<1> DEFINE k == (MaxUint32 + 1) \div BlockSize
           j == s \div BlockSize
<1>1. k \in Nat /\ MaxUint32 + 1 = k * BlockSize
  OBVIOUS
<1>2. j \in Nat /\ s = j * BlockSize
  OBVIOUS
<1> HIDE DEF k, j
<1>3. s + BlockSize <= MaxUint32 + 1
  <2>1. j < k
    <3> SUFFICES ASSUME k <= j PROVE FALSE
      BY <1>1, <1>2
    <3>1. k * BlockSize <= j * BlockSize
      BY <1>1, <1>2, MulMono
    <3> QED BY <3>1, <1>1, <1>2
  <2>2. (j + 1) * BlockSize <= k * BlockSize
    BY <2>1, <1>1, <1>2, MulMono
  <2>3. (j + 1) * BlockSize = j * BlockSize + BlockSize
    BY <1>2
  <2> QED BY <2>2, <2>3, <1>1, <1>2
<1>4. s * n <= s * MaxUint32
  BY MulMono
<1>5. PartitionSize <= MaxUint32 * BlockSize
  BY MulMono DEF PartitionSize
<1>6. s * MaxUint32 + MaxUint32 * BlockSize = (s + BlockSize) * MaxUint32
  OBVIOUS
<1>7. (s + BlockSize) * MaxUint32 <= (MaxUint32 + 1) * MaxUint32
  BY <1>3, MulMono
<1>8. (MaxUint32 + 1) * MaxUint32 < (MaxUint32 + 1) * (MaxUint32 + 1)
  OBVIOUS
<1>9. /\ t * s \in Nat /\ s * n \in Nat /\ s * MaxUint32 \in Nat
      /\ MaxUint32 * BlockSize \in Nat /\ PartitionSize \in Nat
  BY DEF PartitionSize
<1> QED BY <1>4, <1>5, <1>6, <1>7, <1>8, <1>9

(* A value as the code holds it in 64 bits; nothing is cut off a small one. *)
Wrap64(a) == a % ((MaxUint32 + 1) * (MaxUint32 + 1))

LEMMA ModOfSmall ==
  ASSUME NEW a \in Nat, NEW w \in Nat, a < w
  PROVE  a % w = a
OBVIOUS

(* A chunk of n blocks of s bytes that passes the check of its size, which *)
(* is computed in 64 bits, after t blocks that did leaves the block count  *)
(* in its 32 bits: the comparisons of TotalBlocks with MAX_UINT32 -        *)
(* chunk_sz that follow for raw, don't care and CRC chunks cannot fail,    *)
(* and the fill handler, which makes none, needs none.                     *)
THEOREM WidthSuffices ==
  ASSUME NEW s \in Uint32, s # 0, s % BlockSize = 0,
         NEW n \in Uint32, NEW t \in Uint32, t * s <= PartitionSize,
         Wrap64(t * s + s * n) <= PartitionSize
  PROVE  t <= MaxUint32 - n /\ t + n \in Uint32
<1> t \in Nat /\ s \in Nat /\ n \in Nat
  OBVIOUS
<1>1. /\ t * s \in Nat /\ s * n \in Nat
      /\ (MaxUint32 + 1) * (MaxUint32 + 1) \in Nat
  OBVIOUS
<1>2. t * s + s * n < (MaxUint32 + 1) * (MaxUint32 + 1)
  BY SumsFit
<1>3. t * s + s * n <= PartitionSize
  BY <1>1, <1>2, ModOfSmall DEF Wrap64
<1>4. t + n <= PartitionBlocks
  BY <1>3, FitsInBlocks
<1> QED BY <1>4

(* The check that HandleChunkTypeFill makes before every block it writes   *)
(* cannot fail: the caller has checked the chunk as a whole.               *)
THEOREM FillCheckRedundant ==
  ASSUME NEW s \in Uint32, NEW t \in Nat, NEW n \in Uint32,
         t * s + s * n <= PartitionSize, NEW i \in 0 .. n - 1
  PROVE  (t + i) * s + s <= PartitionSize
<1>1. (t + i + 1) * s <= (t + n) * s
  BY MulMono
<1>2. (t + n) * s = t * s + s * n /\ (t + i + 1) * s = (t + i) * s + s
  OBVIOUS
<1>3. PartitionSize \in Nat /\ (t + i) * s \in Nat /\ t * s + s * n \in Nat
  BY DEF PartitionSize
<1> QED BY <1>1, <1>2, <1>3

-----------------------------------------------------------------------------
(* The inductive invariant.  While chunks are handled the header has been  *)
(* checked, and the blocks and bytes consumed are within the partition and *)
(* the buffer: this is what the checks of the next chunk start from.       *)

InProgress ==
  pc = "chunk" =>
    /\ header \in Headers /\ HeaderValid(header)
    /\ TotalBlocks * header.blk_sz <= PartitionSize
    /\ HeaderSz <= Image /\ Image <= header.sz

IInv == TypeOK /\ InProgress /\ InBounds

(* What holds of a chunk that has passed every check.                      *)
LEMMA ChunkFits ==
  ASSUME IInv, NEW c \in Chunks, AtChunk, HeaderFits, BlocksFit(c), ChunkValid(c)
  PROVE  /\ header \in Header /\ c \in Chunk
         /\ header.blk_sz # 0 /\ header.blk_sz % BlockSize = 0
         /\ BlockCountFactor \in Nat /\ First \in Nat /\ Count(c) \in Nat
         /\ DataSz(c) \in Nat /\ Data \in Nat
         /\ TotalBlocks + c.chunk_sz \in Uint32
         /\ (TotalBlocks + c.chunk_sz) * header.blk_sz <= PartitionSize
         /\ First + Count(c) <= PartitionBlocks
<1>1. /\ header \in Header /\ c \in Chunk /\ header.blk_sz \in Nat
      /\ header.blk_sz # 0 /\ header.blk_sz % BlockSize = 0
      /\ TotalBlocks \in Nat /\ Image \in Nat /\ c.chunk_sz \in Nat
  BY DEF IInv, TypeOK, InProgress, AtChunk, HeaderValid, Header, Chunk
<1>2. TotalBlocks * header.blk_sz + header.blk_sz * c.chunk_sz <= PartitionSize
  BY DEF BlocksFit, ChunkDataSz
<1>3. /\ (TotalBlocks + c.chunk_sz) * BlockCountFactor <= PartitionBlocks
      /\ TotalBlocks + c.chunk_sz <= PartitionBlocks
  BY <1>1, <1>2, FitsInBlocks DEF BlockCountFactor
<1>4. BlockCountFactor \in Nat
  BY <1>1, Factor DEF BlockCountFactor
<1>5. /\ First \in Nat /\ c.chunk_sz * BlockCountFactor \in Nat
      /\ First + c.chunk_sz * BlockCountFactor
           = (TotalBlocks + c.chunk_sz) * BlockCountFactor
  BY <1>1, <1>4 DEF First
<1>6. Count(c) \in Nat /\ Count(c) <= c.chunk_sz * BlockCountFactor
  BY <1>5 DEF Count
<1>7. First + Count(c) <= PartitionBlocks
  BY <1>3, <1>5, <1>6
<1>8. ChunkDataSz(c) \in Nat
  BY <1>1 DEF ChunkDataSz
<1>9. DataSz(c) \in Nat /\ Data \in Nat
  BY <1>1, <1>8 DEF DataSz, Data
<1>10. (TotalBlocks + c.chunk_sz) * header.blk_sz
         = TotalBlocks * header.blk_sz + header.blk_sz * c.chunk_sz
  BY <1>1
<1> QED BY <1>1, <1>2, <1>3, <1>4, <1>5, <1>6, <1>7, <1>9, <1>10

(* Writing any number of the chunk's blocks stays in bounds.               *)
LEMMA WrittenInBounds ==
  ASSUME IInv, NEW c \in Chunks, AtChunk, HeaderFits, BlocksFit(c), ChunkValid(c),
         NEW n \in Nat, n <= Count(c), disk' = Written(c, n), UNCHANGED header
  PROVE  InBounds'
<1> DEFINE W == First .. First + n - 1
<1>1. /\ header \in Header /\ c \in Chunk
      /\ header.blk_sz # 0 /\ header.blk_sz % BlockSize = 0
      /\ First \in Nat /\ Count(c) \in Nat /\ Data \in Nat /\ DataSz(c) \in Nat
      /\ First + Count(c) <= PartitionBlocks
  BY ChunkFits
<1>2. HeaderSz <= Data /\ Data + DataSz(c) <= header.sz
  BY DEF Data, ChunkValid, IInv, InProgress, AtChunk, TypeOK
<1>3. DOMAIN disk' = DOMAIN disk \cup W
  BY DEF Written
<1>4. \A b \in DOMAIN disk' : disk'[b] = IF b \in W THEN Content(c, b) ELSE disk[b]
  BY DEF Written
<1> SUFFICES ASSUME NEW b \in DOMAIN disk'
             PROVE  /\ b \in 0 .. PartitionBlocks - 1
                    /\ disk'[b].from >= HeaderSz
                    /\ disk'[b].from + (IF disk'[b].type = "raw" THEN BlockSize ELSE FillSz)
                          <= header.sz
  BY DEF InBounds
<1>5. CASE b \notin W
  BY <1>3, <1>4, <1>5 DEF IInv, InBounds
<1>6. CASE b \in W
  <2>1. b - First \in Nat /\ b - First < Count(c) /\ b \in 0 .. PartitionBlocks - 1
    BY <1>1, <1>6
  <2>2. disk'[b] = Content(c, b)
    BY <1>4, <1>6
  <2>3. c.type \in {"raw", "fill"} /\ b - First < c.chunk_sz * (header.blk_sz \div BlockSize)
    BY <2>1 DEF Count, BlockCountFactor
  <2>4. CASE c.type = "raw"
    <3>1. /\ (b - First) * BlockSize \in Nat
          /\ (b - First) * BlockSize + BlockSize <= header.blk_sz * c.chunk_sz
      <4>1. header.blk_sz \in Nat /\ c.chunk_sz \in Nat
        BY <1>1 DEF Header, Chunk
      <4> QED BY <4>1, <1>1, <2>1, <2>3, BytesOfBlock
    <3>2. DataSz(c) = header.blk_sz * c.chunk_sz
      BY <2>4 DEF DataSz, ChunkDataSz
    <3>3. disk'[b].type = "raw" /\ disk'[b].from = Data + (b - First) * BlockSize
      BY <2>2, <2>4 DEF Content
    <3>4. header.sz \in Nat
      BY <1>1 DEF Header
    <3> QED BY <1>1, <1>2, <2>1, <3>1, <3>2, <3>3, <3>4
  <2>5. CASE c.type = "fill"
    <3>1. disk'[b].type = "fill" /\ disk'[b].from = Data /\ DataSz(c) = FillSz
      BY <2>2, <2>5 DEF Content, DataSz
    <3> QED BY <3>1, <1>1, <1>2, <2>1
  <2> QED BY <2>3, <2>4, <2>5
<1> QED BY <1>5, <1>6

(* Nothing is read or written before the first chunk.                      *)
LEMMA EmptyAtStart ==
  /\ <<>> \in Seq(Chunks) /\ \A b \in DOMAIN << >> : FALSE
  /\ 0 \in Uint32 /\ 0 \in Nat
OBVIOUS

LEMMA InitIInv == Init => IInv
<1> SUFFICES ASSUME Init PROVE IInv
  OBVIOUS
<1>1. TypeOK
  BY EmptyAtStart DEF Init, TypeOK
<1>2. InProgress /\ InBounds
  BY EmptyAtStart DEF Init, InProgress, InBounds
<1> QED BY <1>1, <1>2 DEF IInv

(* A step that ends the image leaves what is on the device.                *)
LEMMA NextIInv == IInv /\ [Next]_vars => IInv'
<1> SUFFICES ASSUME IInv, [Next]_vars PROVE IInv'
  OBVIOUS
<1>1. CASE Flash
  <2>1. TypeOK'
    <3>1. /\ Image' \in Nat /\ TotalBlocks' \in Uint32 /\ chunks' \in Seq(Chunks)
          /\ header' \in Headers
      BY <1>1, EmptyAtStart DEF Flash
    <3>2. /\ pc' \in {"idle", "chunk", "done"} /\ Status' \in {"SUCCESS", "ERROR"}
          /\ failed' \in BOOLEAN
      BY <1>1, Zenon DEF Flash, Return
    <3> QED BY <3>1, <3>2 DEF TypeOK
  <2>2. InProgress'
    <3> SUFFICES ASSUME pc' = "chunk" PROVE InProgress'
      BY DEF InProgress
    <3>1. HeaderValid(header') /\ header' \in Headers /\ Image' = HeaderSz /\ TotalBlocks' = 0
      BY <1>1 DEF Flash, Return
    <3>2. header'.blk_sz \in Nat /\ header'.sz \in Nat /\ PartitionSize \in Nat
      BY <3>1 DEF Header, PartitionSize
    <3> QED BY <3>1, <3>2 DEF InProgress, HeaderValid, PartitionSize
  <2>3. InBounds'
    BY <1>1, EmptyAtStart DEF Flash, InBounds
  <2> QED BY <2>1, <2>2, <2>3 DEF IInv
<1>2. CASE NoChunk
  BY <1>2 DEF NoChunk, Return, IInv, TypeOK, InProgress, InBounds
<1>3. CASE Finish
  BY <1>3 DEF Finish, Return, IInv, TypeOK, InProgress, InBounds
<1>4. CASE Answer
  <2>1. TypeOK'
    BY <1>4, EmptyAtStart DEF Answer, TypeOK
  <2>2. InProgress' /\ InBounds'
    BY <1>4, EmptyAtStart DEF Answer, InProgress, InBounds
  <2> QED BY <2>1, <2>2 DEF IInv
<1>5. ASSUME NEW c \in Chunks, HandleChunk(c) PROVE IInv'
  <2>1. AtChunk /\ HeaderFits /\ BlocksFit(c) /\ ChunkValid(c)
    BY <1>5 DEF HandleChunk
  <2>2. InBounds'
    <3>1. Count(c) \in Nat /\ Count(c) <= Count(c)
      BY <2>1, ChunkFits
    <3> QED BY <1>5, <2>1, <3>1, WrittenInBounds DEF HandleChunk
  <2>3. TypeOK'
    <3>1. TotalBlocks + c.chunk_sz \in Uint32 /\ Data + DataSz(c) \in Nat
      BY <2>1, ChunkFits
    <3>2. Append(chunks, c) \in Seq(Chunks)
      BY DEF IInv, TypeOK
    <3> QED BY <1>5, <3>1, <3>2 DEF HandleChunk, IInv, TypeOK
  <2>4. InProgress'
    <3>1. /\ header \in Headers /\ HeaderValid(header)
          /\ HeaderSz <= Data /\ Data \in Nat /\ DataSz(c) \in Nat
          /\ Data + DataSz(c) <= header.sz
      BY <2>1, ChunkFits DEF IInv, InProgress, AtChunk, TypeOK, ChunkValid, Data
    <3>2. (TotalBlocks + c.chunk_sz) * header.blk_sz <= PartitionSize
      BY <2>1, ChunkFits
    <3>3. HeaderSz <= Data + DataSz(c)
      BY <3>1
    <3>4. /\ header' = header /\ TotalBlocks' = TotalBlocks + c.chunk_sz
          /\ Image' = Data + DataSz(c)
      BY <1>5 DEF HandleChunk
    <3> QED BY <3>1, <3>2, <3>3, <3>4 DEF InProgress, HeaderValid, PartitionSize
  <2> QED BY <2>2, <2>3, <2>4 DEF IInv
<1>6. ASSUME NEW c \in Chunks, RefuseChunk(c) PROVE IInv'
  BY <1>6 DEF RefuseChunk, Return, IInv, TypeOK, InProgress, InBounds
<1>7. ASSUME NEW c \in Chunks, WriteFails(c) PROVE IInv'
  <2>1. AtChunk /\ HeaderFits /\ BlocksFit(c) /\ ChunkValid(c)
    BY <1>7 DEF WriteFails
  <2>2. InBounds'
    <3>1. PICK n \in 0 .. Count(c) - 1 : disk' = Written(c, n)
      BY <1>7 DEF WriteFails
    <3>2. n \in Nat /\ n <= Count(c) /\ header' = header
      BY <1>7, <2>1, <3>1, ChunkFits DEF WriteFails
    <3> QED BY <2>1, <3>1, <3>2, WrittenInBounds
  <2>3. TypeOK' /\ InProgress'
    BY <1>7 DEF WriteFails, Return, IInv, TypeOK, InProgress
  <2> QED BY <2>2, <2>3 DEF IInv
<1>8. CASE UNCHANGED vars
  BY <1>8 DEF vars, IInv, TypeOK, InProgress, InBounds, HeaderValid, PartitionSize
<1> QED BY <1>1, <1>2, <1>3, <1>4, <1>5, <1>6, <1>7, <1>8 DEF Next

LEMMA Invariance == Spec => []IInv
BY InitIInv, NextIInv, PTL DEF Spec

(* Types are kept; above all the counter of HandleSparseImgFlash stays a   *)
(* UINT32.                                                                 *)
THEOREM TypeCorrect == Spec => []TypeOK
<1>1. IInv => TypeOK
  BY DEF IInv
<1> QED BY <1>1, Invariance, PTL

(* Whatever an image claims, nothing is written outside the partition or   *)
(* taken from outside the download buffer (HandleSparseImgFlash).          *)
THEOREM StaysInBounds == Spec => []InBounds
<1>1. IInv => InBounds
  BY DEF IInv
<1> QED BY <1>1, Invariance, PTL

-----------------------------------------------------------------------------
HIDE SparseAssumption DEF Uint32

(* Induction.  A least element stands in for the induction theorems of the *)
(* library, whose operator parameters the provers do not instantiate.      *)

LEMMA LeastElement ==
  ASSUME NEW T, T \subseteq Nat, T # {}
  PROVE  \E x \in T : \A y \in T : x <= y
<1> DEFINE R == {ss \in Nat \X Nat : ss[1] < ss[2]}
<1>1. IsWellFoundedOn(R, Nat)
  BY NatLessThanWellFounded DEF OpToRel
<1> HIDE DEF R
<1>2. PICK x \in T : \A y \in T : ~(<<y, x>> \in R)
  BY <1>1, WFMin
<1>3. ASSUME NEW y \in T PROVE x <= y
  <2>1. ~(<<y, x>> \in R)
    BY <1>2
  <2>2. ~(y < x)
    BY <2>1 DEF R
  <2> QED BY <2>2
<1> QED BY <1>3

LEMMA SetInduction ==
  ASSUME NEW T, 0 \in T, \A n \in Nat : n \in T => n + 1 \in T
  PROVE  \A n \in Nat : n \in T
<1> SUFFICES ASSUME NEW n \in Nat, n \notin T PROVE FALSE
  OBVIOUS
<1> DEFINE D == {k \in Nat : k \notin T}
<1>1. PICK x \in D : \A y \in D : x <= y
  BY LeastElement
<1>2. x # 0 /\ x - 1 \in Nat /\ x - 1 \notin D
  BY <1>1
<1> QED BY <1>2

-----------------------------------------------------------------------------
(* Running totals: what the recursive functions of the reference compute.  *)

IsTotal(f, a, v, n) ==
  f = [k \in 0 .. n |-> IF k = 0 THEN a ELSE f[k - 1] + v[k]]

LEMMA TotalExists ==
  ASSUME NEW a \in Nat, NEW n \in Nat, NEW v \in [1 .. n -> Nat]
  PROVE  \E f : IsTotal(f, a, v, n)
<1> DEFINE T == {m \in Nat : m <= n => \E f : IsTotal(f, a, v, m)}
<1>1. 0 \in T
  <2> DEFINE g == [k \in 0 .. 0 |-> a]
  <2>1. g = [k \in 0 .. 0 |-> IF k = 0 THEN a ELSE g[k - 1] + v[k]]
    OBVIOUS
  <2> QED BY <2>1 DEF IsTotal
<1>2. ASSUME NEW m \in Nat, m \in T PROVE m + 1 \in T
  <2> SUFFICES ASSUME m + 1 <= n PROVE \E f : IsTotal(f, a, v, m + 1)
    OBVIOUS
  <2>1. PICK f : IsTotal(f, a, v, m)
    BY <1>2
  <2> DEFINE g == [k \in 0 .. m + 1 |-> IF k = m + 1 THEN f[m] + v[m + 1] ELSE f[k]]
  <2>2. ASSUME NEW k \in 0 .. m + 1
        PROVE  g[k] = IF k = 0 THEN a ELSE g[k - 1] + v[k]
    <3>1. CASE k = 0
      BY <2>1, <3>1 DEF IsTotal
    <3>2. CASE k \in 1 .. m
      <4>1. f[k] = f[k - 1] + v[k]
        BY <2>1, <3>2 DEF IsTotal
      <4>2. g[k] = f[k] /\ g[k - 1] = f[k - 1]
        BY <3>2
      <4> QED BY <3>2, <4>1, <4>2
    <3>3. CASE k = m + 1
      <4>1. g[k] = f[m] + v[m + 1] /\ g[k - 1] = f[m]
        BY <3>3
      <4> QED BY <3>3, <4>1
    <3> QED BY <3>1, <3>2, <3>3
  <2>3. g = [k \in 0 .. m + 1 |-> IF k = 0 THEN a ELSE g[k - 1] + v[k]]
    BY <2>2
  <2> QED BY <2>3 DEF IsTotal
<1> HIDE DEF T
<1>3. n \in T
  BY <1>1, <1>2, SetInduction
<1> QED BY <1>3 DEF T

(* A total is a natural number and never decreases.                        *)
LEMMA TotalFacts ==
  ASSUME NEW a \in Nat, NEW n \in Nat, NEW v \in [1 .. n -> Nat], NEW f,
         IsTotal(f, a, v, n)
  PROVE  /\ f \in [0 .. n -> Nat] /\ f[0] = a
         /\ \A k \in 1 .. n : f[k] = f[k - 1] + v[k]
         /\ \A j, k \in 0 .. n : j <= k => f[j] <= f[k]
<1>1. f[0] = a /\ \A k \in 1 .. n : f[k] = f[k - 1] + v[k]
  BY DEF IsTotal
<1>2. f \in [0 .. n -> Nat]
  <2> DEFINE T == {m \in Nat : m <= n => f[m] \in Nat}
  <2>1. 0 \in T
    BY <1>1
  <2>2. ASSUME NEW m \in Nat, m \in T PROVE m + 1 \in T
    <3> SUFFICES ASSUME m + 1 <= n PROVE f[m + 1] \in Nat
      OBVIOUS
    <3>1. f[m + 1] = f[(m + 1) - 1] + v[m + 1] /\ v[m + 1] \in Nat
      BY <1>1
    <3> QED BY <2>2, <3>1
  <2> HIDE DEF T
  <2>3. \A m \in Nat : m \in T
    BY <2>1, <2>2, SetInduction
  <2>4. \A m \in 0 .. n : f[m] \in Nat
    BY <2>3 DEF T
  <2> QED BY <2>4 DEF IsTotal
<1>3. ASSUME NEW j \in 0 .. n PROVE \A k \in 0 .. n : j <= k => f[j] <= f[k]
  <2> DEFINE T == {m \in Nat : j + m <= n => f[j] <= f[j + m]}
  <2>1. 0 \in T
    BY <1>2
  <2>2. ASSUME NEW m \in Nat, m \in T PROVE m + 1 \in T
    <3> SUFFICES ASSUME j + (m + 1) <= n PROVE f[j] <= f[j + (m + 1)]
      OBVIOUS
    <3> DEFINE i == j + (m + 1)
    <3>1. i \in 1 .. n /\ i - 1 = j + m
      OBVIOUS
    <3>2. f[i] = f[i - 1] + v[i] /\ v[i] \in Nat /\ f[i - 1] \in Nat /\ f[j] \in Nat
      BY <1>1, <1>2, <3>1
    <3>3. f[j] <= f[i - 1]
      BY <2>2, <3>1
    <3> QED BY <3>2, <3>3
  <2> HIDE DEF T
  <2>3. \A m \in Nat : m \in T
    BY <2>1, <2>2, SetInduction
  <2> SUFFICES ASSUME NEW k \in 0 .. n, j <= k PROVE f[j] <= f[k]
    OBVIOUS
  <2> DEFINE m == k - j
  <2>4. m \in Nat /\ j + m = k
    OBVIOUS
  <2> HIDE DEF m
  <2>5. m \in T
    BY <2>3, <2>4
  <2> QED BY <2>4, <2>5 DEF T
<1> QED BY <1>1, <1>2, <1>3

(* Two totals agree as far as what they add up does.                       *)
LEMMA TotalPrefix ==
  ASSUME NEW a \in Nat, NEW n \in Nat, NEW m \in Nat, m <= n,
         NEW v, NEW w, NEW f, NEW g, IsTotal(f, a, v, m), IsTotal(g, a, w, n),
         \A k \in 1 .. m : v[k] = w[k]
  PROVE  \A k \in 0 .. m : f[k] = g[k]
<1> DEFINE T == {k \in Nat : k <= m => f[k] = g[k]}
<1>1. 0 \in T
  BY DEF IsTotal
<1>2. ASSUME NEW k \in Nat, k \in T PROVE k + 1 \in T
  <2> SUFFICES ASSUME k + 1 <= m PROVE f[k + 1] = g[k + 1]
    OBVIOUS
  <2>1. f[k + 1] = f[(k + 1) - 1] + v[k + 1] /\ g[k + 1] = g[(k + 1) - 1] + w[k + 1]
    BY DEF IsTotal
  <2>2. (k + 1) - 1 = k /\ v[k + 1] = w[k + 1]
    OBVIOUS
  <2> QED BY <1>2, <2>1, <2>2
<1> HIDE DEF T
<1>3. \A k \in Nat : k \in T
  BY <1>1, <1>2, SetInduction
<1> QED BY <1>3 DEF T

-----------------------------------------------------------------------------
(* The reference, as operators of the chunks: cs is the sequence of chunk  *)
(* headers, f the number of device blocks in a sparse block.               *)

BlockSizes(cs) == [k \in 1 .. Len(cs) |-> cs[k].chunk_sz]
ByteSizes(cs)  == [k \in 1 .. Len(cs) |-> cs[k].total_sz]

BlocksIn(cs) ==
  LET B[k \in 0 .. Len(cs)] == IF k = 0 THEN 0 ELSE B[k - 1] + cs[k].chunk_sz
  IN  B

BytesIn(cs) ==
  LET B[k \in 0 .. Len(cs)] == IF k = 0 THEN HeaderSz ELSE B[k - 1] + cs[k].total_sz
  IN  B

Span(cs, f, k) == BlocksIn(cs)[k - 1] * f .. BlocksIn(cs)[k] * f - 1

WithData(cs) == {k \in 1 .. Len(cs) : cs[k].type \in {"raw", "fill"}}

(* What chunk k puts into device block b.                                  *)
Expected(cs, f, k, b) ==
  LET data == BytesIn(cs)[k - 1] + ChunkHdrSz
  IN  [type |-> cs[k].type,
       from |-> IF cs[k].type = "raw"
                THEN data + (b - BlocksIn(cs)[k - 1] * f) * BlockSize
                ELSE data]

Expand(cs, f) ==
  [b \in UNION {Span(cs, f, k) : k \in WithData(cs)} |->
     Expected(cs, f, CHOOSE k \in WithData(cs) : b \in Span(cs, f, k), b)]

LEMMA Sizes ==
  /\ HeaderSz \in Nat /\ ChunkHdrSz \in Nat /\ FillSz \in Nat
  /\ \A c \in Chunks : c.chunk_sz \in Nat /\ c.total_sz \in Nat
  /\ \A cs \in Seq(Chunks) : /\ BlockSizes(cs) \in [1 .. Len(cs) -> Nat]
                             /\ ByteSizes(cs) \in [1 .. Len(cs) -> Nat]
<1>1. HeaderSz \in Nat /\ ChunkHdrSz \in Nat /\ FillSz \in Nat
  BY SparseAssumption
<1>2. \A c \in Chunks : c.chunk_sz \in Nat /\ c.total_sz \in Nat
  BY SparseAssumption DEF Chunk, Uint32
<1>3. ASSUME NEW cs \in Seq(Chunks), NEW k \in 1 .. Len(cs) PROVE cs[k] \in Chunks
  BY <1>3
<1> QED BY <1>1, <1>2, <1>3 DEF BlockSizes, ByteSizes

(* The recursive functions are totals.                                     *)
LEMMA BlocksTotal ==
  ASSUME NEW cs \in Seq(Chunks)
  PROVE  IsTotal(BlocksIn(cs), 0, BlockSizes(cs), Len(cs))
<1> DEFINE F(f) == [k \in 0 .. Len(cs) |-> IF k = 0 THEN 0 ELSE f[k - 1] + cs[k].chunk_sz]
<1>1. BlocksIn(cs) = CHOOSE f : f = F(f)
  BY DEF BlocksIn
<1>2. BlockSizes(cs) \in [1 .. Len(cs) -> Nat]
  BY Sizes
<1>3. PICK f : IsTotal(f, 0, BlockSizes(cs), Len(cs))
  BY <1>2, TotalExists
<1>4. \A g : IsTotal(g, 0, BlockSizes(cs), Len(cs)) <=> g = F(g)
  BY DEF IsTotal, BlockSizes
<1> HIDE DEF F
<1>5. BlocksIn(cs) = F(BlocksIn(cs))
  BY <1>1, <1>3, <1>4
<1> QED BY <1>4, <1>5

LEMMA BytesTotal ==
  ASSUME NEW cs \in Seq(Chunks)
  PROVE  IsTotal(BytesIn(cs), HeaderSz, ByteSizes(cs), Len(cs))
<1> DEFINE F(f) == [k \in 0 .. Len(cs) |->
                      IF k = 0 THEN HeaderSz ELSE f[k - 1] + cs[k].total_sz]
<1>1. BytesIn(cs) = CHOOSE f : f = F(f)
  BY DEF BytesIn
<1>2. ByteSizes(cs) \in [1 .. Len(cs) -> Nat]
  BY Sizes
<1>h. HeaderSz \in Nat /\ Len(cs) \in Nat
  BY Sizes
<1>3. PICK f : IsTotal(f, HeaderSz, ByteSizes(cs), Len(cs))
  BY <1>2, <1>h, TotalExists
<1>4. \A g : IsTotal(g, HeaderSz, ByteSizes(cs), Len(cs)) <=> g = F(g)
  BY DEF IsTotal, ByteSizes
<1> HIDE DEF F
<1>5. BytesIn(cs) = F(BytesIn(cs))
  BY <1>1, <1>3, <1>4
<1> QED BY <1>4, <1>5

LEMMA InFacts ==
  ASSUME NEW cs \in Seq(Chunks)
  PROVE  /\ BlocksIn(cs) \in [0 .. Len(cs) -> Nat] /\ BlocksIn(cs)[0] = 0
         /\ BytesIn(cs) \in [0 .. Len(cs) -> Nat] /\ BytesIn(cs)[0] = HeaderSz
         /\ \A k \in 1 .. Len(cs) :
              /\ BlocksIn(cs)[k] = BlocksIn(cs)[k - 1] + cs[k].chunk_sz
              /\ BytesIn(cs)[k] = BytesIn(cs)[k - 1] + cs[k].total_sz
         /\ \A j, k \in 0 .. Len(cs) : j <= k => BlocksIn(cs)[j] <= BlocksIn(cs)[k]
<1>1. /\ BlockSizes(cs) \in [1 .. Len(cs) -> Nat]
      /\ ByteSizes(cs) \in [1 .. Len(cs) -> Nat]
      /\ \A k \in 1 .. Len(cs) : /\ BlockSizes(cs)[k] = cs[k].chunk_sz
                                 /\ ByteSizes(cs)[k] = cs[k].total_sz
      /\ Len(cs) \in Nat /\ HeaderSz \in Nat
  BY Sizes DEF BlockSizes, ByteSizes
<1>2. /\ BlocksIn(cs) \in [0 .. Len(cs) -> Nat] /\ BlocksIn(cs)[0] = 0
      /\ \A k \in 1 .. Len(cs) :
           BlocksIn(cs)[k] = BlocksIn(cs)[k - 1] + BlockSizes(cs)[k]
      /\ \A j, k \in 0 .. Len(cs) : j <= k => BlocksIn(cs)[j] <= BlocksIn(cs)[k]
  BY <1>1, BlocksTotal, TotalFacts
<1>3. /\ BytesIn(cs) \in [0 .. Len(cs) -> Nat] /\ BytesIn(cs)[0] = HeaderSz
      /\ \A k \in 1 .. Len(cs) :
           BytesIn(cs)[k] = BytesIn(cs)[k - 1] + ByteSizes(cs)[k]
  <2>1. IsTotal(BytesIn(cs), HeaderSz, ByteSizes(cs), Len(cs))
    BY BytesTotal
  <2>2. HeaderSz \in Nat /\ Len(cs) \in Nat /\ ByteSizes(cs) \in [1 .. Len(cs) -> Nat]
    BY <1>1
  <2>3. /\ BytesIn(cs) \in [0 .. Len(cs) -> Nat] /\ BytesIn(cs)[0] = HeaderSz
        /\ \A k \in 1 .. Len(cs) :
             BytesIn(cs)[k] = BytesIn(cs)[k - 1] + ByteSizes(cs)[k]
        /\ \A j, k \in 0 .. Len(cs) : j <= k => BytesIn(cs)[j] <= BytesIn(cs)[k]
    BY <2>1, <2>2, TotalFacts, Zenon
  <2> QED BY <2>3
<1> QED BY <1>1, <1>2, <1>3

(* One more chunk leaves what was before it.                               *)
LEMMA InAppend ==
  ASSUME NEW cs \in Seq(Chunks), NEW c \in Chunks
  PROVE  /\ \A k \in 0 .. Len(cs) : /\ BlocksIn(Append(cs, c))[k] = BlocksIn(cs)[k]
                                    /\ BytesIn(Append(cs, c))[k] = BytesIn(cs)[k]
         /\ BlocksIn(Append(cs, c))[Len(cs) + 1] = BlocksIn(cs)[Len(cs)] + c.chunk_sz
         /\ BytesIn(Append(cs, c))[Len(cs) + 1] = BytesIn(cs)[Len(cs)] + c.total_sz
<1> DEFINE ds == Append(cs, c)
           n  == Len(cs)
<1>1. /\ ds \in Seq(Chunks) /\ n \in Nat /\ Len(ds) = n + 1 /\ ds[n + 1] = c
      /\ \A k \in 1 .. n : ds[k] = cs[k]
  OBVIOUS
<1>h. HeaderSz \in Nat /\ 0 \in Nat /\ n + 1 \in Nat /\ n <= n + 1
  BY <1>1, Sizes
<1> HIDE DEF ds, n
<1>2. \A k \in 1 .. n : /\ BlockSizes(cs)[k] = BlockSizes(ds)[k]
                        /\ ByteSizes(cs)[k] = ByteSizes(ds)[k]
  BY <1>1 DEF BlockSizes, ByteSizes, n
<1>3. \A k \in 0 .. n : BlocksIn(cs)[k] = BlocksIn(ds)[k]
  <2>1. /\ IsTotal(BlocksIn(cs), 0, BlockSizes(cs), n)
        /\ IsTotal(BlocksIn(ds), 0, BlockSizes(ds), n + 1)
    BY <1>1, BlocksTotal DEF n
  <2> QED BY <1>1, <1>2, <1>h, <2>1, TotalPrefix
<1>4. \A k \in 0 .. n : BytesIn(cs)[k] = BytesIn(ds)[k]
  <2>1. /\ IsTotal(BytesIn(cs), HeaderSz, ByteSizes(cs), n)
        /\ IsTotal(BytesIn(ds), HeaderSz, ByteSizes(ds), n + 1)
    BY <1>1, BytesTotal DEF n
  <2> QED BY <1>1, <1>2, <1>h, <2>1, TotalPrefix
<1>5. /\ BlocksIn(ds)[n + 1] = BlocksIn(ds)[(n + 1) - 1] + ds[n + 1].chunk_sz
      /\ BytesIn(ds)[n + 1] = BytesIn(ds)[(n + 1) - 1] + ds[n + 1].total_sz
      /\ (n + 1) - 1 = n /\ n \in 0 .. n
  BY <1>1, InFacts
<1> QED BY <1>1, <1>3, <1>4, <1>5 DEF ds, n

-----------------------------------------------------------------------------
(* The expansion, chunk by chunk.                                          *)

LEMMA SpansDisjoint ==
  ASSUME NEW cs \in Seq(Chunks), NEW f \in Nat,
         NEW j \in 1 .. Len(cs), NEW k \in 1 .. Len(cs), NEW b,
         b \in Span(cs, f, j), b \in Span(cs, f, k)
  PROVE  j = k
<1> SUFFICES ASSUME NEW i \in 1 .. Len(cs), NEW m \in 1 .. Len(cs), i < m,
                    b \in Span(cs, f, i), b \in Span(cs, f, m)
             PROVE  FALSE
  OBVIOUS
<1> DEFINE x == BlocksIn(cs)[i]
           y == BlocksIn(cs)[m - 1]
<1>a. /\ Len(cs) \in Nat /\ i \in 0 .. Len(cs) /\ m \in 0 .. Len(cs)
      /\ i - 1 \in 0 .. Len(cs) /\ m - 1 \in 0 .. Len(cs) /\ i <= m - 1
  OBVIOUS
<1>b. /\ BlocksIn(cs) \in [0 .. Len(cs) -> Nat]
      /\ \A h, k1 \in 0 .. Len(cs) : h <= k1 => BlocksIn(cs)[h] <= BlocksIn(cs)[k1]
  BY InFacts
<1>1. x \in Nat /\ y \in Nat /\ x <= y
  BY <1>a, <1>b
<1>2. b \in Int /\ b <= x * f - 1 /\ y * f <= b
  <2>1. BlocksIn(cs)[i - 1] \in Nat /\ BlocksIn(cs)[m] \in Nat
    BY <1>a, <1>b
  <2> HIDE DEF x, y
  <2> QED BY <1>1, <2>1 DEF Span, x, y
<1> HIDE DEF x, y
<1>3. x * f <= y * f /\ x * f \in Nat /\ y * f \in Nat
  BY <1>1, MulMono
<1> QED BY <1>2, <1>3

LEMMA ExpandAt ==
  ASSUME NEW cs \in Seq(Chunks), NEW f \in Nat, NEW k \in WithData(cs),
         NEW b \in Span(cs, f, k)
  PROVE  b \in DOMAIN Expand(cs, f) /\ Expand(cs, f)[b] = Expected(cs, f, k, b)
<1>1. b \in UNION {Span(cs, f, i) : i \in WithData(cs)}
  OBVIOUS
<1>2. \A i \in WithData(cs) : i \in 1 .. Len(cs)
  BY DEF WithData
<1>3. (CHOOSE i \in WithData(cs) : b \in Span(cs, f, i)) = k
  BY <1>2, SpansDisjoint
<1> QED BY <1>1, <1>3 DEF Expand

LEMMA ExpandDomain ==
  ASSUME NEW cs, NEW f, NEW b
  PROVE  b \in DOMAIN Expand(cs, f) <=> \E k \in WithData(cs) : b \in Span(cs, f, k)
BY DEF Expand

(* What was expected of the chunks before stays so.                        *)
LEMMA PrefixStays ==
  ASSUME NEW cs \in Seq(Chunks), NEW f \in Nat, NEW c \in Chunks, NEW k \in 1 .. Len(cs)
  PROVE  /\ Span(Append(cs, c), f, k) = Span(cs, f, k)
         /\ k \in WithData(Append(cs, c)) <=> k \in WithData(cs)
         /\ \A b : Expected(Append(cs, c), f, k, b) = Expected(cs, f, k, b)
<1>1. /\ Append(cs, c)[k] = cs[k] /\ Len(Append(cs, c)) = Len(cs) + 1
      /\ k \in 0 .. Len(cs) /\ k - 1 \in 0 .. Len(cs)
  OBVIOUS
<1>2. /\ BlocksIn(Append(cs, c))[k] = BlocksIn(cs)[k]
      /\ BlocksIn(Append(cs, c))[k - 1] = BlocksIn(cs)[k - 1]
      /\ BytesIn(Append(cs, c))[k - 1] = BytesIn(cs)[k - 1]
  BY <1>1, InAppend
<1>3. Span(Append(cs, c), f, k) = Span(cs, f, k)
  BY <1>2 DEF Span
<1>4. k \in WithData(Append(cs, c)) <=> k \in WithData(cs)
  BY <1>1 DEF WithData
<1>5. \A b : Expected(Append(cs, c), f, k, b) = Expected(cs, f, k, b)
  BY <1>1, <1>2 DEF Expected
<1> QED BY <1>3, <1>4, <1>5

LEMMA LastChunk ==
  ASSUME NEW cs \in Seq(Chunks), NEW f \in Nat, NEW c \in Chunks
  PROVE  /\ Span(Append(cs, c), f, Len(cs) + 1)
              = BlocksIn(cs)[Len(cs)] * f .. (BlocksIn(cs)[Len(cs)] + c.chunk_sz) * f - 1
         /\ Len(cs) + 1 \in WithData(Append(cs, c)) <=> c.type \in {"raw", "fill"}
         /\ \A k \in WithData(Append(cs, c)) : k = Len(cs) + 1 \/ k \in WithData(cs)
         /\ \A k \in WithData(cs) : k \in 1 .. Len(cs) /\ k \in WithData(Append(cs, c))
<1> DEFINE n == Len(cs)
<1>1. /\ n \in Nat /\ Append(cs, c)[n + 1] = c /\ Len(Append(cs, c)) = n + 1
      /\ \A k \in 1 .. n : Append(cs, c)[k] = cs[k]
      /\ (n + 1) - 1 = n /\ n \in 0 .. n
  OBVIOUS
<1>2. /\ BlocksIn(Append(cs, c))[n + 1] = BlocksIn(cs)[n] + c.chunk_sz
      /\ BlocksIn(Append(cs, c))[n] = BlocksIn(cs)[n]
  BY <1>1, InAppend
<1> HIDE DEF n
<1>3. Span(Append(cs, c), f, n + 1)
        = BlocksIn(cs)[n] * f .. (BlocksIn(cs)[n] + c.chunk_sz) * f - 1
  BY <1>1, <1>2 DEF Span
<1>4. /\ n + 1 \in WithData(Append(cs, c)) <=> c.type \in {"raw", "fill"}
      /\ \A k \in WithData(Append(cs, c)) : k = n + 1 \/ k \in WithData(cs)
      /\ \A k \in WithData(cs) : k \in 1 .. n /\ k \in WithData(Append(cs, c))
  BY <1>1 DEF WithData, n
<1> QED BY <1>3, <1>4 DEF n

(* A data chunk adds its blocks to the expansion.                          *)
LEMMA ExpandData ==
  ASSUME NEW cs \in Seq(Chunks), NEW f \in Nat, NEW c \in Chunks, c.type \in {"raw", "fill"}
  PROVE  LET W == BlocksIn(cs)[Len(cs)] * f .. (BlocksIn(cs)[Len(cs)] + c.chunk_sz) * f - 1
         IN  Expand(Append(cs, c), f)
               = [b \in DOMAIN Expand(cs, f) \cup W |->
                    IF b \in W THEN Expected(Append(cs, c), f, Len(cs) + 1, b)
                    ELSE Expand(cs, f)[b]]
<1> DEFINE ds == Append(cs, c)
           n  == Len(cs)
           W  == BlocksIn(cs)[n] * f .. (BlocksIn(cs)[n] + c.chunk_sz) * f - 1
<1>1. /\ Span(ds, f, n + 1) = W /\ n + 1 \in WithData(ds) /\ ds \in Seq(Chunks)
      /\ \A k \in WithData(ds) : k = n + 1 \/ k \in WithData(cs)
      /\ \A k \in WithData(cs) : k \in 1 .. n /\ k \in WithData(ds)
  BY LastChunk
<1>2. \A k \in 1 .. n : /\ Span(ds, f, k) = Span(cs, f, k)
                        /\ \A b : Expected(ds, f, k, b) = Expected(cs, f, k, b)
  BY PrefixStays
<1> HIDE DEF ds, n, W
<1>3. ASSUME NEW b PROVE b \in DOMAIN Expand(ds, f) <=> b \in DOMAIN Expand(cs, f) \cup W
  <2>1. ASSUME NEW k \in WithData(ds), b \in Span(ds, f, k)
        PROVE  b \in DOMAIN Expand(cs, f) \cup W
    BY <1>1, <1>2, <2>1, ExpandDomain
  <2>2. ASSUME NEW k \in WithData(cs), b \in Span(cs, f, k)
        PROVE  b \in DOMAIN Expand(ds, f)
    BY <1>1, <1>2, <2>2, ExpandDomain
  <2>3. b \in W => b \in DOMAIN Expand(ds, f)
    BY <1>1, ExpandDomain
  <2> QED BY <2>1, <2>2, <2>3, ExpandDomain
<1>4. ASSUME NEW b \in W PROVE Expand(ds, f)[b] = Expected(ds, f, n + 1, b)
  BY <1>1, ExpandAt
<1>5. ASSUME NEW b \in DOMAIN Expand(cs, f) PROVE Expand(ds, f)[b] = Expand(cs, f)[b]
  <2>1. PICK k \in WithData(cs) : b \in Span(cs, f, k)
    BY ExpandDomain
  <2>2. Expand(cs, f)[b] = Expected(cs, f, k, b)
    BY <2>1, ExpandAt
  <2>3. k \in WithData(ds) /\ b \in Span(ds, f, k)
    BY <1>1, <1>2, <2>1
  <2>4. Expand(ds, f)[b] = Expected(ds, f, k, b)
    BY <1>1, <2>3, ExpandAt
  <2> QED BY <1>1, <1>2, <2>2, <2>4
<1>6. DOMAIN Expand(ds, f) = DOMAIN Expand(cs, f) \cup W
  BY <1>3
<1>7. Expand(ds, f) = [b \in DOMAIN Expand(ds, f) |-> Expand(ds, f)[b]]
  BY DEF Expand
<1>8. Expand(ds, f)
        = [b \in DOMAIN Expand(cs, f) \cup W |->
             IF b \in W THEN Expected(ds, f, n + 1, b) ELSE Expand(cs, f)[b]]
  BY <1>4, <1>5, <1>6, <1>7
<1> QED BY <1>8 DEF ds, n, W

(* Another chunk adds nothing.                                             *)
LEMMA ExpandOther ==
  ASSUME NEW cs \in Seq(Chunks), NEW f \in Nat, NEW c \in Chunks, c.type \notin {"raw", "fill"}
  PROVE  Expand(Append(cs, c), f) = Expand(cs, f)
<1> DEFINE ds == Append(cs, c)
<1>1. /\ ds \in Seq(Chunks)
      /\ \A k \in WithData(ds) : k \in WithData(cs)
      /\ \A k \in WithData(cs) : k \in 1 .. Len(cs) /\ k \in WithData(ds)
  BY LastChunk
<1>2. \A k \in 1 .. Len(cs) : /\ Span(ds, f, k) = Span(cs, f, k)
                              /\ \A b : Expected(ds, f, k, b) = Expected(cs, f, k, b)
  BY PrefixStays
<1> HIDE DEF ds
<1>3. ASSUME NEW b PROVE b \in DOMAIN Expand(ds, f) <=> b \in DOMAIN Expand(cs, f)
  BY <1>1, <1>2, ExpandDomain
<1>4. ASSUME NEW b \in DOMAIN Expand(cs, f) PROVE Expand(ds, f)[b] = Expand(cs, f)[b]
  <2>1. PICK k \in WithData(cs) : b \in Span(cs, f, k)
    BY ExpandDomain
  <2>2. Expand(cs, f)[b] = Expected(cs, f, k, b)
    BY <2>1, ExpandAt
  <2>3. k \in WithData(ds) /\ b \in Span(ds, f, k)
    BY <1>1, <1>2, <2>1
  <2>4. Expand(ds, f)[b] = Expected(ds, f, k, b)
    BY <1>1, <2>3, ExpandAt
  <2> QED BY <1>1, <1>2, <2>2, <2>4
<1>5. DOMAIN Expand(ds, f) = DOMAIN Expand(cs, f)
  BY <1>3
<1>6. /\ Expand(ds, f) = [b \in DOMAIN Expand(ds, f) |-> Expand(ds, f)[b]]
      /\ Expand(cs, f) = [b \in DOMAIN Expand(cs, f) |-> Expand(cs, f)[b]]
  BY DEF Expand
<1>7. Expand(ds, f) = Expand(cs, f)
  BY <1>4, <1>5, <1>6
<1> QED BY <1>7 DEF ds

-----------------------------------------------------------------------------
(* While chunks are handled, the counters of HandleSparseImgFlash are the  *)
(* totals of the reference, and the device holds the expansion of what was *)
(* read so far, if that was well formed.                                   *)

AllWell == \A k \in 1 .. Len(chunks) : WellFormed(k)

Expanding ==
  pc = "chunk" =>
    /\ TotalBlocks = BlocksIn(chunks)[Len(chunks)]
    /\ AllWell => /\ Image = BytesIn(chunks)[Len(chunks)]
                  /\ disk = Expand(chunks, BlockCountFactor)

LEMMA Reference ==
  /\ BlocksBefore = BlocksIn(chunks) /\ BytesBefore = BytesIn(chunks)
  /\ Expansion = Expand(chunks, BlockCountFactor)
  /\ BlocksBefore' = BlocksIn(chunks') /\ BytesBefore' = BytesIn(chunks')
  /\ Expansion' = Expand(chunks', BlockCountFactor')
BY DEF BlocksBefore, BlocksIn, BytesBefore, BytesIn, Expansion, Expand, Expected,
       BlocksOf, Span, DataChunks, WithData

(* A chunk that is read next is well formed or not by itself.              *)
LEMMA AllWellAppend ==
  ASSUME IInv, NEW c \in Chunks, chunks' = Append(chunks, c), header' = header
  PROVE  AllWell' => /\ AllWell
                     /\ c.total_sz = ChunkHdrSz + (CASE c.type = "raw"  -> ChunkDataSz(c)
                                                     [] c.type = "fill" -> FillSz
                                                     [] OTHER           -> 0)
                     /\ c.type # "other" /\ (c.type = "crc" => c.chunk_sz = 0)
<1>1. chunks \in Seq(Chunks)
  BY DEF IInv, TypeOK
<1>2. /\ Len(chunks') = Len(chunks) + 1 /\ chunks'[Len(chunks) + 1] = c /\ Len(chunks) \in Nat
      /\ \A k \in 1 .. Len(chunks) : chunks'[k] = chunks[k]
  BY <1>1
<1> SUFFICES ASSUME AllWell'
             PROVE  /\ AllWell
                    /\ c.total_sz = ChunkHdrSz + (CASE c.type = "raw"  -> ChunkDataSz(c)
                                                    [] c.type = "fill" -> FillSz
                                                    [] OTHER           -> 0)
                    /\ c.type # "other" /\ (c.type = "crc" => c.chunk_sz = 0)
  OBVIOUS
<1>3. \A k \in 1 .. Len(chunks') : WellFormed(k)'
  BY DEF AllWell
<1>4. ASSUME NEW k \in 1 .. Len(chunks) PROVE WellFormed(k)
  <2>1. WellFormed(k)'
    BY <1>2, <1>3
  <2> QED BY <1>2, <2>1 DEF WellFormed, ChunkDataSz
<1>5. ASSUME NEW k \in Nat, k = Len(chunks) + 1
      PROVE  /\ c.total_sz = ChunkHdrSz + (CASE c.type = "raw"  -> ChunkDataSz(c)
                                              [] c.type = "fill" -> FillSz
                                              [] OTHER           -> 0)
             /\ c.type # "other" /\ (c.type = "crc" => c.chunk_sz = 0)
  <2>1. WellFormed(k)' /\ chunks'[k] = c
    BY <1>2, <1>3, <1>5
  <2> QED BY <2>1 DEF WellFormed, ChunkDataSz
<1> QED BY <1>2, <1>4, <1>5 DEF AllWell

LEMMA ExpandingHandle ==
  ASSUME IInv, Expanding, NEW c \in Chunks, HandleChunk(c)
  PROVE  Expanding'
<1> DEFINE n == Len(chunks)
           f == BlockCountFactor
<1>1. /\ AtChunk /\ HeaderFits /\ BlocksFit(c) /\ ChunkValid(c) /\ pc = "chunk"
      /\ chunks' = Append(chunks, c) /\ header' = header
      /\ disk' = Written(c, Count(c)) /\ TotalBlocks' = TotalBlocks + c.chunk_sz
      /\ Image' = Data + DataSz(c)
  BY DEF HandleChunk, AtChunk
<1>2. /\ chunks \in Seq(Chunks) /\ Len(chunks') = n + 1
      /\ TotalBlocks = BlocksIn(chunks)[n] /\ n \in Nat /\ n \in 0 .. n
  BY <1>1 DEF IInv, TypeOK, Expanding
<1>3. f \in Nat /\ f' = f /\ TotalBlocks \in Nat /\ Image \in Nat /\ c.chunk_sz \in Nat
  <2>1. f \in Nat
    BY <1>1, ChunkFits
  <2>2. TotalBlocks \in Nat /\ Image \in Nat
    BY SparseAssumption DEF IInv, TypeOK, Uint32
  <2> QED BY <1>1, <2>1, <2>2, Sizes DEF BlockCountFactor
<1>4. /\ BlocksIn(chunks')[n + 1] = TotalBlocks + c.chunk_sz
      /\ BytesIn(chunks')[n + 1] = BytesIn(chunks)[n] + c.total_sz
      /\ BlocksIn(chunks')[n] = TotalBlocks /\ BytesIn(chunks')[n] = BytesIn(chunks)[n]
  BY <1>1, <1>2, InAppend
<1>5. ASSUME AllWell'
      PROVE  Image' = BytesIn(chunks')[n + 1] /\ disk' = Expand(chunks', f)
  <2>1. /\ AllWell /\ c.type # "other" /\ (c.type = "crc" => c.chunk_sz = 0)
        /\ c.total_sz = ChunkHdrSz + (CASE c.type = "raw"  -> ChunkDataSz(c)
                                        [] c.type = "fill" -> FillSz
                                        [] OTHER           -> 0)
    BY <1>1, <1>5, AllWellAppend
  <2>2. Image = BytesIn(chunks)[n] /\ disk = Expand(chunks, f)
    BY <1>1, <2>1 DEF Expanding
  <2>3. c.total_sz = ChunkHdrSz + DataSz(c)
    <3>1. c.type = "crc" => DataSz(c) = 0
      <4> SUFFICES ASSUME c.type = "crc" PROVE ChunkDataSz(c) % (MaxUint32 + 1) = 0
        BY DEF DataSz
      <4>1. header.blk_sz \in Nat
        BY <1>1, ChunkFits, SparseAssumption DEF Header, Uint32
      <4>2. ChunkDataSz(c) = 0
        BY <2>1, <4>1 DEF ChunkDataSz
      <4> QED BY <4>2, SparseAssumption
    <3> QED BY <2>1, <3>1 DEF DataSz
  <2>4. Image' = BytesIn(chunks')[n + 1]
    <3>1. DataSz(c) \in Nat /\ ChunkHdrSz \in Nat
      BY <1>1, ChunkFits, Sizes
    <3> QED BY <1>1, <1>3, <1>4, <2>2, <2>3, <3>1 DEF Data
  <2>5. CASE c.type \in {"raw", "fill"}
    <3> DEFINE W == TotalBlocks * f .. (TotalBlocks + c.chunk_sz) * f - 1
               V == First .. First + Count(c) - 1
    <3>1. V = W
      <4>1. First = TotalBlocks * f /\ Count(c) = c.chunk_sz * f
        BY <2>5 DEF First, Count
      <4>2. TotalBlocks * f + c.chunk_sz * f = (TotalBlocks + c.chunk_sz) * f
        BY <1>3
      <4>3. First + Count(c) = (TotalBlocks + c.chunk_sz) * f
        BY <4>1, <4>2
      <4>4. First \in Nat /\ Count(c) \in Nat
        BY <1>1, ChunkFits
      <4>5. First + Count(c) - 1 = (TotalBlocks + c.chunk_sz) * f - 1
        <5> DEFINE x == (TotalBlocks + c.chunk_sz) * f
        <5> HIDE DEF x
        <5> QED BY <4>3, <4>4 DEF x
      <4> HIDE DEF f
      <4> QED BY <4>1, <4>5, Zenon
    <3>2. disk' = [b \in DOMAIN disk \cup W |-> IF b \in W THEN Content(c, b) ELSE disk[b]]
      <4>1. disk' = [b \in DOMAIN disk \cup V |-> IF b \in V THEN Content(c, b) ELSE disk[b]]
        BY <1>1 DEF Written
      <4> HIDE DEF V, W
      <4> QED BY <3>1, <4>1
    <3>3. Expand(chunks', f)
            = [b \in DOMAIN Expand(chunks, f) \cup W |->
                 IF b \in W THEN Expected(chunks', f, n + 1, b) ELSE Expand(chunks, f)[b]]
      <4>1. LET X == BlocksIn(chunks)[n] * f .. (BlocksIn(chunks)[n] + c.chunk_sz) * f - 1
            IN  Expand(Append(chunks, c), f)
                  = [b \in DOMAIN Expand(chunks, f) \cup X |->
                       IF b \in X THEN Expected(Append(chunks, c), f, n + 1, b)
                       ELSE Expand(chunks, f)[b]]
        BY <1>2, <1>3, <2>5, ExpandData
      <4> HIDE DEF f, n
      <4> QED BY <1>1, <1>2, <4>1
    <3>4. \A b : Expected(chunks', f, n + 1, b) = Content(c, b)
      <4>1. chunks'[n + 1] = c /\ (n + 1) - 1 = n
        BY <1>1, <1>2
      <4>2. First = TotalBlocks * f /\ Data = Image + ChunkHdrSz
        BY DEF First, Data
      <4> HIDE DEF n, f
      <4> QED BY <1>4, <2>2, <4>1, <4>2 DEF Expected, Content
    <3> HIDE DEF W, f, n
    <3>5. disk' = Expand(chunks', f)
      BY <2>2, <3>2, <3>3, <3>4
    <3> QED BY <2>4, <3>5
  <2>6. CASE c.type \notin {"raw", "fill"}
    <3>1. Expand(chunks', f) = Expand(chunks, f)
      BY <1>1, <1>2, <1>3, <2>6, ExpandOther
    <3>2. Count(c) = 0 /\ First \in Nat
      BY <1>1, <2>6, ChunkFits DEF Count
    <3>3. First .. First + Count(c) - 1 = {}
      BY <3>2
    <3>4. disk' = [b \in DOMAIN disk |-> disk[b]]
      BY <1>1, <3>3 DEF Written
    <3>5. disk = [b \in DOMAIN disk |-> disk[b]]
      BY <2>2 DEF Expand
    <3> QED BY <2>2, <2>4, <3>1, <3>4, <3>5
  <2> QED BY <2>5, <2>6
<1> QED BY <1>1, <1>2, <1>3, <1>4, <1>5 DEF Expanding

(* Blocks that the header announces have room in the partition.            *)
LEMMA AnnouncedFit ==
  ASSUME NEW t \in Nat, NEW n \in Nat, NEW s \in Nat, NEW size \in Nat, n * s <= size
  PROVE  /\ t <= n => t * s <= size
         /\ t < n /\ s # 0 => t * s < size
<1>1. t * s \in Nat /\ n * s \in Nat /\ (t + 1) * s = t * s + s
  OBVIOUS
<1>2. ASSUME t <= n PROVE t * s <= size
  BY <1>1, <1>2, MulMono
<1>3. ASSUME t < n, s # 0 PROVE t * s < size
  <2>1. t + 1 <= n /\ t + 1 \in Nat
    BY <1>3
  <2>2. (t + 1) * s <= n * s
    BY <2>1, MulMono
  <2> QED BY <1>1, <1>3, <2>2
<1> QED BY <1>2, <1>3

(* Each way in which a well formed image could be refused contradicts what *)
(* the counters say.                                                       *)
LEMMA AcceptsChunk ==
  ASSUME IInv, Expanding, NEW c \in Chunks, RefuseChunk(c)
  PROVE  Accepts'
<1> DEFINE n == Len(chunks)
<1> SUFFICES ASSUME header'.chunk_hdr_sz = ChunkHdrSz, Status' # "SUCCESS",
                    \A k \in 1 .. Len(chunks') : WellFormed(k)' /\ chunks'[k].chunk_sz > 0,
                    BytesIn(chunks')[Len(chunks')] <= header'.sz,
                    BlocksIn(chunks')[Len(chunks')] <= header'.total_blks
             PROVE  FALSE
  <2>1. chunks' \in Seq(Chunks)
    BY DEF RefuseChunk, IInv, TypeOK
  <2>2. header' \in Header /\ header'.total_blks \in Nat
    BY SparseAssumption DEF RefuseChunk, IInv, InProgress, AtChunk, Header, Uint32
  <2>3. Len(chunks') \in 0 .. Len(chunks') /\ BlocksIn(chunks')[Len(chunks')] \in Nat
    BY <2>1, InFacts
  <2> QED BY <2>2, <2>3, Reference DEF Accepts
<1>1. /\ AtChunk /\ HeaderFits /\ chunks' = Append(chunks, c) /\ header' = header
      /\ pc = "chunk" /\ header.chunk_hdr_sz = ChunkHdrSz
      /\ ~(BlocksFit(c) /\ ChunkValid(c))
  BY DEF RefuseChunk, AtChunk
<1>2. /\ chunks \in Seq(Chunks) /\ Len(chunks') = n + 1
      /\ TotalBlocks = BlocksIn(chunks)[n] /\ n \in Nat /\ n \in 0 .. n
  BY <1>1 DEF IInv, TypeOK, Expanding
<1>3. /\ header.blk_sz \in Nat /\ header.total_blks \in Nat /\ HeaderValid(header)
      /\ TotalBlocks \in Nat /\ Image \in Nat /\ c.chunk_sz \in Nat /\ header.sz \in Nat
      /\ PartitionSize \in Nat
  BY <1>1, SparseAssumption, Sizes DEF IInv, TypeOK, InProgress, Header, Uint32, PartitionSize
<1>4. /\ BlocksIn(chunks')[n + 1] = TotalBlocks + c.chunk_sz
      /\ BytesIn(chunks')[n + 1] = BytesIn(chunks)[n] + c.total_sz
  BY <1>1, <1>2, InAppend
<1>5. AllWell'
  BY DEF AllWell
<1>6. /\ AllWell /\ c.type # "other" /\ (c.type = "crc" => c.chunk_sz = 0)
      /\ c.total_sz = ChunkHdrSz + (CASE c.type = "raw"  -> ChunkDataSz(c)
                                      [] c.type = "fill" -> FillSz
                                      [] OTHER           -> 0)
  BY <1>1, <1>5, AllWellAppend
<1>7. Image = BytesIn(chunks)[n]
  BY <1>1, <1>6 DEF Expanding
<1>8. BlocksFit(c)
  <2>1. TotalBlocks + c.chunk_sz <= header.total_blks
    BY <1>1, <1>2, <1>4
  <2>2. header.total_blks * header.blk_sz <= PartitionSize
    BY <1>3 DEF HeaderValid
  <2>3. (TotalBlocks + c.chunk_sz) * header.blk_sz
          = TotalBlocks * header.blk_sz + header.blk_sz * c.chunk_sz
    BY <1>3
  <2>4. TotalBlocks + c.chunk_sz \in Nat
    BY <1>3
  <2> HIDE DEF n
  <2>6. (TotalBlocks + c.chunk_sz) * header.blk_sz <= PartitionSize
    BY <1>3, <2>1, <2>2, <2>4, AnnouncedFit
  <2> QED BY <2>3, <2>6 DEF BlocksFit, ChunkDataSz
<1>9. ChunkValid(c)
  <2>1. ASSUME NEW k \in Nat, k = n + 1 PROVE c.chunk_sz > 0
    BY <1>1, <1>2, <2>1
  <2>2. c.type # "crc"
    BY <1>2, <1>3, <1>6, <2>1
  <2>3. Image + c.total_sz <= header.sz
    BY <1>1, <1>2, <1>4, <1>7
  <2>4. ChunkDataSz(c) \in Nat /\ ChunkHdrSz \in Nat /\ FillSz \in Nat
    BY <1>3, Sizes DEF ChunkDataSz
  <2>5. c.total_sz = ChunkHdrSz + DataSz(c)
    BY <1>6, <2>2 DEF DataSz
  <2>6. DataSz(c) \in Nat
    BY <2>2, <2>4 DEF DataSz
  <2>7. Data + DataSz(c) <= header.sz
    BY <1>3, <2>3, <2>4, <2>5, <2>6 DEF Data
  <2> QED BY <1>1, <1>6, <2>2, <2>7 DEF ChunkValid
<1> QED BY <1>1, <1>8, <1>9

LEMMA AcceptsNoChunk ==
  ASSUME IInv, Expanding, NoChunk
  PROVE  Accepts'
<1> DEFINE n == Len(chunks)
<1>1. /\ pc = "chunk" /\ n < header.total_chunks /\ ~HeaderFits
      /\ chunks' = chunks /\ header' = header
  BY DEF NoChunk, AtChunk
<1>2. chunks \in Seq(Chunks) /\ TotalBlocks = BlocksIn(chunks)[n] /\ n \in Nat /\ n \in 0 .. n
  BY <1>1 DEF IInv, TypeOK, Expanding
<1>3. /\ header.blk_sz \in Nat /\ header.total_blks \in Nat /\ HeaderValid(header)
      /\ TotalBlocks \in Nat /\ Image \in Nat /\ header.sz \in Nat
      /\ PartitionSize \in Nat /\ header.total_chunks \in Nat
  BY <1>1, SparseAssumption DEF IInv, TypeOK, InProgress, Header, Uint32, PartitionSize
<1> SUFFICES ASSUME \A k \in 1 .. n : WellFormed(k)',
                    BlocksIn(chunks)[n] < header.total_blks,
                    BytesIn(chunks)[n] + ChunkHdrSz <= header.sz
             PROVE  FALSE
  BY <1>1, <1>2, <1>3, Reference DEF Accepts
<1>4. AllWell
  BY <1>1 DEF AllWell, WellFormed, ChunkDataSz
<1>5. Image = BytesIn(chunks)[n]
  BY <1>1, <1>4 DEF Expanding
<1>6. TotalBlocks * header.blk_sz < PartitionSize
  <2>1. header.total_blks * header.blk_sz <= PartitionSize /\ header.blk_sz # 0
    BY <1>3 DEF HeaderValid
  <2>2. TotalBlocks < header.total_blks
    BY <1>2
  <2> QED BY <1>3, <2>1, <2>2, AnnouncedFit
<1> QED BY <1>1, <1>5, <1>6 DEF HeaderFits, Data

LEMMA AcceptsFinish ==
  ASSUME IInv, Expanding, Finish
  PROVE  Accepts'
<1>1. /\ pc = "chunk" /\ Len(chunks) = header.total_chunks
      /\ chunks' = chunks /\ header' = header
      /\ TotalBlocks = BlocksIn(chunks)[Len(chunks)]
  BY DEF Finish, Expanding
<1>2. Complete => Status' = "SUCCESS" \/ failed'
  BY DEF Finish, Return
<1> QED BY <1>1, <1>2, Reference DEF Accepts, Complete

Both == IInv /\ Expanding /\ Exact /\ Accepts

LEMMA BothNext == Both /\ [Next]_vars => Both'
<1> SUFFICES ASSUME Both, [Next]_vars PROVE Both'
  OBVIOUS
<1> USE DEF Both
<1>1. IInv'
  BY NextIInv
<1>2. CASE Flash
  <2>1. /\ chunks' = <<>> /\ Len(chunks') = 0 /\ disk' = <<>> /\ TotalBlocks' = 0
        /\ Image' = HeaderSz /\ chunks' \in Seq(Chunks)
        /\ (pc' = "done" => Status' = "ERROR")
    BY <1>2 DEF Flash, Return
  <2>2. BlocksIn(chunks')[0] = 0 /\ BytesIn(chunks')[0] = HeaderSz
    BY <2>1, InFacts
  <2>3. Expand(chunks', BlockCountFactor') = <<>>
    <3>1. WithData(chunks') = {}
      BY <2>1 DEF WithData
    <3>2. DOMAIN Expand(chunks', BlockCountFactor') = {}
      BY <3>1 DEF Expand
    <3>3. Expand(chunks', BlockCountFactor')
            = [b \in DOMAIN Expand(chunks', BlockCountFactor') |->
                 Expand(chunks', BlockCountFactor')[b]]
      BY DEF Expand
    <3> QED BY <3>2, <3>3
  <2>4. Expanding'
    BY <2>1, <2>2, <2>3 DEF Expanding
  <2> QED BY <1>1, <2>1, <2>4 DEF Exact, Accepts
<1>3. CASE NoChunk
  <2>1. pc' = "done" /\ Status' = "ERROR"
    BY <1>3 DEF NoChunk, Return
  <2> QED BY <1>1, <1>3, <2>1, AcceptsNoChunk DEF Expanding, Exact
<1>4. CASE Finish
  <2>1. pc' = "done"
    BY <1>4 DEF Finish, Return
  <2>2. Exact'
    <3> SUFFICES ASSUME Status' = "SUCCESS", \A k \in 1 .. Len(chunks') : WellFormed(k)'
                 PROVE  /\ disk' = Expand(chunks', BlockCountFactor')
                        /\ Len(chunks') = header'.total_chunks
                        /\ BlocksIn(chunks')[Len(chunks')] = header'.total_blks
      BY Reference DEF Exact
    <3>1. /\ pc = "chunk" /\ Len(chunks) = header.total_chunks /\ Complete
          /\ header' = header /\ chunks' = chunks /\ disk' = disk
      BY <1>4 DEF Finish, Return
    <3>2. AllWell
      BY <3>1 DEF AllWell, WellFormed, ChunkDataSz
    <3> QED BY <3>1, <3>2 DEF Expanding, Complete, BlockCountFactor
  <2> QED BY <1>1, <1>4, <2>1, <2>2, AcceptsFinish DEF Expanding
<1>5. CASE Answer
  BY <1>1, <1>5 DEF Answer, Expanding, Exact, Accepts
<1>6. ASSUME NEW c \in Chunks, HandleChunk(c) PROVE Both'
  <2>1. pc' = "chunk"
    BY <1>6 DEF HandleChunk, AtChunk
  <2> QED BY <1>1, <1>6, <2>1, ExpandingHandle DEF Exact, Accepts
<1>7. ASSUME NEW c \in Chunks, RefuseChunk(c) PROVE Both'
  <2>1. pc' = "done" /\ Status' = "ERROR"
    BY <1>7 DEF RefuseChunk, Return
  <2> QED BY <1>1, <1>7, <2>1, AcceptsChunk DEF Expanding, Exact
<1>8. ASSUME NEW c \in Chunks, WriteFails(c) PROVE Both'
  <2>1. pc' = "done" /\ Status' = "ERROR" /\ failed'
    BY <1>8 DEF WriteFails, Return
  <2> QED BY <1>1, <2>1 DEF Expanding, Exact, Accepts
<1>9. CASE UNCHANGED vars
  <2>1. /\ pc' = pc /\ header' = header /\ Image' = Image /\ TotalBlocks' = TotalBlocks
        /\ chunks' = chunks /\ disk' = disk /\ Status' = Status /\ failed' = failed
    BY <1>9 DEF vars
  <2>2. \A k : WellFormed(k)' <=> WellFormed(k)
    BY <2>1 DEF WellFormed, ChunkDataSz
  <2>3. BlockCountFactor' = BlockCountFactor
    BY <2>1 DEF BlockCountFactor
  <2>4. Expanding'
    BY <2>1, <2>2, <2>3 DEF Expanding, AllWell
  <2>5. Exact'
    BY <2>1, <2>2, <2>3, Reference DEF Exact
  <2>6. Accepts'
    BY <2>1, <2>2, Reference DEF Accepts, HeaderValid
  <2> QED BY <1>1, <2>4, <2>5, <2>6
<1> QED BY <1>2, <1>3, <1>4, <1>5, <1>6, <1>7, <1>8, <1>9 DEF Next

LEMMA BothInvariant == Spec => []Both
<1>1. Init => Both
  BY InitIInv DEF Init, Both, Expanding, Exact, Accepts
<1> QED BY <1>1, BothNext, PTL DEF Spec

(* An image of well formed chunks that is reported as flashed is on the    *)
(* device block for block, for any number of chunks of any size.           *)
THEOREM FlashedExactly == Spec => []Exact
<1>1. Both => Exact
  BY DEF Both
<1> QED BY <1>1, BothInvariant, PTL

(* No well formed image that fits the partition and the buffer is refused, *)
(* unless the device fails.                                                *)
THEOREM FittingAccepted == Spec => []Accepts
<1>1. Both => Accepts
  BY DEF Both
<1> QED BY <1>1, BothInvariant, PTL

=============================================================================
