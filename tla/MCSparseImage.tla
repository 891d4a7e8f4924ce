--------------------------- MODULE MCSparseImage ----------------------------
(***************************************************************************)
(* A partition of four blocks of two bytes; block sizes that are not a     *)
(* multiple, equal to and twice the device's; sizes that are right or not. *)
(***************************************************************************)
EXTENDS SparseImage

MCHeaders ==
  [sz : 0 .. 10, file_hdr_sz : {HeaderSz}, chunk_hdr_sz : {ChunkHdrSz},
   blk_sz : {2, 4}, total_blks : 1 .. 5, total_chunks : 0 .. 3]
  \cup
  [sz : {5}, file_hdr_sz : 0 .. 2, chunk_hdr_sz : 0 .. 2, blk_sz : {0, 1, 2},
   total_blks : {1}, total_chunks : {1}]

MCChunks ==
  [type : {"raw", "fill", "skip", "crc", "other"}, chunk_sz : {0, 1, 2, 4},
   total_sz : {1, 2, 3, 5}]

=============================================================================
