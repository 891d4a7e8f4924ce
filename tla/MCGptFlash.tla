----------------------------- MODULE MCGptFlash -----------------------------
(***************************************************************************)
(* A LUN of nine blocks with room for two partitions, one block each; two  *)
(* sound images, and one for every way in which an image may be off.       *)
(***************************************************************************)
EXTENDS GptFlash

P(n, f, l) == [kind |-> "entry", id |-> n, first |-> f, last |-> l, attr |-> 0]

H == [kind |-> "header", size |-> 92, crc |-> 92, my |-> 1, alt |-> 0,
      first |-> 4, last |-> 0, entries |-> 2, cnt |-> 2, acrc |-> <<>>]

Good ==
  [type |-> "gpt", blocks |-> 7, prim |-> H, sec |-> H,
   parts |-> <<P("boot", 4, 4), P("data", 5, 5)>>,
   parts2 |-> <<P("boot", 4, 4), P("data", 5, 5)>>]

MCImages ==
  { Good,
    [Good EXCEPT !.parts = <<P("data", 4, 4), Zero>>,
                 !.parts2 = <<P("data", 4, 4), Zero>>],
    [Good EXCEPT !.parts = <<P("data", 5, 5), P("boot", 4, 4)>>],
    [Good EXCEPT !.parts = <<Zero, Zero>>],
    [Good EXCEPT !.prim.size = 93, !.prim.crc = 93],
    [Good EXCEPT !.prim.entries = 8],
    [Good EXCEPT !.prim.cnt = 1],
    [Good EXCEPT !.sec.cnt = 3],
    [Good EXCEPT !.prim.crc = 0],
    [Good EXCEPT !.sec = Zero],
    [Good EXCEPT !.blocks = 6],
    [Good EXCEPT !.type = "mbr"] }

=============================================================================
