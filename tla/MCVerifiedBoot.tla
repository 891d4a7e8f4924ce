--------------------------- MODULE MCVerifiedBoot ---------------------------
(***************************************************************************)
(* Two systems of the device maker with different rollback indexes, a      *)
(* damaged copy of the newer one, and a user's own with verification       *)
(* disabled.                                                               *)
(***************************************************************************)
EXTENDS VerifiedBoot

Maker == [key |-> OemKey, index |-> 0, os |-> "os1", parsed |-> TRUE,
          intact |-> TRUE, off |-> FALSE]

MCImages ==
  { Maker,
    [Maker EXCEPT !.index = 1, !.os = "os2"],
    [Maker EXCEPT !.index = 1, !.os = "os2", !.intact = FALSE],
    [Maker EXCEPT !.key = "user", !.off = TRUE] }

=============================================================================
