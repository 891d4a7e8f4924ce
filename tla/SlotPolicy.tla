----------------------------- MODULE SlotPolicy -----------------------------
(***************************************************************************)
(* What the A/B slot code promises: the attributes of the two boot         *)
(* partitions, in the table the next boot will read, change only by whole  *)
(* policy steps, and a kernel runs only from the slot they name.  ABSlots, *)
(* where each step is a series of writes to two copies of several tables   *)
(* that power loss may cut short, implements this module; VerifiedBoot is  *)
(* built on it.                                                            *)
(***************************************************************************)
EXTENDS Naturals

CONSTANT MaxRetry   \* MAX_RETRY_COUNT

VARIABLES
  attr,     \* attributes of boot_a and boot_b
  running,  \* the slot whose kernel runs, or NoSlot
  trusted   \* the table on flash is one that the boot loader wrote

Slot   == {"_a", "_b"}
NoSlot == "none"
Alt(s) == IF s = "_a" THEN "_b" ELSE "_a"

Attr == [prio : 0 .. 3, active : BOOLEAN, retry : 0 .. MaxRetry,
         succ : BOOLEAN, unboot : BOOLEAN]

NoAttr == [prio |-> 0, active |-> FALSE, retry |-> 0,
           succ |-> FALSE, unboot |-> FALSE]

(* GetActiveSlot: the active slot of higher priority.                      *)
ActiveSlot(a) ==
  IF \E s \in Slot : a[s].active /\ a[s].prio > 0
  THEN CHOOSE s \in Slot :
         /\ a[s].active /\ a[s].prio > 0
         /\ \A t \in Slot \ {s} : a[t].active => a[t].prio < a[s].prio
                                    \/ (a[t].prio = a[s].prio /\ s = "_a")
  ELSE NoSlot

Bootable(a, s) == ~a[s].unboot /\ a[s].succ

(* Neither successful nor unbootable yet, with attempts left.              *)
OnTrial(a, s) == ~a[s].unboot /\ ~a[s].succ /\ a[s].retry > 0

-----------------------------------------------------------------------------
(* What each policy step makes of the attributes.                          *)

FirstBoot(a) ==
  [a EXCEPT !["_a"] = [prio |-> 3, active |-> TRUE, retry |-> MaxRetry,
                       succ |-> FALSE, unboot |-> FALSE]]

Paid(a, s)     == [a EXCEPT ![s].retry = @ - 1]
GivenUp(a, s)  == [a EXCEPT ![s].unboot = TRUE]
Pardoned(a, s) == [a EXCEPT ![s].unboot = FALSE]

(* Flashed or erased: a new trial.                                         *)
Renewed(a, s) ==
  [a EXCEPT ![s].prio = 3, ![s].retry = MaxRetry, ![s].succ = FALSE,
            ![s].unboot = FALSE]

(* SetActiveSlot; resetSuccess on the user's demand only.                  *)
Switched(a, s, resetSuccess) ==
  [a EXCEPT ![s] = [prio |-> 3, active |-> TRUE, retry |-> MaxRetry,
                    succ |-> @.succ /\ ~resetSuccess, unboot |-> FALSE],
            ![Alt(s)].prio = 2, ![Alt(s)].active = FALSE]

Succeeded(a, s) == [a EXCEPT ![s].succ = TRUE]

Pristine(a) ==
  ActiveSlot(a) = NoSlot /\ a["_a"].prio = 0 /\ ~a["_a"].succ /\ ~a["_a"].unboot

-----------------------------------------------------------------------------
BootLoaderStep ==
  /\ running = NoSlot /\ UNCHANGED running
  /\ LET s == ActiveSlot(attr)
     IN  \/ Pristine(attr) /\ attr' = FirstBoot(attr)
         \/ /\ s # NoSlot
            /\ \/ OnTrial(attr, s) /\ attr' = Paid(attr, s)
               \/ attr' \in {GivenUp(attr, s), Pardoned(attr, s)}
               \/ \E n \in Slot, r \in BOOLEAN : attr' = Switched(attr, n, r)
         \/ \E n \in Slot : attr' = Renewed(attr, n)

Launch ==
  /\ running = NoSlot /\ running' = ActiveSlot(attr)
  /\ running' # NoSlot /\ ~attr[running'].unboot
  /\ UNCHANGED attr

(* Outside the boot loader.                                                *)
MarkSuccessful ==
  /\ running # NoSlot /\ attr' = Succeeded(attr, running)
  /\ UNCHANGED running

Stop == running' = NoSlot /\ UNCHANGED attr

(* A damaged table was replaced by its backup, or a write failed unseen:   *)
(* nothing is promised from here on.                                       *)
Lose ==
  /\ ~trusted'
  /\ attr' \in [Slot -> Attr] /\ running' \in Slot \cup {NoSlot}

Init ==
  attr = [s \in Slot |-> NoAttr] /\ running = NoSlot /\ trusted = TRUE

Next ==
  \/ /\ trusted /\ trusted'
     /\ BootLoaderStep \/ Launch \/ MarkSuccessful \/ Stop
  \/ Lose

Spec == Init /\ [][Next]_<<attr, running, trusted>>

=============================================================================
