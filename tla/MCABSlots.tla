------------------------------ MODULE MCABSlots ------------------------------
(***************************************************************************)
(* Two LUNs: one with an unslotted and a slotted partition, one with the   *)
(* boot loader and the kernel of both slots.                               *)
(***************************************************************************)
EXTENDS ABSlots

Layout == << [base |-> "misc", slot |-> NoSlot, lun |-> 0],
             [base |-> "dtbo", slot |-> "_a", lun |-> 0],
             [base |-> "dtbo", slot |-> "_b", lun |-> 0],
             [base |-> "abl",  slot |-> "_a", lun |-> 1],
             [base |-> "boot", slot |-> "_a", lun |-> 1],
             [base |-> "abl",  slot |-> "_b", lun |-> 1],
             [base |-> "boot", slot |-> "_b", lun |-> 1] >>

MCPartitionCount == Len(Layout)
MCBase   == [p \in 1 .. Len(Layout) |-> Layout[p].base]
MCSlotOf == [p \in 1 .. Len(Layout) |-> Layout[p].slot]
MCLunOf  == [p \in 1 .. Len(Layout) |-> Layout[p].lun]

(* One LUN, with the pairs inside one another.                             *)
Nested == << [base |-> "abl",  slot |-> "_b"], [base |-> "boot", slot |-> "_a"],
             [base |-> "boot", slot |-> "_b"], [base |-> "abl",  slot |-> "_a"] >>

NestedBase   == [p \in 1 .. 4 |-> Nested[p].base]
NestedSlotOf == [p \in 1 .. 4 |-> Nested[p].slot]
NestedLunOf  == [p \in 1 .. 4 |-> 0]

(* Constraint: a failed access or a menu callback, not one after the other. *)
OneKind == faults = 0 \/ preempts = 0

=============================================================================
