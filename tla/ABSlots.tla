------------------------------- MODULE ABSlots -------------------------------
(***************************************************************************)
(* The A/B slot state machine of the boot loader:                          *)
(* src/QcomModulePkg/Library/BootLib/PartitionTableUpdate.c, with its      *)
(* callers in LinuxLoader.c, VerifiedBoot.c, FastbootCmds.c and            *)
(* MenuKeysDetection.c, on a UFS device.                                   *)
(*                                                                         *)
(* Which slot the device boots is spread over three pieces of persistent   *)
(* state: attribute bits in the GPT entries of the boot partitions, the    *)
(* type GUIDs of every slotted partition (the inactive slot's partitions   *)
(* share one GUID) and the UFS boot LUN.  Each GPT is kept twice.  The     *)
(* module follows the code from one disk write to the next, so a power     *)
(* loss, a failed block access or the menu's timer callback may come       *)
(* between any two of them.                                                *)
(***************************************************************************)
EXTENDS Integers, Sequences

CONSTANTS
  PartitionCount, \* entries of PtnEntries
  MaxLuns,        \* LUNs with a partition table
  Base,           \* partition name without its slot suffix, by index
  SlotOf,         \* slot suffix, or NoSlot, by index
  LunOf,          \* LUN of the partition, by index
  MaxRetry,       \* MAX_RETRY_COUNT
  UserBuild,      \* TargetBuildVariantUser ()
  MaxCrashes,     \* bound: power losses
  MaxFaults,      \* bound: block accesses and boot LUN switches that fail
  MaxPreempts     \* bound: menu selections that interrupt a command

Slot   == {"_a", "_b"}
NoSlot == "none"
Ptn    == 1 .. PartitionCount
Luns   == 0 .. MaxLuns - 1
Copy   == {"primary", "backup"}

Alt(s)   == IF s = "_a" THEN "_b" ELSE "_a"
Other(c) == IF c = "primary" THEN "backup" ELSE "primary"

(* The GUID that every partition of the inactive slot carries.             *)
Inactive == "inactive"
Guid     == {Base[p] : p \in Ptn} \cup {Inactive}

Slotted == {p \in Ptn : SlotOf[p] \in Slot}
IsPtn(p, b, s) == p \in Ptn /\ Base[p] = b /\ SlotOf[p] = s

ASSUME BoundsAssumption ==
  /\ PartitionCount \in Nat /\ MaxLuns \in Nat \ {0}
  /\ MaxRetry \in Nat \ {0} /\ UserBuild \in BOOLEAN
  /\ MaxCrashes \in Nat /\ MaxFaults \in Nat /\ MaxPreempts \in Nat

(* PtnEntries is filled LUN after LUN; every slotted partition has its     *)
(* twin; boot and abl exist in both slots, the four of them in one LUN.    *)
ASSUME TableAssumption ==
  /\ Base \in [Ptn -> STRING] /\ \A p \in Ptn : Base[p] # Inactive
  /\ SlotOf \in [Ptn -> Slot \cup {NoSlot}]
  /\ LunOf \in [Ptn -> Luns]
  /\ \A p, q \in Ptn : p < q => LunOf[p] <= LunOf[q]
  /\ \A p, q \in Ptn : Base[p] = Base[q] /\ SlotOf[p] = SlotOf[q] => p = q
  /\ \A p \in Slotted : \E q \in Ptn : IsPtn(q, Base[p], Alt(SlotOf[p]))
  /\ \E l \in Luns : \A b \in {"boot", "abl"}, s \in Slot :
        \E p \in Ptn : IsPtn(p, b, s) /\ LunOf[p] = l

BootPtns == [s \in Slot |-> CHOOSE p \in Ptn : IsPtn(p, "boot", s)]
AblPtns  == [s \in Slot |-> CHOOSE p \in Ptn : IsPtn(p, "abl", s)]
Twins    ==
  [p \in Slotted |-> CHOOSE q \in Ptn : IsPtn(q, Base[p], Alt(SlotOf[p]))]

BootPtn(s) == BootPtns[s]
AblPtn(s)  == AblPtns[s]
Twin(p)    == Twins[p]

Attr  == [prio : 0 .. 3, active : BOOLEAN, retry : 0 .. MaxRetry,
          succ : BOOLEAN, unboot : BOOLEAN]
Entry == [guid : Guid, attr : Attr]
Table == [Ptn -> Entry]

VARIABLES
  disk,      \* the two copies of the partition tables on flash
  valid,     \* per copy and LUN: the CRCs of that GPT are right
  bootLun,   \* the UFS boot LUN: 1 boots slot _a, 2 slot _b
  lunSet,    \* ghost: "flash partition" was the last to set it
  mem,       \* PtnEntries
  bak,       \* PtnEntriesBak
  FirstBoot,
  pc,        \* where the boot loader is
  mask, lun, iter, ret, \* UpdatePartitionAttributes: argument, loops, return
  slot,      \* BootableSlot / ActiveSlot / NewSlot of the running operation
  same,      \* SetActiveSlot: CurrentSlot = NewSlot
  tail,      \* what follows SetActiveSlot or HandleActiveSlotUnbootable
  force,     \* ForceBootAlternateSlot
  how,       \* who called LoadImageAndAuth: "auto", "continue" or "boot"
  counted,   \* this boot attempt pays with the retry count
  fb,        \* fastboot: "no", "reason" (BootIntoFastboot) or "fallen"
  attempts,  \* ghost: kernels launched from a slot since its last refill
  crashes, faults, preempts, \* ghosts: what the environment has done so far
  restored,  \* ghost: a primary table was replaced by its backup
  skewed,    \* ghost: the last power loss left attributes and GUIDs at odds
  caught     \* ghost: a callback came between two exchanges of SwitchPtnSlots

flash == <<disk, valid, bootLun, lunSet>>
upa   == <<mask, lun, iter, ret>>
op    == <<slot, same, tail, force, how, counted>>
ghost == <<crashes, faults, preempts, restored, skewed, caught>>
vars  == <<flash, mem, bak, FirstBoot, pc, upa, op, fb, attempts, ghost>>

-----------------------------------------------------------------------------
(* Reading and rewriting the table.                                        *)

NoAttr == [prio |-> 0, active |-> FALSE, retry |-> 0,
           succ |-> FALSE, unboot |-> FALSE]

BootAttr(t, s) == t[BootPtn(s)].attr

(* What the search over {_a, _b} in GetActiveSlot leaves in ActiveSlot.    *)
ActiveSlot(t) ==
  LET prio(s) == IF BootAttr(t, s).active THEN BootAttr(t, s).prio ELSE 0
  IN  IF prio("_b") > prio("_a") THEN "_b"
      ELSE IF prio("_a") > 0 THEN "_a" ELSE NoSlot

(* The bits of slot _a that GetActiveSlot takes for a first boot.          *)
Pristine(t) ==
  LET a == BootAttr(t, "_a")
  IN  ~a.active /\ ~a.succ /\ ~a.unboot /\ a.prio = 0

SetBoot(t, s, a) == [t EXCEPT ![BootPtn(s)].attr = a]

FirstBootAttr(a) ==
  [a EXCEPT !.succ = FALSE, !.unboot = FALSE, !.prio = 3, !.active = TRUE,
            !.retry = MaxRetry]

(* Mutant: the active bit is not set.                                      *)
NewSlotAttr_NotActive(a, resetSuccess) ==
  [a EXCEPT !.prio = 3, !.retry = MaxRetry,
            !.unboot = FALSE, !.succ = a.succ /\ ~resetSuccess]

NewSlotAttr(a, resetSuccess) ==
  [a EXCEPT !.prio = 3, !.active = TRUE, !.retry = MaxRetry,
            !.unboot = FALSE, !.succ = a.succ /\ ~resetSuccess]

(* Mutants: MAX_PRIORITY + 1; the bits of the alternate slot left alone.   *)
AlternateAttr_OffByOne(a) == [a EXCEPT !.prio = 4, !.active = FALSE]
AlternateAttr_Kept(a) == a

AlternateAttr(a) == [a EXCEPT !.prio = 2, !.active = FALSE]

FlashedAttr(a) ==
  [a EXCEPT !.succ = FALSE, !.unboot = FALSE, !.prio = 3, !.retry = MaxRetry]

(* Mutants: UNBOOTABLE | SUCCESSFUL; the bit is not set.                   *)
UnbootableAttr_Both(a) == [a EXCEPT !.unboot = TRUE, !.succ = TRUE]
UnbootableAttr_Skipped(a) == a

(* |= UNBOOTABLE & ~SUCCESSFUL: the successful bit is left as it is.       *)
UnbootableAttr(a) == [a EXCEPT !.unboot = TRUE]

(* RetryCount-- in FindBootableSlot.  Mutant: it is left as it is.         *)
RetryTaken_Not(a) == a

RetryTaken(a) == [a EXCEPT !.retry = @ - 1]

SlotActivated(t, s, resetSuccess) ==
  SetBoot(SetBoot(t, s, NewSlotAttr(BootAttr(t, s), resetSuccess)),
          Alt(s), AlternateAttr(BootAttr(t, Alt(s))))

(* MarkPtnActive, before it writes the table.                              *)
MarkPtnActive(t, s) ==
  [p \in Ptn |-> [t[p] EXCEPT !.attr.active = (SlotOf[p] = s)]]

(* The GUID exchange of SwitchPtnSlots, pair after pair: only the menu's   *)
(* callback sees the table in between (PartlySwapped).  Mutant: no second  *)
(* copy in SwapPtnGuid.                                                    *)
SwapPtnGuids_Half(t) ==
  [p \in Ptn |-> IF SlotOf[p] = "_a" THEN [t[p] EXCEPT !.guid = t[Twin(p)].guid]
                 ELSE t[p]]

SwapPtnGuids(t) ==
  [p \in Ptn |-> IF p \in Slotted THEN [t[p] EXCEPT !.guid = t[Twin(p)].guid]
                 ELSE t[p]]

LunOfSlot(s) == IF s = "_a" THEN 1 ELSE 2

(* Mutant: the GUIDs are not compared.                                     *)
ValidateSlotGuids_LunOnly(s) == bootLun = LunOfSlot(s)

ValidateSlotGuids(s) ==
  /\ mem[BootPtn(s)].guid # mem[AblPtn(s)].guid
  /\ bootLun = LunOfSlot(s)

-----------------------------------------------------------------------------
(* UpdatePartitionAttributes: what one pass over LUN l of copy c writes.   *)

WritesGuid(m) == m \in {"guid", "all"}
WritesAttr(m) == m \in {"attr", "all"}

(* Every entry meets its own entry on flash: with GUID in the mask the     *)
(* pointer into the table always advances, without it only past an entry   *)
(* whose GUID on flash is the one in memory.                               *)
Aligned(t, l, m) ==
  WritesGuid(m) \/ \A p \in Ptn : LunOf[p] = l => t[p].guid = mem[p].guid

(* A field that is written (w), was old on flash and is new in memory: its *)
(* value in PtnEntriesBak, b, follows.  Mutant: it does not.               *)
Remember_Not(w, old, new, b) == b

Remember(w, old, new, b) == IF w /\ old # new THEN new ELSE b

AlignedPass(t, l, m) ==
  [table |-> [p \in Ptn |->
                IF LunOf[p] # l THEN t[p]
                ELSE [guid |-> IF WritesGuid(m) THEN mem[p].guid ELSE t[p].guid,
                      attr |-> IF WritesAttr(m) THEN mem[p].attr
                               ELSE t[p].attr]],
   bak   |-> [p \in Ptn |->
                IF LunOf[p] # l THEN bak[p]
                ELSE [guid |-> Remember(WritesGuid(m), t[p].guid, mem[p].guid,
                                        bak[p].guid),
                      attr |-> Remember(WritesAttr(m), t[p].attr, mem[p].attr,
                                        bak[p].attr)]]]

(* Mutant: the pointer advances only past written attributes.              *)
NextPtr_AttrOnly(ptr, m, hit) == IF hit THEN ptr + 1 ELSE ptr

NextPtr(ptr, m, hit) == IF WritesAttr(m) /\ ~hit THEN ptr ELSE ptr + 1

(* The pass as the code makes it, entry by entry: w.ptr is PtnEntriesPtr,  *)
(* which stays where it is when the GUID under it is not the entry's, so   *)
(* that the entries after it are compared with, and written to, the wrong  *)
(* place.                                                                  *)
PassStep(w, i, m) ==
  LET e    == w.table[w.ptr]
      guid == IF WritesGuid(m) THEN mem[i].guid ELSE e.guid
      hit  == WritesAttr(m) /\ guid = mem[i].guid
      attr == IF hit THEN mem[i].attr ELSE e.attr
  IN  [table |-> [w.table EXCEPT ![w.ptr] = [guid |-> guid, attr |-> attr]],
       bak   |-> [w.bak EXCEPT ![i] =
                   [guid |-> Remember(WritesGuid(m), e.guid, mem[i].guid, @.guid),
                    attr |-> Remember(hit, e.attr, mem[i].attr, @.attr)]],
       ptr   |-> NextPtr(w.ptr, m, hit)]

(* The entry where the table of LUN l begins.                              *)
FirstIn(l) ==
  CHOOSE p \in 1 .. PartitionCount + 1 :
    \A q \in Ptn : LunOf[q] = l => p <= q /\ LunOf[p] = l

Walk(t, l, m) ==
  LET w[i \in 0 .. PartitionCount] ==
        IF i = 0 THEN [table |-> t, bak |-> bak, ptr |-> FirstIn(l)]
        ELSE IF LunOf[i] # l THEN w[i - 1] ELSE PassStep(w[i - 1], i, m)
  IN  w

SkewedPass(t, l, m) ==
  LET end == Walk(t, l, m)[PartitionCount]
  IN  [table |-> end.table, bak |-> end.bak]

Pass(t, l, m) ==
  IF Aligned(t, l, m) THEN AlignedPass(t, l, m) ELSE SkewedPass(t, l, m)

ThisPass == Pass(disk[iter], lun, mask)

(* !SkipUpdation                                                           *)
PassChanges == ThisPass.table # disk[iter]

-----------------------------------------------------------------------------
(* Calls and returns.                                                      *)

Registers ==
  /\ mask' = "none" /\ lun' = 0 /\ iter' = "primary" /\ ret' = "off"

(* UpdatePartitionAttributes (m) with PtnEntries = t, then go on at k:     *)
(* nothing is written when PtnEntries equals PtnEntriesBak.                *)
CallUpdate(m, t, k) ==
  /\ mem' = t
  /\ IF t = bak
     THEN pc' = k /\ UNCHANGED upa
     ELSE /\ pc' = "upa" /\ mask' = m /\ ret' = k
          /\ lun' = 0 /\ iter' = "primary"

ReturnUpdate == pc' = ret /\ Registers

Goto(k) == pc' = k /\ UNCHANGED <<mem, upa>>

(* The operation is over: its local variables are gone.                    *)
Leave(s) ==
  /\ slot' = s /\ same' = FALSE /\ tail' = "reset"
  /\ force' = FALSE /\ how' = "auto" /\ counted' = FALSE

EndOp == Leave(NoSlot)

EnterFastboot ==
  /\ Goto("fastboot") /\ EndOp
  /\ fb' = IF fb = "no" THEN "fallen" ELSE fb

(* Reset or power loss: everything in RAM is gone.                         *)
PowerDown ==
  /\ pc' = "off" /\ Registers
  /\ mem' = disk["primary"] /\ bak' = disk["primary"]
  /\ FirstBoot' = FALSE /\ fb' = "no" /\ EndOp

-----------------------------------------------------------------------------
(* UpdatePartitionAttributes, one copy of one LUN per step.                *)

UpdateCopy ==
  /\ pc = "upa"
  /\ disk' = [disk EXCEPT ![iter] = ThisPass.table]
  /\ bak' = ThisPass.bak
  /\ \/ /\ iter = "primary"
        /\ iter' = "backup"
        /\ UNCHANGED <<pc, mask, lun, ret>>
     \/ /\ iter = "backup" /\ lun < MaxLuns - 1
        /\ iter' = "primary" /\ lun' = lun + 1
        /\ UNCHANGED <<pc, mask, ret>>
     \/ /\ iter = "backup" /\ lun = MaxLuns - 1
        /\ ReturnUpdate
  /\ UNCHANGED <<valid, bootLun, lunSet, mem, FirstBoot, op, fb, attempts, ghost>>

Fault ==
  /\ faults < MaxFaults /\ faults' = faults + 1
  /\ UNCHANGED <<crashes, preempts, restored, skewed, caught>>

(* ReadBlocks fails: the rest of the update is given up, silently.         *)
ReadFails ==
  /\ pc = "upa" /\ Fault /\ ReturnUpdate
  /\ UNCHANGED <<flash, mem, bak, FirstBoot, op, fb, attempts>>

(* WriteBlocks fails: PtnEntriesBak already says the entries are written.  *)
WriteFails ==
  /\ pc = "upa" /\ PassChanges /\ Fault /\ ReturnUpdate
  /\ bak' = ThisPass.bak
  /\ UNCHANGED <<flash, mem, FirstBoot, op, fb, attempts>>

(* FlushBlocks fails after both copies: the LUNs that follow are not done. *)
FlushFails ==
  /\ pc = "upa" /\ iter = "backup" /\ Fault /\ ReturnUpdate
  /\ disk' = [disk EXCEPT ![iter] = ThisPass.table]
  /\ bak' = ThisPass.bak
  /\ UNCHANGED <<valid, bootLun, lunSet, mem, FirstBoot, op, fb, attempts>>

-----------------------------------------------------------------------------
(* Power.                                                                  *)

Busy == {"upa", "enumerated", "loader", "validate", "load", "h_alt",
         "sa_switch", "sa_mark", "sa_done", "boot_cmd", "reset", "menu"}

(* The GUIDs of boot and abl say what the attributes say.  A table without *)
(* an active slot is the factory's, where the GUIDs are slot _a's.         *)
GuidOnSide(p, s) == IF SlotOf[p] = s THEN Base[p] ELSE Inactive

GuidsFollow(t) ==
  LET s == IF ActiveSlot(t) = NoSlot THEN "_a" ELSE ActiveSlot(t)
  IN  \A p \in Slotted :
        Base[p] \in {"boot", "abl"} => t[p].guid = GuidOnSide(p, s)

Crash ==
  /\ crashes < MaxCrashes /\ crashes' = crashes + 1
  /\ skewed' = ~GuidsFollow(disk["primary"])
  /\ PowerDown
  /\ UNCHANGED <<faults, preempts, restored, caught, attempts, disk, bootLun, lunSet>>

PowerLoss ==
  /\ pc \in Busy
  /\ Crash
  /\ UNCHANGED valid

(* Power is lost while a GPT is being written: its CRCs do not match.      *)
TornWrite ==
  /\ pc = "upa" /\ PassChanges
  /\ Crash
  /\ valid' = [valid EXCEPT ![iter][lun] = FALSE]

(* The firmware's partition driver replaces a damaged table by the other   *)
(* copy; then EnumeratePartitions and UpdatePartitionEntries.              *)
PowerOn ==
  /\ pc = "off"
  /\ \A l \in Luns : \E c \in Copy : valid[c][l]
  /\ disk' = [c \in Copy |-> [p \in Ptn |->
                IF valid[c][LunOf[p]] THEN disk[c][p] ELSE disk[Other(c)][p]]]
  /\ valid' = [c \in Copy |-> [l \in Luns |-> TRUE]]
  /\ restored' = (restored \/ \E l \in Luns : ~valid["primary"][l])
  /\ mem' = disk'["primary"] /\ bak' = disk'["primary"]
  /\ pc' = "enumerated"
  /\ UNCHANGED <<bootLun, lunSet, FirstBoot, upa, op, fb, attempts, crashes, faults,
                 preempts, skewed, caught>>

(* gRT->ResetSystem at the end of HandleActiveSlotUnbootable.              *)
ResetSystem ==
  /\ pc = "reset"
  /\ PowerDown
  /\ UNCHANGED <<flash, attempts, ghost>>

-----------------------------------------------------------------------------
(* LinuxLoaderEntry: find or set the active slot, then boot or fastboot.   *)

Refill(s) == attempts' = [attempts EXCEPT ![s] = 0]

(* FindPtnActiveSlot.  Only here can GetActiveSlot meet a first boot: it   *)
(* leaves an active slot, or bits that never look like a first boot again. *)
FindPtnActiveSlot ==
  /\ pc = "enumerated"
  /\ IF ActiveSlot(mem) = NoSlot /\ Pristine(mem)
     THEN /\ CallUpdate("attr",
               SetBoot(mem, "_a", FirstBootAttr(BootAttr(mem, "_a"))), "loader")
          /\ FirstBoot' = TRUE
          /\ Refill("_a")
     ELSE Goto("loader") /\ UNCHANGED <<FirstBoot, attempts>>
  /\ UNCHANGED <<flash, bak, op, fb, ghost>>

(* BootIntoFastboot: key or reboot reason.                                 *)
LaunchFastboot ==
  /\ pc = "loader"
  /\ Goto("fastboot") /\ fb' = "reason"
  /\ UNCHANGED <<flash, bak, FirstBoot, op, attempts, ghost>>

-----------------------------------------------------------------------------
(* HandleActiveSlotUnbootable (f), called with ActiveSlot (mem) = s; k is  *)
(* where its caller goes on if there is no alternate slot to reset into.   *)

HandleUnbootable(s, f, k) ==
  /\ slot' = s /\ force' = f /\ tail' = k
  /\ IF FirstBoot /\ ~UserBuild
     THEN FirstBoot' = FALSE /\ Goto("h_alt")
     ELSE /\ CallUpdate("attr",
               SetBoot(mem, s, UnbootableAttr(BootAttr(mem, s))), "h_alt")
          /\ UNCHANGED FirstBoot
  /\ UNCHANGED same

(* SetActiveSlot (n, resetSuccess), up to and with its first table update. *)
SetActiveSlot(n, resetSuccess, k) ==
  /\ ActiveSlot(mem) # NoSlot
  /\ slot' = n /\ same' = (ActiveSlot(mem) = n) /\ tail' = k
  /\ CallUpdate("attr", SlotActivated(mem, n, resetSuccess), "sa_switch")
  /\ Refill(n)

Bootable(a) == ~a.unboot /\ a.succ

(* Without an alternate slot fastboot is next, except after a failed       *)
(* authentication on a locked device: LoadImageAndAuth then returns the    *)
(* milestone call's status and BootLinux runs, to return without images.   *)
TryAlternateSlot ==
  /\ pc = "h_alt"
  /\ IF Bootable(BootAttr(mem, Alt(slot))) \/ force
     THEN /\ SetActiveSlot(Alt(slot), FALSE, "reset")
          /\ UNCHANGED <<force, how, counted, fb>>
     ELSE /\ \/ EnterFastboot
             \/ tail = "unauth" /\ how = "continue"
                /\ Goto("stopped") /\ EndOp /\ UNCHANGED fb
          /\ UNCHANGED attempts
  /\ UNCHANGED <<flash, bak, FirstBoot, ghost>>

(* The rest of SetActiveSlot.  SetBootLU may fail, or be given LUN 0 after *)
(* a query that failed and reject it; nobody notices either.               *)
(* Mutant: SetBootLU is not called.                                        *)
SetBootLun_Dropped == UNCHANGED <<bootLun, lunSet, ghost>>

SetBootLun ==
  \/ bootLun' = LunOfSlot(slot) /\ lunSet' = FALSE /\ UNCHANGED ghost
  \/ UNCHANGED <<bootLun, lunSet>> /\ bootLun # LunOfSlot(slot) /\ Fault

SwitchBootLun ==
  /\ pc = "sa_switch" /\ same
  /\ SetBootLun
  /\ Goto(tail)
  /\ UNCHANGED <<disk, valid, bak, FirstBoot, op, fb, attempts>>

SwitchPtnSlots ==
  /\ pc = "sa_switch" /\ ~same
  /\ SetBootLun
  /\ CallUpdate("guid", SwapPtnGuids(mem), "sa_mark")
  /\ UNCHANGED <<disk, valid, bak, FirstBoot, op, fb, attempts>>

MarkNewSlot ==
  /\ pc = "sa_mark"
  /\ CallUpdate("attr", MarkPtnActive(mem, slot), tail)
  /\ UNCHANGED <<flash, bak, FirstBoot, op, fb, attempts, ghost>>

-----------------------------------------------------------------------------
(* LoadImageAndAuth: FindBootableSlot, then the images of the slot.        *)

(* c: the retry count is to be updated; h: the caller.                     *)
FindBootableSlot(c, h) ==
  LET s == ActiveSlot(mem)
      a == BootAttr(mem, s)
      caller == how' = h /\ counted' = c /\ UNCHANGED fb
      chosen == slot' = s /\ caller /\ UNCHANGED <<same, tail, force, FirstBoot>>
  IN  /\ \/ s = NoSlot /\ EnterFastboot /\ UNCHANGED FirstBoot
         \/ s # NoSlot /\ Bootable(a) /\ chosen /\ Goto("validate")
         \/ /\ s # NoSlot /\ ~a.unboot /\ ~a.succ /\ a.retry > 0 /\ chosen
            /\ IF c THEN CallUpdate("attr",
                           SetBoot(mem, s, RetryTaken(a)), "validate")
               ELSE Goto("validate")
         \/ /\ s # NoSlot /\ (a.unboot \/ (~a.succ /\ a.retry = 0))
            /\ HandleUnbootable(s, FALSE, "fastboot") /\ caller
      /\ UNCHANGED <<flash, bak, attempts, ghost>>

(* Not counted: recovery, and power-off charging.                          *)
BootFromLoader ==
  /\ pc = "loader"
  /\ \E c \in BOOLEAN : FindBootableSlot(c, "auto")

(* A boot LUN query that fails leaves LUN 0, which matches no slot.        *)
ValidateAndMark ==
  /\ pc = "validate"
  /\ \/ /\ ValidateSlotGuids(slot)
        /\ CallUpdate("attr", MarkPtnActive(mem, slot), "load")
        /\ UNCHANGED <<op, fb, ghost>>
     \/ ~ValidateSlotGuids(slot) /\ EnterFastboot /\ UNCHANGED ghost
     \/ Fault /\ EnterFastboot
  /\ UNCHANGED <<flash, bak, FirstBoot, attempts>>

(* The images verify and BootLinux starts the kernel.                      *)
BootLinux ==
  /\ pc = "load"
  /\ Goto("hlos") /\ Leave(slot)
  /\ attempts' = IF counted /\ ~BootAttr(mem, slot).succ
                 THEN [attempts EXCEPT ![slot] = @ + 1] ELSE attempts
  /\ UNCHANGED <<flash, bak, FirstBoot, fb, ghost>>

(* LoadImageAndAuthVB2 fails.                                              *)
AuthFails ==
  /\ pc = "load"
  /\ HandleUnbootable(ActiveSlot(mem), FALSE, "unauth")
  /\ UNCHANGED <<flash, bak, fb, how, counted, attempts, ghost>>

(* A later step fails: the milestone call, CmdBoot's checks of the image   *)
(* or BootLinux.  Fastboot is next, but a fastboot command has stopped its *)
(* USB device before BootLinux and has nothing to return to.               *)
BootLinuxFails ==
  /\ pc = "load"
  /\ \/ EnterFastboot
     \/ how # "auto" /\ Goto("stopped") /\ EndOp /\ UNCHANGED fb
  /\ UNCHANGED <<flash, bak, FirstBoot, attempts, ghost>>

-----------------------------------------------------------------------------
(* Fastboot commands and the fastboot menu.                                *)

CmdSetActive ==
  /\ pc = "fastboot"
  /\ \E n \in Slot : SetActiveSlot(n, TRUE, "sa_done")
  /\ UNCHANGED <<flash, bak, FirstBoot, force, how, counted, fb, ghost>>

CmdSetActiveDone ==
  /\ pc = "sa_done"
  /\ CallUpdate("all", mem, "fastboot") /\ EndOp
  /\ UNCHANGED <<flash, bak, FirstBoot, fb, attempts, ghost>>

CmdContinue ==
  /\ pc = "fastboot"
  /\ \E c \in BOOLEAN : (c => fb = "fallen") /\ FindBootableSlot(c, "continue")

(* CmdBoot: ClearUnbootable, then LoadImageAndAuth with IsBootDevImage.    *)
CmdBoot ==
  /\ pc = "fastboot" /\ ActiveSlot(mem) # NoSlot
  /\ LET s == ActiveSlot(mem)
     IN  CallUpdate("attr",
           SetBoot(mem, s, [BootAttr(mem, s) EXCEPT !.unboot = FALSE]), "boot_cmd")
  /\ UNCHANGED <<flash, bak, FirstBoot, op, fb, attempts, ghost>>

CmdBootLoad ==
  /\ pc = "boot_cmd"
  /\ FindBootableSlot(FALSE, "boot")

(* FastbootUpdateAttr, after flashing or erasing boot_x.                   *)
FlashBoot ==
  /\ pc = "fastboot"
  /\ \E s \in Slot :
       /\ CallUpdate("attr", SetBoot(mem, s, FlashedAttr(BootAttr(mem, s))),
                     "fastboot")
       /\ Refill(s)
  /\ UNCHANGED <<flash, bak, FirstBoot, op, fb, ghost>>

(* "flash partition" sets the boot LUN before it looks at the image, which *)
(* it refuses here; GptFlash has the images that it takes.  A call that    *)
(* fails changes nothing.                                                  *)
CmdFlashPartition ==
  /\ pc = "fastboot"
  /\ bootLun' = 1 /\ lunSet' = TRUE
  /\ UNCHANGED <<disk, valid, mem, bak, FirstBoot, pc, upa, op, fb, attempts, ghost>>

(* The menu entry "Boot to Alternate Slot".                                *)
MenuAlternateSlot ==
  /\ pc \in {"fastboot", "menu"} /\ ActiveSlot(mem) # NoSlot
  /\ HandleUnbootable(ActiveSlot(mem), TRUE, "fastboot")
  /\ UNCHANGED <<flash, bak, how, counted, fb, attempts, ghost>>

(* The same entry, chosen while a command runs: MenuKeysHandler is a timer *)
(* callback.  It may come inside a loop over PtnEntries or PtnEntriesBak,  *)
(* whose entries change one after the other.  SwitchPtnSlots exchanges the *)
(* GUIDs of the last pair first, and of a pair changes the old slot's      *)
(* entry first.                                                            *)
PairAt(p) == IF Twin(p) < p THEN Twin(p) ELSE p

SwappedBy(p, q) ==
  PairAt(p) > PairAt(q) \/ (PairAt(p) = PairAt(q) /\ (p = q \/ SlotOf[p] # slot))

PartlySwapped(t) ==
  {t} \cup {[p \in Ptn |-> IF p \in Slotted /\ SwappedBy(p, q)
                          THEN [t[p] EXCEPT !.guid = t[Twin(p)].guid] ELSE t[p]]
             : q \in Slotted}

PartlyMarked(t) ==
  {[p \in Ptn |-> IF p <= n THEN MarkPtnActive(t, slot)[p] ELSE t[p]]
     : n \in 0 .. PartitionCount}

(* SetActiveSlot (n, r) between its two boot partitions.                   *)
PartlyActivated(t, n, r) == SetBoot(t, n, NewSlotAttr(BootAttr(t, n), r))

(* What PtnEntries and PtnEntriesBak may be when the callback comes.       *)
Unfinished ==
  CASE pc = "fastboot" -> {PartlyActivated(mem, n, TRUE) : n \in Slot}
    [] pc = "h_alt" /\ Bootable(BootAttr(mem, Alt(slot))) ->
         {mem, PartlyActivated(mem, Alt(slot), FALSE)}
    [] pc = "sa_switch" /\ ~same -> PartlySwapped(mem)
    [] pc = "sa_mark" \/ (pc = "validate" /\ ValidateSlotGuids(slot)) -> PartlyMarked(mem)
    [] OTHER -> {mem}

UnfinishedBak ==
  IF pc = "upa" THEN {Walk(disk[iter], lun, mask)[n].bak : n \in 0 .. PartitionCount}
  ELSE {bak}

(* The command never resumes, for the callback ends in a reset.            *)
MenuPreempts ==
  /\ pc \in (Busy \cup {"fastboot"}) \ {"enumerated", "loader", "menu"}
  /\ fb # "no" /\ ~force
  /\ preempts < MaxPreempts /\ preempts' = preempts + 1
  /\ mem' \in Unfinished /\ ActiveSlot(mem') # NoSlot
  /\ bak' \in UnfinishedBak
  /\ caught' = (caught \/ (pc = "sa_switch" /\ mem' \notin {mem, SwapPtnGuids(mem)}))
  /\ pc' = "menu" /\ Registers /\ force' = TRUE
  /\ UNCHANGED <<flash, FirstBoot, slot, same, tail, how, counted, fb, attempts,
                 crashes, faults, restored, skewed>>

-----------------------------------------------------------------------------
(* Outside the boot loader: Android's boot control marks the slot it runs  *)
(* from successful, in both tables; the user or the system reboots.        *)

MarkBootSuccessful ==
  /\ pc = "hlos"
  /\ disk' = [c \in Copy |->
               SetBoot(disk[c], slot, [BootAttr(disk[c], slot) EXCEPT !.succ = TRUE])]
  /\ UNCHANGED <<valid, bootLun, lunSet, mem, bak, FirstBoot, pc, upa, op, fb,
                 attempts, ghost>>

Reboot ==
  /\ pc \in {"hlos", "fastboot", "stopped"}
  /\ PowerDown
  /\ UNCHANGED <<flash, attempts, ghost>>

-----------------------------------------------------------------------------
FactoryTable ==
  [p \in Ptn |-> [guid |-> IF SlotOf[p] = "_b" THEN Inactive ELSE Base[p],
                  attr |-> NoAttr]]

Init ==
  /\ disk = [c \in Copy |-> FactoryTable]
  /\ valid = [c \in Copy |-> [l \in Luns |-> TRUE]]
  /\ bootLun = 1
  /\ mem = FactoryTable /\ bak = FactoryTable
  /\ FirstBoot = FALSE /\ pc = "off" /\ fb = "no"
  /\ mask = "none" /\ lun = 0 /\ iter = "primary" /\ ret = "off"
  /\ slot = NoSlot /\ same = FALSE /\ tail = "reset" /\ force = FALSE
  /\ how = "auto" /\ counted = FALSE
  /\ attempts = [s \in Slot |-> 0] /\ lunSet = FALSE /\ caught = FALSE
  /\ crashes = 0 /\ faults = 0 /\ preempts = 0
  /\ restored = FALSE /\ skewed = FALSE

(* What the boot loader does by itself once it has the processor.          *)
Loader ==
  \/ UpdateCopy \/ ResetSystem \/ FindPtnActiveSlot \/ TryAlternateSlot
  \/ SwitchBootLun \/ SwitchPtnSlots \/ MarkNewSlot
  \/ BootFromLoader \/ ValidateAndMark
  \/ BootLinux \/ AuthFails \/ BootLinuxFails
  \/ CmdSetActiveDone \/ CmdBootLoad

Commands ==
  \/ LaunchFastboot \/ CmdSetActive \/ CmdContinue \/ CmdBoot \/ FlashBoot
  \/ CmdFlashPartition \/ MenuAlternateSlot \/ MenuPreempts

Environment ==
  \/ PowerOn \/ Reboot \/ MarkBootSuccessful
  \/ PowerLoss \/ TornWrite \/ ReadFails \/ WriteFails \/ FlushFails

Next == Loader \/ Commands \/ Environment

Spec == Init /\ [][Next]_vars

(* The boot loader is one thread that nothing else keeps from running, and *)
(* a device that is off is switched on again.                              *)
FairSpec == Spec /\ WF_vars(Loader) /\ WF_vars(PowerOn)

-----------------------------------------------------------------------------
(* Properties.                                                             *)

Labels == Busy \cup {"off", "fastboot", "hlos", "stopped"}

FlashOK ==
  /\ disk \in [Copy -> Table] /\ valid \in [Copy -> [Luns -> BOOLEAN]]
  /\ bootLun \in {1, 2} /\ lunSet \in BOOLEAN

UpaOK ==
  /\ mask \in {"none", "attr", "guid", "all"} /\ lun \in Luns /\ iter \in Copy
  /\ ret \in Labels \ {"upa"}

OpOK ==
  /\ slot \in Slot \cup {NoSlot} /\ same \in BOOLEAN
  /\ tail \in {"reset", "sa_done", "fastboot", "unauth"} /\ force \in BOOLEAN
  /\ how \in {"auto", "continue", "boot"} /\ counted \in BOOLEAN

GhostOK ==
  /\ crashes \in 0 .. MaxCrashes /\ faults \in 0 .. MaxFaults
  /\ preempts \in 0 .. MaxPreempts /\ restored \in BOOLEAN
  /\ skewed \in BOOLEAN /\ caught \in BOOLEAN

(* Every variable keeps its type; in particular no retry count leaves      *)
(* 0 .. MaxRetry (FindBootableSlot's RetryCount-- never wraps) and the     *)
(* table pointer of UpdatePartitionAttributes never leaves the table.      *)
TypeOK ==
  /\ FlashOK /\ mem \in Table /\ bak \in Table
  /\ FirstBoot \in BOOLEAN /\ pc \in Labels
  /\ UpaOK /\ OpOK /\ GhostOK
  /\ fb \in {"no", "reason", "fallen"} /\ attempts \in [Slot -> Nat]

(* No block access failed, every primary table on flash is one the boot    *)
(* loader wrote and no menu callback is running that cut a command short:  *)
(* power may have been lost, and commands cut short, anywhere before.      *)
Clean == faults = 0 /\ ~restored /\ (force => preempts = 0)

(* The entry-by-entry walk of UpdatePartitionAttributes writes each entry  *)
(* to its own place whenever the GUIDs it meets are the ones in memory.    *)
PassAgrees ==
  pc = "upa" /\ Aligned(disk[iter], lun, mask)
    => SkewedPass(disk[iter], lun, mask) = AlignedPass(disk[iter], lun, mask)

(* Whatever fails or is cut short, by power loss or by the menu's          *)
(* callback, within one LUN of a readable table the GUIDs of all slot      *)
(* pairs say the same: one slot's partitions carry their own GUIDs, the    *)
(* other's the inactive one (SwitchPtnSlots).  Only a callback between two *)
(* exchanges of SwitchPtnSlots may undo this: it goes on with a table of   *)
(* which some pairs are exchanged, and writes it.                          *)
GuidsPaired ==
  ~caught => \A c \in Copy, l \in Luns : valid[c][l] =>
    \E s \in Slot : \A p \in Slotted :
      LunOf[p] = l /\ LunOf[Twin(p)] = l => disk[c][p].guid = GuidOnSide(p, s)

(* What is written is what is remembered: in a clean run PtnEntriesBak is  *)
(* the primary table on flash, between updates PtnEntries is too, and in   *)
(* the middle of an update the two differ only where the loop of           *)
(* UpdatePartitionAttributes has still to go and only in the field of its  *)
(* mask.  This is what lets the early return (PtnEntries = PtnEntriesBak)  *)
(* skip the write.                                                         *)
Done(p) == LunOf[p] < lun \/ (LunOf[p] = lun /\ iter = "backup")

PrimaryInSync ==
  Clean /\ pc # "hlos" =>
    /\ bak = disk["primary"]
    /\ pc # "upa" => mem = bak
    /\ pc = "upa" =>
         /\ \A p \in Ptn : Done(p) => mem[p] = bak[p]
         /\ mask = "attr" => \A p \in Ptn : mem[p].guid = bak[p].guid
         /\ mask = "guid" => \A p \in Ptn : mem[p].attr = bak[p].attr

(* A kernel is loaded only from the slot that all three pieces of state    *)
(* on flash name: attributes, GUIDs and boot LUN (FindBootableSlot,        *)
(* ValidateSlotGuids), and never from one marked unbootable.               *)
BootAgrees ==
  Clean /\ pc \in {"load", "hlos"} =>
    LET t == disk["primary"]
    IN  /\ ActiveSlot(t) = slot /\ ~BootAttr(t, slot).unboot
        /\ bootLun = LunOfSlot(slot)
        /\ t[BootPtn(slot)].guid # t[AblPtn(slot)].guid

(* However often power is lost, a slot that is never reported successful   *)
(* gets at most MaxRetry counted launches between two refills of its       *)
(* retry count: each launch is paid for on flash before it happens.        *)
AttemptsBounded ==
  Clean /\ preempts = 0 => \A s \in Slot :
    attempts[s] + BootAttr(disk["primary"], s).retry <= MaxRetry

(* SetActiveSlot has begun to write the attributes of the boot partitions, *)
(* and the GUIDs do not follow yet.                                        *)
MidSwitch ==
  \/ pc = "sa_switch"
  \/ pc = "upa" /\ ret \in {"sa_switch", "sa_mark"}

(* Attributes and GUIDs on flash name the same slot, except after a power  *)
(* loss in the middle of SetActiveSlot; what that leaves, no command       *)
(* repairs: set_active moves both, so one that is off stays off.           *)
SkewPersists ==
  Clean /\ preempts = 0 /\ ~MidSwitch => (GuidsFollow(disk["primary"]) <=> ~skewed)

(* Unless power is lost, the boot LUN is the active slot's whenever no     *)
(* switch is under way, or LUN 1 if "flash partition" came after the last  *)
(* one (CmdFlash sets it without looking at the slots).                    *)
LunFollows ==
  Clean /\ crashes = 0 /\ preempts = 0 /\ ~MidSwitch =>
    LET s == ActiveSlot(disk["primary"])
    IN  bootLun = IF s = NoSlot \/ lunSet THEN 1 ELSE LunOfSlot(s)

(* Once GetActiveSlot has set up the first boot, an active slot is found   *)
(* ever after: no power loss leaves the primary table without one.         *)
HasActive ==
  pc \notin {"off", "enumerated"} /\ ~(pc = "upa" /\ ret = "loader")
    => ActiveSlot(mem) # NoSlot

ActiveExists == Clean /\ preempts = 0 => HasActive

(* The same of menu callbacks that cut a command short, without power      *)
(* loss.  It depends on the order of the partitions, and MCABSlots_menu    *)
(* has one where it fails: between the swap of the GUIDs in memory and     *)
(* their pass over flash the callback starts passes that find the entries  *)
(* by GUID, write one slot's attributes to the other's entry and note in   *)
(* PtnEntriesBak that both are right, so that the last update of           *)
(* SetActiveSlot is skipped.                                               *)
ActiveAfterMenu == Clean /\ crashes = 0 => HasActive

(* The boot loader never makes a slot successful: only the system that     *)
(* runs from it does.                                                      *)
SuccessOnlyFromHlos ==
  [][Clean' /\ preempts' = 0 /\ pc # "hlos" =>
       \A s \in Slot : BootAttr(disk'["primary"], s).succ
                          => BootAttr(disk["primary"], s).succ]_vars

(* A device that is switched on gets to a kernel or to fastboot: the       *)
(* resets of HandleActiveSlotUnbootable do not go on for ever.             *)
BootTerminates == pc = "off" ~> pc \in {"hlos", "fastboot", "stopped"}

(* UpdatePartitionAttributes: "This loop iterates twice to update both     *)
(* primary and backup Gpt": an attribute update that runs to its end       *)
(* without a failed access leaves the attributes of memory in both copies. *)
BothCopiesUpdated ==
  [][pc = "upa" /\ mask = "attr" /\ pc' = ret /\ pc' # "off" /\ faults' = 0
       => \A c \in Copy, p \in Ptn : disk'[c][p].attr = mem[p].attr]_vars

-----------------------------------------------------------------------------
(* The abstract specification this module implements: as long as the       *)
(* primary table is one the boot loader wrote and no access failed, what   *)
(* it says of the boot partitions changes by whole steps of SlotPolicy.    *)
Trusted == faults = 0 /\ preempts = 0 /\ ~restored

Policy ==
  INSTANCE SlotPolicy WITH
    attr    <- [s \in Slot |-> BootAttr(disk["primary"], s)],
    running <- IF pc = "hlos" THEN slot ELSE NoSlot,
    trusted <- Trusted

(* The series of writes behind every slot operation, cut short by power    *)
(* loss anywhere, never shows the next boot a state between two steps of   *)
(* the policy, and kernels start only from the slot it names.              *)
ImplementsPolicy == Policy!Spec

=============================================================================
