---------------------------- MODULE VerifiedBoot ----------------------------
(***************************************************************************)
(* Verified boot: LoadImageAndAuth and LoadImageAndAuthVB2 of              *)
(* src/QcomModulePkg/Library/avb/VerifiedBoot.c, avb_slot_verify of        *)
(* libavb, avb_ops.c and the parts of LinuxLoader.c and FastbootCmds.c     *)
(* that change what they read, on a user build with A/B slots, AVB 2 and   *)
(* no MDTP.                                                                *)
(*                                                                         *)
(* Every boot of a locked device may leave a trace that the next boots     *)
(* depend on: the retry count, the unbootable mark, the rollback index and *)
(* the digest of the system that dm-verity has given up on.  Calls may     *)
(* fail and power may be lost between any two of these writes.  The slots  *)
(* are those of SlotPolicy, which ABSlots implements.                      *)
(***************************************************************************)
EXTENDS DeviceInfo

CONSTANTS
  Images,    \* what can be in the partitions of a slot
  MaxRetry,  \* MAX_RETRY_COUNT
  MayCrash,  \* power may be lost, any number of times
  MaxFaults  \* bound: calls that fail between two resets

OemKey == "oem"

(* key: who signed vbmeta, None: nobody, or the signature is wrong; index: *)
(* its rollback index; os: its digest; parsed: it has a valid header;      *)
(* intact: the partitions have the hashes it names; off: its flag          *)
(* VERIFICATION_DISABLED.                                                  *)
Image == [key : Keys \cup {OemKey, None}, index : 0 .. MaxIndex, os : Digests,
          parsed : BOOLEAN, intact : BOOLEAN, off : BOOLEAN]

ASSUME VerifiedBootAssumption ==
  /\ Images \subseteq Image /\ Images # {} /\ OemKey \notin Keys
  /\ MaxRetry \in Nat \ {0} /\ MayCrash \in BOOLEAN /\ MaxFaults \in Nat

VARIABLES
  attr, running,  \* of SlotPolicy
  image,     \* what each slot holds
  reason,    \* the reboot reason
  pc,        \* where the device is
  loaded,    \* Info->Images points to loaded images
  mode,      \* resolved hash tree error mode of this boot
  colour,    \* what Keymaster and the command line are told
  earned,    \* ghost: highest index of an image that was marked successful;
             \*   MaxIndex once an image is replaced under such a mark
  history,   \* ghost: "locked" since the factory, or "unlocked" once
  eioOs,     \* ghost: the system last verified, if in eio mode and unless a
             \*   failed write left another digest in storage than in RAM
  freed,     \* ghost: the kernel was started from images already freed
  unsaved,   \* ghost: the last write of the record failed
  faults     \* ghost: calls that have failed since the last reset

Slots == INSTANCE SlotPolicy WITH trusted <- TRUE

dev    == <<DevInfo, stored, unsaved>>
slots  == <<attr, running>>
boot   == <<loaded, mode, colour>>
ghosts == <<earned, history, eioOs, freed>>
vars   == <<dev, slots, image, reason, pc, boot, ghosts, faults>>

Slot    == Slots!Slot
NoSlot  == Slots!NoSlot
Current == Slots!ActiveSlot(attr)
This    == image[Current]

Fault   == faults < MaxFaults /\ faults' = faults + 1
NoFault == UNCHANGED faults

Goto(k) == pc' = k

(* LoadImageAndAuth is over, and Info with it.                             *)
Forget == loaded' = FALSE /\ mode' = None /\ colour' = None

(* Reset, power loss, or a device that hangs until it is switched off.     *)
Reset(r) ==
  /\ pc' = "off" /\ reason' = r /\ DevInfo' = NoDevInfo /\ unsaved' = FALSE
  /\ running' = NoSlot /\ freed' = FALSE /\ faults' = 0
  /\ Forget

(* Without a kernel: fastboot, or a fastboot command with nothing to       *)
(* return to.                                                              *)
GiveUp ==
  \/ /\ Goto("fastboot") /\ Forget
     /\ UNCHANGED <<DevInfo, unsaved, reason, running, freed>>
  \/ Reset("normal")

(* A write of the record, which ends well or not.                          *)
Save(d)      == WriteDevInfo(d) /\ unsaved' = FALSE /\ NoFault
SaveFails(d) == WriteDevInfoFails(d) /\ unsaved' = TRUE /\ Fault

-----------------------------------------------------------------------------
(* LinuxLoaderEntry.                                                       *)

(* If DeviceInfoInit fails the device does not start.                      *)
PowerOn ==
  /\ pc = "off"
  /\ DeviceInfoInit /\ Goto("boot")
  /\ UNCHANGED <<unsaved, slots, image, reason, boot, ghosts, faults>>

(* EnableEnforcingMode (b) = ok, after which the caller goes on.           *)
EnableEnforcingMode(b, ok) ==
  LET d == [DevInfo EXCEPT !.verity = b]
  IN  \/ DevInfo.verity = b /\ ok /\ UNCHANGED dev /\ NoFault
      \/ DevInfo.verity # b /\ ok /\ Save(d)
      \/ DevInfo.verity # b /\ ~ok /\ SaveFails(d)

(* The reboot reason, unless it or a key asks for fastboot.  The loader    *)
(* returns when the mode cannot be written.                                *)
HandleReason ==
  /\ pc = "boot"
  /\ \/ /\ pc' \in {"find", "fastboot"} /\ reason' = "normal"
        /\ \/ reason = "normal" /\ UNCHANGED dev /\ NoFault
           \/ reason # "normal" /\ EnableEnforcingMode(reason = "enforcing", TRUE)
        /\ UNCHANGED <<running, boot, freed>>
     \/ /\ reason # "normal" /\ DevInfo.verity # (reason = "enforcing")
        /\ MaxFaults > 0 /\ Reset("normal") /\ UNCHANGED stored
  /\ UNCHANGED <<attr, image, earned, history, eioOs>>

-----------------------------------------------------------------------------
(* LoadImageAndAuth.                                                       *)

(* FindBootableSlot; recovery does not pay with the retry count.           *)
FindBootableSlot ==
  /\ pc = "find"
  /\ \/ Slots!Bootable(attr, Current) /\ Goto("verify") /\ UNCHANGED attr
     \/ /\ Slots!OnTrial(attr, Current) /\ Goto("verify")
        /\ attr' \in {attr, Slots!Paid(attr, Current)}
     \/ /\ ~Slots!Bootable(attr, Current) /\ ~Slots!OnTrial(attr, Current)
        /\ attr' = Slots!GivenUp(attr, Current) /\ Goto("alternate")
  /\ UNCHANGED <<dev, running, image, reason, boot, ghosts, faults>>

(* AvbValidateVbmetaPublicKey.                                             *)
IsUserKey(i)    == i.key # None /\ i.key = DevInfo.key
KeyIsTrusted(i) == i.key = OemKey \/ IsUserKey(i)

(* avb_slot_verify's result: "ok", "error" when an unlocked device may go  *)
(* on all the same, "stop" when none may.  Mutants: the rollback index, or *)
(* the hashes, do not count.                                               *)
Result_NoRollback(i) ==
  IF ~i.parsed THEN "stop"
  ELSE IF KeyIsTrusted(i) /\ (i.off \/ i.intact) THEN "ok" ELSE "error"

Result(i) ==
  IF ~i.parsed THEN "stop"
  ELSE IF /\ KeyIsTrusted(i) /\ i.index >= DevInfo.rollback
          /\ i.off \/ i.intact
       THEN "ok" ELSE "error"

Accepted(i) == Result(i) = "ok" \/ (DevInfo.unlocked /\ Result(i) = "error")

(* avb_manage_hashtree_error_mode, for a system that is verified: the mode *)
(* and the digest it leaves behind.  Mutants: the corrupt system's digest  *)
(* is not recorded.                                                        *)
HashtreeErrorMode_Forgets(i) ==
  CASE i.off                  -> [mode |-> None, digest |-> DevInfo.digest]
    [] ~DevInfo.verity        -> [mode |-> "eio", digest |-> DevInfo.digest]
    [] DevInfo.digest = i.os  -> [mode |-> "eio", digest |-> i.os]
    [] OTHER                  -> [mode |-> "restart", digest |-> None]

HashtreeErrorMode(i) ==
  CASE i.off                  -> [mode |-> None, digest |-> DevInfo.digest]
    [] ~i.off /\ (~DevInfo.verity \/ DevInfo.digest = i.os)
                              -> [mode |-> "eio", digest |-> i.os]
    [] OTHER                  -> [mode |-> "restart", digest |-> None]

Recorded(i) == [DevInfo EXCEPT !.digest = HashtreeErrorMode(i).digest]

(* ... which is written while corruption is reported, and when it changes. *)
Records(i) == ~i.off /\ (~DevInfo.verity \/ DevInfo.digest \notin {None, i.os})

(* out: the boot state is RED, the images are freed and                    *)
(* HandleActiveSlotUnbootable marks the slot.                              *)
Out ==
  /\ Goto("alternate") /\ colour' = "RED"
  /\ attr' = Slots!GivenUp(attr, Current)

(* avb_slot_verify and what LoadImageAndAuthVB2 makes of its result.       *)
SlotVerify ==
  /\ pc = "verify"
  /\ \/ /\ Accepted(This) /\ mode' = HashtreeErrorMode(This).mode
        /\ IF Records(This) THEN Save(Recorded(This)) ELSE UNCHANGED dev /\ NoFault
        /\ Goto("rollback") /\ UNCHANGED <<attr, colour>>
        /\ eioOs' = CASE mode' = None -> eioOs
                      [] mode' = "eio" /\ DevInfo'.digest = stored'.digest -> This.os
                      [] OTHER -> None
     \/ /\ Accepted(This) /\ Records(This)
        /\ SaveFails(Recorded(This))
        /\ Out /\ eioOs' = None /\ UNCHANGED mode
     \/ /\ (~Accepted(This) /\ NoFault) \/ Fault
        /\ Out /\ UNCHANGED <<dev, mode, eioOs>>
  /\ UNCHANGED <<running, image, reason, loaded, earned, history, freed>>

(* VBCommonInit, VBAllocateCmdLine or UpdateRollbackSyscall fails: it      *)
(* returns at once and the slot is not given up; the milestone call may    *)
(* have no protocol to call.                                               *)
EarlyReturn ==
  /\ pc = "verify" /\ faults < MaxFaults
  /\ GiveUp
  /\ faults' = IF pc' = "off" THEN 0 ELSE faults + 1
  /\ UNCHANGED <<stored, attr, image, earned, history, eioOs>>

(* The rollback index that is stored: raised by a locked device for a slot *)
(* that is marked successful (avb_should_update_rollback).  Mutants: for   *)
(* any slot; the first index that is not allowed any more.                 *)
RollbackIndex_AnySlot(i) ==
  IF ~DevInfo.unlocked /\ DevInfo.rollback < i.index THEN i.index
  ELSE DevInfo.rollback

RollbackIndex_OffByOne(i) ==
  IF /\ ~DevInfo.unlocked /\ DevInfo.rollback < i.index
     /\ Slots!Bootable(attr, Current)
  THEN i.index + 1 ELSE DevInfo.rollback

RollbackIndex(i) ==
  IF /\ ~DevInfo.unlocked /\ DevInfo.rollback < i.index
     /\ Slots!Bootable(attr, Current)
  THEN i.index ELSE DevInfo.rollback

UpdateRollbackIndex ==
  /\ pc = "rollback" /\ loaded' = TRUE
  /\ LET d == [DevInfo EXCEPT !.rollback = RollbackIndex(This)]
     IN  \/ /\ IF d = DevInfo THEN UNCHANGED dev /\ NoFault ELSE Save(d)
            /\ Goto("state") /\ UNCHANGED <<attr, colour>>
         \/ d # DevInfo /\ SaveFails(d) /\ Out
  /\ UNCHANGED <<running, image, reason, mode, ghosts>>

BootState(i) ==
  IF DevInfo.unlocked THEN "ORANGE" ELSE IF IsUserKey(i) THEN "YELLOW" ELSE "GREEN"

(* The boot state, Keymaster, the milestone call and BootLinux.  What      *)
(* fails before the milestone gives the slot up.                           *)
StartLinux ==
  /\ pc = "state"
  /\ \/ /\ Goto("hlos") /\ running' = Current /\ colour' = BootState(This)
        /\ UNCHANGED <<DevInfo, unsaved, reason, attr, loaded, mode, freed>> /\ NoFault
     \/ /\ Fault /\ Out
        /\ UNCHANGED <<DevInfo, unsaved, reason, running, loaded, mode, freed>>
     \/ /\ faults < MaxFaults /\ GiveUp /\ UNCHANGED attr
        /\ faults' = IF pc' = "off" THEN 0 ELSE faults + 1
  /\ UNCHANGED <<stored, image, earned, history, eioOs>>

(* The rest of HandleActiveSlotUnbootable; without an alternate slot an    *)
(* unlocked device goes to fastboot.  A locked one goes on with the status *)
(* of the milestone call: BootLinux finds no images, or images that are    *)
(* freed, of which anything may come.                                      *)
TryAlternateSlot ==
  /\ pc = "alternate"
  /\ IF Slots!Bootable(attr, Slots!Alt(Current))
     THEN /\ attr' = Slots!Switched(attr, Slots!Alt(Current), FALSE)
          /\ Reset("normal")
     ELSE /\ \/ GiveUp
             \/ /\ ~DevInfo.unlocked /\ loaded /\ colour = "RED"
                /\ Goto("hlos") /\ running' = Current /\ freed' = TRUE
                /\ UNCHANGED <<DevInfo, unsaved, reason, boot>>
          /\ faults' = IF pc' = "off" THEN 0 ELSE faults
          /\ UNCHANGED attr
  /\ UNCHANGED <<stored, image, earned, history, eioOs>>

-----------------------------------------------------------------------------
(* Fastboot.                                                               *)

(* A lock change, which LockState has step by step.  It may end in a reset *)
(* or in fastboot, and it may fail: with the write of the record, or after *)
(* it, when the lock value is set back, which may fail as well.            *)
SetDeviceUnlock ==
  /\ pc = "fastboot" /\ history' = "unlocked"
  /\ LET d == WithLock(DevInfo, "unlock", ~DevInfo.unlocked)
     IN  \/ /\ stored' \in {d} \cup (IF MaxFaults = 0 THEN {} ELSE {stored, DevInfo})
            /\ Reset("normal")
         \/ /\ \/ Save(d)
               \/ SaveFails(d)
               \/ WriteDevInfo(DevInfo) /\ unsaved' = FALSE /\ Fault
               \/ stored' = d /\ UNCHANGED DevInfo /\ unsaved' = TRUE /\ Fault
            /\ UNCHANGED <<running, reason, pc, boot, freed>>
  /\ UNCHANGED <<attr, image, earned, eioOs>>

(* Flash or erase avb_custom_key.                                          *)
StoreUserKey ==
  /\ pc = "fastboot" /\ DevInfo.unlocked
  /\ \E k \in Keys \cup {None} :
       LET d == [DevInfo EXCEPT !.key = k]
       IN  Save(d) \/ SaveFails(d)
  /\ UNCHANGED <<slots, image, reason, pc, boot, ghosts>>

(* Flash of system, which resets dm-verity's mode.                         *)
FlashSystem ==
  /\ pc = "fastboot" /\ DevInfo.unlocked
  /\ \E ok \in BOOLEAN : EnableEnforcingMode(TRUE, ok)
  /\ UNCHANGED <<slots, image, reason, pc, boot, ghosts>>

(* Flash of a partition of slot s; only that of boot renews the slot.      *)
CmdFlash ==
  /\ pc = "fastboot" /\ DevInfo.unlocked
  /\ \E s \in Slot, i \in Images :
       /\ image' = [image EXCEPT ![s] = i]
       /\ \/ attr' = Slots!Renewed(attr, s) /\ UNCHANGED earned
          \/ /\ UNCHANGED attr
             /\ earned' = IF attr[s].succ THEN MaxIndex ELSE earned
  /\ UNCHANGED <<dev, running, reason, pc, boot, history, eioOs, freed,
                 faults>>

CmdSetActive ==
  /\ pc = "fastboot" /\ DevInfo.unlocked
  /\ \E s \in Slot : attr' = Slots!Switched(attr, s, TRUE)
  /\ UNCHANGED <<dev, running, image, reason, pc, boot, ghosts, faults>>

(* CmdContinue, and CmdBoot with its ClearUnbootable.                      *)
CmdContinue ==
  /\ pc = "fastboot" /\ Goto("find")
  /\ \/ UNCHANGED attr
     \/ DevInfo.unlocked /\ attr' = Slots!Pardoned(attr, Current)
  /\ UNCHANGED <<dev, running, image, reason, boot, ghosts, faults>>

-----------------------------------------------------------------------------
(* Outside the boot loader.                                                *)

MaxOf(m, n) == IF m > n THEN m ELSE n

MarkBootSuccessful ==
  /\ pc = "hlos" /\ ~freed
  /\ attr' = Slots!Succeeded(attr, running)
  /\ earned' = MaxOf(earned, image[running].index)
  /\ UNCHANGED <<dev, running, image, reason, pc, boot, history, eioOs, freed, faults>>

(* An update: Android writes the other slot and makes it active.           *)
Update ==
  /\ pc = "hlos"
  /\ \E i \in Images : image' = [image EXCEPT ![Slots!Alt(running)] = i]
  /\ attr' = Slots!Switched(attr, Slots!Alt(running), TRUE)
  /\ Reset("normal")
  /\ UNCHANGED <<stored, earned, history, eioOs>>

(* dm-verity finds corruption in restart mode.                             *)
Corruption ==
  /\ pc = "hlos" /\ mode = "restart"
  /\ Reset("logging")
  /\ UNCHANGED <<attr, stored, image, earned, history, eioOs>>

Leave ==
  /\ pc \in {"hlos", "fastboot"}
  /\ \E r \in {"normal", "enforcing"} : (pc # "hlos" => r = "normal") /\ Reset(r)
  /\ UNCHANGED <<attr, stored, image, earned, history, eioOs>>

PowerLoss ==
  /\ pc # "off" /\ MayCrash
  /\ Reset("normal")
  /\ UNCHANGED <<attr, stored, image, earned, history, eioOs>>

-----------------------------------------------------------------------------
(* The factory's system in both slots, before the first boot is marked.    *)
Init ==
  /\ DevInfo = NoDevInfo /\ stored = NoDevInfo
  /\ attr = Slots!FirstBoot([s \in Slot |-> Slots!NoAttr]) /\ running = NoSlot
  /\ \E i \in Images : /\ image = [s \in Slot |-> i]
                       /\ i.key = OemKey /\ i.parsed /\ i.intact /\ ~i.off
  /\ reason = "normal" /\ pc = "off"
  /\ loaded = FALSE /\ mode = None /\ colour = None
  /\ earned = 0 /\ history = "locked" /\ eioOs = None
  /\ freed = FALSE /\ unsaved = FALSE /\ faults = 0

Loader ==
  \/ PowerOn \/ HandleReason \/ FindBootableSlot \/ SlotVerify \/ EarlyReturn
  \/ UpdateRollbackIndex \/ StartLinux \/ TryAlternateSlot

FastbootCommands ==
  \/ SetDeviceUnlock \/ StoreUserKey \/ FlashSystem \/ CmdFlash \/ CmdSetActive
  \/ CmdContinue

Environment ==
  MarkBootSuccessful \/ Update \/ Corruption \/ Leave \/ PowerLoss

Next == Loader \/ FastbootCommands \/ Environment

Spec == Init /\ [][Next]_vars

-----------------------------------------------------------------------------
(* Properties.                                                             *)

(* Every variable keeps its type.                                          *)
TypeOK ==
  /\ DevInfo \in DevInfoRecord /\ stored \in DevInfoRecord
  /\ attr \in [Slot -> Slots!Attr] /\ running \in Slot \cup {NoSlot}
  /\ image \in [Slot -> Images]
  /\ reason \in {"normal", "logging", "enforcing"}
  /\ pc \in {"off", "boot", "find", "verify", "rollback", "state", "alternate",
            "fastboot", "hlos"}
  /\ loaded \in BOOLEAN /\ mode \in {None, "restart", "eio"}
  /\ colour \in {None, "RED", "ORANGE", "YELLOW", "GREEN"}
  /\ earned \in 0 .. MaxIndex /\ history \in {"locked", "unlocked"}
  /\ eioOs \in Digests \cup {None}
  /\ freed \in BOOLEAN /\ unsaved \in BOOLEAN /\ faults \in 0 .. MaxFaults

(* Orange where the record d is that of an unlocked device and only there; *)
(* green and yellow for an image signed with the device maker's key or the *)
(* user key of d, at or above its rollback index and, unless its own       *)
(* vbmeta waives that, intact.                                             *)
Befits(c, i, d) ==
  \/ c = "ORANGE" /\ d.unlocked
  \/ /\ ~d.unlocked
     /\ c = IF i.key = d.key THEN "YELLOW" ELSE "GREEN"
     /\ i.key \in {OemKey, d.key} \ {None}
     /\ i.index >= d.rollback /\ (i.off \/ i.intact)

(* The colour Keymaster is told befits what runs (LoadImageAndAuthVB2), by *)
(* the record in RAM that the boot loader goes by and, unless the last     *)
(* write of it failed, by the one that is stored: after such a write, of a *)
(* lock value for one, fastboot goes on and "continue" boots by the record *)
(* in RAM.  What runs from images already freed is not known.              *)
ColourTrue ==
  pc = "hlos" /\ ~freed =>
    /\ Befits(colour, image[running], DevInfo)
    /\ ~unsaved => Befits(colour, image[running], stored)

(* The stored rollback index is never above that of a system that ran and  *)
(* marked its slot successful, unless a partition other than boot was      *)
(* flashed under that mark (AvbWriteRollbackIndex,                         *)
(* avb_should_update_rollback).                                            *)
RollbackEarned == stored.rollback <= earned

(* A device that was never unlocked and tries a new system can still go    *)
(* back: while the active slot is on trial, the rollback index does not    *)
(* rule out a system in the other slot that is marked successful.          *)
FallbackKept ==
  history = "locked" /\ Slots!OnTrial(attr, Current)
    /\ Slots!Bootable(attr, Slots!Alt(Current))
    => image[Slots!Alt(Current)].index >= stored.rollback

(* "stay in 'eio' mode until things change": a system that was last        *)
(* verified in eio mode does not start in restart mode, whatever is lost   *)
(* or resets dm-verity's mode, unless the write of the digest failed and   *)
(* fastboot went on with the copy in RAM (avb_manage_hashtree_error_mode). *)
EioSticks ==
  [][pc = "verify" /\ pc' = "rollback" /\ mode' = "restart"
       => This.os # eioOs]_vars

(* "New OS instance detected - changing from 'eio' to 'restart' mode":     *)
(* while the digest of one system is recorded, another one starts in       *)
(* restart mode (avb_manage_hashtree_error_mode).                          *)
NewOsRestarts ==
  [][pc = "verify" /\ pc' = "rollback" /\ ~This.off
       /\ DevInfo.digest \notin {None, This.os} => mode' = "restart"]_vars

=============================================================================
