------------------------------ MODULE LockState ------------------------------
(***************************************************************************)
(* Locking and unlocking the device, and what the misc partition tells the *)
(* next boot: SetDeviceUnlock of FastbootCmds.c with UnlockMenu.c and      *)
(* MenuKeysDetection.c, SetDeviceUnlockValue of DeviceInfo.c, Recovery.c   *)
(* and the boot decision of LinuxLoader.c, on a target with dynamic        *)
(* partitions and UFS or eMMC storage.                                     *)
(*                                                                         *)
(* A lock change is three writes to three places: the device info, the     *)
(* trusted execution environment and the misc partition, where it leaves   *)
(* the order to wipe user data that only recovery carries out.  Any of     *)
(* them may fail and power may be lost between them.  Recovery and Android *)
(* are external: they act on misc the way the boot loader expects.         *)
(***************************************************************************)
EXTENDS DeviceInfo

CONSTANTS
  UserBuild,   \* TargetBuildVariantUser ()
  MayCrash,    \* power may be lost, any number of times
  MayFail      \* calls may fail, any number of times

ASSUME LockAssumption ==
  UserBuild \in BOOLEAN /\ MayCrash \in BOOLEAN /\ MayFail \in BOOLEAN

Type     == {"unlock", "critical"}
Reasons  == {"normal", "recovery", "fastboot"}
Commands == {None, "boot-recovery", "boot-fastboot"}
Merge    == {"absent", None, "snapshotted", "merging", "cancelled"}
Underway == {"snapshotted", "merging"}
Message  == [command : Commands, recovery : {None, "wipe"}, merge : Merge]

VARIABLES
  misc,     \* misc partition: command, recovery (arguments), merge (status)
  vab,      \* merge status in VirtualAbMsg, "null" when there is none
  reason,   \* the reboot reason, lost with power
  pc,       \* where the device is
  flag,     \* IsEnableDisplayMenuFlagSupported ()
  display,  \* is_display_supported ()
  allow,    \* IsAllowUnlock
  menu,     \* the unlock menu on the screen, or NoArg
  arg,      \* arguments of the running SetDeviceUnlockValue
  answer,   \* the answer to the last lock command: None, "okay" or "fail"
  before,   \* ghost: the lock values when that command began
  failed,   \* ghost: a device info write has failed since power on
  data,     \* ghost: lock values under which the personal data was stored
  cut,      \* ghost: a lock change was cut short, a step of it failed, or
            \*        misc was flashed or erased after it
  missed,   \* ghost: the command on super could not read the merge status
  under,    \* ghost: misc was flashed under VirtualAbMsg since power on
  overrun   \* ghost: what was changed against the status on flash since power on

dev    == <<DevInfo, stored>>
ui     == <<flag, display, allow, menu>>
ghosts == <<before, failed, data, cut, missed, under, overrun>>
vars   == <<dev, misc, vab, reason, pc, ui, arg, answer, ghosts>>

NoArg == [type |-> "unlock", state |-> FALSE, from |-> None]
Args  == [type : Type, state : BOOLEAN, from : {None, "command", "menu"}]

-----------------------------------------------------------------------------
Fault == MayFail

(* RebootDevice (r): everything in RAM is gone.                            *)
RebootDevice(r) ==
  /\ pc' = "off" /\ reason' = r
  /\ DevInfo' = NoDevInfo /\ vab' = "null" /\ menu' = NoArg /\ arg' = NoArg
  /\ allow' = FALSE /\ answer' = None /\ before' = Locks(NoDevInfo)
  /\ failed' = FALSE /\ missed' = FALSE /\ under' = FALSE
  /\ UNCHANGED <<flag, display>>

(* What GetSnapshotMergeStatus returns and leaves in VirtualAbMsg when the *)
(* message can be read: it is read once.                                   *)
MergeStatus ==
  IF vab # "null" THEN vab ELSE IF misc.merge = "absent" THEN None ELSE misc.merge

(* Mutant: the header of the message is not checked.                       *)
Read_Unchecked == IF vab = "null" THEN misc.merge ELSE vab

Read == IF vab = "null" /\ misc.merge # "absent" THEN misc.merge ELSE vab

(* GetSnapshotMergeStatus = s; a read that fails counts as no merge, and   *)
(* is not seen.  Mutant: a copy that is there is not looked at.            *)
GetSnapshotMergeStatus_Lost(s, seen) == s = None /\ seen /\ UNCHANGED vab

GetSnapshotMergeStatus(s, seen) ==
  \/ s = MergeStatus /\ seen /\ vab' = Read
  \/ vab = "null" /\ s = None /\ ~seen /\ UNCHANGED vab /\ Fault

(* The part w of the device changes while the status on flash is one of f; *)
(* a command that asked for the status may have been misled.               *)
Against(w, f) ==
  overrun' = IF misc.merge \in f THEN overrun \cup {w} ELSE overrun

Checked(w, f, seen) ==
  IF seen /\ ~under THEN Against(w, f) ELSE UNCHANGED overrun

-----------------------------------------------------------------------------
(* LinuxLoaderEntry.                                                       *)

PowerOn ==
  /\ pc = "off"
  /\ \/ DeviceInfoInit /\ pc' = "boot"
     \/ pc' = "dead" /\ UNCHANGED dev /\ Fault
  /\ overrun' = {}
  /\ UNCHANGED <<misc, vab, reason, ui, arg, answer, before, failed, data, cut,
                 missed, under>>

(* FastbootInitialize.  The bit that allows unlocking is Android's.        *)
FastbootInitialize ==
  /\ \E s \in Merge, seen \in BOOLEAN : GetSnapshotMergeStatus(s, seen)
  /\ allow' \in BOOLEAN
  /\ pc' = "fastboot"
  /\ UNCHANGED <<flag, display, menu>>

NoFastboot == pc' = "dead" /\ Fault /\ UNCHANGED <<vab, ui>>

KeyOrReason(key, k, r) == key = k \/ reason = r

(* RecoveryInit; a misc partition that cannot be read is ignored.          *)
RecoveryInit(readable) ==
  readable /\ misc.command \in {"boot-recovery", "boot-fastboot"}

(* Fastboot comes before recovery.  Where fastboot is not asked for,       *)
(* LoadImageAndAuth or BootLinux may fail and lead there too.              *)
BootDecision ==
  /\ pc = "boot" /\ reason' = "normal"
  /\ \E key \in {"none", "down", "up"}, readable \in BOOLEAN :
       \/ FastbootInitialize
       \/ NoFastboot
       \/ /\ ~KeyOrReason(key, "down", "fastboot")
          /\ pc' = IF KeyOrReason(key, "up", "recovery") \/ RecoveryInit(readable)
                   THEN "recovery" ELSE "hlos"
          /\ readable \/ Fault
          /\ UNCHANGED <<vab, ui>>
  /\ UNCHANGED <<dev, misc, arg, answer, ghosts>>

-----------------------------------------------------------------------------
(* SetDeviceUnlock (type, state).                                          *)

Idle == pc = "fastboot"

(* The checks of SetDeviceUnlock that refuse; nothing changes.             *)
Refused(type, state) ==
  state = LockValue(DevInfo, type) \/ (state /\ ~allow)

(* The menu is shown: the user decides later.                              *)
SetDeviceUnlockAsk ==
  /\ Idle /\ display /\ flag
  /\ \E type \in Type, state \in BOOLEAN :
       /\ ~Refused(type, state)
       /\ menu' = [type |-> type, state |-> state, from |-> "menu"]
  /\ UNCHANGED <<dev, misc, vab, reason, pc, flag, display, allow, arg, answer,
                 ghosts>>

SetDeviceUnlockDirect ==
  /\ Idle /\ ~(display /\ flag)
  /\ \E type \in Type, state \in BOOLEAN :
       /\ ~Refused(type, state)
       /\ arg' = [type |-> type, state |-> state, from |-> "command"]
  /\ pc' = "set" /\ answer' = None /\ before' = Locks(DevInfo)
  /\ UNCHANGED <<dev, misc, vab, reason, ui, failed, data, cut, missed, under,
                 overrun>>

(* MenuKeysHandler, RECOVER: it may interrupt a command, which then never  *)
(* ends.  When the device info cannot be read the device goes to recovery  *)
(* all the same.                                                           *)
MenuConfirm ==
  /\ pc \in {"fastboot", "super"} /\ menu # NoArg
  /\ \/ /\ pc' = "set" /\ arg' = menu /\ answer' = None
        /\ before' = Locks(DevInfo)
        /\ UNCHANGED <<DevInfo, vab, reason, ui, failed, missed, under>>
     \/ RebootDevice("recovery") /\ Fault
  /\ UNCHANGED <<stored, misc, data, cut, overrun>>

(* MenuKeysHandler, RESTART.                                               *)
MenuDecline ==
  /\ pc \in {"fastboot", "super"} /\ menu # NoArg
  /\ RebootDevice("normal")
  /\ UNCHANGED <<stored, misc, data, cut, overrun>>

(* The fastboot menu, while the unlock menu does not hide it.              *)
MenuRecovery ==
  /\ pc \in {"fastboot", "super"} /\ flag /\ menu = NoArg
  /\ RebootDevice("recovery")
  /\ UNCHANGED <<stored, misc, data, cut, overrun>>

(* Slot changes that do not ask for the merge status, in a boot, under     *)
(* CmdContinue or from the fastboot menu; what they write is in ABSlots.   *)
(* Where there is no slot to change to, BootDecision and CmdContinue go on.*)
HandleActiveSlotUnbootable ==
  /\ \/ pc = "boot" /\ reason # "fastboot"
     \/ Idle
     \/ pc = "super" /\ flag /\ menu = NoArg
  /\ RebootDevice("normal")
  /\ Against("fallback", {"merging"})
  /\ UNCHANGED <<stored, misc, data, cut>>

-----------------------------------------------------------------------------
(* SetDeviceUnlockValue, one write per step.                               *)

(* How it ends, with the record d in RAM: the menu reboots into recovery   *)
(* whatever came of it, the command only without a failure and only where  *)
(* no menu is configured.                                                  *)
Return(ok, d, fails) ==
  IF arg.from = "menu" \/ (ok /\ ~flag)
  THEN RebootDevice("recovery")
  ELSE /\ pc' = "fastboot" /\ arg' = NoArg /\ DevInfo' = d
       /\ answer' = (IF ok THEN "okay" ELSE "fail")
       /\ failed' = (failed \/ fails)
       /\ UNCHANGED <<vab, reason, ui, before, missed, under>>

Wanted == WithLock(DevInfo, arg.type, arg.state)

(* SetUnlockValue (State).                                                 *)
SetValue ==
  /\ pc = "set"
  /\ \/ /\ WriteDevInfo(Wanted) /\ pc' = "tee"
        /\ UNCHANGED <<vab, reason, ui, arg, answer, before, failed, cut, missed,
                        under>>
     \/ /\ Return(FALSE, Wanted, TRUE) /\ UNCHANGED stored
        /\ Fault /\ cut' = TRUE
  /\ UNCHANGED <<misc, data, overrun>>

(* ResetDeviceState.                                                       *)
ResetDeviceState ==
  /\ pc = "tee"
  /\ \/ pc' = "misc"
     \/ pc' = "undo" /\ Fault
  /\ UNCHANGED <<dev, misc, vab, reason, ui, arg, answer, ghosts>>

(* Its failure: SetUnlockValue (!State), whose own failure is not seen.    *)
(* Mutant: SetUnlockValue (State).                                         *)
Undone_Kept == Wanted

Undone == WithLock(DevInfo, arg.type, ~arg.state)

UndoValue ==
  /\ pc = "undo"
  /\ \/ /\ Return(FALSE, Undone, FALSE) /\ stored' = Undone
        /\ UNCHANGED cut
     \/ /\ Return(FALSE, Undone, TRUE) /\ UNCHANGED stored
        /\ Fault /\ cut' = TRUE
  /\ UNCHANGED <<misc, data, overrun>>

(* The recovery message: arguments to wipe user data, no command.          *)
WipeMessage == [misc EXCEPT !.command = None, !.recovery = "wipe"]

WriteWipe ==
  /\ pc = "misc"
  /\ \/ /\ misc' = WipeMessage /\ Return(TRUE, DevInfo, FALSE)
        /\ UNCHANGED cut
     \/ /\ misc' \in {misc, WipeMessage} /\ Return(FALSE, DevInfo, FALSE)
        /\ Fault /\ cut' = TRUE
  /\ UNCHANGED <<stored, data, overrun>>

Changing == {"set", "tee", "undo", "misc"}

-----------------------------------------------------------------------------
(* Other fastboot commands that read or write misc.                        *)

(* WriteRecoveryMessage: the message on flash with another command.        *)
(* Mutant: a message of its own.                                           *)
WriteRecoveryMessage_Blank(c) == [misc EXCEPT !.command = c, !.recovery = None]

WriteRecoveryMessage(c) == [misc EXCEPT !.command = c]

(* CmdRebootRecovery and CmdRebootFastboot; v is what VirtualAbMsg holds.  *)
RebootWith(c, v) ==
  \/ /\ misc' = WriteRecoveryMessage(c) /\ RebootDevice("normal")
  \/ /\ misc' \in {misc, WriteRecoveryMessage(c)} /\ Fault /\ vab' = v
     /\ UNCHANGED <<DevInfo, reason, pc, ui, arg, answer, before, failed, missed, under>>

CmdRebootRecovery ==
  /\ Idle
  /\ \E c \in {"boot-recovery", "boot-fastboot"} : RebootWith(c, vab)
  /\ UNCHANGED <<stored, data, cut, overrun>>

CmdReboot ==
  /\ Idle
  /\ \E r \in {"normal", "fastboot"} : RebootDevice(r)
  /\ UNCHANGED <<stored, misc, data, cut, overrun>>

(* CmdContinue boots the system, whatever misc or the reboot reason say.   *)
CmdContinue ==
  /\ Idle
  /\ pc' \in {"hlos", "fastboot", "dead"}
  /\ UNCHANGED <<dev, misc, vab, reason, ui, arg, answer, ghosts>>

(* SetSnapshotMergeStatus: a failed write restores the copy in RAM, though *)
(* the flush that failed may have come after it.  Without VirtualAbMsg it  *)
(* fails.                                                                  *)
Merged(s) == [misc EXCEPT !.merge = s]

SetSnapshotMergeStatus(s, v, ok) ==
  \/ v # "null" /\ ok /\ vab' = s /\ misc' = Merged(s)
  \/ v # "null" /\ ~ok /\ vab' = v /\ misc' \in {misc, Merged(s)} /\ Fault
  \/ v = "null" /\ ~ok /\ vab' = v /\ UNCHANGED misc

(* CmdUpdateSnapshot "merge" and "cancel".                                 *)
CmdUpdateSnapshot ==
  /\ Idle
  /\ \/ MergeStatus = "merging" /\ RebootWith("boot-fastboot", Read)
     \/ /\ DevInfo.unlocked
        /\ \E ok \in BOOLEAN : SetSnapshotMergeStatus("cancelled", vab, ok)
        /\ UNCHANGED <<DevInfo, reason, pc, ui, arg, answer, before, failed, missed,
                       under>>
  /\ UNCHANGED <<stored, data, cut, overrun>>

Allowed == UserBuild => DevInfo.unlocked

(* CmdFlash and CmdErase of super, up to the new merge status.             *)
OverwriteSuper ==
  /\ Idle /\ Allowed
  /\ \/ \E s \in Merge \ Underway, seen \in BOOLEAN :
          /\ GetSnapshotMergeStatus(s, seen) /\ missed' = ~seen
          /\ pc' = "super" /\ UNCHANGED misc
     \/ /\ MergeStatus \in Underway /\ UNCHANGED missed
        /\ \E ok \in BOOLEAN :
             /\ SetSnapshotMergeStatus("cancelled", Read, ok)
             /\ pc' = IF ok THEN "super" ELSE "fastboot"
  /\ UNCHANGED <<dev, reason, ui, arg, answer, before, failed, data, cut, under,
                 overrun>>

(* ... and the first block of super that is written.                       *)
WriteSuper ==
  /\ pc = "super"
  /\ pc' = "fastboot"
  /\ Checked("super", Underway, ~missed) /\ missed' = FALSE
  /\ UNCHANGED <<dev, misc, vab, reason, ui, arg, answer, before, failed, data,
                 cut, under>>

(* The check in CmdSetActive; the slot change itself is in ABSlots.        *)
CmdSetActive ==
  /\ Idle /\ Allowed
  /\ \E s \in Merge \ {"merging"}, seen \in BOOLEAN :
       GetSnapshotMergeStatus(s, seen) /\ Checked("active", {"merging"}, seen)
  /\ UNCHANGED <<dev, misc, reason, pc, ui, arg, answer, before, failed, data, cut,
                 missed, under>>

BlankMisc == [command |-> None, recovery |-> None, merge |-> "absent"]

(* CheckVirtualAbCriticalPartition lets the command through.               *)
Critical(w) ==
  /\ Idle /\ Allowed
  /\ \E s \in Merge \ Underway, seen \in BOOLEAN :
       GetSnapshotMergeStatus(s, seen) /\ Checked(w, Underway, seen)
  /\ UNCHANGED <<dev, reason, pc, ui, arg, answer, before, failed, missed>>

(* CmdFlash and CmdErase of userdata, CmdErase of misc.                    *)
EraseCritical ==
  \/ /\ Critical("misc")
     /\ misc' = BlankMisc /\ cut' = TRUE /\ UNCHANGED <<data, under>>
  \/ /\ Critical("userdata")
     /\ data' = {} /\ UNCHANGED <<misc, cut, under>>

(* CmdFlash of misc, whatever is in the image: VirtualAbMsg, where there   *)
(* is one, stays what it was.                                              *)
FlashMisc ==
  /\ Critical("misc")
  /\ misc' \in Message /\ cut' = TRUE
  /\ under' = (under \/ vab' # "null")
  /\ UNCHANGED data

-----------------------------------------------------------------------------
(* Outside the boot loader.                                                *)

(* Recovery wipes user data when its arguments say so and then clears the  *)
(* message.                                                                *)
RecoveryWipe ==
  /\ pc = "recovery" /\ misc.recovery = "wipe"
  /\ data' = {} /\ cut' = FALSE /\ pc' = "wiped"
  /\ UNCHANGED <<dev, misc, vab, reason, ui, arg, answer, before, failed, missed,
                 under, overrun>>

RecoveryClear ==
  /\ pc = "wiped" \/ (pc = "recovery" /\ misc.recovery = None)
  /\ misc' = [misc EXCEPT !.command = None, !.recovery = None]
  /\ pc' = "recovery"
  /\ UNCHANGED <<dev, vab, reason, ui, arg, answer, ghosts>>

(* Android stores personal data, and goes on with an update.               *)
StoreData ==
  /\ pc = "hlos"
  /\ data' = data \cup {Locks(DevInfo)}
  /\ UNCHANGED <<dev, misc, vab, reason, pc, ui, arg, answer, before, failed, cut,
                 missed, under, overrun>>

UpdateStep ==
  /\ pc = "hlos"
  /\ \E s \in {None, "snapshotted", "merging"} : misc' = [misc EXCEPT !.merge = s]
  /\ UNCHANGED <<dev, vab, reason, pc, ui, arg, answer, ghosts>>

Leave ==
  /\ pc \in {"hlos", "recovery", "wiped", "dead"}
  /\ \E r \in Reasons : (pc = "dead" => r = "normal") /\ RebootDevice(r)
  /\ UNCHANGED <<stored, misc, data, cut, overrun>>

PowerLoss ==
  /\ pc # "off" /\ MayCrash
  /\ RebootDevice("normal")
  /\ cut' = (cut \/ pc \in Changing \ {"set"})
  /\ UNCHANGED <<stored, misc, data, overrun>>

-----------------------------------------------------------------------------
Init ==
  /\ DevInfo = NoDevInfo /\ stored = NoDevInfo /\ misc = BlankMisc
  /\ vab = "null" /\ reason = "normal" /\ pc = "off"
  /\ flag \in BOOLEAN /\ display \in BOOLEAN /\ allow = FALSE /\ menu = NoArg
  /\ arg = NoArg /\ answer = None /\ before = Locks(NoDevInfo)
  /\ failed = FALSE /\ data = {} /\ cut = FALSE
  /\ missed = FALSE /\ under = FALSE /\ overrun = {}

Loader ==
  \/ PowerOn \/ BootDecision
  \/ SetValue \/ ResetDeviceState \/ UndoValue \/ WriteWipe \/ WriteSuper

FastbootCommands ==
  \/ SetDeviceUnlockAsk \/ SetDeviceUnlockDirect
  \/ MenuConfirm \/ MenuDecline \/ MenuRecovery \/ HandleActiveSlotUnbootable
  \/ CmdRebootRecovery \/ CmdReboot \/ CmdContinue
  \/ CmdUpdateSnapshot \/ OverwriteSuper \/ CmdSetActive
  \/ EraseCritical \/ FlashMisc

Environment ==
  RecoveryWipe \/ RecoveryClear \/ StoreData \/ UpdateStep \/ Leave \/ PowerLoss

Next == Loader \/ FastbootCommands \/ Environment

Spec == Init /\ [][Next]_vars

-----------------------------------------------------------------------------
(* Properties.                                                             *)

LockPairs == BOOLEAN \X BOOLEAN

(* Every variable keeps its type.                                          *)
TypeOK ==
  /\ DevInfo \in DevInfoRecord /\ stored \in DevInfoRecord
  /\ misc \in Message
  /\ vab \in (Merge \ {"absent"}) \cup {"null"} /\ reason \in Reasons
  /\ pc \in Changing \cup {"off", "boot", "dead", "fastboot", "super", "hlos",
                            "recovery", "wiped"}
  /\ flag \in BOOLEAN /\ display \in BOOLEAN /\ allow \in BOOLEAN
  /\ menu \in Args /\ arg \in Args
  /\ answer \in {None, "okay", "fail"} /\ before \in LockPairs
  /\ failed \in BOOLEAN /\ data \in SUBSET LockPairs /\ cut \in BOOLEAN
  /\ missed \in BOOLEAN /\ under \in BOOLEAN
  /\ overrun \subseteq {"super", "active", "misc", "userdata", "fallback"}

(* Personal data stored under other lock values than the present ones.     *)
Outdated == data \ {Locks(stored)}

(* Whenever a lock change ran to its end, data from before it is either    *)
(* gone or the order to wipe it is still in misc: no reboot command, no    *)
(* lost reboot reason and no power loss outside the change takes it away   *)
(* (SetDeviceUnlockValue, WriteRecoveryMessage).                           *)
WipePending ==
  ~cut /\ pc \notin Changing => Outdated = {} \/ misc.recovery = "wipe"

(* What the boot loader decides by is what the next boot will read, unless *)
(* a device info write has failed in this session (SetUnlockValue changes  *)
(* RAM first and leaves it changed).                                       *)
RamAgrees ==
  pc \notin {"off", "dead"} /\ ~failed => DevInfo = stored

(* A lock command that failed without a failed device info write or misc   *)
(* write has left the lock values as they were: the undo of                *)
(* SetDeviceUnlockValue restores them.                                     *)
FailureUndone ==
  answer = "fail" /\ ~cut /\ ~failed /\ pc # "off" => Locks(stored) = before

(* While the status on flash says that an update is snapshotted or being   *)
(* merged, no command overwrites super, misc or userdata and, while it is  *)
(* being merged, set_active does not change the slot: the copy that is     *)
(* read once answers for flash (GetSnapshotMergeStatus and its callers).   *)
(* A command may be misled by a read of its own that fails, or by a flash  *)
(* of misc under the copy in the same session, and by nothing else.  What  *)
(* does change the slot of an unfinished merge is                          *)
(* HandleActiveSlotUnbootable, which never asks.                           *)
MergeRespected == overrun \subseteq {"fallback"}

(* The unlock menu: "unlocking the bootloader will also delete all         *)
(* personal data on your phone".                                           *)
DataDeleted ==
  display /\ flag /\ pc = "hlos" => \A l \in data : l[1] = DevInfo.unlocked

=============================================================================
