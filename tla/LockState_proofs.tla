-------------------------- MODULE LockState_proofs --------------------------
(***************************************************************************)
(* Proofs about LockState, for every set of keys and digests, every build  *)
(* variant, and any number of power losses and failures.                   *)
(***************************************************************************)
EXTENDS LockState, TLAPS

Labels == Changing \cup {"off", "boot", "dead", "fastboot", "super", "hlos",
                         "recovery", "wiped"}

Copies == (Merge \ {"absent"}) \cup {"null"}

(* What RebootDevice sets has its type.                                    *)
LEMMA NoDevInfoType ==
  /\ NoDevInfo \in DevInfoRecord /\ DefaultDevInfo \in DevInfoRecord
  /\ Locks(NoDevInfo) \in LockPairs /\ NoArg \in Args
<1>1. 0 \in 0 .. MaxIndex
  BY DeviceInfoAssumption
<1>2. NoDevInfo \in DevInfoRecord
  BY <1>1 DEF NoDevInfo, DevInfoRecord
<1>3. (~SecureBoot) \in BOOLEAN
  OBVIOUS
<1>4. DefaultDevInfo \in DevInfoRecord
  BY <1>2, <1>3 DEF DefaultDevInfo, DevInfoRecord
<1>5. NoArg \in Args
  BY DEF NoArg, Args, Type
<1> QED
  BY <1>2, <1>4, <1>5 DEF NoDevInfo, Locks, LockPairs

LEMMA WithLockType ==
  ASSUME NEW d \in DevInfoRecord, NEW t \in Type, NEW s \in BOOLEAN
  PROVE  /\ WithLock(d, t, s) \in DevInfoRecord
         /\ LockValue(d, t) \in BOOLEAN /\ Locks(d) \in LockPairs
  BY DEF WithLock, LockValue, Locks, LockPairs, DevInfoRecord

RebootTyped ==
  /\ DevInfo \in DevInfoRecord /\ vab \in Copies /\ reason \in Reasons
  /\ pc \in Labels
  /\ flag \in BOOLEAN /\ display \in BOOLEAN /\ allow \in BOOLEAN
  /\ menu \in Args /\ arg \in Args
  /\ answer \in {None, "okay", "fail"} /\ before \in LockPairs
  /\ failed \in BOOLEAN /\ missed \in BOOLEAN /\ under \in BOOLEAN

OtherTyped ==
  /\ stored \in DevInfoRecord
  /\ misc \in Message
  /\ data \in SUBSET LockPairs /\ cut \in BOOLEAN
  /\ overrun \subseteq {"super", "active", "misc", "userdata", "fallback"}

LEMMA TypeParts == TypeOK <=> RebootTyped /\ OtherTyped
  BY DEF TypeOK, RebootTyped, OtherTyped, Labels, Copies

LEMMA TypePartsNext ==
  ASSUME RebootTyped', OtherTyped'
  PROVE  TypeOK'
  BY DEF TypeOK, RebootTyped, OtherTyped, Labels, Copies

LEMMA RebootType ==
  ASSUME RebootTyped, NEW r \in Reasons, RebootDevice(r)
  PROVE  RebootTyped'
  BY NoDevInfoType DEF RebootDevice, RebootTyped, Labels, Copies

LEMMA ReturnType ==
  ASSUME RebootTyped, NEW ok \in BOOLEAN, NEW d \in DevInfoRecord,
         NEW f \in BOOLEAN, Return(ok, d, f)
  PROVE  RebootTyped'
<1>1. CASE arg.from = "menu" \/ (ok /\ ~flag)
  BY <1>1, RebootType DEF Return, Reasons
<1>2. CASE ~(arg.from = "menu" \/ (ok /\ ~flag))
  BY <1>2, NoDevInfoType DEF Return, RebootTyped, Labels, ui
<1> QED
  BY <1>1, <1>2

LEMMA ReadType ==
  ASSUME TypeOK
  PROVE  Read \in Copies /\ MergeStatus \in Merge \ {"absent"}
  BY DEF TypeOK, Message, Read, MergeStatus, Copies, Merge, None

LEMMA GetStatusType ==
  ASSUME TypeOK, NEW s, NEW seen, GetSnapshotMergeStatus(s, seen)
  PROVE  vab' \in Copies
  BY ReadType DEF GetSnapshotMergeStatus, TypeOK, Copies

LEMMA CheckedType ==
  ASSUME OtherTyped, NEW f, NEW seen,
         NEW w \in {"super", "active", "misc", "userdata", "fallback"},
         Checked(w, f, seen) \/ Against(w, f)
  PROVE  overrun' \subseteq {"super", "active", "misc", "userdata", "fallback"}
  BY DEF OtherTyped, Checked, Against

LEMMA TypeInit == Init => TypeOK
<1> SUFFICES ASSUME Init PROVE TypeOK
  OBVIOUS
<1>1. RebootTyped
  BY NoDevInfoType DEF Init, RebootTyped, Labels, Copies, Reasons
<1>2. OtherTyped
  BY NoDevInfoType DEF Init, OtherTyped, BlankMisc, Message, Commands, Merge
<1> QED
  BY <1>1, <1>2, TypeParts

(* The steps that change the device info or a lock value.                  *)
LEMMA TypeLock ==
  ASSUME TypeOK, PowerOn \/ SetValue \/ ResetDeviceState \/ UndoValue \/ WriteWipe
  PROVE  TypeOK'
<1>0. RebootTyped /\ OtherTyped
  BY TypeParts
<1>1. DevInfo \in DevInfoRecord /\ arg \in Args /\ arg.type \in Type
      /\ arg.state \in BOOLEAN /\ (~arg.state) \in BOOLEAN
  BY <1>0 DEF RebootTyped, Args
<1>2. Wanted \in DevInfoRecord /\ Undone \in DevInfoRecord
  BY <1>1, WithLockType DEF Wanted, Undone
<1>3. CASE PowerOn
  <2>1. DevInfo' \in DevInfoRecord /\ stored' \in DevInfoRecord
    BY <1>0, <1>3, NoDevInfoType
    DEF PowerOn, DeviceInfoInit, WriteDevInfo, RebootTyped, OtherTyped, dev
  <2>2. RebootTyped'
    BY <1>0, <1>3, <2>1 DEF PowerOn, RebootTyped, Labels, ui, ghosts
  <2>3. OtherTyped'
    BY <1>0, <1>3, <2>1 DEF PowerOn, OtherTyped, ghosts
  <2> QED
    BY <2>2, <2>3, TypePartsNext
<1>4. CASE SetValue
  <2>1. RebootTyped' /\ stored' \in DevInfoRecord /\ cut' \in BOOLEAN
    <3>1. CASE WriteDevInfo(Wanted) /\ pc' = "tee"
               /\ UNCHANGED <<vab, reason, ui, arg, answer, before, failed, cut, missed,
                             under>>
      BY <1>0, <1>2, <3>1
      DEF WriteDevInfo, RebootTyped, OtherTyped, Labels, Changing, ui
    <3>2. CASE Return(FALSE, Wanted, TRUE) /\ UNCHANGED stored /\ cut' = TRUE
      BY <1>0, <1>2, <3>2, ReturnType DEF OtherTyped
    <3> QED
      BY <1>4, <3>1, <3>2 DEF SetValue
  <2>2. OtherTyped'
    BY <1>0, <1>4, <2>1 DEF SetValue, OtherTyped
  <2> QED
    BY <2>1, <2>2, TypePartsNext
<1>5. CASE ResetDeviceState
  <2>1. RebootTyped'
    BY <1>0, <1>5 DEF ResetDeviceState, RebootTyped, Labels, Changing, dev, ui, ghosts
  <2>2. OtherTyped'
    BY <1>0, <1>5 DEF ResetDeviceState, OtherTyped, dev, ghosts
  <2> QED
    BY <2>1, <2>2, TypePartsNext
<1>6. CASE UndoValue
  <2>1. RebootTyped'
    BY <1>0, <1>2, <1>6, ReturnType DEF UndoValue
  <2>2. OtherTyped'
    BY <1>0, <1>2, <1>6 DEF UndoValue, OtherTyped
  <2> QED
    BY <2>1, <2>2, TypePartsNext
<1>7. CASE WriteWipe
  <2>1. RebootTyped'
    BY <1>0, <1>1, <1>7, ReturnType DEF WriteWipe
  <2>2. OtherTyped'
    BY <1>0, <1>7 DEF WriteWipe, WipeMessage, Message, OtherTyped, Commands
  <2> QED
    BY <2>1, <2>2, TypePartsNext
<1> QED
  BY <1>3, <1>4, <1>5, <1>6, <1>7

(* The boot decision, the commands and menus.                              *)
LEMMA TypeBoot ==
  ASSUME TypeOK,
         \/ BootDecision \/ SetDeviceUnlockAsk \/ SetDeviceUnlockDirect
         \/ MenuConfirm \/ MenuDecline \/ MenuRecovery \/ HandleActiveSlotUnbootable
         \/ CmdReboot \/ CmdContinue
  PROVE  TypeOK'
<1>0. RebootTyped /\ OtherTyped
  BY TypeParts
<1>1. CASE BootDecision
  <2>1. vab' \in Copies
    BY <1>0, <1>1, GetStatusType
    DEF BootDecision, FastbootInitialize, NoFastboot, RebootTyped, ui
  <2>2. pc' \in Labels /\ allow' \in BOOLEAN /\ UNCHANGED <<flag, display, menu>>
    BY <1>0, <1>1
    DEF BootDecision, FastbootInitialize, NoFastboot, RebootTyped, Labels, ui
  <2>3. RebootTyped'
    BY <1>0, <1>1, <2>1, <2>2 DEF BootDecision, RebootTyped, Reasons, dev, ghosts
  <2>4. OtherTyped'
    BY <1>0, <1>1 DEF BootDecision, OtherTyped, dev, ghosts
  <2> QED
    BY <2>3, <2>4, TypePartsNext
<1>2. CASE SetDeviceUnlockAsk
  <2>1. menu' \in Args
    BY <1>2 DEF SetDeviceUnlockAsk, Args
  <2>2. RebootTyped'
    BY <1>0, <1>2, <2>1 DEF SetDeviceUnlockAsk, RebootTyped, dev, ghosts
  <2>3. OtherTyped'
    BY <1>0, <1>2 DEF SetDeviceUnlockAsk, OtherTyped, dev, ghosts
  <2> QED
    BY <2>2, <2>3, TypePartsNext
<1>3. CASE SetDeviceUnlockDirect
  <2>1. arg' \in Args
    BY <1>3 DEF SetDeviceUnlockDirect, Args
  <2>2. before' \in LockPairs
    BY <1>0, <1>3, WithLockType
    DEF SetDeviceUnlockDirect, RebootTyped, Locks, LockPairs, DevInfoRecord
  <2>3. RebootTyped'
    BY <1>0, <1>3, <2>1, <2>2
    DEF SetDeviceUnlockDirect, RebootTyped, Labels, Changing, dev, ui
  <2>4. OtherTyped'
    BY <1>0, <1>3 DEF SetDeviceUnlockDirect, OtherTyped, dev
  <2> QED
    BY <2>3, <2>4, TypePartsNext
<1>4. CASE MenuConfirm
  <2>1. Locks(DevInfo) \in LockPairs
    BY <1>0 DEF RebootTyped, Locks, LockPairs, DevInfoRecord
  <2>2. RebootTyped'
    <3>1. CASE RebootDevice("recovery")
      BY <1>0, <3>1, RebootType DEF Reasons
    <3>2. CASE ~RebootDevice("recovery")
      BY <1>0, <1>4, <2>1, <3>2 DEF MenuConfirm, RebootTyped, Labels, Changing, ui
    <3> QED
      BY <3>1, <3>2
  <2>3. OtherTyped'
    BY <1>0, <1>4 DEF MenuConfirm, OtherTyped
  <2> QED
    BY <2>2, <2>3, TypePartsNext
<1>5. CASE MenuDecline \/ MenuRecovery \/ CmdReboot
  <2>1. PICK r \in Reasons : RebootDevice(r)
    BY <1>5 DEF MenuDecline, MenuRecovery, CmdReboot, Reasons
  <2>2. OtherTyped'
    BY <1>0, <1>5 DEF MenuDecline, MenuRecovery, CmdReboot, OtherTyped
  <2> QED
    BY <1>0, <2>1, <2>2, RebootType, TypePartsNext
<1>6. CASE CmdContinue
  <2>1. RebootTyped'
    BY <1>0, <1>6 DEF CmdContinue, RebootTyped, Labels, dev, ui, ghosts
  <2>2. OtherTyped'
    BY <1>0, <1>6 DEF CmdContinue, OtherTyped, dev, ghosts
  <2> QED
    BY <2>1, <2>2, TypePartsNext
<1>7. CASE HandleActiveSlotUnbootable
  <2>1. RebootTyped'
    BY <1>0, <1>7, RebootType DEF HandleActiveSlotUnbootable, Reasons
  <2>2. OtherTyped'
    BY <1>0, <1>7 DEF HandleActiveSlotUnbootable, Against, OtherTyped
  <2> QED
    BY <2>1, <2>2, TypePartsNext
<1> QED
  BY <1>1, <1>2, <1>3, <1>4, <1>5, <1>6, <1>7

(* The commands on messages and merge status.                              *)
LEMMA MiscType ==
  ASSUME OtherTyped, NEW c \in Commands, NEW s \in Merge
  PROVE  /\ misc \in Message /\ WriteRecoveryMessage(c) \in Message
         /\ Merged(s) \in Message /\ BlankMisc \in Message
<1>1. None \in Commands /\ "absent" \in Merge
  BY DEF Commands, Merge
<1> QED
  BY <1>1 DEF OtherTyped, WriteRecoveryMessage, Merged, BlankMisc, Message

LEMMA RebootWithType ==
  ASSUME RebootTyped, OtherTyped, NEW c \in Commands, NEW v \in Copies,
         RebootWith(c, v)
  PROVE  RebootTyped' /\ misc' \in Message
<1>1. misc' \in Message
  BY MiscType DEF RebootWith, OtherTyped, Merge
<1>2. CASE RebootDevice("normal")
  BY <1>1, <1>2, RebootType DEF Reasons
<1>3. CASE vab' = v
           /\ UNCHANGED <<DevInfo, reason, pc, ui, arg, answer, before, failed, missed,
                          under>>
  BY <1>1, <1>3 DEF RebootTyped, ui
<1> QED
  BY <1>2, <1>3 DEF RebootWith

LEMMA TypeMisc ==
  ASSUME TypeOK,
         \/ CmdRebootRecovery \/ CmdUpdateSnapshot \/ OverwriteSuper \/ WriteSuper
         \/ CmdSetActive \/ EraseCritical \/ FlashMisc
  PROVE  TypeOK'
<1>0. /\ RebootTyped /\ OtherTyped /\ vab \in Copies /\ Read \in Copies
      /\ {"boot-recovery", "boot-fastboot"} \subseteq Commands
      /\ "cancelled" \in Merge /\ "cancelled" \in Copies
  BY TypeParts, ReadType DEF RebootTyped, Commands, Merge, Copies
<1>M. \A n \in {misc, Merged("cancelled")} :
        n \in Message
  <2>1. misc \in Message
    BY <1>0 DEF OtherTyped
  <2> QED
    BY <1>0, <2>1 DEF Merged, Message
<1>1. CASE CmdRebootRecovery
  <2>1. RebootTyped' /\ misc' \in Message
    BY <1>0, <1>1, RebootWithType DEF CmdRebootRecovery
  <2>2. OtherTyped'
    BY <1>0, <1>1, <2>1 DEF CmdRebootRecovery, OtherTyped
  <2> QED
    BY <2>1, <2>2, TypePartsNext
<1>2. CASE CmdUpdateSnapshot
  <2>1. RebootTyped' /\ misc' \in Message
    <3>1. CASE RebootWith("boot-fastboot", Read)
      BY <1>0, <3>1, RebootWithType
    <3>2. CASE ~RebootWith("boot-fastboot", Read)
      <4>1. vab' \in Copies /\ misc' \in {misc, Merged("cancelled")}
        BY <1>0, <1>2, <3>2 DEF CmdUpdateSnapshot, SetSnapshotMergeStatus
      <4>2. RebootTyped'
        BY <1>0, <1>2, <3>2, <4>1 DEF CmdUpdateSnapshot, RebootTyped, ui
      <4>3. misc' \in Message
        BY <1>M, <4>1, Zenon
      <4> QED
        BY <4>2, <4>3, Zenon
    <3> QED
      BY <3>1, <3>2
  <2>2. OtherTyped'
    BY <1>0, <1>2, <2>1 DEF CmdUpdateSnapshot, OtherTyped
  <2> QED
    BY <2>1, <2>2, TypePartsNext
<1>3. CASE OverwriteSuper
  <2>1. /\ vab' \in Copies /\ missed' \in BOOLEAN
        /\ pc' \in Labels /\ misc' \in {misc, Merged("cancelled")}
    BY <1>0, <1>3, GetStatusType
    DEF OverwriteSuper, SetSnapshotMergeStatus, RebootTyped, Labels
  <2>2. RebootTyped'
    BY <1>0, <1>3, <2>1 DEF OverwriteSuper, RebootTyped, dev, ui
  <2>3. misc' \in Message
    BY <1>M, <2>1, Zenon
  <2>4. OtherTyped'
    BY <1>0, <1>3, <2>3 DEF OverwriteSuper, OtherTyped, dev
  <2> QED
    BY <2>2, <2>4, TypePartsNext
<1>4. CASE WriteSuper
  <2>1. RebootTyped'
    BY <1>0, <1>4 DEF WriteSuper, RebootTyped, Labels, dev, ui
  <2>2. OtherTyped'
    BY <1>0, <1>4, CheckedType DEF WriteSuper, OtherTyped, dev
  <2> QED
    BY <2>1, <2>2, TypePartsNext
<1>5. CASE CmdSetActive
  <2>1. PICK s, seen : GetSnapshotMergeStatus(s, seen)
                       /\ Checked("active", {"merging"}, seen)
    BY <1>5 DEF CmdSetActive
  <2>2. RebootTyped'
    BY <1>0, <1>5, <2>1, GetStatusType DEF CmdSetActive, RebootTyped, dev, ui
  <2>3. OtherTyped'
    BY <1>0, <1>5, <2>1, CheckedType DEF CmdSetActive, OtherTyped, dev
  <2> QED
    BY <2>2, <2>3, TypePartsNext
<1>6. CASE EraseCritical \/ FlashMisc
  <2>1. PICK w \in {"misc", "userdata"} : Critical(w)
    BY <1>6 DEF EraseCritical, FlashMisc
  <2>2. PICK s, seen : GetSnapshotMergeStatus(s, seen) /\ Checked(w, Underway, seen)
    BY <2>1 DEF Critical
  <2>3. under' \in BOOLEAN /\ cut' \in BOOLEAN /\ data' \in SUBSET LockPairs
    BY <1>0, <1>6 DEF EraseCritical, FlashMisc, RebootTyped, OtherTyped
  <2>4. RebootTyped'
    BY <1>0, <2>1, <2>2, <2>3, GetStatusType DEF Critical, RebootTyped, dev, ui
  <2>5. misc' \in Message
    BY <1>0, <1>6, MiscType DEF EraseCritical, FlashMisc
  <2>6. OtherTyped'
    BY <1>0, <2>1, <2>2, <2>3, <2>5, CheckedType DEF Critical, OtherTyped, dev
  <2> QED
    BY <2>4, <2>6, TypePartsNext
<1> QED
  BY <1>1, <1>2, <1>3, <1>4, <1>5, <1>6

LEMMA TypeEnvironment ==
  ASSUME TypeOK, Environment
  PROVE  TypeOK'
<1>0. RebootTyped /\ OtherTyped /\ {None, "snapshotted", "merging"} \subseteq Merge
  BY TypeParts DEF Merge
<1>1. CASE RecoveryWipe \/ RecoveryClear \/ StoreData \/ UpdateStep
  <2>1. RebootTyped'
    BY <1>0, <1>1
    DEF RecoveryWipe, RecoveryClear, StoreData, UpdateStep, RebootTyped, Labels,
        dev, ui, ghosts
  <2>2. misc' \in Message
    <3>1. misc \in Message
      BY <1>0 DEF OtherTyped
    <3>2. CASE RecoveryClear
      BY <3>1, <3>2 DEF RecoveryClear, Commands, Message
    <3>3. CASE UpdateStep
      <4>1. PICK s \in Merge : misc' = [misc EXCEPT !.merge = s]
        BY <1>0, <3>3 DEF UpdateStep
      <4> QED
        BY <3>1, <4>1 DEF Message
    <3>4. CASE RecoveryWipe \/ StoreData
      BY <3>1, <3>4 DEF RecoveryWipe, StoreData
    <3> QED
      BY <1>1, <3>2, <3>3, <3>4
  <2>3. data' \in SUBSET LockPairs
    <3>1. Locks(DevInfo) \in LockPairs /\ data \in SUBSET LockPairs
      BY <1>0 DEF RebootTyped, OtherTyped, Locks, LockPairs, DevInfoRecord
    <3> QED
      BY <1>1, <3>1 DEF RecoveryWipe, RecoveryClear, StoreData, UpdateStep, ghosts
  <2>4. OtherTyped'
    BY <1>0, <1>1, <2>2, <2>3
    DEF RecoveryWipe, RecoveryClear, StoreData, UpdateStep, OtherTyped, dev, ghosts
  <2> QED
    BY <2>1, <2>4, TypePartsNext
<1>2. CASE Leave \/ PowerLoss
  <2>1. PICK r \in Reasons : RebootDevice(r)
    BY <1>2 DEF Leave, PowerLoss, Reasons
  <2>2. OtherTyped'
    BY <1>0, <1>2 DEF Leave, PowerLoss, OtherTyped
  <2> QED
    BY <1>0, <2>1, <2>2, RebootType, TypePartsNext
<1> QED
  BY <1>1, <1>2 DEF Environment

LEMMA TypeNext == TypeOK /\ [Next]_vars => TypeOK'
<1>1. ASSUME TypeOK, Next PROVE TypeOK'
  BY <1>1, TypeLock, TypeBoot, TypeMisc, TypeEnvironment
  DEF Next, Loader, FastbootCommands
<1>2. ASSUME TypeOK, UNCHANGED vars PROVE TypeOK'
  BY <1>2 DEF vars, dev, ui, ghosts, TypeOK
<1> QED
  BY <1>1, <1>2

(* The type invariant of the lock state: no operation on device info, misc *)
(* or merge status leaves a variable outside its type.                     *)
THEOREM TypeCorrect == Spec => []TypeOK
  BY TypeInit, TypeNext, PTL DEF Spec

-----------------------------------------------------------------------------
(* The inductive invariant of the safety properties.                       *)

(* Nothing of an earlier session is left at power on, and what a session    *)
(* keeps from it belongs to it.                                            *)
Session ==
  /\ pc \in {"off", "boot", "recovery", "wiped"} => ~failed /\ answer = None
  /\ pc \in Changing => answer = None
  /\ failed => cut
  /\ pc \in {"off", "boot"} => vab = "null" /\ menu = NoArg

(* A record without magic has never been booted with.                      *)
Initialized ==
  /\ pc \notin {"off", "dead"} => DevInfo.magic /\ stored.magic
  /\ ~stored.magic => data = {}
  /\ pc = "wiped" => data = {}

(* A menu that is shown asks for a change that is still one, and a change   *)
(* under way was asked for by the menu, where it can be shown, or by the    *)
(* command, where it cannot.                                               *)
Asked ==
  /\ menu # NoArg => flag /\ display /\ menu.from = "menu"
  /\ menu # NoArg /\ pc \in {"fastboot", "super"} =>
       LockValue(DevInfo, menu.type) = ~menu.state
  /\ pc \in Changing => arg.from = "menu" \/ ~(display /\ flag)

(* What the value in RAM is and was at each step of SetDeviceUnlockValue.  *)
Progress ==
  /\ pc = "set" =>
       LockValue(DevInfo, arg.type) = ~arg.state /\ before = Locks(DevInfo)
  /\ pc \in {"tee", "undo", "misc"} => Locks(Undone) = before

(* The order to wipe before and while the lock values change.              *)
Ordered ==
  /\ ~cut /\ pc \notin {"tee", "undo", "misc"} =>
       Outdated = {} \/ misc.recovery = "wipe"
  /\ ~cut /\ pc \in {"tee", "undo", "misc"} =>
       data \subseteq {before} \/ misc.recovery = "wipe"

(* The copy of the merge status, where there is one, is the one on flash   *)
(* while that one forbids anything, unless misc was flashed under it.      *)
Cached ==
  /\ pc \in {"fastboot", "super"} \cup Changing /\ ~under
       /\ vab # "null" /\ misc.merge \in Underway => vab = misc.merge
  /\ pc = "super" /\ ~missed /\ ~under => misc.merge \notin Underway
  /\ overrun \subseteq {"fallback"}

LockInv ==
  /\ Session /\ Initialized /\ Asked /\ Progress
  /\ RamAgrees /\ Ordered /\ FailureUndone /\ Cached

(* Setting a lock value that was different and setting it back restores    *)
(* both lock values.                                                       *)
LEMMA LockFacts ==
  ASSUME NEW d \in DevInfoRecord, NEW t \in Type, NEW s \in BOOLEAN
  PROVE  /\ WithLock(d, t, s).magic = d.magic
         /\ LockValue(d, t) = ~s =>
              Locks(WithLock(WithLock(d, t, s), t, ~s)) = Locks(d)
  BY DEF WithLock, LockValue, Locks, DevInfoRecord, Type

LEMMA SafeInit == Init => LockInv
<1> SUFFICES ASSUME Init PROVE LockInv
  OBVIOUS
<1>1. Session /\ Initialized /\ Asked /\ Progress /\ RamAgrees /\ FailureUndone
  BY DEF Init, Session, Initialized, Asked, Progress, RamAgrees, FailureUndone,
         Changing, None
<1>2. Ordered /\ Cached
  BY DEF Init, Ordered, Cached, Outdated, Changing, BlankMisc, Underway
<1> QED
  BY <1>1, <1>2 DEF LockInv

(* A reboot forgets all but the order to wipe.                             *)
LEMMA RebootSafe ==
  ASSUME LockInv, NEW r, RebootDevice(r), UNCHANGED data,
         overrun' = overrun \/ overrun' \subseteq {"fallback"}, stored' = stored \/ stored'.magic
  PROVE  /\ Session' /\ Initialized' /\ Asked' /\ Progress'
         /\ RamAgrees' /\ FailureUndone' /\ Cached'
<1>1. Session' /\ Initialized' /\ Cached'
  BY DEF LockInv, RebootDevice, Session, Initialized, Cached, Changing
<1>2. Asked' /\ Progress' /\ RamAgrees' /\ FailureUndone'
  BY DEF RebootDevice, Asked, Progress, RamAgrees, FailureUndone, Changing
<1> QED
  BY <1>1, <1>2

(* A reboot outside a lock change keeps the order to wipe too.             *)
LEMMA PlainReboot ==
  ASSUME LockInv, NEW r, RebootDevice(r), UNCHANGED <<stored, data>>,
         overrun' = overrun \/ overrun' \subseteq {"fallback"},
         pc \notin {"tee", "undo", "misc"}, cut' = cut,
         misc'.recovery = misc.recovery
  PROVE  LockInv'
<1>1. Ordered'
  BY DEF LockInv, Ordered, Outdated, RebootDevice
<1> QED
  BY <1>1, RebootSafe DEF LockInv

LEMMA SafePowerOn ==
  ASSUME TypeOK, LockInv, PowerOn
  PROVE  LockInv'
<1>1. Session' /\ Asked' /\ Progress' /\ RamAgrees' /\ FailureUndone' /\ Cached'
  BY DEF LockInv, PowerOn, DeviceInfoInit, WriteDevInfo, Session, Asked, Progress,
         RamAgrees, FailureUndone, Cached, Changing, dev, ui, ghosts, None
<1>2. Initialized'
  BY DEF LockInv, PowerOn, DeviceInfoInit, WriteDevInfo, DefaultDevInfo, NoDevInfo,
         Initialized, dev, ghosts
<1>3. Ordered'
  BY DEF LockInv, PowerOn, DeviceInfoInit, WriteDevInfo, Initialized, Ordered,
         Outdated, dev, ghosts
<1> QED
  BY <1>1, <1>2, <1>3 DEF LockInv

(* What a look at the merge status leaves in RAM, and what it says when it *)
(* does not miss.                                                          *)
LEMMA StatusSafe ==
  ASSUME TypeOK, Cached, pc \in {"boot", "fastboot"}, pc = "boot" => vab = "null",
         NEW s, NEW seen, GetSnapshotMergeStatus(s, seen), ~under
  PROVE  /\ vab' # "null" /\ misc.merge \in Underway => vab' = misc.merge
         /\ seen /\ misc.merge \in Underway => s = misc.merge
  BY DEF TypeOK, Cached, GetSnapshotMergeStatus, MergeStatus, Read, Underway, Merge

LEMMA SafeBootDecision ==
  ASSUME TypeOK, LockInv, BootDecision
  PROVE  LockInv'
<1> USE DEF BootDecision, NoFastboot, FastbootInitialize, dev, ui, ghosts
<1>0. pc = "boot" /\ pc' \in {"fastboot", "dead", "recovery", "hlos"}
  OBVIOUS
<1>1. Session' /\ Progress' /\ RamAgrees' /\ FailureUndone'
  BY <1>0 DEF LockInv, Session, Progress, RamAgrees, FailureUndone, Changing, None
<1>2. Initialized' /\ Ordered'
  BY <1>0 DEF LockInv, Initialized, Ordered, Outdated
<1>3. Asked'
  BY <1>0 DEF LockInv, Session, Asked, Changing
<1>4. Cached'
  <2>1. CASE \E s \in Merge, seen \in BOOLEAN : GetSnapshotMergeStatus(s, seen)
    BY <1>0, <2>1, StatusSafe DEF LockInv, Session, Cached, Changing
  <2>2. CASE pc' # "fastboot"
    BY <1>0, <2>2 DEF LockInv, Cached, Changing
  <2> QED
    BY <2>1, <2>2
<1> QED
  BY <1>1, <1>2, <1>3, <1>4 DEF LockInv

(* The steps of a lock change.                                             *)
LEMMA SafeSetValue ==
  ASSUME TypeOK, LockInv, SetValue
  PROVE  LockInv'
<1>0. /\ DevInfo \in DevInfoRecord /\ arg.type \in Type /\ arg.state \in BOOLEAN
      /\ pc = "set" /\ failed \in BOOLEAN /\ cut \in BOOLEAN
  BY DEF TypeOK, Args, SetValue
<1>1. Wanted.magic /\ DevInfo.magic /\ stored.magic
  BY <1>0, LockFacts DEF LockInv, Initialized, Wanted
<1>2. CASE WriteDevInfo(Wanted) /\ pc' = "tee"
           /\ UNCHANGED <<vab, reason, ui, arg, answer, before, failed, cut, missed,
                          under>>
  <2>0. UNCHANGED <<misc, data, overrun>>
    BY DEF SetValue
  <2>1. Session' /\ Initialized' /\ Asked' /\ RamAgrees' /\ FailureUndone' /\ Cached'
    BY <1>0, <1>1, <1>2, <2>0
    DEF LockInv, WriteDevInfo, Session, Initialized, Asked, RamAgrees, FailureUndone,
        Cached, Changing, ui, None
  <2>2. Progress'
    BY <1>0, <1>2, LockFacts DEF LockInv, WriteDevInfo, Progress, Wanted, Undone
  <2>3. Ordered'
    BY <1>0, <1>2, <2>0
    DEF LockInv, Session, RamAgrees, Progress, Ordered, Outdated
  <2> QED
    BY <2>1, <2>2, <2>3 DEF LockInv
<1>3. CASE Return(FALSE, Wanted, TRUE) /\ UNCHANGED stored /\ cut' = TRUE
  <2>0. UNCHANGED <<misc, data, overrun>>
    BY DEF SetValue
  <2>1. Ordered' /\ FailureUndone'
    BY <1>3 DEF Ordered, FailureUndone
  <2>2. CASE RebootDevice("recovery")
    BY <1>3, <2>0, <2>1, <2>2, RebootSafe DEF LockInv
  <2>3. CASE ~(arg.from = "menu") /\ pc' = "fastboot" /\ DevInfo' = Wanted
             /\ failed' = (failed \/ TRUE)
             /\ UNCHANGED <<vab, reason, ui, before, missed, under>>
    <3>1. Session' /\ Initialized' /\ Progress' /\ RamAgrees' /\ Cached'
      BY <1>0, <1>1, <1>3, <2>0, <2>3
      DEF LockInv, Session, Initialized, Progress, RamAgrees, Cached, Changing, ui
    <3>2. Asked'
      BY <1>0, <2>3 DEF LockInv, Asked, Changing, ui
    <3> QED
      BY <2>1, <3>1, <3>2 DEF LockInv
  <2> QED
    BY <1>3, <2>2, <2>3 DEF Return
<1> QED
  BY <1>2, <1>3 DEF SetValue

LEMMA SafeResetDeviceState ==
  ASSUME TypeOK, LockInv, ResetDeviceState
  PROVE  LockInv'
<1> USE DEF ResetDeviceState, dev, ui, ghosts
<1>1. Session' /\ Initialized' /\ Asked' /\ RamAgrees' /\ FailureUndone' /\ Cached'
  BY DEF LockInv, Session, Initialized, Asked, RamAgrees, FailureUndone, Cached,
         Changing, None
<1>2. Progress' /\ Ordered'
  BY DEF LockInv, Progress, Ordered, Undone
<1> QED
  BY <1>1, <1>2 DEF LockInv

LEMMA SafeUndoValue ==
  ASSUME TypeOK, LockInv, UndoValue
  PROVE  LockInv'
<1>0. /\ DevInfo \in DevInfoRecord /\ arg.type \in Type /\ arg.state \in BOOLEAN
      /\ (~arg.state) \in BOOLEAN /\ pc = "undo" /\ UNCHANGED <<misc, data, overrun>>
      /\ failed \in BOOLEAN /\ cut \in BOOLEAN
  BY DEF TypeOK, Args, UndoValue
<1>1. Undone.magic /\ stored.magic /\ Locks(Undone) = before
  BY <1>0, LockFacts DEF LockInv, Initialized, Progress, Undone
<1>2. PICK f \in BOOLEAN : /\ Return(FALSE, Undone, f)
                           /\ ~f => stored' = Undone /\ cut' = cut
                           /\ f => stored' = stored /\ cut' = TRUE
  BY DEF UndoValue
<1>3. CASE RebootDevice("recovery")
  <2>1. Ordered'
    BY <1>0, <1>1, <1>2, <1>3 DEF LockInv, Ordered, Outdated, RebootDevice
  <2> QED
    BY <1>0, <1>1, <1>2, <1>3, <2>1, RebootSafe DEF LockInv
<1>4. CASE ~(arg.from = "menu") /\ pc' = "fastboot" /\ DevInfo' = Undone
           /\ failed' = (failed \/ f)
           /\ UNCHANGED <<vab, reason, ui, before, missed, under>>
  <2>1. Session' /\ Initialized' /\ Progress' /\ Cached'
    BY <1>0, <1>1, <1>2, <1>4
    DEF LockInv, Session, Initialized, Progress, Cached, Changing
  <2>2. RamAgrees' /\ FailureUndone'
    BY <1>0, <1>1, <1>2, <1>4 DEF RamAgrees, FailureUndone
  <2>3. Asked'
    BY <1>0, <1>4 DEF LockInv, Asked, Changing, ui
  <2>4. Ordered'
    BY <1>0, <1>1, <1>2, <1>4 DEF LockInv, Ordered, Outdated
  <2> QED
    BY <2>1, <2>2, <2>3, <2>4 DEF LockInv
<1> QED
  BY <1>2, <1>3, <1>4 DEF Return

LEMMA SafeWriteWipe ==
  ASSUME TypeOK, LockInv, WriteWipe
  PROVE  LockInv'
<1>0. /\ pc = "misc" /\ UNCHANGED <<stored, data, overrun>>
      /\ failed \in BOOLEAN /\ cut \in BOOLEAN /\ stored.magic
      /\ misc \in Message
  BY DEF TypeOK, WriteWipe, LockInv, Initialized
<1>1. PICK ok \in BOOLEAN : /\ Return(ok, DevInfo, FALSE)
                            /\ ok => misc'.recovery = "wipe" /\ cut' = cut
                            /\ ~ok => cut' = TRUE
                            /\ misc'.merge = misc.merge
  BY <1>0 DEF WriteWipe, WipeMessage, Message
<1>2. Ordered'
  BY <1>1 DEF Return, RebootDevice, Ordered
<1>3. CASE RebootDevice("recovery")
  BY <1>0, <1>2, <1>3, RebootSafe DEF LockInv
<1>4. CASE /\ ~(arg.from = "menu") /\ pc' = "fastboot" /\ DevInfo' = DevInfo
           /\ failed' = (failed \/ FALSE) /\ answer' = (IF ok THEN "okay" ELSE "fail")
           /\ UNCHANGED <<vab, reason, ui, before, missed, under>>
  <2>1. Session' /\ Initialized' /\ Progress' /\ Cached' /\ RamAgrees'
    BY <1>0, <1>1, <1>4
    DEF LockInv, Session, Initialized, Progress, Cached, Changing, RamAgrees
  <2>2. FailureUndone'
    BY <1>1, <1>4 DEF FailureUndone
  <2>3. Asked'
    BY <1>0, <1>4 DEF LockInv, Asked, Changing, ui
  <2> QED
    BY <1>2, <2>1, <2>2, <2>3 DEF LockInv
<1> QED
  BY <1>1, <1>3, <1>4 DEF Return

(* The commands of fastboot and its menus.                                 *)
LEMMA SafeLockCommands ==
  ASSUME TypeOK, LockInv,
         SetDeviceUnlockAsk \/ SetDeviceUnlockDirect \/ MenuConfirm
         \/ MenuDecline \/ MenuRecovery \/ HandleActiveSlotUnbootable
  PROVE  LockInv'
<1>0. /\ \A t \in Type : LockValue(DevInfo, t) \in BOOLEAN
      /\ menu \in Args
  BY DEF TypeOK, LockValue, DevInfoRecord
<1>1. CASE SetDeviceUnlockAsk
  <2> USE <1>1 DEF SetDeviceUnlockAsk, Idle, dev, ui, ghosts
  <2>1. Session' /\ Initialized' /\ RamAgrees' /\ FailureUndone' /\ Cached'
    BY DEF LockInv, Session, Initialized, RamAgrees, FailureUndone, Cached, Changing
  <2>2. Progress' /\ Ordered'
    BY DEF LockInv, Progress, Ordered, Outdated
  <2>3. Asked'
    BY <1>0 DEF LockInv, Asked, Refused, Changing
  <2> QED
    BY <2>1, <2>2, <2>3 DEF LockInv
<1>2. CASE SetDeviceUnlockDirect
  <2> USE <1>2 DEF SetDeviceUnlockDirect, Idle, dev, ui
  <2>1. Session' /\ Initialized' /\ RamAgrees' /\ FailureUndone' /\ Cached'
    BY DEF LockInv, Session, Initialized, RamAgrees, FailureUndone, Cached, Changing,
           None
  <2>2. Asked' /\ Ordered'
    BY DEF LockInv, Asked, Ordered, Outdated
  <2>3. Progress'
    BY <1>0 DEF LockInv, Progress, Refused
  <2> QED
    BY <2>1, <2>2, <2>3 DEF LockInv
<1>3. CASE MenuConfirm /\ pc' = "set"
  <2>0. /\ pc \in {"fastboot", "super"} /\ menu # NoArg
        /\ arg' = menu /\ answer' = None /\ before' = Locks(DevInfo)
        /\ UNCHANGED <<DevInfo, stored, vab, ui, failed, missed, under, misc, data, cut,
                       overrun>>
    BY <1>3 DEF MenuConfirm, RebootDevice
  <2> USE <1>3, <2>0 DEF ui
  <2>1. Session' /\ Initialized' /\ RamAgrees' /\ FailureUndone' /\ Cached'
    BY DEF LockInv, Session, Initialized, RamAgrees, FailureUndone, Cached, Changing,
           None
  <2>2. Asked' /\ Ordered'
    BY DEF LockInv, Asked, Ordered, Outdated, Changing
  <2>3. Progress'
    BY DEF LockInv, Asked, Progress
  <2> QED
    BY <2>1, <2>2, <2>3 DEF LockInv
<1>4. CASE (MenuConfirm /\ pc' # "set") \/ MenuDecline \/ MenuRecovery
  <2>1. /\ pc \in {"fastboot", "super"} /\ \E r \in Reasons : RebootDevice(r)
        /\ UNCHANGED <<stored, misc, data, cut, overrun>>
    BY <1>4 DEF MenuConfirm, MenuDecline, MenuRecovery, Reasons
  <2> QED
    BY <2>1, PlainReboot
<1>5. CASE HandleActiveSlotUnbootable
  <2>1. overrun' \subseteq {"fallback"}
    BY <1>5 DEF HandleActiveSlotUnbootable, Against, LockInv, Cached
  <2>2. pc \in {"boot", "fastboot", "super"}
    BY <1>5 DEF HandleActiveSlotUnbootable, Idle
  <2> QED
    BY <1>5, <2>1, <2>2, PlainReboot DEF HandleActiveSlotUnbootable
<1> QED
  BY <1>1, <1>2, <1>3, <1>4, <1>5

(* A write to misc that leaves the order to wipe, and a merge status that  *)
(* agrees with the copy.                                                   *)
LEMMA MiscSafe ==
  ASSUME LockInv, pc \in {"fastboot", "super"}, pc' \in {"fastboot", "super"},
         UNCHANGED <<dev, menu, flag, display, arg, answer, before, failed, data, cut>>,
         misc'.recovery = misc.recovery, Cached'
  PROVE  LockInv'
<1>1. Session' /\ Initialized' /\ RamAgrees' /\ FailureUndone'
  BY DEF LockInv, Session, Initialized, RamAgrees, FailureUndone, Changing, dev
<1>2. Asked' /\ Progress' /\ Ordered'
  BY DEF LockInv, Asked, Progress, Ordered, Outdated, Changing, dev
<1> QED
  BY <1>1, <1>2 DEF LockInv

LEMMA RebootWithSafe ==
  ASSUME TypeOK, LockInv, Idle, NEW c, NEW v \in {vab, Read}, RebootWith(c, v),
         UNCHANGED <<stored, data, cut, overrun>>
  PROVE  LockInv'
<1>0. /\ misc'.recovery = misc.recovery /\ misc'.merge = misc.merge
      /\ pc = "fastboot"
  BY DEF TypeOK, Message, RebootWith, WriteRecoveryMessage, Idle
<1>1. CASE RebootDevice("normal")
  BY <1>0, <1>1, PlainReboot
<1>2. CASE /\ vab' = v
           /\ UNCHANGED <<DevInfo, reason, pc, ui, arg, answer, before, failed, missed,
                          under>>
  <2>1. Cached'
    BY <1>0, <1>2 DEF LockInv, Cached, Read, Changing
  <2> QED
    BY <1>0, <1>2, <2>1, MiscSafe DEF dev, ui
<1> QED
  BY <1>1, <1>2 DEF RebootWith

LEMMA SafeReboots ==
  ASSUME TypeOK, LockInv, CmdRebootRecovery \/ CmdReboot \/ CmdContinue
  PROVE  LockInv'
<1>1. CASE CmdRebootRecovery
  BY <1>1, RebootWithSafe DEF CmdRebootRecovery
<1>2. CASE CmdReboot
  BY <1>2, PlainReboot DEF CmdReboot, Idle
<1>3. CASE CmdContinue
  <2> USE <1>3 DEF CmdContinue, Idle, dev, ui, ghosts
  <2>1. Session' /\ Initialized' /\ RamAgrees' /\ FailureUndone' /\ Cached'
    BY DEF LockInv, Session, Initialized, RamAgrees, FailureUndone, Cached, Changing
  <2>2. Asked' /\ Progress' /\ Ordered'
    BY DEF LockInv, Asked, Progress, Ordered, Outdated, Changing
  <2> QED
    BY <2>1, <2>2 DEF LockInv
<1> QED
  BY <1>1, <1>2, <1>3

(* What SetSnapshotMergeStatus leaves of the copy and of misc.             *)
LEMMA SetStatusSafe ==
  ASSUME TypeOK, NEW v, NEW ok \in BOOLEAN,
         SetSnapshotMergeStatus("cancelled", v, ok),
         v # "null" /\ misc.merge \in Underway => v = misc.merge
  PROVE  /\ misc'.recovery = misc.recovery
         /\ vab' # "null" /\ misc'.merge \in Underway => vab' = misc'.merge
         /\ ok => misc'.merge \notin Underway
  BY DEF TypeOK, Message, SetSnapshotMergeStatus, Merged, Underway

(* A command that was not misled has not overrun a merge.                  *)
LEMMA CheckedSafe ==
  ASSUME Cached, NEW w, NEW f, NEW seen \in BOOLEAN, Checked(w, f, seen),
         seen /\ ~under => misc.merge \notin f
  PROVE  overrun' \subseteq {"fallback"}
  BY DEF Cached, Checked, Against

LEMMA SafeStatusCommands ==
  ASSUME TypeOK, LockInv,
         CmdUpdateSnapshot \/ OverwriteSuper \/ WriteSuper \/ CmdSetActive
         \/ EraseCritical \/ FlashMisc
  PROVE  LockInv'
<1>0. /\ Cached
      /\ pc \in {"fastboot", "super"} /\ ~under /\ vab # "null"
           /\ misc.merge \in Underway => vab = misc.merge
      /\ overrun \subseteq {"fallback"}
  BY DEF LockInv, Cached
<1>1. CASE CmdUpdateSnapshot
  <2>1. CASE RebootWith("boot-fastboot", Read)
    BY <1>1, <2>1, RebootWithSafe DEF CmdUpdateSnapshot
  <2>2. CASE \E ok \in BOOLEAN :
               /\ SetSnapshotMergeStatus("cancelled", vab, ok)
               /\ UNCHANGED <<DevInfo, reason, pc, ui, arg, answer, before, failed,
                              missed, under>>
    <3>1. PICK ok \in BOOLEAN : SetSnapshotMergeStatus("cancelled", vab, ok)
      BY <2>2
    <3>2. /\ pc = "fastboot" /\ pc' = "fastboot"
          /\ UNCHANGED <<DevInfo, stored, ui, arg, answer, before, failed, data, cut,
                         under, overrun>>
      BY <1>1, <2>2 DEF CmdUpdateSnapshot, Idle
    <3>3. misc'.recovery = misc.recovery
      BY <3>1 DEF TypeOK, Message, SetSnapshotMergeStatus, Merged
    <3>4. ~under /\ vab' # "null" /\ misc'.merge \in Underway => vab' = misc'.merge
      BY <1>0, <3>1, <3>2, SetStatusSafe
    <3>5. Cached'
      BY <1>0, <3>2, <3>4 DEF Cached
    <3> QED
      BY <3>2, <3>3, <3>5, MiscSafe DEF dev, ui
  <2> QED
    BY <1>1, <2>1, <2>2 DEF CmdUpdateSnapshot
<1>2. CASE OverwriteSuper
  <2>0. /\ pc = "fastboot" /\ pc' \in {"fastboot", "super"}
        /\ UNCHANGED <<dev, ui, arg, answer, before, failed, data, cut, under, overrun>>
    BY <1>2 DEF OverwriteSuper, Idle
  <2>1. misc'.recovery = misc.recovery /\ Cached'
    <3>1. CASE \E s \in Merge \ Underway, seen \in BOOLEAN :
                 /\ GetSnapshotMergeStatus(s, seen) /\ missed' = ~seen
                 /\ pc' = "super" /\ UNCHANGED misc
      <4>1. PICK s \in Merge \ Underway, seen \in BOOLEAN :
              /\ GetSnapshotMergeStatus(s, seen) /\ missed' = ~seen
              /\ pc' = "super" /\ UNCHANGED misc
        BY <3>1
      <4>2. CASE ~under
        <5>1. /\ vab' # "null" /\ misc.merge \in Underway => vab' = misc.merge
              /\ seen => misc.merge \notin Underway
          BY <1>0, <2>0, <4>1, <4>2, StatusSafe
        <5> QED
          BY <1>0, <2>0, <4>1, <5>1 DEF Cached
      <4>3. CASE under
        BY <1>0, <2>0, <4>1, <4>3 DEF Cached
      <4> QED
        BY <4>2, <4>3
    <3>2. CASE \E ok \in BOOLEAN :
                 /\ SetSnapshotMergeStatus("cancelled", Read, ok)
                 /\ pc' = IF ok THEN "super" ELSE "fastboot"
      <4>1. PICK ok \in BOOLEAN : /\ SetSnapshotMergeStatus("cancelled", Read, ok)
                                  /\ pc' = IF ok THEN "super" ELSE "fastboot"
        BY <3>2
      <4>2. misc'.recovery = misc.recovery
        BY <4>1 DEF TypeOK, Message, SetSnapshotMergeStatus, Merged
      <4>3. CASE ~under
        <5>1. Read # "null" /\ misc.merge \in Underway => Read = misc.merge
          BY <1>0, <2>0, <4>3 DEF Read
        <5>2. /\ vab' # "null" /\ misc'.merge \in Underway => vab' = misc'.merge
              /\ ok => misc'.merge \notin Underway
          BY <4>1, <5>1, SetStatusSafe
        <5> QED
          BY <1>0, <2>0, <4>1, <4>2, <5>2 DEF Cached
      <4>4. CASE under
        BY <1>0, <2>0, <4>2, <4>4 DEF Cached
      <4> QED
        BY <4>3, <4>4
    <3> QED
      BY <1>2, <3>1, <3>2 DEF OverwriteSuper
  <2> QED
    BY <2>0, <2>1, MiscSafe DEF ui
<1>3. CASE WriteSuper
  <2>1. missed \in BOOLEAN /\ (~missed) \in BOOLEAN
    BY DEF TypeOK
  <2>2. overrun' \subseteq {"fallback"}
    BY <1>0, <1>3, <2>1, CheckedSafe DEF WriteSuper, Cached
  <2>3. Cached'
    BY <1>0, <1>3, <2>2 DEF WriteSuper, Cached, Changing
  <2> QED
    BY <1>3, <2>3, MiscSafe DEF WriteSuper, ui
<1>4. CASE CmdSetActive
  <2>0. /\ pc = "fastboot" /\ pc' = "fastboot"
        /\ UNCHANGED <<dev, misc, ui, arg, answer, before, failed, data, cut, under>>
    BY <1>4 DEF CmdSetActive, Idle
  <2>1. PICK s \in Merge \ {"merging"}, seen \in BOOLEAN :
          GetSnapshotMergeStatus(s, seen) /\ Checked("active", {"merging"}, seen)
    BY <1>4 DEF CmdSetActive
  <2>2. ~under => /\ vab' # "null" /\ misc.merge \in Underway => vab' = misc.merge
                  /\ seen => misc.merge \notin {"merging"}
    BY <1>0, <2>0, <2>1, StatusSafe DEF Underway
  <2>3. overrun' \subseteq {"fallback"}
    BY <1>0, <2>1, <2>2, CheckedSafe
  <2>4. Cached'
    BY <1>0, <2>0, <2>2, <2>3 DEF Cached
  <2> QED
    BY <2>0, <2>4, MiscSafe DEF ui
<1>5. CASE EraseCritical \/ FlashMisc
  <2>1. PICK w \in {"misc", "userdata"} : Critical(w)
    BY <1>5 DEF EraseCritical, FlashMisc
  <2>2. /\ pc = "fastboot" /\ pc' = "fastboot"
        /\ UNCHANGED <<dev, ui, arg, answer, before, failed, missed>>
    BY <2>1 DEF Critical, Idle
  <2>3. PICK s \in Merge \ Underway, seen \in BOOLEAN :
          GetSnapshotMergeStatus(s, seen) /\ Checked(w, Underway, seen)
    BY <2>1 DEF Critical
  <2>4. ~under => /\ vab' # "null" /\ misc.merge \in Underway => vab' = misc.merge
                  /\ seen => misc.merge \notin Underway
    BY <1>0, <2>2, <2>3, StatusSafe
  <2>5. overrun' \subseteq {"fallback"}
    BY <1>0, <2>3, <2>4, CheckedSafe
  <2>6. Cached'
    <3>1. ~under' => /\ ~under
                     /\ \/ misc' = misc \/ misc'.merge \notin Underway
                        \/ vab' = "null"
      <4>1. under \in BOOLEAN
        BY DEF TypeOK
      <4>2. CASE EraseCritical
        BY <4>1, <4>2 DEF EraseCritical, BlankMisc, Underway
      <4>3. CASE FlashMisc
        BY <4>1, <4>3 DEF FlashMisc
      <4> QED
        BY <1>5, <4>2, <4>3
    <3> QED
      BY <2>2, <2>4, <2>5, <3>1 DEF Cached
  <2>7. Session' /\ Initialized' /\ RamAgrees' /\ FailureUndone'
    BY <1>5, <2>2
    DEF LockInv, EraseCritical, FlashMisc, Session, Initialized, RamAgrees,
        FailureUndone, Changing, dev, ui
  <2>8. Asked' /\ Progress' /\ Ordered'
    BY <1>5, <2>2
    DEF LockInv, EraseCritical, FlashMisc, Asked, Progress, Ordered, Outdated,
        Changing, dev, ui
  <2> QED
    BY <2>6, <2>7, <2>8 DEF LockInv
<1> QED
  BY <1>1, <1>2, <1>3, <1>4, <1>5

(* Recovery, Android and power losses.                                     *)
LEMMA SafeEnvironment ==
  ASSUME TypeOK, LockInv, Environment
  PROVE  LockInv'
<1>0. misc \in Message
      /\ cut \in BOOLEAN
  BY DEF TypeOK
<1>1. CASE RecoveryWipe \/ RecoveryClear \/ StoreData \/ UpdateStep
  <2> USE <1>1 DEF RecoveryWipe, RecoveryClear, StoreData, UpdateStep, dev, ui, ghosts
  <2>1. Session' /\ RamAgrees'
    BY DEF LockInv, Session, RamAgrees, Changing
  <2>2. Initialized' /\ Cached'
    BY DEF LockInv, Initialized, Cached, Changing
  <2>3. Asked' /\ Progress'
    BY DEF LockInv, Asked, Progress, Changing
  <2>4. FailureUndone'
    BY DEF LockInv, Session, FailureUndone, None
  <2>5. Ordered'
    BY <1>0
    DEF LockInv, Session, Initialized, RamAgrees, Ordered, Outdated, None, Message
  <2> QED
    BY <2>1, <2>2, <2>3, <2>4, <2>5 DEF LockInv
<1>2. CASE Leave
  BY <1>2, PlainReboot DEF Leave
<1>3. CASE PowerLoss
  <2>1. Ordered'
    BY <1>0, <1>3 DEF LockInv, PowerLoss, RebootDevice, Ordered, Outdated, Changing
  <2> QED
    BY <1>3, <2>1, RebootSafe DEF LockInv, PowerLoss
<1> QED
  BY <1>1, <1>2, <1>3 DEF Environment

LEMMA SafeStutter ==
  ASSUME LockInv, UNCHANGED vars
  PROVE  LockInv'
<1> USE DEF vars, dev, ui, ghosts
<1>1. Session' /\ Initialized' /\ Asked' /\ Progress'
  BY DEF LockInv, Session, Initialized, Asked, Progress, Undone
<1>2. RamAgrees' /\ Ordered' /\ FailureUndone' /\ Cached'
  BY DEF LockInv, RamAgrees, Ordered, FailureUndone, Cached, Outdated
<1> QED
  BY <1>1, <1>2 DEF LockInv

LEMMA SafeNext ==
  ASSUME TypeOK, LockInv, [Next]_vars
  PROVE  LockInv'
<1>1. CASE Loader
  BY <1>1, SafePowerOn, SafeBootDecision, SafeSetValue, SafeResetDeviceState,
     SafeUndoValue, SafeWriteWipe, SafeStatusCommands DEF Loader
<1>2. CASE FastbootCommands
  BY <1>2, SafeLockCommands, SafeReboots, SafeStatusCommands DEF FastbootCommands
<1> QED
  BY <1>1, <1>2, SafeEnvironment, SafeStutter DEF Next

(* The inductive invariant of the lock change and of the merge status      *)
(* holds in every reachable state.                                         *)
THEOREM LockInvariant == Spec => [](TypeOK /\ LockInv)
<1>1. Init => TypeOK /\ LockInv
  BY TypeInit, SafeInit
<1>2. TypeOK /\ LockInv /\ [Next]_vars => (TypeOK /\ LockInv)'
  BY TypeNext, SafeNext
<1> QED
  BY <1>1, <1>2, PTL DEF Spec

(* Whenever SetDeviceUnlockValue ran to its end without a failed write and *)
(* without a power loss inside it, personal data stored under other lock   *)
(* values is gone or the order to wipe it is in misc: no later command of  *)
(* fastboot, no reboot and no power loss takes the order away.             *)
THEOREM WipeOrdered == Spec => []WipePending
<1>1. TypeOK /\ LockInv => WipePending
  BY DEF LockInv, Ordered, WipePending, Changing
<1> QED
  BY <1>1, LockInvariant, PTL

(* The record in RAM that every check of the boot loader reads is the one  *)
(* in secure storage, unless a device info write has failed since power    *)
(* on.                                                                     *)
THEOREM RamIsStored == Spec => []RamAgrees
<1>1. TypeOK /\ LockInv => RamAgrees
  BY DEF LockInv
<1> QED
  BY <1>1, LockInvariant, PTL

(* A lock command that answers FAIL without a failed write to the device   *)
(* info or to misc has left the lock values as it found them: the undo of  *)
(* SetDeviceUnlockValue restores exactly what was there.                   *)
THEOREM FailureRestores == Spec => []FailureUndone
<1>1. TypeOK /\ LockInv => FailureUndone
  BY DEF LockInv
<1> QED
  BY <1>1, LockInvariant, PTL

(* The copy of the merge status that GetSnapshotMergeStatus reads once per *)
(* session is good enough: while the status on flash forbids it, no        *)
(* command writes super, misc or userdata and set_active leaves the slot   *)
(* alone, except a command whose own read failed and, after misc was       *)
(* flashed under the copy, those of the same session.  The slot changes of *)
(* HandleActiveSlotUnbootable are the only others.                         *)
THEOREM MergeIsRespected == Spec => []MergeRespected
<1>1. TypeOK /\ LockInv => MergeRespected
  BY DEF LockInv, Cached, MergeRespected
<1> QED
  BY <1>1, LockInvariant, PTL

=============================================================================
