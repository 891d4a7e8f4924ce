----------------------------- MODULE DeviceInfo -----------------------------
(***************************************************************************)
(* The device info record of                                               *)
(* src/QcomModulePkg/Library/BootLib/DeviceInfo.c: one copy in RAM that    *)
(* every check of the boot loader reads, one in secure storage that        *)
(* survives.  Every setter changes RAM first and then writes the whole     *)
(* record; a write that fails leaves RAM changed.                          *)
(***************************************************************************)
EXTENDS Naturals

CONSTANTS
  SecureBoot,   \* IsSecureBootEnabled ()
  Keys,         \* user public keys
  Digests,      \* hash tree digests of the operating systems
  MaxIndex      \* bound: the largest rollback index of an image

None == "none"

ASSUME DeviceInfoAssumption ==
  /\ SecureBoot \in BOOLEAN /\ MaxIndex \in Nat
  /\ None \notin Keys /\ None \notin Digests

(* The fields the boot loader bases decisions on; magic: DEVICE_MAGIC is   *)
(* there.                                                                  *)
DevInfoRecord ==
  [magic : BOOLEAN, unlocked : BOOLEAN, critical : BOOLEAN, verity : BOOLEAN,
   key : Keys \cup {None}, rollback : 0 .. MaxIndex,
   digest : Digests \cup {None}]

VARIABLES
  DevInfo,  \* the record in RAM
  stored    \* the record in secure storage

NoDevInfo ==
  [magic |-> FALSE, unlocked |-> FALSE, critical |-> FALSE, verity |-> FALSE,
   key |-> None, rollback |-> 0, digest |-> None]

(* What DeviceInfoInit writes over a record without magic.                 *)
DefaultDevInfo ==
  [NoDevInfo EXCEPT !.magic = TRUE, !.verity = TRUE,
                    !.unlocked = ~SecureBoot, !.critical = ~SecureBoot]

(* ReadWriteDeviceInfo (WRITE_CONFIG) of the record d, and its failure.    *)
(* Mutant: the write is left out.                                          *)
WriteDevInfo_Not(d) == DevInfo' = d /\ UNCHANGED stored

WriteDevInfo(d)      == DevInfo' = d /\ stored' = d
WriteDevInfoFails(d) == DevInfo' = d /\ UNCHANGED stored

(* DeviceInfoInit, when nothing fails.                                     *)
DeviceInfoInit ==
  IF stored.magic THEN DevInfo' = stored /\ UNCHANGED stored
  ELSE WriteDevInfo(DefaultDevInfo)

(* SetUnlockValue and SetUnlockCriticalValue: the record they leave.       *)
WithLock(d, type, state) ==
  IF type = "unlock" THEN [d EXCEPT !.unlocked = state]
  ELSE [d EXCEPT !.critical = state]

LockValue(d, type) == IF type = "unlock" THEN d.unlocked ELSE d.critical

(* Both lock values: what personal data is bound to.                       *)
Locks(d) == <<d.unlocked, d.critical>>

=============================================================================
