# TLA+ models of the Android boot loader (QcomModulePkg)

This directory holds TLA+ specifications of the boot loader that this repository
builds, `src/QcomModulePkg` (the rest of the tree is the EDK2 firmware base it
links against). The specifications are checked by TLC on small instances and,
where it says so below, proved with TLAPS for every instance.

The configuration modelled is the one the repository builds: UFS storage, A/B
slots, verified boot 2.0, fastboot with parallel flashing.

## 1. The system

`LinuxLoaderEntry` runs once per power-on on one processor. It enumerates the
partitions of every LUN, reads `devinfo`, decides between a normal boot,
recovery, fastboot and charging, and then either loads, verifies and starts a
kernel or serves fastboot commands until one of them boots or resets the
device. Concurrency comes from three places: UEFI timer events (the fastboot
menu, USB polling while flashing), threads of the Qualcomm kernel protocol
(parallel flashing, parallel load and verify) and, above all, the power switch:
everything persistent is written in several steps, and the next boot starts
from whatever was left.

| component | state | operations | what is hard | correct when |
|---|---|---|---|---|
| A/B slots and partition attributes (`PartitionTableUpdate.c`) | GPT entries in memory (`PtnEntries`) with a shadow (`PtnEntriesBak`), two copies on flash, UFS boot LUN | `GetActiveSlot`, `SetActiveSlot`, `SwitchPtnSlots`, `FindBootableSlot`, `HandleActiveSlotUnbootable`, `ClearUnbootable`, `UpdatePartitionAttributes` | three pieces of persistent state changed in turn; power loss; silent I/O errors; timer callback in the middle | what boots is what all three name; retry counts pay for launches; an active slot is always found |
| Boot decision (`LinuxLoader.c`) | boot reason, keys, `BootIntoFastboot` | `LinuxLoaderEntry` | error paths end in fastboot | every power-on ends in a kernel or in fastboot |
| Fastboot slot commands (`FastbootCmds.c`) | - | `set_active`, `continue`, `boot`, `flash`/`erase` of boot partitions | run between any two boots | see slots |
| Menu and keys (`MenuKeysDetection.c`, `FastbootMenu.c`) | menu position, timer | menu entries, key polling from a timer event | runs at any point of a command | never leaves the tables half switched so that a wrong slot boots |
| Parallel load and verify (`avb_load_verify_parallel.c`) | two info records, three semaphores, hash context | a loader and a verifier thread, a waiting caller | order of posts and status writes; error paths | only verified images are accepted; the caller always returns |
| Download and parallel flash (`FastbootCmds.c`, `FastbootMain.c`) | two buffers, two locks, `IsFlashComplete`, USB state | `download`, data, `flash`, flash thread | buffer exchanged while in use; late thread start | what is flashed is what was downloaded |
| Lock state (`DeviceInfo.c`, `UnlockMenu.c`) | `DevInfo` in RAM and in secure storage | `SetDeviceUnlock`, `SetDeviceUnlockValue`, setters of verity mode, user key, rollback index and persistent values | RAM changed before the write; unlock, TEE reset and order to wipe in three steps; the menu confirms in a timer callback | data from before a lock change is wiped or will be; RAM and flash agree |
| Recovery messages, merge status (`Recovery.c`) | `misc`, the cached `VirtualAbMsg` | read and write of messages and of the virtual A/B state | a status read once and used for the session; a failed read; reboot reasons lost with power | a message is not lost by a later one; a command that the merge status on flash forbids is refused |
| Verified boot (`VerifiedBoot.c`, `avb_slot_verify.c`, `avb_ops.c`) | boot state, rollback index, verity mode, digest of a corrupt system, slot marks | `LoadImageAndAuth`, `LoadImageAndAuthVB2` | each boot leaves traces the next one depends on; error paths that go on | the colour befits the image and the record it was judged by; the rollback index is earned and never strands the device |
| GPT flashing (`PartitionTableUpdate.c`, `FastbootCmds.c`) | downloaded GPT, the LUN, `ParseSecondaryGpt` | `flash partition`, `ParseGptHeader`, `PatchGpt`, `WriteGpt`, `ReenumeratePartTable` | erase and five writes; headers, arrays and checksums that must agree; a backup nobody can use yet | every later boot finds the table that was flashed; no attribute update costs both copies |
| Sparse images (`FastbootCmds.c`) | position in image and partition | `HandleSparseImgFlash` and a handler per chunk type | every size is the image's own claim; products, sums, 32 bits | no write outside the partition, no read outside the buffer; every chunk lands where its header says |
| Fastboot variables | published values | `getvar` | copies go stale | - |
| Thread stack list (`ThreadStack.c`) | linked list | add, remove | shared by threads | - |

Components interact by direct calls. `LoadImageAndAuth` calls
`FindBootableSlot` before it verifies and `HandleActiveSlotUnbootable` when
verification fails; `CmdSetActive` and the menu call `SetActiveSlot`; a flash of
`boot_x` rewrites that slot's attributes; everything persistent about slots goes
through `UpdatePartitionAttributes`. `PROJECT.json` lists every component with
its status, every hazard with the line where it bites, and the source lines of
every definition.

## 2. Modules

| module | role |
|---|---|
| `ABSlots` | the slot state machine, from one disk write to the next |
| `MCABSlots` | two layouts for TLC: seven partitions in two LUNs, and two pairs inside one another in one |
| `ABSlots_proofs` | type correctness of `ABSlots` for every layout |
| `ABSlots_safety_proofs` | its safety properties and its refinement of `SlotPolicy`, for every layout |
| `LoadVerify` | caller, loader thread and verifier thread of parallel verification |
| `LoadVerify_proofs` | soundness and completeness of the result for every image size |
| `FastbootFlash` | host, fastboot thread and flash threads of parallel flashing |
| `FastbootFlash_proofs` | separation of the buffers and integrity of what is flashed |
| `SlotPolicy` | what the slot code promises, one atomic step per decision; `ABSlots` implements it |
| `DeviceInfo` | the device info record in RAM and in secure storage |
| `LockState` | lock changes, the messages in `misc` and the merge status, on top of `DeviceInfo` |
| `LockState_proofs` | all its invariants, for every build variant |
| `VerifiedBoot` | verified boot over many boots: `DeviceInfo` and `SlotPolicy` composed with the images |
| `MCVerifiedBoot` | four images for TLC |
| `VerifiedBoot_proofs` | all its invariants and `EioSticks`, for every set of images and any number of failures |
| `SparseImage` | flashing of a sparse image, chunk by chunk, with the format as a reference |
| `MCSparseImage` | headers and chunks for TLC |
| `GptFlash` | flashing a partition table, and the partition driver and attribute updates that live on it |
| `GptFlash_proofs` | all its invariants, for every size of LUN and table and every set of images |
| `MCGptFlash` | twelve images for TLC, two sound and one for each thing that may be off |
| `SparseImage_proofs` | bounds, exactness and acceptance for every image, partition and integer width |

### ABSlots

*State.* `disk[c]` is copy `c` (primary or backup) of the partition tables and
`valid[c][l]` says whether the CRCs of copy `c` in LUN `l` are right; `bootLun`
is the UFS attribute, `lunSet` (a ghost) whether `flash partition` set it after the
last switch. `mem` and `bak` are `PtnEntries` and `PtnEntriesBak`. An
entry is its type GUID and the attribute bits the code reads: priority, active,
retry count, successful, unbootable. Names, LBAs and unique GUIDs never change
here and are constants (`Base`, `SlotOf`, `LunOf`). A type GUID is the
partition's own or the one that marks the inactive slot.

*Control.* `pc` is the place in the running operation. `UpdatePartitionAttributes`
is a subroutine with registers `mask`, `lun`, `iter` (the two loops) and `ret`
(where its caller goes on); one step is one pass over one copy of one LUN, which
is what one `WriteBlocks` writes. `CallUpdate` includes the early return on
`PtnEntries = PtnEntriesBak`. The pass itself is `Pass`: `AlignedPass` says what
it writes when every entry meets its own entry on flash, `SkewedPass` follows
the code entry by entry, with the pointer that stays behind when a GUID does not
match. `PassAgrees` checks that the two are one function where both apply.

*Environment.* `PowerLoss` between any two writes, `TornWrite` during one (the
copy's CRCs are then wrong, and `PowerOn` restores it from the other one, as
EDK2's `PartitionDxe` does), failing reads, writes, flushes and boot LUN
switches, Android marking its slot successful, reboots. The menu's alternate-slot
entry exists twice: `MenuAlternateSlot` between commands, and `MenuPreempts` in
the middle of one, because `MenuKeysHandler` is a timer callback and fastboot never
raises its priority. It may come between two writes, and also inside each loop over
the entries in memory: the exchange of the GUIDs pair by pair (`PartlySwapped`), the
loops that set attributes (`PartlyActivated`, `PartlyMarked`) and the one that keeps
`PtnEntriesBak` (`UnfinishedBak`). It then goes on with what it finds, writes that and
resets the device. The ghost `caught` says that it came between two exchanges.
`CmdFlashPartition` is the `flash partition` that sets the boot LUN to 1 and then
refuses its image; what an accepted one writes is in `GptFlash`.

*Abstractions.* Verification and kernel start are the choice between
`BootLinux`, `AuthFails` and `BootLinuxFails`. Key presses and boot reasons are
the choice between `LaunchFastboot` and `BootFromLoader`.

### LoadVerify

Used by builds with `BOOTIMAGE_LOAD_VERIFY_IN_PARALLEL`. The image is the bytes
`0 .. size - 1`; `buf` is the set of bytes of the buffer that hold what the
partition holds, and the hash context is reduced to how many bytes it was fed
and whether they were the image from its beginning. The three semaphores, the
two info records, the frees of the caller and every early return are as in the
code. Left out: the NULL-argument branches (the only caller passes none) and a
failing `ThreadResume` of a thread just created.

### FastbootFlash

The thread mode of parallel flashing (`IsUseMThreadParallel`). A transfer is one
unit; buffers and images are counted in units, and a unit in a buffer is the
number of the image it came with (`Junk` if none). `pc` is the place of the
fastboot thread in the handler of a command: at a lock, between the exchange of
the buffers and the flash (`dispatch`), in a flash of its own (`here`), in
`WaitForFlashFinished`. `job[j]` is the j-th flash command with the buffer and
length that `FlashInfo` hands to its thread, and, as ghosts, the image that was
sent for it and whether what was written is that image. `LockFlash` names its
holder. The order inside `SparseImgFlashThread` is kept step by step, because
the window between `ThreadResume` and `IsFlashComplete = FALSE` is what its
callers have to get right.

The host sends a command only after an answer, may be interrupted when there is
none (`HostGivesUp`), may ask for any size up to one more than fits, and the
cable may be pulled between transfers (`Unplug`). The outcome of a flash is a
choice, and so are the refusals of `CmdFlash`. Left out: the timer mode of a
build without threads, `CmdBoot`, which reads the download buffer in place, and
the verity flag that flashing `system` resets. A reset or a kernel start ends
the model (`left`), which is why the runs do not check for deadlock.

The ghost `late` is set when an exchange or a wait finds a flash thread resumed
that has not yet cleared the flag. Properties that the code meets only when its
threads start in time are stated under `~late`; `WaitBlocks` shows what happens
otherwise.

### SlotPolicy

An abstract A/B device: the attributes of the two boot partitions in one record
that changes in whole steps (`Paid`, `GivenUp`, `Pardoned`, `Renewed`, `Switched`,
`FirstBoot`), a running kernel, and `trusted`, which turns false when the table
in use is not one that the boot loader wrote. `ABSlots!ImplementsPolicy` maps
the primary table on flash to it. The mapping is not trivial: a policy step is
several writes in `ABSlots`, to two copies in each LUN, and the step becomes visible
with the one that changes the boot partitions; and it says that every power loss
leaves the device before or after a policy step, never between.
After `Lose` nothing is promised; that covers a table restored from a stale
backup, an unnoticed I/O error and a preempted command, which `slots_disturb`
looks at instead.

### DeviceInfo and LockState

*State.* `DevInfo` and `stored` are the record in RAM and in secure storage,
reduced to the fields that decisions depend on. `misc` has the recovery command,
its arguments and the merge status; `vab` is the copy `VirtualAbMsg`; `reason`
is the reboot reason, which power loss drops. `menu` is the unlock menu that
waits for a key, `arg` the arguments of the running `SetDeviceUnlockValue`.

*Actions.* `SetDeviceUnlockValue` is four steps (`SetValue`,
`ResetDeviceState`, `UndoValue`, `WriteWipe`), one per call that writes or may
fail, and `Return` is what the command and the menu make of its result. The
boot decision, the reboot commands, `CmdUpdateSnapshot`, the guards of
`CmdSetActive` and of flashing or erasing `super`, `misc` and `userdata`
are actions too, because they read or write the same messages. A flash of `misc` brings
any message and any merge status, under a `VirtualAbMsg` that stays what it was.
`HandleActiveSlotUnbootable` is the slot change of a boot that fails, of `continue` and
of the menu's alternate-slot entry: it is there because it does not ask for the merge
status.

*Environment.* Recovery wipes user data when its arguments say so and clears the
message; Android stores data and moves the merge status. Power may be lost and
calls may fail any number of times. Ghosts: `data` (the lock values under which
the data on the device was stored), `cut` (a lock change was cut short or
`misc` was erased or flashed on purpose), `failed`, `missed` (the command on `super`
could not read the status), `under` (`misc` was flashed under the copy) and `overrun`
(what was changed against the status on flash since power on).

### VerifiedBoot

A user build with A/B slots and AVB 2. An image stands for the verified
partitions of a slot: who signed its vbmeta, its rollback index, its digest,
whether it parses, has its hashes and waives verification. `LoadImageAndAuth`
is six steps (`FindBootableSlot`, `SlotVerify`, `UpdateRollbackIndex`,
`StartLinux`, `TryAlternateSlot`, and `EarlyReturn` for the calls that return
without giving the slot up); every write of the record may fail
(`SaveFails` leaves RAM changed, and the ghost `unsaved` set). `SetDeviceUnlock` is the
outcome of the lock change that `LockState` has step by step: a reset, or fastboot that
goes on, with the new value in both records, in RAM only, in neither or, when the undo
fails, in storage only. A lock change that fails counts as one failed call, its undo
included. Slots are those of `SlotPolicy`, taken
with `INSTANCE`. Fastboot, an update by Android, dm-verity's reboot and
power loss change what the next boot finds.

Two paths of the code deserve mention. A locked device whose verification
fails, with no other slot, does not return at `VerifiedBoot.c:2269` but goes on
to `BootLinux` with freed images; the model lets anything come of that
(`freed`), and the properties speak of the other starts. And one rollback index
stands for all locations.

### SparseImage

The image is chosen field by field when the code reads the field, which is
once, so the behaviours are those of every buffer content. Sizes and offsets are
bytes; `disk` maps a device block to where its content came from. Each
conjunct of `HeaderValid`, `BlocksFit` and `ChunkValid` is a check of the code.
Checks that never decide (`WidthSuffices`, `FillCheckRedundant`) are left out of
the actions and proved redundant instead. `Expansion` and `WellFormed` are the
reference: what the format in `SparseFormat.h` says an image of these chunks
expands to, from the chunk headers alone.

### GptFlash

*State.* `disk` maps each LBA of one LUN to a block: the protective MBR, a
header, an entry or an unused entry. An entry fills a block. A checksum over
entries is the entries themselves, a checksum over a header the number of
bytes it was taken over: `PatchGpt` always takes 92, the driver the size the
header claims. `gpt` is the image in the buffer, `table` the partitions that
got handles, `secondary` the flag `ParseSecondaryGpt`, which is set at the first
image whose primary header passes and never reset, so that later primary
headers are not checked for their own LBA.

*Actions.* `FlashPartition` is everything before the erase, including the boot LUN that is
set to 1 before the image is looked at; `WriteGpt` is the erase and each of the
five writes, `Flush`, and `Refresh` the re-enumeration, which is done by a storage
driver outside the repository, so that a repair may or may not be part of it. The
attribute update is one step per copy with the pointer walk of
`UpdatePartitionAttributes`, its skip when nothing changes and its early end at a
header without entries, where no checksum can be computed. `PowerOn` is
`PartitionDxe`: which copy is valid, which is restored from which, and which
entries get no handle. Its repair may fail at either write or be cut by power loss
within the array, and the driver goes on with the header at LBA 1 and the array it
finds there.

*Environment.* Every write may be cut short at a block, by failure or by power loss, any
number of times. The ghosts say when nothing is promised: `cut` (a flash that did not
reach its end, an unsound image, an attribute update cut short while the other copy
was not valid on the LUN), `single` (a flash, a failed update or a failed repair
since the driver last found or made two valid copies), `stale` (the flash failed at its end and the old handles stay). A
table without partitions makes `PatchGpt` write far outside the
buffer; the model lets the device go on or hang (`dead`).

## 3. Runs

| run | instance | question |
|---|---|---|
| `slots_power` | 7 partitions, 2 LUNs, retry count up to 2, one power loss, also inside a block write | the safety of slot selection under power loss, pairs that stay pairs, and its refinement of `SlotPolicy` |
| `slots_disturb` | 4 partitions, 1 LUN, one failed access or one menu selection in the middle of a command or of a loop (`OneKind`), retry 1, user build | what an unnoticed I/O error and the timer callback can do |
| `slots_live` | `FairSpec`, retry 2, no power loss, no fault | every power-on ends |
| `slots_backup` (violation) | one power loss | attribute updates reach both copies |
| `verify_parallel` | image sizes 0 to 4, `FairSpec` | soundness, completeness and termination of parallel verification |
| `flash_parallel` | `FairSpec`, 2 downloads, 2 flashes, buffers of 2 units, one pulled cable | buffers apart, images intact, waits effective, every handler returns |
| `flash_result` (violation) | 3 downloads, 3 flashes, no pulled cable | the result of the last flash is checked |
| `lock_state` | secure boot, user build, any number of power losses and failures | wipe, RAM against flash, undo, merge status heeded |
| `lock_wipe` (violation) | no power loss, no failure | the promise of the unlock menu |
| `vboot` | 4 images, rollback index up to 1, retry 1, power loss anywhere, one failed call per boot | colour, rollback index, fallback, eio mode |
| `gpt` | LUN of 9 blocks, 2 entries, 12 images, any number of power losses and failures | the flashed table is found by every boot, and one copy always survives |
| `sparse` | partition of 4 blocks, block sizes 0, 1, 2 and 4, up to 3 chunks, 32 bits scaled to 6 values | bounds, exactness and acceptance |

**Bounds.** The layout has what the code tells apart: an unslotted partition, a
slotted pair without a role, and `boot` and `abl` of both slots, spread over two
LUNs so that the outer loop of `UpdatePartitionAttributes` runs twice, the
partitions of a LUN in an order where a pair is not adjacent. `slots_disturb` has one
LUN with one pair inside the other, the smallest layout with two exchanges, so that the
callback can come between them. `MaxRetry` is 7 in
the code; 2 is enough for a count that is full, partly spent and empty. One
power loss, one fault and one preemption each reach every point where the code
can be cut short; combinations of them are left to the proofs of section 4, which have
no such bound: the constraint `OneKind` keeps a fault and a preemption apart, as
together they make three million states. Image sizes 0 to 4 cover
empty, odd, even and one-byte halves. Two flashes with two buffers bring the first buffer round again while its flash may
still be under way, and images of one and two units differ in length; the proofs
of section 4 remove these bounds. `LockState` has no bound but its Boolean
switches. For `VerifiedBoot` two indexes and two digests are what "older" and
"another system" need; a retry count of one is already full and spent; failures
are bounded per boot, and as power loss and reset are not, a failed call
can follow another one in the next boot. Two entries make a table full, partly used and
empty, and nine blocks leave two for data between the copies, so that an
off-by-one at either end meets one of them. A sparse image of three chunks has a
first, a middle and a last one, and sizes go from zero to one more than fits. The
proofs of section 4 remove every bound named here but those of the properties under fairness.

**What they show.** `BootAgrees`: a kernel is loaded only from the slot that
attributes, GUIDs and boot LUN on flash all name. `PrimaryInSync`: the early
return never skips a write that was needed. `AttemptsBounded`: each counted
launch is paid for on flash before it happens. `SkewPersists`: attributes and
GUIDs part only through a power loss in the middle of `SetActiveSlot`, and once
they have parted no command brings them together again, because `set_active`
moves both; the device then boots neither slot and stays in fastboot.
`ActiveExists`: no number of power losses leaves the device without an active slot. A
menu callback that cuts a command short may: between the swap of the GUIDs in
memory and their pass over flash its updates find the entries by GUID and write one
slot's attributes to the other's. Whether the update at the end of `SetActiveSlot` puts
that right depends on the order of the partitions. In the layout of `slots_power` it does,
unless power is lost before it; in another it is skipped, because `PtnEntriesBak` says
that the attributes are written (`MCABSlots_menu.cfg`). The attempt to prove
the property for every layout found both.
`GuidsPaired`: a power loss, a failed access or a callback leaves the slot pairs of a
LUN in agreement, since a GUID pass writes a LUN at once, unless the callback came
between two exchanges in memory and wrote a table of which some pairs are exchanged;
`BootAgrees` is checked there too. `LunFollows`: the boot LUN
is that of the active slot, or LUN 1 where `flash partition` set it without looking at
the slots. `SuccessOnlyFromHlos`,
`BootTerminates`, `AcceptedIsVerified`, `GoodImageAccepted` and
`ReturnsUnlessFirstReadFails` are stated in the modules.

`WipePending`: after a lock change that ran to its end, old data is gone or the
order to wipe it is still in `misc`; no reboot command overwrites it, because
`WriteRecoveryMessage` keeps the message it finds. `RamAgrees` and
`FailureUndone`: decisions are taken by what the next boot will read, unless a
write of the record failed. `MergeRespected`: of what changes `super`, `misc`,
`userdata` or the slot, each command that asks for the merge status is stopped by the one
on flash, though the code asks a copy. The property excuses a command whose own read
failed, which counts as no merge, and what comes after `misc` was flashed under the
copy in the same session; and it shows that one slot change goes against the status:
`HandleActiveSlotUnbootable`, in a boot that fails or from the menu, which does not ask.
`ColourTrue`: the colour Keymaster is told befits the image and the record in RAM when
the kernel runs, and also the stored record unless the last write of it failed. That
exception is real: an unlock whose write failed leaves RAM unlocked, fastboot goes on,
and `continue` boots orange on a device that is stored as locked.
`RollbackEarned` and `FallbackKept`: the index is only
raised for a system that ran and was marked, and while a new one is on trial the
old one stays bootable. Both name what the code leaves open: flashing a
partition other than `boot` keeps the successful mark. `EioSticks`: a corrupt
system whose digest was stored is not restarted into restart mode by power loss or
failure. Where the digest could not be stored and the next write failed as well,
fastboot's `continue` can start it in restart mode from the copy in RAM; the run's
one failure per boot does not reach that, the proof did. `InBounds`,
`Exact` and `Accepts`: a sparse image never reaches outside, is on the device
when it is reported flashed, and is not refused when it fits. `Flashed`: primary
header, backup header, both arrays and the grown last partition fit together, so
that the partition driver makes of a sound image the partitions it describes, at
once and at every later boot, also at one where its repair fails or stops halfway.
This ends when an attribute update of one copy is cut short while the other copy is not
valid, which the update right after the flash may be: the backup header as flashed is
not usable. `TableSurvives` says how far one is from that: after the driver has gone
over the copies both are valid while the device is on, and only a flash, a failed update or
a failed repair changes that, so from there it takes two writes that go wrong without
a repair between them to lose the table.

Several properties are conditional on `Clean`: no failed access, no primary
table restored from a backup, no menu callback running that cut a command short.
Each condition is needed. A failed access loses updates silently. A backup can
be older than the primary it replaces (two power losses can even bring back a
table without an active slot). A callback starts from a table in memory that
its victim had half changed.

**Fairness.** `ABSlots!FairSpec` assumes weak fairness of the boot loader's own
steps (it is one thread, and nothing else runs) and of switching the device on.
It assumes nothing of fastboot commands, which a user may or may not send, and
nothing of the outcome of a boot. `LoadVerify!FairSpec` assumes that the kernel
protocol's scheduler runs each of the three threads that can go on, and
`FastbootFlash!FairSpec` the same of the fastboot thread and the flash threads;
it assumes nothing of the host.

**Findings.** `PROJECT.json` quotes the lines.

- `slots_backup`: in `UpdatePartitionAttributes` the pointer into the table does
  not advance past an entry whose GUID differs; a power loss between the two
  copies of a GUID switch leaves a backup that later attribute updates miss.
- `flash_result`: the result of a flash thread is dropped.
- `lock_wipe`: the order to wipe has arguments but no command, so only the reboot
  reason leads to recovery; a boot that loses it starts Android on the unlocked
  device with the old data.

Eight more configurations end in a violation and are kept for the reader:
`LoadVerify_wait.cfg` (a failed first read leaves verifier and caller waiting for
ever), `LoadVerify_free.cfg` (the caller frees the loader's record before the
loader is done), `FastbootFlash_wait.cfg` (a flash thread that has not run yet
is not waited for), `FastbootFlash_size.cfg` (a refused download leaves its size
for the next flash), `FastbootFlash_answer.cfg` (two paths of `CmdFlash` end
without an answer), `MCVerifiedBoot_eio.cfg` (the stored verity mode outlives the
system it was set for, so a new system starts in eio mode),
`MCABSlots_menu.cfg` (with `boot_a` and `boot_b` between `abl_b` and `abl_a`, a menu
selection in the middle of `set_active` leaves no active slot) and
`MCGptFlash_backup.cfg` (`PartitionTableUpdate.c:996` announces the backup header's
own location, but the header is given LBA 1, and the partition driver refuses it).

Some conditions in the properties stand for weaknesses of the same code that have
no run of their own. `GoodImageAccepted` asks for an even image size, because the
remainder is added to the offset of the second half as well as to its length
(`avb_load_verify_parallel.c:238`), and for SHA-256, because the SHA-512 branch
tests the wrong context (`:330`). `FlashIntact` asks for a cable that stays
plugged, because after a disconnection in the data phase the next commands are
counted as image data (`FastbootMain.c:294`), and speaks only of a flash that
follows a download, because `mFlashDataBuffer` is never NULL
(`FastbootCmds.c:1797`) and a second flash takes the other buffer. The menu offers
the alternate slot always, since the condition in `FastbootMenu.c:364` is commented
out, and so does `MenuAlternateSlot`.

## 4. Proofs

`ABSlots_proofs!TypeCorrect` (`Spec => []TypeOK`) holds for every number of
partitions and LUNs and every layout that satisfies `BoundsAssumption` and
`TableAssumption`: the tables are filled LUN after LUN, names are unique, every
slotted partition has its twin, and `boot` and `abl` exist in both slots in one
LUN. Two things in it are not obvious. The walk of `UpdatePartitionAttributes`
writes through a pointer that may stay behind; that it never leaves the table is
an induction over the entries (`PassStepType`, `WalkType`): the pointer is at
most the index of the entry being processed. `Walk` is a recursive function, so
the proof first shows that a function with that equation exists
(`WalkExists`, `WalkEquation`), by induction stated as a fact about sets
(`SetInduction`). And `TypeOK` is not inductive by itself: inside
`SetActiveSlot` the continuation in `tail` must be one of those `SetActiveSlot`
was called with, which is the second conjunct of `TypeInv`.

`ABSlots_safety_proofs` proves every safety property of `ABSlots`, for every such
layout, every `MaxRetry` and any number of power losses, faults and preemptions.

- `PassIsAligned` is the fact the others rest on: where each entry meets its own
  entry on flash, the walk with the lagging pointer is `AlignedPass`, which says
  what is written entry by entry (`StepAligned`, then induction over the walk).
- `GuidsStayPaired` needs `PairedInv`: the GUIDs of a LUN name one slot in both
  copies and in memory, unless `caught`, and `caught` is set by a callback only. A pass
  that writes GUIDs never looks for them, so it is aligned and writes all of a LUN; the
  others write none. Of what a callback finds in memory only `PartlySwapped` can differ
  in GUIDs, and its two ends, no pair and all pairs exchanged, are paired.
- `PrimaryStaysInSync` needs `SyncInv`, which adds `ForceFlow` (a menu callback
  that cut a command short is switching slots and ends in a reset) and `UpaMask` (an
  update that runs writes something).
- `KernelSlotAgrees` needs `BootInv`: what `FindBootableSlot` chose and
  `ValidateSlotGuids` checked in memory is still there when the kernel is loaded,
  with the update of the retry count in between.
- `RetriesAreBounded`, `SkewIsKept`, `LunIsKept`, `ActiveIsKept` and
  `SuccessIsEarned` are proved together from `TrustedInv`, because each of
  `ActiveInv`, `SuccessInv`, `RetryInv`, `SkewInv` and `LunInv` has to say what it
  means for memory and for flash and needs the others while the two differ. In
  `LunInv` the LUN to expect is that of the slot or, after `flash partition`, 1 (`LunOn`).
  Every step of the program has one of a few effects on the boot partitions
  (`Idles`, `SetsUp`, `Chooses` and so on), and the invariant is shown once for each.
- `SlotRefinement` (`Spec => ImplementsPolicy`) is the refinement. `PolicyInv`: what
  memory says of the boot partitions is what flash says, or one policy step ahead. As
  `boot` and `abl` are in one LUN, the pass over that LUN makes the step visible with
  one write, and all other writes are stutters.

`LockState_proofs` proves the five invariants of `lock_state` for every set of keys
and digests and every build. `WipePending` and `FailureUndone` are not inductive.
`LockInv` adds what holds at each step of a lock change (`Asked`, `Progress`: which
value was asked for, what was stored before it, which of the calls are done),
`Session` (nothing of an earlier session is left at power on), `Initialized` (a
record without its magic has never been booted with), `Ordered`
(data of another lock value only with the order to wipe it, or inside the change) and
`Cached` (the copy of the merge status is the one on flash while that one forbids
anything, or `misc` was flashed under it; a status that could not be read leaves no copy).

`VerifiedBoot_proofs` proves the invariants and the action property of `vboot` for
every set of images, indexes and retry counts and any number of failures per boot.
The inductive `FullInv` says that exactly one slot is active (`OneActive`), that
what was verified is what is about to start and still passes (`RunsCurrent`,
`StillGood`), that a kernel started from freed images runs from a slot that was given
up (`FreedRuns`, `SlotIsLost`, `FreedIsLost`), that RAM and storage are equal unless
the last write failed, that RAM is then ahead only by an index that was earned all the
same, and that the lock values part only after a lock command (`RamAhead`), and, in
`Lasting`, what survives a reset: the stored index is earned, a slot marked successful
holds a system that was counted, the fallback is kept, and the digest of the system
last verified in eio mode is on record.

`LoadVerify_proofs` proves `TypeCorrect`, `Accepted` (`AcceptedIsVerified`) and
`GoodAccepted` (`GoodImageAccepted`) for every image size. The statuses the caller
reads are "ok" from the start, so `Inv` has to show that they are read late enough:
`CallerWaits` (the caller passes its wait only after the verifier's last post),
`VerdictHolds` (by then the record holds the verdict, and a good verdict means a
matching digest over the whole image), `HashedIsRead` (what the hash took for the
image was in the buffer). For the other direction `FairInv` adds that no half is hashed
early or skipped: `LoaderHasRead`, `PostedIsRead` (a post means that the half is in the
buffer), `HashSoFar` (what was fed is the image from its beginning) and `VerdictFair`
(a refusal has a cause other than the order of the threads).

`FastbootFlash_proofs` proves `FlashTypes`, `Separation`, `Quiet` and
`Integrity`: the four invariants of `flash_parallel`, for every buffer size and
any number of downloads, flashes and pulled cables. None is inductive. `FlashInv`
adds: `Sizes` (what is being received fits, and a download under way has not yet
been offered to a flash), `Exclusive` (a thread that writes holds `LockFlash`),
`Apart` (the exchange finds no thread at work, because it had to take
`LockFlash`, and none about to start, or `late` is set; so between the exchange
and the end of `CmdFlash` there is none at all, and the flag is false while one
writes) and `Intact` (`Holds`: the buffer of every unfinished flash holds its
image from the first unit to the last). Data can only arrive in the buffer that
no flash has, which is `Apart`, so `Holds` survives it.

`SparseImage_proofs` proves `TypeCorrect`, `StaysInBounds`, `FlashedExactly` and
`FittingAccepted` (the `TypeOK`, `InBounds`, `Exact` and `Accepts` of `sparse`) for every block size, partition size, integer width, header and chunk
set that satisfy `SparseAssumption`, and two facts about the code's checks:
`WidthSuffices` (a chunk that passes the size check cannot take the block count
out of 32 bits, so the three checks of its width never decide) and `FillCheckRedundant` (the per-block check of the fill
loop never fails). The invariant `IInv` adds `InProgress`: while chunks are
handled the header was valid and the blocks handled so far fit the partition. The rest is
multiplication: a block count of the image times its block size is a count of
device blocks times theirs (`Factor`, `FitsInBlocks`), from `MulMono` and
`MulCancel`, which the solver needs as separate lemmas.

`Exact` and `Accepts` compare with totals over all chunks, defined by recursive
functions. The induction theorems of the library take an operator and are out of
the provers' reach, so induction is stated of sets: a set of naturals that contains
0 and the successor of each member contains all (`SetInduction`, from
`LeastElement`, from the well-foundedness of `<`). With it `TotalFacts` shows that the
totals exist, are natural numbers and grow, and `TotalPrefix` that appending a chunk
leaves the earlier ones alone. The invariant is `Expanding`: while chunks are read, the
block count is the total of the blocks so far and, if all chunks so far are
well formed, the position is the total of their bytes and the device holds their
expansion.

`GptFlash_proofs` proves `TypeCorrect` (`TypeOK`), `TableIsFound` (`Flashed`) and
`CopySurvives` (`TableSurvives`) for every `NumSectors`, `MaxParts` and block size
that satisfy `GptAssumption` (both copies and a block of data fit the LUN, a header fits a block),
every set of images, well formed or not, and any number of power losses and failed
writes. Not even `TypeOK` is inductive: an image decides where the
primary array is written, so whether a block is a header or an entry when it is read
has to be known of the whole LUN. `GptInv` is built up in three layers.

- `Sane`, `Arrays` and `Flows` hold whatever is flashed. Every header names the same
  last usable block, has at most `MaxParts` entries, and names the other copy where the
  driver relies on it. Headers are at LBA 1 and at the last LBA only, with one
  exception the invariant has to admit (`Wrecked`): a primary header whose
  array reaches the last block makes the driver's repair write the backup
  header over an entry and then copy it, as an entry, into the backup's array. No copy is
  valid then and no partition has a handle, so nothing is updated until the next flash.
- `Progress` says what `WriteGpt` has written of a sound image at each of its five
  writes (`WriteFacts`, `WroteArray`: a write stays in the LUN and hits only its blocks).
- `Kept` says what is left afterwards: the primary and, once restored, the backup agree
  with the image in everything but attributes (`Shaped`, `Like`), one of them is
  valid, both are while the device is on unless `single`, and the handles are those of the
  image. A repair cut short mixes the old array and the new, which agree up to attributes;
  that the backup of a sound image carries the same array is what makes this so.

The steps that matter are the repair (`RepairedShaped`: whichever copy is restored from,
both are valid afterwards and have the shape; `SomeRestored` follows a repair that stops anywhere), the
attribute update (`UpdateTouched`, `TouchedShaped`: a write cut short
anywhere leaves each block old or new, and the other copy alone) and the enumeration
(`FoundExtents`: on a table of this shape every entry gets a handle, because the partitions of a
sound image are in order and `PatchGpt` grows only the last). `Handles` and the walk
of `WithAttr` are recursive functions; as in the other modules, that they exist and what they
return is shown with induction over sets (`SetInduction`).

Only model-checked: everything under fairness (`BootTerminates`,
`ReturnsUnlessFirstReadFails`, `HandlerReturns`), which this prover does not reach;
and what the runs that end in a violation show.

## 5. Not modelled

eMMC and NAND storage, the atomic and recovery-info slot layouts and AVB 1 (other
build configurations), meta images and published
variables, parsing of images and signatures, device tree and command line
construction, drawing, USB descriptors, hibernation, and the EDK2 base except
the reading and restoration of a GPT. `PROJECT.json` gives the reason for each.
EDK2 is most of the repository's lines; it is vendored and the boot loader uses
it through protocols, so the models stand for a small part of the tree and most of
the boot loader's own decisions.

## 6. Plan

Every safety property the runs check is proved. Left to model is the timer mode of
`FastbootFlash` (USB polled from a timer event while the fastboot thread writes), and
`CmdBoot` there.
