----------------------------- MODULE FastbootFlash -----------------------------
(***************************************************************************)
(* Parallel download and flash of                                          *)
(* src/QcomModulePkg/Library/FastbootLib/FastbootCmds.c, with threads      *)
(* (IsUseMThreadParallel): the fastboot thread receives an image into one  *)
(* buffer while a thread of its own writes the previous image from the     *)
(* other one.  The two buffers are exchanged under two locks.              *)
(*                                                                         *)
(* A transfer is one unit of data: images and buffers are counted in       *)
(* units, and a unit in a buffer is the number of the image it belongs to. *)
(***************************************************************************)
EXTENDS Integers

CONSTANTS
  MaxDownLoadSize, \* units that fit in a buffer
  MaxImages,       \* bound: downloads the host begins
  MaxFlashes,      \* bound: flash commands the host sends
  MaxUnplugs       \* bound: times the cable is pulled

ASSUME SizesAssumption ==
  /\ MaxDownLoadSize \in Nat \ {0}
  /\ MaxImages \in Nat /\ MaxFlashes \in Nat /\ MaxUnplugs \in Nat

Buffer == {1, 2}
Job    == 1 .. MaxFlashes
Junk   == 0 \* a unit that is not of any image

(* What CmdFlash tells apart: a raw, meta or UBI image or partition table, *)
(* and a sparse image for a partition smaller than, as large as or larger  *)
(* than a buffer.                                                          *)
Kind == {"raw", "small", "equal", "big"}

VARIABLES
  mState,           \* "cmd" or "data"
  mNumDataBytes, mBytesReceivedSoFar,
  rx,               \* where the queued transfer lands: gRxBuffer or the buffer
  mUsbDataBuffer,   \* the other buffer is mFlashDataBuffer
  buf,              \* contents of the two buffers
  LockDownload,     \* "free" or "main"
  LockFlash,        \* the job whose thread holds it, or 0
  IsFlashComplete, FlashResult,
  pc, cur, kind,    \* the fastboot thread: its place, flash job and argument
  job,              \* the flash jobs
  host,             \* "idle", "wait" (for an answer) or "send" (data)
  image, unplugs,   \* ghosts: downloads begun, times the cable was pulled
  fresh,            \* ghost: an image is complete that no flash has taken
  late              \* ghost: a thread was overtaken before it ran

usbVars  == <<mState, mNumDataBytes, mBytesReceivedSoFar, rx>>
lockVars == <<LockDownload, LockFlash>>
flagVars == <<IsFlashComplete, FlashResult>>
vars == <<usbVars, mUsbDataBuffer, buf, lockVars, flagVars, pc, cur, kind,
          job, host, image, unplugs, fresh, late>>

OtherBuffer(b) == 3 - b

(* A flash job: its state, the buffer and the number of units its flash    *)
(* was given, the units written.  Ghosts: the image sent for it, its size, *)
(* and whether what was written is the beginning of it.                    *)
State == {"none", "taken", "ready", "locked", "flashing", "done", "spoiled",
          "failed", "reported"}

JobRecord ==
  [st : State, from : Buffer, len : 0 .. MaxDownLoadSize + 1,
   pos : 0 .. MaxDownLoadSize + 1, image : 0 .. MaxImages,
   size : 0 .. MaxDownLoadSize, good : BOOLEAN]

(* A job of which only the state matters any more.                         *)
Over(s) == [st |-> s, from |-> 1, len |-> 0, pos |-> 0, image |-> Junk,
            size |-> 0, good |-> TRUE]

(* All units are written: they are the image sent for the job, if any was, *)
(* or not.                                                                 *)
Written(r) ==
  IF r.image = Junk \/ (r.good /\ r.pos = r.size) THEN Over("done")
  ELSE Over("spoiled")

(* SparseImgFlashThread of these jobs has been resumed and has not yet     *)
(* cleared IsFlashComplete.                                                *)
NotBegun == {j \in Job : job[j].st \in {"ready", "locked"}}

(* The jobs a thread has still to do.                                      *)
Unfinished == NotBegun \cup {j \in Job : job[j].st = "flashing"}

(* The handler returns, after FastbootOkay or FastbootFail, or without:    *)
(* the host may send its next command, or waits.                           *)
Answer   == host' = "idle" /\ pc' = "idle" /\ kind' = "raw"
NoAnswer == pc' = "idle" /\ kind' = "raw" /\ UNCHANGED host

-----------------------------------------------------------------------------
(* AcceptCmd, CmdDownload and AcceptData.                                  *)

CommandArrives == host = "idle" /\ pc = "idle" /\ mState = "cmd"

(* The last flash failed: a download or flash command is answered with     *)
(* that and not obeyed.                                                    *)
LastFlashFailed ==
  /\ CommandArrives /\ FlashResult # "ok"
  /\ FlashResult' = "ok"
  /\ job' = [job EXCEPT ![cur] = Over("reported")]
  /\ UNCHANGED <<usbVars, mUsbDataBuffer, buf, lockVars, IsFlashComplete, pc,
                 cur, kind, host, image, unplugs, fresh,
                 late>>

(* Mutant: only an empty download is refused.                              *)
CmdDownload_NoMax ==
  /\ CommandArrives /\ FlashResult = "ok" /\ image < MaxImages
  /\ \E n \in 0 .. MaxDownLoadSize + 1 :
       /\ mNumDataBytes' = n
       /\ IF n = 0
          THEN UNCHANGED <<host, pc, image>>
          ELSE host' = "wait" /\ pc' = "dl_lock" /\ image' = image + 1
  /\ fresh' = FALSE
  /\ UNCHANGED <<mState, mBytesReceivedSoFar, rx, mUsbDataBuffer, buf, lockVars,
                 flagVars, cur, kind, job, unplugs, late>>

CmdDownload ==
  /\ CommandArrives /\ FlashResult = "ok" /\ image < MaxImages
  /\ \E n \in 0 .. MaxDownLoadSize + 1 :
       /\ mNumDataBytes' = n
       /\ IF n = 0 \/ n > MaxDownLoadSize
          THEN UNCHANGED <<host, pc, image>>
          ELSE host' = "wait" /\ pc' = "dl_lock" /\ image' = image + 1
  /\ fresh' = FALSE
  /\ UNCHANGED <<mState, mBytesReceivedSoFar, rx, mUsbDataBuffer, buf, lockVars,
                 flagVars, cur, kind, job, unplugs, late>>

DownloadStarts ==
  /\ pc = "dl_lock" /\ LockDownload = "free"
  /\ LockDownload' = "main"
  /\ mState' = "data" /\ mBytesReceivedSoFar' = 0 /\ rx' = "buffer"
  /\ host' = "send" /\ pc' = "idle"
  /\ UNCHANGED <<mNumDataBytes, mUsbDataBuffer, buf, LockFlash, flagVars, cur,
                 kind, job, image, unplugs, fresh, late>>

(* AcceptData: a transfer has brought one unit; it has landed in the       *)
(* buffer if that is where it was queued.  After the last unit the host    *)
(* gets its answer, before that it is at h.                                *)
AcceptData(unit, h) ==
  LET got == mBytesReceivedSoFar + 1
  IN  /\ buf' = IF rx = "buffer"
                THEN [buf EXCEPT ![mUsbDataBuffer][got] = unit] ELSE buf
      /\ mBytesReceivedSoFar' = got
      /\ IF got = mNumDataBytes
         THEN mState' = "cmd" /\ rx' = "command" /\ host' = "idle"
              /\ LockDownload' = "free" /\ fresh' = TRUE
         ELSE rx' = "buffer" /\ host' = h
              /\ UNCHANGED <<mState, LockDownload, fresh>>

DataArrives ==
  /\ pc = "idle" /\ mState = "data" /\ host = "send"
  /\ AcceptData(image, "send")
  /\ UNCHANGED <<mNumDataBytes, mUsbDataBuffer, LockFlash, flagVars, pc, cur,
                 kind, job, image, unplugs, late>>

(* A command that arrives in ExpectDataState is taken for data.            *)
CommandAsData ==
  /\ pc = "idle" /\ mState = "data" /\ host = "idle"
  /\ AcceptData(Junk, "wait")
  /\ UNCHANGED <<mNumDataBytes, mUsbDataBuffer, LockFlash, flagVars, pc, cur,
                 kind, job, image, unplugs, late>>

(* The transfer is cancelled; when the cable is back a command is awaited. *)
Unplug ==
  /\ pc = "idle" /\ unplugs < MaxUnplugs /\ unplugs' = unplugs + 1
  /\ host' = "idle" /\ rx' = "command"
  /\ UNCHANGED <<mState, mNumDataBytes, mBytesReceivedSoFar, mUsbDataBuffer,
                 buf, lockVars, flagVars, pc, cur, kind, job, image, fresh,
                 late>>

(* The user interrupts a host tool that got no answer.                     *)
HostGivesUp ==
  /\ pc = "idle" /\ host = "wait" /\ host' = "idle"
  /\ UNCHANGED <<usbVars, mUsbDataBuffer, buf, lockVars, flagVars, pc, cur, kind,
                 job, image, unplugs, fresh, late>>

-----------------------------------------------------------------------------
(* CmdFlash.                                                               *)

(* Only what was downloaded begins like a sparse image.                    *)
CmdFlash ==
  /\ CommandArrives /\ FlashResult = "ok" /\ cur < MaxFlashes
  /\ kind' \in Kind /\ (kind' # "raw" => buf[mUsbDataBuffer][1] # Junk)
  /\ cur' = cur + 1
  /\ host' = "wait" /\ pc' = "x_download"
  /\ UNCHANGED <<usbVars, mUsbDataBuffer, buf, lockVars, flagVars, job, image,
                 unplugs, fresh, late>>

(* ExchangeFlashAndUsbDataBuf                                              *)
ExchangeBegins ==
  /\ pc = "x_download" /\ LockDownload = "free"
  /\ LockDownload' = "main" /\ pc' = "x_flash"
  /\ UNCHANGED <<usbVars, mUsbDataBuffer, buf, LockFlash, flagVars, cur, kind,
                 job, host, image, unplugs, fresh, late>>

(* Mutant: the exchange does not wait for the flash thread.                *)
LockFlashFree_Not == TRUE

LockFlashFree == LockFlash = 0

ExchangeFlashAndUsbDataBuf ==
  /\ pc = "x_flash" /\ LockFlashFree
  /\ mUsbDataBuffer' = OtherBuffer(mUsbDataBuffer)
  /\ job' = [job EXCEPT ![cur] =
               [st |-> "taken", from |-> mUsbDataBuffer, len |-> mNumDataBytes,
                pos |-> 0, image |-> IF fresh THEN image ELSE Junk,
                size |-> IF fresh THEN mNumDataBytes ELSE 0, good |-> TRUE]]
  /\ fresh' = FALSE /\ late' = (late \/ NotBegun # {})
  /\ LockDownload' = "free" /\ pc' = "dispatch"
  /\ UNCHANGED <<usbVars, buf, LockFlash, flagVars, cur, kind, host,
                 image, unplugs>>

(* The device is locked, the partition critical or unknown...              *)
FlashRefused ==
  /\ pc = "dispatch" /\ Answer
  /\ job' = [job EXCEPT ![cur] = Over("none")]
  /\ UNCHANGED <<usbVars, mUsbDataBuffer, buf, lockVars, flagVars, cur,
                 image, unplugs, fresh, late>>

(* A large sparse image: FlashInfo is allocated and the thread created and *)
(* resumed.  Without memory the command ends, and is not answered.         *)
CreateSparseImgFlashThread ==
  /\ pc = "dispatch" /\ kind = "big"
  /\ \/ Answer /\ job' = [job EXCEPT ![cur].st = "ready"]
     \/ NoAnswer /\ job' = [job EXCEPT ![cur] = Over("none")]
     \/ pc' = "here" /\ UNCHANGED <<host, job, kind>>
  /\ UNCHANGED <<usbVars, mUsbDataBuffer, buf, lockVars, flagVars, cur,
                 image, unplugs, fresh, late>>

FlashHere ==
  /\ pc = "dispatch" /\ kind # "big"
  /\ pc' = "here"
  /\ UNCHANGED <<usbVars, mUsbDataBuffer, buf, lockVars, flagVars, cur, kind,
                 job, host, image, unplugs, fresh, late>>

(* Unit k of buffer b; beyond its end anything may be.                     *)
Unit(b, k) == IF k <= MaxDownLoadSize THEN buf[b][k] ELSE Junk

(* One write of WriteToDisk.                                               *)
WriteUnit(j) ==
  /\ job[j].pos < job[j].len
  /\ LET k == job[j].pos + 1
     IN  job' = [job EXCEPT ![j].pos = k,
                            ![j].good = @ /\ Unit(job[j].from, k) = job[j].image]

WriteHere ==
  /\ pc = "here" /\ WriteUnit(cur)
  /\ UNCHANGED <<usbVars, mUsbDataBuffer, buf, lockVars, flagVars, pc, cur, kind,
                 host, image, unplugs, fresh, late>>

(* HandleSparseImgFlash, HandleRawImgFlash...  return.  A sparse image for *)
(* a partition just as large as a buffer is not answered for, whatever     *)
(* came of it.                                                             *)
FlashedHere ==
  /\ pc = "here"
  /\ \/ /\ job[cur].pos = job[cur].len /\ FlashResult' = "ok"
        /\ job' = [job EXCEPT ![cur] = Written(@)]
     \/ /\ FlashResult' = IF kind = "equal" THEN "error" ELSE "ok"
        /\ job' = [job EXCEPT ![cur] =
                     Over(IF kind = "equal" THEN "failed" ELSE "reported")]
  /\ IsFlashComplete' = (IsFlashComplete \/ kind # "raw")
  /\ IF kind = "equal" THEN NoAnswer ELSE Answer
  /\ UNCHANGED <<usbVars, mUsbDataBuffer, buf, lockVars, cur, image, unplugs, fresh, late>>

-----------------------------------------------------------------------------
(* SparseImgFlashThread.                                                   *)

ThreadLocks(j) ==
  /\ pc # "left" /\ job[j].st = "ready" /\ LockFlash = 0
  /\ LockFlash' = j /\ job' = [job EXCEPT ![j].st = "locked"]
  /\ UNCHANGED <<usbVars, mUsbDataBuffer, buf, LockDownload, flagVars, pc, cur,
                 kind, host, image, unplugs, fresh, late>>

(* Mutant: the flag is not cleared.                                        *)
ThreadBegins_NoFlag(j) ==
  /\ pc # "left" /\ job[j].st = "locked"
  /\ job' = [job EXCEPT ![j].st = "flashing"]
  /\ UNCHANGED <<usbVars, mUsbDataBuffer, buf, lockVars, flagVars, pc, cur, kind,
                 host, image, unplugs, fresh, late>>

ThreadBegins(j) ==
  /\ pc # "left" /\ job[j].st = "locked"
  /\ IsFlashComplete' = FALSE /\ job' = [job EXCEPT ![j].st = "flashing"]
  /\ UNCHANGED <<usbVars, mUsbDataBuffer, buf, lockVars, FlashResult, pc, cur,
                 kind, host, image, unplugs, fresh, late>>

ThreadWrites(j) ==
  /\ pc # "left" /\ job[j].st = "flashing" /\ WriteUnit(j)
  /\ UNCHANGED <<usbVars, mUsbDataBuffer, buf, lockVars, flagVars, pc, cur, kind,
                 host, image, unplugs, fresh, late>>

(* What HandleSparseImgFlash returns is not looked at.                     *)
ThreadEnds(j) ==
  /\ pc # "left" /\ job[j].st = "flashing"
  /\ \/ job[j].pos = job[j].len /\ job' = [job EXCEPT ![j] = Written(@)]
     \/ job' = [job EXCEPT ![j] = Over("failed")]
  /\ IsFlashComplete' = TRUE
  /\ UNCHANGED <<usbVars, mUsbDataBuffer, buf, lockVars, FlashResult, pc, cur,
                 kind, host, image, unplugs, fresh, late>>

(* Mutant: a thread whose flash failed leaves without releasing the lock.  *)
ThreadUnlocks_OnSuccess(j) ==
  /\ pc # "left" /\ LockFlash = j /\ job[j].st \in {"done", "spoiled"}
  /\ LockFlash' = 0
  /\ UNCHANGED <<usbVars, mUsbDataBuffer, buf, LockDownload, flagVars, pc, cur,
                 kind, job, host, image, unplugs, fresh, late>>

ThreadUnlocks(j) ==
  /\ pc # "left" /\ LockFlash = j /\ job[j].st \in {"done", "spoiled", "failed"}
  /\ LockFlash' = 0
  /\ UNCHANGED <<usbVars, mUsbDataBuffer, buf, LockDownload, flagVars, pc, cur,
                 kind, job, host, image, unplugs, fresh, late>>

-----------------------------------------------------------------------------
(* The commands that call WaitForFlashFinished: erase, reboot, continue    *)
(* and boot.                                                               *)

CommandWaits ==
  /\ CommandArrives
  /\ host' = "wait" /\ late' = (late \/ NotBegun # {})
  /\ pc' = IF IsFlashComplete THEN "quiet" ELSE "wait_flash"
  /\ UNCHANGED <<usbVars, mUsbDataBuffer, buf, lockVars, flagVars, cur, kind,
                 job, image, unplugs, fresh>>

WaitForFlashFinished ==
  /\ pc = "wait_flash" /\ LockFlash = 0
  /\ pc' = "quiet"
  /\ UNCHANGED <<usbVars, mUsbDataBuffer, buf, lockVars, flagVars, cur, kind,
                 job, host, image, unplugs, fresh, late>>

(* CmdErase answers; the others leave fastboot for good.                   *)
CommandQuiet ==
  /\ pc = "quiet"
  /\ \/ Answer
     \/ pc' = "left" /\ UNCHANGED <<host, kind>>
  /\ UNCHANGED <<usbVars, mUsbDataBuffer, buf, lockVars, flagVars, cur,
                 job, image, unplugs, fresh, late>>

-----------------------------------------------------------------------------
Init ==
  /\ mState = "cmd" /\ rx = "command"
  /\ mNumDataBytes = MaxDownLoadSize /\ mBytesReceivedSoFar = 0
  /\ mUsbDataBuffer = 1
  /\ buf = [b \in Buffer |-> [k \in 1 .. MaxDownLoadSize |-> Junk]]
  /\ LockDownload = "free" /\ LockFlash = 0
  /\ IsFlashComplete = TRUE /\ FlashResult = "ok"
  /\ pc = "idle" /\ cur = 0 /\ kind = "raw"
  /\ job = [j \in Job |-> Over("none")]
  /\ host = "idle" /\ image = 0 /\ unplugs = 0
  /\ fresh = FALSE /\ late = FALSE

Handler ==
  \/ DownloadStarts \/ ExchangeBegins \/ ExchangeFlashAndUsbDataBuf
  \/ FlashRefused \/ CreateSparseImgFlashThread \/ FlashHere
  \/ WriteHere \/ FlashedHere \/ WaitForFlashFinished \/ CommandQuiet

FlashThread(j) ==
  \/ ThreadLocks(j) \/ ThreadBegins(j) \/ ThreadWrites(j) \/ ThreadEnds(j)
  \/ ThreadUnlocks(j)

Host ==
  \/ LastFlashFailed \/ CmdDownload \/ DataArrives \/ CommandAsData
  \/ Unplug \/ HostGivesUp \/ CmdFlash \/ CommandWaits

Next == Handler \/ Host \/ \E j \in Job : FlashThread(j)

Spec == Init /\ [][Next]_vars

(* The scheduler runs the fastboot thread and every flash thread that can  *)
(* go on; the host may stop at any time.                                   *)
FairSpec ==
  Spec /\ WF_vars(Handler) /\ \A j \in Job : WF_vars(FlashThread(j))

-----------------------------------------------------------------------------
(* Properties.                                                             *)

FlashTypeOK ==
  /\ mState \in {"cmd", "data"} /\ rx \in {"command", "buffer"}
  /\ mNumDataBytes \in 0 .. MaxDownLoadSize + 1
  /\ mBytesReceivedSoFar \in 0 .. MaxDownLoadSize
  /\ mUsbDataBuffer \in Buffer
  /\ buf \in [Buffer -> [1 .. MaxDownLoadSize -> 0 .. MaxImages]]
  /\ LockDownload \in {"free", "main"} /\ LockFlash \in 0 .. MaxFlashes
  /\ IsFlashComplete \in BOOLEAN /\ FlashResult \in {"ok", "error"}
  /\ pc \in {"idle", "dl_lock", "x_download", "x_flash", "dispatch", "here",
             "wait_flash", "quiet", "left"}
  /\ cur \in 0 .. MaxFlashes /\ kind \in Kind
  /\ job \in [Job -> JobRecord]
  /\ host \in {"idle", "wait", "send"}
  /\ image \in 0 .. MaxImages /\ unplugs \in 0 .. MaxUnplugs
  /\ fresh \in BOOLEAN /\ late \in BOOLEAN

(* As long as every flash thread takes LockFlash before the fastboot       *)
(* thread gets to the next exchange, the host's data never goes to a       *)
(* buffer that a thread is to read (ExchangeFlashAndUsbDataBuf).           *)
BuffersApart == ~late => \A j \in Unfinished : job[j].from # mUsbDataBuffer

(* Under the same condition and without a pulled cable, a flash that       *)
(* follows a download writes that image, all of it and nothing else,       *)
(* whatever is downloaded meanwhile.                                       *)
FlashIntact ==
  ~late /\ unplugs = 0 => \A j \in Job : job[j].st # "spoiled"

(* Under the same condition no flash is unfinished when a command goes on  *)
(* after WaitForFlashFinished, to erase a partition or to reset.           *)
QuietWhenWaited == ~late /\ pc \in {"quiet", "left"} => Unfinished = {}

(* A handler that waits for a lock gets it: the fastboot thread never      *)
(* waits for LockDownload while it holds it itself, and every flash thread *)
(* releases LockFlash, failed or not.                                      *)
HandlerReturns == pc # "idle" ~> pc \in {"idle", "left"}

(* "Shoud block command until flash finished" (WaitForFlashFinished).      *)
WaitBlocks == pc = "quiet" => Unfinished = {}

(* "if it is mNumDataBytes > MaxDownLoadSize it will fail early and will   *)
(* not cause any oob": no flash reads beyond the buffer.                   *)
SizeChecked == pc \in {"dispatch", "here"} => job[cur].len <= MaxDownLoadSize

(* "Check last flash result": no download and no flash is accepted while   *)
(* the host has not been told of a flash that failed before.               *)
LastResultChecked ==
  [][pc = "idle" /\ pc' \in {"dl_lock", "x_download"}
       => \A j \in Job : job[j].st # "failed"]_vars

(* "Send okay for next data sending": every command is answered.           *)
EveryCommandAnswered == host = "wait" ~> host # "wait" \/ pc = "left"

=============================================================================
