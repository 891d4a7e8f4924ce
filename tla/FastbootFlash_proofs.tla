-------------------------- MODULE FastbootFlash_proofs --------------------------
(***************************************************************************)
(* Proofs about FastbootFlash: whatever the host sends and however the     *)
(* fastboot thread and the flash threads interleave, the buffers stay      *)
(* apart, a flash writes the image sent for it, and a command that waited  *)
(* finds no flash unfinished, as long as no thread is overtaken.  For any  *)
(* buffer size and any number of downloads and flashes.                    *)
(***************************************************************************)
EXTENDS FastbootFlash, TLAPS

(* The fastboot thread is in CmdFlash, after the exchange of the buffers.  *)
InFlash == pc \in {"dispatch", "here"}

(* Sizes: what is being received fits in the buffer.                       *)
Sizes ==
  /\ pc = "dl_lock" => mNumDataBytes \in 1 .. MaxDownLoadSize
  /\ mState = "data" => /\ pc = "idle" /\ mNumDataBytes <= MaxDownLoadSize
                        /\ mBytesReceivedSoFar < mNumDataBytes
                        /\ image # Junk /\ ~fresh
  /\ pc = "dl_lock" => image # Junk /\ ~fresh
  /\ fresh => mNumDataBytes <= MaxDownLoadSize /\ image # Junk
  /\ pc \in {"x_download", "x_flash", "dispatch", "here"} => cur \in Job

(* Only the holder of LockFlash writes.                                    *)
Exclusive ==
  \A j \in Job : job[j].st \in {"locked", "flashing"} => LockFlash = j

(* The buffers, and the flag, as long as no thread was overtaken.          *)
Apart ==
  /\ InFlash => job[cur].st = "taken" /\ job[cur].from # mUsbDataBuffer
  /\ ~late =>
       /\ \A j \in Job : job[j].st \in {"ready", "locked", "flashing"} =>
            /\ job[j].from # mUsbDataBuffer
            /\ pc \notin {"dispatch", "here", "quiet", "left"}
       /\ \A j \in Job : job[j].st \in {"ready", "locked"} => pc # "wait_flash"
       /\ \A j \in Job : job[j].st = "flashing" => ~IsFlashComplete

(* The buffer of a flash holds the image sent for it.                      *)
Holds(b, r) ==
  r.image # Junk =>
    /\ r.good /\ r.len = r.size
    /\ \A k \in 1 .. r.len : k <= MaxDownLoadSize /\ b[r.from][k] = r.image

(* Contents of the buffers, as long as the cable is not pulled.            *)
Intact ==
  unplugs = 0 =>
    /\ mState = "data" =>
         /\ rx = "buffer" /\ host = "send"
         /\ \A k \in 1 .. mBytesReceivedSoFar : buf[mUsbDataBuffer][k] = image
    /\ fresh => \A k \in 1 .. mNumDataBytes : buf[mUsbDataBuffer][k] = image
    /\ InFlash => Holds(buf, job[cur])
    /\ ~late => \A j \in Job :
         /\ job[j].st \in {"ready", "locked", "flashing"} => Holds(buf, job[j])
         /\ job[j].st # "spoiled"

FlashInv == FlashTypeOK /\ Sizes /\ Exclusive /\ Apart /\ Intact

-----------------------------------------------------------------------------
(* Over and Written give job records.                                      *)
LEMMA JobRecords ==
  /\ \A s \in State : Over(s) \in JobRecord /\ Over(s).st = s
  /\ \A r : Written(r) = Over("done") \/ Written(r) = Over("spoiled")
  /\ \A r \in JobRecord : r.good /\ r.pos = r.size => Written(r) = Over("done")
  /\ \A r \in JobRecord : r.image = Junk => Written(r) = Over("done")
BY SizesAssumption DEF Over, Written, JobRecord, State, Buffer, Junk

(* The ways in which the jobs change keep them job records.                *)
LEMMA JobUpdates ==
  ASSUME NEW f \in [Job -> JobRecord], NEW j
  PROVE  /\ \A s \in State : /\ [f EXCEPT ![j] = Over(s)] \in [Job -> JobRecord]
                             /\ [f EXCEPT ![j].st = s] \in [Job -> JobRecord]
         /\ [f EXCEPT ![j] = Written(@)] \in [Job -> JobRecord]
<1>1. ASSUME NEW s \in State
      PROVE  /\ [f EXCEPT ![j] = Over(s)] \in [Job -> JobRecord]
             /\ [f EXCEPT ![j].st = s] \in [Job -> JobRecord]
  <2>1. [f EXCEPT ![j] = Over(s)] \in [Job -> JobRecord]
    BY JobRecords
  <2>2. ASSUME NEW r \in JobRecord PROVE [r EXCEPT !.st = s] \in JobRecord
    BY DEF JobRecord
  <2>3. [f EXCEPT ![j].st = s] \in [Job -> JobRecord]
    BY <2>2
  <2>4. QED
    BY <2>1, <2>3
<1>2. [f EXCEPT ![j] = Written(@)] \in [Job -> JobRecord]
  BY JobRecords DEF State
<1>3. QED
  BY <1>1, <1>2

(* A written unit changes the place, and keeps or clears the ghost good.   *)
LEMMA UnitWritten ==
  ASSUME NEW j \in Job, job \in [Job -> JobRecord], WriteUnit(j)
  PROVE  /\ job' \in [Job -> JobRecord]
         /\ \A i \in Job : i # j => job'[i] = job[i]
         /\ job'[j].st = job[j].st /\ job'[j].from = job[j].from
         /\ job'[j].len = job[j].len /\ job'[j].image = job[j].image
         /\ job'[j].size = job[j].size /\ job[j].pos < job[j].len
         /\ job'[j].pos = job[j].pos + 1
         /\ job'[j].good = (/\ job[j].good
                            /\ Unit(job[j].from, job[j].pos + 1) = job[j].image)
<1> DEFINE b == Unit(job[j].from, job[j].pos + 1) = job[j].image
           q == [job[j] EXCEPT !.pos = job[j].pos + 1,
                               !.good = job[j].good /\ b]
<1>1. job' = [job EXCEPT ![j] = q] /\ job[j].pos < job[j].len
  BY DEF WriteUnit
<1>2. q \in JobRecord
  <2>1. job[j] \in JobRecord /\ job[j].pos < job[j].len
    BY <1>1
  <2>2. job[j].pos + 1 \in 0 .. MaxDownLoadSize + 1
    BY <2>1, SizesAssumption DEF JobRecord
  <2>3. (job[j].good /\ b) \in BOOLEAN
    OBVIOUS
  <2> HIDE DEF b
  <2>4. QED
    BY <2>1, <2>2, <2>3 DEF JobRecord
<1>3. /\ job' \in [Job -> JobRecord] /\ job'[j] = q
      /\ \A i \in Job : i # j => job'[i] = job[i]
  <2> HIDE DEF q
  <2>1. QED
    BY <1>1, <1>2
<1>4. job[j] \in JobRecord
  OBVIOUS
<1> HIDE DEF b
<1>5. QED
  BY <1>1, <1>3, <1>4 DEF JobRecord, b

(* The state of a job changes, or all of it.                               *)
LEMMA StateChanged ==
  ASSUME NEW j \in Job, job \in [Job -> JobRecord], NEW s \in State,
         job' = [job EXCEPT ![j].st = s]
  PROVE  /\ \A i \in Job : i # j => job'[i] = job[i]
         /\ job'[j] = [job[j] EXCEPT !.st = s]
         /\ job'[j].st = s /\ job'[j].from = job[j].from
         /\ job'[j].len = job[j].len /\ job'[j].image = job[j].image
         /\ job'[j].size = job[j].size /\ job'[j].good = job[j].good
BY DEF JobRecord

LEMMA JobOver ==
  ASSUME NEW j, job \in [Job -> JobRecord], NEW s \in State,
         job' = [job EXCEPT ![j] = Over(s)]
  PROVE  \A i \in Job : job'[i] = IF i = j THEN Over(s) ELSE job[i]
OBVIOUS

(* A job that is over asks nothing of the buffers; a written unit keeps    *)
(* what the buffer holds, and a whole image that it held is not spoiled.   *)
LEMMA OverHolds ==
  ASSUME NEW s \in State, NEW b PROVE Over(s).st = s /\ Holds(b, Over(s))
BY DEF Over, Holds

LEMMA UnitKeeps ==
  ASSUME NEW j \in Job, job \in [Job -> JobRecord], WriteUnit(j),
         Holds(buf, job[j])
  PROVE  Holds(buf, job'[j])
<1>1. job[j].pos \in Nat /\ job[j].len \in Nat
  BY SizesAssumption DEF JobRecord
<1>2. job[j].pos + 1 \in 1 .. job[j].len
  <2>1. job[j].pos < job[j].len
    BY UnitWritten
  <2>2. QED
    BY <1>1, <2>1
<1>3. job[j].image # Junk => Unit(job[j].from, job[j].pos + 1) = job[j].image
  <2>1. job[j].image # Junk =>
          /\ job[j].pos + 1 <= MaxDownLoadSize
          /\ buf[job[j].from][job[j].pos + 1] = job[j].image
    BY <1>2 DEF Holds
  <2>2. QED
    BY <2>1 DEF Unit
<1>4. /\ job'[j].from = job[j].from /\ job'[j].len = job[j].len
      /\ job'[j].image = job[j].image /\ job'[j].size = job[j].size
      /\ job[j].image # Junk /\ job[j].good => job'[j].good
  BY <1>3, UnitWritten
<1>5. QED
  BY <1>4 DEF Holds

LEMMA WrittenHolds ==
  ASSUME NEW r \in JobRecord, NEW b, Holds(b, r), r.pos = r.len
  PROVE  Written(r) = Over("done")
BY DEF Holds, Written

(* The jobs stay job records.                                              *)
LEMMA JobsTyped ==
  FlashTypeOK /\ Sizes /\ [Next]_vars => job' \in [Job -> JobRecord]
<1> SUFFICES ASSUME FlashTypeOK /\ Sizes, [Next]_vars
             PROVE  job' \in [Job -> JobRecord]
  OBVIOUS
<1>0. job \in [Job -> JobRecord]
  BY DEF FlashTypeOK
<1>1. CASE DownloadStarts
  BY <1>1, <1>0 DEF DownloadStarts
<1>2. CASE ExchangeBegins
  BY <1>2, <1>0 DEF ExchangeBegins
<1>3. CASE ExchangeFlashAndUsbDataBuf
  <2>1. /\ mUsbDataBuffer \in Buffer /\ mNumDataBytes \in 0 .. MaxDownLoadSize + 1
        /\ fresh => mNumDataBytes \in 0 .. MaxDownLoadSize
        /\ image \in 0 .. MaxImages
    BY SizesAssumption DEF FlashTypeOK, Sizes
  <2>2. [st |-> "taken", from |-> mUsbDataBuffer, len |-> mNumDataBytes,
         pos |-> 0, image |-> IF fresh THEN image ELSE Junk,
         size |-> IF fresh THEN mNumDataBytes ELSE 0, good |-> TRUE] \in JobRecord
    BY <2>1, SizesAssumption DEF JobRecord, State, Junk
  <2>3. QED
    BY <1>3, <1>0, <2>2 DEF ExchangeFlashAndUsbDataBuf
<1>4. CASE FlashRefused
  BY <1>4, <1>0, JobUpdates DEF FlashRefused, State
<1>5. CASE CreateSparseImgFlashThread
  <2>1. \/ job' = [job EXCEPT ![cur].st = "ready"]
        \/ job' = [job EXCEPT ![cur] = Over("none")]
        \/ job' = job
    BY <1>5 DEF CreateSparseImgFlashThread
  <2>2. CASE job' = [job EXCEPT ![cur].st = "ready"]
    BY <2>2, <1>0, JobUpdates DEF State
  <2>3. CASE job' = [job EXCEPT ![cur] = Over("none")]
    BY <2>3, <1>0, JobUpdates DEF State
  <2>4. CASE job' = job
    BY <2>4, <1>0
  <2>5. QED
    BY <2>1, <2>2, <2>3, <2>4
<1>6. CASE FlashHere
  BY <1>6, <1>0 DEF FlashHere
<1>7. CASE WriteHere
  <2>1. cur \in Job
    BY <1>7 DEF WriteHere, Sizes
  <2>2. QED
    BY <1>7, <1>0, <2>1, UnitWritten DEF WriteHere
<1>8. CASE FlashedHere
  <2>1. \/ job' = [job EXCEPT ![cur] = Written(@)]
        \/ job' = [job EXCEPT ![cur] = Over("failed")]
        \/ job' = [job EXCEPT ![cur] = Over("reported")]
    BY <1>8 DEF FlashedHere
  <2>2. CASE job' = [job EXCEPT ![cur] = Written(@)]
    BY <2>2, <1>0, JobUpdates DEF State
  <2>3. CASE job' = [job EXCEPT ![cur] = Over("failed")]
    BY <2>3, <1>0, JobUpdates DEF State
  <2>4. CASE job' = [job EXCEPT ![cur] = Over("reported")]
    BY <2>4, <1>0, JobUpdates DEF State
  <2>5. QED
    BY <2>1, <2>2, <2>3, <2>4
<1>9. CASE WaitForFlashFinished
  BY <1>9, <1>0 DEF WaitForFlashFinished
<1>10. CASE CommandQuiet
  BY <1>10, <1>0 DEF CommandQuiet
<1>11. CASE LastFlashFailed
  BY <1>11, <1>0, JobUpdates DEF LastFlashFailed, State
<1>12. CASE CmdDownload
  BY <1>12, <1>0 DEF CmdDownload
<1>13. CASE DataArrives
  BY <1>13, <1>0 DEF DataArrives
<1>14. CASE CommandAsData
  BY <1>14, <1>0 DEF CommandAsData
<1>15. CASE Unplug
  BY <1>15, <1>0 DEF Unplug
<1>16. CASE HostGivesUp
  BY <1>16, <1>0 DEF HostGivesUp
<1>17. CASE CmdFlash
  BY <1>17, <1>0 DEF CmdFlash
<1>18. CASE CommandWaits
  BY <1>18, <1>0 DEF CommandWaits
<1>19. ASSUME NEW j \in Job, ThreadLocks(j) PROVE job' \in [Job -> JobRecord]
  BY <1>19, <1>0, JobUpdates DEF ThreadLocks, State
<1>20. ASSUME NEW j \in Job, ThreadBegins(j) PROVE job' \in [Job -> JobRecord]
  BY <1>20, <1>0, JobUpdates DEF ThreadBegins, State
<1>21. ASSUME NEW j \in Job, ThreadWrites(j) PROVE job' \in [Job -> JobRecord]
  BY <1>21, <1>0, UnitWritten DEF ThreadWrites
<1>22. ASSUME NEW j \in Job, ThreadEnds(j) PROVE job' \in [Job -> JobRecord]
  <2>1. \/ job' = [job EXCEPT ![j] = Written(@)]
        \/ job' = [job EXCEPT ![j] = Over("failed")]
    BY <1>22 DEF ThreadEnds
  <2>2. CASE job' = [job EXCEPT ![j] = Written(@)]
    BY <2>2, <1>0, JobUpdates DEF State
  <2>3. CASE job' = [job EXCEPT ![j] = Over("failed")]
    BY <2>3, <1>0, JobUpdates DEF State
  <2>4. QED
    BY <2>1, <2>2, <2>3
<1>23. ASSUME NEW j \in Job, ThreadUnlocks(j) PROVE job' \in [Job -> JobRecord]
  BY <1>23, <1>0 DEF ThreadUnlocks
<1>24. CASE UNCHANGED vars
  BY <1>24, <1>0 DEF vars
<1>25. QED
  BY <1>1, <1>2, <1>3, <1>4, <1>5, <1>6, <1>7, <1>8, <1>9, <1>10, <1>11,
     <1>12, <1>13, <1>14, <1>15, <1>16, <1>17, <1>18, <1>19, <1>20, <1>21,
     <1>22, <1>23, <1>24 DEF Next, Handler, Host, FlashThread

(* The types are kept.                                                     *)
LEMMA TypeStep ==
  FlashTypeOK /\ Sizes /\ [Next]_vars => FlashTypeOK'
<1> SUFFICES ASSUME FlashTypeOK /\ Sizes, [Next]_vars
             PROVE  FlashTypeOK'
  OBVIOUS
<1>0. job' \in [Job -> JobRecord]
  BY JobsTyped
<1> USE SizesAssumption DEF FlashTypeOK, Sizes, InFlash, usbVars, lockVars,
                            flagVars, Buffer, Job, Kind, Junk
<1>1. CASE DownloadStarts
  BY <1>1, <1>0 DEF DownloadStarts
<1>2. CASE ExchangeBegins
  BY <1>2, <1>0 DEF ExchangeBegins
<1>3. CASE ExchangeFlashAndUsbDataBuf
  <2>1. fresh' \in BOOLEAN /\ late' \in BOOLEAN
    BY <1>3 DEF ExchangeFlashAndUsbDataBuf
  <2>2. QED
    BY <1>3, <1>0, <2>1, SMTT(40) DEF ExchangeFlashAndUsbDataBuf, OtherBuffer
<1>4. CASE FlashRefused
  BY <1>4, <1>0 DEF FlashRefused, Answer
<1>5. CASE CreateSparseImgFlashThread
  BY <1>5, <1>0 DEF CreateSparseImgFlashThread, Answer, NoAnswer
<1>6. CASE FlashHere
  BY <1>6, <1>0 DEF FlashHere
<1>7. CASE WriteHere
  BY <1>7, <1>0 DEF WriteHere, WriteUnit
<1>8. CASE FlashedHere
  BY <1>8, <1>0 DEF FlashedHere, Answer, NoAnswer
<1>9. CASE WaitForFlashFinished
  BY <1>9, <1>0 DEF WaitForFlashFinished
<1>10. CASE CommandQuiet
  BY <1>10, <1>0 DEF CommandQuiet, Answer
<1>11. CASE LastFlashFailed
  BY <1>11, <1>0 DEF LastFlashFailed, CommandArrives
<1>12. CASE CmdDownload
  <2>1. fresh' \in BOOLEAN
    BY <1>12 DEF CmdDownload
  <2>2. /\ mNumDataBytes' \in 0 .. MaxDownLoadSize + 1
        /\ host' \in {"idle", "wait", "send"} /\ image' \in 0 .. MaxImages
        /\ pc' \in {"idle", "dl_lock"}
    BY <1>12 DEF CmdDownload, CommandArrives
  <2>3. QED
    BY <1>12, <1>0, <2>1, <2>2 DEF CmdDownload
<1>13. CASE DataArrives
  <2>1. buf' \in [Buffer -> [1 .. MaxDownLoadSize -> 0 .. MaxImages]]
    <3>1. ASSUME NEW u \in 0 .. MaxImages, NEW k
          PROVE  [buf EXCEPT ![mUsbDataBuffer][k] = u] \in
                   [Buffer -> [1 .. MaxDownLoadSize -> 0 .. MaxImages]]
      OBVIOUS
    <3>2. QED
      BY <1>13, <3>1 DEF DataArrives, AcceptData
  <2>2. fresh' \in BOOLEAN
    BY <1>13 DEF DataArrives, AcceptData
  <2>3. mBytesReceivedSoFar' \in 0 .. MaxDownLoadSize
    BY <1>13 DEF DataArrives, AcceptData
  <2>4. QED
    BY <1>13, <1>0, <2>1, <2>2, <2>3 DEF DataArrives, AcceptData
<1>14. CASE CommandAsData
  <2>1. buf' \in [Buffer -> [1 .. MaxDownLoadSize -> 0 .. MaxImages]]
    <3>1. ASSUME NEW u \in 0 .. MaxImages, NEW k
          PROVE  [buf EXCEPT ![mUsbDataBuffer][k] = u] \in
                   [Buffer -> [1 .. MaxDownLoadSize -> 0 .. MaxImages]]
      OBVIOUS
    <3>2. QED
      BY <1>14, <3>1 DEF CommandAsData, AcceptData
  <2>2. fresh' \in BOOLEAN
    BY <1>14 DEF CommandAsData, AcceptData
  <2>3. mBytesReceivedSoFar' \in 0 .. MaxDownLoadSize
    BY <1>14 DEF CommandAsData, AcceptData
  <2>4. QED
    BY <1>14, <1>0, <2>1, <2>2, <2>3 DEF CommandAsData, AcceptData
<1>15. CASE Unplug
  BY <1>15, <1>0 DEF Unplug
<1>16. CASE HostGivesUp
  BY <1>16, <1>0 DEF HostGivesUp
<1>17. CASE CmdFlash
  BY <1>17, <1>0 DEF CmdFlash, CommandArrives
<1>18. CASE CommandWaits
  BY <1>18, <1>0 DEF CommandWaits, CommandArrives
<1>19. ASSUME NEW j \in Job, ThreadLocks(j) PROVE FlashTypeOK'
  BY <1>19, <1>0 DEF ThreadLocks
<1>20. ASSUME NEW j \in Job, ThreadBegins(j) PROVE FlashTypeOK'
  <2>1. IsFlashComplete' \in BOOLEAN
    BY <1>20 DEF ThreadBegins
  <2>2. QED
    BY <1>20, <1>0, <2>1 DEF ThreadBegins
<1>21. ASSUME NEW j \in Job, ThreadWrites(j) PROVE FlashTypeOK'
  BY <1>21, <1>0 DEF ThreadWrites, WriteUnit
<1>22. ASSUME NEW j \in Job, ThreadEnds(j) PROVE FlashTypeOK'
  BY <1>22, <1>0 DEF ThreadEnds
<1>23. ASSUME NEW j \in Job, ThreadUnlocks(j) PROVE FlashTypeOK'
  BY <1>23, <1>0 DEF ThreadUnlocks
<1>24. CASE UNCHANGED vars
  BY <1>24 DEF vars, usbVars, lockVars, flagVars
<1>25. QED
  BY <1>1, <1>2, <1>3, <1>4, <1>5, <1>6, <1>7, <1>8, <1>9, <1>10, <1>11,
     <1>12, <1>13, <1>14, <1>15, <1>16, <1>17, <1>18, <1>19, <1>20, <1>21,
     <1>22, <1>23, <1>24 DEF Next, Handler, Host, FlashThread

(* The sizes are kept.                                                     *)
LEMMA SizesStep ==
  FlashTypeOK /\ Sizes /\ [Next]_vars => Sizes'
<1> SUFFICES ASSUME FlashTypeOK /\ Sizes, [Next]_vars
             PROVE  Sizes'
  OBVIOUS
<1>0. /\ mNumDataBytes \in 0 .. MaxDownLoadSize + 1 /\ image \in 0 .. MaxImages
      /\ mBytesReceivedSoFar \in 0 .. MaxDownLoadSize /\ cur \in 0 .. MaxFlashes
  BY DEF FlashTypeOK
<1> USE SizesAssumption DEF Sizes, InFlash, usbVars, lockVars, flagVars, Junk
<1>1. CASE DownloadStarts
  BY <1>1, <1>0 DEF DownloadStarts
<1>2. CASE ExchangeBegins
  BY <1>2, <1>0 DEF ExchangeBegins
<1>3. CASE ExchangeFlashAndUsbDataBuf
  BY <1>3, <1>0 DEF ExchangeFlashAndUsbDataBuf, LockFlashFree, OtherBuffer,
     NotBegun
<1>4. CASE FlashRefused
  BY <1>4, <1>0 DEF FlashRefused, Answer
<1>5. CASE CreateSparseImgFlashThread
  BY <1>5, <1>0 DEF CreateSparseImgFlashThread, Answer, NoAnswer
<1>6. CASE FlashHere
  BY <1>6, <1>0 DEF FlashHere
<1>7. CASE WriteHere
  BY <1>7, <1>0 DEF WriteHere, WriteUnit
<1>8. CASE FlashedHere
  BY <1>8, <1>0 DEF FlashedHere, Answer, NoAnswer
<1>9. CASE WaitForFlashFinished
  BY <1>9, <1>0 DEF WaitForFlashFinished
<1>10. CASE CommandQuiet
  BY <1>10, <1>0 DEF CommandQuiet, Answer
<1>11. CASE LastFlashFailed
  BY <1>11, <1>0 DEF LastFlashFailed, CommandArrives
<1>12. CASE CmdDownload
  BY <1>12, <1>0 DEF CmdDownload, CommandArrives
<1>13. CASE DataArrives
  BY <1>13, <1>0 DEF DataArrives, AcceptData
<1>14. CASE CommandAsData
  BY <1>14, <1>0 DEF CommandAsData, AcceptData
<1>15. CASE Unplug
  BY <1>15, <1>0 DEF Unplug
<1>16. CASE HostGivesUp
  BY <1>16, <1>0 DEF HostGivesUp
<1>17. CASE CmdFlash
  BY <1>17, <1>0 DEF CmdFlash, CommandArrives, Job
<1>18. CASE CommandWaits
  BY <1>18, <1>0 DEF CommandWaits, CommandArrives
<1>19. ASSUME NEW j \in Job, ThreadLocks(j) PROVE Sizes'
  BY <1>19, <1>0 DEF ThreadLocks
<1>20. ASSUME NEW j \in Job, ThreadBegins(j) PROVE Sizes'
  BY <1>20, <1>0 DEF ThreadBegins
<1>21. ASSUME NEW j \in Job, ThreadWrites(j) PROVE Sizes'
  BY <1>21, <1>0 DEF ThreadWrites, WriteUnit
<1>22. ASSUME NEW j \in Job, ThreadEnds(j) PROVE Sizes'
  BY <1>22, <1>0 DEF ThreadEnds
<1>23. ASSUME NEW j \in Job, ThreadUnlocks(j) PROVE Sizes'
  BY <1>23, <1>0 DEF ThreadUnlocks
<1>24. CASE UNCHANGED vars
  BY <1>24 DEF vars, usbVars, lockVars, flagVars
<1>25. QED
  BY <1>1, <1>2, <1>3, <1>4, <1>5, <1>6, <1>7, <1>8, <1>9, <1>10, <1>11,
     <1>12, <1>13, <1>14, <1>15, <1>16, <1>17, <1>18, <1>19, <1>20, <1>21,
     <1>22, <1>23, <1>24 DEF Next, Handler, Host, FlashThread

(* Only the holder of LockFlash writes.                                    *)
LEMMA ExclusiveStep ==
  FlashTypeOK /\ Sizes /\ Exclusive /\ [Next]_vars => Exclusive'
<1> SUFFICES ASSUME FlashTypeOK /\ Sizes /\ Exclusive, [Next]_vars
             PROVE  Exclusive'
  OBVIOUS
<1>0. /\ job \in [Job -> JobRecord] /\ job' \in [Job -> JobRecord]
      /\ LockFlash \in 0 .. MaxFlashes
  BY JobsTyped DEF FlashTypeOK
<1> USE SizesAssumption DEF Exclusive, lockVars
<1>1. CASE DownloadStarts
  BY <1>1, <1>0, JobRecords DEF DownloadStarts
<1>2. CASE ExchangeBegins
  BY <1>2, <1>0, JobRecords DEF ExchangeBegins
<1>3. CASE ExchangeFlashAndUsbDataBuf
  BY <1>3, <1>0, JobRecords DEF ExchangeFlashAndUsbDataBuf, LockFlashFree,
     OtherBuffer, NotBegun
<1>4. CASE FlashRefused
  BY <1>4, <1>0, JobRecords DEF FlashRefused, Answer, State
<1>5. CASE CreateSparseImgFlashThread
  <2>1. cur \in Job
    BY <1>5 DEF CreateSparseImgFlashThread, Sizes
  <2>2. CASE job' = [job EXCEPT ![cur].st = "ready"]
    BY <1>5, <1>0, <2>1, <2>2, StateChanged
       DEF CreateSparseImgFlashThread, State
  <2>3. CASE job' = [job EXCEPT ![cur] = Over("none")]
    BY <1>5, <1>0, <2>3, JobOver, JobRecords
       DEF CreateSparseImgFlashThread, State
  <2>4. CASE job' = job
    BY <1>5, <2>4 DEF CreateSparseImgFlashThread
  <2>5. QED
    BY <1>5, <2>2, <2>3, <2>4 DEF CreateSparseImgFlashThread
<1>6. CASE FlashHere
  BY <1>6, <1>0, JobRecords DEF FlashHere
<1>7. CASE WriteHere
  BY <1>7, <1>0, JobRecords DEF WriteHere, WriteUnit
<1>8. CASE FlashedHere
  BY <1>8, <1>0, JobRecords DEF FlashedHere, Answer, NoAnswer, State
<1>9. CASE WaitForFlashFinished
  BY <1>9, <1>0, JobRecords DEF WaitForFlashFinished
<1>10. CASE CommandQuiet
  BY <1>10, <1>0, JobRecords DEF CommandQuiet, Answer
<1>11. CASE LastFlashFailed
  BY <1>11, <1>0, JobRecords DEF LastFlashFailed, CommandArrives, State
<1>12. CASE CmdDownload
  BY <1>12, <1>0, JobRecords DEF CmdDownload, CommandArrives
<1>13. CASE DataArrives
  BY <1>13, <1>0, JobRecords DEF DataArrives, AcceptData
<1>14. CASE CommandAsData
  BY <1>14, <1>0, JobRecords DEF CommandAsData, AcceptData
<1>15. CASE Unplug
  BY <1>15, <1>0, JobRecords DEF Unplug
<1>16. CASE HostGivesUp
  BY <1>16, <1>0, JobRecords DEF HostGivesUp
<1>17. CASE CmdFlash
  BY <1>17, <1>0, JobRecords DEF CmdFlash, CommandArrives
<1>18. CASE CommandWaits
  BY <1>18, <1>0, JobRecords DEF CommandWaits, CommandArrives
<1>19. ASSUME NEW j \in Job, ThreadLocks(j) PROVE Exclusive'
  BY <1>19, <1>0, JobRecords DEF ThreadLocks, Job
<1>20. ASSUME NEW j \in Job, ThreadBegins(j) PROVE Exclusive'
  BY <1>20, <1>0, JobRecords DEF ThreadBegins
<1>21. ASSUME NEW j \in Job, ThreadWrites(j) PROVE Exclusive'
  BY <1>21, <1>0, JobRecords DEF ThreadWrites, WriteUnit
<1>22. ASSUME NEW j \in Job, ThreadEnds(j) PROVE Exclusive'
  BY <1>22, <1>0, JobRecords DEF ThreadEnds, State
<1>23. ASSUME NEW j \in Job, ThreadUnlocks(j) PROVE Exclusive'
  BY <1>23, <1>0, JobRecords DEF ThreadUnlocks
<1>24. CASE UNCHANGED vars
  BY <1>24 DEF vars, usbVars, lockVars, flagVars
<1>25. QED
  BY <1>1, <1>2, <1>3, <1>4, <1>5, <1>6, <1>7, <1>8, <1>9, <1>10, <1>11,
     <1>12, <1>13, <1>14, <1>15, <1>16, <1>17, <1>18, <1>19, <1>20, <1>21,
     <1>22, <1>23, <1>24 DEF Next, Handler, Host, FlashThread

(* The buffers stay apart.                                                 *)
LEMMA ApartStep ==
  FlashTypeOK /\ Sizes /\ Exclusive /\ Apart /\ [Next]_vars => Apart'
<1> SUFFICES ASSUME FlashTypeOK /\ Sizes /\ Exclusive /\ Apart, [Next]_vars
             PROVE  Apart'
  OBVIOUS
<1>0. /\ job \in [Job -> JobRecord] /\ job' \in [Job -> JobRecord]
      /\ mUsbDataBuffer \in Buffer
  BY JobsTyped DEF FlashTypeOK
<1> USE SizesAssumption DEF Apart, InFlash, lockVars, flagVars
<1>1. CASE DownloadStarts
  BY <1>1, <1>0 DEF DownloadStarts
<1>2. CASE ExchangeBegins
  BY <1>2, <1>0 DEF ExchangeBegins
<1>3. CASE ExchangeFlashAndUsbDataBuf
  <2>1. /\ cur \in Job /\ cur' = cur /\ pc' = "dispatch"
        /\ mUsbDataBuffer' # mUsbDataBuffer /\ LockFlash = 0
    BY <1>3, <1>0
       DEF ExchangeFlashAndUsbDataBuf, OtherBuffer, Buffer, LockFlashFree, Sizes
  <2>2. /\ job'[cur].st = "taken" /\ job'[cur].from = mUsbDataBuffer
        /\ \A i \in Job : i # cur => job'[i] = job[i]
    BY <1>3, <1>0, <2>1 DEF ExchangeFlashAndUsbDataBuf
  <2>3. ~late' => \A i \in Job : job[i].st \notin {"ready", "locked"}
    BY <1>3 DEF ExchangeFlashAndUsbDataBuf, NotBegun
  <2>4. \A i \in Job : job[i].st # "flashing"
    BY <2>1, SizesAssumption DEF Exclusive, Job
  <2>5. QED
    BY <2>1, <2>2, <2>3, <2>4
<1>4. CASE FlashRefused
  BY <1>4, <1>0, JobOver, JobRecords DEF State, FlashRefused, Answer
<1>5. CASE CreateSparseImgFlashThread
  <2>1. /\ cur \in Job /\ InFlash /\ cur' = cur /\ late' = late
        /\ mUsbDataBuffer' = mUsbDataBuffer /\ IsFlashComplete' = IsFlashComplete
    BY <1>5 DEF CreateSparseImgFlashThread, Sizes
  <2>2. CASE pc' = "idle" /\ job' = [job EXCEPT ![cur].st = "ready"]
    <3>1. /\ job'[cur].st = "ready" /\ job'[cur].from = job[cur].from
          /\ \A i \in Job : i # cur => job'[i] = job[i]
      BY <1>0, <2>1, <2>2, StateChanged DEF State
    <3>2. QED
      BY <2>1, <2>2, <3>1
  <2>3. CASE pc' = "idle" /\ job' = [job EXCEPT ![cur] = Over("none")]
    BY <1>0, <2>1, <2>3, JobOver, JobRecords DEF State
  <2>4. CASE pc' = "here" /\ job' = job
    BY <2>1, <2>4
  <2>5. QED
    BY <1>5, <2>2, <2>3, <2>4 DEF CreateSparseImgFlashThread, Answer, NoAnswer
<1>6. CASE FlashHere
  BY <1>6, <1>0 DEF FlashHere
<1>7. CASE WriteHere
  <2>1. cur \in Job
    BY <1>7 DEF WriteHere, Sizes
  <2>2. QED
    BY <1>7, <1>0, <2>1, UnitWritten DEF WriteHere
<1>8. CASE FlashedHere
  <2>1. /\ cur \in Job /\ pc = "here" /\ pc' = "idle" /\ late' = late
        /\ mUsbDataBuffer' = mUsbDataBuffer
    BY <1>8 DEF FlashedHere, Sizes, Answer, NoAnswer
  <2>2. PICK s \in {"done", "spoiled", "failed", "reported"} :
          job' = [job EXCEPT ![cur] = Over(s)]
    BY <1>8, JobRecords DEF FlashedHere
  <2>3. Over(s).st = s
    BY <2>2, JobRecords DEF State
  <2>4. QED
    BY <1>0, <2>1, <2>2, <2>3
<1>9. CASE WaitForFlashFinished
  BY <1>9, <1>0 DEF WaitForFlashFinished, Exclusive, Job
<1>10. CASE CommandQuiet
  BY <1>10, <1>0 DEF CommandQuiet, Answer
<1>11. CASE LastFlashFailed
  BY <1>11, <1>0, JobOver, JobRecords DEF State, LastFlashFailed, CommandArrives
<1>12. CASE CmdDownload
  BY <1>12, <1>0 DEF CmdDownload, CommandArrives
<1>13. CASE DataArrives
  BY <1>13, <1>0 DEF DataArrives, AcceptData
<1>14. CASE CommandAsData
  BY <1>14, <1>0 DEF CommandAsData, AcceptData
<1>15. CASE Unplug
  BY <1>15, <1>0 DEF Unplug
<1>16. CASE HostGivesUp
  BY <1>16, <1>0 DEF HostGivesUp
<1>17. CASE CmdFlash
  BY <1>17, <1>0 DEF CmdFlash, CommandArrives
<1>18. CASE CommandWaits
  BY <1>18, <1>0 DEF CommandWaits, CommandArrives, NotBegun
<1>19. ASSUME NEW j \in Job, ThreadLocks(j) PROVE Apart'
  <2>1. /\ job'[j].st = "locked" /\ job'[j].from = job[j].from
        /\ \A i \in Job : i # j => job'[i] = job[i]
    BY <1>19, <1>0, StateChanged DEF ThreadLocks, State
  <2>2. InFlash => cur \in Job
    BY DEF Sizes
  <2>3. QED
    BY <1>19, <1>0, <2>1, <2>2 DEF ThreadLocks
<1>20. ASSUME NEW j \in Job, ThreadBegins(j) PROVE Apart'
  <2>1. /\ job'[j].st = "flashing" /\ job'[j].from = job[j].from
        /\ \A i \in Job : i # j => job'[i] = job[i]
    BY <1>20, <1>0, StateChanged DEF ThreadBegins, State
  <2>2. /\ pc' = pc /\ late' = late /\ mUsbDataBuffer' = mUsbDataBuffer /\ cur' = cur
        /\ job[j].st = "locked" /\ ~IsFlashComplete'
    BY <1>20 DEF ThreadBegins
  <2>3. InFlash => cur \in Job
    BY DEF Sizes
  <2>4. QED
    BY <1>0, <2>1, <2>2, <2>3
<1>21. ASSUME NEW j \in Job, ThreadWrites(j) PROVE Apart'
  <2>1. /\ job'[j].st = job[j].st /\ job'[j].from = job[j].from
        /\ \A i \in Job : i # j => job'[i] = job[i]
    BY <1>21, <1>0, UnitWritten DEF ThreadWrites
  <2>2. InFlash => cur \in Job
    BY DEF Sizes
  <2>3. QED
    BY <1>21, <1>0, <2>1, <2>2 DEF ThreadWrites
<1>22. ASSUME NEW j \in Job, ThreadEnds(j) PROVE Apart'
  <2>1. /\ pc' = pc /\ late' = late /\ mUsbDataBuffer' = mUsbDataBuffer
        /\ cur' = cur /\ job[j].st = "flashing"
    BY <1>22 DEF ThreadEnds
  <2>2. PICK s \in {"done", "spoiled", "failed"} :
          job' = [job EXCEPT ![j] = Over(s)]
    BY <1>22, JobRecords DEF ThreadEnds
  <2>3. Over(s).st = s
    BY <2>2, JobRecords DEF State
  <2>4. \A i \in Job : job'[i] = IF i = j THEN Over(s) ELSE job[i]
    BY <1>0, <2>2
  <2>5. \A i \in Job : job'[i].st # "flashing"
    BY <1>0, <2>1, <2>3, <2>4 DEF Exclusive
  <2>6. InFlash => cur \in Job
    BY DEF Sizes
  <2>7. QED
    BY <1>0, <2>1, <2>3, <2>4, <2>5, <2>6
<1>23. ASSUME NEW j \in Job, ThreadUnlocks(j) PROVE Apart'
  BY <1>23, <1>0 DEF ThreadUnlocks
<1>24. CASE UNCHANGED vars
  BY <1>24 DEF vars, usbVars, lockVars, flagVars
<1>25. QED
  BY <1>1, <1>2, <1>3, <1>4, <1>5, <1>6, <1>7, <1>8, <1>9, <1>10, <1>11,
     <1>12, <1>13, <1>14, <1>15, <1>16, <1>17, <1>18, <1>19, <1>20, <1>21,
     <1>22, <1>23, <1>24 DEF Next, Handler, Host, FlashThread

(* The buffers hold what was sent.                                         *)
LEMMA IntactStep ==
  FlashTypeOK /\ Sizes /\ Exclusive /\ Apart /\ Intact /\ [Next]_vars => Intact'
<1> SUFFICES ASSUME FlashTypeOK /\ Sizes /\ Exclusive /\ Apart /\ Intact, [Next]_vars
             PROVE  Intact'
  OBVIOUS
<1>0. /\ job \in [Job -> JobRecord] /\ job' \in [Job -> JobRecord]
      /\ mUsbDataBuffer \in Buffer /\ unplugs \in Nat
      /\ buf \in [Buffer -> [1 .. MaxDownLoadSize -> 0 .. MaxImages]]
      /\ mNumDataBytes \in Nat /\ mBytesReceivedSoFar \in Nat
      /\ image \in 0 .. MaxImages
  BY JobsTyped, SizesAssumption DEF FlashTypeOK
<1> USE SizesAssumption DEF Intact, InFlash, usbVars
<1>1. CASE DownloadStarts
  BY <1>1, <1>0 DEF DownloadStarts
<1>2. CASE ExchangeBegins
  BY <1>2, <1>0 DEF ExchangeBegins
<1>3. CASE ExchangeFlashAndUsbDataBuf
  <2>1. /\ cur \in Job /\ cur' = cur /\ pc' = "dispatch" /\ pc = "x_flash"
        /\ buf' = buf /\ unplugs' = unplugs /\ fresh' = FALSE /\ mState # "data"
        /\ mState' = mState /\ (~late' => ~late)
    BY <1>3, <1>0 DEF ExchangeFlashAndUsbDataBuf, Sizes
  <2>2. /\ job'[cur].st = "taken" /\ job'[cur].from = mUsbDataBuffer
        /\ job'[cur].good /\ job'[cur].len = mNumDataBytes
        /\ job'[cur].image = IF fresh THEN image ELSE Junk
        /\ job'[cur].size = IF fresh THEN mNumDataBytes ELSE 0
        /\ \A i \in Job : i # cur => job'[i] = job[i]
    BY <1>3, <1>0, <2>1 DEF ExchangeFlashAndUsbDataBuf
  <2>3. unplugs = 0 => Holds(buf, job'[cur])
    BY <1>0, <2>2 DEF Holds, Sizes
  <2>4. QED
    BY <2>1, <2>2, <2>3
<1>4. CASE FlashRefused
  BY <1>4, <1>0, JobOver, OverHolds DEF FlashRefused, State, Answer, Sizes
<1>5. CASE CreateSparseImgFlashThread
  <2>1. /\ cur \in Job /\ InFlash /\ cur' = cur /\ late' = late
        /\ buf' = buf /\ unplugs' = unplugs /\ fresh' = fresh /\ mState # "data"
        /\ mState' = mState /\ mUsbDataBuffer' = mUsbDataBuffer
        /\ mNumDataBytes' = mNumDataBytes /\ image' = image
    BY <1>5 DEF CreateSparseImgFlashThread, Sizes
  <2>2. CASE pc' = "idle" /\ job' = [job EXCEPT ![cur].st = "ready"]
    <3>1. /\ job'[cur].st = "ready" /\ \A i \in Job : i # cur => job'[i] = job[i]
          /\ Holds(buf, job[cur]) => Holds(buf, job'[cur])
      BY <1>0, <2>1, <2>2, StateChanged DEF State, Holds
    <3>2. QED
      BY <2>1, <2>2, <3>1
  <2>3. CASE pc' = "idle" /\ job' = [job EXCEPT ![cur] = Over("none")]
    BY <1>0, <2>1, <2>3, OverHolds DEF State
  <2>4. CASE pc' = "here" /\ job' = job
    BY <2>1, <2>4
  <2>5. QED
    BY <1>5, <2>2, <2>3, <2>4 DEF CreateSparseImgFlashThread, Answer, NoAnswer
<1>6. CASE FlashHere
  BY <1>6, <1>0 DEF FlashHere
<1>7. CASE WriteHere
  <2>1. cur \in Job /\ mState # "data"
    BY <1>7 DEF WriteHere, Sizes
  <2>2. Holds(buf, job[cur]) => Holds(buf, job'[cur])
    BY <1>7, <1>0, <2>1, UnitKeeps DEF WriteHere
  <2>3. job'[cur].st = job[cur].st /\ \A i \in Job : i # cur => job'[i] = job[i]
    BY <1>7, <1>0, <2>1, UnitWritten DEF WriteHere
  <2>4. QED
    BY <1>7, <2>1, <2>2, <2>3 DEF WriteHere
<1>8. CASE FlashedHere
  <2>1. /\ cur \in Job /\ mState # "data" /\ pc' = "idle" /\ pc = "here"
        /\ buf' = buf /\ unplugs' = unplugs /\ fresh' = fresh /\ late' = late
        /\ mState' = mState /\ mUsbDataBuffer' = mUsbDataBuffer
        /\ mNumDataBytes' = mNumDataBytes /\ image' = image
    BY <1>8 DEF FlashedHere, Sizes, Answer, NoAnswer
  <2>2. PICK s \in {"done", "spoiled", "failed", "reported"} :
          /\ job' = [job EXCEPT ![cur] = Over(s)]
          /\ Holds(buf, job[cur]) => s # "spoiled"
    <3>1. CASE job[cur].pos = job[cur].len /\ job' = [job EXCEPT ![cur] = Written(@)]
      BY <1>0, <2>1, <3>1, JobRecords, WrittenHolds
    <3>2. CASE job' = [job EXCEPT ![cur] = Over("failed")]
      BY <3>2
    <3>3. CASE job' = [job EXCEPT ![cur] = Over("reported")]
      BY <3>3
    <3>4. QED
      BY <1>8, <3>1, <3>2, <3>3 DEF FlashedHere
  <2>3. /\ job'[cur].st = s /\ Holds(buf, job'[cur])
        /\ \A i \in Job : i # cur => job'[i] = job[i]
    BY <1>0, <2>1, <2>2, OverHolds DEF State
  <2>4. QED
    BY <2>1, <2>2, <2>3
<1>9. CASE WaitForFlashFinished
  BY <1>9, <1>0 DEF WaitForFlashFinished
<1>10. CASE CommandQuiet
  BY <1>10, <1>0 DEF CommandQuiet, Answer, Sizes
<1>11. CASE LastFlashFailed
  BY <1>11, <1>0, JobOver, OverHolds DEF LastFlashFailed, State, CommandArrives
<1>12. CASE CmdDownload
  BY <1>12, <1>0 DEF CmdDownload, CommandArrives, Sizes
<1>13. CASE DataArrives
  <2> SUFFICES ASSUME unplugs = 0 PROVE Intact'
    BY <1>13 DEF DataArrives
  <2> DEFINE got == mBytesReceivedSoFar + 1
  <2>1. /\ mState = "data" /\ pc = "idle" /\ pc' = "idle" /\ unplugs' = unplugs
        /\ job' = job /\ late' = late /\ image' = image
        /\ mUsbDataBuffer' = mUsbDataBuffer /\ mNumDataBytes' = mNumDataBytes
        /\ mBytesReceivedSoFar' = got /\ got \in 1 .. MaxDownLoadSize
    BY <1>13, <1>0 DEF DataArrives, AcceptData, Sizes
  <2>2. buf' = [buf EXCEPT ![mUsbDataBuffer][got] = image]
    BY <1>13, <2>1 DEF DataArrives, AcceptData
  <2>3. \A k \in 1 .. got : buf'[mUsbDataBuffer][k] = image
    BY <1>0, <2>1, <2>2
  <2>4. \A b \in Buffer : b # mUsbDataBuffer => buf'[b] = buf[b]
    BY <1>0, <2>2
  <2>5. ~late => \A i \in Job : job[i].st \in {"ready", "locked", "flashing"} =>
                   Holds(buf', job[i])
    <3>1. ~late => \A i \in Job : job[i].st \in {"ready", "locked", "flashing"} =>
                     job[i].from \in Buffer /\ buf'[job[i].from] = buf[job[i].from]
      BY <1>0, <2>4 DEF Apart, JobRecord
    <3>2. QED
      BY <3>1 DEF Holds
  <2>6. /\ mState' = "data" => rx' = "buffer" /\ host' = "send"
        /\ fresh' => got = mNumDataBytes \/ fresh
        /\ mState' = "data" => fresh' = fresh
    BY <1>13, <2>1 DEF DataArrives, AcceptData
  <2>7. ~fresh
    BY <2>1 DEF Sizes
  <2>8. QED
    BY <1>0, <2>1, <2>3, <2>5, <2>6, <2>7
<1>14. CASE CommandAsData
  <2>1. unplugs # 0 /\ unplugs' = unplugs
    BY <1>14 DEF CommandAsData
  <2>2. QED
    BY <2>1
<1>15. CASE Unplug
  BY <1>15, <1>0 DEF Unplug
<1>16. CASE HostGivesUp
  BY <1>16, <1>0 DEF HostGivesUp
<1>17. CASE CmdFlash
  BY <1>17, <1>0 DEF CmdFlash, CommandArrives, Sizes
<1>18. CASE CommandWaits
  BY <1>18, <1>0 DEF CommandWaits, CommandArrives, Sizes
<1>19. ASSUME NEW j \in Job, ThreadLocks(j) PROVE Intact'
  <2>1. /\ job'[j].st = "locked" /\ \A i \in Job : i # j => job'[i] = job[i]
        /\ Holds(buf, job[j]) => Holds(buf, job'[j])
    BY <1>19, <1>0, StateChanged DEF ThreadLocks, State, Holds
  <2>2. InFlash => cur \in Job /\ j # cur
    BY <1>19 DEF Sizes, Apart, ThreadLocks
  <2>3. QED
    BY <1>19, <2>1, <2>2 DEF ThreadLocks
<1>20. ASSUME NEW j \in Job, ThreadBegins(j) PROVE Intact'
  <2>1. /\ job'[j].st = "flashing" /\ \A i \in Job : i # j => job'[i] = job[i]
        /\ Holds(buf, job[j]) => Holds(buf, job'[j])
    BY <1>20, <1>0, StateChanged DEF ThreadBegins, State, Holds
  <2>2. InFlash => cur \in Job /\ j # cur
    BY <1>20 DEF Sizes, Apart, ThreadBegins
  <2>3. QED
    BY <1>20, <2>1, <2>2 DEF ThreadBegins
<1>21. ASSUME NEW j \in Job, ThreadWrites(j) PROVE Intact'
  <2>1. Holds(buf, job[j]) => Holds(buf, job'[j])
    BY <1>21, <1>0, UnitKeeps DEF ThreadWrites
  <2>2. job'[j].st = job[j].st /\ \A i \in Job : i # j => job'[i] = job[i]
    BY <1>21, <1>0, UnitWritten DEF ThreadWrites
  <2>3. InFlash => cur \in Job /\ j # cur
    BY <1>21 DEF Sizes, Apart, ThreadWrites
  <2>4. QED
    BY <1>21, <2>1, <2>2, <2>3 DEF ThreadWrites
<1>22. ASSUME NEW j \in Job, ThreadEnds(j) PROVE Intact'
  <2>1. PICK s \in {"done", "spoiled", "failed"} :
          /\ job' = [job EXCEPT ![j] = Over(s)]
          /\ Holds(buf, job[j]) => s # "spoiled"
    <3>1. CASE job[j].pos = job[j].len /\ job' = [job EXCEPT ![j] = Written(@)]
      BY <1>0, <3>1, JobRecords, WrittenHolds
    <3>2. CASE job' = [job EXCEPT ![j] = Over("failed")]
      BY <3>2
    <3>3. QED
      BY <1>22, <3>1, <3>2 DEF ThreadEnds
  <2>2. /\ job'[j].st = s /\ Holds(buf, job'[j])
        /\ \A i \in Job : i # j => job'[i] = job[i]
    BY <1>0, <2>1, OverHolds DEF State
  <2>3. InFlash => cur \in Job
    BY DEF Sizes
  <2>4. QED
    BY <1>22, <2>1, <2>2, <2>3 DEF ThreadEnds
<1>23. ASSUME NEW j \in Job, ThreadUnlocks(j) PROVE Intact'
  BY <1>23, <1>0 DEF ThreadUnlocks
<1>24. CASE UNCHANGED vars
  BY <1>24 DEF vars, usbVars, lockVars, flagVars
<1>25. QED
  BY <1>1, <1>2, <1>3, <1>4, <1>5, <1>6, <1>7, <1>8, <1>9, <1>10, <1>11,
     <1>12, <1>13, <1>14, <1>15, <1>16, <1>17, <1>18, <1>19, <1>20, <1>21,
     <1>22, <1>23, <1>24 DEF Next, Handler, Host, FlashThread

-----------------------------------------------------------------------------
(* FastbootFlash: its inductive invariant holds in every state.            *)
LEMMA FlashInvariant == Spec => []FlashInv
<1>1. Init => FlashInv
  <2> SUFFICES ASSUME Init PROVE FlashInv
    OBVIOUS
  <2>1. \A j \in Job : job[j] = Over("none")
    BY DEF Init
  <2>2. job \in [Job -> JobRecord] /\ \A j \in Job : job[j].st = "none"
    BY <2>1, JobRecords DEF Init, State
  <2>3. FlashTypeOK
    <3>1. IsFlashComplete \in BOOLEAN /\ fresh \in BOOLEAN /\ late \in BOOLEAN
      BY DEF Init
    <3>2. buf \in [Buffer -> [1 .. MaxDownLoadSize -> 0 .. MaxImages]]
      BY SizesAssumption DEF Init, Junk
    <3>3. QED
      BY <2>2, <3>1, <3>2, SizesAssumption DEF Init, FlashTypeOK, Buffer, Kind
  <2>4. Sizes /\ Exclusive /\ Apart /\ Intact
    BY <2>2 DEF Init, Sizes, Exclusive, Apart, Intact, InFlash
  <2>5. QED
    BY <2>3, <2>4 DEF FlashInv
<1>2. FlashInv /\ [Next]_vars => FlashInv'
  BY TypeStep, SizesStep, ExclusiveStep, ApartStep, IntactStep DEF FlashInv
<1>3. QED
  BY <1>1, <1>2, PTL DEF Spec

(* Type correctness: no transfer goes beyond the end of a buffer, for any  *)
(* size the host asks for (CmdDownload and AcceptData).                    *)
THEOREM FlashTypes == Spec => []FlashTypeOK
<1>1. FlashInv => FlashTypeOK
  BY DEF FlashInv
<1>2. QED
  BY <1>1, FlashInvariant, PTL

(* ExchangeFlashAndUsbDataBuf: while no flash thread was overtaken, data   *)
(* from the host never goes to a buffer that a thread is to read.          *)
THEOREM Separation == Spec => []BuffersApart
<1>1. FlashInv => BuffersApart
  BY DEF FlashInv, Apart, BuffersApart, Unfinished, NotBegun
<1>2. QED
  BY <1>1, FlashInvariant, PTL

(* WaitForFlashFinished: while no flash thread was overtaken, erase, reset *)
(* and boot begin when every flash has ended.                              *)
THEOREM Quiet == Spec => []QuietWhenWaited
<1>1. FlashInv => QuietWhenWaited
  BY DEF FlashInv, Apart, QuietWhenWaited, Unfinished, NotBegun
<1>2. QED
  BY <1>1, FlashInvariant, PTL

(* AcceptData, ExchangeFlashAndUsbDataBuf and SparseImgFlashThread: what a *)
(* flash writes is the image downloaded before it, whole and unmixed, for  *)
(* any number of downloads and flashes under way.                          *)
THEOREM Integrity == Spec => []FlashIntact
<1>1. FlashInv => FlashIntact
  BY DEF FlashInv, Intact, FlashIntact
<1>2. QED
  BY <1>1, FlashInvariant, PTL

=============================================================================
