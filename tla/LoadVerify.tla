------------------------------ MODULE LoadVerify ------------------------------
(***************************************************************************)
(* LoadAndVerifyBootHashPartition of                                       *)
(* src/QcomModulePkg/Library/avb/libavb/avb_load_verify_parallel.c (builds *)
(* with BOOTIMAGE_LOAD_VERIFY_IN_PARALLEL): a loader thread reads the two  *)
(* halves of the boot image, a verifier thread hashes each half once the   *)
(* loader has posted its semaphore, and the caller waits for one post and  *)
(* reads what the two threads have left in their info records.             *)
(*                                                                         *)
(* The image is the bytes 0 .. size - 1; buf is the set of bytes of the    *)
(* buffer that hold what the partition holds, and the hash is described by *)
(* how far the bytes fed to it are the image from its beginning.           *)
(***************************************************************************)
EXTENDS Integers

CONSTANT ImageSizes \* hash_desc.image_size: the sizes considered

ASSUME SizesAssumption == ImageSizes \subseteq Nat

Algorithm == {"sha256", "sha512", "other"}

(* The descriptor's digest: that of the partition's image, another one, or *)
(* one whose length is not the algorithm's.                                *)
Digest == {"match", "differ", "badlen"}

Result == {"ok", "oom", "io", "metadata", "verification", "argument", "not_ready"}
Sem    == {"main", "first", "second"}

VARIABLES
  size, alg, digest, \* the descriptor
  main,      \* LoadAndVerifyBootHashPartition
  loader,    \* BootPartitionLoad
  verifier,  \* BootPartitionVerify
  sem,       \* the three semaphores
  buf,       \* image_buf
  hash,      \* the context HashCtx points to
  read,      \* BootPartitionLoad: Status of the last read
  verdict,   \* BootPartitionVerify: its local Status
  loadStatus, verifyStatus, \* Status of ThreadLoadInfo and ThreadVerifyInfo
  result,    \* what the function returns
  infoLive,  \* the info records are not freed
  bufLive,   \* the caller has not freed image_buf
  touched    \* ghost: a thread has written to freed memory

input == <<size, alg, digest>>
vars == <<input, main, loader, verifier, sem, buf, hash, read, verdict,
          loadStatus, verifyStatus, result, infoLive, bufLive, touched>>

SplitImageSize  == size \div 2
RemainImageSize == size % 2

(* Mutant: the second half starts before the first one.                    *)
Half_Minus(n) ==
  IF n = 1 THEN [off |-> 0, len |-> SplitImageSize]
  ELSE [off |-> SplitImageSize - RemainImageSize,
        len |-> SplitImageSize + RemainImageSize]

(* The halves: offset and length.                                          *)
Half(n) ==
  IF n = 1 THEN [off |-> 0, len |-> SplitImageSize]
  ELSE [off |-> SplitImageSize + RemainImageSize,
        len |-> SplitImageSize + RemainImageSize]

Bytes(h) == h.off .. h.off + h.len - 1

(* avb_sha256_update, avb_sha512_update                                    *)
Update(c, h) ==
  [fed  |-> c.fed + h.len,
   true |-> c.true /\ (h.len = 0 \/ (c.fed = h.off /\ Bytes(h) \subseteq buf))]

(* The digest of what was fed is that of the partition's image.            *)
Final(c) == c.true /\ c.fed = size

(* VerifyPartitionSha256, VerifyPartitionSha512 with IsFinal.              *)
Verdict(c) ==
  CASE digest = "badlen" -> "metadata"
    [] digest # "badlen" /\ ~(digest = "match" /\ Final(c)) -> "verification"
    [] OTHER -> "ok"

-----------------------------------------------------------------------------
(* The caller.                                                             *)

(* load_and_verify_hash_partition keeps the buffer of an image that        *)
(* verifies, or that may be booted although it does not.                   *)
Return(r) ==
  /\ main' = "done" /\ result' = r
  /\ bufLive' = (r \in {"ok", "verification"})

Prepare ==
  /\ main = "init"
  /\ \/ alg = "other" /\ Return("metadata")
     \/ alg # "other" /\ Return("oom")
     \/ alg # "other" /\ main' = "create" /\ UNCHANGED <<result, bufLive>>
  /\ UNCHANGED <<input, loader, verifier, sem, buf, hash, read, verdict,
                 loadStatus, verifyStatus, infoLive, touched>>

CreateLoader ==
  /\ main = "create" /\ loader = "none"
  /\ \/ loader' = "load1" /\ UNCHANGED <<main, result, bufLive>>
     \/ Return("not_ready") /\ UNCHANGED loader
  /\ UNCHANGED <<input, verifier, sem, buf, hash, read, verdict, loadStatus,
                 verifyStatus, infoLive, touched>>

CreateVerifier ==
  /\ main = "create" /\ loader # "none"
  /\ \/ verifier' = "wait1" /\ main' = "wait" /\ UNCHANGED <<result, bufLive>>
     \/ Return("not_ready") /\ UNCHANGED verifier
  /\ UNCHANGED <<input, loader, sem, buf, hash, read, verdict, loadStatus,
                 verifyStatus, infoLive, touched>>

SemWait(s) == sem[s] > 0 /\ sem' = [sem EXCEPT ![s] = @ - 1]
SemPost(s) == sem' = [sem EXCEPT ![s] = @ + 1]

WaitForThreads ==
  /\ main = "wait" /\ SemWait("main")
  /\ main' = "check_load"
  /\ UNCHANGED <<input, loader, verifier, buf, hash, read, verdict, loadStatus,
                 verifyStatus, result, infoLive, bufLive, touched>>

CheckLoad ==
  /\ main = "check_load"
  /\ IF loadStatus # "ok" THEN Return(loadStatus)
     ELSE main' = "check_verify" /\ UNCHANGED <<result, bufLive>>
  /\ UNCHANGED <<input, loader, verifier, sem, buf, hash, read, verdict,
                 loadStatus, verifyStatus, infoLive, touched>>

(* The info records are freed on success only.                             *)
CheckVerify ==
  /\ main = "check_verify"
  /\ Return(verifyStatus)
  /\ infoLive' = (verifyStatus # "ok")
  /\ UNCHANGED <<input, loader, verifier, sem, buf, hash, read, verdict,
                 loadStatus, verifyStatus, touched>>

-----------------------------------------------------------------------------
(* BootPartitionLoad.                                                      *)

(* Load_partition_to_verify: a read that fails leaves the bytes undefined. *)
Load(h) ==
  /\ touched' = (touched \/ ~bufLive)
  /\ \/ read' = "ok" /\ buf' = buf \cup Bytes(h)
     \/ read' \in {"io", "oom"} /\ UNCHANGED buf

LoadFirst ==
  /\ loader = "load1" /\ Load(Half(1))
  /\ loader' = IF read' = "ok" THEN "post1" ELSE "exited"
  /\ UNCHANGED <<input, main, verifier, sem, hash, verdict, loadStatus,
                 verifyStatus, result, infoLive, bufLive>>

PostFirst ==
  /\ loader = "post1" /\ SemPost("first")
  /\ loader' = "load2"
  /\ loadStatus' = read /\ touched' = (touched \/ ~infoLive)
  /\ UNCHANGED <<input, main, verifier, buf, hash, read, verdict, verifyStatus,
                 result, infoLive, bufLive>>

LoadSecond ==
  /\ loader = "load2" /\ Load(Half(2))
  /\ loader' = "post2"
  /\ UNCHANGED <<input, main, verifier, sem, hash, verdict, loadStatus,
                 verifyStatus, result, infoLive, bufLive>>

PostSecond ==
  /\ loader = "post2" /\ SemPost("second")
  /\ loader' = "report"
  /\ UNCHANGED <<input, main, verifier, buf, hash, read, verdict, loadStatus,
                 verifyStatus, result, infoLive, bufLive, touched>>

ReportLoad ==
  /\ loader = "report"
  /\ loader' = "exited"
  /\ loadStatus' = read /\ touched' = (touched \/ ~infoLive)
  /\ UNCHANGED <<input, main, verifier, sem, buf, hash, read, verdict,
                 verifyStatus, result, infoLive, bufLive>>

-----------------------------------------------------------------------------
(* BootPartitionVerify.                                                    *)

WaitFirst ==
  /\ verifier = "wait1" /\ SemWait("first")
  /\ verifier' = "hash1"
  /\ UNCHANGED <<input, main, loader, buf, hash, read, verdict, loadStatus,
                 verifyStatus, result, infoLive, bufLive, touched>>

HashFirst ==
  /\ verifier = "hash1"
  /\ hash' = Update(hash, Half(1)) /\ verdict' = "ok"
  /\ verifier' = "wait2"
  /\ UNCHANGED <<input, main, loader, sem, buf, read, loadStatus, verifyStatus,
                 result, infoLive, bufLive, touched>>

(* Mutant: the second half is hashed without waiting for it.               *)
WaitSecond_Not ==
  /\ verifier = "wait2" /\ verifier' = "hash2"
  /\ UNCHANGED <<input, main, loader, sem, buf, hash, read, verdict, loadStatus,
                 verifyStatus, result, infoLive, bufLive, touched>>

WaitSecond ==
  /\ verifier = "wait2" /\ SemWait("second")
  /\ verifier' = "hash2"
  /\ UNCHANGED <<input, main, loader, buf, hash, read, verdict, loadStatus,
                 verifyStatus, result, infoLive, bufLive, touched>>

(* With SHA-512 the code tests the pointer to the other context, which is  *)
(* NULL, and gives up.  Mutant: the digests are not compared.              *)
HashSecond_Unchecked ==
  /\ verifier = "hash2"
  /\ hash' = Update(hash, Half(2)) /\ verdict' = "ok"
  /\ verifier' = "report"
  /\ UNCHANGED <<input, main, loader, sem, buf, read, loadStatus, verifyStatus,
                 result, infoLive, bufLive, touched>>

HashSecond ==
  /\ verifier = "hash2"
  /\ IF alg = "sha256"
     THEN hash' = Update(hash, Half(2)) /\ verdict' = Verdict(hash')
     ELSE verdict' = "argument" /\ UNCHANGED hash
  /\ verifier' = "report"
  /\ UNCHANGED <<input, main, loader, sem, buf, read, loadStatus, verifyStatus,
                 result, infoLive, bufLive, touched>>

ReportVerdict ==
  /\ verifier = "report"
  /\ verifyStatus' = verdict /\ touched' = (touched \/ ~infoLive)
  /\ verifier' = "post"
  /\ UNCHANGED <<input, main, loader, sem, buf, hash, read, verdict, loadStatus,
                 result, infoLive, bufLive>>

(* Mutant: the caller is not told.                                         *)
PostMain_Not ==
  /\ verifier = "post" /\ verifier' = "exited"
  /\ UNCHANGED <<input, main, loader, sem, buf, hash, read, verdict, loadStatus,
                 verifyStatus, result, infoLive, bufLive, touched>>

PostMain ==
  /\ verifier = "post" /\ SemPost("main")
  /\ verifier' = "exited"
  /\ UNCHANGED <<input, main, loader, buf, hash, read, verdict, loadStatus,
                 verifyStatus, result, infoLive, bufLive, touched>>

-----------------------------------------------------------------------------
Init ==
  /\ size \in ImageSizes /\ alg \in Algorithm /\ digest \in Digest
  /\ main = "init" /\ loader = "none" /\ verifier = "none"
  /\ sem = [s \in Sem |-> 0]
  /\ buf = {} /\ hash = [fed |-> 0, true |-> TRUE]
  /\ read = "ok" /\ verdict = "ok" /\ loadStatus = "ok" /\ verifyStatus = "ok"
  /\ result = "none" /\ infoLive = TRUE /\ bufLive = TRUE /\ touched = FALSE

Main ==
  \/ Prepare \/ CreateLoader \/ CreateVerifier
  \/ WaitForThreads \/ CheckLoad \/ CheckVerify

Loader == LoadFirst \/ PostFirst \/ LoadSecond \/ PostSecond \/ ReportLoad

Verifier ==
  \/ WaitFirst \/ HashFirst \/ WaitSecond \/ HashSecond
  \/ ReportVerdict \/ PostMain

Next == Main \/ Loader \/ Verifier

Spec == Init /\ [][Next]_vars

(* The kernel runs each of the three threads that can go on.               *)
FairSpec == Spec /\ WF_vars(Main) /\ WF_vars(Loader) /\ WF_vars(Verifier)

-----------------------------------------------------------------------------
(* Properties.                                                             *)

Type ==
  /\ size \in ImageSizes /\ alg \in Algorithm /\ digest \in Digest
  /\ main \in {"init", "create", "wait", "check_load", "check_verify", "done"}
  /\ loader \in {"none", "load1", "post1", "load2", "post2", "report", "exited"}
  /\ verifier \in {"none", "wait1", "hash1", "wait2", "hash2", "report", "post",
                   "exited"}
  /\ sem \in [Sem -> Nat] /\ buf \subseteq Nat
  /\ hash \in [fed : Nat, true : BOOLEAN]
  /\ read \in Result /\ verdict \in Result
  /\ loadStatus \in Result /\ verifyStatus \in Result
  /\ result \in Result \cup {"none"}
  /\ infoLive \in BOOLEAN /\ bufLive \in BOOLEAN /\ touched \in BOOLEAN

(* However the three threads interleave and whichever read fails, an image *)
(* is accepted only if its digest is the descriptor's and every byte of it *)
(* is in the buffer.                                                       *)
AcceptedIsVerified ==
  result = "ok" =>
    digest = "match" /\ 0 .. size - 1 \subseteq buf

(* An image that is cut into two equal halves, read without an error and   *)
(* described by its SHA-256 digest is accepted.                            *)
GoodImageAccepted ==
  main = "done" /\ result \in {"verification", "argument", "metadata"}
      /\ read = "ok" /\ digest = "match" /\ alg = "sha256"
    => size % 2 = 1

(* The caller gets its answer unless the first read fails.                 *)
ReturnsUnlessFirstReadFails ==
  <>(main = "done" \/ (loader = "exited" /\ sem["first"] = 0 /\ read # "ok"))

(* "Wait for threads to complete": the caller comes back from the wait.    *)
MainReturns == <>(main = "done")

(* "Wait for threads to complete": nothing the caller frees is written to  *)
(* by a thread afterwards.                                                 *)
NoWriteAfterFree == ~touched

=============================================================================
