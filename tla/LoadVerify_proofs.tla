--------------------------- MODULE LoadVerify_proofs ---------------------------
(***************************************************************************)
(* AcceptedIsVerified and GoodImageAccepted for images of every size.  The *)
(* caller reads a status that is "ok" from the start, so the proof has to  *)
(* show that it is read only after the verifier has left its verdict       *)
(* there, and that the hash behind that verdict went over bytes that were  *)
(* already in the buffer; and, the other way round, that a half is hashed  *)
(* when it was read and not before, so that a good image is not refused.   *)
(***************************************************************************)
EXTENDS LoadVerify, TLAPS

(* The bytes the hash has taken for the beginning of the image are read.   *)
HashedIsRead == hash.true => 0 .. hash.fed - 1 \subseteq buf

(* What the verifier's verdict says, and where it is found.                *)
VerdictHolds ==
  /\ verifier \in {"report", "post", "exited"} /\ verdict = "ok"
       => digest = "match" /\ hash.true /\ hash.fed = size
  /\ verifier \in {"post", "exited"} => verifyStatus = verdict

(* The caller goes on only after the last post of the verifier it created. *)
CallerWaits ==
  /\ main \in {"init", "create"} => verifier = "none"
  /\ sem["main"] > 0 \/ main \in {"check_load", "check_verify"}
       => verifier = "exited"

Inv ==
  /\ Type /\ HashedIsRead /\ VerdictHolds /\ CallerWaits /\ AcceptedIsVerified

LEMMA HalfType ==
  ASSUME Type, NEW n \in {1, 2}
  PROVE  Half(n) \in [off : Nat, len : Nat] /\ Bytes(Half(n)) \subseteq Nat
<1>1. size \in Nat
  BY SizesAssumption DEF Type
<1>2. size \div 2 \in Nat /\ size % 2 \in Nat
  BY <1>1
<1>3. Half(n) \in [off : Nat, len : Nat]
  BY <1>2 DEF Half, SplitImageSize, RemainImageSize
<1> QED
  BY <1>3 DEF Bytes

(* avb_sha256_update keeps what is known of the hash.                      *)
LEMMA UpdateKeeps ==
  ASSUME Type, HashedIsRead, NEW n \in {1, 2}
  PROVE  /\ Update(hash, Half(n)) \in [fed : Nat, true : BOOLEAN]
         /\ Update(hash, Half(n)).true
              => 0 .. Update(hash, Half(n)).fed - 1 \subseteq buf
<1> DEFINE h == Half(n)
           u == Update(hash, h)
<1>1. h \in [off : Nat, len : Nat]
  BY HalfType
<1>2. hash \in [fed : Nat, true : BOOLEAN]
  BY DEF Type
<1> HIDE DEF h
<1>3. u = [fed  |-> hash.fed + h.len,
           true |-> hash.true
                    /\ (h.len = 0 \/ (hash.fed = h.off /\ Bytes(h) \subseteq buf))]
  BY DEF Update
<1>4. u.fed \in Nat /\ u.true \in BOOLEAN
  BY <1>1, <1>2, <1>3
<1>5. u \in [fed : Nat, true : BOOLEAN]
  BY <1>3, <1>4
<1>6. ASSUME u.true PROVE 0 .. u.fed - 1 \subseteq buf
  <2> DEFINE grows == h.len = 0 \/ (hash.fed = h.off /\ Bytes(h) \subseteq buf)
  <2>1. hash.true /\ grows
    <3>1. u.true = (hash.true /\ grows)
      BY <1>3
    <3> HIDE DEF grows, u
    <3> QED
      BY <1>6, <3>1
  <2>2. 0 .. hash.fed - 1 \subseteq buf
    BY <2>1 DEF HashedIsRead
  <2>3. CASE h.len = 0
    BY <1>1, <1>2, <1>3, <2>2, <2>3
  <2>4. CASE hash.fed = h.off /\ Bytes(h) \subseteq buf
    <3>1. 0 .. u.fed - 1 \subseteq (0 .. hash.fed - 1) \cup Bytes(h)
      BY <1>1, <1>2, <1>3, <2>4 DEF Bytes
    <3> QED
      BY <2>2, <2>4, <3>1
  <2> QED
    BY <2>1, <2>3, <2>4
<1> QED
  BY <1>5, <1>6 DEF h

LEMMA SemType ==
  ASSUME Type, NEW s \in Sem, SemWait(s) \/ SemPost(s)
  PROVE  /\ sem' \in [Sem -> Nat]
         /\ s # "main" => sem'["main"] = sem["main"]
<1>1. sem \in [Sem -> Nat] /\ sem[s] \in Nat /\ "main" \in Sem
  BY DEF Type, Sem
<1> QED
  BY <1>1 DEF SemWait, SemPost

LEMMA Initial == Init => Inv
<1> SUFFICES ASSUME Init PROVE Inv
  OBVIOUS
<1>1. Type
  BY DEF Init, Type, Result
<1>2. HashedIsRead /\ VerdictHolds /\ AcceptedIsVerified
  BY DEF Init, HashedIsRead, VerdictHolds, AcceptedIsVerified
<1>3. CallerWaits
  BY DEF Init, CallerWaits, Sem
<1> QED
  BY <1>1, <1>2, <1>3 DEF Inv

(* The caller changes neither the buffer nor the hash, and returns "ok"    *)
(* only with the verifier's status.                                        *)
LEMMA MainKeeps ==
  ASSUME Inv, Main
  PROVE  Inv'
<1>1. /\ UNCHANGED <<size, alg, digest, buf, hash, read, verdict, loadStatus,
                     verifyStatus, touched>>
      /\ loader' \in {loader, "load1"}
      /\ verifier' = verifier \/ (verifier' = "wait1" /\ main = "create")
  BY DEF Main, Prepare, CreateLoader, CreateVerifier, WaitForThreads, CheckLoad,
         CheckVerify, input
<1>2. sem' \in [Sem -> Nat]
  <2>1. "main" \in Sem
    BY DEF Sem
  <2> QED
    BY <2>1, SemType DEF Main, Prepare, CreateLoader, CreateVerifier,
         WaitForThreads, CheckLoad, CheckVerify, Inv, Type
<1>3. Type'
  <2>1. main' \in {"create", "wait", "check_load", "check_verify", "done"}
    BY DEF Main, Prepare, CreateLoader, CreateVerifier, WaitForThreads,
           CheckLoad, CheckVerify, Return
  <2>2. result' \in Result \cup {"none"}
    BY DEF Main, Prepare, CreateLoader, CreateVerifier, WaitForThreads,
           CheckLoad, CheckVerify, Return, Inv, Type, Result
  <2>3. bufLive' \in BOOLEAN
    <3>1. ASSUME NEW r, Return(r) PROVE bufLive' \in BOOLEAN
      BY <3>1 DEF Return
    <3>2. bufLive' = bufLive \/ \E r : Return(r)
      BY DEF Main, Prepare, CreateLoader, CreateVerifier, WaitForThreads,
             CheckLoad, CheckVerify
    <3> QED
      BY <3>1, <3>2 DEF Inv, Type
  <2>4. infoLive' \in BOOLEAN
    BY DEF Main, Prepare, CreateLoader, CreateVerifier, WaitForThreads,
           CheckLoad, CheckVerify, Inv, Type
  <2> QED
    BY <1>1, <1>2, <2>1, <2>2, <2>3, <2>4 DEF Inv, Type
<1>4. main = "create" => sem["main"] = 0 /\ verifier = "none"
  BY DEF Inv, CallerWaits, Type, Sem
<1>5. HashedIsRead'
  BY <1>1 DEF Inv, HashedIsRead
<1>6. VerdictHolds'
  BY <1>1 DEF Inv, VerdictHolds
<1>7. CASE Prepare \/ CreateLoader
  <2>1. UNCHANGED <<verifier, sem>> /\ main \in {"init", "create"}
        /\ main' \in {"create", "done"}
    BY <1>7 DEF Prepare, CreateLoader, Return
  <2>2. result' = result \/ result' # "ok"
    BY <1>7 DEF Prepare, CreateLoader, Return
  <2>3. CallerWaits'
    BY <2>1 DEF Inv, CallerWaits
  <2>4. AcceptedIsVerified'
    BY <1>1, <2>2 DEF Inv, AcceptedIsVerified
  <2> QED
    BY <1>3, <1>5, <1>6, <2>3, <2>4 DEF Inv
<1>8. CASE CreateVerifier
  <2>1. sem' = sem /\ main' \in {"wait", "done"}
        /\ (result' = result \/ result' # "ok")
    BY <1>8 DEF CreateVerifier, Return
  <2>2. CallerWaits'
    BY <1>4, <1>8, <2>1 DEF CreateVerifier, CallerWaits
  <2>3. AcceptedIsVerified'
    BY <1>1, <2>1 DEF Inv, AcceptedIsVerified
  <2> QED
    BY <1>3, <1>5, <1>6, <2>2, <2>3 DEF Inv
<1>9. CASE WaitForThreads \/ CheckLoad
  <2>1. verifier' = verifier /\ (result' = result \/ result' # "ok")
        /\ main' \in {"check_load", "check_verify", "done"}
    BY <1>9 DEF WaitForThreads, CheckLoad, Return
  <2>2. verifier = "exited"
    BY <1>9 DEF WaitForThreads, CheckLoad, SemWait, Inv, CallerWaits
  <2>3. AcceptedIsVerified'
    BY <1>1, <2>1 DEF Inv, AcceptedIsVerified
  <2> QED
    BY <1>3, <1>5, <1>6, <2>1, <2>2, <2>3 DEF Inv, CallerWaits
<1>10. CASE CheckVerify
  <2>1. verifier = "exited" /\ verifier' = verifier /\ result' = verifyStatus
        /\ main' = "done"
    BY <1>10 DEF CheckVerify, Return, Inv, CallerWaits
  <2>2. result' = "ok" => digest = "match" /\ hash.true /\ hash.fed = size
    BY <2>1 DEF Inv, VerdictHolds
  <2>3. AcceptedIsVerified'
    BY <1>1, <2>2 DEF Inv, HashedIsRead, AcceptedIsVerified
  <2> QED
    BY <1>3, <1>5, <1>6, <2>1, <2>3 DEF Inv, CallerWaits
<1> QED
  BY <1>7, <1>8, <1>9, <1>10 DEF Main

(* The loader only adds to the buffer.                                     *)
LEMMA LoaderKeeps ==
  ASSUME Inv, Loader
  PROVE  Inv'
<1>1. /\ UNCHANGED <<size, alg, digest, main, verifier, hash, verdict,
                     verifyStatus, result, infoLive, bufLive>>
      /\ loader' \in {"post1", "load2", "post2", "report", "exited"}
  BY DEF Loader, LoadFirst, PostFirst, LoadSecond, PostSecond, ReportLoad, input
<1>2. buf \subseteq buf' /\ buf' \subseteq Nat
  <2>1. buf \subseteq Nat /\ Bytes(Half(1)) \subseteq Nat
        /\ Bytes(Half(2)) \subseteq Nat
    BY HalfType DEF Inv, Type
  <2> QED
    BY <2>1 DEF Loader, LoadFirst, PostFirst, LoadSecond, PostSecond, ReportLoad,
                Load
<1>3. sem' \in [Sem -> Nat] /\ sem'["main"] = sem["main"]
  <2>1. "first" \in Sem /\ "second" \in Sem
    BY DEF Sem
  <2> QED
    BY <2>1, SemType DEF Loader, LoadFirst, PostFirst, LoadSecond, PostSecond,
                         ReportLoad, Inv, Type
<1>4. read' \in Result /\ loadStatus' \in Result
  BY DEF Loader, LoadFirst, PostFirst, LoadSecond, PostSecond, ReportLoad, Load,
         Inv, Type, Result
<1>5. touched' \in BOOLEAN
  BY DEF Loader, LoadFirst, PostFirst, LoadSecond, PostSecond, ReportLoad, Load,
         Inv, Type
<1>6. Type'
  BY <1>1, <1>2, <1>3, <1>4, <1>5 DEF Inv, Type
<1>7. HashedIsRead' /\ VerdictHolds'
  BY <1>1, <1>2 DEF Inv, HashedIsRead, VerdictHolds
<1>8. CallerWaits' /\ AcceptedIsVerified'
  BY <1>1, <1>2, <1>3 DEF Inv, CallerWaits, AcceptedIsVerified
<1> QED
  BY <1>6, <1>7, <1>8 DEF Inv

(* The verifier hashes what is in the buffer and posts last.               *)
LEMMA VerifierKeeps ==
  ASSUME Inv, Verifier
  PROVE  Inv'
<1>0. Type /\ HashedIsRead
  BY DEF Inv
<1>1. /\ UNCHANGED <<size, alg, digest, main, loader, buf, read, loadStatus,
                     result, infoLive, bufLive>>
      /\ verifier \notin {"none", "exited"}
  BY DEF Verifier, WaitFirst, HashFirst, WaitSecond, HashSecond, ReportVerdict,
         PostMain, input
<1>2. /\ main \notin {"init", "create", "check_load", "check_verify"}
      /\ sem["main"] = 0
      /\ sem \in [Sem -> Nat]
  BY <1>1 DEF Inv, CallerWaits, Type, Sem
<1>3. AcceptedIsVerified'
  BY <1>1 DEF Inv, AcceptedIsVerified
<1>4. CASE WaitFirst \/ WaitSecond
  <2>1. sem' \in [Sem -> Nat] /\ sem'["main"] = 0
    <3>1. "first" \in Sem /\ "second" \in Sem
      BY DEF Sem
    <3> QED
      BY <1>0, <1>2, <1>4, <3>1, SemType DEF WaitFirst, WaitSecond
  <2>2. UNCHANGED <<hash, verdict, verifyStatus, touched>>
        /\ verifier' \in {"hash1", "hash2"}
    BY <1>4 DEF WaitFirst, WaitSecond
  <2>3. Type'
    BY <1>0, <1>1, <2>1, <2>2 DEF Type
  <2>4. HashedIsRead' /\ VerdictHolds' /\ CallerWaits'
    BY <1>1, <1>2, <2>1, <2>2 DEF Inv, HashedIsRead, VerdictHolds, CallerWaits
  <2> QED
    BY <1>3, <2>3, <2>4 DEF Inv
<1>5. CASE HashFirst \/ HashSecond
  <2>1. UNCHANGED <<sem, verifyStatus, touched>>
        /\ verifier' \in {"wait2", "report"}
    BY <1>5 DEF HashFirst, HashSecond
  <2>2. hash' \in [fed : Nat, true : BOOLEAN] /\ HashedIsRead'
    BY <1>0, <1>1, <1>5, UpdateKeeps DEF HashFirst, HashSecond, Type, HashedIsRead
  <2>3. verdict' \in Result
    BY <1>5 DEF HashFirst, HashSecond, Verdict, Result
  <2>4. Type'
    BY <1>0, <1>1, <2>1, <2>2, <2>3 DEF Type
  <2>5. VerdictHolds'
    <3>1. CASE HashFirst
      BY <3>1 DEF HashFirst, VerdictHolds
    <3>2. CASE HashSecond
      <4>1. verifier' = "report"
        BY <3>2 DEF HashSecond
      <4>2. verdict' = "ok" => digest = "match" /\ hash'.true /\ hash'.fed = size
        BY <3>2 DEF HashSecond, Verdict, Final
      <4> QED
        BY <1>1, <4>1, <4>2 DEF VerdictHolds
    <3> QED
      BY <1>5, <3>1, <3>2
  <2>6. CallerWaits'
    BY <1>1, <1>2, <2>1 DEF CallerWaits
  <2> QED
    BY <1>3, <2>2, <2>4, <2>5, <2>6 DEF Inv
<1>6. CASE ReportVerdict
  <2>1. UNCHANGED <<sem, hash, verdict>> /\ verifyStatus' = verdict
        /\ verifier = "report" /\ verifier' = "post"
    BY <1>6 DEF ReportVerdict
  <2>2. touched' \in BOOLEAN
    BY <1>0, <1>6 DEF ReportVerdict, Type
  <2>3. Type'
    BY <1>0, <1>1, <2>1, <2>2 DEF Type
  <2>4. HashedIsRead' /\ VerdictHolds' /\ CallerWaits'
    BY <1>1, <1>2, <2>1 DEF Inv, HashedIsRead, VerdictHolds, CallerWaits
  <2> QED
    BY <1>3, <2>3, <2>4 DEF Inv
<1>7. CASE PostMain
  <2>1. UNCHANGED <<hash, verdict, verifyStatus, touched>>
        /\ verifier = "post" /\ verifier' = "exited"
    BY <1>7 DEF PostMain
  <2>2. sem' \in [Sem -> Nat]
    <3>1. "main" \in Sem
      BY DEF Sem
    <3> QED
      BY <1>0, <1>7, <3>1, SemType DEF PostMain
  <2>3. Type'
    BY <1>0, <1>1, <2>1, <2>2 DEF Type
  <2>4. HashedIsRead' /\ VerdictHolds' /\ CallerWaits'
    BY <1>1, <1>2, <2>1 DEF Inv, HashedIsRead, VerdictHolds, CallerWaits
  <2> QED
    BY <1>3, <2>3, <2>4 DEF Inv
<1> QED
  BY <1>4, <1>5, <1>6, <1>7 DEF Verifier

(* What a thread that has been let on by a semaphore may rely on: the half *)
(* it waited for has been read, and of the second half it may be that the  *)
(* read has failed.                                                        *)
Read1 == Bytes(Half(1)) \subseteq buf
Read2 == read = "ok" => Bytes(Half(2)) \subseteq buf

LoaderHasRead ==
  /\ read \in {"ok", "io", "oom"} /\ loadStatus \in {"ok", "io", "oom"}
  /\ loader \in {"post1", "load2", "post2", "report"} => Read1
  /\ loader \in {"post2", "report"} => Read2

PostedIsRead ==
  /\ sem["first"] > 0 \/ verifier \notin {"none", "wait1"}
       => loader \in {"load2", "post2", "report", "exited"} /\ Read1
  /\ sem["second"] > 0 \/ verifier \in {"hash2", "report", "post", "exited"}
       => loader \in {"report", "exited"} /\ Read2

(* How far the hash has come, step by step of the verifier.                *)
HashSoFar ==
  /\ verifier \in {"none", "wait1", "hash1"} => hash = [fed |-> 0, true |-> TRUE]
  /\ verifier \in {"wait2", "hash2"} => hash = [fed |-> size \div 2, true |-> TRUE]

(* An image that ought to be accepted.                                     *)
GoodImage == digest = "match" /\ alg = "sha256" /\ size % 2 = 0

(* The verifier has nothing against such an image if it was read, and only *)
(* the verifier can have something against it.                             *)
VerdictFair ==
  /\ verifier \in {"report", "post", "exited"} /\ GoodImage /\ read = "ok"
       => verdict = "ok"
  /\ result \in {"verification", "argument", "metadata"} /\ alg # "other"
       => verifier = "exited" /\ result = verifyStatus

FairInv == LoaderHasRead /\ PostedIsRead /\ HashSoFar /\ VerdictFair

(* The halves, for an image of even size the two of them together.         *)
LEMMA Halves ==
  ASSUME size \in Nat
  PROVE  /\ Half(1) = [off |-> 0, len |-> size \div 2]
         /\ size % 2 = 0 => Half(2) = [off |-> size \div 2, len |-> size \div 2]
         /\ size % 2 = 0 => size \div 2 + size \div 2 = size
         /\ size \div 2 \in Nat
<1>1. size \div 2 \in Nat /\ size % 2 \in Nat /\ size = 2 * (size \div 2) + (size % 2)
  OBVIOUS
<1>2. ASSUME size % 2 = 0 PROVE size \div 2 + 0 = size \div 2
  BY <1>1
<1>3. Half(1) = [off |-> 0, len |-> size \div 2]
  BY DEF Half, SplitImageSize
<1>4. size % 2 = 0 => Half(2) = [off |-> size \div 2, len |-> size \div 2]
  BY <1>2 DEF Half, SplitImageSize, RemainImageSize
<1> QED
  BY <1>1, <1>3, <1>4

(* A semaphore that is not waited for or posted keeps its count.           *)
LEMMA SemOther ==
  ASSUME Type, NEW s \in Sem, SemWait(s) \/ SemPost(s), NEW t \in Sem, t # s
  PROVE  sem'[t] = sem[t]
BY DEF Type, SemWait, SemPost

LEMMA FairInitial == Init => FairInv
<1> SUFFICES ASSUME Init PROVE FairInv
  OBVIOUS
<1>1. "first" \in Sem /\ "second" \in Sem
  BY DEF Sem
<1>2. sem["first"] = 0 /\ sem["second"] = 0
  BY <1>1 DEF Init
<1>3. LoaderHasRead /\ PostedIsRead
  BY <1>2 DEF Init, LoaderHasRead, PostedIsRead
<1>4. HashSoFar /\ VerdictFair
  BY DEF Init, HashSoFar, VerdictFair
<1> QED
  BY <1>3, <1>4 DEF FairInv

(* The caller waits on a semaphore of its own, and gives the verifier's    *)
(* answer only when the verifier is done.                                  *)
LEMMA MainFair ==
  ASSUME Inv, FairInv, Main
  PROVE  FairInv'
<1>0. Type /\ CallerWaits /\ VerdictHolds
  BY DEF Inv
<1>1. UNCHANGED <<size, alg, digest, buf, hash, read, verdict, loadStatus,
                  verifyStatus>>
  BY DEF Main, Prepare, CreateLoader, CreateVerifier, WaitForThreads, CheckLoad,
         CheckVerify, input
<1>2. sem'["first"] = sem["first"] /\ sem'["second"] = sem["second"]
  <2>1. "first" \in Sem /\ "second" \in Sem /\ "main" \in Sem
    BY DEF Sem
  <2>2. CASE WaitForThreads
    BY <1>0, <2>1, <2>2, SemOther DEF WaitForThreads
  <2>3. CASE ~WaitForThreads
    BY <2>3 DEF Main, Prepare, CreateLoader, CreateVerifier, CheckLoad, CheckVerify
  <2> QED
    BY <2>2, <2>3
<1>3. UNCHANGED <<Read1, Read2>>
  BY <1>1 DEF Read1, Read2, Bytes, Half, SplitImageSize, RemainImageSize
<1>4. /\ loader' = loader \/ (loader' = "load1" /\ loader = "none")
      /\ verifier' = verifier \/ (verifier' = "wait1" /\ main = "create")
  BY DEF Main, Prepare, CreateLoader, CreateVerifier, WaitForThreads, CheckLoad,
         CheckVerify
<1>5. main = "create" => verifier = "none"
  BY <1>0 DEF CallerWaits
<1>6. LoaderHasRead'
  BY <1>1, <1>3, <1>4 DEF FairInv, LoaderHasRead
<1>7. PostedIsRead'
  BY <1>2, <1>3, <1>4, <1>5 DEF FairInv, PostedIsRead
<1>8. HashSoFar'
  BY <1>1, <1>4, <1>5 DEF FairInv, HashSoFar
<1>9. VerdictFair'
  <2>1. (verifier' \in {"report", "post", "exited"} /\ GoodImage' /\ read' = "ok")
          => verdict' = "ok"
    BY <1>1, <1>4, <1>5 DEF FairInv, VerdictFair, GoodImage
  <2>2. ASSUME result' \in {"verification", "argument", "metadata"}, alg # "other"
        PROVE  verifier' = "exited" /\ result' = verifyStatus
    <3>1. CASE result' = result /\ verifier' = verifier
      BY <2>2, <3>1 DEF FairInv, VerdictFair
    <3>2. CASE Prepare
      BY <2>2, <3>2, <1>4, <1>5, <3>1 DEF Prepare, Return
    <3>3. CASE CreateLoader
      BY <2>2, <3>3, <3>1 DEF CreateLoader, Return
    <3>4. CASE CreateVerifier
      <4>1. result \notin {"verification", "argument", "metadata"}
        BY <1>5, <2>2, <3>4 DEF CreateVerifier, FairInv, VerdictFair
      <4> QED
        BY <2>2, <3>4, <4>1 DEF CreateVerifier, Return
    <3>5. CASE WaitForThreads
      BY <3>1, <3>5 DEF WaitForThreads
    <3>6. CASE CheckLoad
      BY <2>2, <3>1, <3>6 DEF CheckLoad, Return, FairInv, LoaderHasRead
    <3>7. CASE CheckVerify
      BY <1>0, <3>7 DEF CheckVerify, Return, CallerWaits
    <3> QED
      BY <3>2, <3>3, <3>4, <3>5, <3>6, <3>7 DEF Main
  <2> QED
    BY <1>1, <2>1, <2>2 DEF VerdictFair
<1> QED
  BY <1>6, <1>7, <1>8, <1>9 DEF FairInv

(* The loader posts a half after reading it, and after the last post it    *)
(* reads nothing more.                                                     *)
LEMMA LoaderFair ==
  ASSUME Inv, FairInv, Loader
  PROVE  FairInv'
<1>0. Type /\ VerdictHolds
  BY DEF Inv
<1>1. UNCHANGED <<size, alg, digest, main, verifier, hash, verdict,
                  verifyStatus, result>>
  BY DEF Loader, LoadFirst, PostFirst, LoadSecond, PostSecond, ReportLoad, input
<1>2. "first" \in Sem /\ "second" \in Sem
  BY DEF Sem
<1>3. buf \subseteq buf'
  BY DEF Loader, LoadFirst, PostFirst, LoadSecond, PostSecond, ReportLoad, Load
<1>4. Half(1)' = Half(1) /\ Half(2)' = Half(2)
  BY <1>1 DEF Half, SplitImageSize, RemainImageSize
<1>5. Bytes(Half(1))' = Bytes(Half(1)) /\ Bytes(Half(2))' = Bytes(Half(2))
  BY <1>4 DEF Bytes
<1>6. Read1 => Read1'
  BY <1>3, <1>5 DEF Read1
<1>7. read' = read /\ Read2 => Read2'
  BY <1>3, <1>5 DEF Read2
<1>8. HashSoFar'
  BY <1>1 DEF FairInv, HashSoFar
<1>9. sem["first"] \in Nat /\ sem["second"] \in Nat
  BY <1>0, <1>2 DEF Type
<1>10. LoaderHasRead' /\ PostedIsRead'
  <2>1. CASE LoadFirst
    <3>1. UNCHANGED <<sem, loadStatus>> /\ loader = "load1"
          /\ loader' \in {"post1", "exited"} /\ read' \in {"ok", "io", "oom"}
      BY <2>1 DEF LoadFirst, Load
    <3>2. loader' = "post1" => Read1'
      BY <2>1, <1>5 DEF LoadFirst, Load, Read1
    <3> QED
      BY <1>1, <3>1, <3>2 DEF FairInv, LoaderHasRead, PostedIsRead
  <2>2. CASE PostFirst
    <3>1. sem'["second"] = sem["second"] /\ sem'["first"] > 0
      BY <1>0, <1>2, <1>9, <2>2, SemOther DEF PostFirst, SemPost, Type
    <3>2. Read1' /\ loader = "post1" /\ loader' = "load2" /\ read' = read
          /\ loadStatus' = read
      BY <1>6, <2>2 DEF PostFirst, FairInv, LoaderHasRead
    <3> QED
      BY <1>1, <3>1, <3>2 DEF FairInv, LoaderHasRead, PostedIsRead
  <2>3. CASE LoadSecond
    <3>1. UNCHANGED <<sem, loadStatus>> /\ loader = "load2" /\ loader' = "post2"
          /\ read' \in {"ok", "io", "oom"}
      BY <2>3 DEF LoadSecond, Load
    <3>2. Read1' /\ Read2'
      BY <1>5, <1>6, <2>3, <3>1 DEF LoadSecond, Load, Read2, FairInv, LoaderHasRead
    <3> QED
      BY <1>1, <3>1, <3>2 DEF FairInv, LoaderHasRead, PostedIsRead
  <2>4. CASE PostSecond
    <3>1. sem'["first"] = sem["first"]
      BY <1>0, <1>2, <2>4, SemOther DEF PostSecond
    <3>2. Read1' /\ Read2' /\ loader' = "report" /\ read' = read
          /\ loadStatus' = loadStatus
      BY <1>6, <1>7, <2>4 DEF PostSecond, FairInv, LoaderHasRead
    <3> QED
      BY <1>1, <3>1, <3>2 DEF FairInv, LoaderHasRead, PostedIsRead
  <2>5. CASE ReportLoad
    <3>1. Read1' /\ Read2' /\ loader' = "exited" /\ read' = read /\ sem' = sem
          /\ loadStatus' = read
      BY <1>6, <1>7, <2>5 DEF ReportLoad, FairInv, LoaderHasRead
    <3> QED
      BY <1>1, <3>1 DEF FairInv, LoaderHasRead, PostedIsRead
  <2> QED
    BY <2>1, <2>2, <2>3, <2>4, <2>5 DEF Loader
<1>11. VerdictFair'
  <2>1. verifier \in {"report", "post", "exited"} => read' = read
    BY DEF FairInv, PostedIsRead, Loader, LoadFirst, PostFirst, LoadSecond,
           PostSecond, ReportLoad
  <2> QED
    BY <1>1, <2>1 DEF FairInv, VerdictFair, GoodImage
<1> QED
  BY <1>8, <1>10, <1>11 DEF FairInv

(* Each half is hashed once, after it was read, the second after the first. *)
LEMMA VerifierFair ==
  ASSUME Inv, FairInv, Verifier
  PROVE  FairInv'
<1>0. Type /\ CallerWaits /\ size \in Nat
  BY SizesAssumption DEF Inv, Type
<1>1. UNCHANGED <<size, alg, digest, main, loader, buf, read, loadStatus, result>>
      /\ verifier \notin {"none", "exited"}
  BY DEF Verifier, WaitFirst, HashFirst, WaitSecond, HashSecond, ReportVerdict,
         PostMain, input
<1>2. "first" \in Sem /\ "second" \in Sem /\ "main" \in Sem
  BY DEF Sem
<1>3. UNCHANGED <<Read1, Read2>>
  BY <1>1 DEF Read1, Read2, Bytes, Half, SplitImageSize, RemainImageSize
<1>4. sem["first"] \in Nat /\ sem["second"] \in Nat /\ sem \in [Sem -> Nat]
  BY <1>0, <1>2 DEF Type
<1>5. LoaderHasRead'
  BY <1>1, <1>3 DEF FairInv, LoaderHasRead
<1>6. result \notin {"verification", "argument", "metadata"} \/ alg = "other"
  BY <1>1 DEF FairInv, VerdictFair
<1>7. PostedIsRead'
  <2>1. CASE WaitFirst
    <3>1. sem'["second"] = sem["second"] /\ sem["first"] > 0
          /\ verifier = "wait1" /\ verifier' = "hash1"
      BY <1>0, <1>2, <2>1, SemOther DEF WaitFirst, SemWait
    <3> QED
      BY <1>1, <1>3, <3>1 DEF FairInv, PostedIsRead
  <2>2. CASE WaitSecond
    <3>1. sem'["first"] = sem["first"] /\ sem["second"] > 0
          /\ verifier = "wait2" /\ verifier' = "hash2"
      BY <1>0, <1>2, <2>2, SemOther DEF WaitSecond, SemWait
    <3> QED
      BY <1>1, <1>3, <3>1 DEF FairInv, PostedIsRead
  <2>3. CASE HashFirst \/ HashSecond \/ ReportVerdict \/ PostMain
    <3>1. sem'["first"] = sem["first"] /\ sem'["second"] = sem["second"]
      BY <1>0, <1>2, <2>3, SemOther DEF HashFirst, HashSecond, ReportVerdict, PostMain
    <3>2. \/ verifier = "hash1" /\ verifier' = "wait2"
          \/ verifier \in {"hash2", "report", "post"}
             /\ verifier' \in {"report", "post", "exited"}
      BY <2>3 DEF HashFirst, HashSecond, ReportVerdict, PostMain
    <3> QED
      BY <1>1, <1>3, <3>1, <3>2 DEF FairInv, PostedIsRead
  <2> QED
    BY <2>1, <2>2, <2>3 DEF Verifier
<1>8. CASE WaitFirst \/ WaitSecond
  <2>1. hash' = hash /\ (\/ verifier = "wait1" /\ verifier' = "hash1"
                         \/ verifier = "wait2" /\ verifier' = "hash2")
    BY <1>8 DEF WaitFirst, WaitSecond
  <2>2. HashSoFar'
    BY <1>1, <2>1 DEF FairInv, HashSoFar
  <2>3. VerdictFair'
    BY <1>1, <1>6, <2>1 DEF VerdictFair
  <2> QED
    BY <1>5, <1>7, <2>2, <2>3 DEF FairInv
<1>9. CASE HashFirst
  <2>1. verifier = "hash1" /\ verifier' = "wait2" /\ hash' = Update(hash, Half(1))
    BY <1>9 DEF HashFirst
  <2>2. hash = [fed |-> 0, true |-> TRUE] /\ Bytes(Half(1)) \subseteq buf
    BY <2>1 DEF FairInv, HashSoFar, PostedIsRead, Read1
  <2>3. Half(1) = [off |-> 0, len |-> size \div 2] /\ size \div 2 \in Nat
    BY <1>0, Halves
  <2>4. Half(1).off = 0 /\ Half(1).len = size \div 2
        /\ 0 + (size \div 2) = size \div 2
    BY <2>3
  <2>5. hash' = [fed |-> size \div 2, true |-> TRUE]
    BY <2>1, <2>2, <2>4 DEF Update
  <2>6. HashSoFar'
    BY <1>1, <2>1, <2>5 DEF HashSoFar
  <2>7. VerdictFair'
    BY <1>1, <1>6, <2>1 DEF VerdictFair
  <2> QED
    BY <1>5, <1>7, <2>6, <2>7 DEF FairInv
<1>10. CASE HashSecond
  <2>1. verifier = "hash2" /\ verifier' = "report"
    BY <1>10 DEF HashSecond
  <2>2. HashSoFar'
    BY <2>1 DEF HashSoFar
  <2>3. ASSUME GoodImage, read = "ok" PROVE verdict' = "ok"
    <3>1. /\ hash' = Update(hash, Half(2)) /\ verdict' = Verdict(hash')
          /\ digest = "match" /\ size % 2 = 0
      BY <1>10, <2>3 DEF HashSecond, GoodImage
    <3>2. /\ hash = [fed |-> size \div 2, true |-> TRUE]
          /\ Bytes(Half(2)) \subseteq buf
      BY <2>1, <2>3 DEF FairInv, HashSoFar, PostedIsRead, Read2
    <3>3. /\ Half(2).off = size \div 2 /\ Half(2).len = size \div 2
          /\ size \div 2 + size \div 2 = size
      BY <1>0, <3>1, Halves
    <3>4. hash' = [fed |-> size, true |-> TRUE]
      BY <3>1, <3>2, <3>3 DEF Update
    <3> QED
      BY <3>1, <3>4 DEF Verdict, Final
  <2>4. VerdictFair'
    BY <1>1, <1>6, <2>1, <2>3 DEF VerdictFair, GoodImage
  <2> QED
    BY <1>5, <1>7, <2>2, <2>4 DEF FairInv
<1>11. CASE ReportVerdict \/ PostMain
  <2>1. verdict' = verdict /\ verifier \in {"report", "post"}
        /\ verifier' \in {"post", "exited"}
    BY <1>11 DEF ReportVerdict, PostMain
  <2>2. HashSoFar'
    BY <2>1 DEF HashSoFar
  <2>3. VerdictFair'
    BY <1>1, <1>6, <2>1 DEF FairInv, VerdictFair, GoodImage
  <2> QED
    BY <1>5, <1>7, <2>2, <2>3 DEF FairInv
<1> QED
  BY <1>8, <1>9, <1>10, <1>11 DEF Verifier

(* The invariant of the three threads: what the hash has gone over, what   *)
(* each semaphore stands for, and whose answer the caller returns.         *)
THEOREM Invariant == Spec => [](Inv /\ FairInv)
<1>1. Init => Inv /\ FairInv
  BY Initial, FairInitial
<1>2. Inv /\ FairInv /\ [Next]_vars => (Inv /\ FairInv)'
  <2>1. ASSUME Inv, FairInv, Next PROVE Inv' /\ FairInv'
    BY <2>1, MainKeeps, LoaderKeeps, VerifierKeeps, MainFair, LoaderFair,
       VerifierFair DEF Next
  <2>2. ASSUME Inv, UNCHANGED vars PROVE Inv'
    BY <2>2 DEF vars, input, Inv, Type, HashedIsRead, VerdictHolds, CallerWaits,
                AcceptedIsVerified
  <2>3. ASSUME FairInv, UNCHANGED vars PROVE FairInv'
    BY <2>3 DEF vars, input, FairInv, LoaderHasRead, PostedIsRead, HashSoFar,
                VerdictFair, GoodImage, Read1, Read2, Bytes, Half, SplitImageSize,
                RemainImageSize
  <2> QED
    BY <2>1, <2>2, <2>3
<1> QED
  BY <1>1, <1>2, PTL DEF Spec

(* The state of the three threads has its type: above all, no semaphore of *)
(* LoadAndVerifyBootHashPartition is waited for below zero.                *)
THEOREM TypeCorrect == Spec => []Type
<1>1. Inv => Type
  BY DEF Inv
<1> QED
  BY <1>1, Invariant, PTL

(* LoadAndVerifyBootHashPartition returns OK only for an image that is in  *)
(* the buffer from its first byte to its last and whose digest is the      *)
(* descriptor's, for every image size and every order of the threads.      *)
THEOREM Accepted == Spec => []AcceptedIsVerified
<1>1. Inv => AcceptedIsVerified
  BY DEF Inv
<1> QED
  BY <1>1, Invariant, PTL

(* An image of even size that was read without an error and whose SHA-256  *)
(* digest is the descriptor's is not refused, for every size and every     *)
(* order of the threads: what the two semaphores are for.                  *)
THEOREM GoodAccepted == Spec => []GoodImageAccepted
<1>1. Inv /\ FairInv => GoodImageAccepted
  <2> SUFFICES ASSUME Inv, FairInv, main = "done", read = "ok",
                      result \in {"verification", "argument", "metadata"},
                      digest = "match", alg = "sha256", size % 2 # 1
               PROVE  FALSE
    BY DEF GoodImageAccepted
  <2>1. size % 2 = 0
    BY SizesAssumption DEF Inv, Type
  <2>2. verifier = "exited" /\ result = verifyStatus /\ verifyStatus = verdict
    BY DEF FairInv, VerdictFair, Inv, VerdictHolds
  <2>3. verdict = "ok"
    BY <2>1, <2>2 DEF FairInv, VerdictFair, GoodImage
  <2> QED
    BY <2>2, <2>3
<1> QED
  BY <1>1, Invariant, PTL

=============================================================================
