------------------------- MODULE VerifiedBoot_proofs -------------------------
(***************************************************************************)
(* Proofs about VerifiedBoot, for every set of keys, digests and images,   *)
(* every rollback index and retry count, and any number of power losses    *)
(* and failed calls.                                                       *)
(***************************************************************************)
EXTENDS VerifiedBoot, TLAPS

Attrs == [Slot -> Slots!Attr]

LEMMA SlotFacts ==
  /\ Slot = {"_a", "_b"} /\ NoSlot \notin Slot
  /\ \A s \in Slot : /\ Slots!Alt(s) \in Slot /\ Slots!Alt(s) # s
                     /\ Slots!Alt(Slots!Alt(s)) = s
                     /\ \A t \in Slot : t = s \/ t = Slots!Alt(s)
  BY DEF Slot, NoSlot, Slots!Slot, Slots!NoSlot, Slots!Alt

(* What the policy steps do to the attributes of the two slots.            *)
LEMMA PaidFacts ==
  ASSUME NEW a \in Attrs, NEW s \in Slot, Slots!OnTrial(a, s)
  PROVE  LET b == Slots!Paid(a, s)
         IN  /\ b \in Attrs
             /\ \A t \in Slot : /\ b[t].active = a[t].active /\ b[t].prio = a[t].prio
                                /\ b[t].succ = a[t].succ /\ b[t].unboot = a[t].unboot
             /\ b[s].retry = a[s].retry - 1
<1> DEFINE b == Slots!Paid(a, s)
<1>1. MaxRetry \in Nat /\ a[s] \in Slots!Attr /\ a[s].retry > 0
  BY VerifiedBootAssumption DEF Attrs, Slots!OnTrial
<1>2. b = [a EXCEPT ![s] = [a[s] EXCEPT !.retry = a[s].retry - 1]]
  BY DEF Slots!Paid
<1>3. [a[s] EXCEPT !.retry = a[s].retry - 1] \in Slots!Attr
  BY <1>1 DEF Slots!Attr
<1> HIDE DEF b
<1>4. b \in Attrs
  BY <1>2, <1>3 DEF Attrs
<1>5. \A t \in Slot : b[t] = IF t = s THEN [a[s] EXCEPT !.retry = a[s].retry - 1] ELSE a[t]
  BY <1>2 DEF Attrs
<1>6. \A t \in Slot : a[t] \in Slots!Attr
  BY DEF Attrs
<1>7. \A t \in Slot : /\ b[t].active = a[t].active /\ b[t].prio = a[t].prio
                      /\ b[t].succ = a[t].succ /\ b[t].unboot = a[t].unboot
  BY <1>1, <1>5, <1>6 DEF Slots!Attr
<1>8. b[s].retry = a[s].retry - 1
  BY <1>1, <1>5 DEF Slots!Attr
<1> QED
  BY <1>4, <1>7, <1>8 DEF b

(* b is a with another mark of unbootability at s.                         *)
Marked(a, b, s, v) ==
  /\ b \in Attrs
  /\ \A t \in Slot : /\ b[t].active = a[t].active /\ b[t].prio = a[t].prio
                     /\ b[t].succ = a[t].succ /\ b[t].retry = a[t].retry
  /\ b[s].unboot = v
  /\ \A t \in Slot \ {s} : b[t] = a[t]

LEMMA MarkFacts ==
  ASSUME NEW a \in Attrs, NEW s \in Slot
  PROVE  /\ Marked(a, Slots!GivenUp(a, s), s, TRUE)
         /\ Marked(a, Slots!Pardoned(a, s), s, FALSE)
<1>1. \A t \in Slot : a[t] \in Slots!Attr
  BY DEF Attrs
<1>2. ASSUME NEW v \in BOOLEAN PROVE Marked(a, [a EXCEPT ![s].unboot = v], s, v)
  <2> DEFINE b == [a EXCEPT ![s].unboot = v]
             n == [a[s] EXCEPT !.unboot = v]
  <2>1. b = [a EXCEPT ![s] = n]
    OBVIOUS
  <2>2. /\ n \in Slots!Attr /\ n.unboot = v /\ n.active = a[s].active
        /\ n.prio = a[s].prio /\ n.succ = a[s].succ /\ n.retry = a[s].retry
    BY <1>1 DEF Slots!Attr
  <2> HIDE DEF b, n
  <2>3. b \in Attrs /\ \A t \in Slot : b[t] = IF t = s THEN n ELSE a[t]
    BY <2>1, <2>2 DEF Attrs
  <2>4. Marked(a, b, s, v)
    BY <2>2, <2>3 DEF Marked
  <2> QED
    BY <2>4 DEF b
<1>3. Marked(a, [a EXCEPT ![s].unboot = TRUE], s, TRUE)
  BY <1>2
<1>4. Marked(a, [a EXCEPT ![s].unboot = FALSE], s, FALSE)
  BY <1>2
<1> QED
  BY <1>3, <1>4 DEF Slots!GivenUp, Slots!Pardoned

LEMMA RenewedFacts ==
  ASSUME NEW a \in Attrs, NEW s \in Slot
  PROVE  LET b == Slots!Renewed(a, s)
         IN  /\ b \in Attrs
             /\ b[s].active = a[s].active /\ b[s].prio = 3
             /\ ~b[s].succ /\ ~b[s].unboot
             /\ \A t \in Slot \ {s} : b[t] = a[t]
<1> DEFINE b == Slots!Renewed(a, s)
           k == [a[s] EXCEPT !.prio = 3]
           l == [k EXCEPT !.retry = MaxRetry]
           m == [l EXCEPT !.succ = FALSE]
           n == [m EXCEPT !.unboot = FALSE]
<1>1. MaxRetry \in Nat /\ a[s] \in Slots!Attr
  BY VerifiedBootAssumption DEF Attrs
<1>2. /\ n \in Slots!Attr /\ n.active = a[s].active /\ n.prio = 3
      /\ ~n.succ /\ ~n.unboot
  <2>1. k \in Slots!Attr /\ k.active = a[s].active /\ k.prio = 3
    BY <1>1 DEF Slots!Attr
  <2> HIDE DEF k
  <2>2. l \in Slots!Attr /\ l.active = k.active /\ l.prio = 3
    BY <1>1, <2>1 DEF Slots!Attr
  <2> HIDE DEF l
  <2>3. m \in Slots!Attr /\ m.active = k.active /\ m.prio = 3 /\ ~m.succ
    BY <2>2 DEF Slots!Attr
  <2> HIDE DEF m
  <2>4. n \in Slots!Attr /\ n.active = k.active /\ n.prio = 3 /\ ~n.succ /\ ~n.unboot
    BY <2>3 DEF Slots!Attr
  <2> QED
    BY <2>1, <2>4
<1>3. b = [a EXCEPT ![s] = n]
  BY DEF Slots!Renewed, Attrs
<1> HIDE DEF b, n
<1>4. b \in Attrs /\ b[s] = n /\ \A t \in Slot \ {s} : b[t] = a[t]
  BY <1>2, <1>3 DEF Attrs
<1> QED
  BY <1>2, <1>4 DEF b

LEMMA SwitchedFacts ==
  ASSUME NEW a \in Attrs, NEW s \in Slot, NEW r \in BOOLEAN
  PROVE  LET b == Slots!Switched(a, s, r)
             n == Slots!Alt(s)
         IN  /\ b \in Attrs
             /\ b[s] = [prio |-> 3, active |-> TRUE, retry |-> MaxRetry,
                        succ |-> a[s].succ /\ ~r, unboot |-> FALSE]
             /\ ~b[n].active /\ b[n].succ = a[n].succ /\ b[n].unboot = a[n].unboot
<1> DEFINE b == Slots!Switched(a, s, r)
           n == Slots!Alt(s)
           m == [prio |-> 3, active |-> TRUE, retry |-> MaxRetry,
                 succ |-> a[s].succ /\ ~r, unboot |-> FALSE]
           k == [a[n] EXCEPT !.prio = 2]
           o == [k EXCEPT !.active = FALSE]
<1>1. MaxRetry \in Nat /\ a[s] \in Slots!Attr /\ n \in Slot /\ n # s /\ a[n] \in Slots!Attr
  BY SlotFacts, VerifiedBootAssumption DEF Attrs
<1>2. m \in Slots!Attr
  <2>1. CASE a[s].succ /\ ~r
    BY <1>1, <2>1 DEF Slots!Attr
  <2>2. CASE ~(a[s].succ /\ ~r)
    BY <1>1, <2>2 DEF Slots!Attr
  <2> QED
    BY <2>1, <2>2
<1>3. o \in Slots!Attr /\ ~o.active /\ o.succ = a[n].succ /\ o.unboot = a[n].unboot
  <2>1. k \in Slots!Attr /\ k.succ = a[n].succ /\ k.unboot = a[n].unboot
    BY <1>1 DEF Slots!Attr
  <2> HIDE DEF k
  <2>2. o \in Slots!Attr /\ ~o.active /\ o.succ = k.succ /\ o.unboot = k.unboot
    BY <2>1 DEF Slots!Attr
  <2> QED
    BY <2>1, <2>2
<1>4. b = [[a EXCEPT ![s] = m] EXCEPT ![n] = o]
  BY <1>1 DEF Slots!Switched, Attrs
<1> HIDE DEF b, m, o, n
<1>5. b \in Attrs /\ b[s] = m /\ b[n] = o
  BY <1>1, <1>2, <1>3, <1>4 DEF Attrs
<1> QED
  BY <1>3, <1>5 DEF b, m, n

LEMMA SucceededFacts ==
  ASSUME NEW a \in Attrs, NEW s \in Slot
  PROVE  LET b == Slots!Succeeded(a, s)
         IN  /\ b \in Attrs
             /\ \A t \in Slot : /\ b[t].active = a[t].active /\ b[t].prio = a[t].prio
                                /\ b[t].unboot = a[t].unboot /\ b[t].retry = a[t].retry
             /\ b[s].succ
             /\ \A t \in Slot \ {s} : b[t] = a[t]
<1> DEFINE b == Slots!Succeeded(a, s)
<1>1. \A t \in Slot : a[t] \in Slots!Attr
  BY DEF Attrs
<1>2. b = [a EXCEPT ![s] = [a[s] EXCEPT !.succ = TRUE]]
  BY DEF Slots!Succeeded
<1>3. [a[s] EXCEPT !.succ = TRUE] \in Slots!Attr
  BY <1>1 DEF Slots!Attr
<1> HIDE DEF b
<1>4. b \in Attrs
  BY <1>2, <1>3 DEF Attrs
<1>5. \A t \in Slot : b[t] = IF t = s THEN [a[s] EXCEPT !.succ = TRUE] ELSE a[t]
  BY <1>2 DEF Attrs
<1>6. /\ \A t \in Slot : /\ b[t].active = a[t].active /\ b[t].prio = a[t].prio
                         /\ b[t].unboot = a[t].unboot /\ b[t].retry = a[t].retry
      /\ b[s].succ
      /\ \A t \in Slot \ {s} : b[t] = a[t]
  BY <1>1, <1>5 DEF Slots!Attr
<1> QED
  BY <1>4, <1>6 DEF b

(* One slot is active: it is the current one.                              *)
Sole(a, s) == a[s].active /\ a[s].prio > 0 /\ ~a[Slots!Alt(s)].active

LEMMA SoleIsActive ==
  ASSUME NEW a \in Attrs, NEW s \in Slot, Sole(a, s)
  PROVE  Slots!ActiveSlot(a) = s
<1>1. \A t \in Slot : a[t].active <=> t = s
  BY SlotFacts DEF Sole
<1>2. \E t \in Slot : a[t].active /\ a[t].prio > 0
  BY DEF Sole
<1> DEFINE P(t) == /\ a[t].active /\ a[t].prio > 0
                   /\ \A u \in Slot \ {t} : a[u].active => a[u].prio < a[t].prio
                                               \/ (a[u].prio = a[t].prio /\ t = "_a")
<1>3. P(s) /\ \A t \in Slot : P(t) => t = s
  BY <1>1 DEF Sole
<1>4. Slots!ActiveSlot(a) = CHOOSE t \in Slot : P(t)
  BY <1>2 DEF Slots!ActiveSlot, Slot
<1> HIDE DEF P
<1> QED
  BY <1>3, <1>4

(* Exactly one slot is active, so that there is a current one.             *)
OneActive == \E s \in Slot : Sole(attr, s)

LEMMA CurrentFacts ==
  ASSUME TypeOK, OneActive
  PROVE  /\ Current \in Slot /\ Sole(attr, Current) /\ attr \in Attrs
         /\ This \in Images /\ This \in Image
<1>1. attr \in Attrs /\ image \in [Slot -> Images]
  BY DEF TypeOK, Attrs
<1>2. PICK s \in Slot : Sole(attr, s)
  BY DEF OneActive
<1>3. Current = s
  BY <1>1, <1>2, SoleIsActive DEF Current
<1> QED
  BY <1>1, <1>2, <1>3, VerifiedBootAssumption DEF This

LEMMA NewCurrent ==
  ASSUME attr' \in Attrs, NEW s \in Slot, Sole(attr', s)
  PROVE  Current' = s /\ OneActive'
<1>1. Slots!ActiveSlot(attr') = s
  BY SoleIsActive
<1> QED
  BY <1>1 DEF Current, OneActive, Sole

(* The steps that leave the active slot.                                   *)
LEMMA SameCurrent ==
  ASSUME TypeOK, OneActive, attr' \in Attrs,
         \A t \in Slot : attr'[t].active = attr[t].active /\ attr'[t].prio = attr[t].prio
  PROVE  Current' = Current /\ OneActive'
<1>1. Current \in Slot /\ Sole(attr, Current)
  BY CurrentFacts
<1>2. Sole(attr', Current)
  BY <1>1, SlotFacts DEF Sole
<1>3. \A s \in Slot : Sole(attr', s) => Current' = s /\ OneActive'
  BY NewCurrent
<1> QED
  BY <1>1, <1>2, <1>3

LEMMA Unchanged ==
  ASSUME UNCHANGED <<attr, image>>
  PROVE  /\ Current' = Current /\ This' = This
         /\ OneActive => OneActive'
  BY DEF Current, This, OneActive, Sole

(* Steps of the loader that leave the active slot and take chances from    *)
(* it at most.                                                             *)
Down ==
  /\ attr' \in Attrs /\ OneActive' /\ Current' = Current
  /\ Slots!OnTrial(attr', Current) => Slots!OnTrial(attr, Current)
  /\ \A t \in Slot : /\ attr'[t].succ = attr[t].succ
                     /\ Slots!Bootable(attr', t) => Slots!Bootable(attr, t)
                     /\ attr[t].unboot => attr'[t].unboot

LEMMA DownUnchanged ==
  ASSUME TypeOK, OneActive, UNCHANGED attr
  PROVE  Down
<1>1. Current' = Current /\ OneActive'
  BY CurrentFacts, SameCurrent
<1> QED
  BY <1>1, CurrentFacts DEF Down

LEMMA DownGivenUp ==
  ASSUME TypeOK, OneActive, attr' = Slots!GivenUp(attr, Current)
  PROVE  Down /\ attr'[Current].unboot
<1>1. Current \in Slot /\ attr \in Attrs
  BY CurrentFacts
<1>2. Marked(attr, attr', Current, TRUE)
  BY <1>1, MarkFacts
<1>3. Current' = Current /\ OneActive' /\ attr'[Current].unboot
  BY <1>2, SameCurrent DEF Marked
<1>4. \A t \in Slot : attr'[t] = attr[t] \/ attr'[t].unboot
  BY <1>1, <1>2 DEF Marked
<1> QED
  BY <1>2, <1>3, <1>4 DEF Down, Marked, Slots!OnTrial, Slots!Bootable

LEMMA DownPaid ==
  ASSUME TypeOK, OneActive, Slots!OnTrial(attr, Current),
         attr' = Slots!Paid(attr, Current)
  PROVE  Down
<1>1. Current \in Slot /\ attr \in Attrs
  BY CurrentFacts
<1>2. /\ attr' \in Attrs
      /\ \A t \in Slot : /\ attr'[t].active = attr[t].active /\ attr'[t].prio = attr[t].prio
                         /\ attr'[t].succ = attr[t].succ /\ attr'[t].unboot = attr[t].unboot
  BY <1>1, PaidFacts
<1>3. Current' = Current /\ OneActive'
  BY <1>2, SameCurrent
<1> QED
  BY <1>2, <1>3 DEF Down, Slots!Bootable

(* Writes to one field of the device info.                                 *)
LEMMA RecordFacts ==
  ASSUME NEW d \in DevInfoRecord
  PROVE  /\ \A b \in BOOLEAN :
              LET e == [d EXCEPT !.verity = b]
              IN  /\ e \in DevInfoRecord /\ e.magic = d.magic /\ e.unlocked = d.unlocked
                  /\ e.key = d.key /\ e.rollback = d.rollback /\ e.digest = d.digest
         /\ \A g \in Digests \cup {None} :
              LET e == [d EXCEPT !.digest = g]
              IN  /\ e \in DevInfoRecord /\ e.magic = d.magic /\ e.unlocked = d.unlocked
                  /\ e.key = d.key /\ e.rollback = d.rollback /\ e.digest = g
         /\ \A n \in 0 .. MaxIndex :
              LET e == [d EXCEPT !.rollback = n]
              IN  /\ e \in DevInfoRecord /\ e.magic = d.magic /\ e.unlocked = d.unlocked
                  /\ e.key = d.key /\ e.rollback = n /\ e.digest = d.digest
         /\ \A k \in Keys \cup {None} :
              LET e == [d EXCEPT !.key = k]
              IN  /\ e \in DevInfoRecord /\ e.magic = d.magic /\ e.unlocked = d.unlocked
                  /\ e.key = k /\ e.rollback = d.rollback /\ e.digest = d.digest
         /\ \A u \in BOOLEAN :
              LET e == WithLock(d, "unlock", u)
              IN  /\ e \in DevInfoRecord /\ e.magic = d.magic /\ e.unlocked = u
                  /\ e.key = d.key /\ e.rollback = d.rollback /\ e.digest = d.digest
  BY DEF DevInfoRecord, WithLock

LEMMA FirstRecords ==
  /\ NoDevInfo \in DevInfoRecord /\ DefaultDevInfo \in DevInfoRecord
  /\ DefaultDevInfo.magic /\ DefaultDevInfo.rollback = 0 /\ DefaultDevInfo.digest = None
  /\ ~NoDevInfo.magic /\ NoDevInfo.rollback = 0 /\ NoDevInfo.digest = None
<1>1. 0 \in 0 .. MaxIndex
  BY DeviceInfoAssumption
<1>2. NoDevInfo \in DevInfoRecord
  BY <1>1 DEF NoDevInfo, DevInfoRecord
<1>3. (~SecureBoot) \in BOOLEAN
  OBVIOUS
<1>4. DefaultDevInfo \in DevInfoRecord
  BY <1>2, <1>3 DEF DefaultDevInfo, DevInfoRecord
<1> QED
  BY <1>2, <1>4 DEF DefaultDevInfo, NoDevInfo

(* What the verification writes.                                           *)
LEMMA WrittenType ==
  ASSUME TypeOK, OneActive
  PROVE  /\ HashtreeErrorMode(This).digest \in Digests \cup {None}
         /\ HashtreeErrorMode(This).mode \in {None, "restart", "eio"}
         /\ Recorded(This) \in DevInfoRecord
         /\ RollbackIndex(This) \in 0 .. MaxIndex
         /\ [DevInfo EXCEPT !.rollback = RollbackIndex(This)] \in DevInfoRecord
         /\ BootState(This) \in {"ORANGE", "YELLOW", "GREEN"}
<1>1. DevInfo \in DevInfoRecord /\ This \in Image
  BY CurrentFacts DEF TypeOK
<1>2. /\ DevInfo.digest \in Digests \cup {None} /\ DevInfo.rollback \in 0 .. MaxIndex
      /\ This.os \in Digests /\ This.index \in 0 .. MaxIndex /\ This.off \in BOOLEAN
  BY <1>1 DEF DevInfoRecord, Image
<1>3. HashtreeErrorMode(This).digest \in Digests \cup {None}
      /\ HashtreeErrorMode(This).mode \in {None, "restart", "eio"}
  BY <1>2 DEF HashtreeErrorMode
<1>4. RollbackIndex(This) \in 0 .. MaxIndex
  BY <1>2 DEF RollbackIndex
<1> QED
  BY <1>1, <1>3, <1>4, RecordFacts DEF Recorded, BootState

-----------------------------------------------------------------------------
(* Types.                                                                  *)

Labels  == {"off", "boot", "find", "verify", "rollback", "state", "alternate",
            "fastboot", "hlos"}
Reasons == {"normal", "logging", "enforcing"}

DevTyped  == DevInfo \in DevInfoRecord /\ stored \in DevInfoRecord /\ unsaved \in BOOLEAN
SlotTyped == attr \in Attrs /\ running \in Slot \cup {NoSlot}
             /\ image \in [Slot -> Images]
BootTyped == /\ reason \in Reasons /\ pc \in Labels /\ loaded \in BOOLEAN
             /\ mode \in {None, "restart", "eio"}
             /\ colour \in {None, "RED", "ORANGE", "YELLOW", "GREEN"}
             /\ freed \in BOOLEAN /\ faults \in 0 .. MaxFaults
PastTyped == /\ earned \in 0 .. MaxIndex /\ history \in {"locked", "unlocked"}
             /\ eioOs \in Digests \cup {None}

LEMMA TypeParts ==
  ASSUME TypeOK
  PROVE  DevTyped /\ SlotTyped /\ BootTyped /\ PastTyped
  BY DEF TypeOK, DevTyped, SlotTyped, BootTyped, PastTyped, Attrs, Labels, Reasons

LEMMA TypePartsNext ==
  ASSUME DevTyped', SlotTyped', BootTyped', PastTyped'
  PROVE  TypeOK'
  BY DEF TypeOK, DevTyped, SlotTyped, BootTyped, PastTyped, Attrs, Labels, Reasons

LEMMA FaultType ==
  ASSUME BootTyped, Fault \/ NoFault \/ faults' = 0
  PROVE  faults' \in 0 .. MaxFaults
  BY VerifiedBootAssumption DEF BootTyped, Fault, NoFault

LEMMA ResetType ==
  ASSUME NEW r \in Reasons, Reset(r)
  PROVE  /\ DevInfo' \in DevInfoRecord /\ unsaved' \in BOOLEAN
         /\ running' \in Slot \cup {NoSlot} /\ BootTyped'
<1>1. 0 \in 0 .. MaxFaults
  BY VerifiedBootAssumption
<1> QED
  BY <1>1, FirstRecords DEF Reset, Forget, BootTyped, Labels, Reasons

LEMMA GiveUpType ==
  ASSUME DevTyped, SlotTyped, BootTyped, GiveUp, faults' \in 0 .. MaxFaults
  PROVE  /\ DevInfo' \in DevInfoRecord /\ unsaved' \in BOOLEAN
         /\ running' \in Slot \cup {NoSlot} /\ BootTyped'
<1>1. CASE Reset("normal")
  BY <1>1, ResetType DEF Reasons
<1>2. CASE Goto("fastboot") /\ Forget /\ UNCHANGED <<DevInfo, unsaved, reason, running, freed>>
  BY <1>2 DEF Goto, Forget, DevTyped, SlotTyped, BootTyped, Labels
<1> QED
  BY <1>1, <1>2 DEF GiveUp

LEMMA TypeInit == Init => TypeOK /\ OneActive
<1> SUFFICES ASSUME Init PROVE TypeOK /\ OneActive
  OBVIOUS
<1>0. 0 \in 0 .. MaxIndex /\ 0 \in 0 .. MaxFaults
  BY VerifiedBootAssumption, DeviceInfoAssumption
<1>1. DevTyped /\ BootTyped /\ PastTyped
  BY <1>0, FirstRecords DEF Init, DevTyped, BootTyped, PastTyped, Labels, Reasons
<1>2. attr \in Attrs /\ Sole(attr, "_a")
  <2>0. MaxRetry \in Nat
    BY VerifiedBootAssumption
  <2>1. attr = [[s \in Slot |-> Slots!NoAttr] EXCEPT !["_a"] =
                  [prio |-> 3, active |-> TRUE, retry |-> MaxRetry,
                   succ |-> FALSE, unboot |-> FALSE]]
    BY DEF Init, Slots!FirstBoot
  <2>2. /\ Slots!NoAttr \in Slots!Attr /\ ~Slots!NoAttr.active
        /\ [prio |-> 3, active |-> TRUE, retry |-> MaxRetry,
            succ |-> FALSE, unboot |-> FALSE] \in Slots!Attr
    BY <2>0 DEF Slots!NoAttr, Slots!Attr
  <2>3. Slots!Alt("_a") = "_b" /\ Slot = {"_a", "_b"}
    BY SlotFacts DEF Slots!Alt
  <2> QED
    BY <2>1, <2>2, <2>3 DEF Attrs, Sole
<1>3. SlotTyped
  <2>1. PICK i \in Images : image = [s \in Slot |-> i]
    BY DEF Init
  <2> QED
    BY <1>2, <2>1 DEF Init, SlotTyped
<1> QED
  BY <1>1, <1>2, <1>3, SlotFacts
  DEF TypeOK, DevTyped, SlotTyped, BootTyped, PastTyped, Attrs, Labels, Reasons, OneActive

LEMMA SlotsUnchanged ==
  ASSUME SlotTyped, OneActive, UNCHANGED <<attr, image>>,
         running' \in Slot \cup {NoSlot}
  PROVE  SlotTyped' /\ OneActive'
  BY Unchanged DEF SlotTyped

LEMMA TypeStart ==
  ASSUME TypeOK, OneActive, PowerOn \/ HandleReason
  PROVE  TypeOK' /\ OneActive'
<1>0. DevTyped /\ SlotTyped /\ BootTyped /\ PastTyped
  BY TypeParts
<1>1. CASE PowerOn
  <2>1. DevTyped'
    BY <1>0, <1>1, FirstRecords DEF PowerOn, DeviceInfoInit, WriteDevInfo, DevTyped
  <2>2. SlotTyped' /\ OneActive'
    BY <1>0, <1>1, SlotsUnchanged DEF PowerOn, slots, SlotTyped
  <2>3. BootTyped' /\ PastTyped'
    BY <1>0, <1>1 DEF PowerOn, Goto, BootTyped, PastTyped, Labels, boot, ghosts
  <2> QED
    BY <2>1, <2>2, <2>3, TypePartsNext
<1>2. CASE HandleReason
  <2>1. DevTyped'
    <3>1. CASE Reset("normal") /\ UNCHANGED stored
      BY <1>0, <3>1, ResetType DEF DevTyped, Reasons
    <3>2. CASE UNCHANGED dev
      BY <1>0, <3>2 DEF DevTyped, dev
    <3>3. CASE EnableEnforcingMode(reason = "enforcing", TRUE)
      <4> DEFINE b == reason = "enforcing"
      <4>1. [DevInfo EXCEPT !.verity = b] \in DevInfoRecord
        BY <1>0, RecordFacts DEF DevTyped
      <4> QED
        BY <1>0, <3>3, <4>1 DEF EnableEnforcingMode, Save, WriteDevInfo, DevTyped, dev
    <3> QED
      BY <1>2, <3>1, <3>2, <3>3 DEF HandleReason
  <2>2. running' \in Slot \cup {NoSlot} /\ BootTyped'
    <3>1. CASE Reset("normal")
      BY <3>1, ResetType DEF Reasons
    <3>2. CASE /\ pc' \in {"find", "fastboot"} /\ reason' = "normal"
               /\ UNCHANGED <<running, boot, freed>> /\ NoFault
      BY <1>0, <3>2 DEF BootTyped, SlotTyped, Labels, Reasons, boot, NoFault
    <3> QED
      BY <1>2, <3>1, <3>2 DEF HandleReason, EnableEnforcingMode, Save
  <2>3. SlotTyped' /\ OneActive' /\ PastTyped'
    BY <1>0, <1>2, <2>2, SlotsUnchanged DEF HandleReason, PastTyped
  <2> QED
    BY <2>1, <2>2, <2>3, TypePartsNext
<1> QED
  BY <1>1, <1>2

LEMMA DownFind ==
  ASSUME TypeOK, OneActive, FindBootableSlot
  PROVE  Down
  BY DownUnchanged, DownPaid, DownGivenUp DEF FindBootableSlot

LEMMA DownVerify ==
  ASSUME TypeOK, OneActive,
         SlotVerify \/ EarlyReturn \/ UpdateRollbackIndex \/ StartLinux
  PROVE  Down
  BY DownUnchanged, DownGivenUp
  DEF SlotVerify, EarlyReturn, UpdateRollbackIndex, StartLinux, Out

LEMMA TypeLoad ==
  ASSUME TypeOK, OneActive,
         FindBootableSlot \/ SlotVerify \/ EarlyReturn \/ UpdateRollbackIndex
         \/ StartLinux
  PROVE  TypeOK' /\ OneActive'
<1>0. DevTyped /\ SlotTyped /\ BootTyped /\ PastTyped
  BY TypeParts
<1>1. attr' \in Attrs /\ OneActive' /\ image' = image
  BY DownFind, DownVerify
  DEF Down, FindBootableSlot, SlotVerify, EarlyReturn, UpdateRollbackIndex, StartLinux
<1>2. CASE FindBootableSlot
  <2>1. DevTyped' /\ SlotTyped' /\ BootTyped' /\ PastTyped'
    BY <1>0, <1>1, <1>2
    DEF FindBootableSlot, Goto, DevTyped, SlotTyped, BootTyped, PastTyped, Labels, dev,
        boot, ghosts
  <2> QED
    BY <1>1, <2>1, TypePartsNext
<1>3. CASE SlotVerify
  <2>0. This.os \in Digests
    BY CurrentFacts DEF Image
  <2>1. DevTyped'
    BY <1>0, <1>3, WrittenType
    DEF SlotVerify, Save, SaveFails, WriteDevInfo, WriteDevInfoFails, DevTyped, dev
  <2>2. faults' \in 0 .. MaxFaults
    BY <1>0, <1>3, FaultType DEF SlotVerify, Save, SaveFails
  <2>3. SlotTyped' /\ BootTyped'
    BY <1>0, <1>1, <1>3, <2>2, WrittenType
    DEF SlotVerify, Out, Goto, SlotTyped, BootTyped, Labels
  <2>4. PastTyped'
    BY <1>0, <1>3, <2>0 DEF SlotVerify, PastTyped
  <2> QED
    BY <1>1, <2>1, <2>3, <2>4, TypePartsNext
<1>4. CASE EarlyReturn
  <2>1. faults' \in 0 .. MaxFaults
    BY <1>0, <1>4, VerifiedBootAssumption DEF EarlyReturn, BootTyped
  <2>2. /\ DevInfo' \in DevInfoRecord /\ unsaved' \in BOOLEAN
        /\ running' \in Slot \cup {NoSlot} /\ BootTyped'
    BY <1>0, <1>4, <2>1, GiveUpType DEF EarlyReturn
  <2>3. DevTyped' /\ SlotTyped' /\ PastTyped'
    BY <1>0, <1>1, <1>4, <2>2 DEF EarlyReturn, DevTyped, SlotTyped, PastTyped
  <2> QED
    BY <1>1, <2>2, <2>3, TypePartsNext
<1>5. CASE UpdateRollbackIndex
  <2>1. DevTyped'
    BY <1>0, <1>5, WrittenType
    DEF UpdateRollbackIndex, Save, SaveFails, WriteDevInfo, WriteDevInfoFails, DevTyped,
        dev
  <2>2. faults' \in 0 .. MaxFaults
    BY <1>0, <1>5, FaultType DEF UpdateRollbackIndex, Save, SaveFails
  <2>3. SlotTyped' /\ BootTyped' /\ PastTyped'
    BY <1>0, <1>1, <1>5, <2>2
    DEF UpdateRollbackIndex, Out, Goto, SlotTyped, BootTyped, PastTyped, Labels, ghosts
  <2> QED
    BY <1>1, <2>1, <2>3, TypePartsNext
<1>6. CASE StartLinux
  <2>1. faults' \in 0 .. MaxFaults
    BY <1>0, <1>6, FaultType, VerifiedBootAssumption DEF StartLinux, BootTyped
  <2>2. /\ DevInfo' \in DevInfoRecord /\ unsaved' \in BOOLEAN
        /\ running' \in Slot \cup {NoSlot} /\ BootTyped'
    <3>1. CASE GiveUp
      BY <1>0, <2>1, <3>1, GiveUpType
    <3>2. CASE Goto("hlos") /\ running' = Current /\ colour' = BootState(This)
               /\ UNCHANGED <<DevInfo, unsaved, reason, loaded, mode, freed>>
      BY <1>0, <2>1, <3>2, CurrentFacts, WrittenType
      DEF Goto, DevTyped, BootTyped, Labels
    <3>3. CASE Out /\ UNCHANGED <<DevInfo, unsaved, reason, running, loaded, mode, freed>>
      BY <1>0, <2>1, <3>3 DEF Out, Goto, DevTyped, SlotTyped, BootTyped, Labels
    <3> QED
      BY <1>6, <3>1, <3>2, <3>3 DEF StartLinux
  <2>3. DevTyped' /\ SlotTyped' /\ PastTyped'
    BY <1>0, <1>1, <1>6, <2>2 DEF StartLinux, DevTyped, SlotTyped, PastTyped
  <2> QED
    BY <1>1, <2>2, <2>3, TypePartsNext
<1> QED
  BY <1>2, <1>3, <1>4, <1>5, <1>6

(* SetActiveSlot makes its slot the only active one.                       *)
LEMMA SwitchedNext ==
  ASSUME TypeOK, NEW s \in Slot, NEW r \in BOOLEAN, attr' = Slots!Switched(attr, s, r)
  PROVE  /\ attr' \in Attrs /\ OneActive' /\ Current' = s
         /\ attr'[s].succ = (attr[s].succ /\ ~r)
         /\ attr'[Slots!Alt(s)].succ = attr[Slots!Alt(s)].succ
         /\ attr'[Slots!Alt(s)].unboot = attr[Slots!Alt(s)].unboot
<1>1. attr \in Attrs
  BY DEF TypeOK, Attrs
<1>2. /\ attr' \in Attrs
      /\ attr'[s] = [prio |-> 3, active |-> TRUE, retry |-> MaxRetry,
                     succ |-> attr[s].succ /\ ~r, unboot |-> FALSE]
      /\ ~attr'[Slots!Alt(s)].active
      /\ attr'[Slots!Alt(s)].succ = attr[Slots!Alt(s)].succ
      /\ attr'[Slots!Alt(s)].unboot = attr[Slots!Alt(s)].unboot
  BY <1>1, SwitchedFacts
<1>3. attr'[s].active /\ attr'[s].prio = 3 /\ attr'[s].succ = (attr[s].succ /\ ~r)
  BY <1>2
<1>4. Sole(attr', s)
  BY <1>2, <1>3 DEF Sole
<1>5. Current' = s /\ OneActive'
  BY <1>2, <1>4, NewCurrent
<1> QED
  BY <1>2, <1>3, <1>5

LEMMA TypeAlternate ==
  ASSUME TypeOK, OneActive, TryAlternateSlot
  PROVE  TypeOK' /\ OneActive'
<1>0. DevTyped /\ SlotTyped /\ BootTyped /\ PastTyped
  BY TypeParts
<1>1. UNCHANGED <<stored, image, earned, history, eioOs>> /\ Slots!Alt(Current) \in Slot
  BY CurrentFacts, SlotFacts DEF TryAlternateSlot
<1>2. attr' \in Attrs /\ OneActive'
  <2>1. CASE attr' = Slots!Switched(attr, Slots!Alt(Current), FALSE)
    BY <1>1, <2>1, SwitchedNext
  <2>2. CASE UNCHANGED attr
    BY <2>2, DownUnchanged DEF Down
  <2> QED
    BY <2>1, <2>2 DEF TryAlternateSlot
<1>3. /\ DevInfo' \in DevInfoRecord /\ unsaved' \in BOOLEAN
      /\ running' \in Slot \cup {NoSlot} /\ BootTyped'
  <2>1. CASE Reset("normal")
    BY <2>1, ResetType DEF Reasons
  <2>2. CASE faults' = (IF pc' = "off" THEN 0 ELSE faults)
    <3>1. faults' \in 0 .. MaxFaults
      BY <1>0, <2>2, VerifiedBootAssumption DEF BootTyped
    <3>2. CASE GiveUp
      BY <1>0, <3>1, <3>2, GiveUpType
    <3>3. CASE Goto("hlos") /\ running' = Current /\ freed' = TRUE
               /\ UNCHANGED <<DevInfo, unsaved, reason, boot>>
      BY <1>0, <3>1, <3>3, CurrentFacts DEF Goto, DevTyped, BootTyped, Labels, boot
    <3> QED
      BY <2>1, <3>2, <3>3 DEF TryAlternateSlot
  <2> QED
    BY <2>1, <2>2 DEF TryAlternateSlot
<1>4. DevTyped' /\ SlotTyped' /\ PastTyped'
  BY <1>0, <1>1, <1>2, <1>3 DEF DevTyped, SlotTyped, PastTyped
<1> QED
  BY <1>2, <1>3, <1>4, TypePartsNext

LEMMA RenewedNext ==
  ASSUME TypeOK, OneActive, NEW s \in Slot, attr' = Slots!Renewed(attr, s)
  PROVE  /\ attr' \in Attrs /\ OneActive' /\ ~attr'[s].succ
         /\ \A t \in Slot \ {s} : attr'[t] = attr[t]
<1>1. attr \in Attrs /\ Current \in Slot /\ Sole(attr, Current)
  BY CurrentFacts
<1>2. /\ attr' \in Attrs
      /\ attr'[s].active = attr[s].active /\ attr'[s].prio = 3 /\ ~attr'[s].succ
      /\ \A t \in Slot \ {s} : attr'[t] = attr[t]
  BY <1>1, RenewedFacts
<1>3. Sole(attr', Current)
  BY <1>1, <1>2, SlotFacts DEF Sole
<1> QED
  BY <1>1, <1>2, <1>3, NewCurrent

LEMMA PardonedNext ==
  ASSUME TypeOK, OneActive, attr' = Slots!Pardoned(attr, Current)
  PROVE  /\ attr' \in Attrs /\ OneActive' /\ Current' = Current
         /\ \A t \in Slot : attr'[t].succ = attr[t].succ
<1>1. Current \in Slot /\ attr \in Attrs
  BY CurrentFacts
<1>2. Marked(attr, attr', Current, FALSE)
  BY <1>1, MarkFacts
<1> QED
  BY <1>2, SameCurrent DEF Marked

LEMMA TypeFastboot ==
  ASSUME TypeOK, OneActive, FastbootCommands
  PROVE  TypeOK' /\ OneActive'
<1>0. DevTyped /\ SlotTyped /\ BootTyped /\ PastTyped
  BY TypeParts
<1>1. CASE SetDeviceUnlock
  <2>1. DevInfo.unlocked \in BOOLEAN /\ (~DevInfo.unlocked) \in BOOLEAN
    BY <1>0 DEF DevTyped, DevInfoRecord
  <2>2. WithLock(DevInfo, "unlock", ~DevInfo.unlocked) \in DevInfoRecord
    BY <1>0, <2>1, RecordFacts DEF DevTyped
  <2>3. stored' \in DevInfoRecord
    BY <1>0, <1>1, <2>2
    DEF SetDeviceUnlock, Save, SaveFails, WriteDevInfo, WriteDevInfoFails, DevTyped
  <2>4. /\ DevInfo' \in DevInfoRecord /\ unsaved' \in BOOLEAN
        /\ running' \in Slot \cup {NoSlot} /\ BootTyped'
    <3>1. CASE Reset("normal")
      BY <3>1, ResetType DEF Reasons
    <3>2. CASE /\ DevInfo' \in {DevInfo, WithLock(DevInfo, "unlock", ~DevInfo.unlocked)}
               /\ unsaved' \in BOOLEAN /\ (Fault \/ NoFault)
               /\ UNCHANGED <<running, reason, pc, boot, freed>>
      <4>1. faults' \in 0 .. MaxFaults
        BY <1>0, <3>2, FaultType
      <4> QED
        BY <1>0, <2>2, <3>2, <4>1 DEF DevTyped, SlotTyped, BootTyped, boot
    <3> QED
      BY <1>1, <3>1, <3>2
      DEF SetDeviceUnlock, Save, SaveFails, WriteDevInfo, WriteDevInfoFails
  <2>5. SlotTyped' /\ OneActive'
    BY <1>0, <1>1, <2>4, SlotsUnchanged DEF SetDeviceUnlock
  <2>6. DevTyped' /\ PastTyped'
    BY <1>0, <1>1, <2>3, <2>4 DEF SetDeviceUnlock, DevTyped, PastTyped
  <2> QED
    BY <2>4, <2>5, <2>6, TypePartsNext
<1>2. CASE StoreUserKey \/ FlashSystem
  <2>1. \A k \in Keys \cup {None} : [DevInfo EXCEPT !.key = k] \in DevInfoRecord
    BY <1>0, RecordFacts DEF DevTyped
  <2>2. [DevInfo EXCEPT !.verity = TRUE] \in DevInfoRecord
    BY <1>0, RecordFacts DEF DevTyped
  <2>3. DevTyped'
    BY <1>0, <1>2, <2>1, <2>2
    DEF StoreUserKey, FlashSystem, EnableEnforcingMode, Save, SaveFails, WriteDevInfo,
        WriteDevInfoFails, DevTyped, dev
  <2>4. Fault \/ NoFault
    BY <1>2 DEF StoreUserKey, FlashSystem, EnableEnforcingMode, Save, SaveFails
  <2>5. faults' \in 0 .. MaxFaults
    BY <1>0, <2>4, FaultType
  <2>6. UNCHANGED <<slots, image, reason, pc, boot, ghosts>>
    BY <1>2 DEF StoreUserKey, FlashSystem
  <2>7. SlotTyped' /\ OneActive'
    BY <1>0, <2>6, SlotsUnchanged DEF SlotTyped, slots
  <2>8. BootTyped' /\ PastTyped'
    BY <1>0, <2>5, <2>6 DEF BootTyped, PastTyped, boot, ghosts
  <2> QED
    BY <2>3, <2>7, <2>8, TypePartsNext
<1>3. CASE CmdFlash
  <2>1. PICK s \in Slot, i \in Images :
          /\ image' = [image EXCEPT ![s] = i]
          /\ \/ attr' = Slots!Renewed(attr, s) /\ UNCHANGED earned
             \/ /\ UNCHANGED attr
                /\ earned' = IF attr[s].succ THEN MaxIndex ELSE earned
    BY <1>3 DEF CmdFlash
  <2>2. attr' \in Attrs /\ OneActive'
    BY <2>1, RenewedNext, DownUnchanged DEF Down
  <2>3. SlotTyped'
    BY <1>0, <1>3, <2>1, <2>2 DEF CmdFlash, SlotTyped
  <2>4. MaxIndex \in 0 .. MaxIndex
    BY DeviceInfoAssumption
  <2>5. PastTyped'
    BY <1>0, <1>3, <2>1, <2>4 DEF CmdFlash, PastTyped
  <2>6. DevTyped' /\ BootTyped'
    BY <1>0, <1>3 DEF CmdFlash, DevTyped, BootTyped, dev, boot
  <2> QED
    BY <2>2, <2>3, <2>5, <2>6, TypePartsNext
<1>4. CASE CmdSetActive \/ CmdContinue
  <2>1. attr' \in Attrs /\ OneActive'
    BY <1>4, SwitchedNext, PardonedNext, DownUnchanged DEF CmdSetActive, CmdContinue, Down
  <2>2. /\ UNCHANGED <<dev, running, image, reason, boot, ghosts, faults>>
        /\ pc' \in {pc, "find"}
    BY <1>4 DEF CmdSetActive, CmdContinue, Goto
  <2>3. DevTyped' /\ SlotTyped' /\ PastTyped'
    BY <1>0, <2>1, <2>2 DEF DevTyped, SlotTyped, PastTyped, dev, ghosts
  <2>4. BootTyped'
    BY <1>0, <2>2 DEF BootTyped, Labels, boot, ghosts
  <2> QED
    BY <2>1, <2>3, <2>4, TypePartsNext
<1> QED
  BY <1>1, <1>2, <1>3, <1>4 DEF FastbootCommands

(* The system that runs is that of the current slot.                       *)
RunsCurrent == pc = "hlos" => running = Current

LEMMA SucceededNext ==
  ASSUME TypeOK, OneActive, RunsCurrent, MarkBootSuccessful
  PROVE  /\ attr' \in Attrs /\ OneActive' /\ Current' = Current /\ Current = running
         /\ running \in Slot /\ attr'[running].succ
         /\ \A t \in Slot \ {running} : attr'[t] = attr[t]
         /\ \A t \in Slot : attr'[t].unboot = attr[t].unboot
<1>1. attr \in Attrs /\ Current \in Slot /\ Current = running
  BY CurrentFacts DEF RunsCurrent, MarkBootSuccessful
<1>2. /\ attr' \in Attrs
      /\ \A t \in Slot : /\ attr'[t].active = attr[t].active /\ attr'[t].prio = attr[t].prio
                         /\ attr'[t].unboot = attr[t].unboot
      /\ attr'[running].succ
      /\ \A t \in Slot \ {running} : attr'[t] = attr[t]
  BY <1>1, SucceededFacts DEF MarkBootSuccessful
<1> QED
  BY <1>1, <1>2, SameCurrent

LEMMA TypeEnvironment ==
  ASSUME TypeOK, OneActive, RunsCurrent, Environment
  PROVE  TypeOK' /\ OneActive'
<1>0. DevTyped /\ SlotTyped /\ BootTyped /\ PastTyped
  BY TypeParts
<1>1. CASE MarkBootSuccessful
  <2>1. attr' \in Attrs /\ OneActive' /\ running \in Slot
    BY <1>1, SucceededNext
  <2>2. image[running] \in Image
    BY <1>0, <2>1, VerifiedBootAssumption DEF SlotTyped
  <2>3. PastTyped'
    BY <1>0, <1>1, <2>2 DEF MarkBootSuccessful, MaxOf, Image, PastTyped
  <2>4. DevTyped' /\ SlotTyped' /\ BootTyped'
    BY <1>0, <1>1, <2>1 DEF MarkBootSuccessful, DevTyped, SlotTyped, BootTyped, dev, boot
  <2> QED
    BY <2>1, <2>3, <2>4, TypePartsNext
<1>2. CASE Update
  <2>1. running \in Slot /\ Slots!Alt(running) \in Slot
    BY <1>2, CurrentFacts, SlotFacts DEF Update, RunsCurrent
  <2>2. attr' \in Attrs /\ OneActive'
    BY <1>2, <2>1, SwitchedNext DEF Update
  <2>3. /\ DevInfo' \in DevInfoRecord /\ unsaved' \in BOOLEAN
        /\ running' \in Slot \cup {NoSlot} /\ BootTyped'
    BY <1>2, ResetType DEF Update, Reasons
  <2>4. DevTyped' /\ SlotTyped' /\ PastTyped'
    BY <1>0, <1>2, <2>2, <2>3 DEF Update, DevTyped, SlotTyped, PastTyped
  <2> QED
    BY <2>2, <2>3, <2>4, TypePartsNext
<1>3. CASE Corruption \/ Leave \/ PowerLoss
  <2>1. /\ \E r \in Reasons : Reset(r)
        /\ UNCHANGED <<attr, stored, image, earned, history, eioOs>>
    BY <1>3 DEF Corruption, Leave, PowerLoss, Reasons
  <2>2. /\ DevInfo' \in DevInfoRecord /\ unsaved' \in BOOLEAN
        /\ running' \in Slot \cup {NoSlot} /\ BootTyped'
    BY <2>1, ResetType
  <2>3. SlotTyped' /\ OneActive'
    BY <1>0, <2>1, <2>2, SlotsUnchanged
  <2>4. DevTyped' /\ PastTyped'
    BY <1>0, <2>1, <2>2 DEF DevTyped, PastTyped
  <2> QED
    BY <2>2, <2>3, <2>4, TypePartsNext
<1> QED
  BY <1>1, <1>2, <1>3 DEF Environment

LEMMA TypeNext ==
  ASSUME TypeOK, OneActive, RunsCurrent, [Next]_vars
  PROVE  TypeOK' /\ OneActive'
<1>1. CASE Next
  BY <1>1, TypeStart, TypeLoad, TypeAlternate, TypeFastboot, TypeEnvironment
  DEF Next, Loader
<1>2. CASE UNCHANGED vars
  <2>1. OneActive'
    BY <1>2, Unchanged DEF vars, slots
  <2>2. TypeOK'
    BY <1>2 DEF vars, dev, slots, boot, ghosts, TypeOK
  <2> QED
    BY <2>1, <2>2
<1> QED
  BY <1>1, <1>2

-----------------------------------------------------------------------------
(* The inductive invariant.                                                *)

(* What survives a reset: an index that is stored was earned; a slot that  *)
(* is marked successful holds a system that was counted; a device without  *)
(* a record has seen no eio mode; on a device that was never unlocked the  *)
(* system to go back to is not ruled out; the digest of the system last    *)
(* verified in eio mode is on record.                                      *)
Lasting ==
  /\ stored.rollback <= earned
  /\ \A s \in Slot : attr[s].succ => image[s].index <= earned
  /\ ~stored.magic => eioOs = None
  /\ history = "locked" /\ stored.unlocked => stored.rollback = 0
  /\ FallbackKept
  /\ eioOs # None => stored.digest = eioOs

(* The record in RAM is the one in secure storage unless the last write    *)
(* failed.  Then it may be ahead in the rollback index, which was earned   *)
(* all the same, and differ in the mode, the digest and the key, and in    *)
(* the lock value only once a lock command was given.                      *)
RamAhead ==
  /\ DevInfo.magic /\ stored.magic
  /\ ~unsaved => DevInfo = stored
  /\ DevInfo.rollback >= stored.rollback /\ DevInfo.rollback <= earned
  /\ eioOs # None => DevInfo.digest = eioOs
  /\ history = "locked" => /\ DevInfo.unlocked = stored.unlocked
                           /\ \/ DevInfo.rollback = stored.rollback
                              \/ ~DevInfo.unlocked /\ attr[Current].unboot

(* Between its verification and its start an image stays acceptable.       *)
StillGood ==
  pc \in {"rollback", "state"} /\ ~DevInfo.unlocked =>
    /\ KeyIsTrusted(This) /\ This.index >= DevInfo.rollback
    /\ This.off \/ This.intact

(* Images are used after they were freed only by a kernel that runs, and   *)
(* that one runs from a slot that is given up.                             *)
FreedRuns   == freed => pc = "hlos"
SlotIsLost  == pc = "alternate" => attr[Current].unboot
FreedIsLost == pc = "hlos" /\ freed => attr[running].unboot

VBInv ==
  /\ RunsCurrent /\ Lasting /\ (pc # "off" => RamAhead)
  /\ StillGood /\ FreedIsLost /\ ColourTrue

LEMMA ResetSafe ==
  ASSUME NEW r, Reset(r), Lasting'
  PROVE  VBInv'
  BY DEF Reset, VBInv, RunsCurrent, StillGood, FreedIsLost, ColourTrue

LEMMA LastingSame ==
  ASSUME Lasting, UNCHANGED <<stored, attr, image, earned, history, eioOs>>
  PROVE  Lasting'
  BY DEF Lasting, FallbackKept, Current

LEMMA QuietSafe ==
  ASSUME pc' \notin {"rollback", "state", "hlos"}
  PROVE  RunsCurrent' /\ StillGood' /\ FreedIsLost' /\ ColourTrue'
  BY DEF RunsCurrent, StillGood, FreedIsLost, ColourTrue

(* An index of zero rules nothing out.                                     *)
LEMMA FallbackZero ==
  ASSUME TypeOK', OneActive', stored'.rollback = 0
  PROVE  FallbackKept'
<1>1. attr' \in Attrs /\ image' \in [Slot -> Images]
  BY DEF TypeOK, Attrs
<1>2. PICK s \in Slot : Sole(attr', s)
  BY DEF OneActive, Sole
<1>3. Current' = s /\ Slots!Alt(s) \in Slot
  BY <1>1, <1>2, NewCurrent, SlotFacts
<1>4. image'[Slots!Alt(s)] \in Image
  BY <1>1, <1>3, VerifiedBootAssumption
<1>5. image'[Slots!Alt(s)].index >= 0
  BY <1>4, DeviceInfoAssumption DEF Image
<1> QED
  BY <1>3, <1>5 DEF FallbackKept

LEMMA FallbackDown ==
  ASSUME FallbackKept, Down, UNCHANGED <<image, history>>,
         Current \in Slot,
         history = "locked" /\ Slots!OnTrial(attr, Current)
           => stored'.rollback = stored.rollback
  PROVE  FallbackKept'
<1>1. Slots!Alt(Current) \in Slot
  BY SlotFacts
<1> QED
  BY <1>1 DEF FallbackKept, Down

(* A step within a session that leaves slots and systems, and writes at    *)
(* most the mode, the digest or the key.                                   *)
LEMMA RamStep ==
  ASSUME TypeOK, OneActive, Lasting, RamAhead, Down,
         UNCHANGED <<image, earned, history>>,
         NEW d \in DevInfoRecord, DevInfo' = d, stored' \in {stored, d},
         d.magic = DevInfo.magic, d.unlocked = DevInfo.unlocked,
         d.rollback = DevInfo.rollback, ~unsaved' => d = stored',
         eioOs' # None => stored'.digest = eioOs' /\ d.digest = eioOs'
  PROVE  Lasting' /\ RamAhead'
<1>0. Current \in Slot /\ DevInfo \in DevInfoRecord /\ stored \in DevInfoRecord
      /\ earned \in 0 .. MaxIndex
  BY CurrentFacts DEF TypeOK
<1>1. Slots!OnTrial(attr, Current) => ~attr[Current].unboot
  BY DEF Slots!OnTrial
<1>2. FallbackKept'
  <2>1. history = "locked" /\ Slots!OnTrial(attr, Current)
          => stored'.rollback = stored.rollback
    BY <1>1 DEF RamAhead
  <2> QED
    BY <1>0, <2>1, FallbackDown DEF Lasting
<1>3. Lasting'
  <2>1. /\ stored'.rollback <= earned' /\ (~stored'.magic => eioOs' = None)
        /\ history' = "locked" /\ stored'.unlocked => stored'.rollback = 0
    <3>1. CASE stored' = stored
      BY <3>1 DEF Lasting, RamAhead
    <3>2. CASE stored' = d
      BY <3>2 DEF Lasting, RamAhead
    <3> QED
      BY <3>1, <3>2
  <2>2. \A s \in Slot : attr'[s].succ => image'[s].index <= earned'
    BY DEF Lasting, Down
  <2> QED
    BY <1>2, <2>1, <2>2 DEF Lasting
<1>4. RamAhead'
  <2>1. /\ d.magic /\ stored'.magic
        /\ d.rollback >= stored'.rollback /\ d.rollback <= earned'
        /\ history = "locked" => /\ d.unlocked = stored'.unlocked
                                 /\ \/ d.rollback = stored'.rollback
                                    \/ ~d.unlocked /\ attr[Current].unboot
    <3>1. /\ d.rollback \in Nat /\ stored.rollback \in Nat /\ earned \in Nat
          /\ earned' = earned
      BY <1>0, DeviceInfoAssumption DEF DevInfoRecord
    <3>2. CASE stored' = stored
      BY <3>1, <3>2 DEF RamAhead
    <3>3. CASE stored' = d
      <4>1. d.rollback >= d.rollback /\ d.rollback <= earned'
        BY <3>1 DEF RamAhead
      <4>2. d.magic
        BY DEF RamAhead
      <4> QED
        BY <3>3, <4>1, <4>2, Zenon
    <3> QED
      BY <3>2, <3>3
  <2>2. attr[Current].unboot => attr'[Current'].unboot
    BY <1>0 DEF Down
  <2> QED
    BY <2>1, <2>2 DEF RamAhead
<1> QED
  BY <1>3, <1>4

(* A command of an unlocked device that changes slots or systems.          *)
LEMMA UnlockedStep ==
  ASSUME TypeOK, TypeOK', OneActive', Lasting, RamAhead, DevInfo.unlocked,
         UNCHANGED <<dev, history, eioOs>>, earned' >= earned,
         \A s \in Slot : attr'[s].succ => image'[s].index <= earned'
  PROVE  Lasting' /\ RamAhead'
<1>0. /\ earned \in 0 .. MaxIndex /\ earned' \in 0 .. MaxIndex
      /\ DevInfo.rollback \in 0 .. MaxIndex /\ stored.rollback \in 0 .. MaxIndex
  BY DEF TypeOK, DevInfoRecord
<1>1. FallbackKept'
  <2>1. CASE history = "locked"
    BY <2>1, FallbackZero DEF Lasting, RamAhead, dev
  <2>2. CASE history # "locked"
    BY <2>2 DEF FallbackKept
  <2> QED
    BY <2>1, <2>2
<1>2. Lasting'
  BY <1>0, <1>1 DEF Lasting, RamAhead, dev
<1>3. RamAhead'
  <2>1. /\ DevInfo' = DevInfo /\ stored' = stored /\ DevInfo.rollback <= earned'
        /\ ~unsaved' => DevInfo = stored
    BY <1>0 DEF RamAhead, dev
  <2>2. history = "locked" => DevInfo.rollback = stored.rollback
    BY DEF RamAhead
  <2> QED
    BY <2>1, <2>2 DEF RamAhead
<1> QED
  BY <1>2, <1>3

LEMMA VBInit == Init => VBInv
<1> SUFFICES ASSUME Init PROVE VBInv
  OBVIOUS
<1>1. TypeOK /\ OneActive
  BY TypeInit
<1>2. \A s \in Slot : ~attr[s].succ
  BY SlotFacts DEF Init, Slots!FirstBoot, Slots!NoAttr
<1>3. FallbackKept
  BY <1>1, <1>2, CurrentFacts, SlotFacts DEF FallbackKept, Slots!Bootable
<1>4. Lasting
  BY <1>2, <1>3, FirstRecords DEF Init, Lasting
<1> QED
  BY <1>4 DEF Init, VBInv, RunsCurrent, StillGood, FreedIsLost, ColourTrue

LEMMA SafeStart ==
  ASSUME TypeOK, OneActive, TypeOK', OneActive', VBInv, PowerOn \/ HandleReason
  PROVE  VBInv'
<1>0. DevInfo \in DevInfoRecord /\ stored \in DevInfoRecord /\ earned \in 0 .. MaxIndex
      /\ Lasting
  BY DEF TypeOK, VBInv
<1>1. CASE PowerOn
  <2>0. pc' = "boot" /\ UNCHANGED <<attr, image, earned, history, eioOs>>
    BY <1>1 DEF PowerOn, Goto, slots, ghosts
  <2>1. CASE stored.magic
    <3>1. DevInfo' = stored /\ UNCHANGED stored
      BY <1>1, <2>1 DEF PowerOn, DeviceInfoInit
    <3>2. Lasting'
      BY <1>0, <2>0, <3>1, LastingSame
    <3>3. RamAhead'
      BY <1>0, <2>0, <2>1, <3>1 DEF Lasting, RamAhead, DevInfoRecord
    <3> QED
      BY <2>0, <3>2, <3>3, QuietSafe DEF VBInv
  <2>2. CASE ~stored.magic
    <3>1. DevInfo' = DefaultDevInfo /\ stored' = DefaultDevInfo /\ eioOs = None
      BY <1>0, <1>1, <2>2 DEF PowerOn, DeviceInfoInit, WriteDevInfo, Lasting
    <3>2. FallbackKept'
      BY <3>1, FirstRecords, FallbackZero
    <3>3. Lasting'
      BY <1>0, <2>0, <3>1, <3>2, FirstRecords DEF Lasting
    <3>4. RamAhead'
      BY <1>0, <2>0, <3>1, FirstRecords DEF RamAhead
    <3> QED
      BY <2>0, <3>3, <3>4, QuietSafe DEF VBInv
  <2> QED
    BY <2>1, <2>2
<1>2. CASE HandleReason
  <2>0. pc = "boot" /\ UNCHANGED <<attr, image, earned, history, eioOs>> /\ RamAhead /\ Down
    BY <1>2, DownUnchanged DEF HandleReason, VBInv
  <2>1. CASE Reset("normal") /\ UNCHANGED stored
    BY <1>0, <2>0, <2>1, LastingSame, ResetSafe
  <2>2. CASE pc' \in {"find", "fastboot"} /\ UNCHANGED dev
    <3>1. Lasting' /\ RamAhead'
      BY <1>0, <2>0, <2>2, RamStep DEF dev, Lasting, RamAhead
    <3> QED
      BY <2>2, <3>1, QuietSafe DEF VBInv
  <2>3. CASE pc' \in {"find", "fastboot"}
             /\ EnableEnforcingMode(reason = "enforcing", TRUE)
             /\ DevInfo.verity # (reason = "enforcing")
    <3> DEFINE b == reason = "enforcing"
               d == [DevInfo EXCEPT !.verity = b]
    <3>1. DevInfo' = d /\ stored' = d /\ b \in BOOLEAN
      BY <2>3 DEF EnableEnforcingMode, Save, WriteDevInfo
    <3> HIDE DEF b
    <3>2. /\ d \in DevInfoRecord /\ d.magic = DevInfo.magic /\ d.unlocked = DevInfo.unlocked
          /\ d.key = DevInfo.key /\ d.rollback = DevInfo.rollback
          /\ d.digest = DevInfo.digest
      BY <1>0, <3>1, RecordFacts
    <3> HIDE DEF d
    <3>3. Lasting' /\ RamAhead'
      BY <1>0, <2>0, <3>1, <3>2, RamStep DEF RamAhead
    <3> QED
      BY <2>3, <3>3, QuietSafe DEF VBInv
  <2> QED
    BY <1>2, <2>1, <2>2, <2>3 DEF HandleReason, EnableEnforcingMode
<1> QED
  BY <1>1, <1>2

(* Steps of a session that do not write the device info.                   *)
LEMMA QuietStep ==
  ASSUME TypeOK, OneActive, VBInv, pc # "off", Down,
         UNCHANGED <<dev, image, earned, history, eioOs>>
  PROVE  Lasting' /\ RamAhead'
<1>1. Lasting /\ RamAhead /\ DevInfo \in DevInfoRecord
  BY DEF VBInv, TypeOK
<1>2. /\ DevInfo' = DevInfo /\ stored' = stored /\ eioOs' = eioOs
      /\ ~unsaved' => DevInfo = stored'
  BY <1>1 DEF dev, RamAhead
<1>3. eioOs' # None => stored'.digest = eioOs' /\ DevInfo.digest = eioOs'
  BY <1>1, <1>2 DEF Lasting, RamAhead
<1> QED
  BY <1>1, <1>2, <1>3, RamStep

LEMMA GiveUpSafe ==
  ASSUME TypeOK, OneActive, VBInv, pc # "off", GiveUp,
         UNCHANGED <<attr, stored, image, earned, history, eioOs>>
  PROVE  VBInv'
<1>1. CASE Reset("normal")
  BY <1>1, LastingSame, ResetSafe DEF VBInv
<1>2. CASE pc' = "fastboot" /\ UNCHANGED <<DevInfo, unsaved>>
  <2>1. Lasting' /\ RamAhead'
    BY <1>2, DownUnchanged, QuietStep DEF dev
  <2> QED
    BY <1>2, <2>1, QuietSafe DEF VBInv
<1> QED
  BY <1>1, <1>2 DEF GiveUp, Goto

(* The fields that a write of the digest leaves.                           *)
LEMMA RecordedFacts ==
  ASSUME TypeOK, OneActive
  PROVE  LET d == Recorded(This)
         IN  /\ d \in DevInfoRecord /\ d.magic = DevInfo.magic
             /\ d.unlocked = DevInfo.unlocked /\ d.key = DevInfo.key
             /\ d.rollback = DevInfo.rollback
             /\ d.digest = HashtreeErrorMode(This).digest
<1>1. DevInfo \in DevInfoRecord
  BY DEF TypeOK
<1> QED
  BY <1>1, WrittenType, RecordFacts DEF Recorded

LEMMA SafeVerify ==
  ASSUME TypeOK, OneActive, VBInv, FindBootableSlot \/ SlotVerify \/ EarlyReturn
  PROVE  VBInv'
<1>0. pc # "off" /\ DevInfo \in DevInfoRecord /\ This.os \in Digests
  BY CurrentFacts DEF TypeOK, FindBootableSlot, SlotVerify, EarlyReturn, Image
<1>1. Lasting /\ RamAhead
  BY <1>0 DEF VBInv
<1>2. CASE FindBootableSlot
  <2>1. Lasting' /\ RamAhead'
    BY <1>0, <1>2, DownFind, QuietStep DEF FindBootableSlot, ghosts
  <2> QED
    BY <1>2, <2>1, QuietSafe DEF VBInv, FindBootableSlot, Goto
<1>3. CASE EarlyReturn
  BY <1>0, <1>3, GiveUpSafe DEF EarlyReturn
<1>4. CASE SlotVerify
  <2>0. Down /\ UNCHANGED <<image, earned, history>>
    BY <1>4, DownVerify DEF SlotVerify
  <2>1. CASE /\ Accepted(This) /\ mode' = HashtreeErrorMode(This).mode
             /\ IF Records(This) THEN Save(Recorded(This)) ELSE UNCHANGED dev
             /\ pc' = "rollback" /\ UNCHANGED attr
             /\ eioOs' = CASE mode' = None -> eioOs
                           [] mode' = "eio" /\ DevInfo'.digest = stored'.digest -> This.os
                           [] OTHER -> None
    <3>1. PICK d \in {DevInfo, Recorded(This)} :
            /\ DevInfo' = d /\ stored' \in {stored, d}
            /\ (Records(This) /\ d = Recorded(This) /\ stored' = d)
               \/ (~Records(This) /\ d = DevInfo /\ stored' = stored)
            /\ ~unsaved' => d = stored'
      BY <1>1, <2>1 DEF Save, WriteDevInfo, dev, RamAhead
    <3>2. /\ d \in DevInfoRecord /\ d.magic = DevInfo.magic /\ d.unlocked = DevInfo.unlocked
          /\ d.key = DevInfo.key /\ d.rollback = DevInfo.rollback
      BY <1>0, <3>1, RecordedFacts
    <3>3. eioOs' # None => stored'.digest = eioOs' /\ d.digest = eioOs'
      <4>0. This.os # None
        BY <1>0, DeviceInfoAssumption
      <4>1. CASE This.off
        <5>1. mode' = None /\ ~Records(This)
          BY <2>1, <4>1 DEF HashtreeErrorMode, Records
        <5>2. eioOs' = eioOs
          BY <2>1, <5>1 DEF None
        <5>3. d = DevInfo /\ stored' = stored
          BY <3>1, <5>1
        <5> QED
          BY <1>1, <5>2, <5>3 DEF Lasting, RamAhead
      <4>2. CASE ~This.off /\ (~DevInfo.verity \/ DevInfo.digest = This.os)
        <5>1. HashtreeErrorMode(This).mode = "eio" /\ HashtreeErrorMode(This).digest = This.os
          BY <4>2 DEF HashtreeErrorMode
        <5>2. d.digest = This.os
          BY <3>1, <4>2, <5>1, RecordedFacts DEF Records
        <5>3. eioOs' # None => stored'.digest = d.digest /\ eioOs' = This.os
          BY <2>1, <3>1, <5>1 DEF None
        <5> QED
          BY <5>2, <5>3
      <4>3. CASE ~This.off /\ DevInfo.verity /\ DevInfo.digest # This.os
        <5>1. mode' = "restart"
          BY <2>1, <4>3 DEF HashtreeErrorMode
        <5> QED
          BY <2>1, <5>1 DEF None
      <4> QED
        BY <4>1, <4>2, <4>3
    <3>4. Lasting' /\ RamAhead'
      BY <1>1, <2>0, <3>1, <3>2, <3>3, RamStep
    <3>5. StillGood'
      <4>1. ~DevInfo.unlocked => /\ KeyIsTrusted(This) /\ This.index >= DevInfo.rollback
                                 /\ This.off \/ This.intact
        BY <2>1 DEF Accepted, Result
      <4>2. This' = This
        BY <2>0, <2>1, Unchanged
      <4> QED
        BY <3>1, <3>2, <4>1, <4>2 DEF StillGood, KeyIsTrusted, IsUserKey
    <3>6. RunsCurrent' /\ FreedIsLost' /\ ColourTrue'
      BY <2>1 DEF RunsCurrent, FreedIsLost, ColourTrue
    <3> QED
      BY <3>4, <3>5, <3>6 DEF VBInv
  <2>2. CASE SaveFails(Recorded(This)) /\ Out /\ eioOs' = None
    <3>1. Lasting' /\ RamAhead'
      BY <1>1, <2>0, <2>2, RecordedFacts, RamStep DEF SaveFails, WriteDevInfoFails
    <3> QED
      BY <2>2, <3>1, QuietSafe DEF VBInv, Out, Goto
  <2>3. CASE Out /\ UNCHANGED <<dev, mode, eioOs>>
    <3>1. Lasting' /\ RamAhead'
      BY <1>0, <2>0, <2>3, QuietStep
    <3> QED
      BY <2>3, <3>1, QuietSafe DEF VBInv, Out, Goto
  <2> QED
    BY <1>4, <2>1, <2>2, <2>3 DEF SlotVerify, Goto
<1> QED
  BY <1>2, <1>3, <1>4

LEMMA SafeRollback ==
  ASSUME TypeOK, OneActive, VBInv, UpdateRollbackIndex
  PROVE  VBInv'
<1> DEFINE n == RollbackIndex(This)
           d == [DevInfo EXCEPT !.rollback = n]
<1>0. /\ pc = "rollback" /\ DevInfo \in DevInfoRecord /\ stored \in DevInfoRecord
      /\ Lasting /\ RamAhead /\ UNCHANGED <<image, earned, history, eioOs>>
      /\ earned \in Nat /\ Current \in Slot /\ This = image[Current]
  BY CurrentFacts, DeviceInfoAssumption
  DEF TypeOK, UpdateRollbackIndex, VBInv, ghosts, This
<1>1. /\ d \in DevInfoRecord /\ d.magic = DevInfo.magic /\ d.unlocked = DevInfo.unlocked
      /\ d.key = DevInfo.key /\ d.rollback = n /\ d.digest = DevInfo.digest
      /\ n \in Nat /\ DevInfo.rollback \in Nat /\ stored.rollback \in Nat
      /\ This.index \in Nat
  <2>1. n \in 0 .. MaxIndex /\ This \in Image
    BY WrittenType, CurrentFacts
  <2> HIDE DEF n
  <2>2. n \in Nat /\ DevInfo.rollback \in Nat /\ stored.rollback \in Nat
        /\ This.index \in Nat
    BY <1>0, <2>1, DeviceInfoAssumption DEF DevInfoRecord, Image
  <2> QED
    BY <1>0, <2>1, <2>2, RecordFacts
<1>2. n = DevInfo.rollback => d = DevInfo
  BY <1>0 DEF DevInfoRecord
<1>3. n # DevInfo.rollback =>
        /\ ~DevInfo.unlocked /\ n = This.index /\ DevInfo.rollback < n
        /\ Slots!Bootable(attr, Current) /\ ~Slots!OnTrial(attr, Current) /\ n <= earned
  BY <1>0, <1>1 DEF RollbackIndex, Lasting, Slots!Bootable, Slots!OnTrial
<1>4. \/ /\ IF d = DevInfo THEN UNCHANGED dev ELSE Save(d)
         /\ pc' = "state" /\ UNCHANGED attr
      \/ d # DevInfo /\ SaveFails(d) /\ Out
  BY DEF UpdateRollbackIndex, Goto
<1> HIDE DEF d, n
<1>5. CASE UNCHANGED dev /\ pc' = "state" /\ UNCHANGED attr
  <2>1. Lasting' /\ RamAhead'
    BY <1>0, <1>5, DownUnchanged, QuietStep
  <2>2. StillGood'
    BY <1>0, <1>5, Unchanged DEF VBInv, StillGood, KeyIsTrusted, IsUserKey, dev
  <2> QED
    BY <1>5, <2>1, <2>2 DEF VBInv, RunsCurrent, FreedIsLost, ColourTrue
<1>6. CASE d # DevInfo /\ Save(d) /\ pc' = "state" /\ UNCHANGED attr
  <2>0. DevInfo' = d /\ stored' = d /\ Down
    BY <1>6, DownUnchanged DEF Save, WriteDevInfo
  <2>1. FallbackKept'
    BY <1>0, <1>2, <1>3, <1>6, <2>0, FallbackDown DEF Lasting
  <2>2. Lasting'
    BY <1>0, <1>1, <1>2, <1>3, <1>6, <2>0, <2>1 DEF Lasting, RamAhead
  <2>3. RamAhead'
    <3>1. n >= n /\ n <= earned'
      BY <1>0, <1>1, <1>2, <1>3, <1>6
    <3> QED
      BY <1>0, <1>1, <2>0, <3>1 DEF RamAhead
  <2>4. StillGood'
    <3>1. This' = This /\ This.index >= n
      BY <1>0, <1>1, <1>2, <1>3, <1>6, Unchanged
    <3>2. ~DevInfo.unlocked => KeyIsTrusted(This) /\ (This.off \/ This.intact)
      BY <1>0 DEF VBInv, StillGood
    <3> QED
      BY <1>1, <2>0, <3>1, <3>2 DEF StillGood, KeyIsTrusted, IsUserKey
  <2> QED
    BY <1>6, <2>2, <2>3, <2>4 DEF VBInv, RunsCurrent, FreedIsLost, ColourTrue
<1>7. CASE d # DevInfo /\ SaveFails(d) /\ Out
  <2>0. /\ DevInfo' = d /\ stored' = stored /\ unsaved' /\ Down
        /\ attr'[Current].unboot /\ pc' = "alternate"
    BY <1>7, DownGivenUp DEF SaveFails, WriteDevInfoFails, Out, Goto
  <2>1. FallbackKept'
    BY <1>0, <2>0, FallbackDown DEF Lasting
  <2>2. Lasting'
    BY <1>0, <2>0, <2>1 DEF Lasting, Down
  <2>3. RamAhead'
    <3>1. n >= stored.rollback /\ n <= earned' /\ ~d.unlocked
      BY <1>0, <1>1, <1>2, <1>3, <1>7 DEF RamAhead
    <3>2. attr'[Current'].unboot
      BY <2>0 DEF Down
    <3> QED
      BY <1>0, <1>1, <2>0, <3>1, <3>2 DEF RamAhead
  <2> QED
    BY <2>0, <2>2, <2>3, QuietSafe DEF VBInv
<1> QED
  BY <1>4, <1>5, <1>6, <1>7

LEMMA SafeStartLinux ==
  ASSUME TypeOK, OneActive, FreedRuns, VBInv, StartLinux
  PROVE  VBInv'
<1>0. /\ pc = "state" /\ UNCHANGED <<stored, image, earned, history, eioOs>>
      /\ Lasting /\ RamAhead /\ Current \in Slot /\ This = image[Current]
      /\ DevInfo \in DevInfoRecord /\ stored \in DevInfoRecord /\ This \in Image
  BY CurrentFacts DEF StartLinux, VBInv, This, TypeOK
<1>1. CASE Goto("hlos") /\ running' = Current /\ colour' = BootState(This)
           /\ UNCHANGED <<DevInfo, unsaved, reason, attr, loaded, mode, freed>>
  <2>1. Lasting' /\ RamAhead'
    BY <1>0, <1>1, DownUnchanged, QuietStep DEF dev
  <2>2. Current' = Current
    BY <1>1, DownUnchanged DEF Down
  <2>3. ColourTrue'
    <3>1. /\ image'[running'] = This /\ DevInfo' = DevInfo /\ stored' = stored
          /\ unsaved' = unsaved /\ colour' = BootState(This)
      BY <1>0, <1>1
    <3>2. Befits(colour', This, DevInfo)
      <4>1. CASE DevInfo.unlocked
        BY <3>1, <4>1 DEF BootState, Befits
      <4>2. CASE ~DevInfo.unlocked
        <5>1. /\ KeyIsTrusted(This) /\ This.index >= DevInfo.rollback
              /\ This.off \/ This.intact
          BY <1>0, <4>2 DEF VBInv, StillGood
        <5>2. This.key # None /\ This.key \in {OemKey, DevInfo.key}
          BY <5>1 DEF KeyIsTrusted, IsUserKey, OemKey, None
        <5>3. colour' = IF This.key = DevInfo.key THEN "YELLOW" ELSE "GREEN"
          BY <3>1, <4>2, <5>2 DEF BootState, IsUserKey
        <5> QED
          BY <4>2, <5>1, <5>2, <5>3 DEF Befits
      <4> QED
        BY <4>1, <4>2
    <3>3. ~unsaved => Befits(colour', This, stored)
      BY <1>0, <3>2 DEF RamAhead
    <3> QED
      BY <3>1, <3>2, <3>3 DEF ColourTrue, Befits
  <2>4. ~freed'
    BY <1>0, <1>1 DEF FreedRuns
  <2> QED
    BY <1>1, <2>1, <2>2, <2>3, <2>4
    DEF VBInv, RunsCurrent, StillGood, FreedIsLost, Goto
<1>2. CASE Out /\ UNCHANGED <<DevInfo, unsaved, reason, running, loaded, mode, freed>>
  <2>1. Lasting' /\ RamAhead'
    BY <1>0, <1>2, DownGivenUp, QuietStep DEF dev, Out
  <2> QED
    BY <1>2, <2>1, QuietSafe DEF VBInv, Out, Goto
<1>3. CASE GiveUp /\ UNCHANGED attr
  BY <1>0, <1>3, GiveUpSafe
<1> QED
  BY <1>1, <1>2, <1>3 DEF StartLinux

LEMMA FreedNext ==
  ASSUME FreedRuns, [Next]_vars
  PROVE  FreedRuns'
<1>1. CASE PowerOn \/ HandleReason \/ FindBootableSlot \/ SlotVerify \/ EarlyReturn
  BY <1>1
  DEF FreedRuns, PowerOn, HandleReason, FindBootableSlot, SlotVerify, EarlyReturn,
      GiveUp, Reset, ghosts
<1>2. CASE UpdateRollbackIndex \/ StartLinux \/ TryAlternateSlot
  BY <1>2
  DEF FreedRuns, UpdateRollbackIndex, StartLinux, TryAlternateSlot, GiveUp, Reset, Goto,
      ghosts
<1>3. CASE FastbootCommands
  BY <1>3
  DEF FreedRuns, FastbootCommands, SetDeviceUnlock, StoreUserKey, FlashSystem, CmdFlash,
      CmdSetActive, CmdContinue, Reset, ghosts
<1>4. CASE Environment
  BY <1>4
  DEF FreedRuns, Environment, MarkBootSuccessful, Update, Corruption, Leave, PowerLoss,
      Reset
<1>5. CASE UNCHANGED vars
  BY <1>5 DEF FreedRuns, vars, ghosts
<1> QED
  BY <1>1, <1>2, <1>3, <1>4, <1>5 DEF Next, Loader

LEMMA LostNext ==
  ASSUME TypeOK, OneActive, SlotIsLost, [Next]_vars
  PROVE  SlotIsLost'
<1>1. CASE PowerOn \/ HandleReason \/ EarlyReturn \/ TryAlternateSlot
  BY <1>1
  DEF SlotIsLost, PowerOn, HandleReason, EarlyReturn, TryAlternateSlot, GiveUp, Reset, Goto
<1>2. CASE FindBootableSlot \/ SlotVerify \/ UpdateRollbackIndex \/ StartLinux
  <2>1. pc' # "alternate" \/ attr' = Slots!GivenUp(attr, Current)
    BY <1>2
    DEF FindBootableSlot, SlotVerify, UpdateRollbackIndex, StartLinux, Out, Goto, GiveUp,
        Reset
  <2>2. CASE attr' = Slots!GivenUp(attr, Current)
    BY <2>2, DownGivenUp DEF Down, SlotIsLost
  <2> QED
    BY <2>1, <2>2 DEF SlotIsLost
<1>3. CASE FastbootCommands
  BY <1>3
  DEF SlotIsLost, FastbootCommands, SetDeviceUnlock, StoreUserKey, FlashSystem, CmdFlash,
      CmdSetActive, CmdContinue, Reset, Goto
<1>4. CASE Environment
  BY <1>4
  DEF SlotIsLost, Environment, MarkBootSuccessful, Update, Corruption, Leave, PowerLoss,
      Reset
<1>5. CASE UNCHANGED vars
  BY <1>5 DEF SlotIsLost, vars, slots, Current
<1> QED
  BY <1>1, <1>2, <1>3, <1>4, <1>5 DEF Next, Loader

LEMMA SafeAlternate ==
  ASSUME TypeOK, OneActive, SlotIsLost, VBInv, TryAlternateSlot
  PROVE  VBInv'
<1>0. /\ pc = "alternate" /\ UNCHANGED <<stored, image, earned, history, eioOs>>
      /\ Lasting /\ RamAhead /\ Current \in Slot /\ Slots!Alt(Current) \in Slot
  BY CurrentFacts, SlotFacts DEF TryAlternateSlot, VBInv
<1>1. CASE /\ Slots!Bootable(attr, Slots!Alt(Current)) /\ Reset("normal")
           /\ attr' = Slots!Switched(attr, Slots!Alt(Current), FALSE)
  <2>1. /\ Current' = Slots!Alt(Current) /\ attr'[Current'].succ
        /\ attr'[Slots!Alt(Current)].succ = attr[Slots!Alt(Current)].succ
        /\ attr'[Current].succ = attr[Current].succ
    BY <1>0, <1>1, SwitchedNext, SlotFacts DEF Slots!Bootable
  <2>2. FallbackKept'
    BY <2>1 DEF FallbackKept, Slots!OnTrial
  <2>3. \A s \in Slot : attr'[s].succ = attr[s].succ
    BY <1>0, <2>1, SlotFacts
  <2>4. Lasting'
    BY <1>0, <2>2, <2>3 DEF Lasting
  <2> QED
    BY <1>1, <2>4, ResetSafe
<1>2. CASE GiveUp /\ UNCHANGED attr
  BY <1>0, <1>2, GiveUpSafe
<1>3. CASE /\ Goto("hlos") /\ running' = Current /\ freed' = TRUE
           /\ UNCHANGED <<DevInfo, unsaved, reason, boot>> /\ UNCHANGED attr
           /\ ~Slots!Bootable(attr, Slots!Alt(Current)) /\ attr[Current].unboot
  <2>1. Lasting' /\ RamAhead'
    BY <1>0, <1>3, DownUnchanged, QuietStep DEF dev
  <2>2. Current' = Current
    BY <1>3, DownUnchanged DEF Down
  <2> QED
    BY <1>3, <2>1, <2>2 DEF VBInv, RunsCurrent, StillGood, FreedIsLost, ColourTrue, Goto
<1>4. attr[Current].unboot
  BY <1>0 DEF SlotIsLost
<1> QED
  BY <1>1, <1>2, <1>3, <1>4 DEF TryAlternateSlot

LEMMA SafeFastboot ==
  ASSUME TypeOK, OneActive, TypeOK', OneActive', VBInv, FastbootCommands
  PROVE  VBInv'
<1>0. /\ pc = "fastboot" /\ Lasting /\ RamAhead
      /\ DevInfo \in DevInfoRecord /\ image \in [Slot -> Images]
      /\ earned \in Nat /\ earned <= MaxIndex /\ MaxIndex \in Nat
  <2>1. pc = "fastboot"
    BY DEF FastbootCommands, SetDeviceUnlock, StoreUserKey, FlashSystem, CmdFlash,
           CmdSetActive, CmdContinue
  <2>2. earned \in 0 .. MaxIndex /\ MaxIndex \in Nat
    BY DeviceInfoAssumption DEF TypeOK
  <2> QED
    BY <2>1, <2>2 DEF VBInv, TypeOK
<1>1. CASE SetDeviceUnlock
  <2> DEFINE d == WithLock(DevInfo, "unlock", ~DevInfo.unlocked)
  <2>0. (~DevInfo.unlocked) \in BOOLEAN
    OBVIOUS
  <2>1. /\ d.magic = DevInfo.magic /\ d.rollback = DevInfo.rollback
        /\ d.digest = DevInfo.digest
    BY <1>0, <2>0, RecordFacts
  <2>2. /\ stored' \in {d, stored, DevInfo} /\ history' = "unlocked"
        /\ UNCHANGED <<attr, image, earned, eioOs>>
    BY <1>1
    DEF SetDeviceUnlock, Save, SaveFails, WriteDevInfo, WriteDevInfoFails
  <2>3. \/ Reset("normal")
        \/ /\ pc' = "fastboot" /\ DevInfo' \in {DevInfo, d}
           /\ stored' \in {d, DevInfo'} \/ stored' = stored
           /\ ~unsaved' => DevInfo' = stored'
    BY <1>0, <1>1
    DEF SetDeviceUnlock, Save, SaveFails, WriteDevInfo, WriteDevInfoFails
  <2> HIDE DEF d
  <2>4. Lasting'
    BY <1>0, <2>1, <2>2 DEF Lasting, RamAhead, FallbackKept
  <2>5. CASE Reset("normal")
    BY <2>4, <2>5, ResetSafe
  <2>6. CASE /\ pc' = "fastboot" /\ DevInfo' \in {DevInfo, d}
             /\ ~unsaved' => DevInfo' = stored'
    <3>1. /\ DevInfo'.magic /\ stored'.magic
          /\ DevInfo'.rollback = DevInfo.rollback /\ DevInfo'.digest = DevInfo.digest
          /\ stored'.rollback \in {DevInfo.rollback, stored.rollback}
      BY <1>0, <2>1, <2>2, <2>6 DEF RamAhead
    <3>2. DevInfo.rollback \in Nat
      BY <1>0 DEF DevInfoRecord
    <3>3. RamAhead'
      BY <1>0, <2>2, <2>6, <3>1, <3>2 DEF RamAhead
    <3> QED
      BY <2>4, <2>6, <3>3, QuietSafe DEF VBInv
  <2> QED
    BY <2>3, <2>5, <2>6
<1>2. CASE StoreUserKey \/ FlashSystem
  <2>0. pc' = "fastboot" /\ UNCHANGED <<attr, image, earned, history, eioOs>>
    BY <1>0, <1>2 DEF StoreUserKey, FlashSystem, slots, ghosts
  <2>1. /\ DevInfo' \in DevInfoRecord /\ stored' \in {stored, DevInfo'}
        /\ DevInfo'.magic = DevInfo.magic /\ DevInfo'.unlocked = DevInfo.unlocked
        /\ DevInfo'.rollback = DevInfo.rollback
        /\ DevInfo'.digest = DevInfo.digest
        /\ ~unsaved' => DevInfo' = stored'
    <3>1. CASE StoreUserKey
      <4>1. PICK k \in Keys \cup {None} :
              /\ DevInfo' = [DevInfo EXCEPT !.key = k] /\ stored' \in {stored, DevInfo'}
              /\ ~unsaved' => DevInfo' = stored'
        BY <3>1 DEF StoreUserKey, Save, SaveFails, WriteDevInfo, WriteDevInfoFails
      <4>2. LET e == [DevInfo EXCEPT !.key = k]
            IN  /\ e \in DevInfoRecord /\ e.magic = DevInfo.magic
                /\ e.unlocked = DevInfo.unlocked
                /\ e.rollback = DevInfo.rollback /\ e.digest = DevInfo.digest
        BY <1>0, RecordFacts
      <4> QED
        BY <4>1, <4>2
    <3>2. CASE FlashSystem
      <4>1. \/ UNCHANGED dev
            \/ /\ DevInfo' = [DevInfo EXCEPT !.verity = TRUE]
               /\ stored' \in {stored, DevInfo'}
               /\ ~unsaved' => DevInfo' = stored'
        BY <3>2
        DEF FlashSystem, EnableEnforcingMode, Save, SaveFails, WriteDevInfo,
            WriteDevInfoFails
      <4>2. CASE UNCHANGED dev
        BY <1>0, <4>2 DEF dev, RamAhead
      <4>3. CASE /\ DevInfo' = [DevInfo EXCEPT !.verity = TRUE]
                 /\ stored' \in {stored, DevInfo'}
                 /\ ~unsaved' => DevInfo' = stored'
        BY <1>0, <4>3, RecordFacts
      <4> QED
        BY <4>1, <4>2, <4>3
    <3> QED
      BY <1>2, <3>1, <3>2
  <2>2. eioOs' # None => stored'.digest = eioOs' /\ DevInfo'.digest = eioOs'
    BY <1>0, <2>0, <2>1 DEF Lasting, RamAhead
  <2>3. Down
    BY <2>0, DownUnchanged
  <2>4. Lasting' /\ RamAhead'
    BY <1>0, <2>0, <2>1, <2>2, <2>3, RamStep
  <2> QED
    BY <2>0, <2>4, QuietSafe DEF VBInv
<1>3. CASE CmdFlash
  <2>0. pc' = "fastboot" /\ DevInfo.unlocked /\ UNCHANGED <<dev, history, eioOs>>
    BY <1>0, <1>3 DEF CmdFlash
  <2>1. PICK s \in Slot, i \in Images :
          /\ image' = [image EXCEPT ![s] = i]
          /\ \/ attr' = Slots!Renewed(attr, s) /\ UNCHANGED earned
             \/ /\ UNCHANGED attr
                /\ earned' = IF attr[s].succ THEN MaxIndex ELSE earned
    BY <1>3 DEF CmdFlash
  <2>2. i.index \in Nat /\ i.index <= MaxIndex
        /\ \A t \in Slot : image'[t] = IF t = s THEN i ELSE image[t]
    BY <1>0, <2>1, VerifiedBootAssumption DEF Image
  <2>3. /\ earned' >= earned
        /\ \A t \in Slot : attr'[t].succ => image'[t].index <= earned'
    <3>1. CASE attr' = Slots!Renewed(attr, s) /\ UNCHANGED earned
      BY <1>0, <2>2, <3>1, RenewedNext DEF Lasting
    <3>2. CASE /\ UNCHANGED attr
               /\ earned' = IF attr[s].succ THEN MaxIndex ELSE earned
      <4>1. \A t \in Slot : image[t].index \in Nat /\ image[t].index <= MaxIndex
        BY <1>0, VerifiedBootAssumption DEF Image
      <4> QED
        BY <1>0, <2>2, <3>2, <4>1 DEF Lasting
    <3> QED
      BY <2>1, <3>1, <3>2
  <2>4. Lasting' /\ RamAhead'
    BY <1>0, <2>0, <2>3, UnlockedStep
  <2> QED
    BY <2>0, <2>4, QuietSafe DEF VBInv
<1>4. CASE CmdSetActive \/ (CmdContinue /\ DevInfo.unlocked)
  <2>0. /\ pc' \in {"fastboot", "find"} /\ DevInfo.unlocked
        /\ UNCHANGED <<dev, history, eioOs, image, earned>>
    BY <1>0, <1>4 DEF CmdSetActive, CmdContinue, Goto, ghosts
  <2>1. \A t \in Slot : attr'[t].succ => attr[t].succ
    <3>1. CASE \E s \in Slot : attr' = Slots!Switched(attr, s, TRUE)
      <4>1. PICK s \in Slot : attr' = Slots!Switched(attr, s, TRUE)
        BY <3>1
      <4>2. ~attr'[s].succ /\ attr'[Slots!Alt(s)].succ = attr[Slots!Alt(s)].succ
        BY <4>1, SwitchedNext
      <4> QED
        BY <4>2, SlotFacts
    <3>2. CASE UNCHANGED attr \/ attr' = Slots!Pardoned(attr, Current)
      BY <3>2, PardonedNext
    <3> QED
      BY <1>4, <3>1, <3>2 DEF CmdSetActive, CmdContinue
  <2>2. Lasting' /\ RamAhead'
    BY <1>0, <2>0, <2>1, UnlockedStep DEF Lasting
  <2> QED
    BY <2>0, <2>2, QuietSafe DEF VBInv
<1>5. CASE CmdContinue /\ ~DevInfo.unlocked
  <2>0. pc' = "find" /\ UNCHANGED <<attr, dev, image, earned, history, eioOs>>
    BY <1>5 DEF CmdContinue, Goto, ghosts
  <2>1. Lasting' /\ RamAhead'
    BY <1>0, <2>0, DownUnchanged, QuietStep
  <2> QED
    BY <2>0, <2>1, QuietSafe DEF VBInv
<1> QED
  BY <1>1, <1>2, <1>3, <1>4, <1>5 DEF FastbootCommands

LEMMA SafeEnvironment ==
  ASSUME TypeOK, OneActive, TypeOK', VBInv, Environment
  PROVE  VBInv'
<1>0. Lasting /\ image \in [Slot -> Images] /\ RunsCurrent /\ Current \in Slot
      /\ earned \in 0 .. MaxIndex /\ MaxIndex \in Nat
      /\ stored \in DevInfoRecord /\ DevInfo \in DevInfoRecord
  BY CurrentFacts, DeviceInfoAssumption DEF VBInv, TypeOK
<1>1. CASE MarkBootSuccessful
  <2>0. /\ pc = "hlos" /\ pc' = "hlos" /\ ~freed /\ ~freed' /\ RamAhead
        /\ UNCHANGED <<DevInfo, stored, unsaved, running, image, history, eioOs, colour>>
    BY <1>1 DEF MarkBootSuccessful, VBInv, dev, boot
  <2>1. /\ Current' = Current /\ Current = running /\ running \in Slot
        /\ attr'[running].succ /\ attr'[running].unboot = attr[running].unboot
        /\ \A t \in Slot \ {running} : attr'[t] = attr[t]
    BY <1>0, <1>1, SucceededNext
  <2>2. earned \in Nat /\ earned' \in Nat /\ \A t \in Slot : image[t].index \in Nat
    BY <1>0, VerifiedBootAssumption DEF TypeOK, Image
  <2>3. earned' >= earned /\ image[running].index <= earned'
    BY <1>1, <2>1, <2>2 DEF MarkBootSuccessful, MaxOf
  <2>4. FallbackKept'
    BY <2>1 DEF FallbackKept, Slots!OnTrial
  <2>5. DevInfo.rollback \in Nat /\ stored.rollback \in Nat
    BY <1>0 DEF DevInfoRecord
  <2>6. Lasting'
    <3>1. stored.rollback <= earned' /\ \A t \in Slot : attr'[t].succ => image[t].index <= earned'
      BY <1>0, <2>1, <2>2, <2>3, <2>5 DEF Lasting
    <3> QED
      BY <1>0, <2>0, <2>4, <3>1 DEF Lasting
  <2>7. RamAhead'
    <3>1. DevInfo.rollback <= earned'
      BY <2>0, <2>2, <2>3, <2>5 DEF RamAhead
    <3> QED
      BY <2>0, <2>1, <3>1 DEF RamAhead
  <2>8. ColourTrue'
    BY <2>0 DEF VBInv, ColourTrue, Befits
  <2> QED
    BY <2>0, <2>1, <2>6, <2>7, <2>8 DEF VBInv, RunsCurrent, StillGood, FreedIsLost
<1>2. CASE Update
  <2>0. /\ pc = "hlos" /\ running = Current /\ running \in Slot
        /\ Slots!Alt(running) \in Slot /\ Slots!Alt(Slots!Alt(running)) = running
        /\ Slots!Alt(running) # running
        /\ UNCHANGED <<stored, earned, history, eioOs>>
    BY <1>0, <1>2, SlotFacts DEF Update, RunsCurrent
  <2>1. /\ Current' = Slots!Alt(running) /\ ~attr'[Slots!Alt(running)].succ
        /\ attr'[running].succ = attr[running].succ
        /\ attr'[running].unboot = attr[running].unboot
    BY <1>2, <2>0, SwitchedNext DEF Update
  <2>2. image'[running] = image[running]
    BY <1>0, <1>2, <2>0 DEF Update
  <2>3. Slots!Bootable(attr', running) /\ history = "locked"
          => image[running].index >= stored.rollback
    <3>1. image[running].index >= 0
      BY <1>0, <2>0, VerifiedBootAssumption DEF Image
    <3>2. ~attr[running].unboot => ~freed
      BY <2>0 DEF VBInv, FreedIsLost
    <3>3. ~freed /\ ~stored.unlocked /\ history = "locked"
            => image[running].index >= stored.rollback
      <4>1. RamAhead /\ ColourTrue
        BY <2>0 DEF VBInv
      <4>2. /\ image[running].index \in Nat /\ DevInfo.rollback \in Nat
            /\ stored.rollback \in Nat
        BY <1>0, <2>0, VerifiedBootAssumption DEF Image, DevInfoRecord
      <4> QED
        BY <2>0, <4>1, <4>2 DEF ColourTrue, Befits, RamAhead
    <3> QED
      BY <1>0, <2>1, <3>1, <3>2, <3>3 DEF Lasting, Slots!Bootable
  <2>4. FallbackKept'
    BY <2>0, <2>1, <2>2, <2>3 DEF FallbackKept
  <2>5. \A t \in Slot : attr'[t].succ => image'[t].index <= earned
    BY <1>0, <2>0, <2>1, <2>2, SlotFacts DEF Lasting
  <2>6. Lasting'
    BY <1>0, <2>0, <2>4, <2>5 DEF Lasting
  <2> QED
    BY <1>2, <2>6, ResetSafe DEF Update
<1>3. CASE Corruption \/ Leave \/ PowerLoss
  <2>1. /\ \E r \in Reasons : Reset(r)
        /\ UNCHANGED <<attr, stored, image, earned, history, eioOs>>
    BY <1>3 DEF Corruption, Leave, PowerLoss, Reasons
  <2> QED
    BY <1>0, <2>1, LastingSame, ResetSafe
<1> QED
  BY <1>1, <1>2, <1>3 DEF Environment

LEMMA SafeNext ==
  ASSUME TypeOK, OneActive, TypeOK', OneActive', FreedRuns, SlotIsLost, VBInv, [Next]_vars
  PROVE  VBInv'
<1>1. CASE Next
  BY <1>1, SafeStart, SafeVerify, SafeRollback, SafeStartLinux, SafeAlternate, SafeFastboot,
     SafeEnvironment
  DEF Next, Loader
<1>2. CASE UNCHANGED vars
  <2> USE <1>2 DEF vars, dev, slots, boot, ghosts
  <2>1. Lasting'
    BY LastingSame DEF VBInv
  <2>2. Current' = Current /\ This' = This
    BY Unchanged
  <2>3. pc' # "off" => RamAhead'
    BY <2>2 DEF VBInv, RamAhead
  <2>4. RunsCurrent' /\ StillGood' /\ FreedIsLost' /\ ColourTrue'
    BY <2>2
    DEF VBInv, RunsCurrent, StillGood, KeyIsTrusted, IsUserKey, FreedIsLost, ColourTrue,
        Befits
  <2> QED
    BY <2>1, <2>3, <2>4 DEF VBInv
<1> QED
  BY <1>1, <1>2

FullInv == TypeOK /\ OneActive /\ FreedRuns /\ SlotIsLost /\ VBInv

(* The inductive invariant of verified boot holds in every reachable       *)
(* state: exactly one slot is active, the record in RAM is the stored one  *)
(* unless the last write of it failed, and an image that was accepted      *)
(* stays acceptable until it is started.                                   *)
THEOREM Invariant == Spec => []FullInv
<1>1. Init => FullInv
  BY TypeInit, VBInit DEF FullInv, Init, FreedRuns, SlotIsLost
<1>2. FullInv /\ [Next]_vars => FullInv'
  <2> SUFFICES ASSUME FullInv, [Next]_vars PROVE FullInv'
    OBVIOUS
  <2>1. TypeOK' /\ OneActive'
    BY TypeNext DEF FullInv, VBInv
  <2>2. FreedRuns' /\ SlotIsLost'
    BY FreedNext, LostNext DEF FullInv
  <2>3. VBInv'
    BY <2>1, SafeNext DEF FullInv
  <2> QED
    BY <2>1, <2>2, <2>3 DEF FullInv
<1> QED
  BY <1>1, <1>2, PTL DEF Spec

(* Every variable of verified boot keeps its type: in particular there is  *)
(* always a current slot whose image can be verified.                      *)
THEOREM TypeCorrect == Spec => []TypeOK
<1>1. FullInv => TypeOK
  BY DEF FullInv
<1> QED
  BY <1>1, Invariant, PTL

(* The colour that Keymaster and the command line are told befits the      *)
(* image that runs by the record in RAM, whatever failed before, and by    *)
(* the stored one unless the last write of it failed; nothing is said of   *)
(* a kernel started from images already freed (LoadImageAndAuthVB2).       *)
THEOREM ColourIsTrue == Spec => []ColourTrue
<1>1. FullInv => ColourTrue
  BY DEF FullInv, VBInv
<1> QED
  BY <1>1, Invariant, PTL

(* No boot raises the stored rollback index above that of a system which   *)
(* ran and was marked successful (AvbWriteRollbackIndex,                   *)
(* avb_should_update_rollback).                                            *)
THEOREM RollbackIsEarned == Spec => []RollbackEarned
<1>1. FullInv => RollbackEarned
  BY DEF FullInv, VBInv, Lasting, RollbackEarned
<1> QED
  BY <1>1, Invariant, PTL

(* On a device that was never unlocked, the rollback index never rules out *)
(* the system to go back to while the new one is on trial.                 *)
THEOREM FallbackIsKept == Spec => []FallbackKept
<1>1. FullInv => FallbackKept
  BY DEF FullInv, VBInv, Lasting
<1> QED
  BY <1>1, Invariant, PTL

(* A system last verified in eio mode is not started in restart mode,      *)
(* whatever power losses and other failures come between the two boots     *)
(* (avb_manage_hashtree_error_mode).                                       *)
THEOREM EioModeSticks == Spec => EioSticks
<1>1. FullInv /\ [Next]_vars =>
        [pc = "verify" /\ pc' = "rollback" /\ mode' = "restart" => This.os # eioOs]_vars
  <2> SUFFICES ASSUME FullInv, Next, pc = "verify", pc' = "rollback", mode' = "restart",
                      This.os = eioOs
               PROVE  FALSE
    OBVIOUS
  <2>1. TypeOK /\ OneActive /\ RamAhead
    BY DEF FullInv, VBInv
  <2>2. This.os \in Digests
    BY <2>1, CurrentFacts DEF Image
  <2>3. DevInfo.digest = This.os
    BY <2>1, <2>2, DeviceInfoAssumption DEF RamAhead
  <2>4. SlotVerify
    BY DEF Next, Loader, PowerOn, HandleReason, FindBootableSlot, EarlyReturn,
           UpdateRollbackIndex, StartLinux, TryAlternateSlot, GiveUp, Reset, Goto,
           FastbootCommands, SetDeviceUnlock, StoreUserKey, FlashSystem, CmdFlash,
           CmdSetActive, CmdContinue, Environment, MarkBootSuccessful, Update,
           Corruption, Leave, PowerLoss
  <2>5. mode' = HashtreeErrorMode(This).mode
    BY <2>4 DEF SlotVerify, Out, Goto
  <2>6. HashtreeErrorMode(This).mode \in {None, "eio"}
    BY <2>3 DEF HashtreeErrorMode
  <2> QED
    BY <2>5, <2>6 DEF None
<1> QED
  BY <1>1, Invariant, PTL DEF Spec, EioSticks

=============================================================================
