------------------------ MODULE ABSlots_safety_proofs ------------------------
(***************************************************************************)
(* The safety properties of ABSlots for every layout of partitions, every  *)
(* number of power losses and every MaxRetry.  First what one pass of      *)
(* UpdatePartitionAttributes writes, then the invariants of GUIDs, of      *)
(* PtnEntries and its backup copy, and of the slot attributes.             *)
(***************************************************************************)
EXTENDS ABSlots_proofs

-----------------------------------------------------------------------------
(* One pass of UpdatePartitionAttributes.                                  *)

(* An entry that meets its own place on flash.                             *)
LEMMA StepAligned ==
  ASSUME NEW w, NEW m, NEW i \in Ptn, w.table \in Table, w.bak \in Table,
         mem \in Table, w.ptr = i,
         WritesGuid(m) \/ w.table[i].guid = mem[i].guid
  PROVE  /\ PassStep(w, i, m).table =
              [w.table EXCEPT ![i] =
                [guid |-> IF WritesGuid(m) THEN mem[i].guid ELSE w.table[i].guid,
                 attr |-> IF WritesAttr(m) THEN mem[i].attr ELSE w.table[i].attr]]
         /\ PassStep(w, i, m).bak =
              [w.bak EXCEPT ![i] =
                [guid |-> Remember(WritesGuid(m), w.table[i].guid, mem[i].guid,
                                   w.bak[i].guid),
                 attr |-> Remember(WritesAttr(m), w.table[i].attr, mem[i].attr,
                                   w.bak[i].attr)]]
         /\ PassStep(w, i, m).ptr = i + 1
<1> DEFINE e    == w.table[i]
           guid == IF WritesGuid(m) THEN mem[i].guid ELSE e.guid
           hit  == WritesAttr(m) /\ guid = mem[i].guid
           attr == IF hit THEN mem[i].attr ELSE e.attr
<1>1. hit = WritesAttr(m)
  <2>1. guid = mem[i].guid
    OBVIOUS
  <2> QED
    BY <2>1 DEF WritesAttr
<1>2. PassStep(w, i, m) =
       [table |-> [w.table EXCEPT ![i] = [guid |-> guid, attr |-> attr]],
        bak   |-> [w.bak EXCEPT ![i] =
                    [guid |-> Remember(WritesGuid(m), e.guid, mem[i].guid,
                                       w.bak[i].guid),
                     attr |-> Remember(hit, e.attr, mem[i].attr, w.bak[i].attr)]],
        ptr   |-> NextPtr(i, m, hit)]
  BY DEF PassStep
<1>3. NextPtr(i, m, hit) = i + 1
  BY <1>1 DEF NextPtr
<1> HIDE DEF hit
<1> QED
  BY <1>1, <1>2, <1>3

(* The walk writes each entry to its own place when the GUIDs agree: the   *)
(* pointer arrives at every entry of the LUN when the loop does.           *)
LEMMA WalkAligned ==
  ASSUME NEW t \in Table, NEW l, NEW m, mem \in Table, bak \in Table,
         Aligned(t, l, m)
  PROVE  SkewedPass(t, l, m) = AlignedPass(t, l, m)
<1> DEFINE w == Walk(t, l, m)
           a == AlignedPass(t, l, m)
           Seen(i, p) == p <= i /\ LunOf[p] = l
           Next1(i, q) == /\ i < q /\ LunOf[q] = l
                          /\ \A r \in Ptn : i < r /\ r < q => LunOf[r] # l
           Good(i) == /\ \A p \in Ptn :
                           /\ w[i].table[p] = IF Seen(i, p) THEN a.table[p] ELSE t[p]
                           /\ w[i].bak[p] = IF Seen(i, p) THEN a.bak[p] ELSE bak[p]
                      /\ \A q \in Ptn : Next1(i, q) => w[i].ptr = q
           S == {i \in Nat : i <= PartitionCount => Good(i)}
<1>0. PartitionCount \in Nat /\ Ptn = 1 .. PartitionCount
      /\ (\A p \in Ptn : LunOf[p] \in Int)
      /\ (\A p, q \in Ptn : p < q => LunOf[p] <= LunOf[q])
  BY BoundsAssumption, TableAssumption DEF Ptn, Luns
<1>T. \A i \in 0 .. PartitionCount : w[i].table \in Table /\ w[i].bak \in Table
  BY WalkType
<1>A. /\ \A p \in Ptn : LunOf[p] = l =>
           /\ a.table[p] = [guid |-> IF WritesGuid(m) THEN mem[p].guid ELSE t[p].guid,
                            attr |-> IF WritesAttr(m) THEN mem[p].attr ELSE t[p].attr]
           /\ a.bak[p] = [guid |-> Remember(WritesGuid(m), t[p].guid, mem[p].guid,
                                            bak[p].guid),
                          attr |-> Remember(WritesAttr(m), t[p].attr, mem[p].attr,
                                            bak[p].attr)]
      /\ \A p \in Ptn : LunOf[p] # l => a.table[p] = t[p] /\ a.bak[p] = bak[p]
  BY DEF AlignedPass
<1>B. a = [table |-> a.table, bak |-> a.bak] /\ a.table \in Table /\ a.bak \in Table
  <2>1. \A p \in Ptn : t[p] \in Entry /\ mem[p] \in Entry /\ bak[p] \in Entry
    BY DEF Table
  <2>2. a.table \in Table
    BY <2>1 DEF AlignedPass, Table, Entry
  <2>3. a.bak \in Table
    BY <2>1 DEF AlignedPass, Table, Entry, Remember
  <2>4. a = [table |-> a.table, bak |-> a.bak]
    BY DEF AlignedPass
  <2> QED
    BY <2>2, <2>3, <2>4
<1> HIDE DEF a
<1>1. 0 \in S
  <2>1. w[0] = WalkFrom(t, l)
    BY <1>0, WalkEquation
  <2>2. w[0].table = t /\ w[0].bak = bak /\ w[0].ptr = FirstIn(l)
    BY <2>1 DEF WalkFrom
  <2>3. \A p \in Ptn : ~Seen(0, p)
    BY <1>0
  <2>4. ASSUME NEW q \in Ptn, Next1(0, q) PROVE FirstIn(l) = q
    <3>1. FirstIn(l) <= q /\ LunOf[FirstIn(l)] = l
          /\ FirstIn(l) \in 1 .. PartitionCount + 1
      BY <2>4, FirstInLun
    <3>2. FirstIn(l) \in Ptn /\ 0 < FirstIn(l)
      BY <1>0, <3>1
    <3> QED
      BY <1>0, <2>4, <3>1, <3>2
  <2> HIDE DEF w, Seen, Next1
  <2> QED
    BY <2>2, <2>3, <2>4
<1>2. ASSUME NEW k \in Nat, k \in S PROVE k + 1 \in S
  <2> SUFFICES ASSUME k + 1 <= PartitionCount PROVE Good(k + 1)
    OBVIOUS
  <2>1. Good(k)
    BY <1>0, <1>2
  <2>2. k + 1 \in 1 .. PartitionCount /\ k + 1 \in Ptn /\ (k + 1) - 1 = k
        /\ k \in 0 .. PartitionCount
    BY <1>0 DEF Ptn
  <2>3. w[k + 1] = WalkNext(w[k], k + 1, l, m)
    BY <1>0, WalkStep, Zenon
  <2>T. w[k].table \in Table /\ w[k].bak \in Table
    BY <1>T, <2>2
  <2> HIDE DEF w
  <2>4. CASE LunOf[k + 1] # l
    <3>1. w[k + 1] = w[k]
      BY <2>3, <2>4 DEF WalkNext
    <3>2. \A p \in Ptn : Seen(k + 1, p) = Seen(k, p)
      BY <1>0, <2>2, <2>4
    <3>3. \A q \in Ptn : Next1(k + 1, q) => Next1(k, q)
      BY <1>0, <2>2, <2>4
    <3> HIDE DEF Seen, Next1
    <3> QED
      BY <2>1, <3>1, <3>2, <3>3
  <2>5. CASE LunOf[k + 1] = l
    <3>1. w[k + 1] = PassStep(w[k], k + 1, m)
      BY <2>3, <2>5 DEF WalkNext
    <3>2. w[k].ptr = k + 1
      <4>1. Next1(k, k + 1)
        BY <1>0, <2>2, <2>5
      <4> HIDE DEF Next1
      <4> QED
        BY <2>1, <2>2, <4>1
    <3>3. w[k].table[k + 1] = t[k + 1] /\ w[k].bak[k + 1] = bak[k + 1]
      <4>1. ~Seen(k, k + 1)
        OBVIOUS
      <4> HIDE DEF Seen
      <4> QED
        BY <2>1, <2>2, <4>1
    <3>4. WritesGuid(m) \/ w[k].table[k + 1].guid = mem[k + 1].guid
      BY <2>2, <2>5, <3>3 DEF Aligned
    <3>5. /\ w[k + 1].table = [w[k].table EXCEPT ![k + 1] = a.table[k + 1]]
          /\ w[k + 1].bak = [w[k].bak EXCEPT ![k + 1] = a.bak[k + 1]]
          /\ w[k + 1].ptr = (k + 1) + 1
      <4> DEFINE v == w[k]
                 i == k + 1
      <4>1. v.table \in Table /\ v.bak \in Table /\ v.ptr = i /\ i \in Ptn
            /\ (WritesGuid(m) \/ v.table[i].guid = mem[i].guid)
        BY <2>T, <2>2, <3>2, <3>4
      <4> HIDE DEF v, i
      <4>2. /\ PassStep(v, i, m).table =
                 [v.table EXCEPT ![i] =
                   [guid |-> IF WritesGuid(m) THEN mem[i].guid ELSE v.table[i].guid,
                    attr |-> IF WritesAttr(m) THEN mem[i].attr ELSE v.table[i].attr]]
            /\ PassStep(v, i, m).bak =
                 [v.bak EXCEPT ![i] =
                   [guid |-> Remember(WritesGuid(m), v.table[i].guid, mem[i].guid,
                                      v.bak[i].guid),
                    attr |-> Remember(WritesAttr(m), v.table[i].attr, mem[i].attr,
                                      v.bak[i].attr)]]
            /\ PassStep(v, i, m).ptr = i + 1
        BY <4>1, StepAligned
      <4>3. v.table[i] = t[i] /\ v.bak[i] = bak[i] /\ LunOf[i] = l
        BY <2>5, <3>3 DEF v, i
      <4>4. /\ PassStep(v, i, m).table = [v.table EXCEPT ![i] = a.table[i]]
            /\ PassStep(v, i, m).bak = [v.bak EXCEPT ![i] = a.bak[i]]
        <5>1. a.table[i] =
                [guid |-> IF WritesGuid(m) THEN mem[i].guid ELSE v.table[i].guid,
                 attr |-> IF WritesAttr(m) THEN mem[i].attr ELSE v.table[i].attr]
          BY <1>A, <4>1, <4>3
        <5>2. a.bak[i] =
                [guid |-> Remember(WritesGuid(m), v.table[i].guid, mem[i].guid,
                                   v.bak[i].guid),
                 attr |-> Remember(WritesAttr(m), v.table[i].attr, mem[i].attr,
                                   v.bak[i].attr)]
          BY <1>A, <4>1, <4>3
        <5> QED
          BY <4>2, <5>1, <5>2, Zenon
      <4> QED
        BY <3>1, <4>2, <4>4 DEF v, i
    <3>6. ASSUME NEW p \in Ptn
          PROVE  /\ w[k + 1].table[p] = IF Seen(k + 1, p) THEN a.table[p] ELSE t[p]
                 /\ w[k + 1].bak[p] = IF Seen(k + 1, p) THEN a.bak[p] ELSE bak[p]
      <4>1. CASE p = k + 1
        <5>1. Seen(k + 1, p)
          BY <2>5, <4>1
        <5> QED
          BY <2>T, <3>5, <4>1, <5>1 DEF Table
      <4>2. CASE p # k + 1
        <5>1. Seen(k + 1, p) = Seen(k, p)
          BY <1>0, <4>2
        <5>2. w[k + 1].table[p] = w[k].table[p] /\ w[k + 1].bak[p] = w[k].bak[p]
          BY <2>T, <3>5, <4>2 DEF Table
        <5> HIDE DEF Seen
        <5> QED
          BY <2>1, <5>1, <5>2
      <4> QED
        BY <4>1, <4>2
    <3>7. ASSUME NEW q \in Ptn, Next1(k + 1, q) PROVE w[k + 1].ptr = q
      <4>1. q \in Nat /\ k + 2 <= q
        BY <1>0, <3>7
      <4>2. k + 2 \in Ptn
        BY <1>0, <4>1
      <4>3. LunOf[k + 2] = l
        <5>1. k + 1 < k + 2 /\ (k + 2 < q \/ k + 2 = q)
          BY <4>1
        <5>2. LunOf[k + 1] <= LunOf[k + 2] /\ LunOf[k + 2] <= LunOf[q]
          BY <1>0, <2>2, <4>2, <5>1
        <5>3. LunOf[q] = l /\ LunOf[k + 2] \in Int /\ LunOf[k + 1] \in Int
          BY <1>0, <2>2, <3>7, <4>2
        <5> QED
          BY <2>5, <5>2, <5>3
      <4>4. q = k + 2
        BY <3>7, <4>1, <4>2, <4>3
      <4> QED
        BY <3>5, <4>4
    <3> HIDE DEF Seen, Next1
    <3> QED
      BY <3>6, <3>7
  <2> QED
    BY <2>4, <2>5
<1>3. Nat \subseteq S
  <2> HIDE DEF S
  <2> QED
    BY <1>1, <1>2, SetInduction
<1>4. Good(PartitionCount) /\ PartitionCount \in 0 .. PartitionCount
  BY <1>0, <1>3
<1>5. \A p \in Ptn : w[PartitionCount].table[p] = a.table[p]
                     /\ w[PartitionCount].bak[p] = a.bak[p]
  <2> HIDE DEF w
  <2> SUFFICES ASSUME NEW p \in Ptn
               PROVE  /\ w[PartitionCount].table[p] = a.table[p]
                      /\ w[PartitionCount].bak[p] = a.bak[p]
    OBVIOUS
  <2>1. Seen(PartitionCount, p) \/ LunOf[p] # l
    BY <1>0
  <2>2. LunOf[p] # l => a.table[p] = t[p] /\ a.bak[p] = bak[p]
    BY <1>A
  <2> QED
    BY <1>4, <2>1, <2>2
<1>6. w[PartitionCount].table = a.table /\ w[PartitionCount].bak = a.bak
  <2> HIDE DEF w
  <2> QED
    BY <1>B, <1>T, <1>4, <1>5 DEF Table
<1>7. SkewedPass(t, l, m) = [table |-> w[PartitionCount].table,
                             bak |-> w[PartitionCount].bak]
  BY DEF SkewedPass
<1> HIDE DEF w
<1> QED
  BY <1>B, <1>6, <1>7 DEF a

(* Whatever place an entry is compared with, an attribute update leaves    *)
(* every GUID on flash as it was, and PtnEntriesBak changes only where it  *)
(* differs from PtnEntries.                                                *)
LEMMA WalkKeeps ==
  ASSUME NEW t \in Table, NEW l, NEW m, mem \in Table, bak \in Table
  PROVE  /\ ~WritesGuid(m) => \A p \in Ptn :
              SkewedPass(t, l, m).table[p].guid = t[p].guid
         /\ (\A p \in Ptn : LunOf[p] = l => mem[p] = bak[p])
              => SkewedPass(t, l, m).bak = bak
<1> DEFINE w == Walk(t, l, m)
           synced == \A p \in Ptn : LunOf[p] = l => mem[p] = bak[p]
           Good(i) == /\ ~WritesGuid(m) => \A p \in Ptn : w[i].table[p].guid = t[p].guid
                      /\ synced => \A p \in Ptn : w[i].bak[p] = bak[p]
           S == {i \in Nat : i <= PartitionCount => Good(i)}
<1>0. PartitionCount \in Nat /\ Ptn = 1 .. PartitionCount
  BY BoundsAssumption DEF Ptn
<1>T. \A i \in 0 .. PartitionCount : w[i].table \in Table /\ w[i].bak \in Table
  BY WalkType
<1>1. 0 \in S
  <2>1. w[0] = WalkFrom(t, l)
    BY <1>0, WalkEquation
  <2>2. w[0].table = t /\ w[0].bak = bak
    BY <2>1 DEF WalkFrom
  <2> HIDE DEF w
  <2> QED
    BY <2>2
<1>2. ASSUME NEW k \in Nat, k \in S PROVE k + 1 \in S
  <2> SUFFICES ASSUME k + 1 <= PartitionCount PROVE Good(k + 1)
    OBVIOUS
  <2>1. Good(k)
    BY <1>0, <1>2
  <2>2. k + 1 \in 1 .. PartitionCount /\ k + 1 \in Ptn /\ (k + 1) - 1 = k
        /\ k \in 0 .. PartitionCount
    BY <1>0 DEF Ptn
  <2>3. w[k + 1] = WalkNext(w[k], k + 1, l, m)
    BY <1>0, WalkStep, Zenon
  <2>T. w[k].table \in Table /\ w[k].bak \in Table
    BY <1>T, <2>2
  <2> DEFINE v == w[k]
             i == k + 1
  <2>4. CASE LunOf[i] # l
    <3>1. w[i] = v
      BY <2>3, <2>4 DEF WalkNext
    <3> HIDE DEF w, synced
    <3> QED
      BY <2>1, <3>1
  <2>5. CASE LunOf[i] = l
    <3> DEFINE e    == v.table[v.ptr]
               guid == IF WritesGuid(m) THEN mem[i].guid ELSE e.guid
               hit  == WritesAttr(m) /\ guid = mem[i].guid
               attr == IF hit THEN mem[i].attr ELSE e.attr
               b    == [guid |-> Remember(WritesGuid(m), e.guid, mem[i].guid,
                                          v.bak[i].guid),
                        attr |-> Remember(hit, e.attr, mem[i].attr, v.bak[i].attr)]
    <3>1. w[i] = PassStep(v, i, m)
      BY <2>3, <2>5 DEF WalkNext
    <3> HIDE DEF w, v
    <3>2. PassStep(v, i, m) =
            [table |-> [v.table EXCEPT ![v.ptr] = [guid |-> guid, attr |-> attr]],
             bak   |-> [v.bak EXCEPT ![i] = b],
             ptr   |-> NextPtr(v.ptr, m, hit)]
      BY DEF PassStep
    <3>3. /\ w[i].table = [v.table EXCEPT ![v.ptr] = [guid |-> guid, attr |-> attr]]
          /\ w[i].bak = [v.bak EXCEPT ![i] = b]
      BY <3>1, <3>2
    <3>4. ASSUME ~WritesGuid(m), NEW p \in Ptn PROVE w[i].table[p].guid = t[p].guid
      <4>1. v.table[p].guid = t[p].guid /\ v.table \in Table
        BY <2>1, <2>T, <3>4 DEF v
      <4>2. CASE p = v.ptr
        BY <3>3, <3>4, <4>1, <4>2 DEF Table
      <4>3. CASE p # v.ptr
        BY <3>3, <4>1, <4>3 DEF Table
      <4> QED
        BY <4>2, <4>3
    <3>5. ASSUME synced, NEW p \in Ptn PROVE w[i].bak[p] = bak[p]
      <4>1. v.bak[p] = bak[p] /\ v.bak[i] = bak[i] /\ v.bak \in Table
        BY <2>1, <2>2, <2>T, <3>5 DEF v
      <4>2. mem[i] = bak[i] /\ bak[i] \in Entry
        BY <2>2, <2>5, <3>5 DEF Table
      <4>3. b = [guid |-> bak[i].guid, attr |-> bak[i].attr]
        BY <4>1, <4>2 DEF Remember
      <4>4. b = bak[i]
        BY <4>2, <4>3 DEF Entry
      <4>5. w[i].bak[p] = IF p = i THEN b ELSE v.bak[p]
        <5> HIDE DEF b
        <5> QED
          BY <3>3, <4>1 DEF Table
      <4> QED
        BY <4>1, <4>4, <4>5
    <3> HIDE DEF synced
    <3> QED
      BY <3>4, <3>5
  <2> QED
    BY <2>4, <2>5
<1>3. Nat \subseteq S
  <2> HIDE DEF S
  <2> QED
    BY <1>1, <1>2, SetInduction
<1>4. Good(PartitionCount) /\ PartitionCount \in 0 .. PartitionCount
  BY <1>0, <1>3
<1>5. SkewedPass(t, l, m).table = w[PartitionCount].table
      /\ SkewedPass(t, l, m).bak = w[PartitionCount].bak
  BY DEF SkewedPass
<1> HIDE DEF w
<1>6. synced => w[PartitionCount].bak = bak
  BY <1>T, <1>4 DEF Table
<1> QED
  BY <1>4, <1>5, <1>6

(* What a pass does to GUIDs, and to PtnEntriesBak where nothing is left   *)
(* to write.                                                               *)
LEMMA PassKeeps ==
  ASSUME NEW t \in Table, NEW l, NEW m, mem \in Table, bak \in Table
  PROVE  /\ \A p \in Ptn : Pass(t, l, m).table[p].guid =
              IF WritesGuid(m) /\ LunOf[p] = l THEN mem[p].guid ELSE t[p].guid
         /\ (\A p \in Ptn : LunOf[p] = l => mem[p] = bak[p])
              => Pass(t, l, m).bak = bak
<1>1. CASE Aligned(t, l, m)
  <2>1. Pass(t, l, m) = AlignedPass(t, l, m) /\ Pass(t, l, m) = SkewedPass(t, l, m)
    BY <1>1, WalkAligned DEF Pass
  <2>2. \A p \in Ptn : AlignedPass(t, l, m).table[p].guid =
          IF WritesGuid(m) /\ LunOf[p] = l THEN mem[p].guid ELSE t[p].guid
    BY DEF AlignedPass
  <2> QED
    BY <2>1, <2>2, WalkKeeps
<1>2. CASE ~Aligned(t, l, m)
  <2>1. ~WritesGuid(m)
    BY <1>2 DEF Aligned
  <2> QED
    BY <1>2, <2>1, WalkKeeps DEF Pass
<1> QED
  BY <1>1, <1>2

(* The loop over the entries of a LUN does what AlignedPass says, for      *)
(* every layout, whenever the GUIDs it meets are the ones in memory.       *)
THEOREM PassIsAligned == Spec => []PassAgrees
<1>1. TypeOK => PassAgrees
  <2> SUFFICES ASSUME TypeOK, Aligned(disk[iter], lun, mask)
               PROVE  SkewedPass(disk[iter], lun, mask)
                        = AlignedPass(disk[iter], lun, mask)
    BY DEF PassAgrees
  <2>1. disk[iter] \in Table /\ mem \in Table /\ bak \in Table
    BY DEF TypeOK, FlashOK, UpaOK
  <2> QED
    BY <2>1, WalkAligned
<1> QED
  BY <1>1, TypeCorrect, PTL

-----------------------------------------------------------------------------
(* What the operations leave of a table.                                   *)

SameGuids(t, u) == \A p \in Ptn : t[p].guid = u[p].guid
SameAttrs(t, u) == \A p \in Ptn : t[p].attr = u[p].attr

LEMMA SetBootKeeps ==
  ASSUME NEW t \in Table, NEW s, NEW a
  PROVE  /\ SameGuids(SetBoot(t, s, a), t)
         /\ DOMAIN SetBoot(t, s, a) = Ptn
         /\ \A p \in Ptn : SetBoot(t, s, a)[p].attr =
              IF p = BootPtn(s) THEN a ELSE t[p].attr
<1>1. \A p \in Ptn : t[p] \in Entry
  BY DEF Table
<1>2. \A p \in Ptn : SetBoot(t, s, a)[p] =
        IF p = BootPtn(s) THEN [t[p] EXCEPT !.attr = a] ELSE t[p]
  BY DEF SetBoot, Table
<1>3. DOMAIN SetBoot(t, s, a) = Ptn
  BY DEF SetBoot, Table
<1> QED
  BY <1>1, <1>2, <1>3 DEF SameGuids, Entry

LEMMA MarkKeeps ==
  ASSUME NEW t \in Table, NEW s
  PROVE  /\ SameGuids(MarkPtnActive(t, s), t)
         /\ \A p \in Ptn : MarkPtnActive(t, s)[p].attr =
              [t[p].attr EXCEPT !.active = (SlotOf[p] = s)]
<1> SUFFICES ASSUME NEW p \in Ptn
             PROVE  /\ MarkPtnActive(t, s)[p].guid = t[p].guid
                    /\ MarkPtnActive(t, s)[p].attr =
                         [t[p].attr EXCEPT !.active = (SlotOf[p] = s)]
  BY DEF SameGuids
<1>1. t[p] \in Entry
  BY DEF Table
<1>2. MarkPtnActive(t, s)[p] = [t[p] EXCEPT !.attr.active = (SlotOf[p] = s)]
  BY DEF MarkPtnActive
<1> QED
  BY <1>1, <1>2 DEF Entry

LEMMA ActivatedKeeps ==
  ASSUME NEW t \in Table, NEW s \in Slot, NEW r \in BOOLEAN
  PROVE  SameGuids(SlotActivated(t, s, r), t)
<1>1. BootAttr(t, s) \in Attr
  BY BootPtnType, BootAttrType
<1>2. SetBoot(t, s, NewSlotAttr(BootAttr(t, s), r)) \in Table
  BY <1>1, AttrType, SetBootType
<1> QED
  BY <1>2, SetBootKeeps DEF SlotActivated, SameGuids

LEMMA SwapKeeps ==
  ASSUME NEW t \in Table
  PROVE  /\ SameAttrs(SwapPtnGuids(t), t)
         /\ \A p \in Ptn : SwapPtnGuids(t)[p].guid =
              IF p \in Slotted THEN t[Twin(p)].guid ELSE t[p].guid
<1> SUFFICES ASSUME NEW p \in Ptn
             PROVE  /\ SwapPtnGuids(t)[p].attr = t[p].attr
                    /\ SwapPtnGuids(t)[p].guid =
                         IF p \in Slotted THEN t[Twin(p)].guid ELSE t[p].guid
  BY DEF SameAttrs
<1>1. t[p] \in Entry
  BY DEF Table
<1> QED
  BY <1>1 DEF SwapPtnGuids, Entry

LEMMA TwinTwin ==
  ASSUME NEW p \in Slotted
  PROVE  Twin(p) \in Slotted /\ Twin(Twin(p)) = p
<1>1. /\ Twin(p) \in Ptn /\ Base[Twin(p)] = Base[p]
      /\ SlotOf[Twin(p)] = Alt(SlotOf[p])
  BY TwinType
<1>2. Twin(p) \in Slotted
  BY <1>1, AltType DEF Slotted
<1>3. /\ Twin(Twin(p)) \in Ptn /\ Base[Twin(Twin(p))] = Base[Twin(p)]
      /\ SlotOf[Twin(Twin(p))] = Alt(SlotOf[Twin(p)])
  BY <1>2, TwinType
<1>4. p \in Ptn /\ SlotOf[p] \in Slot
  BY DEF Slotted
<1>5. Alt(Alt(SlotOf[p])) = SlotOf[p]
  BY <1>4 DEF Alt, Slot
<1> QED
  BY <1>1, <1>2, <1>3, <1>4, <1>5, TableAssumption

-----------------------------------------------------------------------------
(* GUIDs.  GuidsPaired speaks of the tables that are readable; the proof   *)
(* also needs it of the others, which a power loss leaves as they were,    *)
(* and of PtnEntries, from which the next table is written.  Once a        *)
(* callback has come between two exchanges nothing is claimed, and only a  *)
(* callback does that.                                                     *)

InLun(p, l) == LunOf[p] = l /\ LunOf[Twin(p)] = l

PairedOn(t, l, s) ==
  \A p \in Slotted : InLun(p, l) => t[p].guid = GuidOnSide(p, s)

Paired(t) == \A l \in Luns : \E s \in Slot : PairedOn(t, l, s)

PairedInv ==
  /\ caught => preempts # 0
  /\ ~caught => (\A c \in Copy : Paired(disk[c])) /\ Paired(mem)

LEMMA PairedSame ==
  ASSUME NEW t, NEW u, SameGuids(t, u), Paired(u)
  PROVE  Paired(t)
  BY DEF SameGuids, Paired, PairedOn, Slotted

LEMMA PairedSwap ==
  ASSUME NEW t \in Table, Paired(t)
  PROVE  Paired(SwapPtnGuids(t))
<1> SUFFICES ASSUME NEW l \in Luns
             PROVE  \E s \in Slot : PairedOn(SwapPtnGuids(t), l, s)
  BY DEF Paired
<1>1. PICK s \in Slot : PairedOn(t, l, s)
  BY DEF Paired
<1>2. Alt(s) \in Slot
  BY AltType
<1>3. ASSUME NEW p \in Slotted, InLun(p, l)
      PROVE  SwapPtnGuids(t)[p].guid = GuidOnSide(p, Alt(s))
  <2>1. Twin(p) \in Slotted /\ Twin(Twin(p)) = p /\ p \in Ptn
    BY TwinTwin DEF Slotted
  <2>2. InLun(Twin(p), l)
    BY <1>3, <2>1 DEF InLun
  <2>3. SwapPtnGuids(t)[p].guid = GuidOnSide(Twin(p), s)
    BY <1>1, <2>1, <2>2, SwapKeeps DEF PairedOn
  <2>4. Base[Twin(p)] = Base[p] /\ SlotOf[Twin(p)] = Alt(SlotOf[p])
        /\ SlotOf[p] \in Slot
    BY TwinType DEF Slotted
  <2>5. (Alt(SlotOf[p]) = s) <=> (SlotOf[p] = Alt(s))
    BY <2>4 DEF Alt, Slot
  <2> QED
    BY <2>3, <2>4, <2>5 DEF GuidOnSide
<1> QED
  BY <1>2, <1>3 DEF PairedOn

(* A pass over one LUN leaves the GUIDs of the table or puts those of      *)
(* memory in their place, LUN by LUN.                                      *)
LEMMA PairedPass ==
  ASSUME NEW t \in Table, NEW k, NEW m, mem \in Table, bak \in Table,
         Paired(t), Paired(mem)
  PROVE  Paired(Pass(t, k, m).table)
<1> SUFFICES ASSUME NEW l \in Luns
             PROVE  \E s \in Slot : PairedOn(Pass(t, k, m).table, l, s)
  BY DEF Paired
<1>1. \A p \in Ptn : Pass(t, k, m).table[p].guid =
        IF WritesGuid(m) /\ LunOf[p] = k THEN mem[p].guid ELSE t[p].guid
  BY PassKeeps
<1>2. CASE WritesGuid(m) /\ k = l
  <2>1. PICK s \in Slot : PairedOn(mem, l, s)
    BY DEF Paired
  <2>2. PairedOn(Pass(t, k, m).table, l, s)
    BY <1>1, <1>2, <2>1 DEF PairedOn, InLun, Slotted
  <2> QED
    BY <2>2
<1>3. CASE ~(WritesGuid(m) /\ k = l)
  <2>1. PICK s \in Slot : PairedOn(t, l, s)
    BY DEF Paired
  <2>2. PairedOn(Pass(t, k, m).table, l, s)
    BY <1>1, <1>3, <2>1 DEF PairedOn, InLun, Slotted
  <2> QED
    BY <2>2
<1> QED
  BY <1>2, <1>3

(* Away from SwitchPtnSlots a callback meets the GUIDs as they were.       *)
LEMMA UnfinishedKeeps ==
  ASSUME mem \in Table, pc # "sa_switch", NEW t \in Unfinished
  PROVE  SameGuids(t, mem)
<1>1. ASSUME NEW n, NEW r PROVE SameGuids(PartlyActivated(mem, n, r), mem)
  BY SetBootKeeps DEF PartlyActivated
<1>2. ASSUME t \in PartlyMarked(mem) PROVE SameGuids(t, mem)
  <2>1. PICK n : t = [p \in Ptn |-> IF p <= n THEN MarkPtnActive(mem, slot)[p] ELSE mem[p]]
    BY <1>2 DEF PartlyMarked
  <2>2. SameGuids(MarkPtnActive(mem, slot), mem)
    BY MarkKeeps
  <2> QED
    BY <2>1, <2>2 DEF SameGuids
<1>3. SameGuids(mem, mem)
  BY DEF SameGuids
<1>4. \/ \E n \in Slot : t = PartlyActivated(mem, n, TRUE)
      \/ t = PartlyActivated(mem, Alt(slot), FALSE)
      \/ t \in PartlyMarked(mem) \/ t = mem
  BY Zenon DEF Unfinished
<1> QED
  BY <1>1, <1>2, <1>3, <1>4

(* How the steps change PtnEntries: not at all, by attributes only, by the *)
(* exchange of the GUIDs, or by a power down, which loses it.  Only a      *)
(* callback finds the exchange half done.                                  *)
LEMMA MemShape ==
  ASSUME TypeInv, Next
  PROVE  \/ SameGuids(mem', mem)
         \/ mem' = SwapPtnGuids(mem)
         \/ mem' = disk'["primary"]
         \/ caught'
<1>0. mem \in Table
  BY DEF TypeInv, TypeOK
<1>1. ASSUME NEW s, NEW f, NEW k, HandleUnbootable(s, f, k)
      PROVE  SameGuids(mem', mem)
  <2>1. mem' = mem \/ mem' = SetBoot(mem, s, UnbootableAttr(BootAttr(mem, s)))
    BY <1>1 DEF HandleUnbootable, Goto, CallUpdate
  <2> QED
    BY <1>0, <2>1, SetBootKeeps DEF SameGuids
<1>2. ASSUME NEW c, NEW h, FindBootableSlot(c, h) PROVE SameGuids(mem', mem)
  <2>1. \/ mem' = mem
        \/ mem' = SetBoot(mem, ActiveSlot(mem),
                          RetryTaken(BootAttr(mem, ActiveSlot(mem))))
        \/ HandleUnbootable(ActiveSlot(mem), FALSE, "fastboot")
    BY <1>2 DEF FindBootableSlot, EnterFastboot, Goto, CallUpdate
  <2>2. CASE HandleUnbootable(ActiveSlot(mem), FALSE, "fastboot")
    BY <1>1, <2>2
  <2>3. CASE mem' = mem
    BY <2>3 DEF SameGuids
  <2>4. ASSUME NEW s, NEW a, mem' = SetBoot(mem, s, a) PROVE SameGuids(mem', mem)
    BY <1>0, <2>4, SetBootKeeps
  <2> QED
    BY <2>1, <2>2, <2>3, <2>4
<1>3. ASSUME NEW n \in Slot, NEW r \in BOOLEAN, NEW k, SetActiveSlot(n, r, k)
      PROVE  SameGuids(mem', mem)
  BY <1>0, <1>3, ActivatedKeeps DEF SetActiveSlot, CallUpdate
<1>4. CASE UpdateCopy \/ ReadFails \/ WriteFails \/ FlushFails \/ BootLinux
           \/ LaunchFastboot \/ MarkBootSuccessful \/ CmdSetActiveDone
           \/ SwitchBootLun \/ BootLinuxFails \/ CmdFlashPartition
  <2>1. mem' = mem
    BY <1>4 DEF UpdateCopy, ReadFails, WriteFails, FlushFails, BootLinux, CmdFlashPartition,
         LaunchFastboot, MarkBootSuccessful, CmdSetActiveDone, SwitchBootLun,
         BootLinuxFails, EnterFastboot, Goto, CallUpdate
  <2> QED
    BY <2>1 DEF SameGuids
<1>5. CASE ResetSystem \/ Reboot \/ PowerLoss \/ TornWrite
  BY <1>5 DEF ResetSystem, Reboot, PowerLoss, TornWrite, Crash, PowerDown, flash
<1>6. CASE PowerOn
  BY <1>6 DEF PowerOn
<1>7. CASE FindPtnActiveSlot
  <2>1. mem' = mem \/ mem' = SetBoot(mem, "_a", FirstBootAttr(BootAttr(mem, "_a")))
    BY <1>7 DEF FindPtnActiveSlot, CallUpdate, Goto
  <2> QED
    BY <1>0, <2>1, SetBootKeeps DEF SameGuids
<1>8. CASE TryAlternateSlot
  <2>1. mem' = mem \/ SetActiveSlot(Alt(slot), FALSE, "reset")
    BY <1>8 DEF TryAlternateSlot, EnterFastboot, Goto
  <2> QED
    BY <1>3, <2>1, AltType DEF SameGuids
<1>9. CASE SwitchPtnSlots
  BY <1>9 DEF SwitchPtnSlots, CallUpdate
<1>10. CASE MarkNewSlot \/ ValidateAndMark
  <2>1. mem' = mem \/ mem' = MarkPtnActive(mem, slot)
    BY <1>10 DEF MarkNewSlot, ValidateAndMark, CallUpdate, EnterFastboot, Goto
  <2> QED
    BY <1>0, <2>1, MarkKeeps DEF SameGuids
<1>11. CASE BootFromLoader \/ CmdContinue \/ CmdBootLoad
  BY <1>2, <1>11 DEF BootFromLoader, CmdContinue, CmdBootLoad
<1>12. CASE AuthFails \/ MenuAlternateSlot
  BY <1>1, <1>12 DEF AuthFails, MenuAlternateSlot
<1>13. CASE CmdSetActive
  BY <1>3, <1>13 DEF CmdSetActive
<1>14. CASE CmdBoot
  BY <1>0, <1>14, SetBootKeeps DEF CmdBoot, CallUpdate
<1>15. CASE FlashBoot
  BY <1>0, <1>15, SetBootKeeps DEF FlashBoot, CallUpdate
<1>16. CASE MenuPreempts
  <2>1. mem' \in Unfinished /\ caught' = (caught \/ (pc = "sa_switch"
                                    /\ mem' \notin {mem, SwapPtnGuids(mem)}))
    BY <1>16 DEF MenuPreempts
  <2>2. CASE pc = "sa_switch"
    <3>1. CASE mem' \in {mem, SwapPtnGuids(mem)}
      BY <3>1 DEF SameGuids
    <3>2. CASE mem' \notin {mem, SwapPtnGuids(mem)}
      BY <2>1, <2>2, <3>2
    <3> QED
      BY <3>1, <3>2
  <2>3. CASE pc # "sa_switch"
    BY <1>0, <2>1, <2>3, UnfinishedKeeps
  <2> QED
    BY <2>2, <2>3
<1> QED
  BY <1>4, <1>5, <1>6, <1>7, <1>8, <1>9, <1>10, <1>11, <1>12, <1>13, <1>14, <1>15, <1>16
  DEF Next, Loader, Commands, Environment

(* The steps that write to flash.                                          *)
LEMMA DiskShape ==
  ASSUME Next, disk' # disk
  PROVE  UpdateCopy \/ FlushFails \/ PowerOn \/ MarkBootSuccessful
  BY DEF Next, Loader, Commands, Environment, flash, ReadFails, WriteFails, BootLinux,
         LaunchFastboot, CmdSetActiveDone, SwitchBootLun, BootLinuxFails, ResetSystem,
         Reboot, PowerLoss, TornWrite, Crash, FindPtnActiveSlot, TryAlternateSlot,
         SwitchPtnSlots, MarkNewSlot, ValidateAndMark, BootFromLoader, CmdContinue,
         CmdBootLoad, FindBootableSlot, AuthFails, MenuAlternateSlot, MenuPreempts,
         CmdSetActive, CmdBoot, FlashBoot, CmdFlashPartition

LEMMA CaughtShape ==
  ASSUME Next
  PROVE  caught' = caught \/ MenuPreempts
  BY DEF Next, Loader, Commands, Environment, ghost, UpdateCopy, ReadFails, WriteFails,
     FlushFails, Fault, BootLinux, LaunchFastboot, CmdSetActiveDone, SwitchBootLun,
     BootLinuxFails, ResetSystem, Reboot, PowerLoss, TornWrite, Crash, PowerOn,
     FindPtnActiveSlot, TryAlternateSlot, SwitchPtnSlots, SetBootLun, MarkNewSlot,
     ValidateAndMark, BootFromLoader, CmdContinue, CmdBootLoad, FindBootableSlot,
     AuthFails, MenuAlternateSlot, CmdSetActive, CmdBoot, FlashBoot,
     CmdFlashPartition, MarkBootSuccessful

LEMMA PreemptsShape ==
  ASSUME TypeInv, Next
  PROVE  (preempts' = preempts /\ ~MenuPreempts) \/ preempts' = preempts + 1
<1>1. preempts \in Nat
  BY DEF TypeInv, TypeOK, GhostOK
<1> QED
  BY <1>1 DEF Next, Loader, Commands, Environment, UpdateCopy, ReadFails, WriteFails,
     FlushFails, Fault, BootLinux, LaunchFastboot, CmdSetActiveDone, SwitchBootLun,
     BootLinuxFails, ResetSystem, Reboot, PowerLoss, TornWrite, Crash, PowerOn,
     FindPtnActiveSlot, TryAlternateSlot, SwitchPtnSlots, SetBootLun, MarkNewSlot,
     ValidateAndMark, BootFromLoader, CmdContinue, CmdBootLoad, FindBootableSlot,
     AuthFails, MenuAlternateSlot, MenuPreempts, CmdSetActive, CmdBoot, FlashBoot,
     CmdFlashPartition, MarkBootSuccessful, ghost

LEMMA PairedNext ==
  ASSUME TypeInv, PairedInv, Next
  PROVE  PairedInv'
<1>A. caught' => preempts' # 0
  <2>1. preempts \in Nat /\ (preempts' = preempts \/ preempts' = preempts + 1)
    BY PreemptsShape DEF TypeInv, TypeOK, GhostOK
  <2>2. MenuPreempts => preempts' = preempts + 1
    BY DEF MenuPreempts
  <2>3. caught => preempts # 0
    BY DEF PairedInv
  <2>4. CASE MenuPreempts
    BY <2>1, <2>2, <2>4
  <2>5. CASE caught' = caught
    <3>1. caught' => caught
      BY <2>5, Zenon
    <3> QED
      BY <2>1, <2>3, <3>1
  <2> QED
    BY <2>4, <2>5, CaughtShape
<1>B. SUFFICES ASSUME ~caught' PROVE (\A c \in Copy : Paired(disk'[c])) /\ Paired(mem')
  BY <1>A DEF PairedInv, Paired, PairedOn, InLun, GuidOnSide
<1>C. ~caught
  BY <1>B, CaughtShape DEF MenuPreempts
<1>D. (\A c \in Copy : Paired(disk[c])) /\ Paired(mem)
  BY <1>C DEF PairedInv
<1>0. /\ mem \in Table /\ bak \in Table /\ iter \in Copy
      /\ \A c \in Copy : disk[c] \in Table
  BY DEF TypeInv, TypeOK, FlashOK, UpaOK
<1>1. \A c \in Copy : Paired(disk'[c])
  <2>1. CASE disk' = disk
    BY <1>D, <2>1
  <2>2. CASE UpdateCopy \/ FlushFails
    <3>1. disk' = [disk EXCEPT ![iter] = ThisPass.table]
      BY <2>2 DEF UpdateCopy, FlushFails
    <3>2. Paired(ThisPass.table)
      BY <1>0, <1>D, PairedPass DEF ThisPass
    <3>3. \A c \in Copy : disk'[c] = ThisPass.table \/ disk'[c] = disk[c]
      BY <1>0, <3>1 DEF TypeInv, TypeOK, FlashOK
    <3> QED
      BY <1>D, <3>2, <3>3
  <2>3. CASE PowerOn
    <3> SUFFICES ASSUME NEW c \in Copy, NEW l \in Luns
                 PROVE  \E s \in Slot : PairedOn(disk'[c], l, s)
      BY DEF Paired
    <3>1. Other(c) \in Copy
      BY DEF Other, Copy
    <3> DEFINE d == IF valid[c][l] THEN c ELSE Other(c)
    <3>2. PICK s \in Slot : PairedOn(disk[d], l, s)
      BY <1>D, <3>1 DEF Paired
    <3>3. \A p \in Slotted : LunOf[p] = l => disk'[c][p] = disk[d][p]
      BY <2>3 DEF PowerOn, Slotted
    <3>4. PairedOn(disk'[c], l, s)
      BY <3>2, <3>3 DEF PairedOn, InLun
    <3> QED
      BY <3>4
  <2>4. CASE MarkBootSuccessful
    <3> SUFFICES ASSUME NEW c \in Copy PROVE Paired(disk'[c])
      OBVIOUS
    <3>1. SameGuids(disk'[c], disk[c])
      BY <1>0, <2>4, SetBootKeeps DEF MarkBootSuccessful
    <3> QED
      BY <1>D, <3>1, PairedSame
  <2> QED
    BY <2>1, <2>2, <2>3, <2>4, DiskShape
<1>2. Paired(mem')
  <2>1. CASE SameGuids(mem', mem)
    BY <1>D, <2>1, PairedSame
  <2>2. CASE mem' = SwapPtnGuids(mem)
    BY <1>0, <1>D, <2>2, PairedSwap
  <2>3. CASE mem' = disk'["primary"]
    BY <1>1, <2>3 DEF Copy
  <2> QED
    BY <1>B, <2>1, <2>2, <2>3, MemShape
<1> QED
  BY <1>1, <1>2

LEMMA PairedInit == Init => PairedInv
<1> SUFFICES ASSUME Init PROVE PairedInv
  OBVIOUS
<1>1. Paired(FactoryTable)
  <2>1. "_a" \in Slot
    BY DEF Slot
  <2>2. \A p \in Slotted : FactoryTable[p].guid = GuidOnSide(p, "_a")
    BY DEF FactoryTable, Slotted, GuidOnSide, Slot
  <2> QED
    BY <2>1, <2>2 DEF Paired, PairedOn
<1> QED
  BY <1>1 DEF Init, PairedInv

LEMMA PairedAlways == Spec => [](TypeInv /\ PairedInv)
<1>1. Init => TypeInv /\ PairedInv
  BY TypeInit, PairedInit
<1>2. TypeInv /\ PairedInv /\ [Next]_vars => (TypeInv /\ PairedInv)'
  <2>1. ASSUME PairedInv, UNCHANGED vars PROVE PairedInv'
    BY <2>1 DEF vars, flash, ghost, PairedInv, Paired, PairedOn, InLun, GuidOnSide
  <2> QED
    BY <2>1, TypeNext, PairedNext
<1> QED
  BY <1>1, <1>2, PTL DEF Spec

(* Whatever fails or is cut short, the GUIDs of all slot pairs of a LUN    *)
(* name one slot, in either copy of its table, unless a callback found     *)
(* SwitchPtnSlots between two of its exchanges: the table of a LUN is      *)
(* written at once, and an attribute update, skewed or not, writes no      *)
(* GUID.                                                                   *)
THEOREM GuidsStayPaired == Spec => []GuidsPaired
<1>1. TypeInv /\ PairedInv => GuidsPaired
  BY DEF PairedInv, Paired, PairedOn, InLun, GuidsPaired
<1> QED
  BY <1>1, PairedAlways, PTL

-----------------------------------------------------------------------------
(* PtnEntries and PtnEntriesBak.  A command that the menu's callback cut   *)
(* short has left PtnEntries half changed; that callback never returns but *)
(* ends in a reset, which reads the table anew.  ForceFlow says where it   *)
(* may be until then.                                                      *)

(* The boot loader is at k, or will be when the table is written.          *)
At(k) == pc = k \/ (pc = "upa" /\ ret = k)

ForceFlow ==
  force => \/ At("h_alt") \/ pc = "menu"
           \/ tail = "reset" /\ (At("sa_switch") \/ At("sa_mark") \/ At("reset"))

UpaMask == pc = "upa" => mask # "none"

SyncInv == PrimaryInSync /\ ForceFlow /\ UpaMask

Powered == ResetSystem \/ Reboot \/ PowerLoss \/ TornWrite
Updates == UpdateCopy \/ ReadFails \/ WriteFails \/ FlushFails

(* The steps between two updates.                                          *)
Program ==
  \/ FindPtnActiveSlot \/ LaunchFastboot \/ TryAlternateSlot
  \/ SwitchBootLun \/ SwitchPtnSlots \/ MarkNewSlot
  \/ BootFromLoader \/ ValidateAndMark
  \/ BootLinux \/ AuthFails \/ BootLinuxFails
  \/ CmdSetActive \/ CmdSetActiveDone \/ CmdContinue \/ CmdBoot \/ CmdBootLoad
  \/ FlashBoot \/ MenuAlternateSlot

LEMMA NextShape ==
  ASSUME Next
  PROVE  Powered \/ Updates \/ Program \/ MenuPreempts \/ PowerOn
         \/ MarkBootSuccessful \/ CmdFlashPartition
  BY DEF Next, Loader, Commands, Environment, Powered, Updates, Program

LEMMA PoweredShape ==
  ASSUME Powered
  PROVE  PowerDown /\ disk' = disk /\ UNCHANGED <<bootLun, lunSet>> /\ attempts' = attempts
         /\ UNCHANGED <<faults, preempts, restored>>
  BY DEF Powered, ResetSystem, Reboot, PowerLoss, TornWrite, Crash, flash, ghost

(* What an update of the fields in m may change of PtnEntries.             *)
Edit(m, t) ==
  \/ m = "attr" /\ SameGuids(t, mem)
  \/ m = "guid" /\ SameAttrs(t, mem)
  \/ m = "all" /\ t = mem

(* A program step only edits PtnEntries and calls for an update, or goes   *)
(* somewhere else.                                                         *)
Moves(k) ==
  \/ Goto(k)
  \/ \E m \in {"attr", "guid", "all"}, t \in Table : CallUpdate(m, t, k) /\ Edit(m, t)

LEMMA ProgramShape ==
  ASSUME TypeInv, Program
  PROVE  /\ pc \notin {"upa", "hlos", "off"} /\ UNCHANGED <<disk, bak>>
         /\ \E k \in Labels \ {"upa"} : Moves(k)
<1>0. TypeOK /\ mem \in Table
  BY DEF TypeInv, TypeOK
<1>L. {"loader", "fastboot", "h_alt", "sa_switch", "sa_mark", "validate", "load",
       "hlos", "stopped", "boot_cmd"} \subseteq Labels \ {"upa"}
  BY DEF Labels, Busy
<1>1. pc \notin {"upa", "hlos", "off"} /\ UNCHANGED <<disk, bak>>
  BY DEF Program, FindPtnActiveSlot, LaunchFastboot, TryAlternateSlot, SwitchBootLun,
         SwitchPtnSlots, MarkNewSlot, BootFromLoader, ValidateAndMark, BootLinux,
         AuthFails, BootLinuxFails, CmdSetActive, CmdSetActiveDone, CmdContinue,
         CmdBoot, CmdBootLoad, FlashBoot, MenuAlternateSlot, FindBootableSlot, flash
<1> SUFFICES \E k \in Labels \ {"upa"} : Moves(k)
  BY <1>1
<1>2. ASSUME NEW s, NEW a, NEW k \in Labels \ {"upa"},
             SetBoot(mem, s, a) \in Table, CallUpdate("attr", SetBoot(mem, s, a), k)
      PROVE  Moves(k)
  <2>1. Edit("attr", SetBoot(mem, s, a))
    BY <1>0, SetBootKeeps DEF Edit
  <2> QED
    BY <1>2, <2>1 DEF Moves
<1>3. ASSUME NEW s, NEW f, NEW k, HandleUnbootable(s, f, k) PROVE Moves("h_alt")
  <2> DEFINE a == UnbootableAttr(BootAttr(mem, s))
  <2>1. SetBoot(mem, s, a) \in Table
    BY <1>0, BootAttrType, AttrType, SetBootType
  <2>2. Goto("h_alt") \/ CallUpdate("attr", SetBoot(mem, s, a), "h_alt")
    BY <1>3 DEF HandleUnbootable
  <2> HIDE DEF a
  <2> QED
    BY <1>L, <1>2, <2>1, <2>2 DEF Moves
<1>4. ASSUME NEW n \in Slot, NEW r \in BOOLEAN, NEW k, SetActiveSlot(n, r, k)
      PROVE  Moves("sa_switch")
  <2>1. SlotActivated(mem, n, r) \in Table /\ Edit("attr", SlotActivated(mem, n, r))
    BY <1>0, SlotActivatedType, ActivatedKeeps DEF Edit
  <2> QED
    BY <1>4, <2>1 DEF SetActiveSlot, Moves
<1>5. ASSUME NEW c \in BOOLEAN, NEW h, FindBootableSlot(c, h)
      PROVE  \E k \in Labels \ {"upa"} : Moves(k)
  <2> DEFINE s == ActiveSlot(mem)
             a == RetryTaken(BootAttr(mem, s))
  <2>1. \/ Goto("fastboot") \/ Goto("validate")
        \/ BootAttr(mem, s).retry > 0 /\ CallUpdate("attr", SetBoot(mem, s, a), "validate")
        \/ HandleUnbootable(s, FALSE, "fastboot")
    BY <1>5 DEF FindBootableSlot, EnterFastboot
  <2>2. BootAttr(mem, s).retry > 0 => SetBoot(mem, s, a) \in Table
    BY <1>0, BootAttrType, AttrType, SetBootType
  <2> HIDE DEF a, s
  <2>3. CASE BootAttr(mem, s).retry > 0 /\ CallUpdate("attr", SetBoot(mem, s, a), "validate")
    BY <1>L, <1>2, <2>2, <2>3
  <2>4. CASE HandleUnbootable(s, FALSE, "fastboot")
    BY <1>L, <1>3, <2>4
  <2> QED
    BY <1>L, <2>1, <2>3, <2>4 DEF Moves
<1>6. CASE FindPtnActiveSlot
  <2> DEFINE a == FirstBootAttr(BootAttr(mem, "_a"))
  <2>1. SetBoot(mem, "_a", a) \in Table
    BY <1>0, BootAttrType, AttrType, SetBootType
  <2>2. Goto("loader") \/ CallUpdate("attr", SetBoot(mem, "_a", a), "loader")
    BY <1>6 DEF FindPtnActiveSlot
  <2> HIDE DEF a
  <2> QED
    BY <1>L, <1>2, <2>1, <2>2 DEF Moves
<1>7. CASE LaunchFastboot \/ BootLinux \/ BootLinuxFails
  BY <1>7, <1>L DEF LaunchFastboot, BootLinux, BootLinuxFails, EnterFastboot, Moves
<1>8. CASE TryAlternateSlot
  <2>1. Goto("fastboot") \/ Goto("stopped") \/ SetActiveSlot(Alt(slot), FALSE, "reset")
    BY <1>8 DEF TryAlternateSlot, EnterFastboot
  <2>2. CASE SetActiveSlot(Alt(slot), FALSE, "reset")
    BY <1>L, <1>4, <2>2, AltType
  <2> QED
    BY <1>L, <2>1, <2>2 DEF Moves
<1>9. CASE SwitchBootLun \/ MarkNewSlot
  <2>1. tail \in Labels \ {"upa"}
    BY <1>9 DEF SwitchBootLun, MarkNewSlot, TypeInv, InSetActive, TypeOK, OpOK,
                Labels, Busy
  <2>2. MarkPtnActive(mem, slot) \in Table /\ Edit("attr", MarkPtnActive(mem, slot))
    BY <1>0, MarkPtnActiveType, MarkKeeps DEF Edit
  <2>3. Goto(tail) \/ CallUpdate("attr", MarkPtnActive(mem, slot), tail)
    BY <1>9 DEF SwitchBootLun, MarkNewSlot
  <2> QED
    BY <2>1, <2>2, <2>3 DEF Moves
<1>10. CASE SwitchPtnSlots
  <2>1. SwapPtnGuids(mem) \in Table /\ Edit("guid", SwapPtnGuids(mem))
    BY <1>0, SwapPtnGuidsType, SwapKeeps DEF Edit
  <2>2. CallUpdate("guid", SwapPtnGuids(mem), "sa_mark")
    BY <1>10 DEF SwitchPtnSlots
  <2> QED
    BY <1>L, <2>1, <2>2 DEF Moves
<1>11. CASE ValidateAndMark
  <2>1. MarkPtnActive(mem, slot) \in Table /\ Edit("attr", MarkPtnActive(mem, slot))
    BY <1>0, MarkPtnActiveType, MarkKeeps DEF Edit
  <2>2. Goto("fastboot") \/ CallUpdate("attr", MarkPtnActive(mem, slot), "load")
    BY <1>11 DEF ValidateAndMark, EnterFastboot
  <2> QED
    BY <1>L, <2>1, <2>2 DEF Moves
<1>12. CASE BootFromLoader \/ CmdContinue \/ CmdBootLoad
  BY <1>5, <1>12 DEF BootFromLoader, CmdContinue, CmdBootLoad
<1>13. CASE AuthFails \/ MenuAlternateSlot
  BY <1>L, <1>3, <1>13 DEF AuthFails, MenuAlternateSlot
<1>14. CASE CmdSetActive
  BY <1>L, <1>4, <1>14 DEF CmdSetActive
<1>15. CASE CmdSetActiveDone
  <2>1. Edit("all", mem) /\ CallUpdate("all", mem, "fastboot")
    BY <1>15 DEF Edit, CmdSetActiveDone
  <2> QED
    BY <1>0, <1>L, <2>1 DEF Moves
<1>16. CASE CmdBoot
  <2> DEFINE s == ActiveSlot(mem)
             a == [BootAttr(mem, s) EXCEPT !.unboot = FALSE]
  <2>1. SetBoot(mem, s, a) \in Table
    BY <1>0, BootAttrType, AttrType, SetBootType
  <2>2. CallUpdate("attr", SetBoot(mem, s, a), "boot_cmd")
    BY <1>16 DEF CmdBoot
  <2> HIDE DEF a, s
  <2> QED
    BY <1>L, <1>2, <2>1, <2>2
<1>17. CASE FlashBoot
  <2>1. PICK s \in Slot :
          CallUpdate("attr", SetBoot(mem, s, FlashedAttr(BootAttr(mem, s))), "fastboot")
    BY <1>17 DEF FlashBoot
  <2> DEFINE a == FlashedAttr(BootAttr(mem, s))
  <2>2. SetBoot(mem, s, a) \in Table
    BY <1>0, BootAttrType, AttrType, SetBootType
  <2> HIDE DEF a
  <2> QED
    BY <1>L, <1>2, <2>1, <2>2 DEF a
<1> QED
  BY <1>6, <1>7, <1>8, <1>9, <1>10, <1>11, <1>12, <1>13, <1>14, <1>15, <1>16, <1>17
  DEF Program

(* A command that was cut short is not taken up again.                     *)
LEMMA ForceNext ==
  ASSUME TypeInv, ForceFlow, UpaMask, Next
  PROVE  /\ ForceFlow' /\ UpaMask'
         /\ force => force' \/ Powered
<1>1. CASE Powered
  <2>1. PowerDown
    BY <1>1, PoweredShape
  <2> QED
    BY <1>1, <2>1 DEF PowerDown, EndOp, Leave, ForceFlow, UpaMask
<1>2. CASE Updates
  <2>1. force' = force /\ tail' = tail /\ pc = "upa"
    BY <1>2 DEF Updates, UpdateCopy, ReadFails, WriteFails, FlushFails, op
  <2>2. \/ pc' = "upa" /\ ret' = ret /\ mask' = mask
        \/ pc' = ret /\ ret # "upa"
    BY <1>2 DEF Updates, UpdateCopy, ReadFails, WriteFails, FlushFails, ReturnUpdate,
                TypeInv, TypeOK, UpaOK
  <2> QED
    BY <2>1, <2>2 DEF ForceFlow, UpaMask, At
<1>3. CASE PowerOn \/ MarkBootSuccessful
  <2>1. force' = force /\ pc \in {"off", "hlos"} /\ pc' \in {"enumerated", "hlos"}
    BY <1>3 DEF PowerOn, MarkBootSuccessful, op
  <2> QED
    BY <2>1 DEF ForceFlow, UpaMask, At
<1>4. ASSUME NEW m, NEW t, NEW k, CallUpdate(m, t, k), k # "upa", m # "none"
      PROVE  At(k)' /\ UpaMask'
  BY <1>4 DEF CallUpdate, At, UpaMask
<1>5. ASSUME NEW k, Goto(k), k # "upa" PROVE At(k)' /\ UpaMask'
  BY <1>5 DEF Goto, At, UpaMask
<1>6. ASSUME NEW s, NEW f, NEW k, HandleUnbootable(s, f, k)
      PROVE  At("h_alt")' /\ UpaMask' /\ force' = f
  BY <1>4, <1>5, <1>6 DEF HandleUnbootable
<1>7. CASE MenuPreempts \/ CmdFlashPartition
  <2>1. CASE MenuPreempts
    BY <2>1 DEF MenuPreempts, ForceFlow, UpaMask
  <2>2. CASE CmdFlashPartition
    BY <2>2 DEF CmdFlashPartition, ForceFlow, UpaMask, At, upa, op
  <2> QED
    BY <1>7, <2>1, <2>2
<1>8. CASE Program
  <2>1. UpaMask'
    <3>1. PICK k \in Labels \ {"upa"} : Moves(k)
      BY <1>8, ProgramShape
    <3>2. CASE Goto(k)
      BY <1>5, <3>2
    <3>3. ASSUME NEW m \in {"attr", "guid", "all"}, NEW t \in Table, CallUpdate(m, t, k)
          PROVE  UpaMask'
      BY <1>4, <3>3
    <3> QED
      BY <3>1, <3>2, <3>3 DEF Moves
  <2>2. CASE SwitchBootLun \/ SwitchPtnSlots \/ MarkNewSlot
    <3>1. force' = force /\ tail' = tail /\ pc \in {"sa_switch", "sa_mark"}
      BY <2>2 DEF SwitchBootLun, SwitchPtnSlots, MarkNewSlot, op
    <3>2. force => tail = "reset"
      BY <3>1 DEF ForceFlow, At
    <3>3. force => At("sa_mark")' \/ At("reset")'
      BY <1>4, <1>5, <2>2, <3>2 DEF SwitchBootLun, SwitchPtnSlots, MarkNewSlot
    <3>4. ForceFlow'
      BY <3>1, <3>2, <3>3 DEF ForceFlow
    <3> QED
      BY <2>1, <3>1, <3>4
  <2>3. CASE TryAlternateSlot
    <3>1. CASE force
      <4>1. SetActiveSlot(Alt(slot), FALSE, "reset") /\ force' = force
        BY <2>3, <3>1 DEF TryAlternateSlot
      <4>2. tail' = "reset" /\ At("sa_switch")'
        BY <1>4, <4>1 DEF SetActiveSlot
      <4> QED
        BY <2>1, <3>1, <4>1, <4>2 DEF ForceFlow
    <3>2. CASE ~force
      <4>1. ~force'
        BY <2>3, <3>2 DEF TryAlternateSlot, EnterFastboot, EndOp, Leave
      <4> QED
        BY <2>1, <3>2, <4>1 DEF ForceFlow
    <3> QED
      BY <3>1, <3>2
  <2>4. CASE MenuAlternateSlot \/ AuthFails
    <3>1. AuthFails => pc = "load"
      BY <2>4 DEF AuthFails
    <3>2. force => force'
      <4>1. CASE MenuAlternateSlot
        <5>1. HandleUnbootable(ActiveSlot(mem), TRUE, "fastboot")
          BY <4>1 DEF MenuAlternateSlot
        <5>2. force' = TRUE
          BY <5>1 DEF HandleUnbootable
        <5> QED
          BY <5>2, Zenon
      <4>2. CASE AuthFails
        BY <3>1, <4>2 DEF ForceFlow, At
      <4> QED
        BY <2>4, <4>1, <4>2
    <3>3. ForceFlow'
      BY <1>6, <2>4 DEF MenuAlternateSlot, AuthFails, ForceFlow
    <3> QED
      BY <2>1, <3>2, <3>3
  <2>5. CASE ~(SwitchBootLun \/ SwitchPtnSlots \/ MarkNewSlot \/ TryAlternateSlot
               \/ MenuAlternateSlot \/ AuthFails)
    <3>1. pc \in {"enumerated", "loader", "validate", "load", "fastboot", "sa_done",
                  "boot_cmd"}
      BY <1>8, <2>5 DEF Program, FindPtnActiveSlot, LaunchFastboot, BootFromLoader,
           ValidateAndMark, BootLinux, BootLinuxFails, CmdSetActive, CmdSetActiveDone,
           CmdContinue, CmdBoot, CmdBootLoad, FlashBoot
    <3>2. ~force
      BY <3>1 DEF ForceFlow, At
    <3>3. force' = force \/ ~force'
      BY <1>8, <2>5 DEF Program, FindPtnActiveSlot, LaunchFastboot, BootFromLoader,
           ValidateAndMark, BootLinux, BootLinuxFails, CmdSetActive, CmdSetActiveDone,
           CmdContinue, CmdBoot, CmdBootLoad, FlashBoot, FindBootableSlot,
           HandleUnbootable, EnterFastboot, EndOp, Leave, op
    <3> QED
      BY <2>1, <3>2, <3>3 DEF ForceFlow
  <2> QED
    BY <2>2, <2>3, <2>4, <2>5
<1> QED
  BY <1>1, <1>2, <1>3, <1>7, <1>8, NextShape

(* What the environment has done is not undone.                            *)
LEMMA GhostGrows ==
  ASSUME TypeInv, Next
  PROVE  /\ faults' = 0 => faults = 0
         /\ preempts' = 0 => preempts = 0 /\ ~MenuPreempts
         /\ crashes' = 0 => crashes = 0 /\ ~PowerLoss /\ ~TornWrite
         /\ ~restored' => ~restored
<1>0. faults \in Nat /\ preempts \in Nat /\ crashes \in Nat /\ restored \in BOOLEAN
  BY DEF TypeInv, TypeOK, GhostOK
<1>1. faults' = faults \/ faults' = faults + 1
  BY DEF Next, Loader, Commands, Environment, UpdateCopy, ReadFails, WriteFails,
     FlushFails, Fault, BootLinux, LaunchFastboot, CmdSetActiveDone, SwitchBootLun,
     BootLinuxFails, ResetSystem, Reboot, PowerLoss, TornWrite, Crash, PowerOn,
     FindPtnActiveSlot, TryAlternateSlot, SwitchPtnSlots, SetBootLun, MarkNewSlot,
     ValidateAndMark, BootFromLoader, CmdContinue, CmdBootLoad, FindBootableSlot,
     AuthFails, MenuAlternateSlot, MenuPreempts, CmdSetActive, CmdBoot, FlashBoot,
     CmdFlashPartition, MarkBootSuccessful, ghost
<1>2. (preempts' = preempts /\ ~MenuPreempts) \/ preempts' = preempts + 1
  BY PreemptsShape
<1>3. (crashes' = crashes /\ ~PowerLoss /\ ~TornWrite) \/ crashes' = crashes + 1
  BY <1>0 DEF Next, Loader, Commands, Environment, UpdateCopy, ReadFails, WriteFails,
     FlushFails, Fault, BootLinux, LaunchFastboot, CmdSetActiveDone, SwitchBootLun,
     BootLinuxFails, ResetSystem, Reboot, PowerLoss, TornWrite, Crash, PowerOn,
     FindPtnActiveSlot, TryAlternateSlot, SwitchPtnSlots, SetBootLun, MarkNewSlot,
     ValidateAndMark, BootFromLoader, CmdContinue, CmdBootLoad, FindBootableSlot,
     AuthFails, MenuAlternateSlot, MenuPreempts, CmdSetActive, CmdBoot, FlashBoot,
     CmdFlashPartition, MarkBootSuccessful, ghost
<1>4. restored => restored'
  BY DEF Next, Loader, Commands, Environment, UpdateCopy, ReadFails, WriteFails,
     FlushFails, Fault, BootLinux, LaunchFastboot, CmdSetActiveDone, SwitchBootLun,
     BootLinuxFails, ResetSystem, Reboot, PowerLoss, TornWrite, Crash, PowerOn,
     FindPtnActiveSlot, TryAlternateSlot, SwitchPtnSlots, SetBootLun, MarkNewSlot,
     ValidateAndMark, BootFromLoader, CmdContinue, CmdBootLoad, FindBootableSlot,
     AuthFails, MenuAlternateSlot, MenuPreempts, CmdSetActive, CmdBoot, FlashBoot,
     CmdFlashPartition, MarkBootSuccessful, ghost
<1> QED
  BY <1>0, <1>1, <1>2, <1>3, <1>4

(* A state is clean again only after a power down.                         *)
LEMMA CleanBack ==
  ASSUME TypeInv, ForceFlow, UpaMask, Next, Clean', ~Powered
  PROVE  Clean /\ ~MenuPreempts
<1>1. faults = 0 /\ ~restored
  BY GhostGrows DEF Clean
<1>2. force => force'
  BY ForceNext
<1>3. preempts' = 0 => preempts = 0 /\ ~MenuPreempts
  BY GhostGrows
<1>4. MenuPreempts => force' /\ preempts' # 0
  <2>1. MenuPreempts => force'
    BY DEF MenuPreempts
  <2> QED
    BY <1>3, <2>1
<1> QED
  BY <1>1, <1>2, <1>3, <1>4 DEF Clean

(* In a clean update the pass over the primary table of a LUN puts the     *)
(* entries of memory there, in PtnEntriesBak too, and the pass over the    *)
(* backup leaves both alone.                                               *)
LEMMA CleanPass ==
  ASSUME TypeInv, SyncInv, Clean, pc = "upa"
  PROVE  /\ disk["primary"] \in Table
         /\ iter = "primary" =>
              /\ ThisPass.table \in Table
              /\ \A p \in Ptn : ThisPass.table[p] =
                   IF LunOf[p] = lun THEN mem[p] ELSE disk["primary"][p]
              /\ ThisPass.bak = ThisPass.table
         /\ iter = "backup" => ThisPass.bak = bak
<1>0. /\ mem \in Table /\ bak \in Table /\ iter \in Copy
      /\ \A c \in Copy : disk[c] \in Table
      /\ mask \in {"none", "attr", "guid", "all"}
  BY DEF TypeInv, TypeOK, FlashOK, UpaOK
<1>1. /\ bak = disk["primary"]
      /\ \A p \in Ptn : Done(p) => mem[p] = bak[p]
      /\ mask = "attr" => \A p \in Ptn : mem[p].guid = bak[p].guid
      /\ mask = "guid" => \A p \in Ptn : mem[p].attr = bak[p].attr
      /\ mask # "none"
  BY DEF SyncInv, PrimaryInSync, UpaMask
<1>2. disk["primary"] \in Table
  BY <1>0 DEF Copy
<1>3. ASSUME iter = "primary"
      PROVE  /\ ThisPass.table \in Table
             /\ \A p \in Ptn : ThisPass.table[p] =
                  IF LunOf[p] = lun THEN mem[p] ELSE disk["primary"][p]
             /\ ThisPass.bak = ThisPass.table
  <2>1. Aligned(bak, lun, mask)
    BY <1>0, <1>1 DEF Aligned, WritesGuid
  <2>2. ThisPass = AlignedPass(bak, lun, mask)
    BY <1>1, <1>3, <2>1 DEF ThisPass, Pass
  <2>3. ThisPass.table \in Table /\ ThisPass.bak \in Table
    BY <1>0, <1>1, <1>3, PassType DEF ThisPass
  <2>4. ASSUME NEW p \in Ptn
        PROVE  /\ ThisPass.table[p] = IF LunOf[p] = lun THEN mem[p] ELSE bak[p]
               /\ ThisPass.bak[p] = IF LunOf[p] = lun THEN mem[p] ELSE bak[p]
    <3>1. mem[p] \in Entry /\ bak[p] \in Entry
      BY <1>0 DEF Table
    <3>2. mem[p] = [guid |-> mem[p].guid, attr |-> mem[p].attr]
      BY <3>1 DEF Entry
    <3>3. CASE LunOf[p] # lun
      BY <2>2, <3>3 DEF AlignedPass
    <3>4. CASE LunOf[p] = lun
      <4>1. /\ WritesGuid(mask) \/ mem[p].guid = bak[p].guid
            /\ WritesAttr(mask) \/ mem[p].attr = bak[p].attr
        BY <1>0, <1>1 DEF WritesGuid, WritesAttr
      <4>2. ThisPass.table[p] =
              [guid |-> IF WritesGuid(mask) THEN mem[p].guid ELSE bak[p].guid,
               attr |-> IF WritesAttr(mask) THEN mem[p].attr ELSE bak[p].attr]
        BY <2>2, <3>4 DEF AlignedPass
      <4>3. ThisPass.bak[p] =
              [guid |-> Remember(WritesGuid(mask), bak[p].guid, mem[p].guid, bak[p].guid),
               attr |-> Remember(WritesAttr(mask), bak[p].attr, mem[p].attr, bak[p].attr)]
        BY <2>2, <3>4 DEF AlignedPass
      <4>4. ThisPass.table[p] = mem[p]
        BY <3>2, <4>1, <4>2
      <4>5. /\ Remember(WritesGuid(mask), bak[p].guid, mem[p].guid, bak[p].guid) = mem[p].guid
            /\ Remember(WritesAttr(mask), bak[p].attr, mem[p].attr, bak[p].attr) = mem[p].attr
        BY <4>1 DEF Remember
      <4> QED
        BY <3>2, <3>4, <4>3, <4>4, <4>5
    <3> QED
      BY <3>3, <3>4
  <2>5. ThisPass.bak = ThisPass.table
    BY <2>3, <2>4 DEF Table
  <2> QED
    BY <1>1, <2>3, <2>4, <2>5
<1>4. ASSUME iter = "backup" PROVE ThisPass.bak = bak
  <2>1. \A p \in Ptn : LunOf[p] = lun => mem[p] = bak[p]
    BY <1>1, <1>4 DEF Done
  <2> QED
    BY <1>0, <2>1, PassKeeps DEF ThisPass
<1> QED
  BY <1>2, <1>3, <1>4

LEMMA SyncNext ==
  ASSUME TypeInv, SyncInv, Next
  PROVE  SyncInv'
<1>0. /\ mem \in Table /\ bak \in Table /\ iter \in Copy
      /\ disk \in [Copy -> Table] /\ lun \in Luns /\ MaxLuns \in Nat \ {0}
      /\ \A p \in Ptn : LunOf[p] \in Luns
  BY BoundsAssumption, TableAssumption DEF TypeInv, TypeOK, FlashOK, UpaOK
<1>1. ForceFlow' /\ UpaMask'
  BY ForceNext DEF SyncInv
<1> SUFFICES ASSUME Clean', pc' # "hlos" PROVE PrimaryInSync'
  BY <1>1 DEF SyncInv, PrimaryInSync
<1>2. CASE Powered
  BY <1>2, PoweredShape DEF PowerDown, PrimaryInSync
<1>3. CASE PowerOn
  BY <1>3 DEF PowerOn, PrimaryInSync
<1>4. CASE ~Powered /\ ~PowerOn
  <2>1. Clean /\ ~MenuPreempts
    BY <1>4, CleanBack DEF SyncInv
  <2>2. CASE Updates
    <3>1. UpdateCopy /\ pc = "upa" /\ mem' = mem
      <4>1. faults' = faults /\ faults = 0
        BY <2>1 DEF Clean
      <4> QED
        BY <2>2, <4>1 DEF Updates, UpdateCopy, ReadFails, WriteFails, FlushFails, Fault
    <3>2. /\ bak = disk["primary"]
          /\ \A p \in Ptn : Done(p) => mem[p] = bak[p]
          /\ mask = "attr" => \A p \in Ptn : mem[p].guid = bak[p].guid
          /\ mask = "guid" => \A p \in Ptn : mem[p].attr = bak[p].attr
      BY <2>1, <3>1 DEF SyncInv, PrimaryInSync
    <3>3. disk' = [disk EXCEPT ![iter] = ThisPass.table] /\ bak' = ThisPass.bak
      BY <3>1 DEF UpdateCopy
    <3>4. CASE iter = "primary"
      <4>1. bak' = disk'["primary"] /\ bak' = ThisPass.table
        BY <1>0, <2>1, <3>1, <3>3, <3>4, CleanPass
      <4>2. \A p \in Ptn : bak'[p] = IF LunOf[p] = lun THEN mem[p] ELSE bak[p]
        BY <2>1, <3>1, <3>2, <3>4, <4>1, CleanPass
      <4>3. pc' = "upa" /\ mask' = mask /\ lun' = lun /\ iter' = "backup"
        BY <3>1, <3>4 DEF UpdateCopy
      <4>4. \A p \in Ptn : Done(p)' => Done(p) \/ LunOf[p] = lun
        BY <4>3 DEF Done
      <4>5. \A p \in Ptn : Done(p)' => mem'[p] = bak'[p]
        BY <3>1, <3>2, <4>2, <4>4
      <4>6. /\ mask' = "attr" => \A p \in Ptn : mem'[p].guid = bak'[p].guid
            /\ mask' = "guid" => \A p \in Ptn : mem'[p].attr = bak'[p].attr
        BY <3>1, <3>2, <4>2, <4>3
      <4> QED
        BY <4>1, <4>3, <4>5, <4>6 DEF PrimaryInSync
    <3>5. CASE iter = "backup"
      <4>1. bak' = bak /\ disk'["primary"] = disk["primary"]
        BY <1>0, <2>1, <3>1, <3>3, <3>5, CleanPass DEF Copy
      <4>2. CASE pc' = "upa" /\ mask' = mask /\ lun' = lun + 1 /\ iter' = "primary"
        <5>1. \A p \in Ptn : Done(p)' => Done(p)
          BY <1>0, <3>5, <4>2 DEF Done, Luns
        <5>2. \A p \in Ptn : Done(p)' => mem'[p] = bak'[p]
          BY <3>1, <3>2, <4>1, <5>1
        <5> QED
          BY <3>1, <3>2, <4>1, <4>2, <5>2 DEF PrimaryInSync
      <4>3. CASE lun = MaxLuns - 1 /\ ReturnUpdate
        <5>1. \A p \in Ptn : Done(p)
          BY <1>0, <3>5, <4>3 DEF Done, Luns
        <5>2. mem = bak
          BY <1>0, <3>2, <5>1 DEF Table
        <5>3. pc' # "upa"
          BY <4>3 DEF ReturnUpdate, TypeInv, TypeOK, UpaOK
        <5> QED
          BY <3>1, <3>2, <4>1, <5>2, <5>3 DEF PrimaryInSync
      <4> QED
        BY <3>1, <3>5, <4>2, <4>3 DEF UpdateCopy
    <3> QED
      BY <1>0, <3>4, <3>5 DEF Copy
  <2>3. CASE MarkBootSuccessful
    BY <2>3 DEF MarkBootSuccessful
  <2>5. CASE CmdFlashPartition
    <3>1. UNCHANGED <<disk, mem, bak, pc>> /\ pc = "fastboot"
      BY <2>5 DEF CmdFlashPartition
    <3> QED
      BY <2>1, <3>1 DEF SyncInv, PrimaryInSync
  <2>4. CASE Program
    <3>1. pc \notin {"upa", "hlos", "off"} /\ UNCHANGED <<disk, bak>>
      BY <2>4, ProgramShape
    <3>2. PICK k \in Labels \ {"upa"} : Moves(k)
      BY <2>4, ProgramShape
    <3>3. bak = disk["primary"] /\ mem = bak
      BY <2>1, <3>1 DEF SyncInv, PrimaryInSync
    <3>4. CASE pc' # "upa"
      <4>1. mem' = bak
        BY <3>2, <3>3, <3>4 DEF Moves, Goto, CallUpdate
      <4> QED
        BY <3>1, <3>3, <3>4, <4>1 DEF PrimaryInSync
    <3>5. CASE pc' = "upa"
      <4>1. PICK m \in {"attr", "guid", "all"}, t \in Table :
              CallUpdate(m, t, k) /\ Edit(m, t)
        BY <3>2, <3>5 DEF Moves, Goto
      <4>2. mem' = t /\ mask' = m /\ lun' = 0 /\ iter' = "primary"
        BY <3>5, <4>1 DEF CallUpdate
      <4>3. \A p \in Ptn : ~Done(p)'
        BY <1>0, <4>2 DEF Done, Luns
      <4>4. /\ m = "attr" => \A p \in Ptn : t[p].guid = mem[p].guid
            /\ m = "guid" => \A p \in Ptn : t[p].attr = mem[p].attr
        BY <4>1 DEF Edit, SameGuids, SameAttrs
      <4> QED
        BY <3>1, <3>3, <3>5, <4>2, <4>3, <4>4 DEF PrimaryInSync
    <3> QED
      BY <3>4, <3>5
  <2> QED
    BY <1>4, <2>1, <2>2, <2>3, <2>4, <2>5, NextShape
<1> QED
  BY <1>2, <1>3, <1>4

LEMMA SyncAlways == Spec => [](TypeInv /\ SyncInv)
<1>1. Init => TypeInv /\ SyncInv
  <2> SUFFICES ASSUME Init PROVE SyncInv
    BY TypeInit
  <2>1. disk["primary"] = FactoryTable
    BY DEF Init, Copy
  <2> QED
    BY <2>1 DEF Init, SyncInv, PrimaryInSync, ForceFlow, UpaMask
<1>2. TypeInv /\ SyncInv /\ [Next]_vars => (TypeInv /\ SyncInv)'
  <2>1. ASSUME SyncInv, UNCHANGED vars PROVE SyncInv'
    BY <2>1 DEF vars, flash, upa, op, ghost, SyncInv, PrimaryInSync, ForceFlow, UpaMask,
                Clean, Done, At
  <2> QED
    BY <2>1, TypeNext, SyncNext
<1> QED
  BY <1>1, <1>2, PTL DEF Spec

(* PtnEntriesBak is what the primary table on flash holds, so the early    *)
(* return of UpdatePartitionAttributes skips no write that is needed: for  *)
(* every layout, however often power is lost.                              *)
THEOREM PrimaryStaysInSync == Spec => []PrimaryInSync
<1>1. SyncInv => PrimaryInSync
  BY DEF SyncInv
<1> QED
  BY <1>1, SyncAlways, PTL

-----------------------------------------------------------------------------
(* The boot partitions.                                                    *)

LEMMA BootPtnFacts ==
  /\ \A s \in Slot :
       /\ BootPtn(s) \in Slotted /\ SlotOf[BootPtn(s)] = s /\ Base[BootPtn(s)] = "boot"
       /\ AblPtn(s) \in Slotted /\ SlotOf[AblPtn(s)] = s /\ Base[AblPtn(s)] = "abl"
  /\ BootPtn("_a") # BootPtn("_b")
  /\ \E l \in Luns : \A s \in Slot : LunOf[BootPtn(s)] = l /\ LunOf[AblPtn(s)] = l
<1>1. PICK l \in Luns : \A b \in {"boot", "abl"}, s \in Slot :
        \E p \in Ptn : IsPtn(p, b, s) /\ LunOf[p] = l
  BY TableAssumption
<1>2. ASSUME NEW s \in Slot
      PROVE  /\ IsPtn(BootPtn(s), "boot", s) /\ LunOf[BootPtn(s)] = l
             /\ IsPtn(AblPtn(s), "abl", s) /\ LunOf[AblPtn(s)] = l
  <2>1. PICK p \in Ptn : IsPtn(p, "boot", s) /\ LunOf[p] = l
    BY <1>1
  <2>2. PICK q \in Ptn : IsPtn(q, "abl", s) /\ LunOf[q] = l
    BY <1>1
  <2>3. IsPtn(BootPtn(s), "boot", s) /\ IsPtn(AblPtn(s), "abl", s)
    BY <2>1, <2>2 DEF BootPtn, BootPtns, AblPtn, AblPtns
  <2>4. BootPtn(s) = p /\ AblPtn(s) = q
    BY <2>1, <2>2, <2>3, TableAssumption DEF IsPtn
  <2> QED
    BY <2>1, <2>2, <2>3, <2>4
<1>3. "_a" \in Slot /\ "_b" \in Slot
  BY DEF Slot
<1> QED
  BY <1>2, <1>3 DEF IsPtn, Slotted

(* Two tables that agree on the partitions of the boot LUN that count.     *)
SameBoot(t, u) ==
  \A s \in Slot : t[BootPtn(s)] = u[BootPtn(s)] /\ t[AblPtn(s)] = u[AblPtn(s)]

(* The GUIDs of boot and abl are those of an active slot s.                *)
Sided(t, s) ==
  \A p \in Slotted : Base[p] \in {"boot", "abl"} => t[p].guid = GuidOnSide(p, s)

(* The attributes as SlotPolicy sees them.                                 *)
View(t) == [s \in Slot |-> BootAttr(t, s)]

(* The slot that the GUIDs should name.                                    *)
NamedSlot(t) == IF ActiveSlot(t) = NoSlot THEN "_a" ELSE ActiveSlot(t)

LEMMA NamedSlotType ==
  ASSUME NEW t
  PROVE  NamedSlot(t) \in Slot
  BY ActiveSlotType DEF NamedSlot, Slot

LEMMA FollowSided ==
  ASSUME NEW t
  PROVE  GuidsFollow(t) <=> Sided(t, NamedSlot(t))
  BY DEF GuidsFollow, Sided, NamedSlot

LEMMA SidedPtns ==
  ASSUME NEW p \in Slotted, Base[p] \in {"boot", "abl"}
  PROVE  p = BootPtn(SlotOf[p]) \/ p = AblPtn(SlotOf[p])
<1>1. p \in Ptn /\ SlotOf[p] \in Slot
  BY DEF Slotted
<1>2. BootPtn(SlotOf[p]) \in Ptn /\ AblPtn(SlotOf[p]) \in Ptn
  BY <1>1, BootPtnType
<1> QED
  BY <1>1, <1>2, BootPtnFacts, TableAssumption

LEMMA SameView ==
  ASSUME NEW t, NEW u, SameBoot(t, u)
  PROVE  /\ View(t) = View(u) /\ \A s \in Slot : BootAttr(t, s) = BootAttr(u, s)
         /\ ActiveSlot(t) = ActiveSlot(u) /\ NamedSlot(t) = NamedSlot(u)
         /\ Pristine(t) <=> Pristine(u)
         /\ \A s \in Slot : Sided(t, s) <=> Sided(u, s)
         /\ GuidsFollow(t) <=> GuidsFollow(u)
<1>0. "_a" \in Slot /\ "_b" \in Slot
  BY DEF Slot
<1>1. \A s \in Slot : BootAttr(t, s) = BootAttr(u, s)
  BY DEF SameBoot, BootAttr
<1>2. ActiveSlot(t) = ActiveSlot(u)
  BY <1>0, <1>1 DEF ActiveSlot
<1>3. \A p \in Slotted : Base[p] \in {"boot", "abl"} => t[p] = u[p]
  BY SidedPtns DEF SameBoot, Slotted
<1>4. \A s \in Slot : Sided(t, s) <=> Sided(u, s)
  BY <1>3 DEF Sided
<1> QED
  BY <1>0, <1>1, <1>2, <1>4, FollowSided, NamedSlotType DEF View, NamedSlot, Pristine

LEMMA SameViewActive ==
  ASSUME NEW t, NEW u, View(t) = View(u)
  PROVE  /\ \A s \in Slot : BootAttr(t, s) = BootAttr(u, s)
         /\ ActiveSlot(t) = ActiveSlot(u) /\ NamedSlot(t) = NamedSlot(u)
         /\ Pristine(t) <=> Pristine(u)
<1>0. "_a" \in Slot /\ "_b" \in Slot
  BY DEF Slot
<1>1. \A s \in Slot : BootAttr(t, s) = BootAttr(u, s)
  BY DEF View
<1> QED
  BY <1>0, <1>1 DEF ActiveSlot, NamedSlot, Pristine

LEMMA SidedSame ==
  ASSUME NEW t, NEW u, SameGuids(t, u), NEW s
  PROVE  Sided(t, s) <=> Sided(u, s)
  BY DEF Sided, SameGuids, Slotted

LEMMA SidedAlt ==
  ASSUME NEW t, Paired(t), NEW s \in Slot
  PROVE  Sided(t, Alt(s)) <=> ~Sided(t, s)
<1>1. PICK l \in Luns : \A r \in Slot : LunOf[BootPtn(r)] = l /\ LunOf[AblPtn(r)] = l
  BY BootPtnFacts
<1>2. PICK r \in Slot : PairedOn(t, l, r)
  BY DEF Paired
<1>3. ASSUME NEW p \in Slotted, Base[p] \in {"boot", "abl"} PROVE InLun(p, l)
  <2>1. Twin(p) \in Slotted /\ Base[Twin(p)] = Base[p] /\ p \in Slotted
    BY TwinTwin, TwinType
  <2>2. SlotOf[p] \in Slot /\ SlotOf[Twin(p)] \in Slot
    BY <2>1 DEF Slotted
  <2> QED
    BY <1>1, <1>3, <2>1, <2>2, SidedPtns DEF InLun
<1>4. Sided(t, r)
  BY <1>2, <1>3 DEF Sided, PairedOn
<1>5. ~Sided(t, Alt(r))
  <2>1. /\ BootPtn(r) \in Slotted /\ SlotOf[BootPtn(r)] = r /\ Base[BootPtn(r)] = "boot"
        /\ BootPtn(r) \in Ptn
    BY BootPtnFacts, BootPtnType
  <2>2. Base[BootPtn(r)] # Inactive /\ Alt(r) # r
    BY <2>1, TableAssumption DEF Alt, Slot
  <2> QED
    BY <1>4, <2>1, <2>2 DEF Sided, GuidOnSide
<1>6. r = s \/ (r = Alt(s) /\ Alt(r) = s)
  BY DEF Alt, Slot
<1> QED
  BY <1>4, <1>5, <1>6

LEMMA SidedSwap ==
  ASSUME NEW t \in Table, Paired(t), NEW s \in Slot
  PROVE  Sided(SwapPtnGuids(t), s) <=> ~Sided(t, s)
<1>1. ASSUME NEW r \in Slot, Sided(t, r) PROVE Sided(SwapPtnGuids(t), Alt(r))
  <2> SUFFICES ASSUME NEW p \in Slotted, Base[p] \in {"boot", "abl"}
               PROVE  SwapPtnGuids(t)[p].guid = GuidOnSide(p, Alt(r))
    BY DEF Sided
  <2>1. /\ Twin(p) \in Slotted /\ Base[Twin(p)] = Base[p] /\ p \in Ptn
        /\ SlotOf[Twin(p)] = Alt(SlotOf[p]) /\ SlotOf[p] \in Slot
    BY TwinTwin, TwinType DEF Slotted
  <2>2. SwapPtnGuids(t)[p].guid = GuidOnSide(Twin(p), r)
    BY <1>1, <2>1, SwapKeeps DEF Sided
  <2>3. (Alt(SlotOf[p]) = r) <=> (SlotOf[p] = Alt(r))
    BY <2>1 DEF Alt, Slot
  <2> QED
    BY <2>1, <2>2, <2>3 DEF GuidOnSide
<1>2. Paired(SwapPtnGuids(t))
  BY PairedSwap
<1>3. Alt(s) \in Slot /\ Alt(Alt(s)) = s
  BY DEF Alt, Slot
<1>4. CASE Sided(t, s)
  BY <1>1, <1>2, <1>4, SidedAlt
<1>5. CASE ~Sided(t, s)
  <2>1. Sided(t, Alt(s))
    BY <1>5, SidedAlt
  <2>2. Sided(SwapPtnGuids(t), Alt(Alt(s)))
    BY <1>1, <1>3, <2>1
  <2> QED
    BY <1>3, <1>5, <2>2
<1> QED
  BY <1>4, <1>5

-----------------------------------------------------------------------------
(* What the operations do to the attributes of the boot partitions, in the *)
(* terms of SlotPolicy.                                                    *)

OneActive(t) == ~(BootAttr(t, "_a").active /\ BootAttr(t, "_b").active)

LEMMA BootAttrs ==
  ASSUME NEW t \in Table, NEW s \in Slot
  PROVE  /\ BootAttr(t, s) \in Attr /\ View(t)[s] = BootAttr(t, s)
         /\ BootAttr(t, s).prio \in 0 .. 3 /\ BootAttr(t, s).active \in BOOLEAN
         /\ BootAttr(t, s).retry \in 0 .. MaxRetry
         /\ BootAttr(t, s).succ \in BOOLEAN /\ BootAttr(t, s).unboot \in BOOLEAN
<1>1. BootAttr(t, s) \in Attr
  BY BootPtnType, BootAttrType
<1> QED
  BY <1>1 DEF View, Attr

LEMMA ActiveFacts ==
  ASSUME NEW t \in Table
  PROVE  /\ ActiveSlot(t) \in Slot \cup {NoSlot}
         /\ \A s \in Slot : ActiveSlot(t) = s => BootAttr(t, s).active /\ BootAttr(t, s).prio > 0
         /\ ActiveSlot(t) = NoSlot =>
              \A s \in Slot : BootAttr(t, s).active => BootAttr(t, s).prio = 0
         /\ \A s \in Slot : BootAttr(t, s).active /\ BootAttr(t, s).prio > 0
                              /\ ~BootAttr(t, Alt(s)).active => ActiveSlot(t) = s
<1>1. /\ BootAttr(t, "_a").prio \in 0 .. 3 /\ BootAttr(t, "_a").active \in BOOLEAN
      /\ BootAttr(t, "_b").prio \in 0 .. 3 /\ BootAttr(t, "_b").active \in BOOLEAN
  BY BootAttrs DEF Slot
<1> DEFINE a == BootAttr(t, "_a")
           b == BootAttr(t, "_b")
<1>2. ActiveSlot(t) =
        IF (IF b.active THEN b.prio ELSE 0) > (IF a.active THEN a.prio ELSE 0) THEN "_b"
        ELSE IF (IF a.active THEN a.prio ELSE 0) > 0 THEN "_a" ELSE NoSlot
  BY DEF ActiveSlot
<1>3. \A s \in Slot : (s = "_a" /\ Alt(s) = "_b") \/ (s = "_b" /\ Alt(s) = "_a")
  BY DEF Slot, Alt
<1>4. "_a" \in Slot /\ "_b" \in Slot /\ NoSlot # "_a" /\ NoSlot # "_b"
  BY DEF Slot, NoSlot
<1>5. \A s \in Slot : ActiveSlot(t) = s => BootAttr(t, s).active /\ BootAttr(t, s).prio > 0
  BY <1>1, <1>2, <1>3, <1>4
<1>6. ActiveSlot(t) = NoSlot =>
              \A s \in Slot : BootAttr(t, s).active => BootAttr(t, s).prio = 0
  BY <1>1, <1>2, <1>3, <1>4
<1>7. \A s \in Slot : BootAttr(t, s).active /\ BootAttr(t, s).prio > 0
                              /\ ~BootAttr(t, Alt(s)).active => ActiveSlot(t) = s
  BY <1>1, <1>2, <1>3, <1>4
<1> QED
  BY <1>5, <1>6, <1>7, ActiveSlotType

(* GetActiveSlot is the ActiveSlot of the policy.                          *)
LEMMA PolicyActive ==
  ASSUME NEW t \in Table
  PROVE  Policy!ActiveSlot(View(t)) = ActiveSlot(t)
<1>1. /\ BootAttr(t, "_a").prio \in 0 .. 3 /\ BootAttr(t, "_a").active \in BOOLEAN
      /\ BootAttr(t, "_b").prio \in 0 .. 3 /\ BootAttr(t, "_b").active \in BOOLEAN
  BY BootAttrs DEF Slot
<1> DEFINE a == BootAttr(t, "_a")
           b == BootAttr(t, "_b")
           Best(s) == /\ View(t)[s].active /\ View(t)[s].prio > 0
                      /\ \A r \in {"_a", "_b"} \ {s} : View(t)[r].active =>
                           View(t)[r].prio < View(t)[s].prio
                           \/ (View(t)[r].prio = View(t)[s].prio /\ s = "_a")
<1>2. View(t)["_a"] = a /\ View(t)["_b"] = b
  BY DEF View, Slot
<1>3. ActiveSlot(t) =
        IF (IF b.active THEN b.prio ELSE 0) > (IF a.active THEN a.prio ELSE 0) THEN "_b"
        ELSE IF (IF a.active THEN a.prio ELSE 0) > 0 THEN "_a" ELSE NoSlot
  BY DEF ActiveSlot
<1>4. Policy!ActiveSlot(View(t)) =
        IF \E s \in {"_a", "_b"} : View(t)[s].active /\ View(t)[s].prio > 0
        THEN CHOOSE s \in {"_a", "_b"} : Best(s) ELSE NoSlot
  BY DEF Policy!ActiveSlot, Policy!Slot, Policy!NoSlot, NoSlot
<1> HIDE DEF a, b
<1>5. /\ Best("_a") <=> a.active /\ a.prio > 0 /\ (b.active => b.prio <= a.prio)
      /\ Best("_b") <=> b.active /\ b.prio > 0 /\ (a.active => a.prio < b.prio)
  <2>1. {"_a", "_b"} \ {"_a"} = {"_b"} /\ {"_a", "_b"} \ {"_b"} = {"_a"}
    OBVIOUS
  <2> QED
    BY <1>1, <1>2, <2>1 DEF a, b
<1> HIDE DEF Best
<1>6. CASE ~\E s \in {"_a", "_b"} : View(t)[s].active /\ View(t)[s].prio > 0
  BY <1>1, <1>2, <1>3, <1>4, <1>6 DEF a, b
<1>7. CASE \E s \in {"_a", "_b"} : View(t)[s].active /\ View(t)[s].prio > 0
  <2>1. Best("_a") \/ Best("_b")
    BY <1>1, <1>2, <1>5, <1>7 DEF a, b
  <2>2. ~(Best("_a") /\ Best("_b"))
    BY <1>1, <1>5 DEF a, b
  <2>3. Best("_a") => ActiveSlot(t) = "_a"
    BY <1>1, <1>3, <1>5 DEF a, b
  <2>4. Best("_b") => ActiveSlot(t) = "_b"
    BY <1>1, <1>3, <1>5 DEF a, b
  <2>5. PICK s \in {"_a", "_b"} : Best(s) /\ \A r \in {"_a", "_b"} : Best(r) => r = s
    BY <2>1, <2>2
  <2>6. (CHOOSE r \in {"_a", "_b"} : Best(r)) = s
    BY <2>5
  <2> QED
    BY <1>4, <1>7, <2>3, <2>4, <2>5, <2>6
<1> QED
  BY <1>6, <1>7

LEMMA ViewSet ==
  ASSUME NEW t \in Table, NEW s \in Slot, NEW a
  PROVE  /\ View(SetBoot(t, s, a)) = [View(t) EXCEPT ![s] = a]
         /\ \A r \in Slot : BootAttr(SetBoot(t, s, a), r) =
              IF r = s THEN a ELSE BootAttr(t, r)
<1>1. \A r \in Slot : BootPtn(r) \in Ptn
  BY BootPtnType
<1>2. \A r \in Slot : BootPtn(r) = BootPtn(s) => r = s
  BY BootPtnFacts DEF Slot
<1>3. \A r \in Slot : BootAttr(SetBoot(t, s, a), r) = IF r = s THEN a ELSE BootAttr(t, r)
  BY <1>1, <1>2, SetBootKeeps DEF BootAttr
<1> QED
  BY <1>3 DEF View

LEMMA MarkAttrs ==
  ASSUME NEW t \in Table, NEW s, NEW r \in Slot
  PROVE  BootAttr(MarkPtnActive(t, s), r) = [BootAttr(t, r) EXCEPT !.active = (r = s)]
<1>1. BootPtn(r) \in Ptn /\ SlotOf[BootPtn(r)] = r
  BY BootPtnType, BootPtnFacts
<1> QED
  BY <1>1, MarkKeeps DEF BootAttr

(* Marking the active slot's partitions leaves it the active slot, and     *)
(* leaves the boot partitions alone when no other one is marked.           *)
LEMMA ViewMark ==
  ASSUME NEW t \in Table, NEW s \in Slot, ActiveSlot(t) = s
  PROVE  /\ ActiveSlot(MarkPtnActive(t, s)) = s
         /\ BootAttr(MarkPtnActive(t, s), s).unboot = BootAttr(t, s).unboot
         /\ OneActive(t) => View(MarkPtnActive(t, s)) = View(t)
<1>1. MarkPtnActive(t, s) \in Table /\ Alt(s) \in Slot /\ Alt(s) # s
  BY MarkPtnActiveType DEF Alt, Slot
<1>2. /\ BootAttr(t, s) \in Attr /\ BootAttr(t, Alt(s)) \in Attr
      /\ BootAttr(t, s).active /\ BootAttr(t, s).prio > 0
      /\ BootAttr(t, s).active \in BOOLEAN /\ BootAttr(t, Alt(s)).active \in BOOLEAN
  BY <1>1, BootAttrs, ActiveFacts
<1>3. /\ BootAttr(MarkPtnActive(t, s), s) = [BootAttr(t, s) EXCEPT !.active = (s = s)]
      /\ BootAttr(MarkPtnActive(t, s), Alt(s)) =
           [BootAttr(t, Alt(s)) EXCEPT !.active = (Alt(s) = s)]
  BY <1>1, MarkAttrs
<1>4. /\ BootAttr(MarkPtnActive(t, s), s).active
      /\ BootAttr(MarkPtnActive(t, s), s).prio = BootAttr(t, s).prio
      /\ BootAttr(MarkPtnActive(t, s), s).unboot = BootAttr(t, s).unboot
      /\ ~BootAttr(MarkPtnActive(t, s), Alt(s)).active
  BY <1>1, <1>2, <1>3 DEF Attr
<1>5. ActiveSlot(MarkPtnActive(t, s)) = s
  BY <1>1, <1>2, <1>4, ActiveFacts
<1>6. ASSUME OneActive(t) PROVE View(MarkPtnActive(t, s)) = View(t)
  <2>1. ~BootAttr(t, Alt(s)).active
    BY <1>2, <1>6 DEF OneActive, Alt, Slot
  <2>2. \A a \in Attr, v \in BOOLEAN : a.active = v => [a EXCEPT !.active = v] = a
    BY DEF Attr
  <2>3. BootAttr(t, s).active = (s = s) /\ BootAttr(t, Alt(s)).active = (Alt(s) = s)
    BY <1>1, <1>2, <2>1
  <2>4. (s = s) \in BOOLEAN /\ (Alt(s) = s) \in BOOLEAN
    OBVIOUS
  <2>5. /\ BootAttr(MarkPtnActive(t, s), s) = BootAttr(t, s)
        /\ BootAttr(MarkPtnActive(t, s), Alt(s)) = BootAttr(t, Alt(s))
    BY <1>2, <1>3, <2>2, <2>3, <2>4
  <2>6. \A r \in Slot : r = s \/ r = Alt(s)
    BY DEF Alt, Slot
  <2> QED
    BY <2>5, <2>6 DEF View
<1> QED
  BY <1>4, <1>5, <1>6

LEMMA ViewSameAttrs ==
  ASSUME NEW t, NEW u, SameAttrs(t, u)
  PROVE  View(t) = View(u)
  BY BootPtnType DEF SameAttrs, View, BootAttr

LEMMA AttrEqual ==
  ASSUME NEW a \in Attr, NEW b \in Attr, a.prio = b.prio, a.active = b.active,
         a.retry = b.retry, a.succ = b.succ, a.unboot = b.unboot
  PROVE  a = b
  BY DEF Attr

(* What each edit is as a policy step.                                     *)
LEMMA PolicyEdits ==
  ASSUME NEW t \in Table, NEW s \in Slot
  PROVE  /\ View(SetBoot(t, "_a", FirstBootAttr(BootAttr(t, "_a")))) = Policy!FirstBoot(View(t))
         /\ View(SetBoot(t, s, RetryTaken(BootAttr(t, s)))) = Policy!Paid(View(t), s)
         /\ View(SetBoot(t, s, UnbootableAttr(BootAttr(t, s)))) = Policy!GivenUp(View(t), s)
         /\ View(SetBoot(t, s, [BootAttr(t, s) EXCEPT !.unboot = FALSE]))
              = Policy!Pardoned(View(t), s)
         /\ View(SetBoot(t, s, FlashedAttr(BootAttr(t, s)))) = Policy!Renewed(View(t), s)
<1> DEFINE v == View(t)
           a == BootAttr(t, s)
<1>1. "_a" \in Slot /\ a \in Attr /\ v[s] = a /\ BootAttr(t, "_a") \in Attr
  BY BootAttrs DEF Slot
<1>2. \A b : View(SetBoot(t, s, b)) = [v EXCEPT ![s] = b]
  BY ViewSet
<1>3. \A b : View(SetBoot(t, "_a", b)) = [v EXCEPT !["_a"] = b]
  BY <1>1, ViewSet
<1>4. v = [r \in Slot |-> v[r]]
  BY DEF View
<1>5. ASSUME NEW b \in Attr
      PROVE  FirstBootAttr(b) = [prio |-> 3, active |-> TRUE, retry |-> MaxRetry,
                                 succ |-> FALSE, unboot |-> FALSE]
  <2> DEFINE c == [prio |-> 3, active |-> TRUE, retry |-> MaxRetry,
                   succ |-> FALSE, unboot |-> FALSE]
  <2>0. 3 \in 0 .. 3 /\ MaxRetry \in 0 .. MaxRetry /\ TRUE \in BOOLEAN
    BY BoundsAssumption
  <2>1. c \in Attr
    BY <2>0 DEF Attr
  <2>a. FirstBootAttr(b) \in Attr
    BY <2>0, AttrType
  <2>2. /\ FirstBootAttr(b).prio = 3 /\ FirstBootAttr(b).active = TRUE
        /\ FirstBootAttr(b).retry = MaxRetry /\ FirstBootAttr(b).succ = FALSE
        /\ FirstBootAttr(b).unboot = FALSE
    BY DEF FirstBootAttr, Attr
  <2>3. c.prio = 3 /\ c.active = TRUE /\ c.retry = MaxRetry /\ c.succ = FALSE
        /\ c.unboot = FALSE
    OBVIOUS
  <2> HIDE DEF c
  <2>4. FirstBootAttr(b) = c
    BY <2>1, <2>a, <2>2, <2>3, AttrEqual
  <2> QED
    BY <2>4 DEF c
<1> HIDE DEF v, a
<1>6. View(SetBoot(t, "_a", FirstBootAttr(BootAttr(t, "_a")))) = Policy!FirstBoot(v)
  BY <1>1, <1>3, <1>5 DEF Policy!FirstBoot
<1>7. View(SetBoot(t, s, RetryTaken(a))) = Policy!Paid(v, s)
  BY <1>1, <1>2, <1>4 DEF Policy!Paid, RetryTaken
<1>8. View(SetBoot(t, s, UnbootableAttr(a))) = Policy!GivenUp(v, s)
  BY <1>1, <1>2, <1>4 DEF Policy!GivenUp, UnbootableAttr
<1>9. View(SetBoot(t, s, [a EXCEPT !.unboot = FALSE])) = Policy!Pardoned(v, s)
  BY <1>1, <1>2, <1>4 DEF Policy!Pardoned
<1>10. View(SetBoot(t, s, FlashedAttr(a))) = Policy!Renewed(v, s)
  <2> DEFINE w1 == [v EXCEPT ![s].prio = 3]
             w2 == [w1 EXCEPT ![s].retry = MaxRetry]
             w3 == [w2 EXCEPT ![s].succ = FALSE]
             w4 == [w3 EXCEPT ![s].unboot = FALSE]
  <2>1. Policy!Renewed(v, s) = w4
    BY DEF Policy!Renewed
  <2>2. w1 = [v EXCEPT ![s] = [a EXCEPT !.prio = 3]] /\ w1[s] = [a EXCEPT !.prio = 3]
    BY <1>1, <1>4
  <2> HIDE DEF w1
  <2>3. w2 = [v EXCEPT ![s] = [a EXCEPT !.prio = 3, !.retry = MaxRetry]]
        /\ w2[s] = [a EXCEPT !.prio = 3, !.retry = MaxRetry]
    BY <1>1, <1>4, <2>2
  <2> HIDE DEF w2
  <2>4. w3 = [v EXCEPT ![s] = [a EXCEPT !.prio = 3, !.retry = MaxRetry, !.succ = FALSE]]
        /\ w3[s] = [a EXCEPT !.prio = 3, !.retry = MaxRetry, !.succ = FALSE]
    BY <1>1, <1>4, <2>3
  <2> HIDE DEF w3
  <2> DEFINE c == [a EXCEPT !.prio = 3, !.retry = MaxRetry, !.succ = FALSE,
                            !.unboot = FALSE]
  <2>5. w4 = [v EXCEPT ![s] = c]
    BY <1>1, <1>4, <2>4
  <2>6. FlashedAttr(a) = c
    BY <1>1 DEF FlashedAttr, Attr
  <2> QED
    BY <1>2, <2>1, <2>5, <2>6
<1> QED
  BY <1>6, <1>7, <1>8, <1>9, <1>10 DEF v, a

LEMMA PolicySwitch ==
  ASSUME NEW t \in Table, NEW s \in Slot, NEW r \in BOOLEAN
  PROVE  /\ View(SlotActivated(t, s, r)) = Policy!Switched(View(t), s, r)
         /\ BootAttr(SlotActivated(t, s, r), s) = NewSlotAttr(BootAttr(t, s), r)
         /\ BootAttr(SlotActivated(t, s, r), Alt(s)) = AlternateAttr(BootAttr(t, Alt(s)))
<1> DEFINE v == View(t)
           a == BootAttr(t, s)
           b == BootAttr(t, Alt(s))
           u == SetBoot(t, s, NewSlotAttr(a, r))
<1>1. /\ Alt(s) \in Slot /\ Alt(s) # s /\ a \in Attr /\ b \in Attr
      /\ v[s] = a /\ v[Alt(s)] = b /\ v = [q \in Slot |-> v[q]]
  BY BootAttrs DEF Alt, Slot, View
<1>2. u \in Table /\ View(u) = [v EXCEPT ![s] = NewSlotAttr(a, r)]
  BY <1>1, AttrType, SetBootType, ViewSet
<1>3. BootAttr(u, s) = NewSlotAttr(a, r)
  BY ViewSet
<1>4. SlotActivated(t, s, r) = SetBoot(u, Alt(s), AlternateAttr(b))
  BY DEF SlotActivated
<1> HIDE DEF v, a, b, u
<1>5. View(SlotActivated(t, s, r))
        = [[v EXCEPT ![s] = NewSlotAttr(a, r)] EXCEPT ![Alt(s)] = AlternateAttr(b)]
  BY <1>1, <1>2, <1>4, ViewSet
<1>6. /\ BootAttr(SlotActivated(t, s, r), s) = NewSlotAttr(a, r)
      /\ BootAttr(SlotActivated(t, s, r), Alt(s)) = AlternateAttr(b)
  BY <1>1, <1>2, <1>3, <1>4, ViewSet
<1>7. Policy!Alt(s) = Alt(s)
  BY DEF Alt, Policy!Alt
<1>8. NewSlotAttr(a, r) = [prio |-> 3, active |-> TRUE, retry |-> MaxRetry,
                           succ |-> a.succ /\ ~r, unboot |-> FALSE]
  <2> DEFINE c == [prio |-> 3, active |-> TRUE, retry |-> MaxRetry,
                   succ |-> a.succ /\ ~r, unboot |-> FALSE]
  <2>1. (a.succ /\ ~r) \in BOOLEAN
    OBVIOUS
  <2>0. 3 \in 0 .. 3 /\ MaxRetry \in 0 .. MaxRetry
    BY BoundsAssumption
  <2>a. c \in Attr
    BY <2>0, <2>1 DEF Attr
  <2>2. NewSlotAttr(a, r) \in Attr
    BY <1>1, AttrType
  <2>3. /\ NewSlotAttr(a, r).prio = 3 /\ NewSlotAttr(a, r).active = TRUE
        /\ NewSlotAttr(a, r).retry = MaxRetry
        /\ NewSlotAttr(a, r).succ = (a.succ /\ ~r)
        /\ NewSlotAttr(a, r).unboot = FALSE
    BY <1>1 DEF NewSlotAttr, Attr
  <2>4. c.prio = 3 /\ c.active = TRUE /\ c.retry = MaxRetry /\ c.succ = (a.succ /\ ~r)
        /\ c.unboot = FALSE
    OBVIOUS
  <2> HIDE DEF c
  <2>5. NewSlotAttr(a, r) = c
    BY <2>a, <2>2, <2>3, <2>4, AttrEqual
  <2> QED
    BY <2>5 DEF c
<1> DEFINE w == [v EXCEPT ![s] = [prio |-> 3, active |-> TRUE, retry |-> MaxRetry,
                                  succ |-> @.succ /\ ~r, unboot |-> FALSE]]
<1>9. w[Alt(s)] = b /\ w = [v EXCEPT ![s] = NewSlotAttr(a, r)] /\ w = [q \in Slot |-> w[q]]
  BY <1>1, <1>8
<1>10. Policy!Switched(v, s, r) = [w EXCEPT ![Alt(s)].prio = 2, ![Alt(s)].active = FALSE]
  BY <1>7 DEF Policy!Switched
<1> HIDE DEF w
<1>11. [w EXCEPT ![Alt(s)].prio = 2, ![Alt(s)].active = FALSE]
         = [w EXCEPT ![Alt(s)] = AlternateAttr(b)]
  BY <1>1, <1>9 DEF AlternateAttr
<1> QED
  BY <1>5, <1>6, <1>9, <1>10, <1>11 DEF v, a, b

-----------------------------------------------------------------------------
(* A kernel on its way.  The slot is chosen by what memory says; once the  *)
(* kernel runs memory no longer counts.                                    *)

Primary == disk["primary"]

ChosenSlot(t) == slot \in Slot /\ ActiveSlot(t) = slot /\ ~BootAttr(t, slot).unboot

CheckedSlot(t) ==
  /\ ChosenSlot(t) /\ bootLun = LunOfSlot(slot)
  /\ t[BootPtn(slot)].guid # t[AblPtn(slot)].guid

BootInv ==
  /\ pc = "upa" => ret \notin {"hlos", "off", "enumerated"}
  /\ Clean => /\ At("validate") => ChosenSlot(mem)
              /\ At("load") => CheckedSlot(mem)
              /\ pc = "hlos" => CheckedSlot(Primary)

(* A running update goes nowhere but where it returns to.                  *)
LEMMA UpdateAt ==
  ASSUME TypeInv, UpdateCopy
  PROVE  /\ pc = "upa" /\ UNCHANGED <<mem, bootLun, lunSet, op, attempts, ghost>>
         /\ (pc' = "upa" /\ ret' = ret) \/ (pc' = ret /\ pc' # "upa")
         /\ \A k \in Labels \ {"upa"} : At(k)' <=> At(k)
<1>1. /\ pc = "upa" /\ UNCHANGED <<mem, bootLun, lunSet, op, attempts, ghost>>
      /\ (pc' = "upa" /\ ret' = ret) \/ pc' = ret
  BY DEF UpdateCopy, ReturnUpdate
<1>2. ret \in Labels \ {"upa"}
  BY DEF TypeInv, TypeOK, UpaOK
<1> QED
  BY <1>1, <1>2 DEF At

LEMMA ProgramRet ==
  ASSUME TypeInv, Program, pc' = "upa"
  PROVE  ret' \notin {"hlos", "off", "enumerated"}
<1>0. tail \in {"reset", "sa_done", "fastboot", "unauth"}
  BY DEF TypeInv, TypeOK, OpOK
<1>1. ASSUME NEW s, NEW f, NEW k, HandleUnbootable(s, f, k) PROVE pc' = "upa" => ret' = "h_alt"
  BY <1>1 DEF HandleUnbootable, Goto, CallUpdate
<1>2. ASSUME NEW c, NEW h, FindBootableSlot(c, h)
      PROVE  pc' = "upa" => ret' \in {"h_alt", "validate"}
  BY <1>1, <1>2 DEF FindBootableSlot, EnterFastboot, Goto, CallUpdate
<1> QED
  BY <1>0, <1>1, <1>2 DEF Program, FindPtnActiveSlot, LaunchFastboot, TryAlternateSlot,
     SwitchBootLun, SwitchPtnSlots, MarkNewSlot, BootFromLoader, ValidateAndMark, BootLinux,
     AuthFails, BootLinuxFails, CmdSetActive, CmdSetActiveDone, CmdContinue, CmdBoot,
     CmdBootLoad, FlashBoot, MenuAlternateSlot, EnterFastboot, SetActiveSlot, Goto,
     CallUpdate

(* Only these steps of the program lead towards a kernel.                  *)
LEMMA TowardsKernel ==
  ASSUME TypeInv, Program
  PROVE  /\ At("validate")' => \E c \in BOOLEAN, h \in {"auto", "continue", "boot"} :
                                 FindBootableSlot(c, h)
         /\ At("load")' => ValidateAndMark
         /\ pc' = "hlos" => BootLinux
<1>0. /\ pc \notin {"upa", "hlos", "off"}
      /\ tail \in {"reset", "sa_done", "fastboot", "unauth"}
  BY ProgramShape DEF TypeInv, TypeOK, OpOK
<1>1. ASSUME NEW s, NEW f, NEW k, HandleUnbootable(s, f, k)
      PROVE  ~At("validate")' /\ ~At("load")' /\ pc' # "hlos"
  BY <1>1 DEF HandleUnbootable, Goto, CallUpdate, At
<1>2. ASSUME NEW c, NEW h, FindBootableSlot(c, h)
      PROVE  ~At("load")' /\ pc' # "hlos"
  BY <1>1, <1>2 DEF FindBootableSlot, EnterFastboot, Goto, CallUpdate, At
<1>3. CASE BootFromLoader \/ CmdContinue \/ CmdBootLoad
  BY <1>2, <1>3 DEF BootFromLoader, CmdContinue, CmdBootLoad
<1>4. CASE AuthFails \/ MenuAlternateSlot
  BY <1>1, <1>4 DEF AuthFails, MenuAlternateSlot
<1>5. CASE FindPtnActiveSlot \/ LaunchFastboot \/ TryAlternateSlot \/ SwitchBootLun
           \/ SwitchPtnSlots \/ MarkNewSlot \/ ValidateAndMark \/ BootLinux
           \/ BootLinuxFails
  BY <1>0, <1>5 DEF FindPtnActiveSlot, LaunchFastboot, TryAlternateSlot, SwitchBootLun,
     SwitchPtnSlots, MarkNewSlot, ValidateAndMark, BootLinux, BootLinuxFails,
     EnterFastboot, SetActiveSlot, Goto, CallUpdate, At
<1>6. CASE CmdSetActive \/ CmdSetActiveDone \/ CmdBoot \/ FlashBoot
  BY <1>0, <1>6 DEF CmdSetActive, CmdSetActiveDone, CmdBoot, FlashBoot,
     SetActiveSlot, Goto, CallUpdate, At
<1> QED
  BY <1>3, <1>4, <1>5, <1>6 DEF Program

LEMMA SyncedMem ==
  ASSUME SyncInv, Clean, pc \notin {"upa", "hlos"}
  PROVE  mem = Primary
  BY DEF SyncInv, PrimaryInSync, Primary

(* FindBootableSlot, when it has chosen a slot.                            *)
LEMMA FindChosen ==
  ASSUME TypeInv, NEW c \in BOOLEAN, NEW h, FindBootableSlot(c, h), At("validate")',
         pc # "upa"
  PROVE  LET s == ActiveSlot(mem)
         IN  /\ s \in Slot /\ slot' = s /\ counted' = c
             /\ ~BootAttr(mem, s).unboot
             /\ \/ mem' = mem /\ (c => BootAttr(mem, s).succ)
                \/ /\ ~BootAttr(mem, s).succ /\ BootAttr(mem, s).retry > 0
                   /\ mem' = SetBoot(mem, s, RetryTaken(BootAttr(mem, s)))
             /\ UNCHANGED <<same, bootLun, attempts>>
<1> DEFINE s == ActiveSlot(mem)
           a == BootAttr(mem, s)
<1>1. s \in Slot \cup {NoSlot}
  BY ActiveSlotType
<1>2. ~HandleUnbootable(s, FALSE, "fastboot") /\ ~EnterFastboot
  BY DEF HandleUnbootable, EnterFastboot, Goto, CallUpdate, At
<1>3. /\ s # NoSlot /\ slot' = s /\ counted' = c /\ UNCHANGED <<same, bootLun, attempts>>
      /\ \/ Bootable(a) /\ Goto("validate")
         \/ /\ ~a.unboot /\ ~a.succ /\ a.retry > 0
            /\ IF c THEN CallUpdate("attr", SetBoot(mem, s, RetryTaken(a)), "validate")
               ELSE Goto("validate")
  BY <1>2 DEF FindBootableSlot, flash
<1> HIDE DEF s, a
<1>4. ~a.unboot /\ (\/ mem' = mem /\ (c => a.succ)
                    \/ ~a.succ /\ a.retry > 0 /\ mem' = SetBoot(mem, s, RetryTaken(a)))
  BY <1>3 DEF Bootable, Goto, CallUpdate
<1> QED
  BY <1>1, <1>3, <1>4 DEF s, a

(* Taking a retry leaves the active slot what it was.                      *)
LEMMA PaidActive ==
  ASSUME NEW t \in Table, NEW s \in Slot
  PROVE  LET u == SetBoot(t, s, RetryTaken(BootAttr(t, s)))
         IN  /\ ActiveSlot(u) = ActiveSlot(t)
             /\ BootAttr(u, s).unboot = BootAttr(t, s).unboot
             /\ BootAttr(u, s).succ = BootAttr(t, s).succ
             /\ BootAttr(u, s).retry = BootAttr(t, s).retry - 1
<1> DEFINE a == BootAttr(t, s)
           u == SetBoot(t, s, RetryTaken(a))
<1>1. a \in Attr
  BY BootAttrs
<1>2. /\ RetryTaken(a).prio = a.prio /\ RetryTaken(a).active = a.active
      /\ RetryTaken(a).unboot = a.unboot /\ RetryTaken(a).succ = a.succ
      /\ RetryTaken(a).retry = a.retry - 1
  BY <1>1 DEF RetryTaken, Attr
<1>3. \A r \in Slot : BootAttr(u, r) = IF r = s THEN RetryTaken(a) ELSE BootAttr(t, r)
  BY ViewSet
<1>4. \A r \in Slot : BootAttr(u, r).prio = BootAttr(t, r).prio
                      /\ BootAttr(u, r).active = BootAttr(t, r).active
  BY <1>2, <1>3
<1>5. ActiveSlot(u) = ActiveSlot(t)
  BY <1>4 DEF ActiveSlot, Slot
<1> QED
  BY <1>2, <1>3, <1>5

LEMMA BootNext ==
  ASSUME TypeInv, SyncInv, BootInv, Next
  PROVE  BootInv'
<1>0. TypeInv' /\ mem \in Table /\ Primary \in Table
  BY TypeNext DEF TypeInv, TypeOK, FlashOK, Primary, Copy
<1>1. CASE Powered
  BY <1>1, PoweredShape DEF PowerDown, Registers, BootInv, At
<1>2. CASE PowerOn
  BY <1>2 DEF PowerOn, BootInv, At
<1>3. CASE MenuPreempts \/ CmdFlashPartition
  <2>1. pc' \in {"menu", "fastboot"}
    BY <1>3 DEF MenuPreempts, CmdFlashPartition
  <2> QED
    BY <2>1 DEF BootInv, At
<1>4. CASE MarkBootSuccessful
  <2>1. /\ pc = "hlos" /\ pc' = pc /\ UNCHANGED <<slot, bootLun, ghost, force>>
        /\ Primary' = SetBoot(Primary, slot, [BootAttr(Primary, slot) EXCEPT !.succ = TRUE])
    BY <1>4 DEF MarkBootSuccessful, op, Primary, Copy
  <2>2. SUFFICES ASSUME Clean' PROVE CheckedSlot(Primary)'
    BY <2>1 DEF BootInv, At
  <2>3. Clean /\ CheckedSlot(Primary)
    BY <2>1, <2>2 DEF Clean, ghost, BootInv
  <2> DEFINE a == BootAttr(Primary, slot)
             b == [a EXCEPT !.succ = TRUE]
  <2>4. slot \in Slot /\ a \in Attr /\ BootPtn(slot) \in Ptn /\ AblPtn(slot) \in Ptn
    BY <1>0, <2>3, BootAttrs, BootPtnType DEF CheckedSlot, ChosenSlot
  <2>5. b.prio = a.prio /\ b.active = a.active /\ b.unboot = a.unboot
    BY <2>4 DEF Attr
  <2>6. /\ \A r \in Slot : BootAttr(Primary', r) = IF r = slot THEN b ELSE BootAttr(Primary, r)
        /\ SameGuids(Primary', Primary)
    BY <1>0, <2>1, <2>4, ViewSet, SetBootKeeps
  <2> HIDE DEF b
  <2>7. ActiveSlot(Primary') = ActiveSlot(Primary)
    <3>1. \A r \in Slot : BootAttr(Primary', r).prio = BootAttr(Primary, r).prio
                          /\ BootAttr(Primary', r).active = BootAttr(Primary, r).active
      BY <2>5, <2>6
    <3> QED
      BY <3>1 DEF ActiveSlot, Slot
  <2> QED
    BY <2>1, <2>3, <2>4, <2>5, <2>6, <2>7 DEF CheckedSlot, ChosenSlot, SameGuids
<1>5. CASE Updates
  <2>1. CASE UpdateCopy
    <3>1. /\ pc = "upa" /\ UNCHANGED <<mem, bootLun, lunSet, op, attempts, ghost>>
          /\ (pc' = "upa" /\ ret' = ret) \/ (pc' = ret /\ pc' # "upa")
      BY <2>1, UpdateAt
    <3>2. At("validate")' => At("validate")
      BY <3>1 DEF At
    <3>3. At("load")' => At("load")
      BY <3>1 DEF At
    <3>4. Clean' => Clean
      BY <3>1 DEF Clean, ghost, op
    <3> QED
      BY <3>1, <3>2, <3>3, <3>4 DEF BootInv, CheckedSlot, ChosenSlot, op
  <2>2. CASE ReadFails \/ WriteFails \/ FlushFails
    <3>1. pc = "upa" /\ pc' = ret /\ faults' = faults + 1 /\ faults \in Nat
      BY <2>2 DEF ReadFails, WriteFails, FlushFails, ReturnUpdate, Fault, TypeInv, TypeOK,
                  GhostOK
    <3>2. ~Clean' /\ pc' # "upa"
      BY <3>1 DEF Clean, TypeInv, TypeOK, UpaOK
    <3> QED
      BY <3>2 DEF BootInv
  <2> QED
    BY <1>5, <2>1, <2>2 DEF Updates
<1>6. CASE Program /\ ~Powered
  <2>1. pc' = "upa" => ret' \notin {"hlos", "off", "enumerated"}
    BY <1>6, ProgramRet
  <2>2. SUFFICES ASSUME Clean'
                 PROVE  /\ At("validate")' => ChosenSlot(mem)'
                        /\ At("load")' => CheckedSlot(mem)'
                        /\ pc' = "hlos" => CheckedSlot(Primary)'
    BY <2>1 DEF BootInv
  <2>3. Clean /\ pc \notin {"upa", "hlos", "off"} /\ disk' = disk
    BY <1>6, <2>2, CleanBack, ProgramShape DEF SyncInv
  <2>4. mem = Primary
    BY <2>3, SyncedMem
  <2>5. ASSUME At("validate")' PROVE ChosenSlot(mem)'
    <3>1. PICK c \in BOOLEAN, h \in {"auto", "continue", "boot"} : FindBootableSlot(c, h)
      BY <1>6, <2>5, TowardsKernel
    <3> DEFINE s == ActiveSlot(mem)
    <3>2. /\ s \in Slot /\ slot' = s /\ ~BootAttr(mem, s).unboot
          /\ mem' = mem \/ mem' = SetBoot(mem, s, RetryTaken(BootAttr(mem, s)))
      BY <2>3, <2>5, <3>1, FindChosen
    <3> HIDE DEF s
    <3>3. ActiveSlot(mem') = ActiveSlot(mem) /\ ~BootAttr(mem', s).unboot
      BY <1>0, <3>2, PaidActive
    <3> QED
      BY <3>2, <3>3 DEF ChosenSlot, s
  <2>6. ASSUME At("load")' PROVE CheckedSlot(mem)'
    <3>1. /\ pc = "validate" /\ ValidateSlotGuids(slot) /\ UNCHANGED <<slot, bootLun>>
          /\ mem' = MarkPtnActive(mem, slot)
      <4>1. ValidateAndMark
        BY <1>6, <2>6, TowardsKernel
      <4>2. ~EnterFastboot
        BY <2>6 DEF EnterFastboot, Goto, At
      <4> QED
        BY <4>1, <4>2 DEF ValidateAndMark, CallUpdate, op, flash
    <3>2. slot \in Slot /\ ActiveSlot(mem) = slot /\ ~BootAttr(mem, slot).unboot
      BY <2>3, <3>1 DEF BootInv, At, ChosenSlot
    <3>3. /\ ActiveSlot(mem') = slot /\ ~BootAttr(mem', slot).unboot
          /\ SameGuids(mem', mem)
      BY <1>0, <3>1, <3>2, ViewMark, MarkKeeps
    <3>4. BootPtn(slot) \in Ptn /\ AblPtn(slot) \in Ptn
      BY <3>2, BootPtnType
    <3>5. mem'[BootPtn(slot)].guid # mem'[AblPtn(slot)].guid
      BY <3>1, <3>3, <3>4 DEF SameGuids, ValidateSlotGuids
    <3> QED
      BY <3>1, <3>2, <3>3, <3>5 DEF CheckedSlot, ChosenSlot, ValidateSlotGuids
  <2>7. ASSUME pc' = "hlos" PROVE CheckedSlot(Primary)'
    <3>1. pc = "load" /\ slot' = slot /\ bootLun' = bootLun
      BY <1>6, <2>7, TowardsKernel DEF BootLinux, Leave, flash
    <3>2. CheckedSlot(Primary)
      BY <2>3, <2>4, <3>1 DEF BootInv, At
    <3> QED
      BY <2>3, <3>1, <3>2 DEF CheckedSlot, ChosenSlot, Primary
  <2> QED
    BY <2>5, <2>6, <2>7
<1> QED
  BY <1>1, <1>2, <1>3, <1>4, <1>5, <1>6, NextShape

LEMMA BootInit == Init => BootInv
  BY DEF Init, BootInv, At

LEMMA BootAlways == Spec => [](TypeInv /\ SyncInv /\ BootInv)
<1>1. TypeInv /\ SyncInv /\ BootInv /\ [Next]_vars => BootInv'
  <2>1. ASSUME BootInv, UNCHANGED vars PROVE BootInv'
    BY <2>1 DEF vars, flash, upa, op, ghost, BootInv, Clean, At, CheckedSlot, ChosenSlot,
                Primary
  <2> QED
    BY <2>1, BootNext
<1> QED
  BY <1>1, BootInit, SyncAlways, PTL DEF Spec

(* A kernel runs only from the slot that attributes, GUIDs and boot LUN    *)
(* all name, and never from one marked unbootable: for every layout and    *)
(* any number of power losses, cut-short commands included.                *)
THEOREM KernelSlotAgrees == Spec => []BootAgrees
<1>1. TypeInv /\ SyncInv /\ BootInv => BootAgrees
  <2> SUFFICES ASSUME SyncInv, BootInv, Clean, pc \in {"load", "hlos"}
               PROVE  CheckedSlot(Primary)
    BY DEF BootAgrees, CheckedSlot, ChosenSlot, Primary
  <2>1. CASE pc = "hlos"
    BY <2>1 DEF BootInv
  <2>2. CASE pc = "load"
    BY <2>2, SyncedMem DEF BootInv, At
  <2> QED
    BY <2>1, <2>2
<1> QED
  BY <1>1, BootAlways, PTL

-----------------------------------------------------------------------------
(* The slot attributes.  Primary is the table that the next boot will      *)
(* read; what holds of it and of PtnEntries between two updates has to     *)
(* survive an update that is cut short after any LUN.                      *)

ActiveInv ==
  /\ OneActive(mem) /\ OneActive(Primary)
  /\ pc \notin {"off", "enumerated"} => ActiveSlot(mem) # NoSlot
  /\ ActiveSlot(Primary) = NoSlot => Pristine(Primary) /\ ~BootAttr(Primary, "_b").active
  /\ At("sa_switch") \/ At("sa_mark") => slot \in Slot /\ ActiveSlot(mem) = slot

SuccessInv ==
  \A s \in Slot : BootAttr(mem, s).succ => BootAttr(Primary, s).succ

(* Launches and retries left: at most MaxRetry together, and one less when *)
(* a launch that was paid for is still to come.                            *)
RetryInv ==
  /\ \A s \in Slot : /\ attempts[s] + BootAttr(Primary, s).retry <= MaxRetry
                     /\ attempts[s] + BootAttr(mem, s).retry <= MaxRetry
  /\ (At("validate") \/ At("load")) /\ counted /\ ~BootAttr(mem, slot).succ
       => attempts[slot] + BootAttr(mem, slot).retry < MaxRetry

(* Attributes and GUIDs name the same slot, unless the last power loss has *)
(* put them at odds; between the two halves of a switch it is the other    *)
(* way round.                                                              *)
SkewInv ==
  /\ ~MidSwitch => (GuidsFollow(Primary) <=> ~skewed)
  /\ At("sa_switch") /\ ~same => (GuidsFollow(mem) <=> skewed)
  /\ ~(At("sa_switch") /\ ~same) => (GuidsFollow(mem) <=> ~skewed)

LunOn(s) == bootLun = IF lunSet THEN 1 ELSE LunOfSlot(s)

LunInv ==
  crashes = 0 =>
    /\ ~MidSwitch => LunOn(NamedSlot(Primary))
    /\ ~At("sa_switch") => LunOn(NamedSlot(mem))

(* PtnEntries is at most one step of the policy ahead of the flash.        *)
PolicyStep(v, w) ==
  LET s == Policy!ActiveSlot(v)
  IN  \/ Policy!Pristine(v) /\ w = Policy!FirstBoot(v)
      \/ /\ s # NoSlot
         /\ \/ Policy!OnTrial(v, s) /\ w = Policy!Paid(v, s)
            \/ w \in {Policy!GivenUp(v, s), Policy!Pardoned(v, s)}
            \/ \E n \in Slot, r \in BOOLEAN : w = Policy!Switched(v, n, r)
      \/ \E n \in Slot : w = Policy!Renewed(v, n)

PolicyInv ==
  pc # "hlos" => View(mem) = View(Primary) \/ PolicyStep(View(Primary), View(mem))

TrustedInv ==
  Trusted => ActiveInv /\ SuccessInv /\ RetryInv /\ SkewInv /\ LunInv /\ PolicyInv

(* The effects a program step may have on the boot partitions.             *)
Quiet == SameGuids(mem', mem) /\ UNCHANGED <<bootLun, lunSet>> /\ pc # "sa_switch"

Idles ==
  /\ \E k \in {"loader", "h_alt", "fastboot", "stopped", "reset", "sa_done"} : At(k)'
  /\ Quiet /\ View(mem') = View(mem) /\ attempts' = attempts
  /\ ~(pc = "enumerated" /\ ActiveSlot(mem) = NoSlot /\ Pristine(mem))

SetsUp ==
  /\ At("loader")' /\ Quiet /\ ActiveSlot(mem) = NoSlot /\ Pristine(mem)
  /\ mem' = SetBoot(mem, "_a", FirstBootAttr(BootAttr(mem, "_a"))) /\ Refill("_a")

Chooses ==
  LET s == ActiveSlot(mem)
  IN  /\ At("validate")' /\ Quiet /\ s \in Slot /\ slot' = s /\ attempts' = attempts
      /\ ~BootAttr(mem, s).unboot
      /\ \/ mem' = mem /\ (counted' => BootAttr(mem, s).succ)
         \/ /\ ~BootAttr(mem, s).succ /\ BootAttr(mem, s).retry > 0
            /\ mem' = SetBoot(mem, s, RetryTaken(BootAttr(mem, s)))

Judges ==
  /\ \E k \in {"h_alt", "boot_cmd"} : At(k)'
  /\ Quiet /\ attempts' = attempts
  /\ \E s \in Slot : /\ ActiveSlot(mem) = s
                     /\ \E a \in {UnbootableAttr(BootAttr(mem, s)),
                                  [BootAttr(mem, s) EXCEPT !.unboot = FALSE]} :
                          mem' = SetBoot(mem, s, a)

Renews ==
  /\ At("fastboot")' /\ Quiet /\ pc = "fastboot"
  /\ \E s \in Slot : mem' = SetBoot(mem, s, FlashedAttr(BootAttr(mem, s))) /\ Refill(s)

Activates ==
  /\ At("sa_switch")' /\ Quiet /\ ActiveSlot(mem) # NoSlot /\ slot' \in Slot
  /\ same' = (ActiveSlot(mem) = slot') /\ Refill(slot')
  /\ \E r \in BOOLEAN : mem' = SlotActivated(mem, slot', r)

SetsLun ==
  /\ \E k \in {"reset", "sa_done", "fastboot"} : At(k)'
  /\ pc = "sa_switch" /\ same /\ SetBootLun /\ UNCHANGED <<mem, attempts>>

Swaps ==
  /\ At("sa_mark")' /\ pc = "sa_switch" /\ ~same /\ SetBootLun
  /\ mem' = SwapPtnGuids(mem) /\ UNCHANGED <<slot, same, attempts>>

Validates ==
  /\ At("load")' /\ Quiet /\ pc = "validate" /\ View(mem') = View(mem)
  /\ UNCHANGED <<slot, counted, attempts>>

Launches ==
  /\ pc = "load" /\ pc' = "hlos" /\ Quiet /\ UNCHANGED <<mem, slot>>
  /\ attempts' = IF counted /\ ~BootAttr(mem, slot).succ
                 THEN [attempts EXCEPT ![slot] = @ + 1] ELSE attempts

Effect ==
  \/ Idles \/ SetsUp \/ Chooses \/ Judges \/ Renews \/ Activates
  \/ SetsLun \/ Swaps \/ Validates \/ Launches

LEMMA ProgramEffect ==
  ASSUME TypeInv, SyncInv, BootInv, ActiveInv, Clean, Program
  PROVE  Effect /\ UNCHANGED <<crashes, skewed, disk>>
<1>0. /\ pc \notin {"upa", "hlos", "off"} /\ disk' = disk /\ mem \in Table
      /\ tail \in {"reset", "sa_done", "fastboot", "unauth"}
  BY ProgramShape DEF TypeInv, TypeOK, OpOK
<1>1. UNCHANGED <<crashes, skewed>>
  BY DEF Program, FindPtnActiveSlot, LaunchFastboot, TryAlternateSlot, SwitchBootLun,
         SwitchPtnSlots, MarkNewSlot, BootFromLoader, ValidateAndMark, BootLinux,
         AuthFails, BootLinuxFails, CmdSetActive, CmdSetActiveDone, CmdContinue,
         CmdBoot, CmdBootLoad, FlashBoot, MenuAlternateSlot, FindBootableSlot,
         SetBootLun, Fault, ghost
<1>Q. SameGuids(mem', mem) \/ mem' # mem
  BY DEF SameGuids
<1> SUFFICES Effect
  BY <1>0, <1>1
<1>2. ASSUME NEW s, NEW a, NEW t, t = SetBoot(mem, s, a), mem' = t PROVE SameGuids(mem', mem)
  BY <1>0, <1>2, SetBootKeeps
<1>3. ASSUME mem' = mem PROVE View(mem') = View(mem) /\ SameGuids(mem', mem)
  BY <1>3, <1>Q
<1>4. ASSUME NEW f, NEW k, HandleUnbootable(ActiveSlot(mem), f, k), pc # "enumerated",
             pc # "sa_switch", UNCHANGED <<bootLun, lunSet>>, attempts' = attempts,
             ActiveSlot(mem) \in Slot
      PROVE  Idles \/ Judges
  <2> DEFINE s == ActiveSlot(mem)
             a == UnbootableAttr(BootAttr(mem, s))
  <2>1. At("h_alt")'
    BY <1>4 DEF HandleUnbootable, Goto, CallUpdate, At
  <2>2. mem' = mem \/ mem' = SetBoot(mem, s, a)
    BY <1>4 DEF HandleUnbootable, Goto, CallUpdate
  <2>3. CASE mem' = mem
    BY <1>3, <1>4, <2>1, <2>3 DEF Idles, Quiet
  <2>4. CASE mem' = SetBoot(mem, s, a)
    <3>1. SameGuids(mem', mem)
      BY <1>2, <2>4
    <3> QED
      BY <1>4, <2>1, <2>4, <3>1 DEF Judges, Quiet
  <2> QED
    BY <2>2, <2>3, <2>4
<1>5. ASSUME EnterFastboot, pc # "enumerated", pc # "sa_switch", UNCHANGED <<bootLun, lunSet>>,
             attempts' = attempts
      PROVE  Idles
  BY <1>3, <1>5 DEF EnterFastboot, Goto, At, Idles, Quiet
<1>6. ASSUME NEW n \in Slot, NEW r \in BOOLEAN, NEW k, SetActiveSlot(n, r, k),
             pc # "sa_switch", UNCHANGED <<bootLun, lunSet>>
      PROVE  Activates
  <2>1. /\ At("sa_switch")' /\ mem' = SlotActivated(mem, n, r) /\ slot' = n
        /\ ActiveSlot(mem) # NoSlot /\ same' = (ActiveSlot(mem) = n) /\ Refill(n)
    BY <1>6 DEF SetActiveSlot, CallUpdate, At
  <2>2. SameGuids(mem', mem)
    BY <1>0, <2>1, ActivatedKeeps
  <2> QED
    BY <1>6, <2>1, <2>2 DEF Activates, Quiet, Refill
<1>7. ASSUME NEW c \in BOOLEAN, NEW h, FindBootableSlot(c, h), pc # "enumerated",
             pc # "sa_switch"
      PROVE  Effect
  <2>1. UNCHANGED <<bootLun, lunSet>> /\ attempts' = attempts
    BY <1>7 DEF FindBootableSlot, flash
  <2>2. CASE EnterFastboot
    BY <1>5, <1>7, <2>1, <2>2 DEF Effect
  <2>3. CASE ActiveSlot(mem) # NoSlot /\ HandleUnbootable(ActiveSlot(mem), FALSE, "fastboot")
    BY <1>4, <1>7, <2>1, <2>3, ActiveSlotType DEF Effect
  <2>4. CASE At("validate")'
    <3> DEFINE s == ActiveSlot(mem)
    <3>1. /\ s \in Slot /\ slot' = s /\ counted' = c /\ ~BootAttr(mem, s).unboot
          /\ \/ mem' = mem /\ (c => BootAttr(mem, s).succ)
             \/ /\ ~BootAttr(mem, s).succ /\ BootAttr(mem, s).retry > 0
                /\ mem' = SetBoot(mem, s, RetryTaken(BootAttr(mem, s)))
      BY <1>0, <1>7, <2>4, FindChosen
    <3>2. SameGuids(mem', mem)
      BY <1>2, <1>3, <3>1
    <3> QED
      BY <1>7, <2>1, <2>4, <3>1, <3>2 DEF Chooses, Quiet, Effect
  <2> QED
    BY <1>7, <2>2, <2>3, <2>4 DEF FindBootableSlot, Goto, CallUpdate, At
<1>8. CASE FindPtnActiveSlot
  <2>1. pc = "enumerated" /\ UNCHANGED <<bootLun, lunSet>> /\ At("loader")'
    BY <1>8 DEF FindPtnActiveSlot, flash, CallUpdate, Goto, At
  <2>2. CASE ActiveSlot(mem) = NoSlot /\ Pristine(mem)
    <3>1. mem' = SetBoot(mem, "_a", FirstBootAttr(BootAttr(mem, "_a"))) /\ Refill("_a")
      BY <1>8, <2>2 DEF FindPtnActiveSlot, CallUpdate
    <3>2. SameGuids(mem', mem)
      BY <1>2, <3>1
    <3> QED
      BY <2>1, <2>2, <3>1, <3>2 DEF SetsUp, Quiet, Effect
  <2>3. CASE ~(ActiveSlot(mem) = NoSlot /\ Pristine(mem))
    <3>1. mem' = mem /\ attempts' = attempts
      BY <1>8, <2>3 DEF FindPtnActiveSlot, Goto
    <3> QED
      BY <1>3, <2>1, <2>3, <3>1 DEF Idles, Quiet, Effect
  <2> QED
    BY <2>2, <2>3
<1>9. CASE LaunchFastboot
  <2>1. /\ pc = "loader" /\ At("fastboot")' /\ mem' = mem /\ UNCHANGED <<bootLun, lunSet>>
        /\ attempts' = attempts
    BY <1>9 DEF LaunchFastboot, Goto, At, flash
  <2> QED
    BY <1>3, <2>1 DEF Idles, Quiet, Effect
<1>10. CASE TryAlternateSlot
  <2>1. pc = "h_alt" /\ UNCHANGED <<bootLun, lunSet>>
    BY <1>10 DEF TryAlternateSlot, flash
  <2>2. CASE SetActiveSlot(Alt(slot), FALSE, "reset")
    BY <1>6, <2>1, <2>2, AltType DEF Effect
  <2>3. CASE attempts' = attempts /\ EnterFastboot
    BY <1>5, <2>1, <2>3 DEF Effect
  <2>4. CASE attempts' = attempts /\ Goto("stopped")
    BY <1>3, <2>1, <2>4 DEF Goto, At, Idles, Quiet, Effect
  <2> QED
    BY <1>10, <2>2, <2>3, <2>4 DEF TryAlternateSlot
<1>11. CASE SwitchBootLun
  <2>1. tail # "unauth"
    BY <1>11 DEF SwitchBootLun, TypeInv, InSetActive
  <2>2. PICK k \in {"reset", "sa_done", "fastboot"} : k = tail
    BY <1>0, <2>1
  <2>3. At(k)' /\ pc = "sa_switch" /\ same /\ SetBootLun /\ UNCHANGED <<mem, attempts>>
    BY <1>11, <2>2 DEF SwitchBootLun, Goto, At
  <2> QED
    BY <2>3 DEF SetsLun, Effect
<1>12. CASE SwitchPtnSlots
  <2>1. /\ At("sa_mark")' /\ pc = "sa_switch" /\ ~same /\ SetBootLun
        /\ mem' = SwapPtnGuids(mem) /\ UNCHANGED <<slot, same, attempts>>
    BY <1>12 DEF SwitchPtnSlots, CallUpdate, At, op
  <2> QED
    BY <2>1 DEF Swaps, Effect
<1>13. CASE MarkNewSlot
  <2>1. tail # "unauth"
    BY <1>13 DEF MarkNewSlot, TypeInv, InSetActive
  <2>2. PICK k \in {"reset", "sa_done", "fastboot"} : k = tail
    BY <1>0, <2>1
  <2>5. /\ At(k)' /\ pc = "sa_mark" /\ mem' = MarkPtnActive(mem, slot)
        /\ UNCHANGED <<attempts, bootLun, lunSet>>
    BY <1>13, <2>2 DEF MarkNewSlot, CallUpdate, At, flash
  <2>3. slot \in Slot /\ ActiveSlot(mem) = slot /\ OneActive(mem)
    BY <2>5 DEF ActiveInv, At
  <2>4. View(mem') = View(mem) /\ SameGuids(mem', mem)
    BY <1>0, <2>3, <2>5, ViewMark, MarkKeeps
  <2> QED
    BY <2>4, <2>5 DEF Idles, Quiet, Effect
<1>14. CASE ValidateAndMark
  <2>1. pc = "validate" /\ UNCHANGED <<attempts, bootLun, lunSet>>
    BY <1>14 DEF ValidateAndMark, flash
  <2>2. CASE EnterFastboot
    BY <1>5, <2>1, <2>2 DEF Effect
  <2>3. CASE CallUpdate("attr", MarkPtnActive(mem, slot), "load") /\ UNCHANGED op
    <3>1. At("load")' /\ mem' = MarkPtnActive(mem, slot) /\ UNCHANGED <<slot, counted>>
      BY <2>3 DEF CallUpdate, At, op
    <3>2. slot \in Slot /\ ActiveSlot(mem) = slot /\ OneActive(mem)
      BY <2>1 DEF ActiveInv, BootInv, ChosenSlot, At
    <3>3. View(mem') = View(mem) /\ SameGuids(mem', mem)
      BY <1>0, <3>1, <3>2, ViewMark, MarkKeeps
    <3> QED
      BY <2>1, <3>1, <3>3 DEF Validates, Quiet, Effect
  <2> QED
    BY <1>14, <2>2, <2>3 DEF ValidateAndMark
<1>15. CASE BootLinux
  <2>1. /\ pc = "load" /\ pc' = "hlos" /\ UNCHANGED <<mem, slot, bootLun, lunSet>>
        /\ attempts' = IF counted /\ ~BootAttr(mem, slot).succ
                       THEN [attempts EXCEPT ![slot] = @ + 1] ELSE attempts
    BY <1>15 DEF BootLinux, Goto, Leave, flash
  <2> QED
    BY <1>3, <2>1 DEF Launches, Quiet, Effect
<1>16. CASE AuthFails
  <2>1. /\ pc = "load" /\ HandleUnbootable(ActiveSlot(mem), FALSE, "unauth")
        /\ UNCHANGED <<bootLun, lunSet, attempts>>
    BY <1>16 DEF AuthFails, flash
  <2>2. ActiveSlot(mem) \in Slot
    BY <2>1 DEF BootInv, CheckedSlot, ChosenSlot, At
  <2> QED
    BY <1>4, <2>1, <2>2 DEF Effect
<1>17. CASE BootLinuxFails
  <2>1. pc = "load" /\ UNCHANGED <<bootLun, lunSet, attempts>>
    BY <1>17 DEF BootLinuxFails, flash
  <2>2. CASE EnterFastboot
    BY <1>5, <2>1, <2>2 DEF Effect
  <2>3. CASE Goto("stopped")
    BY <1>3, <2>1, <2>3 DEF Goto, At, Idles, Quiet, Effect
  <2> QED
    BY <1>17, <2>2, <2>3 DEF BootLinuxFails
<1>18. CASE CmdSetActive
  <2>1. PICK n \in Slot : SetActiveSlot(n, TRUE, "sa_done")
    BY <1>18 DEF CmdSetActive
  <2>2. pc = "fastboot" /\ UNCHANGED <<bootLun, lunSet>>
    BY <1>18 DEF CmdSetActive, flash
  <2> QED
    BY <1>6, <2>1, <2>2 DEF Effect
<1>19. CASE CmdSetActiveDone
  <2>1. /\ pc = "sa_done" /\ At("fastboot")' /\ mem' = mem /\ UNCHANGED <<bootLun, lunSet>>
        /\ attempts' = attempts
    BY <1>19 DEF CmdSetActiveDone, CallUpdate, At, flash
  <2> QED
    BY <1>3, <2>1 DEF Idles, Quiet, Effect
<1>20. CASE BootFromLoader \/ CmdContinue \/ CmdBootLoad
  BY <1>7, <1>20 DEF BootFromLoader, CmdContinue, CmdBootLoad
<1>21. CASE CmdBoot
  <2> DEFINE s == ActiveSlot(mem)
             a == [BootAttr(mem, s) EXCEPT !.unboot = FALSE]
  <2>1. /\ pc = "fastboot" /\ s # NoSlot /\ At("boot_cmd")' /\ mem' = SetBoot(mem, s, a)
        /\ UNCHANGED <<bootLun, lunSet>> /\ attempts' = attempts
    BY <1>21 DEF CmdBoot, CallUpdate, At, flash
  <2>2. SameGuids(mem', mem) /\ s \in Slot
    BY <1>2, <2>1, ActiveSlotType
  <2> QED
    BY <2>1, <2>2 DEF Judges, Quiet, Effect
<1>22. CASE FlashBoot
  <2>1. PICK s \in Slot :
          /\ At("fastboot")' /\ mem' = SetBoot(mem, s, FlashedAttr(BootAttr(mem, s)))
          /\ Refill(s)
    BY <1>22 DEF FlashBoot, CallUpdate, At
  <2>2. pc = "fastboot" /\ UNCHANGED <<bootLun, lunSet>>
    BY <1>22 DEF FlashBoot, flash
  <2>3. SameGuids(mem', mem)
    BY <1>2, <2>1
  <2> QED
    BY <2>1, <2>2, <2>3 DEF Renews, Quiet, Effect
<1>23. CASE MenuAlternateSlot
  <2>1. /\ pc \in {"fastboot", "menu"} /\ HandleUnbootable(ActiveSlot(mem), TRUE, "fastboot")
        /\ ActiveSlot(mem) # NoSlot /\ UNCHANGED <<bootLun, lunSet, attempts>>
    BY <1>23 DEF MenuAlternateSlot, flash
  <2> QED
    BY <1>4, <2>1, ActiveSlotType DEF Effect
<1> QED
  BY <1>8, <1>9, <1>10, <1>11, <1>12, <1>13, <1>14, <1>15, <1>16, <1>17, <1>18, <1>19,
     <1>20, <1>21, <1>22, <1>23 DEF Program

(* An edit that marks no other slot active, and takes no priority away,    *)
(* leaves the active slot what it was.                                     *)
LEMMA GentleActive ==
  ASSUME NEW t \in Table, NEW u \in Table, OneActive(t), ActiveSlot(t) # NoSlot,
         \A s \in Slot : /\ BootAttr(u, s).active = BootAttr(t, s).active
                         /\ BootAttr(t, s).prio <= BootAttr(u, s).prio
  PROVE  OneActive(u) /\ ActiveSlot(u) = ActiveSlot(t)
<1> DEFINE s == ActiveSlot(t)
<1>1. s \in Slot /\ Alt(s) \in Slot
  BY ActiveSlotType, AltType
<1>2. BootAttr(t, s).active /\ BootAttr(t, s).prio > 0
  BY <1>1, ActiveFacts
<1>3. ~BootAttr(t, Alt(s)).active
  BY <1>1, <1>2 DEF OneActive, Alt, Slot
<1>4. BootAttr(u, s).prio \in 0 .. 3 /\ BootAttr(t, s).prio \in 0 .. 3
  BY <1>1, BootAttrs
<1> HIDE DEF s
<1>5. BootAttr(u, s).active /\ BootAttr(u, s).prio > 0 /\ ~BootAttr(u, Alt(s)).active
  BY <1>1, <1>2, <1>3, <1>4
<1>6. ActiveSlot(u) = s
  BY <1>1, <1>5, ActiveFacts
<1>7. OneActive(u)
  BY DEF OneActive, Slot
<1> QED
  BY <1>6, <1>7 DEF s

(* One boot partition's attributes are edited.                             *)
LEMMA EditActive ==
  ASSUME NEW t \in Table, NEW s \in Slot, NEW a \in Attr, OneActive(t),
         ActiveSlot(t) # NoSlot, a.active = BootAttr(t, s).active,
         BootAttr(t, s).prio <= a.prio
  PROVE  OneActive(SetBoot(t, s, a)) /\ ActiveSlot(SetBoot(t, s, a)) = ActiveSlot(t)
<1> DEFINE u == SetBoot(t, s, a)
<1>1. u \in Table
  BY SetBootType
<1>2. \A r \in Slot : BootAttr(u, r) = IF r = s THEN a ELSE BootAttr(t, r)
  BY ViewSet
<1>3. \A r \in Slot : BootAttr(t, r).prio <= BootAttr(t, r).prio
  BY BootAttrs
<1> HIDE DEF u
<1>4. \A r \in Slot : /\ BootAttr(u, r).active = BootAttr(t, r).active
                      /\ BootAttr(t, r).prio <= BootAttr(u, r).prio
  BY <1>2, <1>3
<1>5. OneActive(u) /\ ActiveSlot(u) = ActiveSlot(t)
  BY <1>1, <1>4, GentleActive
<1> QED
  BY <1>5 DEF u

LEMMA EditAttrs ==
  ASSUME NEW a \in Attr
  PROVE  /\ UnbootableAttr(a).active = a.active /\ UnbootableAttr(a).prio = a.prio
         /\ UnbootableAttr(a).retry = a.retry /\ UnbootableAttr(a).succ = a.succ
         /\ [a EXCEPT !.unboot = FALSE].active = a.active
         /\ [a EXCEPT !.unboot = FALSE].prio = a.prio
         /\ [a EXCEPT !.unboot = FALSE].retry = a.retry
         /\ [a EXCEPT !.unboot = FALSE].succ = a.succ
         /\ FlashedAttr(a).active = a.active /\ FlashedAttr(a).prio = 3
         /\ FlashedAttr(a).retry = MaxRetry /\ ~FlashedAttr(a).succ
         /\ RetryTaken(a).active = a.active /\ RetryTaken(a).prio = a.prio
         /\ RetryTaken(a).retry = a.retry - 1 /\ RetryTaken(a).succ = a.succ
         /\ FirstBootAttr(a).active /\ FirstBootAttr(a).prio = 3
         /\ FirstBootAttr(a).retry = MaxRetry /\ ~FirstBootAttr(a).succ
         /\ \A r \in BOOLEAN : /\ NewSlotAttr(a, r).active /\ NewSlotAttr(a, r).prio = 3
                               /\ NewSlotAttr(a, r).retry = MaxRetry
                               /\ NewSlotAttr(a, r).succ => a.succ
         /\ ~AlternateAttr(a).active /\ AlternateAttr(a).prio = 2
         /\ AlternateAttr(a).retry = a.retry /\ AlternateAttr(a).succ = a.succ
  BY DEF UnbootableAttr, FlashedAttr, RetryTaken, FirstBootAttr, NewSlotAttr,
         AlternateAttr, Attr

(* The state a program step starts from.                                   *)
Between == mem = Primary /\ pc \notin {"upa", "hlos", "off"}

LEMMA EffectActive ==
  ASSUME TypeInv, TypeInv', ActiveInv, Between, Effect
  PROVE  /\ OneActive(mem') /\ ActiveSlot(mem') # NoSlot
         /\ SetsUp => ActiveSlot(mem) = NoSlot /\ ActiveSlot(mem') = "_a"
         /\ Activates => ActiveSlot(mem') = slot'
         /\ ~SetsUp /\ ~Activates => ActiveSlot(mem') = ActiveSlot(mem)
         /\ ~SetsUp => ActiveSlot(mem) # NoSlot
<1>0. mem \in Table /\ mem' \in Table /\ OneActive(mem) /\ NoSlot \notin Slot
      /\ "_a" \in Slot /\ "_b" \in Slot
  BY DEF TypeInv, TypeOK, ActiveInv, Slot, NoSlot
<1>1. CASE SetsUp
  <2>1. /\ ActiveSlot(mem) = NoSlot /\ Pristine(mem)
        /\ mem' = SetBoot(mem, "_a", FirstBootAttr(BootAttr(mem, "_a")))
    BY <1>1 DEF SetsUp
  <2>2. BootAttr(mem, "_a") \in Attr
    BY <1>0, BootAttrs
  <2>3. /\ BootAttr(mem', "_a").active /\ BootAttr(mem', "_a").prio = 3
        /\ BootAttr(mem', "_b") = BootAttr(mem, "_b")
    BY <1>0, <2>1, <2>2, ViewSet, EditAttrs
  <2>4. ~BootAttr(mem, "_b").active
    BY <2>1 DEF ActiveInv, Between
  <2>5. ActiveSlot(mem') = "_a"
    BY <1>0, <2>3, <2>4, ActiveFacts DEF Alt
  <2>6. OneActive(mem')
    BY <2>3, <2>4 DEF OneActive
  <2>7. ~Activates
    BY <2>1 DEF Activates
  <2> QED
    BY <1>0, <1>1, <2>1, <2>5, <2>6, <2>7
<1>2. SUFFICES ASSUME ~SetsUp
               PROVE  /\ OneActive(mem') /\ ActiveSlot(mem') # NoSlot
                      /\ Activates => ActiveSlot(mem') = slot'
                      /\ ~Activates => ActiveSlot(mem') = ActiveSlot(mem)
                      /\ ActiveSlot(mem) # NoSlot
  BY <1>1
<1>3. ActiveSlot(mem) # NoSlot
  <2>1. pc = "enumerated" => Idles \/ Chooses \/ Judges \/ Activates
    BY <1>2 DEF Effect, Renews, SetsLun, Swaps, Validates, Launches
  <2>2. pc = "enumerated" /\ Idles => ActiveSlot(mem) # NoSlot
    BY DEF Idles, ActiveInv, Between
  <2>3. Chooses \/ Judges \/ Activates => ActiveSlot(mem) # NoSlot
    BY <1>0 DEF Chooses, Judges, Activates
  <2> QED
    BY <2>1, <2>2, <2>3 DEF ActiveInv, Between
<1>4. CASE Activates
  <2>1. PICK r \in BOOLEAN : mem' = SlotActivated(mem, slot', r)
    BY <1>4 DEF Activates
  <2>2. slot' \in Slot /\ Alt(slot') \in Slot
    BY <1>4, AltType DEF Activates
  <2>3. BootAttr(mem, slot') \in Attr /\ BootAttr(mem, Alt(slot')) \in Attr
    BY <1>0, <2>2, BootAttrs
  <2>4. /\ BootAttr(mem', slot') = NewSlotAttr(BootAttr(mem, slot'), r)
        /\ BootAttr(mem', Alt(slot')) = AlternateAttr(BootAttr(mem, Alt(slot')))
    BY <1>0, <2>1, <2>2, PolicySwitch
  <2>5. /\ BootAttr(mem', slot').active /\ BootAttr(mem', slot').prio = 3
        /\ ~BootAttr(mem', Alt(slot')).active
    BY <2>3, <2>4, EditAttrs
  <2>6. ActiveSlot(mem') = slot'
    BY <1>0, <2>2, <2>5, ActiveFacts
  <2>7. OneActive(mem')
    BY <2>2, <2>5 DEF OneActive, Alt, Slot
  <2> QED
    BY <1>0, <1>3, <1>4, <2>2, <2>6, <2>7
<1>5. SUFFICES ASSUME ~Activates
               PROVE  OneActive(mem') /\ ActiveSlot(mem') = ActiveSlot(mem)
  BY <1>3, <1>4
<1>6. ASSUME View(mem') = View(mem)
      PROVE  OneActive(mem') /\ ActiveSlot(mem') = ActiveSlot(mem)
  BY <1>0, <1>6, SameViewActive DEF OneActive
<1>7. ASSUME NEW s \in Slot, NEW a \in Attr, a.active = BootAttr(mem, s).active,
             BootAttr(mem, s).prio <= a.prio, mem' = SetBoot(mem, s, a)
      PROVE  OneActive(mem') /\ ActiveSlot(mem') = ActiveSlot(mem)
  BY <1>0, <1>3, <1>7, EditActive
<1>8. CASE Idles \/ SetsLun \/ Validates \/ Launches
  BY <1>6, <1>8 DEF Idles, SetsLun, Validates, Launches
<1>9. CASE Swaps
  BY <1>0, <1>6, <1>9, SwapKeeps, ViewSameAttrs DEF Swaps
<1>10. ASSUME NEW s \in Slot, NEW a,
              \/ a \in {UnbootableAttr(BootAttr(mem, s)),
                        [BootAttr(mem, s) EXCEPT !.unboot = FALSE],
                        FlashedAttr(BootAttr(mem, s))}
              \/ BootAttr(mem, s).retry > 0 /\ a = RetryTaken(BootAttr(mem, s))
       PROVE  /\ a \in Attr /\ a.active = BootAttr(mem, s).active
              /\ BootAttr(mem, s).prio <= a.prio
  <2>1. BootAttr(mem, s) \in Attr /\ BootAttr(mem, s).prio \in 0 .. 3 /\ TRUE \in BOOLEAN
    BY <1>0, BootAttrs
  <2>2. a \in Attr
    BY <1>10, <2>1, AttrType
  <2> DEFINE b == BootAttr(mem, s)
             d == [b EXCEPT !.unboot = FALSE]
  <2>3. /\ UnbootableAttr(b).active = b.active /\ UnbootableAttr(b).prio = b.prio
        /\ d.active = b.active
        /\ d.prio = b.prio
        /\ FlashedAttr(b).active = b.active /\ FlashedAttr(b).prio = 3
        /\ RetryTaken(b).active = b.active /\ RetryTaken(b).prio = b.prio
    BY <2>1, EditAttrs
  <2>4. \/ a = UnbootableAttr(b) \/ a = d
        \/ a = FlashedAttr(b) \/ a = RetryTaken(b)
    BY <1>10
  <2>5. b.prio \in 0 .. 3
    BY <2>1
  <2> HIDE DEF b, d
  <2>6. a.active = b.active /\ b.prio <= a.prio
    BY <2>3, <2>4, <2>5
  <2> QED
    BY <2>2, <2>6 DEF b
<1>11. CASE Chooses
  <2> DEFINE s == ActiveSlot(mem)
             a == RetryTaken(BootAttr(mem, s))
  <2>1. /\ s \in Slot
        /\ mem' = mem \/ (BootAttr(mem, s).retry > 0 /\ mem' = SetBoot(mem, s, a))
    BY <1>11 DEF Chooses
  <2>2. CASE mem' = mem
    BY <1>6, <2>2
  <2>3. CASE BootAttr(mem, s).retry > 0 /\ mem' = SetBoot(mem, s, a)
    <3>1. a \in Attr /\ a.active = BootAttr(mem, s).active /\ BootAttr(mem, s).prio <= a.prio
      BY <1>10, <2>1, <2>3
    <3> HIDE DEF a, s
    <3> QED
      BY <1>7, <2>1, <2>3, <3>1
  <2> QED
    BY <2>1, <2>2, <2>3
<1>12. CASE Judges
  <2>0. PICK s \in Slot :
          \E a \in {UnbootableAttr(BootAttr(mem, s)),
                   [BootAttr(mem, s) EXCEPT !.unboot = FALSE]} : mem' = SetBoot(mem, s, a)
    BY <1>12 DEF Judges
  <2>1. PICK a \in {UnbootableAttr(BootAttr(mem, s)),
                   [BootAttr(mem, s) EXCEPT !.unboot = FALSE]} : mem' = SetBoot(mem, s, a)
    BY <2>0
  <2>2. a \in Attr /\ a.active = BootAttr(mem, s).active /\ BootAttr(mem, s).prio <= a.prio
    BY <1>10, <2>1
  <2> QED
    BY <1>7, <2>1, <2>2
<1>13. CASE Renews
  <2>1. PICK s \in Slot : mem' = SetBoot(mem, s, FlashedAttr(BootAttr(mem, s)))
    BY <1>13 DEF Renews
  <2> DEFINE a == FlashedAttr(BootAttr(mem, s))
  <2>2. a \in Attr /\ a.active = BootAttr(mem, s).active /\ BootAttr(mem, s).prio <= a.prio
    BY <1>10, <2>1
  <2> HIDE DEF a
  <2>3. mem' = SetBoot(mem, s, a)
    BY <2>1 DEF a
  <2> QED
    BY <1>7, <2>2, <2>3
<1> QED
  BY <1>2, <1>5, <1>8, <1>9, <1>11, <1>12, <1>13 DEF Effect

(* No effect makes a slot successful or gives it attempts, except that a   *)
(* refill starts the count anew.                                           *)
LEMMA EffectSlot ==
  ASSUME TypeInv, Effect, NEW r \in Slot
  PROVE  /\ BootAttr(mem', r).succ => BootAttr(mem, r).succ
         /\ ~Launches =>
              /\ attempts'[r] <= attempts[r]
              /\ attempts'[r] = 0 \/ BootAttr(mem', r).retry <= BootAttr(mem, r).retry
<1>0. /\ mem \in Table /\ attempts \in [Slot -> Nat] /\ BootAttr(mem, r).retry \in Nat
      /\ BootAttr(mem, r).retry \in 0 .. MaxRetry
      /\ "_a" \in Slot
  <2>1. mem \in Table /\ attempts \in [Slot -> Nat]
    BY DEF TypeInv, TypeOK
  <2>2. BootAttr(mem, r).retry \in 0 .. MaxRetry
    BY <2>1, BootAttrs
  <2> QED
    BY <2>1, <2>2, BoundsAssumption DEF Slot
<1>1. ASSUME attempts' = attempts PROVE attempts'[r] <= attempts[r]
  <2>1. attempts[r] \in Nat
    BY <1>0
  <2> QED
    BY <1>1, <2>1
<1>2. ASSUME NEW s \in Slot, Refill(s)
      PROVE  attempts'[r] <= attempts[r] /\ (r = s => attempts'[r] = 0)
  <2>1. attempts[r] \in Nat
    BY <1>0
  <2>2. attempts'[r] = IF r = s THEN 0 ELSE attempts[r]
    BY <1>0, <1>2 DEF Refill
  <2> QED
    BY <2>1, <2>2
<1>3. ASSUME View(mem') = View(mem)
      PROVE  /\ BootAttr(mem', r).succ => BootAttr(mem, r).succ
             /\ BootAttr(mem', r).retry <= BootAttr(mem, r).retry
  BY <1>0, <1>3, SameViewActive
<1>4. ASSUME NEW s \in Slot, NEW a, mem' = SetBoot(mem, s, a)
      PROVE  BootAttr(mem', r) = IF r = s THEN a ELSE BootAttr(mem, r)
  BY <1>0, <1>4, ViewSet
<1>5. \A s \in Slot : BootAttr(mem, s) \in Attr
  BY <1>0, BootAttrs
<1>6. CASE Idles \/ SetsLun \/ Validates
  BY <1>1, <1>3, <1>6 DEF Idles, SetsLun, Validates
<1>7. CASE Launches
  BY <1>7 DEF Launches
<1>8. CASE Swaps
  BY <1>0, <1>1, <1>3, <1>8, SwapKeeps, ViewSameAttrs DEF Swaps
<1>9. CASE SetsUp
  <2> DEFINE a == FirstBootAttr(BootAttr(mem, "_a"))
  <2>1. mem' = SetBoot(mem, "_a", a) /\ Refill("_a")
    BY <1>9 DEF SetsUp
  <2>2. ~a.succ
    BY <1>0, <1>5, EditAttrs
  <2> HIDE DEF a
  <2>3. BootAttr(mem', r) = IF r = "_a" THEN a ELSE BootAttr(mem, r)
    BY <1>0, <1>4, <2>1
  <2>4. attempts'[r] <= attempts[r] /\ (r = "_a" => attempts'[r] = 0)
    BY <1>0, <1>2, <2>1
  <2> QED
    BY <1>0, <2>2, <2>3, <2>4
<1>10. CASE Renews
  <2>1. PICK s \in Slot : mem' = SetBoot(mem, s, FlashedAttr(BootAttr(mem, s))) /\ Refill(s)
    BY <1>10 DEF Renews
  <2> DEFINE a == FlashedAttr(BootAttr(mem, s))
  <2>2. ~a.succ
    BY <1>5, EditAttrs
  <2>3. BootAttr(mem', r) = IF r = s THEN a ELSE BootAttr(mem, r)
    BY <1>4, <2>1
  <2> HIDE DEF a
  <2>4. attempts'[r] <= attempts[r] /\ (r = s => attempts'[r] = 0)
    BY <1>2, <2>1
  <2> QED
    BY <1>0, <2>2, <2>3, <2>4
<1>11. CASE Chooses
  <2> DEFINE s == ActiveSlot(mem)
             a == RetryTaken(BootAttr(mem, s))
  <2>1. /\ s \in Slot /\ attempts' = attempts
        /\ mem' = mem \/ (~BootAttr(mem, s).succ /\ mem' = SetBoot(mem, s, a))
    BY <1>11 DEF Chooses
  <2>2. CASE mem' = mem
    BY <1>1, <1>3, <2>1, <2>2
  <2>3. CASE mem' = SetBoot(mem, s, a)
    <3>1. a.succ = BootAttr(mem, s).succ /\ a.retry = BootAttr(mem, s).retry - 1
      BY <1>5, <2>1, EditAttrs
    <3> HIDE DEF a, s
    <3>2. BootAttr(mem', r) = IF r = s THEN a ELSE BootAttr(mem, r)
      BY <1>4, <2>1, <2>3
    <3>3. attempts'[r] <= attempts[r]
      BY <1>1, <2>1
    <3> QED
      BY <1>0, <3>1, <3>2, <3>3
  <2> QED
    BY <2>1, <2>2, <2>3
<1>12. CASE Judges
  <2>0. PICK s \in Slot :
          \E a \in {UnbootableAttr(BootAttr(mem, s)),
                    [BootAttr(mem, s) EXCEPT !.unboot = FALSE]} : mem' = SetBoot(mem, s, a)
    BY <1>12 DEF Judges
  <2>1. PICK a \in {UnbootableAttr(BootAttr(mem, s)),
                    [BootAttr(mem, s) EXCEPT !.unboot = FALSE]} : mem' = SetBoot(mem, s, a)
    BY <2>0
  <2>2. a.succ = BootAttr(mem, s).succ /\ a.retry = BootAttr(mem, s).retry
    <3> DEFINE b == BootAttr(mem, s)
               d == [b EXCEPT !.unboot = FALSE]
    <3>1. /\ UnbootableAttr(b).succ = b.succ /\ UnbootableAttr(b).retry = b.retry
          /\ d.succ = b.succ /\ d.retry = b.retry
      BY <1>5, EditAttrs
    <3>2. a = UnbootableAttr(b) \/ a = d
      BY <2>1
    <3> HIDE DEF b, d
    <3>3. a.succ = b.succ /\ a.retry = b.retry
      BY <3>1, <3>2
    <3> QED
      BY <3>3 DEF b
  <2>3. BootAttr(mem', r) = IF r = s THEN a ELSE BootAttr(mem, r)
    BY <1>4, <2>1
  <2>4. attempts'[r] <= attempts[r]
    BY <1>1, <1>12 DEF Judges
  <2> QED
    BY <1>0, <2>2, <2>3, <2>4
<1>13. CASE Activates
  <2>0. slot' \in Slot /\ Refill(slot')
    BY <1>13 DEF Activates
  <2>1. PICK q \in BOOLEAN : mem' = SlotActivated(mem, slot', q)
    BY <1>13 DEF Activates
  <2>2. /\ BootAttr(mem', slot') = NewSlotAttr(BootAttr(mem, slot'), q)
        /\ BootAttr(mem', Alt(slot')) = AlternateAttr(BootAttr(mem, Alt(slot')))
    BY <1>0, <2>0, <2>1, PolicySwitch
  <2>3. r = slot' \/ r = Alt(slot')
    BY <2>0 DEF Alt, Slot
  <2>4. attempts'[r] <= attempts[r] /\ (r = slot' => attempts'[r] = 0)
    BY <1>2, <2>0
  <2>5. CASE r = slot'
    <3>1. BootAttr(mem', r).succ => BootAttr(mem, r).succ
      BY <1>5, <2>2, <2>5, EditAttrs
    <3> QED
      BY <2>4, <2>5, <3>1
  <2>6. CASE r = Alt(slot')
    <3>1. /\ BootAttr(mem', r).succ = BootAttr(mem, r).succ
          /\ BootAttr(mem', r).retry = BootAttr(mem, r).retry
      BY <1>5, <2>2, <2>6, EditAttrs
    <3> QED
      BY <1>0, <2>4, <3>1
  <2> QED
    BY <2>3, <2>5, <2>6
<1> QED
  BY <1>6, <1>7, <1>8, <1>9, <1>10, <1>11, <1>12, <1>13 DEF Effect

LEMMA EffectAt ==
  ASSUME Effect, Between
  PROVE  /\ At("sa_switch")' => Activates
         /\ At("sa_mark")' => Swaps
         /\ At("validate")' => Chooses
         /\ At("load")' => Validates
         /\ pc' = "hlos" => Launches
  BY DEF Effect, Between, At, Idles, SetsUp, Chooses, Judges, Renews, Activates, SetsLun,
         Swaps, Validates, Launches

(* What a trusted program step is known to be.                             *)
LEMMA TrustedProgram ==
  ASSUME TypeInv, SyncInv, BootInv, TrustedInv, Program, Trusted'
  PROVE  /\ Trusted /\ Clean /\ TypeInv' /\ SyncInv' /\ Effect /\ Between
         /\ UNCHANGED <<crashes, skewed, disk>> /\ Primary' = Primary
         /\ pc' \notin {"upa", "hlos"} => mem' = Primary'
         /\ SetBootLun => bootLun' = LunOfSlot(slot) /\ ~lunSet'
<1>1. Next
  BY DEF Program, Next, Loader, Commands
<1>2. Trusted /\ Clean /\ Clean'
  BY <1>1, GhostGrows DEF Trusted, Clean
<1>3. TypeInv' /\ SyncInv'
  BY <1>1, TypeNext, SyncNext
<1>4. Between
  BY <1>2, ProgramShape, SyncedMem DEF Between
<1>5. Effect /\ UNCHANGED <<crashes, skewed, disk>>
  BY <1>2, ProgramEffect DEF TrustedInv
<1>6. pc' \notin {"upa", "hlos"} => mem' = Primary'
  BY <1>2, <1>3 DEF SyncInv, PrimaryInSync, Primary
<1>7. SetBootLun => bootLun' = LunOfSlot(slot) /\ ~lunSet'
  <2>1. faults = 0 /\ faults' = 0
    BY <1>2 DEF Trusted
  <2> QED
    BY <2>1 DEF SetBootLun, Fault
<1> QED
  BY <1>2, <1>3, <1>4, <1>5, <1>6, <1>7 DEF Primary

LEMMA ActiveProgram ==
  ASSUME TypeInv, SyncInv, BootInv, TrustedInv, Program, Trusted'
  PROVE  ActiveInv' /\ SuccessInv'
<1>0. /\ Trusted /\ TypeInv' /\ Effect /\ Between /\ Primary' = Primary
      /\ ActiveInv /\ SuccessInv
  BY TrustedProgram DEF TrustedInv
<1>1. /\ OneActive(mem') /\ ActiveSlot(mem') # NoSlot
      /\ Activates => ActiveSlot(mem') = slot'
      /\ ~SetsUp /\ ~Activates => ActiveSlot(mem') = ActiveSlot(mem)
  BY <1>0, EffectActive
<1>2. At("sa_switch")' => slot' \in Slot /\ ActiveSlot(mem') = slot'
  BY <1>0, <1>1, EffectAt DEF Activates
<1>3. At("sa_mark")' => slot' \in Slot /\ ActiveSlot(mem') = slot'
  <2> SUFFICES ASSUME At("sa_mark")' PROVE slot' \in Slot /\ ActiveSlot(mem') = slot'
    OBVIOUS
  <2>1. Swaps
    BY <1>0, EffectAt
  <2>2. slot' = slot /\ slot \in Slot /\ ActiveSlot(mem) = slot
    BY <1>0, <2>1 DEF Swaps, ActiveInv, At
  <2>3. ~SetsUp /\ ~Activates
    BY <2>1 DEF Swaps, SetsUp, Activates, Quiet
  <2> QED
    BY <1>1, <2>2, <2>3
<1>4. ActiveInv'
  BY <1>0, <1>1, <1>2, <1>3 DEF ActiveInv
<1>5. SuccessInv'
  BY <1>0, EffectSlot DEF SuccessInv, Between
<1> QED
  BY <1>4, <1>5

LEMMA RetryProgram ==
  ASSUME TypeInv, SyncInv, BootInv, TrustedInv, Program, Trusted'
  PROVE  RetryInv'
<1>0. /\ Trusted /\ TypeInv' /\ Effect /\ Between /\ Primary' = Primary /\ mem = Primary
      /\ RetryInv /\ Clean
  BY TrustedProgram DEF TrustedInv, Between
<1>1. /\ mem \in Table /\ mem' \in Table /\ attempts \in [Slot -> Nat]
      /\ attempts' \in [Slot -> Nat] /\ MaxRetry \in Nat
  BY <1>0, BoundsAssumption DEF TypeInv, TypeOK
<1>2. \A s \in Slot : /\ BootAttr(mem, s).retry \in 0 .. MaxRetry
                      /\ BootAttr(mem', s).retry \in 0 .. MaxRetry
                      /\ attempts[s] \in Nat /\ attempts'[s] \in Nat
  BY <1>1, BootAttrs
<1>3. \A s \in Slot : attempts[s] + BootAttr(mem, s).retry <= MaxRetry
  BY <1>0 DEF RetryInv
<1>4. CASE Launches
  <2>1. pc = "load" /\ pc' = "hlos" /\ mem' = mem
    BY <1>4 DEF Launches
  <2>2. slot \in Slot
    BY <1>0, <2>1 DEF BootInv, CheckedSlot, ChosenSlot, At
  <2>3. attempts' = IF counted /\ ~BootAttr(mem, slot).succ
                    THEN [attempts EXCEPT ![slot] = @ + 1] ELSE attempts
    BY <1>4 DEF Launches
  <2>4. counted /\ ~BootAttr(mem, slot).succ
          => attempts[slot] + BootAttr(mem, slot).retry < MaxRetry
    BY <1>0, <2>1 DEF RetryInv, At
  <2>5. \A s \in Slot : attempts'[s] + BootAttr(mem, s).retry <= MaxRetry
    BY <1>1, <1>2, <1>3, <2>2, <2>3, <2>4
  <2>6. ~At("validate")' /\ ~At("load")'
    BY <2>1 DEF At
  <2> QED
    BY <1>0, <2>1, <2>5, <2>6 DEF RetryInv
<1>5. CASE ~Launches
  <2>1. \A s \in Slot : attempts'[s] + BootAttr(Primary', s).retry <= MaxRetry
    BY <1>0, <1>1, <1>2, <1>3, <1>5, EffectSlot
  <2>2. \A s \in Slot : attempts'[s] + BootAttr(mem', s).retry <= MaxRetry
    BY <1>0, <1>1, <1>2, <1>3, <1>5, EffectSlot
  <2>3. ASSUME At("validate")', counted', ~BootAttr(mem', slot').succ
        PROVE  attempts'[slot'] + BootAttr(mem', slot').retry < MaxRetry
    <3> DEFINE s == ActiveSlot(mem)
    <3>1. Chooses
      BY <1>0, <2>3, EffectAt
    <3>2. /\ s \in Slot /\ slot' = s /\ attempts' = attempts
          /\ \/ mem' = mem /\ BootAttr(mem, s).succ
             \/ mem' = SetBoot(mem, s, RetryTaken(BootAttr(mem, s)))
      BY <2>3, <3>1 DEF Chooses
    <3> HIDE DEF s
    <3>3. mem' = SetBoot(mem, s, RetryTaken(BootAttr(mem, s)))
      BY <2>3, <3>2
    <3>4. BootAttr(mem', s).retry = BootAttr(mem, s).retry - 1
      BY <1>1, <3>2, <3>3, PaidActive
    <3> QED
      BY <1>1, <1>2, <1>3, <3>2, <3>4
  <2>4. ASSUME At("load")', counted', ~BootAttr(mem', slot').succ
        PROVE  attempts'[slot'] + BootAttr(mem', slot').retry < MaxRetry
    <3>1. Validates
      BY <1>0, <2>4, EffectAt
    <3>2. /\ pc = "validate" /\ slot' = slot /\ counted' = counted /\ attempts' = attempts
          /\ View(mem') = View(mem)
      BY <3>1 DEF Validates
    <3>3. slot \in Slot
      BY <1>0, <3>2 DEF BootInv, ChosenSlot, At
    <3>4. BootAttr(mem', slot) = BootAttr(mem, slot)
      BY <3>2, <3>3, SameViewActive
    <3> QED
      BY <1>0, <2>4, <3>2, <3>4 DEF RetryInv, At
  <2> QED
    BY <2>1, <2>2, <2>3, <2>4 DEF RetryInv
<1> QED
  BY <1>4, <1>5

LEMMA SkewProgram ==
  ASSUME TypeInv, SyncInv, BootInv, PairedInv, TrustedInv, Program, Trusted'
  PROVE  SkewInv' /\ LunInv'
<1>0. /\ Trusted /\ TypeInv' /\ Effect /\ Between /\ Primary' = Primary /\ mem = Primary
      /\ ActiveInv /\ SkewInv /\ LunInv /\ skewed' = skewed /\ crashes' = crashes
      /\ pc' \notin {"upa", "hlos"} => mem' = Primary'
      /\ SetBootLun => bootLun' = LunOfSlot(slot) /\ ~lunSet'
      /\ pc \notin {"upa", "hlos", "off"}
  BY TrustedProgram DEF TrustedInv, Between
<1>1. mem \in Table /\ mem' \in Table /\ Paired(mem) /\ NamedSlot(mem) \in Slot
  BY <1>0, NamedSlotType DEF TypeInv, TypeOK, PairedInv, Trusted
<1>2. At("sa_switch") <=> pc = "sa_switch"
  BY <1>0 DEF At
<1>3. MidSwitch <=> pc = "sa_switch"
  BY <1>0 DEF MidSwitch
<1>4. /\ SetsUp => ActiveSlot(mem) = NoSlot /\ ActiveSlot(mem') = "_a"
      /\ Activates => ActiveSlot(mem') = slot'
      /\ ~SetsUp /\ ~Activates => ActiveSlot(mem') = ActiveSlot(mem)
      /\ ~SetsUp => ActiveSlot(mem) # NoSlot /\ ActiveSlot(mem') # NoSlot
  BY <1>0, EffectActive
<1>5. ASSUME SameGuids(mem', mem), NamedSlot(mem') = NamedSlot(mem)
      PROVE  GuidsFollow(mem') <=> GuidsFollow(mem)
  BY <1>5, FollowSided, SidedSame
<1>6. CASE Activates
  <2>1. /\ Quiet /\ slot' \in Slot /\ same' = (ActiveSlot(mem) = slot')
        /\ ActiveSlot(mem) # NoSlot /\ At("sa_switch")'
    BY <1>6 DEF Activates
  <2>2. GuidsFollow(mem) <=> ~skewed
    BY <1>0, <1>2, <2>1 DEF SkewInv, Quiet
  <2>3. NamedSlot(mem) = ActiveSlot(mem) /\ NamedSlot(mem') = slot'
    BY <1>4, <1>6, <2>1 DEF NamedSlot, Slot, NoSlot
  <2>4. CASE ActiveSlot(mem) = slot'
    <3>1. GuidsFollow(mem') <=> GuidsFollow(mem)
      BY <1>5, <2>1, <2>3, <2>4 DEF Quiet
    <3>2. same'
      BY <2>1, <2>4
    <3> QED
      BY <1>0, <2>1, <2>2, <3>1, <3>2 DEF SkewInv, LunInv, MidSwitch, At
  <2>5. CASE ActiveSlot(mem) # slot'
    <3>1. slot' = Alt(NamedSlot(mem))
      BY <1>1, <2>1, <2>3, <2>5 DEF Alt, Slot
    <3>2. GuidsFollow(mem') <=> Sided(mem, slot')
      BY <2>1, <2>3, FollowSided, SidedSame DEF Quiet
    <3>3. Sided(mem, slot') <=> ~GuidsFollow(mem)
      BY <1>1, <3>1, SidedAlt, FollowSided
    <3>4. ~same'
      BY <2>1, <2>5
    <3> QED
      BY <1>0, <2>1, <2>2, <3>2, <3>3, <3>4 DEF SkewInv, LunInv, MidSwitch, At
  <2> QED
    BY <2>4, <2>5
<1>7. SUFFICES ASSUME ~Activates PROVE SkewInv' /\ LunInv'
  BY <1>6
<1>8. ~At("sa_switch")' /\ pc' # "sa_switch"
  BY <1>0, <1>7, EffectAt DEF At
<1>9. NamedSlot(mem') = NamedSlot(mem)
  BY <1>4, <1>7 DEF NamedSlot
<1>10. CASE Swaps
  <2>1. At("sa_mark")' /\ pc = "sa_switch" /\ ~same /\ mem' = SwapPtnGuids(mem) /\ SetBootLun
    BY <1>10 DEF Swaps
  <2>2. slot \in Slot /\ ActiveSlot(mem) = slot
    BY <1>0, <1>2, <2>1 DEF ActiveInv
  <2>3. GuidsFollow(mem) <=> skewed
    BY <1>0, <1>2, <2>1 DEF SkewInv
  <2>4. GuidsFollow(mem') <=> ~GuidsFollow(mem)
    BY <1>1, <1>9, <2>1, FollowSided, SidedSwap
  <2>5. bootLun' = LunOfSlot(NamedSlot(mem')) /\ ~lunSet'
    BY <1>0, <1>9, <2>1, <2>2 DEF NamedSlot, Slot, NoSlot
  <2>6. ~MidSwitch' => mem' = Primary'
    BY <1>0, <2>1 DEF MidSwitch, At
  <2> QED
    BY <1>0, <1>8, <2>3, <2>4, <2>5, <2>6 DEF SkewInv, LunInv, LunOn
<1>11. CASE SetsLun
  <2>1. pc = "sa_switch" /\ same /\ mem' = mem /\ SetBootLun
    BY <1>11 DEF SetsLun
  <2>2. slot \in Slot /\ ActiveSlot(mem) = slot
    BY <1>0, <1>2, <2>1 DEF ActiveInv
  <2>3. GuidsFollow(mem) <=> ~skewed
    BY <1>0, <1>2, <2>1 DEF SkewInv
  <2>4. bootLun' = LunOfSlot(NamedSlot(mem)) /\ ~lunSet'
    BY <1>0, <2>1, <2>2 DEF NamedSlot, Slot, NoSlot
  <2> QED
    BY <1>0, <1>8, <2>1, <2>3, <2>4 DEF SkewInv, LunInv, LunOn
<1>12. CASE ~Swaps /\ ~SetsLun
  <2>1. Quiet
    BY <1>0, <1>7, <1>12 DEF Effect, Idles, SetsUp, Chooses, Judges, Renews, Validates,
         Launches
  <2>2. GuidsFollow(mem') <=> GuidsFollow(mem)
    BY <1>5, <1>9, <2>1 DEF Quiet
  <2>3. (GuidsFollow(mem) <=> ~skewed) /\ (GuidsFollow(Primary) <=> ~skewed)
    BY <1>0, <1>2, <1>3, <2>1 DEF SkewInv, Quiet
  <2>4. crashes = 0 => LunOn(NamedSlot(mem)) /\ LunOn(NamedSlot(Primary))
    BY <1>0, <1>2, <1>3, <2>1 DEF LunInv, Quiet
  <2>5. UNCHANGED <<bootLun, lunSet>>
    BY <2>1 DEF Quiet
  <2> QED
    BY <1>0, <1>8, <1>9, <2>2, <2>3, <2>4, <2>5 DEF SkewInv, LunInv, LunOn
<1> QED
  BY <1>10, <1>11, <1>12

LEMMA PolicyProgram ==
  ASSUME TypeInv, SyncInv, BootInv, TrustedInv, Program, Trusted'
  PROVE  PolicyInv'
<1>0. Effect /\ Between /\ Primary' = Primary /\ mem = Primary
  BY TrustedProgram DEF Between
<1>1. /\ mem \in Table /\ "_a" \in Slot /\ NoSlot \notin Slot
      /\ Policy!ActiveSlot(View(mem)) = ActiveSlot(mem)
      /\ \A s \in Slot : View(mem)[s] = BootAttr(mem, s)
  BY PolicyActive, BootAttrs DEF TypeInv, TypeOK, Slot, NoSlot
<1> SUFFICES ASSUME pc' # "hlos"
             PROVE  View(mem') = View(mem) \/ PolicyStep(View(mem), View(mem'))
  BY <1>0 DEF PolicyInv
<1>2. CASE Idles \/ SetsLun \/ Validates
  BY <1>2 DEF Idles, SetsLun, Validates
<1>3. CASE Swaps
  BY <1>1, <1>3, SwapKeeps, ViewSameAttrs DEF Swaps
<1>4. CASE SetsUp
  <2>1. View(mem') = Policy!FirstBoot(View(mem))
    BY <1>1, <1>4, PolicyEdits DEF SetsUp
  <2>2. Policy!Pristine(View(mem))
    <3>1. ActiveSlot(mem) = NoSlot /\ Pristine(mem)
      BY <1>4 DEF SetsUp
    <3>2. View(mem)["_a"] = BootAttr(mem, "_a")
      BY <1>1
    <3> QED
      BY <1>1, <3>1, <3>2 DEF Pristine, Policy!Pristine, Policy!NoSlot, NoSlot
  <2> QED
    BY <2>1, <2>2 DEF PolicyStep
<1>5. CASE Chooses
  <2> DEFINE s == ActiveSlot(mem)
             a == RetryTaken(BootAttr(mem, s))
  <2>1. /\ s \in Slot /\ ~BootAttr(mem, s).unboot
        /\ \/ mem' = mem
           \/ /\ ~BootAttr(mem, s).succ /\ BootAttr(mem, s).retry > 0
              /\ mem' = SetBoot(mem, s, a)
    BY <1>5 DEF Chooses
  <2>2. CASE mem' = mem
    BY <2>2
  <2>3. CASE /\ ~BootAttr(mem, s).succ /\ BootAttr(mem, s).retry > 0
             /\ mem' = SetBoot(mem, s, a)
    <3>1. View(mem') = Policy!Paid(View(mem), s)
      BY <1>1, <2>1, <2>3, PolicyEdits
    <3>2. Policy!OnTrial(View(mem), s)
      BY <1>1, <2>1, <2>3 DEF Policy!OnTrial
    <3>3. s # NoSlot
      BY <1>1, <2>1
    <3> HIDE DEF a
    <3> QED
      BY <1>1, <3>1, <3>2, <3>3 DEF PolicyStep
  <2> QED
    BY <2>1, <2>2, <2>3
<1>6. CASE Judges
  <2>1. PICK s \in Slot :
          /\ ActiveSlot(mem) = s
          /\ \E a \in {UnbootableAttr(BootAttr(mem, s)),
                       [BootAttr(mem, s) EXCEPT !.unboot = FALSE]} :
               mem' = SetBoot(mem, s, a)
    BY <1>6 DEF Judges
  <2>2. View(mem') \in {Policy!GivenUp(View(mem), s), Policy!Pardoned(View(mem), s)}
    <3> DEFINE b == BootAttr(mem, s)
               d == [b EXCEPT !.unboot = FALSE]
    <3>1. /\ View(SetBoot(mem, s, UnbootableAttr(b))) = Policy!GivenUp(View(mem), s)
          /\ View(SetBoot(mem, s, d)) = Policy!Pardoned(View(mem), s)
      BY <1>1, PolicyEdits
    <3>2. mem' = SetBoot(mem, s, UnbootableAttr(b)) \/ mem' = SetBoot(mem, s, d)
      BY <2>1
    <3> HIDE DEF b, d
    <3> QED
      BY <3>1, <3>2
  <2>3. s # NoSlot /\ Policy!ActiveSlot(View(mem)) = s
    BY <1>1, <2>1
  <2> QED
    BY <2>2, <2>3 DEF PolicyStep
<1>7. CASE Renews
  <2>1. PICK s \in Slot : mem' = SetBoot(mem, s, FlashedAttr(BootAttr(mem, s)))
    BY <1>7 DEF Renews
  <2>2. View(mem') = Policy!Renewed(View(mem), s)
    BY <1>1, <2>1, PolicyEdits
  <2> QED
    BY <2>2 DEF PolicyStep
<1>8. CASE Activates
  <2>1. slot' \in Slot /\ ActiveSlot(mem) # NoSlot
    BY <1>8 DEF Activates
  <2>2. PICK r \in BOOLEAN : mem' = SlotActivated(mem, slot', r)
    BY <1>8 DEF Activates
  <2>3. View(mem') = Policy!Switched(View(mem), slot', r)
    BY <1>1, <2>1, <2>2, PolicySwitch
  <2> QED
    BY <1>1, <2>1, <2>3 DEF PolicyStep
<1>9. CASE Launches
  BY <1>9 DEF Launches
<1> QED
  BY <1>0, <1>2, <1>3, <1>4, <1>5, <1>6, <1>7, <1>8, <1>9 DEF Effect

(* A clean update leaves the primary table's boot partitions as they were, *)
(* or as they are in memory, all at once: they are in one LUN.             *)
LEMMA UpdateBoot ==
  ASSUME TypeInv, SyncInv, Clean, UpdateCopy
  PROVE  SameBoot(Primary', Primary) \/ SameBoot(Primary', mem)
<1>0. pc = "upa" /\ disk' = [disk EXCEPT ![iter] = ThisPass.table]
  BY DEF UpdateCopy
<1>1. disk \in [Copy -> Table] /\ iter \in Copy
  BY DEF TypeInv, TypeOK, FlashOK, UpaOK
<1>2. CASE iter = "backup"
  <2>1. Primary' = Primary
    BY <1>0, <1>1, <1>2 DEF Primary, Copy
  <2> QED
    BY <2>1 DEF SameBoot
<1>3. CASE iter = "primary"
  <2>1. Primary' = ThisPass.table
    BY <1>0, <1>1, <1>3 DEF Primary, Copy
  <2>2. \A p \in Ptn : Primary'[p] = IF LunOf[p] = lun THEN mem[p] ELSE Primary[p]
    BY <1>0, <1>3, <2>1, CleanPass DEF Primary
  <2>3. PICK l \in Luns : \A s \in Slot : LunOf[BootPtn(s)] = l /\ LunOf[AblPtn(s)] = l
    BY BootPtnFacts
  <2>4. \A s \in Slot : BootPtn(s) \in Ptn /\ AblPtn(s) \in Ptn
    BY BootPtnType
  <2>5. CASE l = lun
    BY <2>2, <2>3, <2>4, <2>5 DEF SameBoot
  <2>6. CASE l # lun
    BY <2>2, <2>3, <2>4, <2>6 DEF SameBoot
  <2> QED
    BY <2>5, <2>6
<1> QED
  BY <1>1, <1>2, <1>3 DEF Copy

LEMMA TrustedUpdate ==
  ASSUME TypeInv, SyncInv, BootInv, TrustedInv, UpdateCopy, Trusted'
  PROVE  /\ ActiveInv' /\ SuccessInv' /\ RetryInv' /\ SkewInv' /\ LunInv' /\ PolicyInv'
         /\ View(Primary') = View(Primary) \/ PolicyStep(View(Primary), View(Primary'))
<1>0. Next
  BY DEF Next, Loader
<1>1. Trusted /\ Clean /\ Clean' /\ SyncInv'
  BY <1>0, GhostGrows, SyncNext DEF Trusted, Clean
<1>2. /\ pc = "upa" /\ UNCHANGED <<mem, bootLun, lunSet, op, attempts, ghost>>
      /\ (pc' = "upa" /\ ret' = ret) \/ (pc' = ret /\ pc' # "upa")
  BY UpdateAt
<1>3. /\ ret \notin {"hlos", "off", "enumerated"}
      /\ UNCHANGED <<slot, same, counted, crashes, skewed>>
  BY <1>2 DEF BootInv, op, ghost
<1>4. /\ At("sa_switch")' <=> At("sa_switch")
      /\ At("sa_mark")' <=> At("sa_mark")
      /\ At("validate")' <=> At("validate")
      /\ At("load")' <=> At("load")
  BY <1>2 DEF At
<1>5. ActiveInv /\ SuccessInv /\ RetryInv /\ SkewInv /\ LunInv /\ PolicyInv
  BY <1>1 DEF TrustedInv
<1>6. SameBoot(Primary', Primary) \/ SameBoot(Primary', mem)
  BY <1>1, UpdateBoot
<1>7. pc' # "upa" => mem' = Primary'
  BY <1>1, <1>2, <1>3 DEF SyncInv, PrimaryInSync, Primary
<1>8. pc' = "upa" => (MidSwitch' <=> MidSwitch)
  BY <1>2 DEF MidSwitch
<1>9. pc' # "upa" => (~MidSwitch' => ~At("sa_switch"))
  BY <1>2 DEF MidSwitch, At
<1>10. \/ /\ View(Primary') = View(Primary)
          /\ \A s \in Slot : BootAttr(Primary', s) = BootAttr(Primary, s)
          /\ ActiveSlot(Primary') = ActiveSlot(Primary)
          /\ NamedSlot(Primary') = NamedSlot(Primary)
          /\ Pristine(Primary') <=> Pristine(Primary)
          /\ GuidsFollow(Primary') <=> GuidsFollow(Primary)
       \/ /\ View(Primary') = View(mem)
          /\ \A s \in Slot : BootAttr(Primary', s) = BootAttr(mem, s)
          /\ ActiveSlot(Primary') = ActiveSlot(mem)
          /\ NamedSlot(Primary') = NamedSlot(mem)
          /\ GuidsFollow(Primary') <=> GuidsFollow(mem)
  BY <1>6, SameView
<1>11. "_a" \in Slot /\ "_b" \in Slot
  BY DEF Slot
<1>12. ActiveInv'
  <2>1. OneActive(Primary')
    BY <1>5, <1>10, <1>11 DEF ActiveInv, OneActive
  <2>2. ActiveSlot(mem) # NoSlot
    BY <1>2, <1>5 DEF ActiveInv
  <2>3. ActiveSlot(Primary') = NoSlot
          => Pristine(Primary') /\ ~BootAttr(Primary', "_b").active
    BY <1>5, <1>10, <1>11, <2>2 DEF ActiveInv
  <2> QED
    BY <1>2, <1>3, <1>4, <1>5, <2>1, <2>2, <2>3 DEF ActiveInv
<1>13. SuccessInv'
  BY <1>2, <1>5, <1>10 DEF SuccessInv
<1>14. RetryInv'
  BY <1>2, <1>3, <1>4, <1>5, <1>10 DEF RetryInv
<1>15. SkewInv' /\ LunInv'
  <2>1. ~MidSwitch' => ~At("sa_switch")
    BY <1>2, <1>8, <1>9 DEF MidSwitch, At
  <2>2. CASE pc' = "upa"
    BY <1>2, <1>3, <1>4, <1>5, <1>8, <1>10, <2>1, <2>2 DEF SkewInv, LunInv, LunOn
  <2>3. CASE pc' # "upa"
    BY <1>2, <1>3, <1>4, <1>5, <1>7, <2>1, <2>3 DEF SkewInv, LunInv, LunOn
  <2> QED
    BY <2>2, <2>3
<1>16. PolicyInv' /\ (View(Primary') = View(Primary) \/ PolicyStep(View(Primary), View(Primary')))
  BY <1>2, <1>5, <1>10 DEF PolicyInv
<1> QED
  BY <1>12, <1>13, <1>14, <1>15, <1>16

LEMMA TrustedPowered ==
  ASSUME TypeInv, SyncInv, TrustedInv, Powered, Trusted'
  PROVE  ActiveInv' /\ SuccessInv' /\ RetryInv' /\ SkewInv' /\ LunInv' /\ PolicyInv'
<1>0. Next
  BY DEF Next, Loader, Environment, Powered
<1>1. Trusted
  BY <1>0, GhostGrows DEF Trusted
<1>2. ActiveInv /\ SuccessInv /\ RetryInv /\ SkewInv /\ LunInv
  BY <1>1 DEF TrustedInv
<1>3. /\ pc' = "off" /\ mem' = Primary /\ Primary' = Primary
      /\ UNCHANGED <<bootLun, lunSet>> /\ attempts' = attempts
  BY PoweredShape DEF PowerDown, Primary
<1>4. \A k : At(k)' => k = "off"
  BY <1>3 DEF At
<1>5. ~MidSwitch' /\ ~At("sa_switch")'
  BY <1>3, <1>4 DEF MidSwitch, At
<1>6. ActiveInv' /\ SuccessInv' /\ PolicyInv'
  BY <1>2, <1>3, <1>4 DEF ActiveInv, SuccessInv, PolicyInv, At
<1>7. RetryInv'
  BY <1>2, <1>3, <1>4 DEF RetryInv, At
<1>8. CASE PowerLoss \/ TornWrite
  <2>1. skewed' = ~GuidsFollow(Primary) /\ crashes' = crashes + 1 /\ crashes \in Nat
    BY <1>8 DEF PowerLoss, TornWrite, Crash, Primary, TypeInv, TypeOK, GhostOK
  <2>2. crashes' # 0
    BY <2>1
  <2>3. SkewInv'
    BY <1>3, <1>5, <2>1 DEF SkewInv
  <2> QED
    BY <1>6, <1>7, <2>2, <2>3 DEF LunInv
<1>9. CASE ResetSystem \/ Reboot
  <2>1. ~MidSwitch /\ skewed' = skewed /\ crashes' = crashes
    BY <1>9 DEF ResetSystem, Reboot, MidSwitch, ghost
  <2> QED
    BY <1>2, <1>3, <1>5, <1>6, <1>7, <2>1 DEF SkewInv, LunInv, LunOn
<1> QED
  BY <1>8, <1>9 DEF Powered

LEMMA TrustedPowerOn ==
  ASSUME TypeInv, TrustedInv, PowerOn, Trusted'
  PROVE  /\ ActiveInv' /\ SuccessInv' /\ RetryInv' /\ SkewInv' /\ LunInv' /\ PolicyInv'
         /\ Primary' = Primary
<1>1. Trusted /\ \A l \in Luns : valid["primary"][l]
  BY DEF PowerOn, Trusted, TypeInv, TypeOK, FlashOK, Copy, GhostOK
<1>2. disk["primary"] \in [Ptn -> Entry]
  BY DEF TypeInv, TypeOK, FlashOK, Copy, Table
<1>3. disk'["primary"] = [p \in Ptn |-> IF valid["primary"][LunOf[p]] THEN disk["primary"][p]
                                        ELSE disk[Other("primary")][p]]
  BY DEF PowerOn, Copy
<1>4. Primary' = Primary
  BY <1>1, <1>2, <1>3, TableAssumption DEF Primary
<1>5. /\ pc = "off" /\ pc' = "enumerated" /\ mem' = Primary'
      /\ UNCHANGED <<bootLun, lunSet, attempts, skewed, crashes>>
  BY DEF PowerOn, Primary
<1>6. ActiveInv /\ SuccessInv /\ RetryInv /\ SkewInv /\ LunInv
  BY <1>1 DEF TrustedInv
<1>7. ~MidSwitch /\ ~MidSwitch'
  BY <1>5 DEF MidSwitch
<1>8. \A k : At(k)' => k = "enumerated"
  BY <1>5 DEF At
<1>9. ~At("sa_switch")' /\ ~At("sa_mark")' /\ ~At("validate")' /\ ~At("load")'
  BY <1>8
<1>10. ActiveInv' /\ SuccessInv' /\ PolicyInv'
  BY <1>4, <1>5, <1>6, <1>9 DEF ActiveInv, SuccessInv, PolicyInv
<1>11. RetryInv'
  BY <1>4, <1>5, <1>6, <1>9 DEF RetryInv
<1>12. SkewInv' /\ LunInv'
  BY <1>4, <1>5, <1>6, <1>7, <1>9 DEF SkewInv, LunInv, LunOn
<1> QED
  BY <1>4, <1>10, <1>11, <1>12

(* The system marks its slot successful: nothing else changes.             *)
LEMMA MarkedView ==
  ASSUME TypeInv, BootInv, Clean, MarkBootSuccessful
  PROVE  /\ slot \in Slot /\ View(Primary') = Policy!Succeeded(View(Primary), slot)
         /\ SameGuids(Primary', Primary)
         /\ ActiveSlot(Primary') = ActiveSlot(Primary) /\ ActiveSlot(Primary) = slot
         /\ \A s \in Slot :
              /\ BootAttr(Primary', s).active = BootAttr(Primary, s).active
              /\ BootAttr(Primary', s).retry = BootAttr(Primary, s).retry
              /\ BootAttr(Primary, s).succ => BootAttr(Primary', s).succ
<1> DEFINE a == BootAttr(Primary, slot)
           b == [a EXCEPT !.succ = TRUE]
<1>1. pc = "hlos" /\ Primary' = SetBoot(Primary, slot, b)
  BY DEF MarkBootSuccessful, Primary, Copy
<1>2. slot \in Slot /\ ActiveSlot(Primary) = slot /\ Primary \in Table
  BY <1>1 DEF BootInv, CheckedSlot, ChosenSlot, TypeInv, TypeOK, FlashOK, Copy, Primary
<1>3. a \in Attr /\ View(Primary)[slot] = a
  BY <1>2, BootAttrs
<1>4. b.prio = a.prio /\ b.active = a.active /\ b.retry = a.retry /\ b.succ
  BY <1>3 DEF Attr
<1> HIDE DEF a, b
<1>5. /\ View(Primary') = [View(Primary) EXCEPT ![slot] = b]
      /\ SameGuids(Primary', Primary)
      /\ \A s \in Slot : BootAttr(Primary', s) = IF s = slot THEN b ELSE BootAttr(Primary, s)
  BY <1>1, <1>2, ViewSet, SetBootKeeps
<1>6. View(Primary') = Policy!Succeeded(View(Primary), slot)
  BY <1>3, <1>5 DEF Policy!Succeeded, b
<1>7. \A s \in Slot : /\ BootAttr(Primary', s).active = BootAttr(Primary, s).active
                      /\ BootAttr(Primary', s).prio = BootAttr(Primary, s).prio
                      /\ BootAttr(Primary', s).retry = BootAttr(Primary, s).retry
                      /\ BootAttr(Primary, s).succ => BootAttr(Primary', s).succ
  BY <1>4, <1>5 DEF a
<1>8. ActiveSlot(Primary') = ActiveSlot(Primary)
  BY <1>7 DEF ActiveSlot, Slot
<1> QED
  BY <1>2, <1>5, <1>6, <1>7, <1>8

LEMMA TrustedMark ==
  ASSUME TypeInv, BootInv, TrustedInv, MarkBootSuccessful, Trusted'
  PROVE  ActiveInv' /\ SuccessInv' /\ RetryInv' /\ SkewInv' /\ LunInv' /\ PolicyInv'
<1>1. /\ pc = "hlos" /\ pc' = pc
      /\ UNCHANGED <<mem, bootLun, lunSet, attempts, crashes, skewed, slot, ret>> /\ Trusted
  BY DEF MarkBootSuccessful, Trusted, ghost, op, upa
<1>2. ActiveInv /\ SuccessInv /\ RetryInv /\ SkewInv /\ LunInv /\ Clean
  BY <1>1 DEF TrustedInv, Trusted, Clean
<1>3. /\ slot \in Slot /\ SameGuids(Primary', Primary)
      /\ ActiveSlot(Primary') = ActiveSlot(Primary) /\ ActiveSlot(Primary) = slot
      /\ \A s \in Slot :
           /\ BootAttr(Primary', s).active = BootAttr(Primary, s).active
           /\ BootAttr(Primary', s).retry = BootAttr(Primary, s).retry
           /\ BootAttr(Primary, s).succ => BootAttr(Primary', s).succ
  BY <1>2, MarkedView
<1>4. /\ ~MidSwitch /\ ~MidSwitch'
      /\ ~At("sa_switch") /\ ~At("sa_mark") /\ ~At("validate") /\ ~At("load")
      /\ ~At("sa_switch")' /\ ~At("sa_mark")' /\ ~At("validate")' /\ ~At("load")'
  BY <1>1 DEF MidSwitch, At
<1>5. "_a" \in Slot /\ "_b" \in Slot /\ NoSlot \notin Slot
  BY DEF Slot, NoSlot
<1>6. ActiveInv'
  <2>1. OneActive(Primary')
    BY <1>2, <1>3, <1>5 DEF ActiveInv, OneActive
  <2> QED
    BY <1>1, <1>2, <1>3, <1>4, <1>5, <2>1 DEF ActiveInv
<1>7. SuccessInv' /\ PolicyInv'
  BY <1>1, <1>2, <1>3 DEF SuccessInv, PolicyInv
<1>8. RetryInv'
  BY <1>1, <1>2, <1>3, <1>4 DEF RetryInv
<1>9. NamedSlot(Primary') = NamedSlot(Primary)
  BY <1>3 DEF NamedSlot
<1>10. GuidsFollow(Primary') <=> GuidsFollow(Primary)
  BY <1>3, <1>9, FollowSided, SidedSame
<1>11. SkewInv' /\ LunInv'
  BY <1>1, <1>2, <1>4, <1>9, <1>10 DEF SkewInv, LunInv, LunOn
<1> QED
  BY <1>6, <1>7, <1>8, <1>11

(* The steps a trusted state allows.                                       *)
LEMMA TrustedSteps ==
  ASSUME TypeInv, Next, Trusted'
  PROVE  Trusted /\ (\/ Powered \/ UpdateCopy \/ Program \/ PowerOn \/ MarkBootSuccessful
                     \/ CmdFlashPartition)
<1>1. Trusted /\ ~MenuPreempts
  BY GhostGrows DEF Trusted
<1>2. ~(ReadFails \/ WriteFails \/ FlushFails)
  <2>1. faults = 0 /\ faults' = 0
    BY <1>1 DEF Trusted
  <2> QED
    BY <2>1 DEF ReadFails, WriteFails, FlushFails, Fault
<1> QED
  BY <1>1, <1>2, NextShape DEF Updates

(* "flash partition" changes nothing but the boot LUN.                     *)
LEMMA TrustedFlash ==
  ASSUME TrustedInv, CmdFlashPartition, Trusted'
  PROVE  ActiveInv' /\ SuccessInv' /\ RetryInv' /\ SkewInv' /\ LunInv' /\ PolicyInv'
<1>1. /\ UNCHANGED <<disk, mem, pc, ret, slot, same, counted, attempts, crashes, skewed>>
      /\ Trusted /\ bootLun' = 1 /\ lunSet'
  BY DEF CmdFlashPartition, Trusted, upa, op, ghost
<1>2. ActiveInv /\ SuccessInv /\ RetryInv /\ SkewInv /\ PolicyInv
  BY <1>1 DEF TrustedInv
<1>3. Primary' = Primary /\ (MidSwitch' <=> MidSwitch)
  BY <1>1 DEF Primary, MidSwitch
<1>4. LunInv'
  BY <1>1 DEF LunInv, LunOn
<1>5. ActiveInv' /\ SuccessInv' /\ PolicyInv'
  BY <1>1, <1>2, <1>3 DEF ActiveInv, SuccessInv, PolicyInv, OneActive, At
<1>6. RetryInv' /\ SkewInv'
  BY <1>1, <1>2, <1>3 DEF RetryInv, SkewInv, At
<1> QED
  BY <1>4, <1>5, <1>6

SlotInv == TypeInv /\ SyncInv /\ BootInv /\ PairedInv /\ TrustedInv

LEMMA TrustedNext ==
  ASSUME SlotInv, Next
  PROVE  TrustedInv'
<1> USE DEF SlotInv
<1> SUFFICES ASSUME Trusted'
             PROVE  /\ ActiveInv' /\ SuccessInv' /\ RetryInv' /\ SkewInv' /\ LunInv'
                    /\ PolicyInv'
  BY DEF TrustedInv
<1>1. CASE Powered
  BY <1>1, TrustedPowered
<1>2. CASE UpdateCopy
  BY <1>2, TrustedUpdate
<1>3. CASE Program
  BY <1>3, ActiveProgram, RetryProgram, SkewProgram, PolicyProgram
<1>4. CASE PowerOn
  BY <1>4, TrustedPowerOn
<1>5. CASE MarkBootSuccessful
  BY <1>5, TrustedMark
<1>6. CASE CmdFlashPartition
  BY <1>6, TrustedFlash
<1> QED
  BY <1>1, <1>2, <1>3, <1>4, <1>5, <1>6, TrustedSteps

LEMMA FactoryFacts ==
  /\ \A s \in Slot : BootAttr(FactoryTable, s) = NoAttr
  /\ ActiveSlot(FactoryTable) = NoSlot /\ Pristine(FactoryTable)
  /\ GuidsFollow(FactoryTable)
<1>1. \A s \in Slot : BootAttr(FactoryTable, s) = NoAttr
  BY BootPtnType DEF BootAttr, FactoryTable
<1>2. "_a" \in Slot /\ "_b" \in Slot
  BY DEF Slot
<1>3. ActiveSlot(FactoryTable) = NoSlot
  BY <1>1, <1>2 DEF ActiveSlot, NoAttr
<1>4. Pristine(FactoryTable)
  BY <1>1, <1>2 DEF Pristine, NoAttr
<1>5. Sided(FactoryTable, "_a")
  BY DEF Sided, GuidOnSide, FactoryTable, Slotted, Slot
<1>6. GuidsFollow(FactoryTable)
  BY <1>3, <1>5, FollowSided DEF NamedSlot
<1> QED
  BY <1>1, <1>3, <1>4, <1>6

LEMMA TrustedInit == Init => TrustedInv
<1> SUFFICES ASSUME Init PROVE TrustedInv
  OBVIOUS
<1>1. /\ Primary = FactoryTable /\ mem = FactoryTable /\ pc = "off" /\ ~skewed
      /\ bootLun = 1 /\ ~lunSet /\ attempts = [s \in Slot |-> 0]
  BY DEF Init, Primary, Copy
<1>2. ~MidSwitch /\ ~At("sa_switch") /\ ~At("sa_mark") /\ ~At("validate") /\ ~At("load")
  BY <1>1 DEF MidSwitch, At
<1>3. "_a" \in Slot /\ "_b" \in Slot
  BY DEF Slot
<1>4. ActiveInv
  BY <1>1, <1>2, <1>3, FactoryFacts DEF ActiveInv, OneActive, NoAttr
<1>5. SuccessInv /\ PolicyInv
  BY <1>1 DEF SuccessInv, PolicyInv
<1>6. RetryInv
  BY <1>1, <1>2, FactoryFacts, BoundsAssumption DEF RetryInv, NoAttr
<1>7. SkewInv
  BY <1>1, <1>2, FactoryFacts DEF SkewInv
<1>8. LunInv
  BY <1>1, <1>2, FactoryFacts DEF LunInv, LunOn, NamedSlot, LunOfSlot
<1> QED
  BY <1>4, <1>5, <1>6, <1>7, <1>8 DEF TrustedInv

LEMMA SlotAlways == Spec => []SlotInv
<1>1. SlotInv /\ [Next]_vars => TrustedInv'
  <2>1. ASSUME TrustedInv, UNCHANGED vars PROVE TrustedInv'
    <3>1. UNCHANGED <<disk, bootLun, lunSet, mem, pc, ret, slot, same, counted, attempts, crashes,
                      faults, preempts, restored, skewed>>
      BY <2>1 DEF vars, flash, upa, op, ghost
    <3> QED
      BY <2>1, <3>1 DEF TrustedInv, Trusted, ActiveInv, SuccessInv, RetryInv, SkewInv,
         LunInv, LunOn, PolicyInv, OneActive, MidSwitch, At, Primary
  <2> QED
    BY <2>1, TrustedNext DEF SlotInv
<1>2. Init => TrustedInv
  BY TrustedInit
<1> QED
  BY <1>1, <1>2, BootAlways, PairedAlways, PTL DEF SlotInv, Spec

(* Every counted launch is paid for on flash before it happens: a slot     *)
(* that is never reported successful gets at most MaxRetry of them between *)
(* two refills, however often and wherever power is lost.                  *)
THEOREM RetriesAreBounded == Spec => []AttemptsBounded
<1>1. SlotInv => AttemptsBounded
  BY DEF SlotInv, TrustedInv, Trusted, Clean, RetryInv, AttemptsBounded, Primary
<1> QED
  BY <1>1, SlotAlways, PTL

(* Attributes and GUIDs on flash name the same slot unless a power loss in *)
(* the middle of SetActiveSlot put them at odds, and no command repairs    *)
(* that: for every layout of the slotted partitions over the LUNs.         *)
THEOREM SkewIsKept == Spec => []SkewPersists
<1>1. SlotInv => SkewPersists
  BY DEF SlotInv, TrustedInv, Trusted, Clean, SkewInv, SkewPersists, Primary
<1> QED
  BY <1>1, SlotAlways, PTL

(* Without a power loss the boot LUN is the active slot's whenever no      *)
(* switch of SetActiveSlot is under way, or LUN 1 when "flash partition"   *)
(* came after the last switch.                                             *)
THEOREM LunIsKept == Spec => []LunFollows
<1>1. SlotInv => LunFollows
  <2> SUFFICES ASSUME SlotInv, Clean, crashes = 0, preempts = 0, ~MidSwitch
               PROVE  bootLun = IF ActiveSlot(Primary) = NoSlot \/ lunSet THEN 1
                                ELSE LunOfSlot(ActiveSlot(Primary))
    BY DEF LunFollows, Primary
  <2>1. LunOn(NamedSlot(Primary))
    BY DEF SlotInv, TrustedInv, Trusted, Clean, LunInv
  <2> QED
    BY <2>1 DEF LunOn, NamedSlot, LunOfSlot
<1> QED
  BY <1>1, SlotAlways, PTL

(* After the first boot GetActiveSlot finds an active slot ever after,     *)
(* wherever power was lost, as long as no menu callback cut a command      *)
(* short: the primary table never loses its active slot.                   *)
THEOREM ActiveIsKept == Spec => []ActiveExists
<1>1. SlotInv => ActiveExists
  BY DEF SlotInv, TrustedInv, Trusted, Clean, ActiveInv, ActiveExists, HasActive
<1> QED
  BY <1>1, SlotAlways, PTL

-----------------------------------------------------------------------------
(* The policy.  What the primary table says of the boot partitions is one  *)
(* state of SlotPolicy, and every step of the boot loader is one of its    *)
(* steps or leaves that state alone.                                       *)

Running == IF pc = "hlos" THEN slot ELSE NoSlot

LEMMA PolicyInit ==
  ASSUME Init
  PROVE  Policy!Init
<1>1. Primary = FactoryTable /\ pc = "off" /\ Trusted
  BY DEF Init, Primary, Copy, Trusted
<1>2. View(Primary) = [s \in Slot |-> NoAttr]
  BY <1>1, FactoryFacts DEF View
<1>3. Trusted = TRUE
  BY <1>1
<1>4. [s \in Slot |-> NoAttr] = [s \in Policy!Slot |-> Policy!NoAttr]
  BY DEF Slot, Policy!Slot, NoAttr, Policy!NoAttr
<1>5. [s \in Slot |-> BootAttr(disk["primary"], s)] = View(Primary)
  BY DEF View, Primary
<1>6. (IF pc = "hlos" THEN slot ELSE NoSlot) = Policy!NoSlot
  BY <1>1 DEF NoSlot, Policy!NoSlot
<1> QED
  BY <1>2, <1>3, <1>4, <1>5, <1>6 DEF Policy!Init

(* The steps of the policy, in the terms of this module.                   *)
LEMMA PolicySteps ==
  /\ (/\ Trusted /\ Trusted' /\ Running = NoSlot /\ Running' = NoSlot
      /\ PolicyStep(View(Primary), View(Primary'))) => Policy!Next
  /\ (/\ Trusted /\ Trusted' /\ Running' = NoSlot
      /\ View(Primary') = View(Primary)) => Policy!Next
  /\ (/\ Trusted /\ Trusted' /\ Running = NoSlot
      /\ Running' = Policy!ActiveSlot(View(Primary))
      /\ Running' # NoSlot /\ ~View(Primary)[Running'].unboot
      /\ View(Primary') = View(Primary)) => Policy!Next
  /\ (/\ Trusted /\ Trusted' /\ Running # NoSlot /\ Running' = Running
      /\ View(Primary') = Policy!Succeeded(View(Primary), Running)) => Policy!Next
  /\ (/\ ~Trusted' /\ View(Primary') \in [Slot -> Attr]
      /\ Running' \in Slot \cup {NoSlot}) => Policy!Next
<1>a. /\ [s \in Slot |-> BootAttr(disk["primary"], s)] = View(Primary)
      /\ [s \in Slot |-> BootAttr(disk'["primary"], s)] = View(Primary')
  BY DEF View, Primary
<1>b. /\ (IF pc = "hlos" THEN slot ELSE NoSlot) = Running
      /\ (IF pc' = "hlos" THEN slot' ELSE NoSlot) = Running'
  BY DEF Running
<1>c. Policy!Slot = Slot /\ Policy!NoSlot = NoSlot
  BY DEF Policy!Slot, Slot, Policy!NoSlot, NoSlot
<1>1. ASSUME Trusted, Trusted', Running = NoSlot, Running' = NoSlot,
             PolicyStep(View(Primary), View(Primary'))
      PROVE  Policy!Next
  <2>1. Policy!BootLoaderStep
    BY <1>1, <1>a, <1>b, <1>c, Zenon DEF Policy!BootLoaderStep, PolicyStep
  <2> QED
    BY <1>1, <2>1 DEF Policy!Next
<1>2. ASSUME Trusted, Trusted', Running' = NoSlot, View(Primary') = View(Primary)
      PROVE  Policy!Next
  BY <1>2, <1>a, <1>b, <1>c DEF Policy!Next, Policy!Stop
<1>3. ASSUME Trusted, Trusted', Running = NoSlot,
             Running' = Policy!ActiveSlot(View(Primary)),
             Running' # NoSlot, ~View(Primary)[Running'].unboot,
             View(Primary') = View(Primary)
      PROVE  Policy!Next
  <2>1. Policy!Launch
    BY <1>3, <1>a, <1>b, <1>c, Zenon DEF Policy!Launch
  <2> QED
    BY <1>3, <2>1 DEF Policy!Next
<1>4. ASSUME Trusted, Trusted', Running # NoSlot, Running' = Running,
             View(Primary') = Policy!Succeeded(View(Primary), Running)
      PROVE  Policy!Next
  <2>1. Policy!MarkSuccessful
    BY <1>4, <1>a, <1>b, <1>c, Zenon DEF Policy!MarkSuccessful
  <2> QED
    BY <1>4, <2>1 DEF Policy!Next
<1>5. ASSUME ~Trusted', View(Primary') \in [Slot -> Attr], Running' \in Slot \cup {NoSlot}
      PROVE  Policy!Next
  BY <1>5, <1>a, <1>b, <1>c DEF Policy!Next, Policy!Lose, Policy!Attr, Attr
<1> QED
  BY <1>1, <1>2, <1>3, <1>4, <1>5

LEMMA PolicyNext ==
  ASSUME SlotInv, Next
  PROVE  Policy!Next
<1> USE DEF SlotInv
<1>1. TypeInv' /\ BootInv' /\ NoSlot \notin Slot
  BY TypeNext, BootNext DEF Slot, NoSlot
<1>2. CASE ~Trusted'
  <2>1. Primary' \in Table /\ slot' \in Slot \cup {NoSlot}
    BY <1>1 DEF TypeInv, TypeOK, FlashOK, OpOK, Primary, Copy
  <2>2. View(Primary') \in [Slot -> Attr]
    BY <2>1, BootAttrs DEF View
  <2>3. Running' \in Slot \cup {NoSlot}
    BY <2>1 DEF Running
  <2> QED
    BY <1>2, <2>2, <2>3, PolicySteps
<1>3. SUFFICES ASSUME Trusted' PROVE Policy!Next
  BY <1>2
<1>4. Trusted /\ (\/ Powered \/ UpdateCopy \/ Program \/ PowerOn \/ MarkBootSuccessful
                 \/ CmdFlashPartition)
  BY <1>3, TrustedSteps
<1>5. Clean /\ Clean'
  BY <1>3, <1>4 DEF Trusted, Clean
<1>6. CASE Powered
  <2>1. Primary' = Primary /\ pc' = "off"
    BY <1>6, PoweredShape DEF PowerDown, Primary
  <2>2. Running' = NoSlot
    BY <2>1 DEF Running
  <2> QED
    BY <1>3, <1>4, <2>1, <2>2, PolicySteps
<1>7. CASE UpdateCopy
  <2>1. pc = "upa" /\ (pc' = "upa" \/ pc' = ret) /\ ret # "hlos"
    BY <1>7, UpdateAt DEF BootInv
  <2>2. Running = NoSlot /\ Running' = NoSlot
    BY <2>1 DEF Running
  <2>3. View(Primary') = View(Primary) \/ PolicyStep(View(Primary), View(Primary'))
    BY <1>3, <1>7, TrustedUpdate
  <2> QED
    BY <1>3, <1>4, <2>2, <2>3, PolicySteps
<1>8. CASE Program
  <2>1. Primary' = Primary /\ Effect /\ Between /\ mem \in Table
    BY <1>3, <1>8, TrustedProgram DEF TypeInv, TypeOK
  <2>2. CASE pc' # "hlos"
    <3>1. Running' = NoSlot
      BY <2>2 DEF Running
    <3> QED
      BY <1>3, <1>4, <2>1, <3>1, PolicySteps
  <2>3. CASE pc' = "hlos"
    <3>1. pc = "load" /\ slot' = slot
      BY <2>1, <2>3, EffectAt DEF Launches
    <3>2. slot \in Slot /\ ActiveSlot(Primary) = slot /\ ~BootAttr(Primary, slot).unboot
      BY <1>5, <2>1, <3>1 DEF BootInv, CheckedSlot, ChosenSlot, At, Between
    <3>3. Running = NoSlot /\ Running' = slot
      BY <2>3, <3>1 DEF Running
    <3>4. Policy!ActiveSlot(View(Primary)) = slot
      BY <2>1, <3>2, PolicyActive DEF Between
    <3>5. View(Primary)[slot] = BootAttr(Primary, slot)
      BY <3>2 DEF View
    <3>6. slot # NoSlot
      BY <1>1, <3>2
    <3> QED
      BY <1>3, <1>4, <2>1, <3>2, <3>3, <3>4, <3>5, <3>6, PolicySteps
  <2> QED
    BY <2>2, <2>3
<1>9. CASE PowerOn
  <2>1. Primary' = Primary /\ pc' = "enumerated"
    BY <1>3, <1>9, TrustedPowerOn DEF PowerOn
  <2>2. Running' = NoSlot
    BY <2>1 DEF Running
  <2> QED
    BY <1>3, <1>4, <2>1, <2>2, PolicySteps
<1>10. CASE MarkBootSuccessful
  <2>1. pc = "hlos" /\ pc' = "hlos" /\ slot' = slot
    BY <1>10 DEF MarkBootSuccessful, op
  <2>2. slot \in Slot /\ View(Primary') = Policy!Succeeded(View(Primary), slot)
    BY <1>5, <1>10, MarkedView
  <2>3. Running = slot /\ Running' = slot /\ slot # NoSlot
    BY <1>1, <2>1, <2>2 DEF Running
  <2> QED
    BY <1>3, <1>4, <2>2, <2>3, PolicySteps
<1>11. CASE CmdFlashPartition
  <2>1. Primary' = Primary /\ pc' = "fastboot"
    BY <1>11 DEF CmdFlashPartition, Primary
  <2>2. Running' = NoSlot
    BY <2>1 DEF Running
  <2> QED
    BY <1>3, <1>4, <2>1, <2>2, PolicySteps
<1> QED
  BY <1>4, <1>6, <1>7, <1>8, <1>9, <1>10, <1>11

(* The boot loader implements the policy: for every layout and any number  *)
(* of power losses, the series of writes behind a slot operation takes the *)
(* attributes on flash from one state of SlotPolicy to the next, or leaves *)
(* them, and a kernel starts only from the slot they name.                 *)
THEOREM SlotRefinement == Spec => ImplementsPolicy
<1>1. Init => Policy!Init
  BY PolicyInit
<1>2. SlotInv /\ [Next]_vars
        => [Policy!Next]_<<[s \in Slot |-> BootAttr(disk["primary"], s)],
                           IF pc = "hlos" THEN slot ELSE NoSlot, Trusted>>
  <2>1. CASE Next
    BY <2>1, PolicyNext
  <2>2. CASE UNCHANGED vars
    BY <2>2 DEF vars, flash, op, ghost, Trusted
  <2> QED
    BY <2>1, <2>2
<1> QED
  BY <1>1, <1>2, SlotAlways, PTL DEF Spec, ImplementsPolicy, Policy!Spec

(* The boot loader never makes a slot successful on flash, not even by way *)
(* of an update that is cut short: only the system that runs from it does. *)
THEOREM SuccessIsEarned == Spec => SuccessOnlyFromHlos
<1>1. ASSUME SlotInv, Next, Clean', preempts' = 0, pc # "hlos", NEW s \in Slot,
             BootAttr(disk'["primary"], s).succ
      PROVE  BootAttr(disk["primary"], s).succ
  <2>1. Trusted'
    BY <1>1 DEF Trusted, Clean
  <2>2. Trusted /\ (\/ Powered \/ UpdateCopy \/ Program \/ PowerOn \/ MarkBootSuccessful
                   \/ CmdFlashPartition)
    BY <1>1, <2>1, TrustedSteps DEF SlotInv
  <2>3. CASE Powered
    BY <1>1, <2>3, PoweredShape
  <2>4. CASE UpdateCopy
    <3>1. SameBoot(Primary', Primary) \/ SameBoot(Primary', mem)
      BY <2>2, <2>4, <1>1, UpdateBoot DEF SlotInv, Trusted, Clean
    <3>2. BootAttr(mem, s).succ => BootAttr(Primary, s).succ
      BY <1>1, <2>2 DEF SlotInv, TrustedInv, SuccessInv
    <3> QED
      BY <1>1, <3>1, <3>2, SameView DEF Primary
  <2>5. CASE Program
    BY <1>1, <2>5, ProgramShape DEF SlotInv
  <2>6. CASE PowerOn
    BY <1>1, <2>1, <2>6, TrustedPowerOn DEF SlotInv, Primary
  <2>7. CASE MarkBootSuccessful
    BY <1>1, <2>7 DEF MarkBootSuccessful
  <2>8. CASE CmdFlashPartition
    BY <1>1, <2>8 DEF CmdFlashPartition
  <2> QED
    BY <2>2, <2>3, <2>4, <2>5, <2>6, <2>7, <2>8
<1>2. SlotInv /\ [Next]_vars =>
        [Clean' /\ preempts' = 0 /\ pc # "hlos" =>
           \A s \in Slot : BootAttr(disk'["primary"], s).succ
                              => BootAttr(disk["primary"], s).succ]_vars
  BY <1>1
<1> QED
  BY <1>2, SlotAlways, PTL DEF Spec, SuccessOnlyFromHlos

=============================================================================
