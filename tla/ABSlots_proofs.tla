---------------------------- MODULE ABSlots_proofs ----------------------------
EXTENDS ABSlots, WellFoundedInduction, TLAPS

(* Every nonempty set of numbers has a least element.                      *)
LEMMA LeastElement ==
  ASSUME NEW T, T \subseteq Nat, T # {}
  PROVE  \E x \in T : \A y \in T : x <= y
<1> DEFINE R == {e \in Nat \X Nat : e[1] < e[2]}
<1>1. IsWellFoundedOn(R, Nat)
  BY NatLessThanWellFounded DEF OpToRel
<1> HIDE DEF R
<1>2. PICK x \in T : \A y \in T : ~ (<<y, x>> \in R)
  BY <1>1, WFMin
<1>3. \A y \in T : ~ (y < x)
  BY <1>2 DEF R
<1> QED
  BY <1>3

(* Induction over the numbers, stated for the set where the claim holds.   *)
LEMMA SetInduction ==
  ASSUME NEW S, 0 \in S, \A n \in Nat : n \in S => n + 1 \in S
  PROVE  Nat \subseteq S
<1> SUFFICES ASSUME Nat \ S # {} PROVE FALSE
  OBVIOUS
<1>1. PICK x \in Nat \ S : \A y \in Nat \ S : x <= y
  BY LeastElement
<1>2. x - 1 \in Nat
  BY <1>1
<1>3. x - 1 \in S
  BY <1>1, <1>2
<1> QED
  BY <1>1, <1>2, <1>3

-----------------------------------------------------------------------------
(* The recursion of Walk is well founded: Walk is what its equation says.  *)

WalkFrom(t, l) == [table |-> t, bak |-> bak, ptr |-> FirstIn(l)]

WalkNext(v, i, l, m) == IF LunOf[i] # l THEN v ELSE PassStep(v, i, m)

IsWalk(g, k, t, l, m) ==
  g = [i \in 0 .. k |-> IF i = 0 THEN WalkFrom(t, l)
                        ELSE WalkNext(g[i - 1], i, l, m)]

LEMMA WalkExists ==
  ASSUME NEW t, NEW l, NEW m, NEW n \in Nat
  PROVE  \E g : IsWalk(g, n, t, l, m)
<1> DEFINE S == {k \in Nat : \E g : IsWalk(g, k, t, l, m)}
<1>1. 0 \in S
  <2> DEFINE g0 == [i \in 0 .. 0 |-> WalkFrom(t, l)]
  <2>1. g0 = [i \in 0 .. 0 |-> IF i = 0 THEN WalkFrom(t, l)
                               ELSE WalkNext(g0[i - 1], i, l, m)]
    OBVIOUS
  <2> QED
    BY <2>1 DEF IsWalk
<1>2. ASSUME NEW k \in Nat, k \in S PROVE k + 1 \in S
  <2>1. PICK g : IsWalk(g, k, t, l, m)
    BY <1>2
  <2> DEFINE h == [i \in 0 .. k + 1 |->
                     IF i = k + 1 THEN WalkNext(g[k], k + 1, l, m) ELSE g[i]]
  <2>2. \A i \in 0 .. k + 1 : h[i] = IF i = 0 THEN WalkFrom(t, l)
                                     ELSE WalkNext(h[i - 1], i, l, m)
    <3> SUFFICES ASSUME NEW i \in 0 .. k + 1
                 PROVE  h[i] = IF i = 0 THEN WalkFrom(t, l)
                               ELSE WalkNext(h[i - 1], i, l, m)
      OBVIOUS
    <3>1. CASE i = k + 1
      <4>1. h[i - 1] = g[k]
        BY <3>1
      <4> QED
        BY <3>1, <4>1
    <3>2. CASE i # k + 1
      <4>1. i \in 0 .. k /\ h[i] = g[i]
        BY <3>2
      <4>2. i # 0 => h[i - 1] = g[i - 1]
        BY <3>2
      <4>3. g[i] = IF i = 0 THEN WalkFrom(t, l)
                   ELSE WalkNext(g[i - 1], i, l, m)
        BY <2>1, <4>1 DEF IsWalk
      <4> HIDE DEF h
      <4> QED
        BY <4>1, <4>2, <4>3
    <3> QED
      BY <3>1, <3>2
  <2>3. h = [i \in 0 .. k + 1 |-> h[i]]
    OBVIOUS
  <2> HIDE DEF h
  <2>4. IsWalk(h, k + 1, t, l, m)
    BY <2>2, <2>3 DEF IsWalk
  <2> QED
    BY <2>4
<1>3. Nat \subseteq S
  <2> HIDE DEF S
  <2> QED
    BY <1>1, <1>2, SetInduction
<1> QED
  BY <1>3

LEMMA WalkEquation ==
  ASSUME NEW t, NEW l, NEW m, PartitionCount \in Nat
  PROVE  /\ Walk(t, l, m)[0] = WalkFrom(t, l)
         /\ \A i \in 1 .. PartitionCount :
              Walk(t, l, m)[i] = WalkNext(Walk(t, l, m)[i - 1], i, l, m)
<1> DEFINE w == CHOOSE g : IsWalk(g, PartitionCount, t, l, m)
<1>1. Walk(t, l, m) = w
  BY DEF Walk, WalkFrom, WalkNext, IsWalk
<1>2. IsWalk(w, PartitionCount, t, l, m)
  BY WalkExists
<1> HIDE DEF w
<1>3. w[0] = WalkFrom(t, l)
  BY <1>2 DEF IsWalk
<1>4. ASSUME NEW i \in 1 .. PartitionCount
      PROVE  w[i] = WalkNext(w[i - 1], i, l, m)
  <2>1. i \in 0 .. PartitionCount /\ i # 0
    OBVIOUS
  <2> QED
    BY <1>2, <2>1 DEF IsWalk
<1> QED
  BY <1>1, <1>3, <1>4

(* The same, from an entry to the next.                                    *)
LEMMA WalkStep ==
  ASSUME NEW t, NEW l, NEW m, PartitionCount \in Nat,
         NEW k \in Nat, k + 1 <= PartitionCount
  PROVE  Walk(t, l, m)[k + 1] = WalkNext(Walk(t, l, m)[k], k + 1, l, m)
<1> DEFINE w == Walk(t, l, m)
<1>1. \A i \in 1 .. PartitionCount : w[i] = WalkNext(w[i - 1], i, l, m)
  BY WalkEquation, Zenon
<1> HIDE DEF w
<1>2. k + 1 \in 1 .. PartitionCount /\ (k + 1) - 1 = k
  OBVIOUS
<1>3. w[k + 1] = WalkNext(w[(k + 1) - 1], k + 1, l, m)
  BY <1>1, <1>2, Zenon
<1>4. w[k + 1] = WalkNext(w[k], k + 1, l, m)
  BY <1>2, <1>3, Zenon
<1> QED
  BY <1>4 DEF w

LEMMA FirstInLun ==
  ASSUME NEW l
  PROVE  /\ FirstIn(l) \in 1 .. PartitionCount + 1
         /\ \A q \in Ptn : LunOf[q] = l
              => FirstIn(l) <= q /\ LunOf[FirstIn(l)] = l
<1> DEFINE Q == {q \in Ptn : LunOf[q] = l}
           First(p) == \A q \in Ptn : LunOf[q] = l => p <= q /\ LunOf[p] = l
<1>1. \E p \in 1 .. PartitionCount + 1 : First(p)
  <2>1. CASE Q = {}
    <3>1. 1 \in 1 .. PartitionCount + 1
      BY BoundsAssumption
    <3> QED
      BY <2>1, <3>1
  <2>2. CASE Q # {}
    <3>1. Q \subseteq Nat
      BY DEF Ptn
    <3>2. PICK p \in Q : \A q \in Q : p <= q
      BY <2>2, <3>1, LeastElement
    <3>3. p \in 1 .. PartitionCount + 1
      BY BoundsAssumption DEF Ptn
    <3> QED
      BY <3>2, <3>3
  <2> QED
    BY <2>1, <2>2
<1>2. FirstIn(l) = CHOOSE p \in 1 .. PartitionCount + 1 : First(p)
  BY DEF FirstIn
<1> HIDE DEF First
<1>3. FirstIn(l) \in 1 .. PartitionCount + 1 /\ First(FirstIn(l))
  BY <1>1, <1>2
<1> QED
  BY <1>3 DEF First

(* One step of the walk stays inside the table and keeps its type.         *)
LEMMA PassStepType ==
  ASSUME NEW w, NEW m, NEW i \in Ptn, mem \in Table,
         w.table \in Table, w.bak \in Table, w.ptr \in 1 .. i
  PROVE  /\ PassStep(w, i, m).table \in Table
         /\ PassStep(w, i, m).bak \in Table
         /\ PassStep(w, i, m).ptr \in 1 .. i + 1
<1>1. w.ptr \in Ptn
  BY BoundsAssumption DEF Ptn
<1>2. w.table[w.ptr] \in Entry /\ mem[i] \in Entry /\ w.bak[i] \in Entry
  BY <1>1 DEF Table
<1> DEFINE e    == w.table[w.ptr]
           guid == IF WritesGuid(m) THEN mem[i].guid ELSE e.guid
           hit  == WritesAttr(m) /\ guid = mem[i].guid
           attr == IF hit THEN mem[i].attr ELSE e.attr
           b    == [guid |-> Remember(WritesGuid(m), e.guid, mem[i].guid,
                                      w.bak[i].guid),
                    attr |-> Remember(hit, e.attr, mem[i].attr, w.bak[i].attr)]
<1>3. [guid |-> guid, attr |-> attr] \in Entry
  BY <1>2 DEF Entry
<1>4. b \in Entry
  BY <1>2 DEF Entry, Remember
<1>5. PassStep(w, i, m) =
        [table |-> [w.table EXCEPT ![w.ptr] = [guid |-> guid, attr |-> attr]],
         bak   |-> [w.bak EXCEPT ![i] = b],
         ptr   |-> NextPtr(w.ptr, m, hit)]
  BY DEF PassStep
<1> HIDE DEF guid, attr, b, hit
<1>6. [w.table EXCEPT ![w.ptr] = [guid |-> guid, attr |-> attr]] \in Table
  BY <1>1, <1>3 DEF Table
<1>7. [w.bak EXCEPT ![i] = b] \in Table
  BY <1>4 DEF Table
<1>8. NextPtr(w.ptr, m, hit) \in 1 .. i + 1
  BY DEF NextPtr, Ptn
<1> QED
  BY <1>5, <1>6, <1>7, <1>8

(* The pointer is never past the next entry of its LUN, so the walk never  *)
(* leaves the table.                                                       *)
LEMMA WalkType ==
  ASSUME NEW t \in Table, NEW l, NEW m, mem \in Table, bak \in Table
  PROVE  \A i \in 0 .. PartitionCount :
           /\ Walk(t, l, m)[i].table \in Table
           /\ Walk(t, l, m)[i].bak \in Table
<1> DEFINE w == Walk(t, l, m)
           Good(i) == /\ w[i].table \in Table /\ w[i].bak \in Table
                      /\ w[i].ptr \in 1 .. PartitionCount + 1
                      /\ \A q \in Ptn : q > i /\ LunOf[q] = l => w[i].ptr <= q
           S == {i \in Nat : i <= PartitionCount => Good(i)}
<1>0. PartitionCount \in Nat
  BY BoundsAssumption
<1>1. 0 \in S
  <2>1. w[0] = WalkFrom(t, l)
    BY <1>0, WalkEquation
  <2> QED
    BY <2>1, FirstInLun DEF WalkFrom
<1>2. ASSUME NEW k \in Nat, k \in S PROVE k + 1 \in S
  <2> SUFFICES ASSUME k + 1 <= PartitionCount PROVE Good(k + 1)
    OBVIOUS
  <2>1. Good(k)
    BY <1>0, <1>2
  <2>2. k + 1 \in 1 .. PartitionCount /\ k + 1 \in Ptn /\ (k + 1) - 1 = k
    BY <1>0 DEF Ptn
  <2>3. w[k + 1] = WalkNext(w[k], k + 1, l, m)
    BY <1>0, WalkStep, Zenon
  <2> HIDE DEF w
  <2>4. CASE LunOf[k + 1] # l
    <3>1. w[k + 1] = w[k]
      BY <2>3, <2>4 DEF WalkNext
    <3> QED
      BY <2>1, <3>1 DEF Ptn
  <2>5. CASE LunOf[k + 1] = l
    <3>1. w[k + 1] = PassStep(w[k], k + 1, m)
      BY <2>3, <2>5 DEF WalkNext
    <3>2. w[k].ptr \in 1 .. k + 1
      BY <2>1, <2>2, <2>5
    <3>3. /\ w[k + 1].table \in Table /\ w[k + 1].bak \in Table
          /\ w[k + 1].ptr \in 1 .. (k + 1) + 1
      BY <2>1, <2>2, <3>1, <3>2, PassStepType
    <3> QED
      BY <1>0, <3>3 DEF Ptn
  <2> QED
    BY <2>4, <2>5
<1>3. Nat \subseteq S
  <2> HIDE DEF S
  <2> QED
    BY <1>1, <1>2, SetInduction
<1> QED
  BY <1>0, <1>3

(* What a pass makes of a table and of PtnEntriesBak are tables again.     *)
LEMMA PassType ==
  ASSUME NEW t \in Table, NEW l, NEW m, mem \in Table, bak \in Table
  PROVE  Pass(t, l, m).table \in Table /\ Pass(t, l, m).bak \in Table
<1>1. \A p \in Ptn : t[p] \in Entry /\ mem[p] \in Entry /\ bak[p] \in Entry
  BY DEF Table
<1>2. AlignedPass(t, l, m).table \in Table
  BY <1>1 DEF AlignedPass, Table, Entry
<1>3. AlignedPass(t, l, m).bak \in Table
  BY <1>1 DEF AlignedPass, Table, Entry, Remember
<1>4. SkewedPass(t, l, m).table \in Table /\ SkewedPass(t, l, m).bak \in Table
  <2>1. PartitionCount \in 0 .. PartitionCount
    BY BoundsAssumption
  <2> QED
    BY <2>1, WalkType DEF SkewedPass
<1> QED
  BY <1>2, <1>3, <1>4 DEF Pass

-----------------------------------------------------------------------------
(* The operators on tables.                                                *)

LEMMA BootPtnType ==
  ASSUME NEW s \in Slot
  PROVE  BootPtn(s) \in Ptn /\ AblPtn(s) \in Ptn
<1>1. \E p \in Ptn : IsPtn(p, "boot", s)
  BY TableAssumption
<1>2. \E p \in Ptn : IsPtn(p, "abl", s)
  BY TableAssumption
<1> QED
  BY <1>1, <1>2 DEF BootPtn, AblPtn, BootPtns, AblPtns

LEMMA TwinType ==
  ASSUME NEW p \in Slotted
  PROVE  /\ Twin(p) \in Ptn /\ Base[Twin(p)] = Base[p]
         /\ SlotOf[Twin(p)] = Alt(SlotOf[p])
<1>1. \E q \in Ptn : IsPtn(q, Base[p], Alt(SlotOf[p]))
  BY TableAssumption
<1> QED
  BY <1>1 DEF Twin, Twins, IsPtn

LEMMA ActiveSlotType ==
  ASSUME NEW t
  PROVE  ActiveSlot(t) \in Slot \cup {NoSlot}
  BY DEF ActiveSlot, Slot, NoSlot

LEMMA AltType ==
  ASSUME NEW s
  PROVE  Alt(s) \in Slot
  BY DEF Alt, Slot

LEMMA BootAttrType ==
  ASSUME NEW t \in Table, NEW s, BootPtn(s) \in Ptn
  PROVE  BootAttr(t, s) \in Attr
  BY DEF BootAttr, Table, Entry

LEMMA SetBootType ==
  ASSUME NEW t \in Table, NEW s, NEW a, BootPtn(s) \in Ptn => a \in Attr
  PROVE  SetBoot(t, s, a) \in Table
<1>1. CASE BootPtn(s) \in Ptn
  <2>1. t[BootPtn(s)] \in Entry
    BY <1>1 DEF Table
  <2>2. [t[BootPtn(s)] EXCEPT !.attr = a] \in Entry
    BY <1>1, <2>1 DEF Entry
  <2> QED
    BY <1>1, <2>2 DEF SetBoot, Table
<1>2. CASE BootPtn(s) \notin Ptn
  BY <1>2 DEF SetBoot, Table
<1> QED
  BY <1>1, <1>2

(* Every rewriting of an entry's bits yields bits of the right type.       *)
LEMMA AttrType ==
  ASSUME NEW a \in Attr, NEW r \in BOOLEAN
  PROVE  /\ FirstBootAttr(a) \in Attr /\ NewSlotAttr(a, r) \in Attr
         /\ AlternateAttr(a) \in Attr /\ FlashedAttr(a) \in Attr
         /\ UnbootableAttr(a) \in Attr
         /\ [a EXCEPT !.unboot = FALSE] \in Attr
         /\ [a EXCEPT !.succ = TRUE] \in Attr
         /\ a.retry > 0 => RetryTaken(a) \in Attr
<1>0. 3 \in 0 .. 3 /\ 2 \in 0 .. 3 /\ MaxRetry \in 0 .. MaxRetry
  BY BoundsAssumption
<1>1. FirstBootAttr(a) \in Attr
  BY <1>0 DEF FirstBootAttr, Attr
<1>2. NewSlotAttr(a, r) \in Attr
  <2>1. (a.succ /\ ~r) \in BOOLEAN
    OBVIOUS
  <2> QED
    BY <2>1, <1>0 DEF NewSlotAttr, Attr
<1>3. AlternateAttr(a) \in Attr
  BY <1>0 DEF AlternateAttr, Attr
<1>4. FlashedAttr(a) \in Attr
  BY <1>0 DEF FlashedAttr, Attr
<1>5. UnbootableAttr(a) \in Attr
  BY <1>0 DEF UnbootableAttr, Attr
<1>6. a.retry > 0 => RetryTaken(a) \in Attr
  BY BoundsAssumption DEF RetryTaken, Attr
<1> QED
  BY <1>1, <1>2, <1>3, <1>4, <1>5, <1>6 DEF Attr

LEMMA SlotActivatedType ==
  ASSUME NEW t \in Table, NEW s \in Slot, NEW r \in BOOLEAN
  PROVE  SlotActivated(t, s, r) \in Table
<1>1. BootAttr(t, s) \in Attr /\ BootAttr(t, Alt(s)) \in Attr
  BY AltType, BootPtnType, BootAttrType
<1>2. NewSlotAttr(BootAttr(t, s), r) \in Attr
  BY <1>1, AttrType
<1>3. AlternateAttr(BootAttr(t, Alt(s))) \in Attr
  BY <1>1, AttrType
<1>4. SetBoot(t, s, NewSlotAttr(BootAttr(t, s), r)) \in Table
  BY <1>2, SetBootType
<1> QED
  BY <1>3, <1>4, SetBootType DEF SlotActivated

LEMMA MarkPtnActiveType ==
  ASSUME NEW t \in Table, NEW s
  PROVE  MarkPtnActive(t, s) \in Table
<1>1. ASSUME NEW p \in Ptn
      PROVE  [t[p] EXCEPT !.attr.active = (SlotOf[p] = s)] \in Entry
  <2>1. t[p] \in Entry
    BY DEF Table
  <2>2. (SlotOf[p] = s) \in BOOLEAN
    OBVIOUS
  <2> QED
    BY <2>1, <2>2 DEF Entry, Attr
<1> QED
  BY <1>1 DEF MarkPtnActive, Table

LEMMA SwapPtnGuidsType ==
  ASSUME NEW t \in Table
  PROVE  SwapPtnGuids(t) \in Table
<1>1. ASSUME NEW p \in Slotted
      PROVE  [t[p] EXCEPT !.guid = t[Twin(p)].guid] \in Entry
  <2>1. t[p] \in Entry /\ t[Twin(p)] \in Entry
    BY TwinType DEF Table, Slotted
  <2> QED
    BY <2>1 DEF Entry
<1> QED
  BY <1>1 DEF SwapPtnGuids, Table

(* Wherever the menu's callback comes, PtnEntries is a table.              *)
LEMMA PartlySwappedType ==
  ASSUME NEW t \in Table
  PROVE  PartlySwapped(t) \subseteq Table
<1>1. ASSUME NEW p \in Slotted
      PROVE  [t[p] EXCEPT !.guid = t[Twin(p)].guid] \in Entry
  <2>1. t[p] \in Entry /\ t[Twin(p)] \in Entry
    BY TwinType DEF Table, Slotted
  <2> QED
    BY <2>1 DEF Entry
<1>2. ASSUME NEW q \in Slotted
      PROVE  [p \in Ptn |-> IF p \in Slotted /\ SwappedBy(p, q)
                           THEN [t[p] EXCEPT !.guid = t[Twin(p)].guid]
                           ELSE t[p]] \in Table
  BY <1>1 DEF Table
<1> QED
  BY <1>2 DEF PartlySwapped

LEMMA UnfinishedType ==
  ASSUME mem \in Table
  PROVE  Unfinished \subseteq Table
<1>1. ASSUME NEW n \in Slot, NEW r \in BOOLEAN
      PROVE  PartlyActivated(mem, n, r) \in Table
  BY BootPtnType, BootAttrType, AttrType, SetBootType DEF PartlyActivated
<1>2. PartlyMarked(mem) \subseteq Table
  <2>1. MarkPtnActive(mem, slot) \in Table
    BY MarkPtnActiveType
  <2>2. ASSUME NEW n \in 0 .. PartitionCount
        PROVE  [p \in Ptn |-> IF p <= n THEN MarkPtnActive(mem, slot)[p] ELSE mem[p]]
                 \in Table
    BY <2>1 DEF Table
  <2> QED
    BY <2>2 DEF PartlyMarked
<1>3. {PartlyActivated(mem, n, TRUE) : n \in Slot} \subseteq Table
  BY <1>1
<1>4. PartlyActivated(mem, Alt(slot), FALSE) \in Table
  BY <1>1, AltType
<1>5. PartlySwapped(mem) \subseteq Table
  BY PartlySwappedType
<1> QED
  BY <1>2, <1>3, <1>4, <1>5, Zenon DEF Unfinished

LEMMA FactoryTableType == FactoryTable \in Table
<1>1. NoAttr \in Attr
  BY BoundsAssumption DEF NoAttr, Attr
<1> QED
  BY <1>1 DEF FactoryTable, Table, Entry, Guid

-----------------------------------------------------------------------------
(* Types.  SetActiveSlot goes on at tail when it is done, so that must not *)
(* be the mark that LoadImageAndAuthVB2 leaves for the unlocked case.      *)

InSetActive ==
  \/ pc \in {"sa_switch", "sa_mark"}
  \/ pc = "upa" /\ ret \in {"sa_switch", "sa_mark"}

TypeInv == TypeOK /\ (InSetActive => tail # "unauth")

(* CallUpdate: what the calls of UpdatePartitionAttributes keep.           *)
LEMMA CallUpdateType ==
  ASSUME TypeOK, NEW m \in {"attr", "guid", "all"}, NEW t \in Table,
         NEW k \in Labels \ {"upa"}, CallUpdate(m, t, k)
  PROVE  /\ mem' \in Table /\ pc' \in Labels /\ UpaOK'
         /\ InSetActive' => k \in {"sa_switch", "sa_mark"}
<1>1. 0 \in Luns
  BY BoundsAssumption DEF Luns
<1>2. "upa" \in Labels /\ "primary" \in Copy
  BY DEF Labels, Busy, Copy
<1>3. CASE t = bak
  BY <1>3 DEF CallUpdate, upa, UpaOK, TypeOK, InSetActive
<1>4. CASE t # bak
  BY <1>1, <1>2, <1>4 DEF CallUpdate, UpaOK, TypeOK, InSetActive
<1> QED
  BY <1>3, <1>4

LEMMA GotoType ==
  ASSUME TypeOK, NEW k \in Labels \ {"upa"}, Goto(k)
  PROVE  /\ mem' \in Table /\ pc' \in Labels /\ UpaOK'
         /\ InSetActive' => k \in {"sa_switch", "sa_mark"}
  BY DEF Goto, upa, UpaOK, TypeOK, InSetActive

LEMMA LeaveType ==
  ASSUME NEW s \in Slot \cup {NoSlot}, Leave(s)
  PROVE  OpOK'
  BY DEF Leave, OpOK

LEMMA EnterFastbootType ==
  ASSUME TypeOK, EnterFastboot
  PROVE  /\ mem' \in Table /\ pc' \in Labels /\ UpaOK' /\ OpOK'
         /\ fb' \in {"no", "reason", "fallen"} /\ ~InSetActive'
<1>1. "fastboot" \in Labels \ {"upa"}
  BY DEF Labels
<1>2. mem' \in Table /\ pc' \in Labels /\ UpaOK' /\ ~InSetActive'
  BY <1>1, GotoType DEF EnterFastboot
<1>3. OpOK'
  BY LeaveType DEF EnterFastboot, EndOp
<1> QED
  BY <1>2, <1>3 DEF EnterFastboot, TypeOK

LEMMA ReturnType ==
  ASSUME TypeOK, ReturnUpdate
  PROVE  /\ pc' \in Labels /\ UpaOK'
         /\ InSetActive' => ret \in {"sa_switch", "sa_mark"}
<1>1. 0 \in Luns
  BY BoundsAssumption DEF Luns
<1> QED
  BY <1>1 DEF ReturnUpdate, Registers, UpaOK, TypeOK, InSetActive, Labels, Copy

LEMMA FaultType ==
  ASSUME TypeOK, Fault
  PROVE  GhostOK'
  BY BoundsAssumption DEF Fault, GhostOK, TypeOK

LEMMA PowerDownType ==
  ASSUME TypeOK, PowerDown
  PROVE  /\ mem' \in Table /\ bak' \in Table /\ FirstBoot' \in BOOLEAN
         /\ pc' \in Labels /\ UpaOK' /\ OpOK'
         /\ fb' \in {"no", "reason", "fallen"} /\ ~InSetActive'
<1>1. 0 \in Luns
  BY BoundsAssumption DEF Luns
<1>2. disk["primary"] \in Table
  BY DEF TypeOK, FlashOK, Copy
<1>3. OpOK'
  BY LeaveType DEF PowerDown, EndOp
<1> QED
  BY <1>1, <1>2, <1>3
  DEF PowerDown, Registers, UpaOK, Labels, Copy, InSetActive

LEMMA RefillType ==
  ASSUME TypeOK, NEW s \in Slot, Refill(s)
  PROVE  attempts' \in [Slot -> Nat]
  BY DEF TypeOK, Refill

LEMMA HandleUnbootableType ==
  ASSUME TypeOK, NEW s \in Slot \cup {NoSlot}, NEW f \in BOOLEAN,
         NEW k \in {"fastboot", "unauth"}, HandleUnbootable(s, f, k)
  PROVE  /\ mem' \in Table /\ pc' \in Labels /\ UpaOK' /\ ~InSetActive'
         /\ FirstBoot' \in BOOLEAN
         /\ slot' \in Slot \cup {NoSlot} /\ force' \in BOOLEAN
         /\ tail' = k /\ same' \in BOOLEAN
<1>1. "h_alt" \in Labels \ {"upa"}
  BY DEF Labels, Busy
<1>2. SetBoot(mem, s, UnbootableAttr(BootAttr(mem, s))) \in Table
  BY BootAttrType, AttrType, SetBootType DEF TypeOK
<1>3. mem' \in Table /\ pc' \in Labels /\ UpaOK' /\ ~InSetActive'
  <2>1. CASE FirstBoot /\ ~UserBuild
    BY <1>1, <2>1, GotoType DEF HandleUnbootable
  <2>2. CASE ~(FirstBoot /\ ~UserBuild)
    BY <1>1, <1>2, <2>2, CallUpdateType DEF HandleUnbootable
  <2> QED
    BY <2>1, <2>2
<1>4. FirstBoot' \in BOOLEAN
  BY DEF HandleUnbootable, TypeOK
<1> QED
  BY <1>3, <1>4 DEF HandleUnbootable, TypeOK, OpOK

LEMMA SetActiveSlotType ==
  ASSUME TypeOK, NEW n \in Slot, NEW r \in BOOLEAN,
         NEW k \in {"reset", "sa_done"}, SetActiveSlot(n, r, k)
  PROVE  /\ mem' \in Table /\ pc' \in Labels /\ UpaOK'
         /\ attempts' \in [Slot -> Nat]
         /\ slot' \in Slot /\ same' \in BOOLEAN /\ tail' = k
<1>1. "sa_switch" \in Labels \ {"upa"}
  BY DEF Labels, Busy
<1>2. SlotActivated(mem, n, r) \in Table
  BY SlotActivatedType DEF TypeOK
<1>3. mem' \in Table /\ pc' \in Labels /\ UpaOK'
  BY <1>1, <1>2, CallUpdateType DEF SetActiveSlot
<1>4. attempts' \in [Slot -> Nat]
  BY RefillType DEF SetActiveSlot
<1> QED
  BY <1>3, <1>4 DEF SetActiveSlot

LEMMA FindBootableSlotType ==
  ASSUME TypeInv, NEW c \in BOOLEAN, NEW h \in {"auto", "continue", "boot"},
         pc # "upa", FindBootableSlot(c, h)
  PROVE  TypeInv'
<1> DEFINE s == ActiveSlot(mem)
           a == BootAttr(mem, s)
           caller == how' = h /\ counted' = c /\ UNCHANGED fb
           chosen == slot' = s /\ caller
                     /\ UNCHANGED <<same, tail, force, FirstBoot>>
<1>1. s \in Slot \cup {NoSlot}
  BY ActiveSlotType
<1>2. s # NoSlot => a \in Attr
  BY <1>1, BootPtnType, BootAttrType DEF TypeInv, TypeOK
<1>3. UNCHANGED <<flash, bak, attempts, ghost>>
  BY DEF FindBootableSlot
<1>4. /\ FlashOK' /\ bak' \in Table /\ attempts' \in [Slot -> Nat] /\ GhostOK'
  BY <1>3 DEF TypeInv, TypeOK, FlashOK, GhostOK, flash, ghost
<1>5. "validate" \in Labels \ {"upa"}
  BY DEF Labels, Busy
<1>6. CASE s = NoSlot /\ EnterFastboot /\ UNCHANGED FirstBoot
  BY <1>4, <1>6, EnterFastbootType DEF TypeInv, TypeOK
<1>7. CASE chosen /\ Goto("validate")
  <2>1. mem' \in Table /\ pc' \in Labels /\ UpaOK' /\ ~InSetActive'
    BY <1>5, <1>7, GotoType DEF TypeInv
  <2>2. OpOK' /\ fb' = fb /\ FirstBoot' = FirstBoot
    BY <1>1, <1>7 DEF OpOK, TypeInv, TypeOK
  <2> QED
    BY <1>4, <2>1, <2>2 DEF TypeInv, TypeOK
<1>8. CASE /\ chosen /\ s # NoSlot /\ a.retry > 0
           /\ CallUpdate("attr", SetBoot(mem, s, RetryTaken(a)), "validate")
  <2>1. SetBoot(mem, s, RetryTaken(a)) \in Table
    <3>1. RetryTaken(a) \in Attr
      BY <1>2, <1>8, AttrType
    <3> QED
      BY <3>1, SetBootType DEF TypeInv, TypeOK
  <2>2. mem' \in Table /\ pc' \in Labels /\ UpaOK' /\ ~InSetActive'
    BY <1>5, <1>8, <2>1, CallUpdateType DEF TypeInv
  <2>3. OpOK' /\ fb' = fb /\ FirstBoot' = FirstBoot
    BY <1>1, <1>8 DEF OpOK, TypeInv, TypeOK
  <2> QED
    BY <1>4, <2>2, <2>3 DEF TypeInv, TypeOK
<1>9. CASE HandleUnbootable(s, FALSE, "fastboot") /\ caller
  <2>1. /\ mem' \in Table /\ pc' \in Labels /\ UpaOK' /\ ~InSetActive'
        /\ FirstBoot' \in BOOLEAN
        /\ slot' \in Slot \cup {NoSlot} /\ force' \in BOOLEAN
        /\ tail' = "fastboot" /\ same' \in BOOLEAN
    BY <1>1, <1>9, HandleUnbootableType DEF TypeInv
  <2>2. OpOK' /\ fb' = fb
    BY <1>9, <2>1 DEF OpOK
  <2> QED
    BY <1>4, <2>1, <2>2 DEF TypeInv, TypeOK
<1> QED
  BY <1>6, <1>7, <1>8, <1>9 DEF FindBootableSlot

LEMMA TypeInit == Init => TypeInv
<1> SUFFICES ASSUME Init PROVE TypeInv
  OBVIOUS
<1>1. 0 \in Luns /\ 0 \in 0 .. MaxCrashes /\ 0 \in 0 .. MaxFaults
      /\ 0 \in 0 .. MaxPreempts
  BY BoundsAssumption DEF Luns
<1>2. FlashOK
  BY FactoryTableType DEF Init, FlashOK
<1>3. UpaOK /\ OpOK /\ GhostOK
  BY <1>1 DEF Init, UpaOK, OpOK, GhostOK, Labels, Copy
<1> QED
  BY <1>2, <1>3, FactoryTableType DEF Init, TypeInv, TypeOK, InSetActive, Labels

(* The steps of UpdatePartitionAttributes.                                 *)
LEMMA TypeUpdate ==
  ASSUME TypeInv, UpdateCopy \/ ReadFails \/ WriteFails \/ FlushFails
  PROVE  TypeInv'
<1>1. pc = "upa" /\ UNCHANGED <<valid, bootLun, lunSet, mem, FirstBoot, op, fb, attempts>>
  BY DEF UpdateCopy, ReadFails, WriteFails, FlushFails, flash
<1>2. ThisPass.table \in Table /\ ThisPass.bak \in Table
  BY PassType DEF ThisPass, TypeInv, TypeOK, FlashOK, UpaOK
<1>3. bak' \in Table /\ disk' \in [Copy -> Table]
  BY <1>2 DEF UpdateCopy, ReadFails, WriteFails, FlushFails, flash, TypeInv,
              TypeOK, FlashOK, UpaOK
<1>4. FlashOK' /\ OpOK'
  BY <1>1, <1>3 DEF FlashOK, OpOK, op, TypeInv, TypeOK
<1>5. CASE ReturnUpdate
  <2>1. /\ pc' \in Labels /\ UpaOK'
        /\ InSetActive' => ret \in {"sa_switch", "sa_mark"}
    BY <1>5, ReturnType DEF TypeInv
  <2>2. InSetActive' => tail' # "unauth"
    BY <1>1, <2>1 DEF TypeInv, InSetActive, op
  <2>3. GhostOK'
    BY FaultType DEF UpdateCopy, ReadFails, WriteFails, FlushFails, TypeInv,
                     TypeOK, GhostOK, ghost
  <2> QED
    BY <1>1, <1>3, <1>4, <2>1, <2>2, <2>3 DEF TypeInv, TypeOK
<1>6. CASE UpdateCopy /\ ~ReturnUpdate
  <2>1. pc' = pc /\ mask' = mask /\ ret' = ret
    BY <1>6 DEF UpdateCopy
  <2>2. lun' \in Luns
    BY <1>6, BoundsAssumption DEF UpdateCopy, Luns, TypeInv, TypeOK, UpaOK
  <2>3. iter' \in Copy
    BY <1>6 DEF UpdateCopy, Copy
  <2>4. UpaOK' /\ GhostOK'
    BY <1>6, <2>1, <2>2, <2>3 DEF UpdateCopy, ghost, UpaOK, GhostOK, TypeInv, TypeOK
  <2>5. InSetActive' => tail' # "unauth"
    BY <1>1, <2>1 DEF TypeInv, InSetActive, op
  <2> QED
    BY <1>1, <1>3, <1>4, <2>1, <2>4, <2>5 DEF TypeInv, TypeOK
<1> QED
  BY <1>5, <1>6 DEF ReadFails, WriteFails, FlushFails

(* Reset, reboot and loss of power.                                        *)
LEMMA TypePower ==
  ASSUME TypeInv, ResetSystem \/ Reboot \/ PowerLoss \/ TornWrite
  PROVE  TypeInv'
<1>1. PowerDown /\ UNCHANGED <<disk, bootLun, lunSet, attempts>>
  BY DEF ResetSystem, Reboot, PowerLoss, TornWrite, Crash, flash
<1>2. valid' \in [Copy -> [Luns -> BOOLEAN]]
  <2>1. CASE TornWrite
    BY <2>1 DEF TornWrite, TypeInv, TypeOK, FlashOK
  <2>2. CASE ~TornWrite
    BY <2>2 DEF ResetSystem, Reboot, PowerLoss, flash, TypeInv, TypeOK, FlashOK
  <2> QED
    BY <2>1, <2>2
<1>3. GhostOK'
  <2>1. CASE Crash
    <3>1. skewed' \in BOOLEAN
      BY <2>1 DEF Crash
    <3> QED
      BY <2>1, <3>1, BoundsAssumption DEF Crash, GhostOK, TypeInv, TypeOK
  <2>2. CASE UNCHANGED ghost
    BY <2>2 DEF ghost, GhostOK, TypeInv, TypeOK
  <2> QED
    BY <2>1, <2>2 DEF ResetSystem, Reboot, PowerLoss, TornWrite
<1>4. FlashOK'
  BY <1>1, <1>2 DEF FlashOK, TypeInv, TypeOK
<1> QED
  BY <1>1, <1>3, <1>4, PowerDownType DEF TypeInv, TypeOK

LEMMA TypePowerOn ==
  ASSUME TypeInv, PowerOn
  PROVE  TypeInv'
<1>1. disk' \in [Copy -> Table]
  <2>1. ASSUME NEW c \in Copy, NEW p \in Ptn
        PROVE  disk[c][p] \in Entry /\ disk[Other(c)][p] \in Entry
    BY DEF TypeInv, TypeOK, FlashOK, Table, Other, Copy
  <2> QED
    BY <2>1 DEF PowerOn, Table
<1>2. FlashOK'
  BY <1>1 DEF PowerOn, FlashOK, TypeInv, TypeOK
<1>3. mem' \in Table /\ bak' \in Table
  BY <1>1 DEF PowerOn, Copy
<1>4. UpaOK' /\ OpOK'
  BY DEF PowerOn, upa, op, UpaOK, OpOK, TypeInv, TypeOK
<1>5. GhostOK'
  <2>1. restored' \in BOOLEAN
    BY DEF PowerOn
  <2> QED
    BY <2>1 DEF PowerOn, GhostOK, TypeInv, TypeOK
<1> QED
  BY <1>2, <1>3, <1>4, <1>5
  DEF PowerOn, TypeInv, TypeOK, InSetActive, Labels, Busy

(* From the enumeration of the tables to the end of SetActiveSlot.         *)
LEMMA TypeLoader ==
  ASSUME TypeInv,
         \/ FindPtnActiveSlot \/ LaunchFastboot \/ MarkNewSlot
         \/ TryAlternateSlot \/ SwitchBootLun \/ SwitchPtnSlots
  PROVE  TypeInv'
<1>0. TypeOK /\ mem \in Table /\ bak' \in Table
  BY DEF TypeInv, TypeOK, FindPtnActiveSlot, LaunchFastboot, MarkNewSlot,
         TryAlternateSlot, SwitchBootLun, SwitchPtnSlots
<1>1. CASE FindPtnActiveSlot
  <2>1. SetBoot(mem, "_a", FirstBootAttr(BootAttr(mem, "_a"))) \in Table
    BY <1>0, BootAttrType, AttrType, SetBootType
  <2>2. "loader" \in Labels \ {"upa"} /\ "_a" \in Slot
    BY DEF Labels, Busy, Slot
  <2>3. /\ mem' \in Table /\ pc' \in Labels /\ UpaOK' /\ ~InSetActive'
        /\ FirstBoot' \in BOOLEAN /\ attempts' \in [Slot -> Nat]
    <3>1. CASE ActiveSlot(mem) = NoSlot /\ Pristine(mem)
      BY <1>0, <1>1, <2>1, <2>2, <3>1, CallUpdateType, RefillType
      DEF FindPtnActiveSlot
    <3>2. CASE ~(ActiveSlot(mem) = NoSlot /\ Pristine(mem))
      BY <1>0, <1>1, <2>2, <3>2, GotoType DEF FindPtnActiveSlot, TypeOK
    <3> QED
      BY <3>1, <3>2
  <2>4. FlashOK' /\ OpOK' /\ GhostOK' /\ fb' = fb
    BY <1>0, <1>1 DEF FindPtnActiveSlot, flash, op, ghost, TypeOK, FlashOK,
                      OpOK, GhostOK
  <2> QED
    BY <1>0, <2>3, <2>4 DEF TypeInv, TypeOK
<1>2. CASE LaunchFastboot
  <2>1. "fastboot" \in Labels \ {"upa"}
    BY DEF Labels
  <2>2. mem' \in Table /\ pc' \in Labels /\ UpaOK' /\ ~InSetActive'
    BY <1>0, <1>2, <2>1, GotoType DEF LaunchFastboot
  <2>3. FlashOK' /\ OpOK' /\ GhostOK'
    BY <1>0, <1>2 DEF LaunchFastboot, flash, op, ghost, TypeOK, FlashOK,
                      OpOK, GhostOK
  <2> QED
    BY <1>0, <1>2, <2>2, <2>3 DEF LaunchFastboot, TypeInv, TypeOK
<1>3. CASE MarkNewSlot
  <2>1. tail \in Labels \ {"upa"} /\ tail \notin {"sa_switch", "sa_mark"}
    BY <1>3 DEF MarkNewSlot, TypeInv, InSetActive, TypeOK, OpOK, Labels, Busy
  <2>2. MarkPtnActive(mem, slot) \in Table
    BY <1>0, MarkPtnActiveType
  <2>3. mem' \in Table /\ pc' \in Labels /\ UpaOK' /\ ~InSetActive'
    BY <1>0, <1>3, <2>1, <2>2, CallUpdateType DEF MarkNewSlot
  <2>4. FlashOK' /\ OpOK' /\ GhostOK'
    BY <1>0, <1>3 DEF MarkNewSlot, flash, op, ghost, TypeOK, FlashOK,
                      OpOK, GhostOK
  <2> QED
    BY <1>0, <1>3, <2>3, <2>4 DEF MarkNewSlot, TypeInv, TypeOK
<1>4. CASE TryAlternateSlot
  <2>1. FlashOK' /\ GhostOK' /\ FirstBoot' = FirstBoot
    BY <1>0, <1>4 DEF TryAlternateSlot, flash, ghost, TypeOK, FlashOK, GhostOK
  <2>2. CASE Bootable(BootAttr(mem, Alt(slot))) \/ force
    <3>1. /\ mem' \in Table /\ pc' \in Labels /\ UpaOK'
          /\ attempts' \in [Slot -> Nat]
          /\ slot' \in Slot /\ same' \in BOOLEAN /\ tail' = "reset"
      BY <1>0, <1>4, <2>2, AltType, SetActiveSlotType DEF TryAlternateSlot
    <3>2. OpOK' /\ fb' = fb
      BY <1>0, <1>4, <2>2, <3>1 DEF TryAlternateSlot, OpOK, TypeOK
    <3> QED
      BY <1>0, <2>1, <3>1, <3>2 DEF TypeInv, TypeOK
  <2>3. CASE ~(Bootable(BootAttr(mem, Alt(slot))) \/ force)
    <3>1. "stopped" \in Labels \ {"upa"}
      BY DEF Labels
    <3>2. CASE EnterFastboot
      BY <1>0, <1>4, <2>1, <2>3, <3>2, EnterFastbootType
      DEF TryAlternateSlot, TypeInv, TypeOK
    <3>3. CASE Goto("stopped") /\ EndOp /\ UNCHANGED fb
      <4>1. mem' \in Table /\ pc' \in Labels /\ UpaOK' /\ ~InSetActive'
        BY <1>0, <3>1, <3>3, GotoType
      <4>2. OpOK'
        BY <3>3, LeaveType DEF EndOp
      <4> QED
        BY <1>0, <1>4, <2>1, <2>3, <3>3, <4>1, <4>2
        DEF TryAlternateSlot, TypeInv, TypeOK
    <3> QED
      BY <1>4, <2>3, <3>2, <3>3 DEF TryAlternateSlot
  <2> QED
    BY <2>2, <2>3
<1>5. CASE SwitchBootLun \/ SwitchPtnSlots
  <2>1. SetBootLun /\ pc = "sa_switch"
    BY <1>5 DEF SwitchBootLun, SwitchPtnSlots
  <2>2. bootLun' \in {1, 2} /\ lunSet' \in BOOLEAN /\ GhostOK'
    BY <1>0, <2>1, FaultType DEF SetBootLun, LunOfSlot, TypeOK, FlashOK,
                                 GhostOK, ghost
  <2>3. FlashOK' /\ OpOK' /\ UNCHANGED <<FirstBoot, fb, attempts>> /\ tail' = tail
    BY <1>0, <1>5, <2>2 DEF SwitchBootLun, SwitchPtnSlots, op, TypeOK, FlashOK,
                            OpOK
  <2>4. tail \in Labels \ {"upa"} /\ tail # "unauth"
    BY <2>1 DEF TypeInv, InSetActive, TypeOK, OpOK, Labels, Busy
  <2>5. mem' \in Table /\ pc' \in Labels /\ UpaOK'
    <3>1. CASE SwitchBootLun
      BY <1>0, <2>4, <3>1, GotoType DEF SwitchBootLun
    <3>2. CASE SwitchPtnSlots
      <4>1. "sa_mark" \in Labels \ {"upa"}
        BY DEF Labels, Busy
      <4> QED
        BY <1>0, <3>2, <4>1, SwapPtnGuidsType, CallUpdateType DEF SwitchPtnSlots
    <3> QED
      BY <1>5, <3>1, <3>2
  <2> QED
    BY <1>0, <2>2, <2>3, <2>4, <2>5 DEF TypeInv, TypeOK
<1> QED
  BY <1>1, <1>2, <1>3, <1>4, <1>5

(* From FindBootableSlot to the kernel, and the fastboot commands.         *)
LEMMA TypeBoot ==
  ASSUME TypeInv,
         \/ BootFromLoader \/ CmdContinue \/ CmdBootLoad \/ ValidateAndMark
         \/ BootLinux \/ AuthFails \/ BootLinuxFails
  PROVE  TypeInv'
<1>0. TypeOK /\ mem \in Table
  BY DEF TypeInv, TypeOK
<1>1. CASE BootFromLoader \/ CmdContinue \/ CmdBootLoad
  BY <1>1, FindBootableSlotType DEF BootFromLoader, CmdContinue, CmdBootLoad
<1>2. CASE ValidateAndMark
  <2>1. FlashOK' /\ bak' \in Table /\ UNCHANGED <<FirstBoot, attempts>>
    BY <1>0, <1>2 DEF ValidateAndMark, flash, TypeOK, FlashOK
  <2>2. GhostOK'
    BY <1>0, <1>2, FaultType DEF ValidateAndMark, ghost, TypeOK, GhostOK
  <2>3. CASE EnterFastboot
    BY <1>0, <2>1, <2>2, <2>3, EnterFastbootType DEF TypeInv, TypeOK
  <2>4. CASE CallUpdate("attr", MarkPtnActive(mem, slot), "load") /\ UNCHANGED <<op, fb>>
    <3>1. "load" \in Labels \ {"upa"}
      BY DEF Labels, Busy
    <3>2. mem' \in Table /\ pc' \in Labels /\ UpaOK' /\ ~InSetActive'
      BY <1>0, <2>4, <3>1, MarkPtnActiveType, CallUpdateType
    <3>3. OpOK'
      BY <1>0, <2>4 DEF op, OpOK, TypeOK
    <3> QED
      BY <1>0, <2>1, <2>2, <2>4, <3>2, <3>3 DEF TypeInv, TypeOK
  <2> QED
    BY <1>2, <2>3, <2>4 DEF ValidateAndMark
<1>3. CASE BootLinux
  <2>1. "hlos" \in Labels \ {"upa"}
    BY DEF Labels
  <2>2. mem' \in Table /\ pc' \in Labels /\ UpaOK' /\ ~InSetActive'
    BY <1>0, <1>3, <2>1, GotoType DEF BootLinux
  <2>3. OpOK'
    BY <1>0, <1>3, LeaveType DEF BootLinux, TypeOK, OpOK
  <2>4. attempts' \in [Slot -> Nat]
    <3>1. attempts \in [Slot -> Nat]
      BY <1>0 DEF TypeOK
    <3>2. [attempts EXCEPT ![slot] = attempts[slot] + 1] \in [Slot -> Nat]
      <4>1. slot \in Slot => attempts[slot] + 1 \in Nat
        BY <3>1
      <4>2. CASE slot \in Slot
        BY <3>1, <4>1, <4>2
      <4>3. CASE slot \notin Slot
        BY <3>1, <4>3
      <4> QED
        BY <4>2, <4>3
    <3> QED
      BY <1>3, <3>1, <3>2 DEF BootLinux
  <2>5. FlashOK' /\ bak' \in Table /\ GhostOK' /\ UNCHANGED <<FirstBoot, fb>>
    BY <1>0, <1>3 DEF BootLinux, flash, ghost, TypeOK, FlashOK, GhostOK
  <2> QED
    BY <1>0, <2>2, <2>3, <2>4, <2>5 DEF TypeInv, TypeOK
<1>4. CASE AuthFails
  <2>1. /\ mem' \in Table /\ pc' \in Labels /\ UpaOK' /\ ~InSetActive'
        /\ FirstBoot' \in BOOLEAN
        /\ slot' \in Slot \cup {NoSlot} /\ force' \in BOOLEAN
        /\ tail' = "unauth" /\ same' \in BOOLEAN
    BY <1>0, <1>4, ActiveSlotType, HandleUnbootableType DEF AuthFails
  <2>2. OpOK'
    BY <1>0, <1>4, <2>1 DEF AuthFails, TypeOK, OpOK
  <2>3. FlashOK' /\ bak' \in Table /\ GhostOK' /\ UNCHANGED <<fb, attempts>>
    BY <1>0, <1>4 DEF AuthFails, flash, ghost, TypeOK, FlashOK, GhostOK
  <2> QED
    BY <1>0, <2>1, <2>2, <2>3 DEF TypeInv, TypeOK
<1>5. CASE BootLinuxFails
  <2>1. FlashOK' /\ bak' \in Table /\ GhostOK' /\ UNCHANGED <<FirstBoot, attempts>>
    BY <1>0, <1>5 DEF BootLinuxFails, flash, ghost, TypeOK, FlashOK, GhostOK
  <2>2. CASE EnterFastboot
    BY <1>0, <2>1, <2>2, EnterFastbootType DEF TypeInv, TypeOK
  <2>3. CASE Goto("stopped") /\ EndOp /\ UNCHANGED fb
    <3>1. "stopped" \in Labels \ {"upa"}
      BY DEF Labels
    <3>2. mem' \in Table /\ pc' \in Labels /\ UpaOK' /\ ~InSetActive'
      BY <1>0, <2>3, <3>1, GotoType
    <3>3. OpOK'
      BY <2>3, LeaveType DEF EndOp
    <3> QED
      BY <1>0, <2>1, <2>3, <3>2, <3>3 DEF TypeInv, TypeOK
  <2> QED
    BY <1>5, <2>2, <2>3 DEF BootLinuxFails
<1> QED
  BY <1>1, <1>2, <1>3, <1>4, <1>5

LEMMA TypeCommands ==
  ASSUME TypeInv,
         \/ CmdSetActive \/ CmdSetActiveDone \/ CmdBoot \/ FlashBoot
         \/ CmdFlashPartition \/ MenuAlternateSlot \/ MenuPreempts
         \/ MarkBootSuccessful
  PROVE  TypeInv'
<1>0. TypeOK /\ mem \in Table
  BY DEF TypeInv, TypeOK
<1>1. CASE CmdSetActive
  <2>1. PICK n \in Slot : SetActiveSlot(n, TRUE, "sa_done")
    BY <1>1 DEF CmdSetActive
  <2>2. /\ mem' \in Table /\ pc' \in Labels /\ UpaOK'
        /\ attempts' \in [Slot -> Nat]
        /\ slot' \in Slot /\ same' \in BOOLEAN /\ tail' = "sa_done"
    BY <1>0, <2>1, SetActiveSlotType
  <2>3. OpOK'
    BY <1>0, <1>1, <2>2 DEF CmdSetActive, OpOK, TypeOK
  <2>4. FlashOK' /\ bak' \in Table /\ GhostOK' /\ UNCHANGED <<FirstBoot, fb>>
    BY <1>0, <1>1 DEF CmdSetActive, flash, ghost, TypeOK, FlashOK, GhostOK
  <2> QED
    BY <1>0, <2>2, <2>3, <2>4 DEF TypeInv, TypeOK
<1>2. CASE CmdSetActiveDone
  <2>1. "fastboot" \in Labels \ {"upa"}
    BY DEF Labels
  <2>2. mem' \in Table /\ pc' \in Labels /\ UpaOK' /\ ~InSetActive'
    BY <1>0, <1>2, <2>1, CallUpdateType DEF CmdSetActiveDone
  <2>3. OpOK'
    BY <1>2, LeaveType DEF CmdSetActiveDone, EndOp
  <2>4. FlashOK' /\ bak' \in Table /\ GhostOK'
        /\ UNCHANGED <<FirstBoot, fb, attempts>>
    BY <1>0, <1>2 DEF CmdSetActiveDone, flash, ghost, TypeOK, FlashOK, GhostOK
  <2> QED
    BY <1>0, <2>2, <2>3, <2>4 DEF TypeInv, TypeOK
<1>3. CASE CmdBoot
  <2> DEFINE s == ActiveSlot(mem)
             t == SetBoot(mem, s, [BootAttr(mem, s) EXCEPT !.unboot = FALSE])
  <2>1. t \in Table
    BY <1>0, BootAttrType, AttrType, SetBootType
  <2>2. "boot_cmd" \in Labels \ {"upa"}
    BY DEF Labels, Busy
  <2>3. mem' \in Table /\ pc' \in Labels /\ UpaOK' /\ ~InSetActive'
    BY <1>0, <1>3, <2>1, <2>2, CallUpdateType DEF CmdBoot
  <2>4. /\ FlashOK' /\ bak' \in Table /\ GhostOK' /\ OpOK'
        /\ UNCHANGED <<FirstBoot, fb, attempts>>
    BY <1>0, <1>3 DEF CmdBoot, flash, op, ghost, TypeOK, FlashOK, GhostOK, OpOK
  <2> QED
    BY <1>0, <2>3, <2>4 DEF TypeInv, TypeOK
<1>4. CASE FlashBoot
  <2>1. PICK s \in Slot :
          /\ CallUpdate("attr", SetBoot(mem, s, FlashedAttr(BootAttr(mem, s))),
                        "fastboot")
          /\ Refill(s)
    BY <1>4 DEF FlashBoot
  <2>2. SetBoot(mem, s, FlashedAttr(BootAttr(mem, s))) \in Table
    BY <1>0, BootAttrType, AttrType, SetBootType
  <2>3. "fastboot" \in Labels \ {"upa"}
    BY DEF Labels
  <2>4. mem' \in Table /\ pc' \in Labels /\ UpaOK' /\ ~InSetActive'
    BY <1>0, <2>1, <2>2, <2>3, CallUpdateType
  <2>5. attempts' \in [Slot -> Nat]
    BY <1>0, <2>1, RefillType
  <2>6. /\ FlashOK' /\ bak' \in Table /\ GhostOK' /\ OpOK'
        /\ UNCHANGED <<FirstBoot, fb>>
    BY <1>0, <1>4 DEF FlashBoot, flash, op, ghost, TypeOK, FlashOK, GhostOK, OpOK
  <2> QED
    BY <1>0, <2>4, <2>5, <2>6 DEF TypeInv, TypeOK
<1>5. CASE MenuAlternateSlot
  <2>1. /\ mem' \in Table /\ pc' \in Labels /\ UpaOK' /\ ~InSetActive'
        /\ FirstBoot' \in BOOLEAN
        /\ slot' \in Slot \cup {NoSlot} /\ force' \in BOOLEAN
        /\ tail' = "fastboot" /\ same' \in BOOLEAN
    BY <1>0, <1>5, ActiveSlotType, HandleUnbootableType DEF MenuAlternateSlot
  <2>2. OpOK'
    BY <1>0, <1>5, <2>1 DEF MenuAlternateSlot, TypeOK, OpOK
  <2>3. FlashOK' /\ bak' \in Table /\ GhostOK' /\ UNCHANGED <<fb, attempts>>
    BY <1>0, <1>5 DEF MenuAlternateSlot, flash, ghost, TypeOK, FlashOK, GhostOK
  <2> QED
    BY <1>0, <2>1, <2>2, <2>3 DEF TypeInv, TypeOK
<1>6. CASE MenuPreempts
  <2>1. mem' \in Table
    BY <1>0, <1>6, UnfinishedType DEF MenuPreempts
  <2>2. bak' \in Table
    <3>1. CASE pc = "upa"
      <4>1. disk[iter] \in Table /\ bak \in Table
        BY <1>0 DEF TypeOK, FlashOK, UpaOK
      <4>2. PICK n \in 0 .. PartitionCount : bak' = Walk(disk[iter], lun, mask)[n].bak
        BY <1>6, <3>1 DEF MenuPreempts, UnfinishedBak
      <4> QED
        BY <1>0, <4>1, <4>2, WalkType
    <3>2. CASE pc # "upa"
      BY <1>0, <1>6, <3>2 DEF MenuPreempts, UnfinishedBak, TypeOK
    <3> QED
      BY <3>1, <3>2
  <2>3. pc' = "menu" /\ pc' \in Labels /\ ~InSetActive'
    BY <1>6 DEF MenuPreempts, Labels, Busy, InSetActive
  <2>4. UpaOK'
    BY <1>6, BoundsAssumption DEF MenuPreempts, Registers, UpaOK, Luns, Copy, Labels
  <2>5. OpOK' /\ FlashOK' /\ UNCHANGED <<FirstBoot, fb, attempts>>
    BY <1>0, <1>6 DEF MenuPreempts, flash, TypeOK, OpOK, FlashOK
  <2>6. GhostOK'
    <3>1. preempts' \in 0 .. MaxPreempts
      BY <1>0, <1>6, BoundsAssumption DEF MenuPreempts, TypeOK, GhostOK
    <3>2. caught' \in BOOLEAN
      BY <1>6 DEF MenuPreempts
    <3> QED
      BY <1>0, <1>6, <3>1, <3>2 DEF MenuPreempts, TypeOK, GhostOK
  <2> QED
    BY <1>0, <2>1, <2>2, <2>3, <2>4, <2>5, <2>6 DEF TypeInv, TypeOK
<1>7. CASE CmdFlashPartition
  <2>1. FlashOK' /\ UpaOK' /\ OpOK' /\ GhostOK'
    BY <1>0, <1>7 DEF CmdFlashPartition, upa, op, ghost, TypeOK, FlashOK, UpaOK,
                      OpOK, GhostOK
  <2> QED
    BY <1>0, <1>7, <2>1
    DEF CmdFlashPartition, upa, op, TypeInv, TypeOK, InSetActive
<1>8. CASE MarkBootSuccessful
  <2>1. ASSUME NEW c \in Copy
        PROVE  SetBoot(disk[c], slot,
                 [BootAttr(disk[c], slot) EXCEPT !.succ = TRUE]) \in Table
    <3>1. disk[c] \in Table
      BY <1>0 DEF TypeOK, FlashOK
    <3> QED
      BY <3>1, BootAttrType, AttrType, SetBootType
  <2>2. disk' \in [Copy -> Table]
    BY <1>8, <2>1 DEF MarkBootSuccessful
  <2>3. FlashOK' /\ UpaOK' /\ OpOK' /\ GhostOK'
    BY <1>0, <1>8, <2>2 DEF MarkBootSuccessful, upa, op, ghost, TypeOK,
                            FlashOK, UpaOK, OpOK, GhostOK
  <2> QED
    BY <1>0, <1>8, <2>3
    DEF MarkBootSuccessful, upa, op, TypeInv, TypeOK, InSetActive
<1> QED
  BY <1>1, <1>2, <1>3, <1>4, <1>5, <1>6, <1>7, <1>8

LEMMA TypeNext == TypeInv /\ [Next]_vars => TypeInv'
<1>1. ASSUME TypeInv, Next PROVE TypeInv'
  BY <1>1, TypeUpdate, TypePower, TypePowerOn, TypeLoader, TypeBoot, TypeCommands
  DEF Next, Loader, Commands, Environment
<1>2. ASSUME TypeInv, UNCHANGED vars PROVE TypeInv'
  BY <1>2 DEF vars, flash, upa, op, ghost, TypeInv, TypeOK, FlashOK, UpaOK, OpOK,
              GhostOK, InSetActive
<1> QED
  BY <1>1, <1>2

(* Type correctness of the slot state machine: the operations of           *)
(* PartitionTableUpdate.c and their callers keep every table a table, and  *)
(* every retry count in 0 .. MaxRetry, for every layout of partitions.     *)
THEOREM TypeCorrect == Spec => []TypeOK
<1>1. Init => TypeInv
  BY TypeInit
<1>2. TypeInv /\ [Next]_vars => TypeInv'
  BY TypeNext
<1>3. TypeInv => TypeOK
  BY DEF TypeInv
<1> QED
  BY <1>1, <1>2, <1>3, PTL DEF Spec

=============================================================================
