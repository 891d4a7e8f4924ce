-------------------------- MODULE GptFlash_proofs --------------------------
(***************************************************************************)
(* Proofs about GptFlash, for every size of LUN and table, every set of    *)
(* images, and any number of power losses and failed writes.               *)
(***************************************************************************)
EXTENDS GptFlash, FiniteSetTheorems, WellFoundedInduction, TLAPS

Plain == Entry \cup Unused

Flashing == Writing \cup {"erase"}

(* What a header on the LUN says: all name the same end of the usable      *)
(* blocks, the primary names the backup, and a backup that has its own     *)
(* place, as only the partition driver makes it, names the primary.        *)
HeaderOK(h, b) ==
  /\ h.last = LastUsableLba /\ h.cnt <= MaxParts
  /\ b = 1 => h.alt = NumSectors - 1
  /\ b = NumSectors - 1 /\ h.my = b => h.alt = 1 /\ h.entries = BackupLba

BlockOK(x, b) == x \in Block /\ (x.kind = "header" => HeaderOK(x, b))

Sane(d) == d \in [LBAs -> Block] /\ \A b \in LBAs : BlockOK(d[b], b)

(* Headers are nowhere else.  There is one exception: a primary header may *)
(* have its array at the last block, where the restored backup overwrites  *)
(* it, so that a header is copied into the backup's array.  Then neither   *)
(* copy is valid and there is no table.                                    *)
Inner == LBAs \ {0, 1, NumSectors - 1}

InnerPlain(d) == \A b \in Inner : d[b] \in Plain

Wrecked(d) ==
  /\ d[NumSectors - 1].kind = "header"
  /\ d[1].kind = "header" => /\ d[1].entries <= NumSectors - 1
                             /\ NumSectors - 1 < d[1].entries + d[1].cnt
  /\ \E b \in Inner : /\ d[b] \notin Plain /\ BackupLba <= b
                      /\ b < BackupLba + d[NumSectors - 1].cnt
                      /\ \A c \in Inner \ {b} : d[c] \in Plain

Arrays ==
  \/ InnerPlain(disk)
  \/ table = <<>> /\ pc \notin Writing \cup {"flush", "refresh"} /\ Wrecked(disk)

(* An image that WriteGpt lets through.                                    *)
Parsed(i) ==
  /\ i \in Images /\ i.prim \in Header /\ i.sec \in Header
  /\ i.prim.cnt <= MaxParts /\ i.sec.cnt <= MaxParts

Flows ==
  /\ pc \in Flashing => Parsed(img) /\ gpt = PatchGpt(img)
  /\ pc = "flush" => Parsed(img)
  /\ pc = "off" => table = <<>>
  /\ pc \in Updating => table # <<>>
  /\ pc \in Writing \cup {"flush"} => cut /\ single

(* Two entries, or two unused ones, that differ at most in attributes.     *)
Like(b, c) ==
  /\ b.kind = c.kind
  /\ b.kind = "entry" => b.id = c.id /\ b.first = c.first /\ b.last = c.last

(* The array that PatchGpt makes of an image.                              *)
Wanted(i) == Grow(i.parts, TotalPart(i))

(* The header of a copy of i at lba, with its array from lba e on, and the *)
(* array.                                                                  *)
CopyHead(d, i, lba, alt, e) ==
  LET h == d[lba]
  IN  /\ h \in Header /\ h.size = GPT_HEADER_SIZE /\ h.crc = GPT_HEADER_SIZE
      /\ h.my = lba /\ h.alt = alt /\ h.entries = e /\ h.cnt = i.sec.cnt
      /\ h.first = 2 + MaxParts /\ h.last = LastUsableLba
      /\ Len(h.acrc) = h.cnt /\ \A k \in 1 .. h.cnt : Like(h.acrc[k], Wanted(i)[k])

Body(d, i, e) ==
  \A k \in 1 .. i.sec.cnt : d[(e + k) - 1] \in Plain /\ Like(d[(e + k) - 1], Wanted(i)[k])

Primary(d, i) == CopyHead(d, i, 1, NumSectors - 1, 2) /\ Body(d, i, 2)

BackupHead(d, i) == CopyHead(d, i, NumSectors - 1, 1, BackupLba)

(* The header of the backup is as WriteGpt left it, or the driver restored *)
(* it; the array is like the primary's either way.                         *)
Backup(d, i) ==
  /\ d[NumSectors - 1] \in Header /\ Body(d, i, BackupLba)
  /\ \/ d[NumSectors - 1].my = 1 /\ d[NumSectors - 1].cnt = i.sec.cnt
     \/ BackupHead(d, i)

Valid1(d) == ValidGptTable(d, 1)
Valid2(d) == ValidGptTable(d, NumSectors - 1)

Shaped(d, i) ==
  /\ d[0] = Mbr /\ Primary(d, i) /\ Backup(d, i) /\ (Valid1(d) \/ Valid2(d))

(* How far WriteGpt has come with a sound image.                           *)
Progress ==
  /\ pc \in {"prim", "sec", "parts", "parts2", "flush"} => disk[0] = Mbr \/ ~Sound(img)
  /\ pc \in {"sec", "parts", "parts2", "flush"} /\ Sound(img) => disk[1] = PatchGpt(img).prim
  /\ pc \in {"parts", "parts2", "flush"} /\ Sound(img) => disk[NumSectors - 1] = PatchGpt(img).sec
  /\ pc \in {"parts2", "flush"} /\ Sound(img) =>
       \A k \in 1 .. MaxParts : disk[1 + k] = Wanted(img)[k]
  /\ pc = "flush" /\ Sound(img) =>
       \A k \in 1 .. MaxParts : disk[(BackupLba + k) - 1] = Wanted(img)[k]

(* A table that is not given up.                                           *)
Kept ==
  ~cut /\ pc \notin Flashing =>
    /\ Parsed(img) /\ Sound(img) /\ Shaped(disk, img)
    /\ pc = "refresh" => Valid1(disk)
    /\ ~single /\ pc # "off" => Valid1(disk) /\ Valid2(disk)
    /\ ~stale /\ pc \in {"idle"} \cup Updating => Extents(table) = Expected(img)

GptInv == TypeOK /\ Sane(disk) /\ Arrays /\ Flows /\ Progress /\ Kept

-----------------------------------------------------------------------------
(* The layout, and the kinds of blocks.                                    *)

LEMMA Layout ==
  /\ MaxParts \in Nat /\ MaxParts >= 1
  /\ NumSectors \in Nat /\ NumSectors > MaxParts + MaxParts + 3
  /\ LBAs = 0 .. NumSectors - 1
  /\ BackUpGptLba = NumSectors - 1 /\ PtnEntryBlks = MaxParts + 1
  /\ LastUsableLba = NumSectors - (MaxParts + 2) /\ LastUsableLba \in Nat
  /\ LastLba = LastUsableLba
  /\ BackupLba = NumSectors - (MaxParts + 1) /\ BackupLba \in Nat
  /\ BackupLba = LastUsableLba + 1
  BY GptAssumption DEF LBAs, BackUpGptLba, PtnEntryBlks, LastUsableLba, LastLba, BackupLba

LEMMA Places ==
  /\ 0 \in LBAs /\ 1 \in LBAs /\ NumSectors - 1 \in LBAs
  /\ \A k \in 1 .. MaxParts : /\ 1 + k \in Inner
                              /\ (BackupLba + k) - 1 \in Inner
                              /\ (BackupLba + k) - 1 # 1 + k
  /\ Inner \subseteq LBAs
  BY Layout DEF Inner

LEMMA Kinds ==
  /\ Zero \in Plain /\ Plain \subseteq Block /\ Header \subseteq Block /\ Mbr \in Block
  /\ \A b \in Block : /\ b.kind = "header" <=> b \in Header
                      /\ b.kind = "entry" <=> b \in Entry
                      /\ b.kind = "zero" <=> b \in Unused
                      /\ b \in Plain <=> b.kind \in {"entry", "zero"}
                      /\ b.kind \in {"header", "entry", "zero", "mbr"}
  /\ Mbr.kind = "mbr"
<1>1. Zero \in Plain
  BY DEF Zero, Unused, Plain
<1>2. Plain \subseteq Block /\ Header \subseteq Block /\ Mbr \in Block
  BY DEF Plain, Block
<1>3. Mbr.kind = "mbr" /\ (\A b \in Header : b.kind = "header")
      /\ (\A b \in Entry : b.kind = "entry") /\ (\A b \in Unused : b.kind = "zero")
  BY DEF Mbr, Header, Entry, Unused
<1>4. ASSUME NEW b \in Block
      PROVE  b = Mbr \/ b \in Unused \/ b \in Entry \/ b \in Header
  BY DEF Block
<1> QED
  BY <1>1, <1>2, <1>3, <1>4 DEF Plain

-----------------------------------------------------------------------------
(* A write of s at lba of which the first n blocks are done.               *)

Written(d, e, lba, s, n) ==
  e = [b \in LBAs |-> IF lba <= b /\ b < lba + n THEN s[(b - lba) + 1] ELSE d[b]]

LEMMA PutWritten ==
  ASSUME NEW d, NEW lba \in Nat, NEW s, Len(s) \in Nat
  PROVE  Written(d, Put(d, lba, s), lba, s, Len(s))
<1>1. ASSUME NEW b \in LBAs
      PROVE  /\ b \in lba .. lba + Len(s) - 1 <=> lba <= b /\ b < lba + Len(s)
             /\ b - lba + 1 = (b - lba) + 1
  BY Layout
<1> QED
  BY <1>1 DEF Written, Put

LEMMA PutSomeWritten ==
  ASSUME NEW d, NEW lba \in Nat, NEW S, NEW s \in Seq(S), NEW e \in PutSome(d, lba, s)
  PROVE  \E n \in 0 .. Len(s) : Written(d, e, lba, s, n)
<1>1. PICK n \in 0 .. Len(s) : e = Put(d, lba, SubSeq(s, 1, n))
  BY DEF PutSome
<1>2. Len(SubSeq(s, 1, n)) = n /\ n \in Nat
      /\ \A k \in 1 .. n : SubSeq(s, 1, n)[k] = s[k]
  OBVIOUS
<1>3. Written(d, e, lba, SubSeq(s, 1, n), n)
  BY <1>1, <1>2, PutWritten
<1>4. ASSUME NEW b \in LBAs, lba <= b, b < lba + n
      PROVE  SubSeq(s, 1, n)[(b - lba) + 1] = s[(b - lba) + 1]
  <2>1. (b - lba) + 1 \in 1 .. n
    BY <1>2, <1>4, Layout
  <2> QED
    BY <1>2, <2>1
<1> QED
  BY <1>3, <1>4 DEF Written

-----------------------------------------------------------------------------
(* Induction, stated of a set of numbers, and what the two recursive       *)
(* functions compute.                                                      *)

LEMMA SetInduction ==
  ASSUME NEW T, 0 \in T, \A n \in Nat : n \in T => n + 1 \in T
  PROVE  \A n \in Nat : n \in T
<1> SUFFICES ASSUME NEW m \in Nat, m \notin T PROVE FALSE
  OBVIOUS
<1> DEFINE D == {k \in Nat : k \notin T}
           R == {ss \in Nat \X Nat : ss[1] < ss[2]}
<1>1. IsWellFoundedOn(R, Nat)
  BY NatLessThanWellFounded DEF OpToRel
<1>2. D \subseteq Nat /\ m \in D
  OBVIOUS
<1> HIDE DEF R
<1>3. PICK x \in D : \A y \in D : ~(<<y, x>> \in R)
  <2> HIDE DEF D
  <2> QED
    BY <1>1, <1>2, WFMin
<1>4. x # 0 /\ x - 1 \in Nat /\ x - 1 \notin T
  OBVIOUS
<1>5. <<x - 1, x>> \in R
  BY <1>4 DEF R
<1> QED
  BY <1>3, <1>4, <1>5

HandlesNext(g, h, k) == IF GetsHandle(h, k) THEN Append(g, h.acrc[k]) ELSE g

IsHandles(f, h, n) ==
  f = [k \in 0 .. n |-> IF k = 0 THEN <<>> ELSE HandlesNext(f[k - 1], h, k)]

LEMMA HandlesExist ==
  ASSUME NEW h, NEW n \in Nat
  PROVE  \E f : IsHandles(f, h, n)
<1> DEFINE T == {m \in Nat : \E f : IsHandles(f, h, m)}
<1>1. 0 \in T
  <2> DEFINE g == [k \in 0 .. 0 |-> <<>>]
  <2>1. g = [k \in 0 .. 0 |-> IF k = 0 THEN <<>> ELSE HandlesNext(g[k - 1], h, k)]
    OBVIOUS
  <2> QED
    BY <2>1 DEF IsHandles
<1>2. ASSUME NEW m \in Nat, m \in T PROVE m + 1 \in T
  <2>1. PICK f : IsHandles(f, h, m)
    BY <1>2
  <2> DEFINE g == [k \in 0 .. m + 1 |-> IF k = m + 1 THEN HandlesNext(f[m], h, m + 1)
                                                    ELSE f[k]]
             r == [k \in 0 .. m + 1 |-> IF k = 0 THEN <<>> ELSE HandlesNext(g[k - 1], h, k)]
  <2>2. ASSUME NEW k \in 0 .. m + 1 PROVE g[k] = r[k]
    <3>1. CASE k = 0
      BY <2>1, <3>1 DEF IsHandles
    <3>2. CASE k \in 1 .. m
      <4>1. k - 1 \in 0 .. m + 1 /\ k - 1 # m + 1 /\ k # m + 1 /\ k \in 0 .. m /\ k # 0
        BY <3>2
      <4>2. g[k] = f[k] /\ g[k - 1] = f[k - 1]
        BY <4>1
      <4>3. f[k] = HandlesNext(f[k - 1], h, k)
        BY <2>1, <4>1 DEF IsHandles
      <4>4. r[k] = HandlesNext(g[k - 1], h, k)
        BY <4>1
      <4> QED
        BY <4>2, <4>3, <4>4
    <3>3. CASE k = m + 1
      <4>1. k - 1 = m /\ m \in 0 .. m + 1 /\ m # m + 1 /\ k # 0
        BY <3>3
      <4> QED
        BY <3>3, <4>1
    <3> QED
      BY <3>1, <3>2, <3>3
  <2>3. g = r
    BY <2>2
  <2>4. IsHandles(g, h, m + 1)
    BY <2>3 DEF IsHandles
  <2> HIDE DEF g
  <2> QED
    BY <2>4
<1>3. n \in T
  <2> HIDE DEF T
  <2> QED
    BY <1>1, <1>2, SetInduction
<1> QED
  BY <1>3

(* g holds exactly those of the first m entries of h that get a handle.    *)
HandlesOf(g, h, m) ==
  /\ g \in Seq(Entry) /\ Len(g) <= m
  /\ \A n \in 1 .. Len(g) : \E k \in 1 .. m : GetsHandle(h, k) /\ g[n] = h.acrc[k]
  /\ \A k \in 1 .. m :
       GetsHandle(h, k) => \E n \in 1 .. Len(g) : g[n] = h.acrc[k]

LEMMA HandlesFacts ==
  ASSUME NEW h \in Header, Len(h.acrc) = h.cnt
  PROVE  HandlesOf(Handles(h), h, h.cnt)
<1> DEFINE f == CHOOSE g : IsHandles(g, h, h.cnt)
           T == {m \in Nat : m <= h.cnt => HandlesOf(f[m], h, m)}
<1>0. h.cnt \in Nat /\ h.acrc \in Seq(Entry \cup Unused)
  BY DEF Header
<1>1. Handles(h) = f[h.cnt]
  BY DEF Handles, IsHandles, HandlesNext
<1>2. IsHandles(f, h, h.cnt)
  BY <1>0, HandlesExist
<1> HIDE DEF f
<1>3. 0 \in T
  <2>1. f[0] = <<>>
    BY <1>0, <1>2 DEF IsHandles
  <2>2. HandlesOf(<<>>, h, 0)
    BY DEF HandlesOf
  <2> QED
    BY <2>1, <2>2
<1>4. ASSUME NEW m \in Nat, m \in T PROVE m + 1 \in T
  <2> SUFFICES ASSUME m + 1 <= h.cnt PROVE HandlesOf(f[m + 1], h, m + 1)
    OBVIOUS
  <2>1. HandlesOf(f[m], h, m)
    BY <1>0, <1>4
  <2>2. m + 1 \in 0 .. h.cnt /\ m + 1 # 0 /\ (m + 1) - 1 = m
    BY <1>0
  <2>3. f[m + 1] = HandlesNext(f[m], h, m + 1)
    BY <1>2, <2>2 DEF IsHandles
  <2> DEFINE g == f[m]
  <2>4. HandlesOf(g, h, m)
    BY <2>1
  <2> HIDE DEF g
  <2>5. CASE ~GetsHandle(h, m + 1)
    <3>1. f[m + 1] = g
      BY <2>3, <2>5 DEF HandlesNext, g
    <3>2. \A k \in 1 .. m + 1 : k \in 1 .. m \/ k = m + 1
      OBVIOUS
    <3>3. /\ g \in Seq(Entry) /\ Len(g) <= m + 1
          /\ \A n \in 1 .. Len(g) : \E k \in 1 .. m + 1 : GetsHandle(h, k) /\ g[n] = h.acrc[k]
      BY <2>4 DEF HandlesOf
    <3>4. \A k \in 1 .. m + 1 :
            GetsHandle(h, k) => \E n \in 1 .. Len(g) : g[n] = h.acrc[k]
      BY <2>4, <2>5, <3>2 DEF HandlesOf
    <3>5. HandlesOf(g, h, m + 1)
      BY <3>3, <3>4 DEF HandlesOf
    <3> QED
      BY <3>1, <3>5
  <2>6. CASE GetsHandle(h, m + 1)
    <3> DEFINE e == h.acrc[m + 1]
               u == Append(g, e)
    <3>1. f[m + 1] = u
      BY <2>3, <2>6 DEF HandlesNext, g
    <3>2. e \in Entry
      <4>1. e \in Entry \cup Unused
        BY <1>0, <2>2
      <4>2. e.kind = "entry"
        BY <2>6 DEF GetsHandle, InUse
      <4> QED
        BY <4>1, <4>2 DEF Unused
    <3> HIDE DEF e
    <3>3. /\ u \in Seq(Entry) /\ Len(u) = Len(g) + 1 /\ u[Len(g) + 1] = e
          /\ Len(g) \in Nat /\ \A n \in 1 .. Len(g) : u[n] = g[n]
      BY <2>4, <3>2 DEF HandlesOf
    <3> HIDE DEF u
    <3>4. ASSUME NEW n \in 1 .. Len(u)
          PROVE  \E k \in 1 .. m + 1 : GetsHandle(h, k) /\ u[n] = h.acrc[k]
      <4>1. CASE n = Len(g) + 1
        BY <2>6, <3>3, <4>1 DEF e
      <4>2. CASE n \in 1 .. Len(g)
        <5>1. PICK k \in 1 .. m : GetsHandle(h, k) /\ g[n] = h.acrc[k]
          BY <2>4, <4>2 DEF HandlesOf
        <5> QED
          BY <3>3, <4>2, <5>1
      <4> QED
        BY <3>3, <4>1, <4>2
    <3>5. ASSUME NEW k \in 1 .. m + 1, GetsHandle(h, k)
          PROVE  \E n \in 1 .. Len(u) : u[n] = h.acrc[k]
      <4>1. CASE k = m + 1
        BY <3>3, <4>1 DEF e
      <4>2. CASE k \in 1 .. m
        <5>1. PICK n \in 1 .. Len(g) : g[n] = h.acrc[k]
          BY <2>4, <3>5, <4>2 DEF HandlesOf
        <5> QED
          BY <3>3, <5>1
      <4> QED
        BY <4>1, <4>2
    <3>6. Len(u) <= m + 1
      BY <2>4, <3>3 DEF HandlesOf
    <3> QED
      BY <3>1, <3>3, <3>4, <3>5, <3>6 DEF HandlesOf
  <2> QED
    BY <2>5, <2>6
<1>5. h.cnt \in T
  <2> HIDE DEF T
  <2> QED
    BY <1>0, <1>3, <1>4, SetInduction
<1> QED
  BY <1>0, <1>1, <1>5

(* The attribute walk leaves everything of a block but its attributes.     *)
Alike(b, c) == b = c \/ (b \in Plain /\ c \in Plain /\ Like(b, c))

LEMMA AttrAlike ==
  ASSUME NEW b \in Block, b.kind \in {"zero", "entry"}, NEW a \in {0, 1}
  PROVE  /\ [b EXCEPT !.attr = a] \in Plain /\ b \in Plain
         /\ Like([b EXCEPT !.attr = a], b)
<1>1. CASE b.kind = "zero"
  <2>1. b \in Unused
    BY <1>1, Kinds
  <2>2. [b EXCEPT !.attr = a] \in Unused /\ [b EXCEPT !.attr = a].kind = "zero"
    BY <2>1 DEF Unused
  <2> QED
    BY <1>1, <2>1, <2>2 DEF Plain, Like
<1>2. CASE b.kind = "entry"
  <2>1. b \in Entry
    BY <1>2, Kinds
  <2>2. /\ [b EXCEPT !.attr = a] \in Entry
        /\ [b EXCEPT !.attr = a].kind = b.kind /\ [b EXCEPT !.attr = a].id = b.id
        /\ [b EXCEPT !.attr = a].first = b.first /\ [b EXCEPT !.attr = a].last = b.last
    BY <2>1 DEF Entry
  <2> QED
    BY <1>2, <2>1, <2>2 DEF Plain, Like
<1> QED
  BY <1>1, <1>2

LEMMA LikeTrans ==
  ASSUME NEW a, NEW b, NEW c, Like(a, b), Like(b, c)
  PROVE  Like(a, c)
  BY DEF Like

LEMMA AlikeTrans ==
  ASSUME NEW a, NEW b, NEW c, Alike(a, b), Alike(b, c)
  PROVE  Alike(a, c)
  BY LikeTrans DEF Alike

IsAttrWalk(w, old, n) ==
  w = [k \in 0 .. n |-> IF k = 0 THEN [array |-> old, at |-> 1]
                        ELSE AttrStep(w[k - 1], table[k])]

LEMMA AttrWalkExists ==
  ASSUME NEW old, NEW n \in Nat
  PROVE  \E w : IsAttrWalk(w, old, n)
<1> DEFINE T == {m \in Nat : \E w : IsAttrWalk(w, old, m)}
           first == [array |-> old, at |-> 1]
<1>1. 0 \in T
  <2> DEFINE g == [k \in 0 .. 0 |-> first]
  <2>1. g = [k \in 0 .. 0 |-> IF k = 0 THEN first ELSE AttrStep(g[k - 1], table[k])]
    OBVIOUS
  <2>2. IsAttrWalk(g, old, 0)
    BY <2>1 DEF IsAttrWalk
  <2> HIDE DEF g
  <2> QED
    BY <2>2
<1>2. ASSUME NEW m \in Nat, m \in T PROVE m + 1 \in T
  <2>1. PICK f : IsAttrWalk(f, old, m)
    BY <1>2
  <2> DEFINE g == [k \in 0 .. m + 1 |->
                     IF k = m + 1 THEN AttrStep(f[m], table[m + 1]) ELSE f[k]]
             r == [k \in 0 .. m + 1 |->
                     IF k = 0 THEN first ELSE AttrStep(g[k - 1], table[k])]
  <2>2. ASSUME NEW k \in 0 .. m + 1 PROVE g[k] = r[k]
    <3>1. CASE k = 0
      BY <2>1, <3>1 DEF IsAttrWalk
    <3>2. CASE k \in 1 .. m
      <4>1. k - 1 \in 0 .. m + 1 /\ k - 1 # m + 1 /\ k # m + 1 /\ k \in 0 .. m /\ k # 0
        BY <3>2
      <4>2. g[k] = f[k] /\ g[k - 1] = f[k - 1]
        BY <4>1
      <4>3. f[k] = AttrStep(f[k - 1], table[k])
        BY <2>1, <4>1 DEF IsAttrWalk
      <4>4. r[k] = AttrStep(g[k - 1], table[k])
        BY <4>1
      <4> QED
        BY <4>2, <4>3, <4>4
    <3>3. CASE k = m + 1
      <4>1. k - 1 = m /\ m \in 0 .. m + 1 /\ m # m + 1 /\ k # 0
        BY <3>3
      <4> QED
        BY <3>3, <4>1
    <3> QED
      BY <3>1, <3>2, <3>3
  <2>3. g = r
    BY <2>2
  <2>4. IsAttrWalk(g, old, m + 1)
    BY <2>3 DEF IsAttrWalk
  <2> HIDE DEF g
  <2> QED
    BY <2>4
<1>3. n \in T
  <2> HIDE DEF T
  <2> QED
    BY <1>1, <1>2, SetInduction
<1> QED
  BY <1>3

BlockArray == [1 .. MaxParts -> Block]

LEMMA AttrStepAlike ==
  ASSUME NEW w, w.array \in BlockArray, NEW m \in Nat, w.at \in 1 .. m + 1,
         m + 1 <= MaxParts, NEW e \in Entry
  PROVE  /\ AttrStep(w, e).array \in BlockArray
         /\ AttrStep(w, e).at \in 1 .. m + 2
         /\ \A k \in 1 .. MaxParts : Alike(AttrStep(w, e).array[k], w.array[k])
<1> DEFINE b == w.array[w.at]
           c == [b EXCEPT !.attr = e.attr]
           v == [k \in 1 .. MaxParts |-> IF k = w.at THEN c ELSE w.array[k]]
<1>1. w.at \in 1 .. MaxParts /\ b \in Block /\ e.attr \in {0, 1}
  BY Layout DEF BlockArray, Entry
<1>2. CASE ~(b.kind = "zero" \/ (b.kind = "entry" /\ b.id = e.id))
  BY <1>2 DEF AttrStep, Alike
<1>3. CASE b.kind = "zero" \/ (b.kind = "entry" /\ b.id = e.id)
  <2>1. AttrStep(w, e) = [array |-> v, at |-> w.at + 1]
    BY <1>3 DEF AttrStep, BlockArray
  <2>2. c \in Plain /\ b \in Plain /\ Like(c, b) /\ c \in Block
    BY <1>1, <1>3, AttrAlike, Kinds
  <2> HIDE DEF c
  <2>3. v \in BlockArray /\ \A k \in 1 .. MaxParts : v[k] = IF k = w.at THEN c ELSE w.array[k]
    BY <1>1, <2>2 DEF BlockArray
  <2> HIDE DEF v
  <2>4. \A k \in 1 .. MaxParts : Alike(v[k], w.array[k])
    BY <2>2, <2>3 DEF Alike
  <2> QED
    BY <2>1, <2>3, <2>4
<1> QED
  BY <1>2, <1>3

LEMMA WithAttrAlike ==
  ASSUME table \in Seq(Entry), Len(table) <= MaxParts, NEW old \in BlockArray
  PROVE  /\ WithAttr(old) \in BlockArray
         /\ \A k \in 1 .. MaxParts : Alike(WithAttr(old)[k], old[k])
<1> DEFINE w == CHOOSE g : IsAttrWalk(g, old, Len(table))
           Good(m) == /\ w[m].array \in BlockArray /\ w[m].at \in 1 .. m + 1
                      /\ \A k \in 1 .. MaxParts : Alike(w[m].array[k], old[k])
           T == {m \in Nat : m <= Len(table) => Good(m)}
<1>0. Len(table) \in Nat
  OBVIOUS
<1>1. WithAttr(old) = w[Len(table)].array
  BY DEF WithAttr, IsAttrWalk
<1>2. IsAttrWalk(w, old, Len(table))
  BY <1>0, AttrWalkExists
<1> HIDE DEF w
<1>3. 0 \in T
  <2>1. w[0] = [array |-> old, at |-> 1]
    BY <1>0, <1>2 DEF IsAttrWalk
  <2> QED
    BY <2>1 DEF Alike
<1>4. ASSUME NEW m \in Nat, m \in T PROVE m + 1 \in T
  <2> SUFFICES ASSUME m + 1 <= Len(table) PROVE Good(m + 1)
    OBVIOUS
  <2>1. Good(m)
    BY <1>0, <1>4
  <2>2. m + 1 \in 0 .. Len(table) /\ m + 1 # 0 /\ (m + 1) - 1 = m /\ m + 1 \in 1 .. Len(table)
    BY <1>0
  <2>3. w[m + 1] = AttrStep(w[m], table[m + 1])
    BY <1>2, <2>2 DEF IsAttrWalk
  <2>4. table[m + 1] \in Entry /\ m + 1 <= MaxParts
    BY <1>0, <2>2, Layout
  <2>5. /\ w[m + 1].array \in BlockArray /\ w[m + 1].at \in 1 .. m + 2
        /\ \A k \in 1 .. MaxParts : Alike(w[m + 1].array[k], w[m].array[k])
    BY <2>1, <2>3, <2>4, AttrStepAlike
  <2>6. \A k \in 1 .. MaxParts : Alike(w[m + 1].array[k], old[k])
    BY <2>1, <2>5, AlikeTrans
  <2> QED
    BY <2>5, <2>6
<1>5. Len(table) \in T
  <2> HIDE DEF T
  <2> QED
    BY <1>0, <1>3, <1>4, SetInduction
<1> QED
  BY <1>0, <1>1, <1>5

-----------------------------------------------------------------------------
(* What a write leaves.                                                    *)

Wrote(d, e, lba, s, n) ==
  /\ \A b \in LBAs : ~(lba <= b /\ b < lba + n) => e[b] = d[b]
  /\ \A k \in 1 .. n : (lba + k) - 1 \in LBAs => e[(lba + k) - 1] = s[k]

LEMMA WrittenAt ==
  ASSUME NEW d, NEW e, NEW lba \in Nat, NEW s, NEW n \in Nat, Written(d, e, lba, s, n)
  PROVE  Wrote(d, e, lba, s, n)
<1>1. ASSUME NEW k \in 1 .. n, (lba + k) - 1 \in LBAs
      PROVE  e[(lba + k) - 1] = s[k]
  <2> DEFINE b == (lba + k) - 1
  <2>1. lba <= b /\ b < lba + n /\ (b - lba) + 1 = k
    OBVIOUS
  <2>2. b \in LBAs
    BY <1>1
  <2> HIDE DEF b
  <2>3. e[b] = s[k]
    BY <2>1, <2>2 DEF Written
  <2> QED
    BY <2>3 DEF b
<1> QED
  BY <1>1 DEF Written, Wrote

(* Blocks that may be written from lba on.                                 *)
Fit(lba, s, n) ==
  \A k \in 1 .. n : (lba + k) - 1 \in LBAs =>
    /\ BlockOK(s[k], (lba + k) - 1)
    /\ (lba + k) - 1 \in Inner => s[k] \in Plain

LEMMA Overwrite ==
  ASSUME NEW d, Sane(d), NEW e, NEW lba \in Nat, NEW s, NEW n \in Nat,
         Written(d, e, lba, s, n), Fit(lba, s, n)
  PROVE  /\ Sane(e) /\ (InnerPlain(d) => InnerPlain(e))
<1>1. ASSUME NEW b \in LBAs
      PROVE  BlockOK(e[b], b) /\ (b \in Inner /\ d[b] \in Plain => e[b] \in Plain)
  <2>1. CASE lba <= b /\ b < lba + n
    <3> DEFINE k == (b - lba) + 1
    <3>1. k \in 1 .. n /\ (lba + k) - 1 = b
      BY <2>1, Layout
    <3> HIDE DEF k
    <3>2. e[b] = s[k]
      BY <2>1 DEF Written, k
    <3> QED
      BY <3>1, <3>2 DEF Fit
  <2>2. CASE ~(lba <= b /\ b < lba + n)
    <3>1. e[b] = d[b]
      BY <2>2 DEF Written
    <3> QED
      BY <3>1 DEF Sane
  <2> QED
    BY <2>1, <2>2
<1>2. e \in [LBAs -> Block]
  <2>1. e = [b \in LBAs |-> e[b]]
    BY DEF Written
  <2> QED
    BY <1>1, <2>1 DEF BlockOK
<1>3. Sane(e)
  BY <1>1, <1>2 DEF Sane
<1> QED
  BY <1>1, <1>3, Places DEF InnerPlain

-----------------------------------------------------------------------------
(* The image as PatchGpt leaves it.                                        *)

LEMMA TotalPartBound ==
  ASSUME NEW i, Parsed(i)
  PROVE  /\ i \in Image /\ i.sec.cnt \in Nat /\ i.prim.cnt \in Nat
         /\ i.sec.cnt <= MaxParts /\ TotalPart(i) \in 0 .. i.sec.cnt
<1>1. i \in Image /\ i.sec.cnt \in Nat /\ i.prim.cnt \in Nat /\ i.sec.cnt <= MaxParts
  BY GptAssumption DEF Parsed, Header
<1> DEFINE S == {n \in 1 .. i.sec.cnt : \A k \in 1 .. n : i.parts[k] # Zero}
<1>2. S \subseteq 1 .. i.sec.cnt
  OBVIOUS
<1> HIDE DEF S
<1>3. IsFiniteSet(1 .. i.sec.cnt) /\ Cardinality(1 .. i.sec.cnt) = i.sec.cnt
  <2> DEFINE c == i.sec.cnt
  <2>1. c \in Nat
    BY <1>1
  <2> HIDE DEF c
  <2>2. /\ IsFiniteSet(1 .. c)
        /\ Cardinality(1 .. c) = IF 1 > c THEN 0 ELSE c - 1 + 1
    BY <2>1, FS_Interval
  <2>3. IsFiniteSet(1 .. c) /\ Cardinality(1 .. c) = c
    BY <2>1, <2>2
  <2> QED
    BY <2>3 DEF c
<1>4. IsFiniteSet(S) /\ Cardinality(S) <= i.sec.cnt
  BY <1>2, <1>3, FS_Subset
<1>5. Cardinality(S) \in Nat
  BY <1>4, FS_CardinalityType
<1>6. TotalPart(i) = Cardinality(S)
  BY DEF TotalPart, S
<1> QED
  BY <1>1, <1>4, <1>5, <1>6

LEMMA GrowFacts ==
  ASSUME NEW a \in Array, NEW n \in 0 .. MaxParts
  PROVE  /\ Grow(a, n) \in Array
         /\ \A k \in 1 .. MaxParts : /\ Grow(a, n)[k] = Zero <=> a[k] = Zero
                                     /\ k # n \/ a[n] = Zero => Grow(a, n)[k] = a[k]
         /\ n # 0 /\ a[n] # Zero =>
              /\ Grow(a, n)[n] \in Entry /\ a[n] \in Entry
              /\ Grow(a, n)[n].id = a[n].id /\ Grow(a, n)[n].first = a[n].first
              /\ Grow(a, n)[n].last = LastUsableLba
<1>1. CASE n = 0 \/ a[n] = Zero
  BY <1>1 DEF Grow
<1>2. CASE ~(n = 0 \/ a[n] = Zero)
  <2> DEFINE x == [a[n] EXCEPT !.last = LastLba]
  <2>1. n \in 1 .. MaxParts /\ a[n] \in Entry
    BY <1>2 DEF Array
  <2>2. /\ x \in Entry /\ x.id = a[n].id /\ x.first = a[n].first /\ x.last = LastUsableLba
        /\ x.kind = "entry"
    BY <2>1, Layout DEF Entry
  <2>3. Grow(a, n) = [a EXCEPT ![n] = x]
    BY <1>2 DEF Grow
  <2> HIDE DEF x
  <2>4. x # Zero
    BY <2>2 DEF Zero
  <2>5. /\ Grow(a, n) \in Array
        /\ \A k \in 1 .. MaxParts : Grow(a, n)[k] = IF k = n THEN x ELSE a[k]
    BY <2>1, <2>2, <2>3 DEF Array
  <2> QED
    BY <1>2, <2>1, <2>2, <2>4, <2>5
<1> QED
  BY <1>1, <1>2

LEMMA ArraySeq ==
  ASSUME NEW a \in [1 .. MaxParts -> Plain], NEW n \in 0 .. MaxParts
  PROVE  /\ a \in Seq(Plain) /\ Len(a) = MaxParts
         /\ SubSeq(a, 1, n) \in Seq(Plain) /\ Len(SubSeq(a, 1, n)) = n
         /\ \A k \in 1 .. n : SubSeq(a, 1, n)[k] = a[k]
<1>1. MaxParts \in Nat
  BY Layout
<1>2. a \in Seq(Plain) /\ Len(a) = MaxParts
  BY <1>1
<1> QED
  BY <1>1, <1>2

LEMMA ArrayPlain == Array \subseteq [1 .. MaxParts -> Plain]
  BY Kinds DEF Array, Plain

(* The two headers that WriteGpt writes.                                   *)
LEMMA PatchFacts ==
  ASSUME NEW i, Parsed(i)
  PROVE  /\ PatchGpt(i).parts = Wanted(i) /\ PatchGpt(i).parts \in Array
         /\ i.parts2 = i.parts => PatchGpt(i).parts2 = Wanted(i)
         /\ PatchGpt(i).parts2 \in Array /\ Wanted(i) \in Array
         /\ PatchGpt(i).prim \in Header /\ PatchGpt(i).sec \in Header
         /\ LET p == PatchGpt(i).prim
            IN  /\ p.size = i.prim.size /\ p.my = i.prim.my /\ p.first = i.prim.first
                /\ p.entries = i.prim.entries /\ p.cnt = i.prim.cnt
                /\ p.alt = NumSectors - 1 /\ p.last = LastUsableLba
                /\ p.crc = GPT_HEADER_SIZE /\ p.acrc = SubSeq(Wanted(i), 1, i.sec.cnt)
         /\ LET q == PatchGpt(i).sec
            IN  /\ q.my = 1 /\ q.entries = BackupLba /\ q.cnt = i.sec.cnt
                /\ q.last = LastUsableLba
<1>1. i \in Image /\ TotalPart(i) \in 0 .. MaxParts /\ i.sec.cnt \in 0 .. MaxParts
  BY TotalPartBound, Layout, SMTT(30)
<1> DEFINE p1 == Grow(i.parts, TotalPart(i))
           p2 == Grow(i.parts2, TotalPart(i))
           a1 == SubSeq(p1, 1, i.sec.cnt)
           a2 == SubSeq(p2, 1, i.sec.cnt)
           hp == [i.prim EXCEPT !.alt = BackUpGptLba, !.last = LastUsableLba,
                                !.acrc = a1, !.crc = GPT_HEADER_SIZE]
           hs == [i.sec EXCEPT !.my = 1, !.last = LastUsableLba,
                               !.entries = NumSectors - PtnEntryBlks,
                               !.acrc = a2, !.crc = GPT_HEADER_SIZE]
<1>2. p1 \in Array /\ p2 \in Array
  BY <1>1, GrowFacts DEF Image
<1>3. PatchGpt(i) = [i EXCEPT !.parts = p1, !.parts2 = p2, !.prim = hp, !.sec = hs]
  BY DEF PatchGpt
<1> HIDE DEF p1, p2
<1>4. a1 \in Seq(Plain) /\ a2 \in Seq(Plain)
  BY <1>1, <1>2, ArraySeq, ArrayPlain
<1>4a. Plain = Entry \cup Unused
  BY DEF Plain
<1> HIDE DEF a1, a2
<1>5. i.prim \in Header /\ i.sec \in Header
  BY DEF Parsed
<1>6. BackUpGptLba \in Nat /\ LastUsableLba \in Nat /\ GPT_HEADER_SIZE \in Nat
      /\ BackupLba \in Nat /\ NumSectors - PtnEntryBlks = BackupLba
      /\ BackUpGptLba = NumSectors - 1
  BY Layout DEF GPT_HEADER_SIZE
<1>7. /\ hp \in Header
      /\ hp.size = i.prim.size /\ hp.my = i.prim.my /\ hp.first = i.prim.first
      /\ hp.entries = i.prim.entries /\ hp.cnt = i.prim.cnt
      /\ hp.alt = BackUpGptLba /\ hp.last = LastUsableLba
      /\ hp.crc = GPT_HEADER_SIZE /\ hp.acrc = a1
  BY <1>4, <1>4a, <1>5, <1>6 DEF Header
<1>8. /\ hs \in Header /\ hs.my = 1 /\ hs.entries = BackupLba /\ hs.cnt = i.sec.cnt
      /\ hs.last = LastUsableLba
  BY <1>4, <1>4a, <1>5, <1>6 DEF Header
<1> HIDE DEF hp, hs
<1>9. /\ PatchGpt(i).parts = p1 /\ PatchGpt(i).parts2 = p2
      /\ PatchGpt(i).prim = hp /\ PatchGpt(i).sec = hs
  BY <1>1, <1>3 DEF Image
<1>10. /\ Wanted(i) = p1 /\ a1 = SubSeq(Wanted(i), 1, i.sec.cnt)
       /\ i.parts2 = i.parts => p2 = p1
  BY DEF Wanted, p1, p2, a1
<1> QED
  BY <1>2, <1>6, <1>7, <1>8, <1>9, <1>10

-----------------------------------------------------------------------------
(* What the partition driver finds.                                        *)

(* A copy at lba whose checksums are right.                                *)
LEMMA ValidFacts ==
  ASSUME NEW d, Sane(d), NEW lba \in LBAs
  PROVE  ValidGptTable(d, lba) <=>
           /\ d[lba] \in Header /\ d[lba].crc = d[lba].size /\ d[lba].size <= BlkSz
           /\ d[lba].my = lba /\ d[lba].entries + d[lba].cnt <= NumSectors
           /\ Len(d[lba].acrc) = d[lba].cnt
           /\ \A k \in 1 .. d[lba].cnt : d[(d[lba].entries + k) - 1] = d[lba].acrc[k]
<1> DEFINE h == d[lba]
<1>1. h \in Block /\ (h.kind = "header" <=> h \in Header)
  BY Kinds DEF Sane
<1> HIDE DEF h
<1>2. ASSUME h \in Header
      PROVE  Blocks(d, h.entries, h.cnt) = h.acrc <=>
               /\ Len(h.acrc) = h.cnt
               /\ \A k \in 1 .. h.cnt : d[(h.entries + k) - 1] = h.acrc[k]
  <2>1. h.entries \in Nat /\ h.cnt \in Nat /\ h.acrc \in Seq(Entry \cup Unused)
    BY <1>2 DEF Header
  <2> DEFINE a == h.acrc
             c == h.cnt
             x == h.entries
             B == [k \in 1 .. c |-> d[x + k - 1]]
  <2>2. Blocks(d, h.entries, h.cnt) = B
    BY DEF Blocks
  <2> HIDE DEF a, c, x
  <2>3. x \in Nat /\ c \in Nat /\ a \in Seq(Entry \cup Unused)
    BY <2>1 DEF x, c, a
  <2>4. \A k \in 1 .. c : B[k] = d[(x + k) - 1]
    <3> TAKE k \in 1 .. c
    <3>1. x + k - 1 = (x + k) - 1
      BY <2>3
    <3> QED
      BY <3>1
  <2>5. a = [k \in 1 .. Len(a) |-> a[k]] /\ Len(a) \in Nat
    BY <2>3
  <2>6. B = a => Len(a) = c /\ \A k \in 1 .. c : d[(x + k) - 1] = a[k]
    <3> SUFFICES ASSUME B = a PROVE Len(a) = c /\ \A k \in 1 .. c : d[(x + k) - 1] = a[k]
      OBVIOUS
    <3>1. DOMAIN a = 1 .. c /\ DOMAIN a = 1 .. Len(a)
      BY <2>5
    <3>2. Len(a) = c
      BY <2>3, <2>5, <3>1
    <3> QED
      BY <2>4, <3>2
  <2>7. (Len(a) = c /\ \A k \in 1 .. c : d[(x + k) - 1] = a[k]) => B = a
    BY <2>4, <2>5
  <2> QED
    BY <2>2, <2>6, <2>7 DEF a, c, x
<1> QED
  BY <1>1, <1>2 DEF ValidGptTable, ValidHeader, InDevice, h

LEMMA HeaderFields ==
  ASSUME NEW h \in Header
  PROVE  /\ h.kind = "header" /\ h.size \in Nat /\ h.crc \in Nat /\ h.my \in Nat
         /\ h.alt \in Nat /\ h.first \in Nat /\ h.last \in Nat /\ h.entries \in Nat
         /\ h.cnt \in Nat /\ h.acrc \in Seq(Plain)
         /\ h.acrc = [k \in 1 .. Len(h.acrc) |-> h.acrc[k]]
         /\ Len(h.acrc) \in Nat /\ \A k \in 1 .. Len(h.acrc) : h.acrc[k] \in Plain
<1>1. /\ h.kind = "header" /\ h.size \in Nat /\ h.crc \in Nat /\ h.my \in Nat
      /\ h.alt \in Nat /\ h.first \in Nat /\ h.last \in Nat /\ h.entries \in Nat
      /\ h.cnt \in Nat /\ h.acrc \in Seq(Plain)
  BY DEF Header, Plain
<1> QED
  BY <1>1

(* The array of a valid copy is that of its header.                        *)
LEMMA ValidPlain ==
  ASSUME NEW d, Sane(d), NEW lba \in LBAs, ValidGptTable(d, lba)
  PROVE  /\ d[lba] \in Header /\ d[lba].my = lba /\ d[lba].cnt \in Nat
         /\ d[lba].cnt <= MaxParts /\ d[lba].last = LastUsableLba
         /\ d[lba].entries \in Nat /\ d[lba].entries + d[lba].cnt <= NumSectors
         /\ Len(d[lba].acrc) = d[lba].cnt
         /\ \A k \in 1 .. d[lba].cnt :
              /\ d[lba].acrc[k] \in Plain
              /\ d[(d[lba].entries + k) - 1] = d[lba].acrc[k]
         /\ lba = 1 => d[lba].alt = NumSectors - 1
         /\ lba = NumSectors - 1 => d[lba].alt = 1 /\ d[lba].entries = BackupLba
<1>1. /\ d[lba] \in Header /\ d[lba].my = lba
      /\ d[lba].entries + d[lba].cnt <= NumSectors
      /\ Len(d[lba].acrc) = d[lba].cnt
      /\ \A k \in 1 .. d[lba].cnt : d[(d[lba].entries + k) - 1] = d[lba].acrc[k]
  BY ValidFacts
<1>2. d[lba].kind = "header" /\ d[lba].cnt \in Nat /\ d[lba].entries \in Nat
      /\ \A k \in 1 .. Len(d[lba].acrc) : d[lba].acrc[k] \in Plain
  BY <1>1, HeaderFields
<1>3. HeaderOK(d[lba], lba)
  BY <1>2 DEF Sane, BlockOK
<1> QED
  BY <1>1, <1>2, <1>3 DEF HeaderOK

LEMMA WreckedInvalid ==
  ASSUME NEW d, Sane(d), Wrecked(d)
  PROVE  ~Valid1(d) /\ ~Valid2(d)
<1>0. d[NumSectors - 1] \in Header
  BY Places, Kinds DEF Sane, Wrecked
<1>1. ASSUME Valid1(d) PROVE FALSE
  <2> DEFINE h == d[1]
             k == (NumSectors - h.entries)
  <2>0. /\ h \in Header /\ h.cnt \in Nat /\ h.entries \in Nat
        /\ \A m \in 1 .. h.cnt : h.acrc[m] \in Plain /\ d[(h.entries + m) - 1] = h.acrc[m]
    <3>1. 1 \in LBAs /\ ValidGptTable(d, 1)
      BY <1>1, Places DEF Valid1
    <3> QED
      BY <3>1, ValidPlain
  <2>1. \A m \in 1 .. h.cnt : d[(h.entries + m) - 1] \in Plain
    BY <2>0
  <2>2. h.entries <= NumSectors - 1 /\ NumSectors - 1 < h.entries + h.cnt
    BY <2>0, HeaderFields DEF Wrecked
  <2> HIDE DEF h
  <2>3. k \in 1 .. h.cnt /\ (h.entries + k) - 1 = NumSectors - 1
    BY <2>0, <2>2, Layout
  <2> HIDE DEF k
  <2>4. d[NumSectors - 1] \in Plain
    BY <2>1, <2>3
  <2> QED
    BY <1>0, <2>4, Kinds
<1>2. ASSUME Valid2(d) PROVE FALSE
  <2> DEFINE h == d[NumSectors - 1]
  <2>0. /\ h.entries = BackupLba /\ h.cnt \in Nat
        /\ \A m \in 1 .. h.cnt : h.acrc[m] \in Plain /\ d[(h.entries + m) - 1] = h.acrc[m]
    <3>1. NumSectors - 1 \in LBAs /\ ValidGptTable(d, NumSectors - 1)
      BY <1>2, Places DEF Valid2
    <3> QED
      BY <3>1, ValidPlain
  <2>1. \A m \in 1 .. h.cnt : d[(h.entries + m) - 1] \in Plain
    BY <2>0
  <2>2. PICK b \in Inner : d[b] \notin Plain /\ BackupLba <= b /\ b < BackupLba + h.cnt
    BY DEF Wrecked
  <2> HIDE DEF h
  <2> DEFINE k == (b - BackupLba) + 1
  <2>3. b \in Int /\ BackupLba \in Nat
    BY Layout DEF Inner
  <2>4. k \in 1 .. h.cnt /\ (BackupLba + k) - 1 = b
    BY <2>0, <2>2, <2>3
  <2> HIDE DEF k
  <2> QED
    BY <2>0, <2>1, <2>2, <2>4
<1> QED
  BY <1>1, <1>2

(* The header and the entries that the driver makes handles from.          *)
LEMMA PrimaryHeaderFacts ==
  ASSUME NEW d, Sane(d), ValidHeader(d, 1), NEW h, h = PrimaryHeader(d)
  PROVE  /\ d[1] \in Header /\ h \in Header /\ Len(h.acrc) = h.cnt /\ h.cnt = d[1].cnt
         /\ h.cnt \in Nat /\ h.cnt <= MaxParts /\ h.first = d[1].first /\ h.last = d[1].last
         /\ \A k \in 1 .. h.cnt :
              LET b == d[(d[1].entries + k) - 1]
              IN  h.acrc[k] = IF b.kind = "entry" THEN b ELSE Zero
<1> DEFINE g == d[1]
           c == g.cnt
           x == g.entries
           B(k) == LET b == d[(x + k) - 1] IN IF b.kind = "entry" THEN b ELSE Zero
           a == [k \in 1 .. c |-> B(k)]
<1>1. g \in Header /\ x + c <= NumSectors
  BY Places, Kinds DEF ValidHeader, InDevice, Sane
<1>2. c \in Nat /\ x \in Nat /\ g.kind = "header"
  BY <1>1, HeaderFields
<1>3. HeaderOK(g, 1)
  BY <1>2, Places DEF Sane, BlockOK
<1>4. c <= MaxParts
  BY <1>3 DEF HeaderOK
<1>5. h = [g EXCEPT !.acrc = a]
  <2>1. \A k \in 1 .. c : g.entries + k - 1 = (x + k) - 1
    BY <1>2
  <2> QED
    BY <2>1 DEF PrimaryHeader
<1>6. ASSUME NEW k \in 1 .. c PROVE B(k) \in Entry \cup Unused
  <2>1. (x + k) - 1 \in LBAs
    BY <1>1, <1>2, Layout
  <2>2. d[(x + k) - 1] \in Block
    BY <2>1 DEF Sane
  <2> QED
    BY <2>2, Kinds DEF Plain
<1> HIDE DEF B
<1>7. a \in Seq(Entry \cup Unused) /\ Len(a) = c /\ \A k \in 1 .. c : a[k] = B(k)
  BY <1>2, <1>6
<1> HIDE DEF a, g
<1>8. /\ h \in Header /\ h.acrc = a /\ h.cnt = c /\ h.first = g.first /\ h.last = g.last
  BY <1>1, <1>5, <1>7 DEF Header
<1> QED
  BY <1>1, <1>2, <1>4, <1>7, <1>8 DEF g, B

LEMMA EnumeratedType ==
  ASSUME NEW d, Sane(d)
  PROVE  /\ Enumerated(d) \in Seq(Entry) /\ Len(Enumerated(d)) <= MaxParts
         /\ Enumerated(d) # <<>> => Valid1(d) \/ Valid2(d)
<1> DEFINE found == /\ d[0] = Mbr /\ ValidHeader(d, 1)
                    /\ ValidGptTable(d, 1) \/ ValidGptTable(d, NumSectors - 1)
<1>1. CASE ~found
  <2>1. Enumerated(d) = <<>>
    BY <1>1 DEF Enumerated
  <2> QED
    BY <2>1, Layout
<1>2. CASE found
  <2> DEFINE h == PrimaryHeader(d)
  <2>1. Enumerated(d) = Handles(h)
    BY <1>2 DEF Enumerated
  <2>2. h \in Header /\ Len(h.acrc) = h.cnt /\ h.cnt \in Nat /\ h.cnt <= MaxParts
    BY <1>2, PrimaryHeaderFacts
  <2> HIDE DEF h
  <2>3. HandlesOf(Handles(h), h, h.cnt)
    BY <2>2, HandlesFacts
  <2>4. Handles(h) \in Seq(Entry) /\ Len(Handles(h)) <= h.cnt
    BY <2>3 DEF HandlesOf
  <2>5. Len(Handles(h)) <= MaxParts
    BY <2>2, <2>4, Layout
  <2> QED
    BY <1>2, <2>1, <2>4, <2>5 DEF Valid1, Valid2
<1> QED
  BY <1>1, <1>2

LEMMA WreckedNoRestore ==
  ASSUME NEW d, Sane(d), Wrecked(d)
  PROVE  RestoreFrom(d) = 0 /\ Repaired(d) = d
  BY WreckedInvalid DEF RestoreFrom, Repaired, Valid1, Valid2

(* When there is something to restore from.                                *)
LEMMA RestoreFromFacts ==
  ASSUME NEW d, Sane(d)
  PROVE  /\ RestoreFrom(d) \in {0, 1, NumSectors - 1}
         /\ RestoreFrom(d) = 1 => d[0] = Mbr /\ Valid1(d) /\ ~Valid2(d)
         /\ RestoreFrom(d) = NumSectors - 1 => d[0] = Mbr /\ ~Valid1(d) /\ Valid2(d)
         /\ RestoreFrom(d) = 0 /\ d[0] = Mbr =>
              (Valid1(d) /\ Valid2(d)) \/ (~Valid1(d) /\ ~Valid2(d))
<1>0. NumSectors - 1 # 1 /\ NumSectors - 1 # 0 /\ NumSectors - 1 \in Nat
  BY Layout
<1>1. CASE d[0] # Mbr
  <2>1. RestoreFrom(d) = 0
    BY <1>1 DEF RestoreFrom
  <2> QED
    BY <1>0, <1>1, <2>1
<1>2. CASE d[0] = Mbr /\ ValidGptTable(d, 1)
  <2>1. d[1].alt = NumSectors - 1
    BY <1>2, Places, ValidPlain
  <2>2. RestoreFrom(d) = IF ValidGptTable(d, d[1].alt) THEN 0 ELSE 1
    BY <1>2 DEF RestoreFrom
  <2> QED
    <3> DEFINE v == ValidGptTable(d, NumSectors - 1)
    <3>1. RestoreFrom(d) = IF v THEN 0 ELSE 1
      BY <2>1, <2>2
    <3>2. (v <=> Valid2(d)) /\ Valid1(d)
      BY <1>2 DEF Valid1, Valid2
    <3> HIDE DEF v
    <3>3. CASE v
      BY <1>0, <1>2, <3>1, <3>2, <3>3
    <3>4. CASE ~v
      BY <1>0, <1>2, <3>1, <3>2, <3>4
    <3> QED
      BY <3>3, <3>4
<1>3. CASE d[0] = Mbr /\ ~ValidGptTable(d, 1)
  <2>1. RestoreFrom(d) = IF ValidGptTable(d, NumSectors - 1) THEN NumSectors - 1 ELSE 0
    BY <1>3 DEF RestoreFrom
  <2> QED
    <3> DEFINE v == ValidGptTable(d, NumSectors - 1)
    <3>1. RestoreFrom(d) = IF v THEN NumSectors - 1 ELSE 0
      BY <2>1
    <3>2. (v <=> Valid2(d)) /\ ~Valid1(d)
      BY <1>3 DEF Valid1, Valid2
    <3> HIDE DEF v
    <3>3. CASE v
      BY <1>0, <1>3, <3>1, <3>2, <3>3
    <3>4. CASE ~v
      BY <1>0, <1>3, <3>1, <3>2, <3>4
    <3> QED
      BY <3>3, <3>4
<1> QED
  BY <1>1, <1>2, <1>3

(* The driver's two writes: the header of the other copy, then the first n *)
(* blocks of its array.                                                    *)
Other(lba) == IF lba = 1 THEN NumSectors - 1 ELSE 1

Place(lba) == IF lba = 1 THEN 2 ELSE BackupLba

HeadCopied(d, r, from) ==
  LET h == d[from]
      g == r[Other(from)]
  IN  /\ g \in Header /\ g.size = h.size /\ g.crc = h.size /\ g.my = Other(from)
      /\ g.alt = from /\ g.entries = Place(Other(from)) /\ g.cnt = h.cnt
      /\ g.first = h.first /\ g.last = h.last /\ g.acrc = h.acrc
      /\ \A b \in LBAs \ {Other(from)} : r[b] = d[b]

BodyCopied(d, r, e, from, n) ==
  LET h == d[from]
      x == Place(Other(from))
  IN  /\ \A b \in LBAs : ~(x <= b /\ b < x + n) => e[b] = r[b]
      /\ \A k \in 1 .. n : e[(x + k) - 1] = r[(h.entries + k) - 1]

LEMMA OtherFacts ==
  ASSUME NEW lba \in {1, NumSectors - 1}
  PROVE  /\ lba \in LBAs /\ Other(lba) \in LBAs /\ Other(lba) # lba /\ Other(lba) # 0
         /\ Other(lba) \in {1, NumSectors - 1} /\ Other(lba) \notin Inner
         /\ Place(lba) \in Nat /\ Place(Other(lba)) \in Nat
         /\ \A k \in 1 .. MaxParts :
              /\ (Place(lba) + k) - 1 \in Inner /\ (Place(Other(lba)) + k) - 1 \in Inner
              /\ (Place(lba) + k) - 1 \in LBAs /\ (Place(Other(lba)) + k) - 1 \in LBAs
              /\ (Place(lba) + k) - 1 \in Nat
  BY Layout DEF Other, Place, Inner

LEMMA RestoreHeaderFacts ==
  ASSUME NEW d, Sane(d), NEW lba \in {1, NumSectors - 1}, ValidGptTable(d, lba)
  PROVE  /\ RestoreLba(d[lba]) = Place(Other(lba))
         /\ HeadCopied(d, RestoreHeader(d, lba), lba)
         /\ Sane(RestoreHeader(d, lba))
         /\ InnerPlain(d) => InnerPlain(RestoreHeader(d, lba))
<1> DEFINE h == d[lba]
           g == [h EXCEPT !.my = h.alt, !.alt = h.my,
                          !.entries = RestoreLba(h), !.crc = h.size]
           r == RestoreHeader(d, lba)
           to == Other(lba)
           x == Place(Other(lba))
<1>0. lba \in LBAs /\ to \in LBAs /\ to # lba /\ x \in Nat /\ to \in Nat /\ lba \in Nat /\ to # 0
  BY OtherFacts, Layout
<1>1. h \in Header /\ h.my = lba /\ h.alt = to /\ h.last = LastUsableLba /\ h.cnt <= MaxParts
  BY <1>0, ValidPlain, Layout DEF Other
<1>2. RestoreLba(h) = x
  <2>1. NumSectors - 1 # 1 /\ BackupLba = LastUsableLba + 1
    BY Layout
  <2> QED
    BY <1>1, <2>1 DEF RestoreLba, Other, Place
<1>3. r = Put(d, to, <<g>>)
  BY <1>1 DEF RestoreHeader
<1> HIDE DEF h
<1>4. /\ g \in Header /\ g.size = h.size /\ g.crc = h.size /\ g.my = to
      /\ g.alt = lba /\ g.entries = x /\ g.cnt = h.cnt /\ g.kind = "header"
      /\ g.first = h.first /\ g.last = h.last /\ g.acrc = h.acrc
  BY <1>0, <1>1, <1>2 DEF Header
<1> HIDE DEF g, r, x
<1>5. Len(<<g>>) = 1 /\ <<g>>[1] = g
  OBVIOUS
<1>6. Written(d, r, to, <<g>>, 1)
  BY <1>0, <1>3, <1>5, PutWritten
<1>7. HeaderOK(g, to)
  <2>1. g.last = LastUsableLba /\ g.cnt <= MaxParts /\ g.my = to
    BY <1>1, <1>4
  <2>2. to = 1 => lba = NumSectors - 1
    BY <1>0
  <2>3. to = NumSectors - 1 => lba = 1 /\ x = BackupLba
    <3>1. NumSectors - 1 # 1
      BY Layout
    <3> QED
      BY <1>0, <3>1 DEF x, Place
  <2> QED
    BY <1>4, <2>1, <2>2, <2>3 DEF HeaderOK
<1>8. Fit(to, <<g>>, 1)
  <2> SUFFICES ASSUME NEW k \in 1 .. 1
               PROVE  /\ BlockOK(<<g>>[k], (to + k) - 1)
                      /\ (to + k) - 1 \notin Inner
    BY DEF Fit
  <2>1. k = 1 /\ (to + k) - 1 = to
    BY <1>0
  <2>2. BlockOK(g, to)
    BY <1>4, <1>7, Kinds DEF BlockOK
  <2> QED
    BY <1>5, <2>1, <2>2, OtherFacts
<1>9. Sane(r) /\ (InnerPlain(d) => InnerPlain(r))
  BY <1>0, <1>6, <1>8, Overwrite
<1>10. r[to] = g /\ \A b \in LBAs \ {to} : r[b] = d[b]
  <2>0. Wrote(d, r, to, <<g>>, 1)
    BY <1>0, <1>6, WrittenAt
  <2>1. \A b \in LBAs : ~(to <= b /\ b < to + 1) => r[b] = d[b]
    BY <2>0 DEF Wrote
  <2>2. \A k \in 1 .. 1 : (to + k) - 1 \in LBAs => r[(to + k) - 1] = <<g>>[k]
    BY <2>0 DEF Wrote
  <2>3. (to + 1) - 1 = to /\ 1 \in 1 .. 1 /\ \A b \in LBAs : b # to => ~(to <= b /\ b < to + 1)
    BY <1>0, Layout
  <2>4. r[to] = <<g>>[1]
    BY <1>0, <2>2, <2>3
  <2> QED
    BY <1>5, <2>1, <2>3, <2>4
<1> QED
  BY <1>2, <1>4, <1>9, <1>10 DEF HeadCopied, r, h, x

(* The blocks that the driver copies.                                      *)
LEMMA RestoreBlocks ==
  ASSUME NEW d, Sane(d), NEW lba \in {1, NumSectors - 1}, ValidGptTable(d, lba),
         NEW r, r = RestoreHeader(d, lba), NEW s, s = Blocks(r, d[lba].entries, d[lba].cnt)
  PROVE  /\ s \in Seq(Block) /\ Len(s) = d[lba].cnt
         /\ \A k \in 1 .. d[lba].cnt : /\ s[k] = r[(d[lba].entries + k) - 1]
                                        /\ (d[lba].entries + k) - 1 \in LBAs
<1> DEFINE c == d[lba].cnt
           y == d[lba].entries
<1>1. c \in Nat /\ y \in Nat /\ y + c <= NumSectors
  BY OtherFacts, ValidPlain
<1>2. Sane(r)
  BY RestoreHeaderFacts
<1>3. s = [k \in 1 .. c |-> r[y + k - 1]]
  BY DEF Blocks
<1> HIDE DEF c, y
<1>4. \A k \in 1 .. c : y + k - 1 = (y + k) - 1 /\ (y + k) - 1 \in LBAs
  BY <1>1, Layout
<1>5. \A k \in 1 .. c : r[(y + k) - 1] \in Block
  BY <1>2, <1>4 DEF Sane
<1>6. s \in Seq(Block) /\ Len(s) = c /\ \A k \in 1 .. c : s[k] = r[(y + k) - 1]
  BY <1>1, <1>3, <1>4, <1>5
<1> QED
  BY <1>4, <1>6 DEF c, y

LEMMA CopiedSane ==
  ASSUME NEW d, Sane(d), NEW lba \in {1, NumSectors - 1}, ValidGptTable(d, lba),
         NEW r, r = RestoreHeader(d, lba), NEW s, s = Blocks(r, d[lba].entries, d[lba].cnt),
         NEW n \in Nat, n <= d[lba].cnt,
         NEW e, Written(r, e, Place(Other(lba)), s, n)
  PROVE  BodyCopied(d, r, e, lba, n) /\ Sane(e)
<1> DEFINE h == d[lba]
           x == Place(Other(lba))
           c == h.cnt
           y == h.entries
<1>1. Sane(r)
  BY RestoreHeaderFacts
<1>2. c \in Nat /\ c <= MaxParts
  BY OtherFacts, ValidPlain
<1>3. x \in Nat /\ \A k \in 1 .. n : (x + k) - 1 \in Inner /\ (x + k) - 1 \in LBAs
  <2>1. \A k \in 1 .. n : k \in 1 .. MaxParts
    BY <1>2, Layout
  <2>2. x \in Nat /\ \A k \in 1 .. MaxParts : (x + k) - 1 \in Inner /\ (x + k) - 1 \in LBAs
    BY OtherFacts
  <2> QED
    BY <2>1, <2>2
<1>4. \A k \in 1 .. c : s[k] = r[(y + k) - 1] /\ (y + k) - 1 \in LBAs
  BY RestoreBlocks
<1>5. Written(r, e, x, s, n)
  OBVIOUS
<1> HIDE DEF h, x, c, y
<1>6. \A k \in 1 .. n : s[k] = r[(y + k) - 1] /\ (y + k) - 1 \in LBAs
  BY <1>2, <1>4 DEF c, h
<1>7. Wrote(r, e, x, s, n)
  BY <1>3, <1>5, WrittenAt
<1>8. \A b \in LBAs : ~(x <= b /\ b < x + n) => e[b] = r[b]
  BY <1>7 DEF Wrote
<1>9. \A k \in 1 .. n : e[(x + k) - 1] = s[k]
  BY <1>3, <1>7 DEF Wrote
<1>10. BodyCopied(d, r, e, lba, n)
  BY <1>6, <1>8, <1>9 DEF BodyCopied, x, y, h
<1>11. ASSUME NEW b \in LBAs PROVE BlockOK(e[b], b)
  <2>1. CASE ~(x <= b /\ b < x + n)
    BY <1>1, <1>8, <2>1 DEF Sane
  <2>2. CASE x <= b /\ b < x + n
    <3> DEFINE k == (b - x) + 1
    <3>1. k \in 1 .. n /\ (x + k) - 1 = b
      BY <1>3, <2>2, Layout
    <3> HIDE DEF k
    <3>2. b \in Inner /\ e[b] = r[(y + k) - 1] /\ (y + k) - 1 \in LBAs
      BY <1>3, <1>6, <1>9, <3>1
    <3> DEFINE z == r[(y + k) - 1]
    <3>3. BlockOK(z, (y + k) - 1)
      BY <1>1, <3>2 DEF Sane
    <3> HIDE DEF z
    <3>4. b # 1 /\ b # NumSectors - 1
      BY <3>2 DEF Inner
    <3>5. BlockOK(z, b)
      BY <3>3, <3>4 DEF BlockOK, HeaderOK
    <3> QED
      BY <3>2, <3>5 DEF z
  <2> QED
    BY <2>1, <2>2
<1>12. e \in [LBAs -> Block]
  <2>1. e = [b \in LBAs |-> e[b]]
    BY <1>5 DEF Written
  <2> QED
    BY <1>11, <2>1 DEF BlockOK
<1> QED
  BY <1>10, <1>11, <1>12 DEF Sane

LEMMA RestoreFacts ==
  ASSUME NEW d, Sane(d), NEW lba \in {1, NumSectors - 1}, ValidGptTable(d, lba)
  PROVE  /\ BodyCopied(d, RestoreHeader(d, lba), Restore(d, lba), lba, d[lba].cnt)
         /\ Sane(Restore(d, lba)) /\ d[lba].cnt \in Nat
<1> DEFINE h == d[lba]
           r == RestoreHeader(d, lba)
           x == Place(Other(lba))
           s == Blocks(r, h.entries, h.cnt)
<1>1. RestoreLba(h) = x
  BY RestoreHeaderFacts
<1>2. h.cnt \in Nat /\ h.cnt <= MaxParts /\ x \in Nat
  BY OtherFacts, ValidPlain
<1>3. InDevice(x, h.cnt)
  <2>1. x = 2 \/ x = BackupLba
    BY DEF Place
  <2> QED
    BY <1>2, <2>1, Layout DEF InDevice
<1>4. Restore(d, lba) = Put(r, x, s)
  BY <1>1, <1>3 DEF Restore
<1>5. Len(s) = h.cnt
  BY RestoreBlocks
<1> HIDE DEF s
<1>6. Written(r, Restore(d, lba), x, s, h.cnt)
  BY <1>2, <1>4, <1>5, PutWritten
<1> QED
  BY <1>2, <1>6, CopiedSane DEF s

(* A repair that is cut short has done nothing, or the header and some of  *)
(* the array.                                                              *)
LEMMA SomeFacts ==
  ASSUME NEW d, Sane(d), NEW lba \in {1, NumSectors - 1}, ValidGptTable(d, lba),
         NEW e \in RestoreSome(d, lba)
  PROVE  \/ e = d
         \/ /\ Sane(e)
            /\ \E n \in Nat : /\ n <= d[lba].cnt
                             /\ BodyCopied(d, RestoreHeader(d, lba), e, lba, n)
<1> DEFINE h == d[lba]
           r == RestoreHeader(d, lba)
           x == Place(Other(lba))
           s == Blocks(r, h.entries, h.cnt)
<1>1. RestoreLba(h) = x /\ x \in Nat
  BY RestoreHeaderFacts, OtherFacts
<1>2. s \in Seq(Block) /\ Len(s) = h.cnt
  BY RestoreBlocks
<1>3. e = d \/ e \in PutSome(r, x, s)
  BY <1>1 DEF RestoreSome
<1>4. CASE e \in PutSome(r, x, s)
  <2> HIDE DEF s, x
  <2>1. PICK n \in 0 .. Len(s) : Written(r, e, x, s, n)
    BY <1>1, <1>2, <1>4, PutSomeWritten
  <2>2. n \in Nat /\ n <= h.cnt
    BY <1>2, <2>1
  <2> QED
    BY <2>1, <2>2, CopiedSane DEF s, x
<1> QED
  BY <1>3, <1>4

(* What is copied is entries only, or entries and the header before them.  *)
LEMMA RestoreArrays ==
  ASSUME NEW d, Sane(d), InnerPlain(d), NEW lba \in {1, NumSectors - 1},
         ValidGptTable(d, lba), NEW e, NEW n \in Nat, n <= d[lba].cnt,
         BodyCopied(d, RestoreHeader(d, lba), e, lba, n)
  PROVE  InnerPlain(e) \/ Wrecked(e)
<1> DEFINE h == d[lba]
           r == RestoreHeader(d, lba)
           x == Place(Other(lba))
           to == Other(lba)
           c == h.cnt
           y == h.entries
<1>1. /\ h \in Header /\ c \in Nat /\ c <= MaxParts /\ y \in Nat /\ y + c <= NumSectors
      /\ \A k \in 1 .. c : h.acrc[k] \in Plain /\ d[(y + k) - 1] = h.acrc[k]
      /\ lba = NumSectors - 1 => y = BackupLba
  BY OtherFacts, ValidPlain
<1>2. \A k \in 1 .. c : d[(y + k) - 1] \in Plain
  BY <1>1
<1>3. HeadCopied(d, r, lba) /\ InnerPlain(r)
  BY RestoreHeaderFacts
<1>4. BodyCopied(d, r, e, lba, n) /\ n <= c
  OBVIOUS
<1> HIDE DEF h, r, to
<1>5. r[to] \in Header /\ r[to].cnt = c /\ \A b \in LBAs \ {to} : r[b] = d[b]
  BY <1>3 DEF HeadCopied, to, h
<1>6. /\ \A b \in LBAs : ~(x <= b /\ b < x + n) => e[b] = r[b]
      /\ \A k \in 1 .. n : e[(x + k) - 1] = r[(y + k) - 1]
  BY <1>4 DEF BodyCopied, h
<1>7. x \in Nat /\ \A k \in 1 .. n : (x + k) - 1 \in Inner
  <2>1. \A k \in 1 .. n : k \in 1 .. MaxParts
    BY <1>1, <1>4, Layout
  <2> QED
    BY <2>1, OtherFacts
<1>7a. \A k \in 1 .. n : k \in 1 .. c
  BY <1>1, <1>4
<1> HIDE DEF c, x, y
<1>8. to \in LBAs /\ to \notin Inner
  BY OtherFacts DEF to
<1>9. \A k \in 1 .. c : (y + k) - 1 \in LBAs
  BY <1>1, Layout
<1>10. ASSUME NEW k \in 1 .. n, (y + k) - 1 # to
       PROVE  e[(x + k) - 1] \in Plain
  BY <1>2, <1>5, <1>6, <1>7a, <1>9, <1>10
<1>11. ASSUME NEW b \in Inner, ~(x <= b /\ b < x + n)
       PROVE  e[b] \in Plain
  <2>1. r[b] \in Plain
    BY <1>3 DEF InnerPlain
  <2> QED
    BY <1>6, <1>11, <2>1, Places
<1>12. CASE \A k \in 1 .. n : (y + k) - 1 # to
  <2>1. ASSUME NEW b \in Inner, x <= b /\ b < x + n
        PROVE  e[b] \in Plain
    <3> DEFINE k == (b - x) + 1
    <3>0. b \in Int
      BY Layout DEF Inner
    <3>1. k \in 1 .. n /\ (x + k) - 1 = b
      BY <1>1, <1>7, <2>1, <3>0
    <3> HIDE DEF k
    <3> QED
      BY <1>10, <1>12, <3>1
  <2> QED
    BY <1>11, <2>1 DEF InnerPlain
<1>13. CASE ~(\A k \in 1 .. n : (y + k) - 1 # to)
  <2>1. PICK m \in 1 .. n : (y + m) - 1 = to
    BY <1>13
  <2>1a. m \in 1 .. c
    BY <1>7a
  <2>2. lba = 1
    <3> SUFFICES ASSUME lba = NumSectors - 1 PROVE FALSE
      OBVIOUS
    <3>1. to = 1 /\ y = BackupLba
      BY <1>1, Layout DEF to, Other
    <3> QED
      BY <1>1, <2>1, <2>1a, <3>1, Layout
  <2>3. to = NumSectors - 1 /\ x = BackupLba
    BY <2>2, Layout DEF to, x, Other, Place
  <2> DEFINE b == (x + m) - 1
  <2>4. b \in Inner /\ b \in LBAs /\ BackupLba <= b /\ b < BackupLba + c
    <3>1. b \in Inner
      BY <1>7
    <3>2. c \in Nat
      BY <1>1
    <3>3. BackupLba <= b /\ b < BackupLba + c
      BY <2>1a, <2>3, <3>2, Layout
    <3> QED
      BY <3>1, <3>3, Places
  <2>5. e[b] = r[to]
    BY <1>6, <2>1
  <2>6. r[to] \notin Plain
    BY <1>5, Kinds
  <2>7. e[NumSectors - 1] = r[to] /\ e[1] = d[1]
    <3>1. 1 \in LBAs /\ NumSectors - 1 \in LBAs /\ 1 # to
          /\ ~(x <= 1 /\ 1 < x + n) /\ ~(x <= NumSectors - 1 /\ NumSectors - 1 < x + n)
      <4>1. c \in Nat /\ c <= MaxParts /\ n <= c
        BY <1>1, <1>4
      <4> QED
        BY <4>1, <2>3, Layout
    <3> QED
      BY <1>5, <1>6, <2>3, <3>1
  <2>8. ASSUME NEW a \in Inner \ {b} PROVE e[a] \in Plain
    <3>1. CASE x <= a /\ a < x + n
      <4> DEFINE k == (a - x) + 1
      <4>0. a \in Int
        BY Layout DEF Inner
      <4>1. k \in 1 .. n /\ (x + k) - 1 = a /\ k # m
        BY <1>1, <1>7, <3>1, <4>0
      <4> HIDE DEF k
      <4>2. (y + k) - 1 # to
        BY <1>1, <1>7a, <2>1, <2>1a, <4>1
      <4> QED
        BY <1>10, <4>1, <4>2
    <3> QED
      BY <1>11, <3>1
  <2>9. d[1].entries = y /\ d[1].cnt = c
    BY <2>2 DEF y, c, h
  <2>10. y <= NumSectors - 1 /\ NumSectors - 1 < y + c
    BY <1>1, <2>1, <2>1a, <2>3, Layout
  <2> HIDE DEF b
  <2>11. Wrecked(e)
    <3>1. e[NumSectors - 1].kind = "header"
      BY <1>5, <2>7, HeaderFields
    <3>2. e[1].entries <= NumSectors - 1 /\ NumSectors - 1 < e[1].entries + e[1].cnt
      BY <2>7, <2>9, <2>10
    <3>3. e[b] \notin Plain /\ b < BackupLba + e[NumSectors - 1].cnt
      BY <1>5, <2>4, <2>5, <2>6, <2>7
    <3> QED
      BY <2>4, <2>8, <3>1, <3>2, <3>3 DEF Wrecked
  <2> QED
    BY <2>11
<1> QED
  BY <1>12, <1>13

LEMMA RepairedSane ==
  ASSUME NEW d, Sane(d), InnerPlain(d) \/ Wrecked(d),
         NEW e \in {Repaired(d)} \cup PartlyRepaired(d)
  PROVE  Sane(e) /\ (InnerPlain(e) \/ Wrecked(e))
<1>1. CASE RestoreFrom(d) = 0
  <2>1. e = d
    BY <1>1 DEF Repaired, PartlyRepaired
  <2> QED
    BY <2>1
<1>2. CASE RestoreFrom(d) # 0
  <2> DEFINE f == RestoreFrom(d)
  <2>1. f \in {1, NumSectors - 1} /\ ValidGptTable(d, f)
    BY <1>2, RestoreFromFacts DEF Valid1, Valid2
  <2>2. InnerPlain(d)
    BY <1>2, WreckedNoRestore
  <2>3. e = Restore(d, f) \/ e \in RestoreSome(d, f)
    BY <1>2 DEF Repaired, PartlyRepaired
  <2> HIDE DEF f
  <2>4. CASE e = Restore(d, f)
    <3>1. /\ BodyCopied(d, RestoreHeader(d, f), e, f, d[f].cnt) /\ Sane(e)
          /\ d[f].cnt \in Nat /\ d[f].cnt <= d[f].cnt
      BY <2>1, <2>4, RestoreFacts
    <3> QED
      BY <2>1, <2>2, <3>1, RestoreArrays
  <2>5. CASE e \in RestoreSome(d, f)
    <3>1. CASE e = d
      BY <2>2, <3>1
    <3>2. CASE /\ Sane(e)
               /\ \E n \in Nat : /\ n <= d[f].cnt
                                /\ BodyCopied(d, RestoreHeader(d, f), e, f, n)
      BY <2>1, <2>2, <3>2, RestoreArrays
    <3> QED
      BY <2>1, <2>5, <3>1, <3>2, SomeFacts
  <2> QED
    BY <2>3, <2>4, <2>5
<1> QED
  BY <1>1, <1>2

-----------------------------------------------------------------------------
(* An attribute update of the copy p: the header h becomes g, the array a. *)

Reheaded(h, g, a) ==
  /\ g \in Header /\ g.crc = GPT_HEADER_SIZE /\ g.size = h.size /\ g.my = h.my
  /\ g.alt = h.alt /\ g.first = h.first /\ g.last = h.last
  /\ g.entries = h.entries /\ g.cnt = h.cnt
  /\ Len(g.acrc) = g.cnt /\ \A k \in 1 .. g.cnt : g.acrc[k] = a[k]

Realigned(d, x, a) ==
  /\ a \in [1 .. MaxParts -> Plain]
  /\ \A k \in 1 .. MaxParts : Like(a[k], d[(x + k) - 1])

LEMMA LikeRefl == ASSUME NEW b PROVE Like(b, b)
  BY DEF Like

LEMMA CopyFacts ==
  ASSUME NEW p \in Updating
  PROVE  /\ Copy(p).header \in {1, NumSectors - 1}
         /\ Copy(p).entries = Place(Copy(p).header)
         /\ p = "update" <=> Copy(p).header = 1
<1>1. NumSectors - 1 # 1
  BY Layout
<1> QED
  BY <1>1 DEF Updating, Copy, Place

LEMMA NewArrayFacts ==
  ASSUME TypeOK, InnerPlain(disk), NEW p \in Updating
  PROVE  Realigned(disk, Copy(p).entries, NewArray(p))
<1> DEFINE x == Copy(p).entries
           o == OldArray(p)
<1>1. x \in Nat /\ \A k \in 1 .. MaxParts : (x + k) - 1 \in Inner
  BY CopyFacts, OtherFacts
<1>2. o = [k \in 1 .. MaxParts |-> disk[x + k - 1]]
  BY DEF OldArray, Blocks
<1> HIDE DEF x, o
<1>3. \A k \in 1 .. MaxParts : o[k] = disk[(x + k) - 1] /\ disk[(x + k) - 1] \in Plain
  <2> TAKE k \in 1 .. MaxParts
  <2>1. x + k - 1 = (x + k) - 1
    BY <1>1
  <2> QED
    BY <1>1, <1>2, <2>1 DEF InnerPlain
<1>4. o \in BlockArray
  <2>1. \A k \in 1 .. MaxParts : o[k] \in Block
    BY <1>3, Kinds
  <2> QED
    BY <1>2, <2>1 DEF BlockArray
<1>5. table \in Seq(Entry) /\ Len(table) <= MaxParts
  BY DEF TypeOK
<1> DEFINE a == WithAttr(o)
<1>6. a \in BlockArray /\ \A k \in 1 .. MaxParts : Alike(a[k], o[k])
  BY <1>4, <1>5, WithAttrAlike
<1>7. NewArray(p) = a
  BY DEF NewArray, o
<1> HIDE DEF a
<1>8. \A k \in 1 .. MaxParts : a[k] \in Plain /\ Like(a[k], o[k])
  BY <1>3, <1>6, LikeRefl DEF Alike
<1>9. a \in [1 .. MaxParts -> Plain]
  BY <1>6, <1>8 DEF BlockArray
<1>10. \A k \in 1 .. MaxParts : Like(a[k], disk[(x + k) - 1])
  BY <1>3, <1>8
<1> QED
  BY <1>7, <1>9, <1>10 DEF Realigned, x

LEMMA NewHeaderFacts ==
  ASSUME TypeOK, Sane(disk), InnerPlain(disk), NEW p \in Updating, HasEntries(p)
  PROVE  /\ disk[Copy(p).header] \in Header
         /\ Reheaded(disk[Copy(p).header], NewHeader(p), NewArray(p))
<1> DEFINE h == disk[Copy(p).header]
           a == NewArray(p)
           s == SubSeq(a, 1, h.cnt)
           g == [h EXCEPT !.acrc = s, !.crc = GPT_HEADER_SIZE]
<1>1. Copy(p).header \in LBAs
  BY CopyFacts, OtherFacts
<1>2. h \in Header
  BY <1>1, Kinds DEF Sane, HasEntries
<1>3. h.cnt \in 0 .. MaxParts
  <2>1. BlockOK(h, Copy(p).header) /\ h.kind = "header" /\ h.cnt \in Nat
    BY <1>1, <1>2, HeaderFields DEF Sane
  <2> QED
    BY <2>1, Layout DEF BlockOK, HeaderOK
<1>4. a \in [1 .. MaxParts -> Plain]
  BY NewArrayFacts DEF Realigned
<1>5. NewHeader(p) = g
  BY DEF NewHeader
<1> HIDE DEF h, a
<1>6. s \in Seq(Plain) /\ Len(s) = h.cnt /\ \A k \in 1 .. h.cnt : s[k] = a[k]
  BY <1>3, <1>4, ArraySeq
<1> HIDE DEF s
<1>7. Plain = Entry \cup Unused /\ GPT_HEADER_SIZE \in Nat
  BY DEF Plain, GPT_HEADER_SIZE
<1>8. /\ g \in Header /\ g.crc = GPT_HEADER_SIZE /\ g.size = h.size /\ g.my = h.my
      /\ g.alt = h.alt /\ g.first = h.first /\ g.last = h.last
      /\ g.entries = h.entries /\ g.cnt = h.cnt /\ g.acrc = s
  BY <1>2, <1>6, <1>7 DEF Header
<1> HIDE DEF g
<1>9. Reheaded(h, g, a)
  BY <1>6, <1>8 DEF Reheaded
<1> QED
  BY <1>2, <1>5, <1>9 DEF h, a

(* What is on the LUN when the write of a copy ends or is cut short.       *)
Touched(d, e, lba, g, a) ==
  /\ e = [b \in LBAs |-> e[b]]
  /\ \A b \in LBAs : \/ b = lba
                     \/ Place(lba) <= b /\ b < Place(lba) + MaxParts
                     \/ e[b] = d[b]
  /\ e[lba] = d[lba] \/ e[lba] = g
  /\ \A k \in 1 .. MaxParts : \/ e[(Place(lba) + k) - 1] = d[(Place(lba) + k) - 1]
                              \/ e[(Place(lba) + k) - 1] = a[k]

Replaced(e, lba, g, a) ==
  e[lba] = g /\ \A k \in 1 .. MaxParts : e[(Place(lba) + k) - 1] = a[k]

LEMMA NewCopyFacts ==
  ASSUME NewArray(pc) \in [1 .. MaxParts -> Plain], NewHeader(pc) \in Header, pc \in Updating
  PROVE  /\ NewCopy(pc).lba \in Nat /\ NewCopy(pc).data \in Seq(Block)
         /\ Len(NewCopy(pc).data) = MaxParts + 1
         /\ pc = "update" => /\ NewCopy(pc).lba = 1 /\ NewCopy(pc).data[1] = NewHeader(pc)
                             /\ \A k \in 1 .. MaxParts : NewCopy(pc).data[k + 1] = NewArray(pc)[k]
         /\ pc # "update" => /\ NewCopy(pc).lba = BackupLba
                             /\ NewCopy(pc).data[MaxParts + 1] = NewHeader(pc)
                             /\ \A k \in 1 .. MaxParts : NewCopy(pc).data[k] = NewArray(pc)[k]
<1> DEFINE a == NewArray(pc)
           g == NewHeader(pc)
<1>1. MaxParts \in Nat /\ BackupLba \in Nat
  BY Layout
<1>2. a \in Seq(Block) /\ Len(a) = MaxParts /\ g \in Block
  <2>1. a \in [1 .. MaxParts -> Block] /\ g \in Block
    BY Kinds
  <2> HIDE DEF a, g
  <2> QED
    BY <1>1, <2>1
<1>3. NewCopy(pc) = IF pc = "update" THEN [lba |-> 1, data |-> <<g>> \o a]
                    ELSE [lba |-> BackupLba, data |-> a \o <<g>>]
  BY DEF NewCopy
<1> HIDE DEF a, g
<1>4. <<g>> \in Seq(Block) /\ Len(<<g>>) = 1 /\ <<g>>[1] = g
  BY <1>2
<1>5. /\ <<g>> \o a \in Seq(Block) /\ Len(<<g>> \o a) = MaxParts + 1
      /\ (<<g>> \o a)[1] = g
      /\ \A k \in 1 .. MaxParts : (<<g>> \o a)[k + 1] = a[k]
  BY <1>1, <1>2, <1>4
<1>6. /\ a \o <<g>> \in Seq(Block) /\ Len(a \o <<g>>) = MaxParts + 1
      /\ (a \o <<g>>)[MaxParts + 1] = g
      /\ \A k \in 1 .. MaxParts : (a \o <<g>>)[k] = a[k]
  BY <1>1, <1>2, <1>4
<1> QED
  BY <1>1, <1>3, <1>5, <1>6 DEF a, g

LEMMA UpdateTouched ==
  ASSUME NewArray(pc) \in [1 .. MaxParts -> Plain], NewHeader(pc) \in Header, pc \in Updating,
         NEW n \in 0 .. MaxParts + 1, NEW e,
         Written(disk, e, NewCopy(pc).lba, NewCopy(pc).data, n)
  PROVE  /\ Touched(disk, e, Copy(pc).header, NewHeader(pc), NewArray(pc))
         /\ n = MaxParts + 1 => Replaced(e, Copy(pc).header, NewHeader(pc), NewArray(pc))
<1> DEFINE a == NewArray(pc)
           g == NewHeader(pc)
           s == NewCopy(pc).data
           l == NewCopy(pc).lba
           lba == Copy(pc).header
<1>1. /\ l \in Nat
      /\ pc = "update" => l = 1 /\ s[1] = g /\ \A k \in 1 .. MaxParts : s[k + 1] = a[k]
      /\ pc # "update" => /\ l = BackupLba /\ s[MaxParts + 1] = g
                          /\ \A k \in 1 .. MaxParts : s[k] = a[k]
  BY NewCopyFacts
<1>2. lba \in {1, NumSectors - 1} /\ (pc = "update" <=> lba = 1)
  BY CopyFacts
<1>3. e = [b \in LBAs |-> e[b]]
  BY DEF Written
<1>4. Wrote(disk, e, l, s, n)
  BY <1>1, Layout, WrittenAt
<1> HIDE DEF a, g, s, l, lba
<1>5. /\ \A b \in LBAs : ~(l <= b /\ b < l + n) => e[b] = disk[b]
      /\ \A k \in 1 .. n : (l + k) - 1 \in LBAs => e[(l + k) - 1] = s[k]
  BY <1>4 DEF Wrote
<1>6. CASE pc = "update"
  <2>1. lba = 1 /\ Place(lba) = 2 /\ l = 1 /\ s[1] = g /\ \A k \in 1 .. MaxParts : s[k + 1] = a[k]
    BY <1>1, <1>2, <1>6 DEF Place
  <2>2. \A b \in LBAs : b = lba \/ (Place(lba) <= b /\ b < Place(lba) + MaxParts) \/ e[b] = disk[b]
    BY <1>5, <2>1, Layout
  <2>3. /\ n = 0 => e[lba] = disk[lba]
        /\ n > 0 => e[lba] = g
    <3>1. CASE n = 0
      BY <1>5, <2>1, <3>1, Layout, SMTT(30)
    <3>2. CASE n > 0
      <4>1. 1 \in 1 .. n /\ (l + 1) - 1 = lba /\ lba \in LBAs
        BY <2>1, <3>2, Layout
      <4>2. e[lba] = s[1]
        BY <1>5, <4>1
      <4> QED
        BY <2>1, <3>2, <4>2
    <3> QED
      BY <3>1, <3>2
  <2>4. ASSUME NEW k \in 1 .. MaxParts
        PROVE  /\ k + 1 <= n => e[(Place(lba) + k) - 1] = a[k]
               /\ ~(k + 1 <= n) => e[(Place(lba) + k) - 1] = disk[(Place(lba) + k) - 1]
    <3> DEFINE b == (Place(lba) + k) - 1
    <3>1. b \in LBAs /\ b = k + 1 /\ (l + (k + 1)) - 1 = b
      BY <2>1, Layout, SMTT(30)
    <3>2. CASE k + 1 <= n
      <4>1. k + 1 \in 1 .. n
        BY <3>2, Layout
      <4>2. e[(l + (k + 1)) - 1] = s[k + 1]
        BY <1>5, <3>1, <4>1
      <4> QED
        BY <2>1, <3>1, <3>2, <4>2
    <3>3. CASE ~(k + 1 <= n)
      <4>1. ~(l <= b /\ b < l + n)
        BY <2>1, <3>1, <3>3, Layout, SMTT(30)
      <4> QED
        BY <1>5, <3>1, <3>3, <4>1
    <3> QED
      BY <3>2, <3>3
  <2>5. n = MaxParts + 1 => n > 0 /\ \A k \in 1 .. MaxParts : k + 1 <= n
    BY Layout
  <2>6. n = 0 \/ n > 0
    BY Layout
  <2>7. Touched(disk, e, lba, g, a)
    BY <1>3, <2>2, <2>3, <2>4, <2>6 DEF Touched
  <2>8. n = MaxParts + 1 => Replaced(e, lba, g, a)
    BY <2>3, <2>4, <2>5 DEF Replaced
  <2> QED
    BY <2>7, <2>8 DEF a, g, lba
<1>7. CASE pc # "update"
  <2>1. /\ lba = NumSectors - 1 /\ Place(lba) = BackupLba /\ l = BackupLba
        /\ s[MaxParts + 1] = g /\ \A k \in 1 .. MaxParts : s[k] = a[k]
    BY <1>1, <1>2, <1>7, Layout DEF Place
  <2>2. \A b \in LBAs : b = lba \/ (Place(lba) <= b /\ b < Place(lba) + MaxParts) \/ e[b] = disk[b]
    BY <1>5, <2>1, Layout
  <2>3. /\ n # MaxParts + 1 => e[lba] = disk[lba]
        /\ n = MaxParts + 1 => e[lba] = g
    <3>0. lba \in LBAs /\ MaxParts \in Nat
      BY <2>1, Layout
    <3>1. CASE n # MaxParts + 1
      <4>1. ~(l <= lba /\ lba < l + n)
        BY <2>1, <3>1, Layout, SMTT(30)
      <4> QED
        BY <1>5, <3>0, <3>1, <4>1
    <3>2. CASE n = MaxParts + 1
      <4>0. (l + (MaxParts + 1)) - 1 = lba
        BY <2>1, Layout
      <4>1. MaxParts + 1 \in 1 .. n /\ (l + (MaxParts + 1)) - 1 = lba /\ lba \in LBAs
        BY <3>0, <3>2, <4>0
      <4>2. e[lba] = s[MaxParts + 1]
        BY <1>5, <4>1
      <4> QED
        BY <2>1, <3>2, <4>2
    <3> QED
      BY <3>1, <3>2
  <2>4. ASSUME NEW k \in 1 .. MaxParts
        PROVE  /\ k <= n => e[(Place(lba) + k) - 1] = a[k]
               /\ ~(k <= n) => e[(Place(lba) + k) - 1] = disk[(Place(lba) + k) - 1]
    <3> DEFINE b == (Place(lba) + k) - 1
    <3>1. b \in LBAs /\ (l + k) - 1 = b
      BY <2>1, Places
    <3>2. CASE k <= n
      <4>1. k \in 1 .. n
        BY <3>2, Layout
      <4>2. e[(l + k) - 1] = s[k]
        BY <1>5, <3>1, <4>1
      <4> QED
        BY <2>1, <3>1, <3>2, <4>2
    <3>3. CASE ~(k <= n)
      <4>1. ~(l <= b /\ b < l + n)
        BY <2>1, <3>1, <3>3, Layout, SMTT(30)
      <4> QED
        BY <1>5, <3>1, <3>3, <4>1
    <3> QED
      BY <3>2, <3>3
  <2>5. n = MaxParts + 1 => \A k \in 1 .. MaxParts : k <= n
    BY Layout
  <2>6. Touched(disk, e, lba, g, a)
    BY <1>3, <2>2, <2>3, <2>4 DEF Touched
  <2>7. n = MaxParts + 1 => Replaced(e, lba, g, a)
    BY <2>3, <2>4, <2>5 DEF Replaced
  <2> QED
    BY <2>6, <2>7 DEF a, g, lba
<1> QED
  BY <1>6, <1>7

(* A copy may be updated, or half of it.                                   *)
LEMMA TouchedSane ==
  ASSUME NEW d, Sane(d), InnerPlain(d), NEW lba \in {1, NumSectors - 1}, d[lba] \in Header,
         NEW g, NEW a, Reheaded(d[lba], g, a), Realigned(d, Place(lba), a),
         NEW e, Touched(d, e, lba, g, a)
  PROVE  Sane(e) /\ InnerPlain(e)
<1> DEFINE x == Place(lba)
<1>0. /\ x \in Nat /\ lba \in LBAs /\ lba \notin Inner
      /\ \A k \in 1 .. MaxParts : (x + k) - 1 \in Inner
  BY OtherFacts DEF Inner
<1>1. ASSUME NEW b \in LBAs
      PROVE  BlockOK(e[b], b) /\ (b \in Inner => e[b] \in Plain)
  <2>1. CASE e[b] = d[b]
    BY <2>1 DEF Sane, InnerPlain
  <2>2. CASE b = lba /\ e[b] # d[b]
    <3>1. e[b] = g
      BY <2>2 DEF Touched
    <3>2. BlockOK(d[b], b) /\ d[b].kind = "header"
      BY <2>2, HeaderFields DEF Sane
    <3>3. BlockOK(g, b)
      BY <2>2, <3>2, Kinds DEF BlockOK, HeaderOK, Reheaded
    <3> QED
      BY <1>0, <2>2, <3>1, <3>3
  <2>3. CASE b # lba /\ e[b] # d[b]
    <3>1. x <= b /\ b < x + MaxParts
      BY <2>3 DEF Touched
    <3> DEFINE k == (b - x) + 1
    <3>2. k \in 1 .. MaxParts /\ (x + k) - 1 = b
      BY <1>0, <3>1, Layout
    <3> HIDE DEF k
    <3>3. e[b] = a[k]
      BY <2>3, <3>2 DEF Touched
    <3>4. a[k] \in Plain
      BY <3>2 DEF Realigned
    <3>5. a[k].kind # "header" /\ a[k] \in Block
      BY <3>4, Kinds
    <3> QED
      BY <3>3, <3>4, <3>5 DEF BlockOK
  <2> QED
    BY <2>1, <2>2, <2>3
<1>2. e \in [LBAs -> Block] 
  <2>1. \A b \in LBAs : e[b] \in Block
    BY <1>1 DEF BlockOK
  <2> QED
    BY <2>1 DEF Touched
<1> QED
  BY <1>1, <1>2, Places DEF Sane, InnerPlain

-----------------------------------------------------------------------------
(* The five writes of WriteGpt.                                            *)

LEMMA WriteCases ==
  /\ pc = "mbr" => Write(pc) = [lba |-> 0, data |-> <<Mbr>>, next |-> "prim"]
  /\ pc = "prim" => Write(pc) = [lba |-> 1, data |-> <<gpt.prim>>, next |-> "sec"]
  /\ pc = "sec" => Write(pc) = [lba |-> gpt.prim.alt, data |-> <<gpt.sec>>, next |-> "parts"]
  /\ pc = "parts" => Write(pc) = [lba |-> gpt.prim.entries, data |-> gpt.parts, next |-> "parts2"]
  /\ pc = "parts2" => Write(pc) = [lba |-> gpt.sec.entries, data |-> gpt.parts2, next |-> "flush"]
<1>1. CASE pc = "mbr"
  BY <1>1 DEF Write
<1>2. CASE pc = "prim"
  BY <1>2 DEF Write
<1>3. CASE pc = "sec"
  BY <1>3 DEF Write
<1>4. CASE pc = "parts"
  BY <1>4 DEF Write
<1>5. CASE pc = "parts2"
  BY <1>5 DEF Write
<1> QED
  BY <1>1, <1>2, <1>3, <1>4, <1>5

LEMMA OneFits ==
  ASSUME NEW b \in LBAs, NEW x, BlockOK(x, b), b \notin Inner \/ x \in Plain, NEW n \in 0 .. 1
  PROVE  /\ b \in Nat /\ <<x>> \in Seq(Block) /\ Len(<<x>>) = 1 /\ <<x>>[1] = x
         /\ Fit(b, <<x>>, n)
<1>0. b \in Nat /\ x \in Block
  BY Layout DEF BlockOK
<1>1. <<x>> \in Seq(Block) /\ Len(<<x>>) = 1 /\ <<x>>[1] = x
  BY <1>0
<1>2. ASSUME NEW k \in 1 .. n
      PROVE  k = 1 /\ (b + k) - 1 = b
  BY <1>0
<1>3. Fit(b, <<x>>, n)
  BY <1>1, <1>2 DEF Fit
<1> QED
  BY <1>0, <1>1, <1>3

LEMMA ArrayFits ==
  ASSUME NEW lba \in Nat, NEW a \in Array, NEW n \in 0 .. MaxParts
  PROVE  a \in Seq(Block) /\ Len(a) = MaxParts /\ Fit(lba, a, n)
<1>1. a \in [1 .. MaxParts -> Plain] /\ MaxParts \in Nat
  BY ArrayPlain, Layout
<1>2. a \in [1 .. MaxParts -> Block] /\ \A k \in 1 .. MaxParts : a[k] \in Plain /\ a[k].kind # "header"
  BY <1>1, Kinds
<1>3. a \in Seq(Block) /\ Len(a) = MaxParts
  BY <1>1, <1>2
<1>4. \A k \in 1 .. n : k \in 1 .. MaxParts
  BY <1>1
<1>5. \A k \in 1 .. MaxParts : a[k] \in Block
  BY <1>2
<1> QED
  BY <1>2, <1>3, <1>4, <1>5 DEF Fit, BlockOK

LEMMA WriteFacts ==
  ASSUME pc \in Writing, Parsed(img), gpt = PatchGpt(img)
  PROVE  /\ Write(pc).lba \in Nat /\ Write(pc).data \in Seq(Block)
         /\ \A n \in 0 .. Len(Write(pc).data) : Fit(Write(pc).lba, Write(pc).data, n)
<1>1. /\ gpt.prim \in Header /\ gpt.prim.alt = NumSectors - 1 /\ gpt.prim.entries \in Nat
      /\ gpt.prim.last = LastUsableLba /\ gpt.prim.cnt <= MaxParts
      /\ gpt.sec \in Header /\ gpt.sec.my = 1 /\ gpt.sec.entries = BackupLba
      /\ gpt.sec.cnt <= MaxParts /\ gpt.sec.last = LastUsableLba
      /\ gpt.parts \in Array /\ gpt.parts2 \in Array
  <2>1. PatchGpt(img).prim.entries \in Nat
    BY PatchFacts, HeaderFields
  <2> QED
    BY <2>1, PatchFacts DEF Parsed
<1>2. NumSectors - 1 # 1 /\ BackupLba \in Nat /\ 0 \notin Inner /\ 1 \notin Inner
      /\ NumSectors - 1 \notin Inner
  BY Layout DEF Inner
<1>3. CASE pc = "mbr"
  <2>1. BlockOK(Mbr, 0)
    BY Kinds DEF BlockOK
  <2>2. Write(pc).lba = 0 /\ Write(pc).data = <<Mbr>>
    BY <1>3, WriteCases
  <2>3. \A n \in 0 .. 1 : Fit(0, <<Mbr>>, n)
    BY <1>2, <2>1, OneFits, Places
  <2>4. Len(<<Mbr>>) = 1 /\ <<Mbr>> \in Seq(Block)
    BY Kinds
  <2> QED
    BY <2>2, <2>3, <2>4
<1>4. CASE pc = "prim"
  <2> DEFINE p == gpt.prim
  <2>0. p \in Header /\ p.alt = NumSectors - 1 /\ p.last = LastUsableLba /\ p.cnt <= MaxParts
    BY <1>1
  <2>2. Write(pc).lba = 1 /\ Write(pc).data = <<p>>
    BY <1>4, WriteCases
  <2> HIDE DEF p
  <2>1. BlockOK(p, 1)
    BY <2>0, <1>2, Kinds DEF BlockOK, HeaderOK
  <2>3. \A n \in 0 .. 1 : Fit(1, <<p>>, n)
    BY <1>2, <2>1, OneFits, Places
  <2>4. Len(<<p>>) = 1 /\ <<p>> \in Seq(Block)
    BY <2>1 DEF BlockOK
  <2> QED
    BY <2>2, <2>3, <2>4
<1>5. CASE pc = "sec"
  <2> DEFINE p == gpt.sec
             l == NumSectors - 1
  <2>0. p \in Header /\ p.my = 1 /\ p.last = LastUsableLba /\ p.cnt <= MaxParts
    BY <1>1
  <2>2. Write(pc).lba = l /\ Write(pc).data = <<p>>
    BY <1>1, <1>5, WriteCases
  <2> HIDE DEF p
  <2>1. BlockOK(p, l)
    BY <2>0, <1>2, Kinds DEF BlockOK, HeaderOK
  <2>5. l \in LBAs /\ l \notin Inner
    BY <1>2, Places
  <2>6. l \in Nat
    BY Layout
  <2> HIDE DEF l
  <2>3. \A n \in 0 .. 1 : Fit(l, <<p>>, n)
    BY <2>1, <2>5, OneFits
  <2>4. Len(<<p>>) = 1 /\ <<p>> \in Seq(Block)
    BY <2>1 DEF BlockOK
  <2> QED
    BY <2>2, <2>3, <2>4, <2>6
<1>6. CASE pc = "parts"
  <2>1. Write(pc).lba = gpt.prim.entries /\ Write(pc).data = gpt.parts
    BY <1>6, WriteCases
  <2>2. /\ gpt.parts \in Seq(Block) /\ Len(gpt.parts) = MaxParts
        /\ \A n \in 0 .. MaxParts : Fit(gpt.prim.entries, gpt.parts, n)
    BY <1>1, ArrayFits, Layout, SMTT(30)
  <2> QED
    BY <1>1, <2>1, <2>2
<1>7. CASE pc = "parts2"
  <2>1. Write(pc).lba = BackupLba /\ Write(pc).data = gpt.parts2
    BY <1>1, <1>7, WriteCases
  <2>2. /\ gpt.parts2 \in Seq(Block) /\ Len(gpt.parts2) = MaxParts
        /\ \A n \in 0 .. MaxParts : Fit(BackupLba, gpt.parts2, n)
    BY <1>1, <1>2, ArrayFits, Layout, SMTT(30)
  <2> QED
    BY <1>2, <2>1, <2>2
<1> QED
  BY <1>3, <1>4, <1>5, <1>6, <1>7 DEF Writing

-----------------------------------------------------------------------------
(* Types, and what is where on the LUN, step by step.                      *)

BaseInv == TypeOK /\ Sane(disk) /\ Arrays /\ Flows

LEMMA SaneType ==
  ASSUME NEW d, Sane(d)
  PROVE  d \in [LBAs -> Block] /\ (d[1].kind = "header" => d[1].alt \in LBAs)
<1>1. BlockOK(d[1], 1)
  BY Places DEF Sane
<1> QED
  BY <1>1, Places DEF Sane, BlockOK, HeaderOK

LEMMA BlankSane ==
  ASSUME NEW d, d = [b \in LBAs |-> Zero]
  PROVE  Sane(d) /\ InnerPlain(d)
<1>1. Zero.kind = "zero" /\ Zero \in Block /\ Zero \in Plain
  BY Kinds DEF Zero
<1> QED
  BY <1>1, Places DEF Sane, InnerPlain, BlockOK

LEMMA BaseInit == Init => BaseInv
<1> SUFFICES ASSUME Init PROVE BaseInv
  OBVIOUS
<1>1. Sane(disk) /\ InnerPlain(disk)
  BY BlankSane DEF Init
<1>2. table = <<>> /\ table \in Seq(Entry) /\ Len(table) <= MaxParts
  BY Layout DEF Init
<1>3. TypeOK
  BY <1>1, <1>2, SaneType DEF Init, TypeOK
<1>4. Flows
  BY DEF Init, Flows, Flashing, Writing, Updating
<1> QED
  BY <1>1, <1>3, <1>4 DEF BaseInv, Arrays

(* An image that goes through.                                             *)
LEMMA ParsedImage ==
  ASSUME NEW i \in Images, PrimaryParsed(i), ParseGptHeader(i.sec, TRUE)
  PROVE  Parsed(i)
<1>1. i \in Image
  BY GptAssumption
<1>2. /\ i.prim.kind = "header" /\ i.sec.kind = "header"
      /\ i.prim.cnt <= MaxParts /\ i.sec.cnt <= MaxParts
  BY DEF PrimaryParsed, ParseGptHeader
<1>3. /\ i.prim \in Header \cup {Zero} /\ i.sec \in Header \cup {Zero}
  BY <1>1 DEF Image
<1>4. Zero.kind = "zero"
  BY DEF Zero
<1> QED
  BY <1>2, <1>3, <1>4 DEF Parsed

LEMMA FlipFacts ==
  ASSUME NEW t \in Seq(Entry), NEW n \in 1 .. Len(t)
  PROVE  /\ Flip(t, n) \in Seq(Entry) /\ Len(Flip(t, n)) = Len(t)
         /\ Flip(t, n) # <<>> /\ t # <<>>
         /\ \A k \in 1 .. Len(t) : Extent(Flip(t, n)[k]) = Extent(t[k])
<1> DEFINE e == t[n]
           x == [e EXCEPT !.attr = 1 - @]
<1>1. e \in Entry /\ Len(t) \in Nat
  OBVIOUS
<1>2. Flip(t, n) = [t EXCEPT ![n] = x]
  BY DEF Flip
<1> HIDE DEF e
<1>2a. /\ DOMAIN e = {"kind", "id", "first", "last", "attr"} /\ e.kind = "entry"
       /\ e.attr \in {0, 1} /\ 1 - e.attr \in {0, 1}
  BY <1>1 DEF Entry
<1>3. x \in Entry /\ x.id = e.id /\ x.first = e.first /\ x.last = e.last
  BY <1>1, <1>2a, SMTT(30) DEF Entry
<1> HIDE DEF x
<1>4. /\ Flip(t, n) \in Seq(Entry) /\ Len(Flip(t, n)) = Len(t)
      /\ \A k \in 1 .. Len(t) : Flip(t, n)[k] = IF k = n THEN x ELSE t[k]
  BY <1>2, <1>3
<1>5. \A k \in 1 .. Len(t) : Extent(Flip(t, n)[k]) = Extent(t[k])
  BY <1>3, <1>4 DEF Extent, e
<1>6. Len(t) # 0 /\ Len(<<>>) = 0
  BY <1>1
<1>7. Flip(t, n) # <<>> /\ t # <<>>
  BY <1>4, <1>6
<1> QED
  BY <1>4, <1>5, <1>7

LEMMA BaseFlashPartition ==
  ASSUME BaseInv, FlashPartition
  PROVE  BaseInv'
<1>1. /\ pc = "idle" /\ bootLun' = 1
      /\ UNCHANGED <<disk, table, cut, single, stale>>
  BY DEF FlashPartition
<1>2. PICK i \in Images :
        /\ secondary' = (secondary \/ PrimaryParsed(i))
        /\ \/ /\ PrimaryParsed(i) /\ ParseGptHeader(i.sec, TRUE)
              /\ pc' \in {"erase"} \cup (IF TotalPart(i) = 0 THEN {"dead"} ELSE {})
              /\ gpt' = PatchGpt(i) /\ img' = IF pc' = "erase" THEN i ELSE img
           \/ UNCHANGED <<pc, gpt, img>>
  BY DEF FlashPartition
<1>3. \/ pc' = "erase" /\ img' = i /\ gpt' = PatchGpt(i) /\ Parsed(i)
      \/ pc' = "dead" /\ img' = img
      \/ pc' = "idle" /\ img' = img
  BY <1>1, <1>2, ParsedImage
<1>3a. secondary' \in BOOLEAN
  <2>1. PrimaryParsed(i) \in BOOLEAN
    BY DEF PrimaryParsed, ParseGptHeader
  <2> QED
    BY <1>2, <2>1 DEF BaseInv, TypeOK
<1>4. TypeOK'
  BY <1>1, <1>3, <1>3a, Zenon DEF BaseInv, TypeOK
<1>5. Sane(disk)' /\ Arrays'
  BY <1>1, <1>3 DEF BaseInv, Sane, Arrays, InnerPlain, Wrecked, Writing
<1>6. Flows'
  BY <1>1, <1>3 DEF BaseInv, Flows, Flashing, Writing, Updating
<1> QED
  BY <1>4, <1>5, <1>6 DEF BaseInv

(* An erase that does not end.                                             *)
LEMMA ErasedSome ==
  ASSUME NEW d, Sane(d), InnerPlain(d) \/ Wrecked(d),
         NEW e \in PutSome(d, 0, [k \in 1 .. NumSectors |-> Zero])
  PROVE  Sane(e) /\ (InnerPlain(e) \/ (Wrecked(d) /\ Wrecked(e)))
<1> DEFINE s == [k \in 1 .. NumSectors |-> Zero]
<1>0. NumSectors \in Nat /\ 0 \in Nat
  BY Layout
<1>1. s \in Seq({Zero}) /\ Len(s) = NumSectors /\ \A k \in 1 .. NumSectors : s[k] = Zero
  BY <1>0
<1>2. e \in PutSome(d, 0, s)
  OBVIOUS
<1> HIDE DEF s
<1>3. PICK n \in 0 .. Len(s) : Written(d, e, 0, s, n)
  BY <1>0, <1>1, <1>2, PutSomeWritten
<1>4. n \in Nat /\ n <= NumSectors
  BY <1>0, <1>1, <1>3
<1>5. Zero.kind = "zero" /\ Zero \in Block /\ Zero \in Plain
  BY Kinds DEF Zero
<1>6. Fit(0, s, n)
  <2>1. \A k \in 1 .. n : s[k] = Zero
    BY <1>0, <1>1, <1>4
  <2> QED
    BY <1>5, <2>1 DEF Fit, BlockOK
<1>7. Sane(e) /\ (InnerPlain(d) => InnerPlain(e))
  BY <1>0, <1>3, <1>4, <1>6, Overwrite
<1>8. ASSUME Wrecked(d) PROVE InnerPlain(e) \/ Wrecked(e)
  <2>1. PICK b \in Inner :
          /\ d[b] \notin Plain /\ BackupLba <= b
          /\ b < BackupLba + d[NumSectors - 1].cnt
          /\ \A c \in Inner \ {b} : d[c] \in Plain
    BY <1>8 DEF Wrecked
  <2>2. \A c \in LBAs : (c < n => e[c] = Zero) /\ (~(c < n) => e[c] = d[c])
    <3> TAKE c \in LBAs
    <3>0. 0 <= c /\ 0 + n = n /\ c \in Nat
      BY <1>4, Layout
    <3>1. CASE c < n
      <4>0. 0 <= c /\ c < 0 + n
        BY <1>4, <3>0, <3>1
      <4>1. e[c] = s[(c - 0) + 1]
        BY <1>3, <4>0 DEF Written
      <4>2. (c - 0) + 1 \in 1 .. NumSectors
        BY <1>0, <1>4, <3>0, <3>1
      <4> QED
        BY <1>1, <3>1, <4>1, <4>2
    <3>2. CASE ~(c < n)
      BY <1>3, <3>0, <3>2 DEF Written
    <3> QED
      BY <3>1, <3>2
  <2>3. \A c \in Inner : c # b => e[c] \in Plain
    BY <1>5, <2>1, <2>2, Places
  <2>4. CASE b < n
    <3>1. e[b] \in Plain
      BY <1>5, <2>2, <2>4, Places
    <3> QED
      BY <2>3, <3>1 DEF InnerPlain
  <2>5. CASE ~(b < n)
    <3>1. e[b] = d[b]
      BY <2>2, <2>5, Places
    <3>2. ~(NumSectors - 1 < n) /\ NumSectors - 1 \in LBAs
      <4>1. b \in Int /\ b < NumSectors - 1
        BY Layout DEF Inner
      <4> QED
        BY <1>4, <2>5, <4>1, Places, Layout
    <3>3. e[NumSectors - 1] = d[NumSectors - 1]
      BY <2>2, <3>2
    <3>4. e[1] = Zero \/ e[1] = d[1]
      BY <2>2, Places
    <3>5. e[1].kind = "header" => e[1] = d[1]
      BY <1>5, <3>4
    <3>6. Wrecked(e)
      BY <1>8, <2>1, <2>3, <3>1, <3>3, <3>5 DEF Wrecked
    <3> QED
      BY <3>6
  <2> QED
    BY <2>4, <2>5
<1> QED
  BY <1>7, <1>8

LEMMA InterruptedFacts ==
  ASSUME BaseInv, pc \in Flashing, NEW e \in Interrupted
  PROVE  Sane(e) /\ (InnerPlain(e) \/ (table = <<>> /\ Wrecked(e)))
<1>1. CASE pc = "erase"
  <2>1. e \in PutSome(disk, 0, [k \in 1 .. NumSectors |-> Zero])
    BY <1>1 DEF Interrupted
  <2>2. Sane(disk) /\ (InnerPlain(disk) \/ (table = <<>> /\ Wrecked(disk)))
    BY DEF BaseInv, Arrays
  <2>3. CASE InnerPlain(disk)
    <3>1. ~Wrecked(disk)
      BY <2>3 DEF InnerPlain, Wrecked
    <3> QED
      BY <2>1, <2>2, <2>3, <3>1, ErasedSome
  <2>4. CASE ~InnerPlain(disk)
    BY <2>1, <2>2, <2>4, ErasedSome
  <2> QED
    BY <2>3, <2>4
<1>2. CASE pc # "erase"
  <2>1. pc \in Writing /\ Parsed(img) /\ gpt = PatchGpt(img) /\ Sane(disk) /\ InnerPlain(disk)
    BY <1>2 DEF BaseInv, Flows, Flashing, Arrays
  <2>2. CASE e = disk
    BY <2>1, <2>2
  <2>3. CASE e # disk
    <3> DEFINE l == Write(pc).lba
               s == Write(pc).data
    <3>1. e \in PutSome(disk, l, s)
      BY <1>2, <2>3 DEF Interrupted
    <3>2. l \in Nat /\ s \in Seq(Block) /\ \A n \in 0 .. Len(s) : Fit(l, s, n)
      BY <2>1, WriteFacts
    <3> HIDE DEF l, s
    <3>3. PICK n \in 0 .. Len(s) : Written(disk, e, l, s, n)
      BY <3>1, <3>2, PutSomeWritten
    <3>4. n \in Nat /\ Fit(l, s, n)
      BY <3>2
    <3> QED
      BY <2>1, <3>2, <3>3, <3>4, Overwrite
  <2> QED
    BY <2>2, <2>3
<1> QED
  BY <1>1, <1>2

LEMMA BaseWriteGpt ==
  ASSUME BaseInv, WriteGpt
  PROVE  BaseInv'
<1>0. /\ cut' = TRUE /\ single' = TRUE
      /\ UNCHANGED <<bootLun, secondary, gpt, table, img, stale>>
  BY DEF WriteGpt
<1>1. CASE pc = "erase" /\ pc' = "mbr" /\ disk' = [b \in LBAs |-> Zero]
  <2>1. Sane(disk') /\ InnerPlain(disk')
    BY <1>1, BlankSane
  <2>2. TypeOK'
    BY <1>0, <1>1, <2>1, SaneType DEF BaseInv, TypeOK, Writing
  <2>3. Flows'
    BY <1>0, <1>1 DEF BaseInv, Flows, Flashing, Writing, Updating
  <2> QED
    BY <2>1, <2>2, <2>3 DEF BaseInv, Arrays
<1>2. CASE /\ pc \in Writing /\ pc' = Write(pc).next
           /\ disk' = Put(disk, Write(pc).lba, Write(pc).data)
  <2> DEFINE l == Write(pc).lba
             s == Write(pc).data
  <2>1. Parsed(img) /\ gpt = PatchGpt(img) /\ Sane(disk) /\ InnerPlain(disk)
    BY <1>2 DEF BaseInv, Flows, Flashing, Arrays
  <2>2. l \in Nat /\ s \in Seq(Block) /\ \A n \in 0 .. Len(s) : Fit(l, s, n)
    BY <1>2, <2>1, WriteFacts
  <2> HIDE DEF l, s
  <2>3. Len(s) \in Nat /\ Fit(l, s, Len(s))
    BY <2>2
  <2>4. Written(disk, disk', l, s, Len(s))
    BY <1>2, <2>2, <2>3, PutWritten DEF l, s
  <2>5. Sane(disk') /\ InnerPlain(disk')
    BY <2>1, <2>2, <2>3, <2>4, Overwrite
  <2>6. pc' \in Writing \cup {"flush"}
    BY <1>2, WriteCases DEF Writing
  <2>7. TypeOK'
    BY <1>0, <2>5, <2>6, SaneType DEF BaseInv, TypeOK
  <2>8. Flows'
    BY <1>0, <2>1, <2>6 DEF Flows, Flashing, Writing, Updating
  <2> QED
    BY <2>5, <2>7, <2>8 DEF BaseInv, Arrays
<1> QED
  BY <1>1, <1>2 DEF WriteGpt

LEMMA BaseWriteGptFails ==
  ASSUME BaseInv, WriteGptFails
  PROVE  BaseInv'
<1>1. /\ pc \in Flashing /\ disk' \in Interrupted
      /\ pc' = "idle" /\ cut' = TRUE /\ single' = TRUE /\ stale' = TRUE
      /\ img' = Zero /\ UNCHANGED <<bootLun, secondary, table>>
  BY DEF WriteGptFails, Flashing
<1>2. Sane(disk') /\ (InnerPlain(disk') \/ (table = <<>> /\ Wrecked(disk')))
  BY <1>1, InterruptedFacts
<1>3. TypeOK'
  BY <1>1, <1>2, SaneType DEF BaseInv, TypeOK
<1>4. Flows'
  BY <1>1 DEF Flows, Flashing, Writing, Updating
<1>5. Arrays'
  BY <1>1, <1>2 DEF Arrays, Writing
<1> QED
  BY <1>2, <1>3, <1>4, <1>5 DEF BaseInv

LEMMA BaseFlush ==
  ASSUME BaseInv, Flush
  PROVE  BaseInv'
<1>1. /\ pc = "flush" /\ pc' \in {"refresh", "idle"} /\ (stale' = stale \/ stale' = TRUE)
      /\ cut' = ~Sound(img) /\ (img' = img \/ img' = Zero)
      /\ UNCHANGED <<disk, bootLun, secondary, table, single>>
  BY DEF Flush
<1>2. (~Sound(img)) \in BOOLEAN
  BY DEF Sound
<1>3. Sane(disk) /\ InnerPlain(disk)
  BY <1>1 DEF BaseInv, Arrays
<1>4. TypeOK'
  <2>1. cut' \in BOOLEAN
    BY <1>1, <1>2
  <2> QED
    BY <1>1, <2>1, Zenon DEF BaseInv, TypeOK
<1>5. Flows'
  BY <1>1 DEF Flows, Flashing, Writing, Updating
<1>6. Sane(disk') /\ InnerPlain(disk')
  BY <1>1, <1>3
<1> QED
  BY <1>4, <1>5, <1>6 DEF BaseInv, Arrays

LEMMA UpdateFacts ==
  ASSUME BaseInv, pc \in Updating, HasEntries(pc)
  PROVE  /\ InnerPlain(disk) /\ disk[Copy(pc).header] \in Header
         /\ Reheaded(disk[Copy(pc).header], NewHeader(pc), NewArray(pc))
         /\ Realigned(disk, Place(Copy(pc).header), NewArray(pc))
         /\ NewArray(pc) \in [1 .. MaxParts -> Plain] /\ NewHeader(pc) \in Header
<1>1. TypeOK /\ Sane(disk) /\ InnerPlain(disk)
  BY DEF BaseInv, Arrays, Flows
<1>2. /\ disk[Copy(pc).header] \in Header
      /\ Reheaded(disk[Copy(pc).header], NewHeader(pc), NewArray(pc))
  BY <1>1, NewHeaderFacts
<1>3. Realigned(disk, Place(Copy(pc).header), NewArray(pc))
  BY <1>1, NewArrayFacts, CopyFacts
<1> QED
  BY <1>1, <1>2, <1>3 DEF Reheaded, Realigned

LEMMA UpdateSome ==
  ASSUME BaseInv, pc \in Updating, HasEntries(pc),
         NEW e \in PutSome(disk, NewCopy(pc).lba, NewCopy(pc).data)
  PROVE  /\ Touched(disk, e, Copy(pc).header, NewHeader(pc), NewArray(pc))
         /\ Sane(e) /\ InnerPlain(e)
<1> DEFINE l == NewCopy(pc).lba
           s == NewCopy(pc).data
<1>1. NewArray(pc) \in [1 .. MaxParts -> Plain] /\ NewHeader(pc) \in Header
  BY UpdateFacts
<1>2. l \in Nat /\ s \in Seq(Block) /\ Len(s) = MaxParts + 1
  BY <1>1, NewCopyFacts
<1>3. e \in PutSome(disk, l, s)
  OBVIOUS
<1> HIDE DEF l, s
<1>4. PICK n \in 0 .. Len(s) : Written(disk, e, l, s, n)
  BY <1>2, <1>3, PutSomeWritten
<1>5. n \in 0 .. MaxParts + 1
  BY <1>2
<1>6. Touched(disk, e, Copy(pc).header, NewHeader(pc), NewArray(pc))
  BY <1>1, <1>4, <1>5, UpdateTouched DEF l, s
<1>7. Sane(disk)
  BY DEF BaseInv
<1> QED
  BY <1>6, <1>7, UpdateFacts, CopyFacts, TouchedSane

LEMMA UpdateAll ==
  ASSUME BaseInv, pc \in Updating, HasEntries(pc),
         NEW e, e = Put(disk, NewCopy(pc).lba, NewCopy(pc).data)
  PROVE  /\ Touched(disk, e, Copy(pc).header, NewHeader(pc), NewArray(pc))
         /\ Replaced(e, Copy(pc).header, NewHeader(pc), NewArray(pc))
         /\ Sane(e) /\ InnerPlain(e)
<1> DEFINE l == NewCopy(pc).lba
           s == NewCopy(pc).data
<1>1. NewArray(pc) \in [1 .. MaxParts -> Plain] /\ NewHeader(pc) \in Header
  BY UpdateFacts
<1>2. l \in Nat /\ s \in Seq(Block) /\ Len(s) = MaxParts + 1
  BY <1>1, NewCopyFacts
<1>3. e = Put(disk, l, s)
  OBVIOUS
<1>4. MaxParts + 1 \in Nat /\ MaxParts + 1 \in 0 .. MaxParts + 1
  BY Layout
<1> HIDE DEF l, s
<1>5. Written(disk, e, l, s, MaxParts + 1)
  BY <1>2, <1>3, <1>4, PutWritten
<1>6. /\ Touched(disk, e, Copy(pc).header, NewHeader(pc), NewArray(pc))
      /\ Replaced(e, Copy(pc).header, NewHeader(pc), NewArray(pc))
  BY <1>1, <1>4, <1>5, UpdateTouched DEF l, s
<1>7. Sane(disk)
  BY DEF BaseInv
<1> QED
  BY <1>6, <1>7, UpdateFacts, CopyFacts, TouchedSane

LEMMA RefreshCases ==
  ASSUME Refresh
  PROVE  \/ stale' = TRUE /\ pc' = "idle" /\ UNCHANGED <<disk, table, single>>
         \/ /\ disk' \in {disk, Repaired(disk)} \cup PartlyRepaired(disk)
            /\ stale' = FALSE /\ single' = (disk' # Repaired(disk))
            /\ \/ table' = Enumerated(disk') /\ pc' = "idle"
               \/ LET t == Enumerated(disk')
                  IN  pc' = "update" /\ \E n \in 1 .. Len(t) : table' = Flip(t, n)
  BY Zenon DEF Refresh

LEMMA BaseRefresh ==
  ASSUME BaseInv, Refresh
  PROVE  BaseInv'
<1>1. pc = "refresh" /\ UNCHANGED <<bootLun, secondary, gpt, img, cut>>
  BY DEF Refresh
<1>2. Sane(disk) /\ InnerPlain(disk)
  BY <1>1 DEF BaseInv, Arrays
<1>3. CASE stale' = TRUE /\ pc' = "idle" /\ UNCHANGED <<disk, table, single>>
  <2>1. TypeOK'
    BY <1>1, <1>3, Zenon DEF BaseInv, TypeOK
  <2>2. Flows'
    BY <1>3 DEF Flows, Flashing, Writing, Updating
  <2>3. Sane(disk') /\ InnerPlain(disk')
    BY <1>2, <1>3
  <2> QED
    BY <2>1, <2>2, <2>3 DEF BaseInv, Arrays
<1>4. CASE /\ disk' \in {disk, Repaired(disk)} \cup PartlyRepaired(disk)
           /\ stale' = FALSE /\ single' = (disk' # Repaired(disk))
           /\ \/ table' = Enumerated(disk') /\ pc' = "idle"
              \/ LET t == Enumerated(disk')
                 IN  pc' = "update" /\ \E n \in 1 .. Len(t) : table' = Flip(t, n)
  <2>1. Sane(disk') /\ (InnerPlain(disk') \/ Wrecked(disk'))
    BY <1>2, <1>4, RepairedSane
  <2> DEFINE t == Enumerated(disk')
  <2>2. t \in Seq(Entry) /\ Len(t) <= MaxParts /\ (t # <<>> => Valid1(disk') \/ Valid2(disk'))
    BY <2>1, EnumeratedType
  <2>3. t # <<>> => InnerPlain(disk')
    BY <2>1, <2>2, WreckedInvalid
  <2>4. \/ table' = t /\ pc' = "idle"
        \/ pc' = "update" /\ \E n \in 1 .. Len(t) : table' = Flip(t, n)
    BY <1>4
  <2> HIDE DEF t
  <2>5. /\ table' \in Seq(Entry) /\ Len(table') <= MaxParts /\ (table' = <<>> => t = <<>>)
        /\ (t = <<>> => table' = <<>>)
        /\ pc' \in {"idle", "update"} /\ (pc' = "update" => table' # <<>>)
    BY <2>2, <2>4, FlipFacts
  <2>6. single' \in BOOLEAN
    BY <1>4 DEF BaseInv, TypeOK
  <2>7. TypeOK'
    BY <1>1, <1>4, <2>1, <2>5, <2>6, SaneType DEF BaseInv, TypeOK, Updating
  <2>8. Flows'
    BY <2>5 DEF Flows, Flashing, Writing, Updating
  <2>9. Arrays'
    BY <2>1, <2>3, <2>5 DEF Arrays, Writing
  <2> QED
    BY <2>1, <2>7, <2>8, <2>9 DEF BaseInv
<1> QED
  BY <1>3, <1>4, RefreshCases

LEMMA BaseSetAttribute ==
  ASSUME BaseInv, SetAttribute
  PROVE  BaseInv'
<1>1. /\ pc = "idle" /\ pc' = "update"
      /\ UNCHANGED <<disk, bootLun, secondary, gpt, img, cut, single, stale>>
  BY DEF SetAttribute
<1>2. PICK n \in 1 .. Len(table) : table' = Flip(table, n)
  BY DEF SetAttribute
<1>3. table \in Seq(Entry) /\ Len(table) <= MaxParts
  BY DEF BaseInv, TypeOK
<1>4. table' \in Seq(Entry) /\ Len(table') <= MaxParts /\ table' # <<>> /\ table # <<>>
  BY <1>2, <1>3, FlipFacts
<1>5. Sane(disk) /\ InnerPlain(disk)
  BY <1>4 DEF BaseInv, Arrays
<1>6. TypeOK'
  BY <1>1, <1>4 DEF BaseInv, TypeOK, Updating
<1>7. Flows'
  BY <1>1, <1>4 DEF Flows, Flashing, Writing, Updating
<1>8. Sane(disk') /\ InnerPlain(disk')
  BY <1>1, <1>5
<1> QED
  BY <1>6, <1>7, <1>8 DEF BaseInv, Arrays

LEMMA BaseUpdateCopy ==
  ASSUME BaseInv, UpdateCopy
  PROVE  BaseInv'
<1>1. /\ pc \in Updating /\ pc' \in {"update2", "idle"}
      /\ UNCHANGED <<bootLun, secondary, gpt, table, img, cut, single, stale>>
  BY DEF UpdateCopy
<1>2. Sane(disk) /\ InnerPlain(disk) /\ table # <<>>
  BY <1>1 DEF BaseInv, Arrays, Flows
<1>3. Sane(disk') /\ InnerPlain(disk')
  <2>1. CASE Changed(pc) /\ HasEntries(pc) /\ disk' = Put(disk, NewCopy(pc).lba, NewCopy(pc).data)
    BY <1>1, <2>1, UpdateAll
  <2>2. CASE UNCHANGED disk
    BY <1>2, <2>2
  <2> QED
    BY <2>1, <2>2 DEF UpdateCopy
<1>4. TypeOK'
  BY <1>1, <1>3, SaneType DEF BaseInv, TypeOK, Updating
<1>5. Flows'
  BY <1>1, <1>2 DEF Flows, Flashing, Writing, Updating
<1> QED
  BY <1>3, <1>4, <1>5 DEF BaseInv, Arrays

LEMMA BaseUpdateFails ==
  ASSUME BaseInv, UpdateFails
  PROVE  BaseInv'
<1>1. /\ pc \in Updating /\ HasEntries(pc) /\ pc' = "idle" /\ single' = TRUE
      /\ disk' \in PutSome(disk, NewCopy(pc).lba, NewCopy(pc).data)
      /\ cut' \in BOOLEAN
      /\ UNCHANGED <<bootLun, secondary, gpt, table, img, stale>>
  BY DEF UpdateFails, UpdateInterrupted
<1>2. Sane(disk') /\ InnerPlain(disk')
  BY <1>1, UpdateSome
<1>3. cut' \in BOOLEAN
  BY <1>1 DEF BaseInv, TypeOK
<1>4. TypeOK'
  BY <1>1, <1>2, <1>3, SaneType DEF BaseInv, TypeOK, Updating
<1>5. Flows'
  BY <1>1 DEF Flows, Flashing, Writing, Updating
<1> QED
  BY <1>2, <1>4, <1>5 DEF BaseInv, Arrays

LEMMA BasePowerLoss ==
  ASSUME BaseInv, PowerLoss
  PROVE  BaseInv'
<1>1. /\ pc # "off" /\ pc' = "off" /\ secondary' = FALSE /\ table' = <<>> /\ stale' = FALSE
      /\ UNCHANGED <<bootLun, single>>
  BY DEF PowerLoss, Off
<1>2. /\ Sane(disk') /\ (InnerPlain(disk') \/ Wrecked(disk'))
      /\ cut' \in BOOLEAN /\ (img' = img \/ img' = Zero)
  <2>1. CASE pc \in Writing \cup {"erase"} /\ disk' \in Interrupted /\ cut' = TRUE /\ img' = Zero
    BY <2>1, InterruptedFacts DEF Flashing
  <2>2. CASE UpdateInterrupted /\ UNCHANGED img
    <3>1. /\ pc \in Updating /\ HasEntries(pc) /\ cut' \in BOOLEAN
          /\ disk' \in PutSome(disk, NewCopy(pc).lba, NewCopy(pc).data)
      BY <2>2 DEF UpdateInterrupted
    <3>2. Sane(disk') /\ InnerPlain(disk')
      BY <3>1, UpdateSome
    <3>3. cut' \in BOOLEAN
      BY <3>1 DEF BaseInv, TypeOK
    <3> QED
      BY <2>2, <3>2, <3>3
  <2>3. CASE UNCHANGED <<disk, cut, img>>
    BY <2>3 DEF BaseInv, Arrays, TypeOK
  <2> QED
    BY <2>1, <2>2, <2>3 DEF PowerLoss
<1>3. table' \in Seq(Entry) /\ Len(table') <= MaxParts
  BY <1>1, Layout
<1>4. TypeOK'
  BY <1>1, <1>2, <1>3, SaneType DEF BaseInv, TypeOK
<1>5. Flows'
  BY <1>1 DEF Flows, Flashing, Writing, Updating
<1>6. Arrays'
  BY <1>1, <1>2 DEF Arrays, Writing
<1> QED
  BY <1>2, <1>4, <1>5, <1>6 DEF BaseInv

LEMMA BaseLeave ==
  ASSUME BaseInv, Leave
  PROVE  BaseInv'
<1>1. /\ pc' = "off" /\ secondary' = FALSE /\ table' = <<>> /\ stale' = FALSE
      /\ UNCHANGED <<disk, bootLun, img, cut, single>>
  BY DEF Leave, Off
<1>2. Sane(disk') /\ (InnerPlain(disk') \/ Wrecked(disk'))
  BY <1>1 DEF BaseInv, Arrays
<1>3. table' \in Seq(Entry) /\ Len(table') <= MaxParts
  BY <1>1, Layout
<1>4. TypeOK'
  BY <1>1, <1>2, <1>3, SaneType DEF BaseInv, TypeOK
<1>5. Flows'
  BY <1>1 DEF Flows, Flashing, Writing, Updating
<1>6. Arrays'
  BY <1>1, <1>2 DEF Arrays, Writing
<1> QED
  BY <1>2, <1>4, <1>5, <1>6 DEF BaseInv

LEMMA PowerOnCases ==
  ASSUME PowerOn
  PROVE  \/ /\ disk' \in {Repaired(disk)} \cup PartlyRepaired(disk)
            /\ table' = Enumerated(disk') /\ pc' = "idle"
            /\ single' = (disk' # Repaired(disk))
         \/ disk' \in PartlyRepaired(disk) /\ UNCHANGED <<pc, table, single>>
  BY Zenon DEF PowerOn

LEMMA BasePowerOn ==
  ASSUME BaseInv, PowerOn
  PROVE  BaseInv'
<1>1. pc = "off" /\ table = <<>> /\ UNCHANGED <<bootLun, secondary, gpt, img, cut, stale>>
  BY DEF PowerOn, BaseInv, Flows
<1>2. Sane(disk) /\ (InnerPlain(disk) \/ Wrecked(disk))
  BY DEF BaseInv, Arrays
<1>3. CASE /\ disk' \in {Repaired(disk)} \cup PartlyRepaired(disk)
           /\ table' = Enumerated(disk') /\ pc' = "idle"
           /\ single' = (disk' # Repaired(disk))
  <2>1. Sane(disk') /\ (InnerPlain(disk') \/ Wrecked(disk'))
    BY <1>2, <1>3, RepairedSane
  <2>2. /\ table' \in Seq(Entry) /\ Len(table') <= MaxParts
        /\ table' # <<>> => InnerPlain(disk')
    BY <1>3, <2>1, EnumeratedType, WreckedInvalid
  <2>3. TypeOK'
    BY <1>1, <1>3, <2>1, <2>2, SaneType DEF BaseInv, TypeOK
  <2>4. Flows'
    BY <1>3 DEF Flows, Flashing, Writing, Updating
  <2>5. Arrays'
    BY <1>3, <2>1, <2>2 DEF Arrays, Writing
  <2> QED
    BY <2>1, <2>3, <2>4, <2>5 DEF BaseInv
<1>4. CASE disk' \in PartlyRepaired(disk) /\ UNCHANGED <<pc, table, single>>
  <2>1. Sane(disk') /\ (InnerPlain(disk') \/ Wrecked(disk'))
    BY <1>2, <1>4, RepairedSane
  <2>2. TypeOK'
    BY <1>1, <1>4, <2>1, SaneType DEF BaseInv, TypeOK
  <2>3. Flows'
    BY <1>1, <1>4 DEF Flows, Flashing, Writing, Updating
  <2>4. Arrays'
    BY <1>1, <1>4, <2>1 DEF Arrays, Writing
  <2> QED
    BY <2>1, <2>2, <2>3, <2>4 DEF BaseInv
<1> QED
  BY <1>3, <1>4, PowerOnCases

LEMMA BaseStutter ==
  ASSUME BaseInv, UNCHANGED vars
  PROVE  BaseInv'
<1>1. UNCHANGED <<disk, bootLun, pc, secondary, gpt, table, img, cut, single, stale>>
  BY DEF vars
<1>2. TypeOK' /\ Flows'
  BY <1>1 DEF BaseInv, TypeOK, Flows
<1>3. Sane(disk') /\ Arrays'
  BY <1>1 DEF BaseInv, Arrays
<1> QED
  BY <1>2, <1>3 DEF BaseInv

LEMMA BaseNext == BaseInv /\ [Next]_vars => BaseInv'
  BY BaseFlashPartition, BaseWriteGpt, BaseWriteGptFails, BaseFlush, BaseRefresh,
     BaseSetAttribute, BaseUpdateCopy, BaseUpdateFails, BasePowerLoss, BaseLeave,
     BasePowerOn, BaseStutter DEF Next

(* Every variable keeps its type, whatever is flashed and whenever power   *)
(* is lost: no block of the LUN becomes something the driver or WriteGpt   *)
(* does not know, the primary header always names a backup within the LUN, *)
(* and the attribute update never has more handles than entries to walk.   *)
THEOREM TypeCorrect == Spec => []TypeOK
<1>1. BaseInv => TypeOK
  BY DEF BaseInv
<1> QED
  BY <1>1, BaseInit, BaseNext, PTL DEF Spec

-----------------------------------------------------------------------------
(* A sound image as it is written.                                         *)

LEMMA WroteOne ==
  ASSUME NEW d, NEW e, NEW l \in LBAs, NEW s, Wrote(d, e, l, s, 1)
  PROVE  e[l] = s[1] /\ \A b \in LBAs \ {l} : e[b] = d[b]
<1>1. l \in Nat
  BY Layout
<1>2. 1 \in 1 .. 1 /\ (l + 1) - 1 = l /\ \A b \in LBAs \ {l} : ~(l <= b /\ b < l + 1)
  BY <1>1, Layout
<1>3. e[(l + 1) - 1] = s[1]
  BY <1>1, <1>2 DEF Wrote
<1> QED
  BY <1>1, <1>2, <1>3 DEF Wrote

LEMMA WroteArray ==
  ASSUME NEW d, NEW e, NEW l \in {2, BackupLba}, NEW a \in Array, Wrote(d, e, l, a, Len(a))
  PROVE  /\ \A b \in {0, 1, NumSectors - 1} : e[b] = d[b]
         /\ \A k \in 1 .. MaxParts : e[(l + k) - 1] = a[k]
         /\ l = BackupLba => \A k \in 1 .. MaxParts : e[1 + k] = d[1 + k]
<1>1. Len(a) = MaxParts
  BY ArrayFits, Layout
<1>2. /\ \A b \in LBAs : ~(l <= b /\ b < l + MaxParts) => e[b] = d[b]
      /\ \A k \in 1 .. MaxParts : (l + k) - 1 \in LBAs => e[(l + k) - 1] = a[k]
  BY <1>1 DEF Wrote
<1>3. /\ \A b \in {0, 1, NumSectors - 1} : b \in LBAs /\ ~(l <= b /\ b < l + MaxParts)
      /\ \A k \in 1 .. MaxParts : (l + k) - 1 \in LBAs
  BY Layout
<1>4. ASSUME l = BackupLba, NEW k \in 1 .. MaxParts
      PROVE  1 + k \in LBAs /\ ~(l <= 1 + k /\ 1 + k < l + MaxParts)
  BY <1>4, Layout
<1>5. \A b \in {0, 1, NumSectors - 1} : e[b] = d[b]
  BY <1>2, <1>3
<1>6. \A k \in 1 .. MaxParts : e[(l + k) - 1] = a[k]
  BY <1>2, <1>3
<1>7. l = BackupLba => \A k \in 1 .. MaxParts : e[1 + k] = d[1 + k]
  BY <1>2, <1>4
<1> QED
  BY <1>5, <1>6, <1>7

LEMMA ProgressWriteGpt ==
  ASSUME BaseInv, Progress, WriteGpt
  PROVE  Progress'
<1>1. UNCHANGED <<gpt, img>>
  BY DEF WriteGpt
<1>2. CASE pc = "erase" /\ pc' = "mbr"
  BY <1>2 DEF Progress
<1>3. CASE /\ pc \in Writing /\ pc' = Write(pc).next
           /\ disk' = Put(disk, Write(pc).lba, Write(pc).data)
  <2> DEFINE l == Write(pc).lba
             s == Write(pc).data
  <2>1. Parsed(img) /\ gpt = PatchGpt(img)
    BY <1>3 DEF BaseInv, Flows, Flashing
  <2>2. l \in Nat /\ s \in Seq(Block)
    BY <1>3, <2>1, WriteFacts
  <2>3. Wrote(disk, disk', l, s, Len(s))
    <3> HIDE DEF l, s
    <3>1. Len(s) \in Nat
      BY <2>2
    <3>2. Written(disk, disk', l, s, Len(s))
      BY <1>3, <2>2, <3>1, PutWritten DEF l, s
    <3> QED
      BY <2>2, <3>1, <3>2, WrittenAt
  <2>4. /\ gpt.prim.alt = NumSectors - 1 /\ gpt.sec.entries = BackupLba
        /\ gpt.prim.entries = img.prim.entries
        /\ gpt.parts = Wanted(img) /\ gpt.parts \in Array /\ gpt.parts2 \in Array
        /\ gpt.prim = PatchGpt(img).prim /\ gpt.sec = PatchGpt(img).sec
    BY <2>1, PatchFacts
  <2>5. 0 # 1 /\ 0 # NumSectors - 1 /\ 1 # NumSectors - 1
    BY Layout
  <2> HIDE DEF l, s
  <2>6. CASE pc = "mbr"
    <3>1. pc' = "prim" /\ l = 0 /\ s = <<Mbr>>
      BY <1>3, <2>6, WriteCases DEF l, s
    <3>1a. Len(s) = 1 /\ l \in LBAs
      BY <3>1, Places
    <3>1b. Wrote(disk, disk', l, s, 1)
      BY <2>3, <3>1a
    <3>1c. disk'[l] = s[1] /\ \A b \in LBAs \ {l} : disk'[b] = disk[b]
      BY <3>1a, <3>1b, WroteOne
    <3>2. disk'[0] = Mbr
      BY <2>5, <3>1, <3>1c, Places
    <3> QED
      BY <3>1, <3>2 DEF Progress
  <2>7. CASE pc = "prim"
    <3>1. pc' = "sec" /\ l = 1 /\ s = <<gpt.prim>>
      BY <1>3, <2>7, WriteCases DEF l, s
    <3>1a. Len(s) = 1 /\ l \in LBAs
      BY <3>1, Places
    <3>1b. Wrote(disk, disk', l, s, 1)
      BY <2>3, <3>1a
    <3>1c. disk'[l] = s[1] /\ \A b \in LBAs \ {l} : disk'[b] = disk[b]
      BY <3>1a, <3>1b, WroteOne
    <3>2. disk'[1] = gpt.prim /\ disk'[0] = disk[0]
      BY <2>5, <3>1, <3>1c, Places
    <3> QED
      BY <1>1, <2>4, <2>7, <3>1, <3>2 DEF Progress
  <2>8. CASE pc = "sec"
    <3>1. pc' = "parts" /\ l = NumSectors - 1 /\ s = <<gpt.sec>>
      BY <1>3, <2>4, <2>8, WriteCases DEF l, s
    <3>1a. Len(s) = 1 /\ l \in LBAs
      BY <3>1, Places
    <3>1b. Wrote(disk, disk', l, s, 1)
      BY <2>3, <3>1a
    <3>1c. disk'[l] = s[1] /\ \A b \in LBAs \ {l} : disk'[b] = disk[b]
      BY <3>1a, <3>1b, WroteOne
    <3>2. disk'[NumSectors - 1] = gpt.sec /\ disk'[0] = disk[0] /\ disk'[1] = disk[1]
      BY <2>5, <3>1, <3>1c, Places
    <3> QED
      BY <1>1, <2>4, <2>8, <3>1, <3>2 DEF Progress
  <2>9. CASE pc = "parts"
    <3>0. pc' = "parts2"
      BY <1>3, <2>9, WriteCases
    <3>1. CASE ~Sound(img)
      BY <1>1, <3>0, <3>1 DEF Progress
    <3>2. CASE Sound(img)
      <4>1. gpt.prim.entries = 2
        BY <2>4, <3>2 DEF Sound
      <4>2. l = 2 /\ s = gpt.parts
        BY <2>9, <4>1, WriteCases DEF l, s
      <4>2a. l \in {2, BackupLba} /\ s \in Array
        BY <2>4, <4>2
      <4>3. /\ disk'[0] = disk[0] /\ disk'[1] = disk[1]
            /\ disk'[NumSectors - 1] = disk[NumSectors - 1]
            /\ \A k \in 1 .. MaxParts : disk'[(2 + k) - 1] = gpt.parts[k]
        BY <2>3, <4>2, <4>2a, WroteArray, SMTT(30)
      <4>4. \A k \in 1 .. MaxParts : (2 + k) - 1 = 1 + k
        BY Layout
      <4>5. \A k \in 1 .. MaxParts : disk'[1 + k] = Wanted(img)[k]
        BY <2>4, <4>3, <4>4
      <4> QED
        BY <1>1, <2>9, <3>0, <3>2, <4>3, <4>5 DEF Progress
    <3> QED
      BY <3>1, <3>2
  <2>10. CASE pc = "parts2"
    <3>1. pc' = "flush" /\ l = BackupLba /\ s = gpt.parts2
      BY <1>3, <2>4, <2>10, WriteCases DEF l, s
    <3>1a. l \in {2, BackupLba} /\ s \in Array
      BY <2>4, <3>1
    <3>2. /\ disk'[0] = disk[0] /\ disk'[1] = disk[1]
          /\ disk'[NumSectors - 1] = disk[NumSectors - 1]
          /\ \A k \in 1 .. MaxParts : disk'[1 + k] = disk[1 + k]
          /\ \A k \in 1 .. MaxParts : disk'[(BackupLba + k) - 1] = gpt.parts2[k]
      <4>1. /\ \A b \in {0, 1, NumSectors - 1} : disk'[b] = disk[b]
            /\ \A k \in 1 .. MaxParts : disk'[(l + k) - 1] = s[k]
            /\ l = BackupLba => \A k \in 1 .. MaxParts : disk'[1 + k] = disk[1 + k]
        BY <2>3, <3>1a, WroteArray
      <4> QED
        BY <3>1, <4>1
    <3>3. Sound(img) => gpt.parts2 = Wanted(img)
      BY <2>1, PatchFacts DEF Sound
    <3> QED
      BY <1>1, <2>10, <3>1, <3>2, <3>3 DEF Progress
  <2> QED
    BY <1>3, <2>6, <2>7, <2>8, <2>9, <2>10 DEF Writing
<1> QED
  BY <1>2, <1>3 DEF WriteGpt

LEMMA ProgressNext == BaseInv /\ Progress /\ [Next]_vars => Progress'
<1> SUFFICES ASSUME BaseInv, Progress, [Next]_vars PROVE Progress'
  OBVIOUS
<1>1. CASE pc' \notin {"prim", "sec", "parts", "parts2", "flush"}
  BY <1>1 DEF Progress
<1>2. CASE UNCHANGED vars
  BY <1>2 DEF Progress, vars
<1>3. CASE WriteGpt
  BY <1>3, ProgressWriteGpt
<1>4. CASE Next /\ ~WriteGpt
  <2>1. pc' \in {"idle", "erase", "dead", "refresh", "update", "update2", "off"}
    <3>1. CASE FlashPartition
      BY <3>1 DEF FlashPartition
    <3>2. CASE WriteGptFails
      BY <3>2 DEF WriteGptFails
    <3>3. CASE Flush
      BY <3>3 DEF Flush
    <3>4. CASE Refresh
      BY <3>4 DEF Refresh
    <3>5. CASE SetAttribute
      BY <3>5 DEF SetAttribute
    <3>6. CASE UpdateCopy
      BY <3>6 DEF UpdateCopy
    <3>7. CASE UpdateFails
      BY <3>7 DEF UpdateFails
    <3>8. CASE PowerLoss \/ Leave
      BY <3>8 DEF PowerLoss, Leave, Off
    <3>9. CASE PowerOn
      BY <3>9 DEF PowerOn
    <3> QED
      BY <1>4, <3>1, <3>2, <3>3, <3>4, <3>5, <3>6, <3>7, <3>8, <3>9 DEF Next
  <2> QED
    BY <1>1, <2>1
<1> QED
  BY <1>2, <1>3, <1>4

-----------------------------------------------------------------------------
(* The partitions of a sound image.                                        *)

LEMMA WantedFacts ==
  ASSUME NEW i, Parsed(i), Sound(i)
  PROVE  /\ TotalPart(i) \in 1 .. i.sec.cnt /\ TotalPart(i) \in 1 .. MaxParts
         /\ i.sec.cnt \in 0 .. MaxParts
         /\ Wanted(i) \in Array /\ Used(i) = 1 .. TotalPart(i)
         /\ \A k \in 1 .. MaxParts :
              /\ Wanted(i)[k] \in Plain
              /\ k \in 1 .. TotalPart(i) => Wanted(i)[k] \in Entry
              /\ k \notin 1 .. TotalPart(i) => Wanted(i)[k] = Zero
         /\ \A k \in 1 .. TotalPart(i) :
              /\ Wanted(i)[k].id = i.parts[k].id /\ Wanted(i)[k].first = i.parts[k].first
              /\ Wanted(i)[k].last = IF k = TotalPart(i) THEN LastUsableLba ELSE i.parts[k].last
<1> DEFINE n == TotalPart(i)
           a == i.parts
           w == Grow(a, n)
<1>1. i \in Image /\ i.sec.cnt \in Nat /\ i.sec.cnt <= MaxParts /\ n \in 0 .. i.sec.cnt
  BY TotalPartBound
<1>2. n > 0 /\ Used(i) = 1 .. n
  BY DEF Sound
<1>3. a \in Array /\ Wanted(i) = w
  BY <1>1 DEF Image, Wanted
<1>4. \A k \in 1 .. MaxParts : a[k] # Zero <=> k \in 1 .. n
  BY <1>2 DEF Used
<1> HIDE DEF n, a
<1>5. n \in 1 .. i.sec.cnt /\ n \in 1 .. MaxParts /\ n \in 0 .. MaxParts /\ i.sec.cnt \in 0 .. MaxParts
  BY <1>1, <1>2, Layout
<1>6. /\ w \in Array
      /\ \A k \in 1 .. MaxParts : (w[k] = Zero <=> a[k] = Zero) /\ (k # n => w[k] = a[k])
      /\ w[n] \in Entry /\ w[n].id = a[n].id /\ w[n].first = a[n].first
      /\ w[n].last = LastUsableLba
  <2>1. a[n] # Zero /\ n # 0
    BY <1>4, <1>5
  <2> QED
    BY <1>3, <1>5, <2>1, GrowFacts
<1> HIDE DEF w
<1>7. \A k \in 1 .. n : k \in 1 .. MaxParts
  BY <1>5, Layout
<1>8. \A k \in 1 .. MaxParts : /\ w[k] \in Plain
                               /\ k \in 1 .. n => w[k] \in Entry
                               /\ k \notin 1 .. n => w[k] = Zero
  <2> TAKE k \in 1 .. MaxParts
  <2>1. w[k] \in Entry \cup {Zero}
    BY <1>6 DEF Array
  <2> QED
    BY <1>4, <1>6, <2>1, Kinds DEF Plain
<1>9. \A k \in 1 .. n : /\ w[k].id = a[k].id /\ w[k].first = a[k].first
                        /\ w[k].last = IF k = n THEN LastUsableLba ELSE a[k].last
  BY <1>6, <1>7
<1> QED
  BY <1>2, <1>3, <1>5, <1>6, <1>8, <1>9 DEF n, a

(* They lie in the order of their blocks, within the usable ones.          *)
Ordered(w, n, lo) ==
  \A k \in 1 .. n : /\ lo <= w[k].first /\ w[k].first <= w[k].last
                    /\ w[k].last <= LastUsableLba
                    /\ \A j \in 1 .. n : j < k => w[j].last < w[k].first

LEMMA WantedOrdered ==
  ASSUME NEW i, Parsed(i), Sound(i)
  PROVE  Ordered(Wanted(i), TotalPart(i), 2 + MaxParts)
<1> DEFINE n == TotalPart(i)
           w == Wanted(i)
           lo == 2 + MaxParts
           Before(k) == lo <= w[k].first /\ \A j \in 1 .. n : j < k => w[j].last < w[k].first
           T == {m \in Nat : \A k \in 1 .. n : k <= m => Before(k)}
<1>1. /\ n \in 1 .. MaxParts
      /\ \A k \in 1 .. n : /\ w[k] \in Entry /\ w[k].first = i.parts[k].first
                           /\ w[k].last = IF k = n THEN LastUsableLba ELSE i.parts[k].last
  <2>1. \A k \in 1 .. n : k \in 1 .. MaxParts
    BY WantedFacts, Layout
  <2> QED
    BY <2>1, WantedFacts
<1>2. /\ lo <= i.parts[1].first /\ i.parts[n].first <= LastUsableLba
      /\ \A k \in 1 .. n - 1 : /\ i.parts[k].first <= i.parts[k].last
                               /\ i.parts[k].last < i.parts[k + 1].first
  BY DEF Sound
<1> HIDE DEF n, w
<1>0. n \in Nat /\ n >= 1 /\ lo \in Nat /\ LastUsableLba \in Nat
  BY <1>1, Layout
<1>3. \A k \in 1 .. n : w[k].first \in Nat /\ w[k].last \in Nat
  BY <1>1 DEF Entry
<1>4. /\ lo <= w[1].first /\ w[n].first <= LastUsableLba /\ w[n].last = LastUsableLba
  BY <1>0, <1>1, <1>2
<1>5. ASSUME NEW k \in 1 .. n - 1
      PROVE  /\ w[k].first <= w[k].last /\ w[k].last < w[k + 1].first
             /\ k \in 1 .. n /\ k + 1 \in 1 .. n
  <2>1. k \in 1 .. n /\ k + 1 \in 1 .. n /\ k # n
    BY <1>0
  <2> QED
    BY <1>1, <1>2, <2>1
<1>6. 0 \in T
  OBVIOUS
<1>7. ASSUME NEW m \in Nat, m \in T PROVE m + 1 \in T
  <2> SUFFICES ASSUME NEW k \in 1 .. n, k <= m + 1 PROVE Before(k)
    OBVIOUS
  <2>1. CASE k <= m
    BY <1>7, <2>1
  <2>2. CASE k = 1
    BY <1>0, <1>4, <2>2
  <2>3. CASE k = m + 1 /\ k # 1
    <3>1. m \in 1 .. n - 1 /\ m \in 1 .. n
      BY <1>0, <2>3
    <3>2. Before(m)
      BY <1>7, <3>1
    <3>3. w[m].first <= w[m].last /\ w[m].last < w[k].first
      BY <1>5, <2>3, <3>1
    <3>4. lo <= w[k].first
      BY <1>0, <1>3, <3>1, <3>2, <3>3
    <3>5. ASSUME NEW j \in 1 .. n, j < k PROVE w[j].last < w[k].first
      <4>1. CASE j = m
        BY <3>3, <4>1
      <4>2. CASE j < m
        <5>1. w[j].last < w[m].first
          BY <3>2, <4>2
        <5> QED
          BY <1>3, <3>1, <3>3, <5>1
      <4> QED
        BY <2>3, <3>5, <4>1, <4>2
    <3> QED
      BY <3>4, <3>5
  <2> QED
    BY <2>1, <2>2, <2>3
<1>8. n \in T
  <2> HIDE DEF T
  <2> QED
    BY <1>0, <1>6, <1>7, SetInduction
<1>9. \A k \in 1 .. n : Before(k)
  BY <1>0, <1>8
<1>10. ASSUME NEW k \in 1 .. n
       PROVE  w[k].first <= w[k].last /\ w[k].last <= LastUsableLba
  <2>1. CASE k = n
    BY <1>0, <1>4, <2>1
  <2>2. CASE k # n
    <3>1. k \in 1 .. n - 1 /\ k < n /\ n \in 1 .. n
      BY <1>0, <2>2
    <3>2. w[k].last < w[n].first
      BY <1>9, <3>1
    <3> QED
      BY <1>0, <1>3, <1>4, <1>5, <3>1, <3>2
  <2> QED
    BY <2>1, <2>2
<1> QED
  BY <1>9, <1>10 DEF Ordered, n, w

(* Like an entry, like an unused block.                                    *)
LEMMA LikeEntry ==
  ASSUME NEW b \in Plain, NEW c \in Plain, Like(b, c)
  PROVE  /\ b \in Entry <=> c \in Entry
         /\ b.kind = "entry" <=> c \in Entry
         /\ c \in Entry => b.id = c.id /\ b.first = c.first /\ b.last = c.last
<1>1. b \in Block /\ c \in Block
  BY Kinds
<1> QED
  BY <1>1, Kinds DEF Like

(* Of a header with the entries of a sound image, those of the partitions  *)
(* get a handle.                                                           *)
LEMMA PartitionsGetHandles ==
  ASSUME NEW i, Parsed(i), Sound(i), NEW h \in Header, h.cnt = i.sec.cnt,
         h.first = 2 + MaxParts, h.last = LastUsableLba, Len(h.acrc) = h.cnt,
         \A k \in 1 .. h.cnt : Like(h.acrc[k], Wanted(i)[k])
  PROVE  /\ \A k \in 1 .. h.cnt : GetsHandle(h, k) <=> k \in 1 .. TotalPart(i)
         /\ \A k \in 1 .. TotalPart(i) :
              /\ k \in 1 .. h.cnt
              /\ h.acrc[k].id = Wanted(i)[k].id /\ h.acrc[k].first = Wanted(i)[k].first
              /\ h.acrc[k].last = Wanted(i)[k].last
<1> DEFINE n == TotalPart(i)
           w == Wanted(i)
           a == h.acrc
           c == h.cnt
<1>1. /\ n \in 1 .. c /\ c \in 0 .. MaxParts
      /\ \A k \in 1 .. MaxParts : /\ w[k] \in Plain
                                  /\ k \in 1 .. n => w[k] \in Entry
                                  /\ k \notin 1 .. n => w[k] = Zero
  BY WantedFacts
<1>2. Ordered(w, n, 2 + MaxParts)
  BY WantedOrdered
<1>3. \A k \in 1 .. c : a[k] \in Plain /\ Like(a[k], w[k])
  BY HeaderFields
<1> HIDE DEF n, w, a, c
<1>4. /\ \A k \in 1 .. c : k \in 1 .. MaxParts
      /\ \A k \in 1 .. n : k \in 1 .. c
      /\ n \in Nat /\ c \in Nat
  BY <1>1, Layout
<1>5. Zero \notin Entry
  BY DEF Zero, Entry
<1>6. ASSUME NEW k \in 1 .. c
      PROVE  /\ a[k].kind = "entry" <=> k \in 1 .. n
             /\ k \in 1 .. n => /\ w[k] \in Entry /\ a[k].id = w[k].id
                                /\ a[k].first = w[k].first /\ a[k].last = w[k].last
  <2>1. w[k] \in Plain /\ (w[k] \in Entry <=> k \in 1 .. n)
    BY <1>1, <1>4, <1>5
  <2> QED
    BY <1>3, <2>1, LikeEntry
<1>7. ASSUME NEW k \in 1 .. n
      PROVE  /\ a[k].first = w[k].first /\ a[k].last = w[k].last
             /\ w[k].first \in Nat /\ w[k].last \in Nat
             /\ 2 + MaxParts <= w[k].first /\ w[k].first <= w[k].last
             /\ w[k].last <= LastUsableLba
             /\ \A j \in 1 .. n : j < k => w[j].last < w[k].first
  <2>1. w[k] \in Entry /\ a[k].first = w[k].first /\ a[k].last = w[k].last
    BY <1>4, <1>6
  <2>2. w[k].first \in Nat /\ w[k].last \in Nat
    BY <2>1 DEF Entry
  <2> QED
    BY <1>2, <2>1, <2>2 DEF Ordered
<1>8. ASSUME NEW k \in 1 .. c
      PROVE  GetsHandle(h, k) <=> k \in 1 .. n
  <2>1. CASE k \notin 1 .. n
    <3>1. ~InUse(h, k)
      BY <1>6, <2>1 DEF InUse, a
    <3> QED
      BY <2>1, <3>1 DEF GetsHandle
  <2>2. CASE k \in 1 .. n
    <3>1. InUse(h, k)
      BY <1>6, <2>2 DEF InUse, a
    <3>2. InRange(h, k)
      <4>1. a[k].first <= a[k].last /\ a[k].first >= 2 + MaxParts /\ a[k].last <= LastUsableLba
        BY <1>7, <2>2, Layout
      <4> QED
        BY <4>1 DEF InRange, a
    <3>3. ASSUME NEW j \in (1 .. c) \ {k}, InUse(h, j) PROVE ~Overlap(h, j, k)
      <4>1. j \in 1 .. n
        BY <1>6, <3>3 DEF InUse, a
      <4>2. CASE j < k
        <5>1. a[j].last < a[k].first /\ a[j].last \in Nat /\ a[k].first \in Nat
          BY <1>7, <2>2, <4>1, <4>2
        <5>2. ~(a[j].last >= a[k].first)
          BY <5>1
        <5> QED
          BY <5>2 DEF Overlap, a
      <4>3. CASE k < j
        <5>1. a[k].last < a[j].first /\ a[k].last \in Nat /\ a[j].first \in Nat
          BY <1>7, <2>2, <4>1, <4>3
        <5>2. ~(a[j].first <= a[k].last)
          BY <5>1
        <5> QED
          BY <5>2 DEF Overlap, a
      <4>4. j < k \/ k < j
        BY <1>4, <2>2, <3>3, <4>1
      <4> QED
        BY <4>2, <4>3, <4>4
    <3> QED
      BY <2>2, <3>1, <3>2, <3>3 DEF GetsHandle, c
  <2> QED
    BY <2>1, <2>2
<1>9. \A k \in 1 .. n : /\ k \in 1 .. c /\ a[k].id = w[k].id
                        /\ a[k].first = w[k].first /\ a[k].last = w[k].last
  BY <1>4, <1>6
<1> QED
  BY <1>8, <1>9 DEF n, w, a, c

LEMMA FoundExtents ==
  ASSUME NEW d, NEW i, Sane(d), Shaped(d, i), Parsed(i), Sound(i)
  PROVE  Extents(Enumerated(d)) = Expected(i)
<1> DEFINE h == PrimaryHeader(d)
           n == TotalPart(i)
           w == Wanted(i)
           t == Handles(h)
           X(k) == [id |-> i.parts[k].id, first |-> i.parts[k].first,
                    last |-> IF k = n THEN LastUsableLba ELSE i.parts[k].last]
<1>0. /\ d[1] \in Header /\ d[1].size = GPT_HEADER_SIZE /\ d[1].crc = GPT_HEADER_SIZE
      /\ d[1].my = 1 /\ d[1].entries = 2 /\ d[1].cnt = i.sec.cnt
      /\ d[1].first = 2 + MaxParts /\ d[1].last = LastUsableLba
      /\ \A k \in 1 .. i.sec.cnt : d[(2 + k) - 1] \in Plain /\ Like(d[(2 + k) - 1], w[k])
      /\ d[0] = Mbr /\ (Valid1(d) \/ Valid2(d))
  BY DEF Shaped, Primary, CopyHead, Body
<1>0a. i.sec.cnt \in Nat /\ i.sec.cnt <= MaxParts
  BY TotalPartBound
<1>0b. ValidHeader(d, 1)
  <2>1. GPT_HEADER_SIZE <= BlkSz
    BY GptAssumption DEF GPT_HEADER_SIZE
  <2>2. InDevice(2, i.sec.cnt)
    BY <1>0a, Layout DEF InDevice
  <2> QED
    BY <1>0, <2>1, <2>2, Places, HeaderFields DEF ValidHeader
<1>1. /\ h \in Header /\ h.cnt = i.sec.cnt /\ h.first = 2 + MaxParts /\ h.last = LastUsableLba
      /\ Len(h.acrc) = h.cnt /\ \A k \in 1 .. h.cnt : Like(h.acrc[k], w[k])
  <2> HIDE DEF h, w
  <2>1. /\ h \in Header /\ Len(h.acrc) = h.cnt /\ h.cnt = d[1].cnt
        /\ h.first = d[1].first /\ h.last = d[1].last
        /\ \A k \in 1 .. h.cnt :
             LET b == d[(d[1].entries + k) - 1]
             IN  h.acrc[k] = IF b.kind = "entry" THEN b ELSE Zero
    BY <1>0b, PrimaryHeaderFacts DEF h
  <2>2. ASSUME NEW k \in 1 .. i.sec.cnt PROVE Like(h.acrc[k], w[k])
    <3> DEFINE b == d[(2 + k) - 1]
    <3>1. b \in Plain /\ Like(b, w[k]) /\ h.acrc[k] = IF b.kind = "entry" THEN b ELSE Zero
      BY <1>0, <2>1
    <3>2. b.kind \in {"entry", "zero"} /\ Zero.kind = "zero"
      BY <3>1, Kinds DEF Zero
    <3> HIDE DEF b
    <3> QED
      BY <3>1, <3>2 DEF Like
  <2> QED
    BY <1>0, <2>1, <2>2
<1>2. Enumerated(d) = t
  BY <1>0, <1>0b DEF Enumerated, Valid1, Valid2
<1>3. HandlesOf(t, h, h.cnt)
  BY <1>1, HandlesFacts
<1> HIDE DEF h, t, n, w
<1>4. /\ \A k \in 1 .. h.cnt : GetsHandle(h, k) <=> k \in 1 .. n
      /\ \A k \in 1 .. n : /\ k \in 1 .. h.cnt /\ h.acrc[k].id = w[k].id
                           /\ h.acrc[k].first = w[k].first /\ h.acrc[k].last = w[k].last
  BY <1>1, PartitionsGetHandles DEF n, w
<1>5. \A k \in 1 .. n : /\ w[k].id = i.parts[k].id /\ w[k].first = i.parts[k].first
                        /\ w[k].last = IF k = n THEN LastUsableLba ELSE i.parts[k].last
  BY WantedFacts DEF n, w
<1>6. \A k \in 1 .. n : Extent(h.acrc[k]) = X(k)
  BY <1>4, <1>5 DEF Extent
<1>7. Expected(i) = {X(k) : k \in 1 .. n}
  <2>1. Used(i) = 1 .. n
    BY WantedFacts DEF n
  <2> QED
    BY <2>1 DEF Expected, n
<1>8. Extents(t) = {Extent(t[m]) : m \in 1 .. Len(t)}
  BY DEF Extents
<1> HIDE DEF X
<1>9. ASSUME NEW m \in 1 .. Len(t) PROVE Extent(t[m]) \in {X(k) : k \in 1 .. n}
  <2>1. PICK k \in 1 .. h.cnt : GetsHandle(h, k) /\ t[m] = h.acrc[k]
    BY <1>3 DEF HandlesOf
  <2>2. k \in 1 .. n
    BY <1>4, <2>1
  <2> QED
    BY <1>6, <2>1, <2>2
<1>10. ASSUME NEW k \in 1 .. n PROVE X(k) \in {Extent(t[m]) : m \in 1 .. Len(t)}
  <2>1. k \in 1 .. h.cnt /\ GetsHandle(h, k)
    BY <1>4
  <2>2. PICK m \in 1 .. Len(t) : t[m] = h.acrc[k]
    BY <1>3, <2>1 DEF HandlesOf
  <2> QED
    BY <1>6, <2>2
<1>11. {Extent(t[m]) : m \in 1 .. Len(t)} = {X(k) : k \in 1 .. n}
  <2>1. \A y \in {Extent(t[m]) : m \in 1 .. Len(t)} : y \in {X(k) : k \in 1 .. n}
    BY <1>9
  <2>2. \A y \in {X(k) : k \in 1 .. n} : y \in {Extent(t[m]) : m \in 1 .. Len(t)}
    BY <1>10
  <2> QED
    BY <2>1, <2>2
<1> QED
  BY <1>2, <1>7, <1>8, <1>11

-----------------------------------------------------------------------------
(* The driver's repair of a kept table.                                    *)

HeadOf(d, i, lba) == CopyHead(d, i, lba, Other(lba), Place(lba))

LEMMA HeadPlaces ==
  ASSUME NEW d, NEW i
  PROVE  /\ Primary(d, i) <=> HeadOf(d, i, 1) /\ Body(d, i, Place(1))
         /\ BackupHead(d, i) <=> HeadOf(d, i, NumSectors - 1)
         /\ Place(1) = 2 /\ Place(NumSectors - 1) = BackupLba
         /\ Other(1) = NumSectors - 1 /\ Other(NumSectors - 1) = 1
<1>1. NumSectors - 1 # 1
  BY Layout
<1> QED
  BY <1>1 DEF Primary, BackupHead, HeadOf, Other, Place

(* A valid copy with the header of i has the array of i.                   *)
LEMMA ValidBody ==
  ASSUME NEW d, Sane(d), NEW i, NEW lba \in {1, NumSectors - 1}, HeadOf(d, i, lba),
         ValidGptTable(d, lba)
  PROVE  Body(d, i, Place(lba))
<1> DEFINE h == d[lba]
           x == Place(lba)
<1>1. \A k \in 1 .. h.cnt : h.acrc[k] \in Plain /\ d[(h.entries + k) - 1] = h.acrc[k]
  BY OtherFacts, ValidPlain
<1>2. h.entries = x /\ h.cnt = i.sec.cnt /\ \A k \in 1 .. h.cnt : Like(h.acrc[k], Wanted(i)[k])
  BY DEF HeadOf, CopyHead
<1> HIDE DEF h, x
<1>3. \A k \in 1 .. i.sec.cnt : d[(x + k) - 1] \in Plain /\ Like(d[(x + k) - 1], Wanted(i)[k])
  BY <1>1, <1>2
<1> QED
  BY <1>3 DEF Body, x

(* A header of i is valid as soon as the array agrees with its checksum.   *)
LEMMA HeadValid ==
  ASSUME NEW d, Sane(d), NEW i, Parsed(i), NEW lba \in {1, NumSectors - 1}, HeadOf(d, i, lba),
         \A k \in 1 .. i.sec.cnt : d[(Place(lba) + k) - 1] = d[lba].acrc[k]
  PROVE  ValidGptTable(d, lba)
<1> DEFINE h == d[lba]
<1>1. /\ h \in Header /\ h.size = GPT_HEADER_SIZE /\ h.crc = GPT_HEADER_SIZE
      /\ h.my = lba /\ h.entries = Place(lba) /\ h.cnt = i.sec.cnt /\ Len(h.acrc) = h.cnt
  BY DEF HeadOf, CopyHead
<1>2. GPT_HEADER_SIZE <= BlkSz
  BY GptAssumption DEF GPT_HEADER_SIZE
<1>3. i.sec.cnt \in Nat /\ i.sec.cnt <= MaxParts
  BY TotalPartBound
<1>4. Place(lba) + i.sec.cnt <= NumSectors
  <2>1. Place(lba) = 2 \/ Place(lba) = BackupLba
    BY DEF Place
  <2> QED
    BY <1>3, <2>1, Layout
<1>5. lba \in LBAs
  BY OtherFacts
<1> QED
  BY <1>1, <1>2, <1>4, <1>5, ValidFacts

(* Only these blocks make a copy valid.                                    *)
LEMMA ValidSame ==
  ASSUME NEW d, Sane(d), NEW e, Sane(e), NEW lba \in {1, NumSectors - 1}, e[lba] = d[lba],
         d[lba].entries = Place(lba),
         \A k \in 1 .. MaxParts : e[(Place(lba) + k) - 1] = d[(Place(lba) + k) - 1],
         ValidGptTable(d, lba)
  PROVE  ValidGptTable(e, lba)
<1>0. lba \in LBAs
  BY OtherFacts
<1> DEFINE h == d[lba]
<1>1. /\ h \in Header /\ h.crc = h.size /\ h.size <= BlkSz
      /\ h.my = lba /\ h.entries + h.cnt <= NumSectors /\ Len(h.acrc) = h.cnt
      /\ \A k \in 1 .. h.cnt : d[(h.entries + k) - 1] = h.acrc[k]
  BY <1>0, ValidFacts
<1>2. h.cnt \in Nat /\ h.cnt <= MaxParts
  BY <1>0, ValidPlain
<1>3. \A k \in 1 .. h.cnt : e[(h.entries + k) - 1] = h.acrc[k]
  <2>1. \A k \in 1 .. h.cnt : k \in 1 .. MaxParts
    BY <1>2, Layout
  <2> QED
    BY <1>1, <2>1
<1> QED
  BY <1>0, <1>1, <1>3, ValidFacts

LEMMA BodySame ==
  ASSUME NEW d, NEW e, NEW i, Parsed(i), NEW lba \in {1, NumSectors - 1},
         \A k \in 1 .. MaxParts : e[(Place(lba) + k) - 1] = d[(Place(lba) + k) - 1],
         Body(d, i, Place(lba))
  PROVE  Body(e, i, Place(lba))
<1>1. \A k \in 1 .. i.sec.cnt : k \in 1 .. MaxParts
  BY TotalPartBound, Layout
<1> QED
  BY <1>1 DEF Body

LEMMA HeadRestored ==
  ASSUME NEW d, Sane(d), NEW i, Parsed(i), NEW lba \in {1, NumSectors - 1},
         ValidGptTable(d, lba), HeadOf(d, i, lba), NEW r, r = RestoreHeader(d, lba)
  PROVE  /\ Sane(r) /\ r[0] = d[0] /\ r[lba] = d[lba] /\ r[Other(lba)].acrc = d[lba].acrc
         /\ HeadOf(r, i, lba) /\ HeadOf(r, i, Other(lba)) /\ ValidGptTable(r, lba)
         /\ \A b \in Inner : r[b] = d[b]
<1> DEFINE to == Other(lba)
<1>1. HeadCopied(d, r, lba) /\ Sane(r)
  BY RestoreHeaderFacts
<1>2. lba \in LBAs /\ to \in LBAs /\ to # lba /\ to # 0 /\ to \notin Inner /\ Other(to) = lba
      /\ to \in {1, NumSectors - 1} /\ 0 \in LBAs /\ Inner \subseteq LBAs
  BY OtherFacts, Places, HeadPlaces
<1>3. r[0] = d[0] /\ r[lba] = d[lba] /\ \A b \in Inner : r[b] = d[b]
  BY <1>1, <1>2 DEF HeadCopied
<1>4. HeadOf(r, i, lba)
  BY <1>3 DEF HeadOf, CopyHead
<1>5. HeadOf(r, i, to) /\ r[to].acrc = d[lba].acrc
  <2> DEFINE h == d[lba]
             g == r[to]
  <2>1. /\ h.size = GPT_HEADER_SIZE /\ h.cnt = i.sec.cnt /\ h.first = 2 + MaxParts
        /\ h.last = LastUsableLba /\ Len(h.acrc) = h.cnt
        /\ \A k \in 1 .. h.cnt : Like(h.acrc[k], Wanted(i)[k])
    BY DEF HeadOf, CopyHead
  <2>2. /\ g \in Header /\ g.size = h.size /\ g.crc = h.size /\ g.my = to
        /\ g.alt = lba /\ g.entries = Place(to) /\ g.cnt = h.cnt
        /\ g.first = h.first /\ g.last = h.last /\ g.acrc = h.acrc
    BY <1>1 DEF HeadCopied
  <2> HIDE DEF h, g
  <2>3. /\ g \in Header /\ g.size = GPT_HEADER_SIZE /\ g.crc = GPT_HEADER_SIZE
        /\ g.my = to /\ g.alt = lba /\ g.entries = Place(to) /\ g.cnt = i.sec.cnt
        /\ g.first = 2 + MaxParts /\ g.last = LastUsableLba
        /\ Len(g.acrc) = g.cnt /\ \A k \in 1 .. g.cnt : Like(g.acrc[k], Wanted(i)[k])
    BY <2>1, <2>2
  <2> QED
    BY <1>2, <2>2, <2>3 DEF HeadOf, CopyHead, h, g
<1>6. ValidGptTable(r, lba)
  <2>1. \A k \in 1 .. MaxParts : (Place(lba) + k) - 1 \in Inner
    BY OtherFacts
  <2>2. d[lba].entries = Place(lba)
    BY DEF HeadOf, CopyHead
  <2> QED
    BY <1>1, <1>3, <2>1, <2>2, ValidSame
<1> QED
  BY <1>1, <1>3, <1>4, <1>5, <1>6

(* Some of the array is copied: the copy it comes from stays valid, and    *)
(* both are in shape.                                                      *)
LEMMA SomeRestored ==
  ASSUME NEW d, Sane(d), NEW i, Parsed(i), NEW lba \in {1, NumSectors - 1},
         ValidGptTable(d, lba), HeadOf(d, i, lba),
         Body(d, i, Place(Other(lba))), NEW e, NEW n \in Nat, n <= d[lba].cnt,
         BodyCopied(d, RestoreHeader(d, lba), e, lba, n), Sane(e)
  PROVE  /\ e[0] = d[0] /\ HeadOf(e, i, lba) /\ HeadOf(e, i, Other(lba))
         /\ Body(e, i, Place(lba)) /\ Body(e, i, Place(Other(lba)))
         /\ ValidGptTable(e, lba)
         /\ n = d[lba].cnt => ValidGptTable(e, Other(lba))
<1> DEFINE to == Other(lba)
           r == RestoreHeader(d, lba)
           c == i.sec.cnt
           x == Place(to)
           y == Place(lba)
<1>1. /\ Sane(r) /\ r[0] = d[0] /\ r[lba] = d[lba] /\ r[to].acrc = d[lba].acrc
      /\ HeadOf(r, i, lba) /\ HeadOf(r, i, to) /\ ValidGptTable(r, lba)
      /\ \A b \in Inner : r[b] = d[b]
  BY HeadRestored
<1>2. d[lba].cnt = c /\ d[lba].entries = y /\ c \in Nat /\ c <= MaxParts /\ n <= c
  BY TotalPartBound DEF HeadOf, CopyHead
<1>3. /\ \A b \in LBAs : ~(x <= b /\ b < x + n) => e[b] = r[b]
      /\ \A k \in 1 .. n : e[(x + k) - 1] = r[(y + k) - 1]
  BY <1>2 DEF BodyCopied
<1>4. /\ lba \in LBAs /\ to \in LBAs /\ to \in {1, NumSectors - 1}
      /\ \A k \in 1 .. MaxParts : /\ (y + k) - 1 \in LBAs /\ (y + k) - 1 \in Inner
                                  /\ (x + k) - 1 \in LBAs /\ (x + k) - 1 \in Inner
  BY OtherFacts
<1>5. (x = 2 /\ y = BackupLba) \/ (x = BackupLba /\ y = 2)
  BY HeadPlaces
<1>6. \A b \in {0, lba, to} : b \in LBAs /\ ~(x <= b /\ b < x + n)
  <2>1. \A b \in {0, lba, to} : b = 0 \/ b = 1 \/ b = NumSectors - 1
    BY <1>4
  <2> HIDE DEF x, y, c, to
  <2>2. CASE x = 2
    BY <1>2, <2>1, <2>2, Layout
  <2>3. CASE x = BackupLba
    BY <1>2, <2>1, <2>3, Layout
  <2> QED
    BY <1>5, <2>2, <2>3
<1>6a. Body(d, i, x)
  OBVIOUS
<1> HIDE DEF to, r, c, x, y
<1>7. \A k \in 1 .. MaxParts : ~(x <= (y + k) - 1 /\ (y + k) - 1 < x + n)
  BY <1>2, <1>5, Layout, SMTT(30)
<1>8. e[0] = d[0] /\ e[lba] = r[lba] /\ e[to] = r[to]
  BY <1>1, <1>3, <1>6
<1>9. \A k \in 1 .. MaxParts : e[(y + k) - 1] = r[(y + k) - 1]
  BY <1>3, <1>4, <1>7
<1>10. HeadOf(e, i, lba) /\ HeadOf(e, i, to)
  BY <1>1, <1>8 DEF HeadOf, CopyHead
<1>11. ValidGptTable(e, lba)
  BY <1>1, <1>2, <1>8, <1>9, ValidSame DEF y
<1>12. Body(e, i, y) /\ Body(r, i, y)
  BY <1>1, <1>10, <1>11, ValidBody DEF y
<1>13. \A k \in 1 .. c : k \in 1 .. MaxParts
  BY <1>2, Layout
<1>14. Body(e, i, x)
  <2>1. ASSUME NEW k \in 1 .. c
        PROVE  e[(x + k) - 1] \in Plain /\ Like(e[(x + k) - 1], Wanted(i)[k])
    <3>1. CASE k \in 1 .. n
      <4>1. e[(x + k) - 1] = r[(y + k) - 1]
        BY <1>3, <3>1
      <4> QED
        BY <1>12, <4>1 DEF Body, c
    <3>2. CASE k \notin 1 .. n
      <4>1. (x + k) - 1 \in LBAs /\ (x + k) - 1 \in Inner
        BY <1>4, <1>13
      <4>2. ~(x <= (x + k) - 1 /\ (x + k) - 1 < x + n)
        BY <1>2, <1>5, <3>2, Layout
      <4>3. e[(x + k) - 1] = d[(x + k) - 1]
        BY <1>1, <1>3, <4>1, <4>2
      <4> QED
        BY <1>6a, <4>3 DEF Body, c
    <3> QED
      BY <3>1, <3>2
  <2> QED
    BY <2>1 DEF Body, c
<1>15. ASSUME n = d[lba].cnt PROVE ValidGptTable(e, to)
  <2>1. \A k \in 1 .. c : r[(y + k) - 1] = d[lba].acrc[k]
    <3>1. \A k \in 1 .. d[lba].cnt : d[(d[lba].entries + k) - 1] = d[lba].acrc[k]
      BY <1>4, ValidPlain
    <3> QED
      BY <1>1, <1>2, <1>4, <1>13, <3>1
  <2>2. \A k \in 1 .. c : e[(x + k) - 1] = e[to].acrc[k]
    BY <1>1, <1>2, <1>3, <1>8, <1>15, <2>1
  <2> QED
    BY <1>4, <1>10, <2>2, HeadValid DEF c, x
<1> QED
  BY <1>8, <1>10, <1>11, <1>12, <1>14, <1>15 DEF to, x, y

LEMMA ShapedValid ==
  ASSUME NEW d, Sane(d), NEW i, Backup(d, i), Valid2(d)
  PROVE  BackupHead(d, i)
<1>1. d[NumSectors - 1].my = NumSectors - 1 /\ NumSectors - 1 # 1
  BY ValidPlain, Places, Layout DEF Valid2
<1> QED
  BY <1>1 DEF Backup

(* Both copies have the header and the array of i, and one is valid.       *)
LEMMA TwoCopies ==
  ASSUME NEW d, NEW i, d[0] = Mbr, HeadOf(d, i, 1), HeadOf(d, i, NumSectors - 1),
         Body(d, i, Place(1)), Body(d, i, Place(NumSectors - 1)),
         ValidGptTable(d, 1) \/ ValidGptTable(d, NumSectors - 1)
  PROVE  Shaped(d, i)
<1>1. Primary(d, i) /\ BackupHead(d, i) /\ Body(d, i, BackupLba)
  BY HeadPlaces
<1>2. d[NumSectors - 1] \in Header
  BY <1>1 DEF BackupHead, CopyHead
<1> QED
  BY <1>1, <1>2 DEF Shaped, Backup, Valid1, Valid2

(* The driver's repair makes two of one, or leaves one if it is cut short. *)
LEMMA RepairedShaped ==
  ASSUME NEW d, Sane(d), NEW i, Parsed(i), Shaped(d, i),
         NEW e \in {Repaired(d)} \cup PartlyRepaired(d)
  PROVE  /\ Sane(e) /\ Shaped(e, i)
         /\ e = Repaired(d) => Valid1(e) /\ Valid2(e)
         /\ Valid1(d) => Valid1(e)
<1>1. /\ d[0] = Mbr /\ Primary(d, i) /\ Backup(d, i) /\ (Valid1(d) \/ Valid2(d))
      /\ HeadOf(d, i, 1) /\ Body(d, i, Place(1)) /\ Body(d, i, Place(NumSectors - 1))
  BY HeadPlaces DEF Shaped, Backup
<1>2. Valid2(d) => HeadOf(d, i, NumSectors - 1)
  BY <1>1, ShapedValid, HeadPlaces
<1>3. CASE RestoreFrom(d) = 0
  <2>1. Valid1(d) /\ Valid2(d)
    BY <1>1, <1>3, RestoreFromFacts
  <2>2. e = d
    BY <1>3 DEF Repaired, PartlyRepaired
  <2> QED
    BY <2>1, <2>2
<1>4. CASE RestoreFrom(d) # 0
  <2> DEFINE f == RestoreFrom(d)
             r == RestoreHeader(d, f)
  <2>1. f \in {1, NumSectors - 1} /\ ValidGptTable(d, f) /\ (Valid1(d) => f = 1)
    BY <1>4, RestoreFromFacts DEF Valid1, Valid2
  <2>2. HeadOf(d, i, f)
    BY <1>1, <1>2, <2>1 DEF Valid2
  <2>3. Repaired(d) = Restore(d, f) /\ (e = Restore(d, f) \/ e \in RestoreSome(d, f))
    BY <1>4 DEF Repaired, PartlyRepaired
  <2>4. (f = 1 /\ Other(f) = NumSectors - 1) \/ (f = NumSectors - 1 /\ Other(f) = 1)
    BY <2>1, HeadPlaces
  <2>5. Body(d, i, Place(Other(f)))
    BY <1>1, <2>4
  <2> HIDE DEF f
  <2>6. ASSUME NEW n \in Nat, n <= d[f].cnt, BodyCopied(d, r, e, f, n), Sane(e)
        PROVE  /\ Shaped(e, i) /\ ValidGptTable(e, f)
               /\ n = d[f].cnt => Valid1(e) /\ Valid2(e)
    <3>1. /\ e[0] = d[0] /\ HeadOf(e, i, f) /\ HeadOf(e, i, Other(f))
          /\ Body(e, i, Place(f)) /\ Body(e, i, Place(Other(f)))
          /\ ValidGptTable(e, f) /\ (n = d[f].cnt => ValidGptTable(e, Other(f)))
      BY <2>1, <2>2, <2>5, <2>6, SomeRestored
    <3>2. Shaped(e, i)
      BY <1>1, <2>4, <3>1, TwoCopies
    <3> QED
      BY <2>4, <3>1, <3>2 DEF Valid1, Valid2
  <2>7. CASE e = Restore(d, f)
    <3>1. BodyCopied(d, r, e, f, d[f].cnt) /\ Sane(e) /\ d[f].cnt \in Nat /\ d[f].cnt <= d[f].cnt
      BY <2>1, <2>7, RestoreFacts
    <3>2. Shaped(e, i) /\ Valid1(e) /\ Valid2(e)
      BY <2>6, <3>1
    <3> QED
      BY <3>1, <3>2
  <2>8. CASE e \in RestoreSome(d, f) /\ e # Restore(d, f)
    <3>1. CASE e = d
      BY <2>3, <2>8, <3>1
    <3>2. CASE /\ Sane(e)
               /\ \E n \in Nat : n <= d[f].cnt /\ BodyCopied(d, r, e, f, n)
      <4>1. Shaped(e, i) /\ ValidGptTable(e, f)
        BY <2>6, <3>2
      <4> QED
        BY <2>1, <2>3, <2>8, <3>2, <4>1 DEF Valid1
    <3> QED
      BY <2>1, <2>8, <3>1, <3>2, SomeFacts
  <2> QED
    BY <2>3, <2>7, <2>8
<1> QED
  BY <1>3, <1>4

-----------------------------------------------------------------------------
(* An attribute update of a kept table.                                    *)

UpdateOf(d, e, lba, g, a) ==
  Reheaded(d[lba], g, a) /\ Realigned(d, Place(lba), a) /\ Touched(d, e, lba, g, a)

LEMMA TouchedBody ==
  ASSUME NEW d, NEW e, NEW i, NEW lba, NEW g, NEW a, lba \in {1, NumSectors - 1}, Parsed(i),
         UpdateOf(d, e, lba, g, a), Body(d, i, Place(lba))
  PROVE  /\ Body(e, i, Place(lba))
         /\ \A k \in 1 .. i.sec.cnt : Like(a[k], Wanted(i)[k])
<1> DEFINE x == Place(lba)
<1>1. \A k \in 1 .. i.sec.cnt : k \in 1 .. MaxParts
  BY TotalPartBound, Layout, SMTT(30)
<1>2. \A k \in 1 .. i.sec.cnt :
        /\ d[(x + k) - 1] \in Plain /\ Like(d[(x + k) - 1], Wanted(i)[k])
        /\ a[k] \in Plain /\ Like(a[k], d[(x + k) - 1])
        /\ e[(x + k) - 1] = d[(x + k) - 1] \/ e[(x + k) - 1] = a[k]
  BY <1>1 DEF Body, UpdateOf, Realigned, Touched
<1>3. \A k \in 1 .. i.sec.cnt : Like(a[k], Wanted(i)[k])
  BY <1>2, LikeTrans
<1> QED
  BY <1>2, <1>3 DEF Body

LEMMA TouchedHead ==
  ASSUME NEW d, NEW e, NEW i, NEW lba, NEW g, NEW a, lba \in {1, NumSectors - 1}, Parsed(i),
         UpdateOf(d, e, lba, g, a), HeadOf(d, i, lba), Body(d, i, Place(lba))
  PROVE  HeadOf(e, i, lba)
<1>1. CASE e[lba] = d[lba]
  BY <1>1 DEF HeadOf, CopyHead
<1>2. CASE e[lba] = g
  <2> DEFINE h == d[lba]
  <2>1. \A k \in 1 .. i.sec.cnt : Like(a[k], Wanted(i)[k])
    BY TouchedBody
  <2>2. /\ h.size = GPT_HEADER_SIZE /\ h.my = lba /\ h.alt = Other(lba)
        /\ h.entries = Place(lba) /\ h.cnt = i.sec.cnt
        /\ h.first = 2 + MaxParts /\ h.last = LastUsableLba
    BY DEF HeadOf, CopyHead
  <2>3. /\ g \in Header /\ g.crc = GPT_HEADER_SIZE /\ g.size = h.size /\ g.my = h.my
        /\ g.alt = h.alt /\ g.first = h.first /\ g.last = h.last
        /\ g.entries = h.entries /\ g.cnt = h.cnt
        /\ Len(g.acrc) = g.cnt /\ \A k \in 1 .. g.cnt : g.acrc[k] = a[k]
    BY DEF UpdateOf, Reheaded
  <2> HIDE DEF h
  <2>4. \A k \in 1 .. g.cnt : Like(g.acrc[k], Wanted(i)[k])
    BY <2>1, <2>2, <2>3
  <2> QED
    BY <1>2, <2>2, <2>3, <2>4 DEF HeadOf, CopyHead
<1> QED
  BY <1>1, <1>2 DEF UpdateOf, Touched

(* The other copy, the block before both, and what the header at lba is.   *)
LEMMA TouchedElse ==
  ASSUME NEW d, NEW e, NEW lba \in {1, NumSectors - 1}, NEW g, NEW a,
         d[lba] \in Header, UpdateOf(d, e, lba, g, a)
  PROVE  /\ e[0] = d[0] /\ e[Other(lba)] = d[Other(lba)]
         /\ \A k \in 1 .. MaxParts :
              e[(Place(Other(lba)) + k) - 1] = d[(Place(Other(lba)) + k) - 1]
         /\ e[lba] \in Header /\ e[lba].my = d[lba].my /\ e[lba].cnt = d[lba].cnt
<1> DEFINE to == Other(lba)
           x == Place(lba)
           y == Place(to)
<1>1. \/ lba = 1 /\ to = NumSectors - 1 /\ x = 2 /\ y = BackupLba
      \/ lba = NumSectors - 1 /\ to = 1 /\ x = BackupLba /\ y = 2
  BY HeadPlaces
<1>2. \A b \in LBAs : b = lba \/ (x <= b /\ b < x + MaxParts) \/ e[b] = d[b]
  BY DEF UpdateOf, Touched
<1>3. e[lba] \in Header /\ e[lba].my = d[lba].my /\ e[lba].cnt = d[lba].cnt
  BY DEF UpdateOf, Touched, Reheaded
<1> HIDE DEF to, x, y
<1>4. 0 \in LBAs /\ to \in LBAs /\ 0 # lba /\ to # lba
      /\ ~(x <= 0 /\ 0 < x + MaxParts) /\ ~(x <= to /\ to < x + MaxParts)
  BY <1>1, Layout
<1>5. \A k \in 1 .. MaxParts :
        /\ (y + k) - 1 \in LBAs /\ (y + k) - 1 # lba
        /\ ~(x <= (y + k) - 1 /\ (y + k) - 1 < x + MaxParts)
  BY <1>1, Layout
<1>6. \A k \in 1 .. MaxParts : e[(y + k) - 1] = d[(y + k) - 1]
  BY <1>2, <1>5
<1> QED
  BY <1>2, <1>3, <1>4, <1>6 DEF to, y

StaysShaped(d, e, i, lba) ==
  /\ e[0] = Mbr /\ Primary(e, i) /\ Backup(e, i)
  /\ ValidGptTable(d, Other(lba)) => ValidGptTable(e, Other(lba))

LEMMA TouchedShaped ==
  ASSUME NEW d, NEW e, NEW i, NEW lba, NEW g, NEW a, lba \in {1, NumSectors - 1}, Parsed(i),
         UpdateOf(d, e, lba, g, a), Sane(d), Sane(e), Shaped(d, i), d[lba] \in Header
  PROVE  StaysShaped(d, e, i, lba)
<1>1. /\ d[0] = Mbr /\ HeadOf(d, i, 1) /\ Body(d, i, Place(1)) /\ Backup(d, i)
  BY HeadPlaces DEF Shaped
<1>2. /\ e[0] = d[0] /\ e[Other(lba)] = d[Other(lba)]
      /\ \A k \in 1 .. MaxParts :
           e[(Place(Other(lba)) + k) - 1] = d[(Place(Other(lba)) + k) - 1]
      /\ e[lba] \in Header /\ e[lba].my = d[lba].my /\ e[lba].cnt = d[lba].cnt
  BY TouchedElse
<1>3. Other(lba) \in {1, NumSectors - 1}
  BY OtherFacts
<1>4. ASSUME ValidGptTable(d, Other(lba)) PROVE ValidGptTable(e, Other(lba))
  <2>1. d[Other(lba)].entries = Place(Other(lba))
    <3>1. CASE Other(lba) = 1
      BY <1>1, <3>1 DEF HeadOf, CopyHead
    <3>2. CASE Other(lba) = NumSectors - 1
      <4>1. NumSectors - 1 \in LBAs /\ ValidGptTable(d, NumSectors - 1)
        BY <1>4, <3>2, Places
      <4>2. d[NumSectors - 1].entries = BackupLba
        BY <4>1, ValidPlain
      <4> QED
        BY <3>2, <4>2, HeadPlaces
    <3> QED
      BY <1>3, <3>1, <3>2
  <2> QED
    BY <1>2, <1>3, <1>4, <2>1, ValidSame
<1>5. CASE lba = 1
  <2>1. Other(lba) = NumSectors - 1 /\ Place(NumSectors - 1) = BackupLba
    BY <1>5, HeadPlaces
  <2>2. HeadOf(e, i, 1) /\ Body(e, i, Place(1))
    BY <1>1, <1>5, TouchedHead, TouchedBody
  <2>3. Body(d, i, BackupLba) => Body(e, i, BackupLba)
    BY <1>2, <2>1, BodySame
  <2>4. BackupHead(d, i) => BackupHead(e, i)
    BY <1>2, <2>1 DEF BackupHead, CopyHead
  <2>5. Backup(e, i)
    BY <1>1, <1>2, <2>1, <2>3, <2>4 DEF Backup
  <2> QED
    BY <1>1, <1>2, <1>4, <2>2, <2>5, HeadPlaces DEF StaysShaped
<1>6. CASE lba = NumSectors - 1
  <2>1. Other(lba) = 1 /\ Place(NumSectors - 1) = BackupLba
    BY <1>6, HeadPlaces
  <2>2. HeadOf(e, i, 1)
    BY <1>1, <1>2, <2>1 DEF HeadOf, CopyHead
  <2>3. Body(e, i, Place(1))
    BY <1>1, <1>2, <2>1, BodySame
  <2>4. Body(e, i, BackupLba)
    BY <1>1, <1>6, <2>1, TouchedBody DEF Backup
  <2>4a. BackupHead(d, i) => BackupHead(e, i)
    <3> SUFFICES ASSUME BackupHead(d, i) PROVE BackupHead(e, i)
      OBVIOUS
    <3>1. HeadOf(d, i, lba) /\ Body(d, i, Place(lba))
      BY <1>1, <1>6, <2>1, HeadPlaces DEF Backup
    <3>2. HeadOf(e, i, lba)
      BY <3>1, TouchedHead
    <3> QED
      BY <1>6, <2>1, <3>2, HeadPlaces
  <2>5. Backup(e, i)
    BY <1>1, <1>2, <1>6, <2>4, <2>4a DEF Backup
  <2> QED
    BY <1>1, <1>2, <1>4, <2>2, <2>3, <2>5, HeadPlaces DEF StaysShaped
<1> QED
  BY <1>5, <1>6

LEMMA ReplacedValid ==
  ASSUME NEW d, NEW e, NEW i, NEW lba, NEW g, NEW a, lba \in {1, NumSectors - 1}, Parsed(i),
         UpdateOf(d, e, lba, g, a), Sane(e), Replaced(e, lba, g, a),
         HeadOf(d, i, lba), Body(d, i, Place(lba))
  PROVE  ValidGptTable(e, lba)
<1>1. HeadOf(e, i, lba)
  BY TouchedHead
<1>2. \A k \in 1 .. i.sec.cnt : k \in 1 .. MaxParts
  BY TotalPartBound, Layout
<1>3. e[lba] = g /\ g.cnt = i.sec.cnt
  BY <1>1 DEF Replaced, HeadOf, CopyHead
<1>4. \A k \in 1 .. i.sec.cnt : e[(Place(lba) + k) - 1] = a[k] /\ g.acrc[k] = a[k]
  BY <1>2, <1>3 DEF Replaced, UpdateOf, Reheaded
<1>5. \A k \in 1 .. i.sec.cnt : e[(Place(lba) + k) - 1] = e[lba].acrc[k]
  BY <1>3, <1>4
<1> QED
  BY <1>1, <1>5, HeadValid

-----------------------------------------------------------------------------
(* A table that is kept stays so.                                          *)

LEMMA KeptFlashPartition ==
  ASSUME BaseInv, Kept, FlashPartition
  PROVE  Kept'
<1>1. /\ pc = "idle" /\ pc' \in {"erase", "dead", "idle"} /\ (pc' # "erase" => img' = img)
      /\ UNCHANGED <<disk, table, cut, single, stale>>
  BY DEF FlashPartition
<1>2. CASE cut \/ pc' = "erase"
  BY <1>1, <1>2 DEF Kept, Flashing
<1>3. CASE ~cut /\ pc' # "erase"
  <2>1. /\ Parsed(img) /\ Sound(img) /\ Shaped(disk, img)
        /\ ~single => Valid1(disk) /\ Valid2(disk)
        /\ ~stale => Extents(table) = Expected(img)
    BY <1>1, <1>3 DEF Kept, Flashing, Writing
  <2>2. disk' = disk /\ img' = img /\ table' = table /\ single' = single /\ stale' = stale
    BY <1>1, <1>3
  <2>3. /\ Parsed(img') /\ Sound(img') /\ Shaped(disk', img')
        /\ ~single' => Valid1(disk') /\ Valid2(disk')
        /\ ~stale' => Extents(table') = Expected(img')
    BY <2>1, <2>2
  <2>4. (pc' # "off") = TRUE /\ pc' # "refresh"
    BY <1>1
  <2> QED
    BY <2>3, <2>4 DEF Kept
<1> QED
  BY <1>2, <1>3

LEMMA KeptWriteGpt ==
  ASSUME WriteGpt \/ WriteGptFails
  PROVE  Kept'
  BY DEF WriteGpt, WriteGptFails, Kept

(* WriteGpt ends with a valid primary and the backup's header at LBA 1.    *)
LEMMA KeptFlush ==
  ASSUME BaseInv, Progress, Flush
  PROVE  Kept'
<1>1. /\ pc = "flush" /\ pc' \in {"refresh", "idle"} /\ (pc' = "idle" => stale')
      /\ cut' = ~Sound(img) /\ (Sound(img) => img' = img)
      /\ UNCHANGED <<disk, table, single>>
  BY DEF Flush
<1>2. CASE ~Sound(img)
  BY <1>1, <1>2 DEF Kept
<1>3. CASE Sound(img)
  <2> DEFINE i == img
             p == PatchGpt(i).prim
             q == PatchGpt(i).sec
             w == Wanted(i)
  <2>1. Parsed(i) /\ single /\ Sane(disk)
    BY <1>1 DEF BaseInv, Flows
  <2>2. /\ disk[0] = Mbr /\ disk[1] = p /\ disk[NumSectors - 1] = q
        /\ \A k \in 1 .. MaxParts : disk[1 + k] = w[k]
        /\ \A k \in 1 .. MaxParts : disk[(BackupLba + k) - 1] = w[k]
    BY <1>1, <1>3 DEF Progress
  <2>3. /\ p \in Header /\ p.size = i.prim.size /\ p.my = i.prim.my /\ p.first = i.prim.first
        /\ p.entries = i.prim.entries /\ p.cnt = i.prim.cnt
        /\ p.alt = NumSectors - 1 /\ p.last = LastUsableLba
        /\ p.crc = GPT_HEADER_SIZE /\ p.acrc = SubSeq(w, 1, i.sec.cnt)
        /\ q \in Header /\ q.my = 1 /\ q.cnt = i.sec.cnt
    BY <2>1, PatchFacts
  <2>4. /\ i.prim.my = 1 /\ i.prim.size = GPT_HEADER_SIZE /\ i.prim.entries = 2
        /\ i.prim.cnt = i.sec.cnt /\ i.prim.first = 2 + MaxParts
    BY <1>3 DEF Sound
  <2>5. /\ w \in Array /\ i.sec.cnt \in 0 .. MaxParts
        /\ \A k \in 1 .. MaxParts : w[k] \in Plain
    BY <1>3, <2>1, WantedFacts
  <2> HIDE DEF i, p, q, w
  <2>6. Len(p.acrc) = i.sec.cnt /\ \A k \in 1 .. i.sec.cnt : p.acrc[k] = w[k]
    BY <2>3, <2>5, ArraySeq, ArrayPlain
  <2>7. \A k \in 1 .. i.sec.cnt : Like(p.acrc[k], w[k])
    BY <2>6, LikeRefl
  <2>8. \A k \in 1 .. i.sec.cnt : k \in 1 .. MaxParts /\ (2 + k) - 1 = 1 + k
    BY <2>5, Layout
  <2>9. \A k \in 1 .. i.sec.cnt : disk[(2 + k) - 1] = w[k] /\ w[k] \in Plain /\ Like(w[k], w[k])
    BY <2>2, <2>5, <2>8, LikeRefl
  <2>10. CopyHead(disk, i, 1, NumSectors - 1, 2)
    BY <2>2, <2>3, <2>4, <2>6, <2>7 DEF CopyHead, w
  <2>11. Body(disk, i, 2)
    BY <2>9 DEF Body, w
  <2>12. Primary(disk, i) /\ HeadOf(disk, i, 1) /\ Place(1) = 2
    BY <2>10, <2>11, HeadPlaces DEF Primary
  <2>13. Valid1(disk)
    <3>1. \A k \in 1 .. i.sec.cnt : disk[(Place(1) + k) - 1] = disk[1].acrc[k]
      BY <2>2, <2>6, <2>9, <2>12
    <3>2. Parsed(i)
      BY <2>1
    <3> QED
      BY <2>1, <2>12, <3>1, <3>2, HeadValid DEF Valid1
  <2>14. Backup(disk, i)
    <3>1. \A k \in 1 .. i.sec.cnt : /\ disk[(BackupLba + k) - 1] = w[k]
                                    /\ w[k] \in Plain /\ Like(w[k], w[k])
      BY <2>2, <2>8, <2>9
    <3>2. Body(disk, i, BackupLba)
      BY <3>1 DEF Body, w
    <3> QED
      BY <2>2, <2>3, <3>2 DEF Backup
  <2>15. Shaped(disk, i)
    BY <2>2, <2>12, <2>13, <2>14 DEF Shaped
  <2>16. /\ Parsed(img') /\ Sound(img') /\ Shaped(disk', img') /\ Valid1(disk')
         /\ single' = single
    BY <1>1, <1>3, <2>1, <2>13, <2>15 DEF i
  <2>17. pc' \notin Updating
    BY <1>1 DEF Updating
  <2>18. single' /\ (pc' = "idle" => stale')
    BY <1>1, <2>1, <2>16
  <2> QED
    BY <2>16, <2>17, <2>18 DEF Kept
<1> QED
  BY <1>2, <1>3

(* What Kept says, and how it is shown of a next state.                    *)
Good(d, i) == Parsed(i) /\ Sound(i) /\ Shaped(d, i)

Whole(d, s) == s \/ (Valid1(d) /\ Valid2(d))

LEMMA KeptHere ==
  ASSUME Kept, ~cut, pc \notin Flashing
  PROVE  /\ Good(disk, img) /\ (pc # "off" => Whole(disk, single))
         /\ pc = "refresh" => Valid1(disk)
         /\ ~stale /\ pc \in {"idle"} \cup Updating => Extents(table) = Expected(img)
  BY DEF Kept, Good, Whole

LEMMA KeptThere ==
  ASSUME ~cut' /\ pc' \notin Flashing =>
           /\ Good(disk', img') /\ (pc' # "off" => Whole(disk', single'))
           /\ pc' = "refresh" => Valid1(disk')
           /\ ~stale' /\ pc' \in {"idle"} \cup Updating => Extents(table') = Expected(img')
  PROVE  Kept'
  BY DEF Kept, Good, Whole

LEMMA FlipExtents ==
  ASSUME NEW t \in Seq(Entry), NEW n \in 1 .. Len(t)
  PROVE  Extents(Flip(t, n)) = Extents(t)
<1> DEFINE u == Flip(t, n)
<1>1. Len(u) = Len(t) /\ \A k \in 1 .. Len(t) : Extent(u[k]) = Extent(t[k])
  BY FlipFacts
<1> HIDE DEF u
<1>2. Extents(u) = {Extent(u[k]) : k \in 1 .. Len(t)} /\ Extents(t) = {Extent(t[k]) : k \in 1 .. Len(t)}
  BY <1>1 DEF Extents
<1>3. Extents(u) = Extents(t)
  BY <1>1, <1>2
<1> QED
  BY <1>3 DEF u

LEMMA KeptSetAttribute ==
  ASSUME BaseInv, Kept, SetAttribute
  PROVE  Kept'
<1>1. /\ pc = "idle" /\ pc' = "update"
      /\ UNCHANGED <<disk, img, cut, single, stale>>
  BY DEF SetAttribute
<1>2. PICK n \in 1 .. Len(table) : table' = Flip(table, n)
  BY DEF SetAttribute
<1>3. Extents(table') = Extents(table)
  BY <1>2, FlipExtents DEF BaseInv, TypeOK
<1> SUFFICES ASSUME ~cut' PROVE /\ Good(disk', img') /\ Whole(disk', single')
                                /\ ~stale' => Extents(table') = Expected(img')
  BY <1>1, KeptThere
<1>4. /\ Good(disk, img) /\ Whole(disk, single)
      /\ ~stale => Extents(table) = Expected(img)
  BY <1>1, KeptHere DEF Flashing, Writing
<1> QED
  BY <1>1, <1>3, <1>4

LEMMA KeptLeave ==
  ASSUME BaseInv, Kept, Leave
  PROVE  Kept'
<1>1. /\ pc \in {"idle", "dead"} /\ pc' = "off" /\ UNCHANGED <<disk, img, cut, single>>
  BY DEF Leave, Off
<1> SUFFICES ASSUME ~cut' PROVE Good(disk', img')
  <2>1. pc' # "refresh" /\ pc' \notin {"idle"} \cup Updating
    BY <1>1 DEF Updating
  <2> QED
    BY <1>1, <2>1, KeptThere
<1>2. Good(disk, img)
  BY <1>1, KeptHere DEF Flashing, Writing
<1> QED
  BY <1>1, <1>2

(* The driver's work on a kept table, whether it succeeds or not.          *)
LEMMA GoodRepaired ==
  ASSUME NEW d, Sane(d), NEW i, Good(d, i), NEW e \in {Repaired(d)} \cup PartlyRepaired(d)
  PROVE  /\ Sane(e) /\ Good(e, i) /\ Whole(e, e # Repaired(d))
         /\ Extents(Enumerated(e)) = Expected(i)
<1>1. Parsed(i) /\ Sound(i) /\ Shaped(d, i)
  BY DEF Good
<1>2. Sane(e) /\ Shaped(e, i) /\ (e = Repaired(d) => Valid1(e) /\ Valid2(e))
  BY <1>1, RepairedShaped
<1>3. Extents(Enumerated(e)) = Expected(i)
  BY <1>1, <1>2, FoundExtents
<1> QED
  BY <1>1, <1>2, <1>3 DEF Good, Whole

(* Either way the table in memory is the one on the LUN.                   *)
LEMMA KeptRefresh ==
  ASSUME BaseInv, Kept, Refresh
  PROVE  Kept'
<1>1. pc = "refresh" /\ UNCHANGED <<img, cut>>
  BY DEF Refresh
<1> SUFFICES ASSUME ~cut' PROVE /\ Good(disk', img') /\ Whole(disk', single')
                                /\ pc' # "refresh"
                                /\ ~stale' => Extents(table') = Expected(img')
  BY <1>1, KeptThere
<1>2. Good(disk, img) /\ Whole(disk, single) /\ Sane(disk)
  BY <1>1, KeptHere DEF Flashing, Writing, BaseInv
<1>3. CASE stale' = TRUE /\ pc' = "idle" /\ UNCHANGED <<disk, table, single>>
  BY <1>1, <1>2, <1>3
<1>4. CASE /\ disk' \in {disk, Repaired(disk)} \cup PartlyRepaired(disk)
           /\ stale' = FALSE /\ single' = (disk' # Repaired(disk))
           /\ \/ table' = Enumerated(disk') /\ pc' = "idle"
              \/ LET t == Enumerated(disk')
                 IN  pc' = "update" /\ \E n \in 1 .. Len(t) : table' = Flip(t, n)
  <2>1. disk \in PartlyRepaired(disk)
    BY DEF PartlyRepaired, RestoreSome
  <2>2. disk' \in {Repaired(disk)} \cup PartlyRepaired(disk)
    BY <1>4, <2>1
  <2>3. /\ Sane(disk') /\ Good(disk', img) /\ Whole(disk', disk' # Repaired(disk))
        /\ Extents(Enumerated(disk')) = Expected(img)
    BY <1>2, <2>2, GoodRepaired
  <2>4. Whole(disk', single')
    BY <1>4, <2>3 DEF Whole
  <2>6. Extents(table') = Extents(Enumerated(disk')) /\ pc' \in {"idle", "update"}
    <3> DEFINE t == Enumerated(disk')
    <3>1. t \in Seq(Entry)
      BY <2>3, EnumeratedType
    <3>2. \/ table' = t /\ pc' = "idle"
          \/ pc' = "update" /\ \E n \in 1 .. Len(t) : table' = Flip(t, n)
      BY <1>4
    <3> HIDE DEF t
    <3>3. Extents(table') = Extents(t) /\ pc' \in {"idle", "update"}
      BY <3>1, <3>2, FlipExtents
    <3> QED
      BY <3>3 DEF t
  <2> QED
    BY <1>1, <2>3, <2>4, <2>6
<1> QED
  BY <1>3, <1>4, RefreshCases

LEMMA KeptPowerOn ==
  ASSUME BaseInv, Kept, PowerOn
  PROVE  Kept'
<1>1. pc = "off" /\ UNCHANGED <<img, cut, stale>>
  BY DEF PowerOn
<1> SUFFICES ASSUME ~cut' PROVE /\ Good(disk', img') /\ pc' # "refresh"
                                /\ pc' # "off" => /\ Whole(disk', single')
                                                  /\ Extents(table') = Expected(img')
  <2>1. pc' \in {"idle"} \cup Updating => pc' # "off"
    BY DEF Updating
  <2> QED
    BY <1>1, <2>1, KeptThere
<1>2. Good(disk, img) /\ Sane(disk)
  BY <1>1, KeptHere DEF Flashing, Writing, BaseInv
<1>3. disk' \in {Repaired(disk)} \cup PartlyRepaired(disk)
  BY PowerOnCases
<1>4. /\ Good(disk', img) /\ Whole(disk', disk' # Repaired(disk))
      /\ Extents(Enumerated(disk')) = Expected(img)
  BY <1>2, <1>3, GoodRepaired
<1>5. CASE /\ table' = Enumerated(disk') /\ pc' = "idle"
           /\ single' = (disk' # Repaired(disk))
  <2>1. Whole(disk', single')
    BY <1>4, <1>5 DEF Whole
  <2> QED
    BY <1>1, <1>4, <1>5, <2>1
<1>6. CASE UNCHANGED pc
  BY <1>1, <1>4, <1>6
<1> QED
  BY <1>5, <1>6, PowerOnCases

LEMMA UpdateIsUpdate ==
  ASSUME BaseInv, pc \in Updating, HasEntries(pc), NEW e,
         Touched(disk, e, Copy(pc).header, NewHeader(pc), NewArray(pc))
  PROVE  UpdateOf(disk, e, Copy(pc).header, NewHeader(pc), NewArray(pc))
  BY UpdateFacts DEF UpdateOf

(* A write cut short takes at most the copy it writes.                     *)
LEMMA TornShaped ==
  ASSUME BaseInv, Kept, UpdateInterrupted, ~cut'
  PROVE  Good(disk', img)
<1> DEFINE lba == Copy(pc).header
           g == NewHeader(pc)
           a == NewArray(pc)
<1>1. /\ pc \in Updating /\ HasEntries(pc) /\ ~cut
      /\ ValidGptTable(disk, OtherCopy(pc).header)
      /\ disk' \in PutSome(disk, NewCopy(pc).lba, NewCopy(pc).data)
  BY DEF UpdateInterrupted, BaseInv, TypeOK
<1>2. Good(disk, img)
  BY <1>1, KeptHere DEF Flashing, Writing, Updating
<1>3. Parsed(img) /\ Sound(img) /\ Shaped(disk, img) /\ Sane(disk)
  BY <1>2 DEF Good, BaseInv
<1>4. Touched(disk, disk', lba, g, a) /\ Sane(disk')
  BY <1>1, UpdateSome
<1>5. UpdateOf(disk, disk', lba, g, a) /\ disk[lba] \in Header
  BY <1>1, <1>4, UpdateIsUpdate, UpdateFacts
<1>6. lba \in {1, NumSectors - 1} /\ Other(lba) = OtherCopy(pc).header
  <2>1. \/ lba = 1 /\ OtherCopy(pc).header = NumSectors - 1
        \/ lba = NumSectors - 1 /\ OtherCopy(pc).header = 1
    BY <1>1 DEF OtherCopy, Copy, Updating
  <2> QED
    BY <2>1, HeadPlaces
<1> HIDE DEF lba, g, a
<1>7. /\ disk'[0] = Mbr /\ Primary(disk', img) /\ Backup(disk', img)
      /\ ValidGptTable(disk, Other(lba)) => ValidGptTable(disk', Other(lba))
  <2>1. StaysShaped(disk, disk', img, lba)
    BY <1>3, <1>4, <1>5, <1>6, TouchedShaped
  <2> QED
    BY <2>1 DEF StaysShaped
<1>8. Other(lba) \in {1, NumSectors - 1}
  BY <1>6, OtherFacts
<1>9. ValidGptTable(disk', Other(lba))
  BY <1>1, <1>6, <1>7
<1>10. Valid1(disk') \/ Valid2(disk')
  BY <1>8, <1>9 DEF Valid1, Valid2
<1> QED
  BY <1>3, <1>7, <1>10 DEF Shaped, Good

LEMMA KeptUpdateFails ==
  ASSUME BaseInv, Kept, UpdateFails
  PROVE  Kept'
<1>1. /\ pc \in Updating /\ UpdateInterrupted /\ pc' = "idle" /\ single' = TRUE
      /\ UNCHANGED <<table, img, stale>>
  BY DEF UpdateFails, UpdateInterrupted
<1> SUFFICES ASSUME ~cut' PROVE /\ Good(disk', img')
                                /\ ~stale' => Extents(table') = Expected(img')
  BY <1>1, KeptThere DEF Whole
<1>2. Good(disk', img')
  BY <1>1, TornShaped
<1>3. ~cut /\ pc \notin Flashing
  BY <1>1 DEF UpdateInterrupted, Flashing, Writing, Updating
<1>4. ~stale => Extents(table) = Expected(img)
  BY <1>1, <1>3, KeptHere
<1> QED
  BY <1>1, <1>2, <1>4

LEMMA KeptPowerLoss ==
  ASSUME BaseInv, Kept, PowerLoss
  PROVE  Kept'
<1>1. pc # "off" /\ pc' = "off"
  BY DEF PowerLoss, Off
<1> SUFFICES ASSUME ~cut' PROVE Good(disk', img')
  <2>1. pc' # "refresh" /\ pc' \notin {"idle"} \cup Updating
    BY <1>1 DEF Updating
  <2> QED
    BY <1>1, <2>1, KeptThere
<1>2. CASE pc \in Writing \cup {"erase"} /\ cut' = TRUE
  BY <1>2
<1>3. CASE UpdateInterrupted /\ UNCHANGED img
  BY <1>3, TornShaped
<1>4. CASE pc \notin Writing \cup {"erase"} /\ UNCHANGED <<disk, cut, img>>
  <2>1. ~cut /\ pc \notin Flashing
    BY <1>1, <1>4 DEF Flashing
  <2>2. Good(disk, img)
    BY <2>1, KeptHere
  <2> QED
    BY <1>4, <2>2
<1> QED
  BY <1>2, <1>3, <1>4 DEF PowerLoss

(* A copy that is written whole is valid, unless it is the backup that     *)
(* WriteGpt left, which was not valid before.                              *)
LEMMA KeptUpdateCopy ==
  ASSUME BaseInv, Kept, UpdateCopy
  PROVE  Kept'
<1>1. /\ pc \in Updating /\ pc' \in {"update2", "idle"}
      /\ UNCHANGED <<table, img, cut, single, stale>>
  BY DEF UpdateCopy
<1> SUFFICES ASSUME ~cut
             PROVE  /\ Good(disk', img) /\ Whole(disk', single)
                    /\ ~stale => Extents(table) = Expected(img)
  <2>1. pc' # "refresh"
    BY <1>1
  <2> QED
    BY <1>1, <2>1, KeptThere
<1>2. /\ Good(disk, img) /\ Whole(disk, single)
      /\ ~stale => Extents(table) = Expected(img)
  BY <1>1, KeptHere DEF Flashing, Writing, Updating
<1>3. CASE UNCHANGED disk
  BY <1>2, <1>3
<1>4. CASE /\ Changed(pc) /\ HasEntries(pc)
           /\ disk' = Put(disk, NewCopy(pc).lba, NewCopy(pc).data)
  <2> DEFINE lba == Copy(pc).header
             g == NewHeader(pc)
             a == NewArray(pc)
  <2>1. /\ Parsed(img) /\ Sound(img) /\ Shaped(disk, img) /\ Sane(disk)
    BY <1>2 DEF Good, BaseInv
  <2>2. Touched(disk, disk', lba, g, a) /\ Replaced(disk', lba, g, a) /\ Sane(disk')
    BY <1>1, <1>4, UpdateAll
  <2>3. UpdateOf(disk, disk', lba, g, a) /\ disk[lba] \in Header
    BY <1>1, <1>4, <2>2, UpdateIsUpdate, UpdateFacts
  <2>4. lba \in {1, NumSectors - 1}
    BY <1>1, CopyFacts
  <2> HIDE DEF lba, g, a
  <2>5. /\ disk'[0] = Mbr /\ Primary(disk', img) /\ Backup(disk', img)
        /\ ValidGptTable(disk, Other(lba)) => ValidGptTable(disk', Other(lba))
    <3>1. StaysShaped(disk, disk', img, lba)
      BY <2>1, <2>2, <2>3, <2>4, TouchedShaped
    <3> QED
      BY <3>1 DEF StaysShaped
  <2>6. ValidGptTable(disk, lba) => ValidGptTable(disk', lba)
    <3> SUFFICES ASSUME ValidGptTable(disk, lba) PROVE ValidGptTable(disk', lba)
      OBVIOUS
    <3>1. HeadOf(disk, img, lba) /\ Body(disk, img, Place(lba))
      <4>1. CASE lba = 1
        BY <2>1, <4>1, HeadPlaces DEF Shaped
      <4>2. CASE lba = NumSectors - 1
        <5>1. Backup(disk, img) /\ Valid2(disk) /\ Body(disk, img, BackupLba)
          BY <2>1, <4>2 DEF Shaped, Valid2, Backup
        <5>2. BackupHead(disk, img)
          BY <2>1, <5>1, ShapedValid
        <5> QED
          BY <4>2, <5>1, <5>2, HeadPlaces
      <4> QED
        BY <2>4, <4>1, <4>2
    <3> QED
      BY <2>1, <2>2, <2>3, <2>4, <3>1, ReplacedValid
  <2>7. (lba = 1 /\ Other(lba) = NumSectors - 1) \/ (lba = NumSectors - 1 /\ Other(lba) = 1)
    BY <2>4, HeadPlaces
  <2>8. (Valid1(disk) => Valid1(disk')) /\ (Valid2(disk) => Valid2(disk'))
    BY <2>5, <2>6, <2>7 DEF Valid1, Valid2
  <2>9. Shaped(disk', img)
    BY <2>1, <2>5, <2>8 DEF Shaped
  <2> QED
    BY <1>2, <2>1, <2>8, <2>9 DEF Good, Whole
<1> QED
  BY <1>3, <1>4 DEF UpdateCopy

LEMMA KeptNext == BaseInv /\ Progress /\ Kept /\ [Next]_vars => Kept'
<1>1. ASSUME Kept, UNCHANGED vars PROVE Kept'
  BY <1>1 DEF Kept, vars
<1> QED
  BY <1>1, KeptFlashPartition, KeptWriteGpt, KeptFlush, KeptRefresh, KeptSetAttribute,
     KeptUpdateCopy, KeptUpdateFails, KeptPowerLoss, KeptLeave, KeptPowerOn DEF Next

(* The inductive invariant.  TypeOK, Sane and Arrays are what keeps a      *)
(* header apart from an entry wherever an image may make WriteGpt write;   *)
(* Progress is what a flash has written of a sound image; Kept is what is  *)
(* left of it afterwards, one copy at least and both in shape.             *)
THEOREM Invariant == Spec => []GptInv
<1>1. Init => GptInv
  <2> SUFFICES ASSUME Init PROVE GptInv
    OBVIOUS
  <2>1. Progress /\ Kept
    BY DEF Init, Progress, Kept
  <2> QED
    BY <2>1, BaseInit DEF GptInv, BaseInv
<1>2. GptInv /\ [Next]_vars => GptInv'
  <2> SUFFICES ASSUME BaseInv, Progress, Kept, [Next]_vars PROVE GptInv'
    BY DEF GptInv, BaseInv
  <2> QED
    BY BaseNext, ProgressNext, KeptNext DEF GptInv, BaseInv
<1> QED
  BY <1>1, <1>2, PTL DEF Spec

(* Once WriteGpt has written a sound table, every later boot enumerates    *)
(* its partitions, the last one grown to the last block before the backup  *)
(* (PatchGpt), whether the driver's repair succeeds, fails or stops        *)
(* halfway (PartitionRestoreGptTable).  This ends with the next flash that *)
(* passes the checks, or when an attribute update of one copy is cut short *)
(* while the other is not valid.                                           *)
THEOREM TableIsFound == Spec => []Flashed
<1>1. GptInv => Flashed
  <2> SUFFICES ASSUME GptInv, pc = "idle", ~cut
               PROVE  /\ ~stale => Extents(table) = Expected(img)
                      /\ \A d \in {Repaired(disk)} \cup PartlyRepaired(disk) :
                           Extents(Enumerated(d)) = Expected(img)
    BY DEF Flashed
  <2>1. /\ Good(disk, img) /\ Sane(disk)
        /\ ~stale => Extents(table) = Expected(img)
    BY KeptHere DEF GptInv, Flashing, Writing
  <2> QED
    BY <2>1, GoodRepaired
<1> QED
  BY <1>1, Invariant, PTL

(* A write that goes wrong in the driver's repair, or in                   *)
(* UpdatePartitionAttributes while the other copy is valid, leaves a valid *)
(* copy; and while the device is on there are two, unless there was a      *)
(* flash, a failed update or a failed repair since the driver last went    *)
(* over them.                                                              *)
THEOREM CopySurvives == Spec => []TableSurvives
<1>1. GptInv => TableSurvives
  BY DEF GptInv, Kept, Shaped, TableSurvives, Flashing, Valid1, Valid2
<1> QED
  BY <1>1, Invariant, PTL

=============================================================================
