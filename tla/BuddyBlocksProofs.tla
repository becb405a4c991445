-------------------------- MODULE BuddyBlocksProofs --------------------------
(*****************************************************************************)
(* What the buddy system of src/Poptrie/buddy_xid.c guarantees for every     *)
(* arena: the inductive invariant of BuddyBlocks, the safety properties it   *)
(* implies, and that the buddy system implements the block pool of           *)
(* BlockPool.                                                                *)
(*****************************************************************************)
EXTENDS BuddyBlocks, NatFacts

(*****************************************************************************)
(* The geometry of blocks: aligned blocks of two sizes are nested or apart,  *)
(* every cell lies in one block of each order, and a block is the union of   *)
(* its two halves. Everything else the proofs say of addresses follows from  *)
(* these facts. Pow2 is known only by its recurrence, so each fact that      *)
(* speaks of a power is an induction over the orders (SetInduction).         *)
(*****************************************************************************)

(* Division with remainder, in the form the block addresses use it. *)
LEMMA ModMultiple ==
  ASSUME NEW s \in Nat, NEW P \in Nat \ {0}
  PROVE  /\ s \div P \in Nat
         /\ (s \div P) * P <= s
         /\ s < (s \div P) * P + P
         /\ s % P = 0 => s = (s \div P) * P
OBVIOUS

(* A multiple of a block size passes the alignment test. *)
LEMMA MultipleMod ==
  ASSUME NEW i \in Nat, NEW P \in Nat \ {0}
  PROVE  (i * P) % P = 0
OBVIOUS

(* Two different multiples of a block size are at least one block apart. *)
LEMMA Step ==
  ASSUME NEW i \in Nat, NEW j \in Nat, NEW P \in Nat \ {0}
  PROVE  /\ i < j => i * P + P <= j * P
         /\ i * P < j * P => i < j
         /\ i * P = j * P => i = j
OBVIOUS

(* Every block size 1 << l is a positive number. *)
LEMMA Pow2Type == \A l \in 0 .. Sz : Pow2[l] \in Nat \ {0}
<1> DEFINE P == {l \in 0 .. Sz : Pow2[l] # 0}
<1>1. 0 \in P BY SizeAssumption, Pow2Assumption
<1>2. ASSUME NEW i \in 0 .. (Sz - 1), i \in P PROVE i + 1 \in P
  BY <1>2, SizeAssumption, Pow2Assumption
<1>3. \A i \in 0 .. Sz : i \in P 
  <2> HIDE DEF P
  <2> QED BY <1>1, <1>2, SetInduction, SizeAssumption
<1> QED BY <1>3, Pow2Assumption

(* The size of a block is a multiple of the size of every smaller block. *)
LEMMA Pow2Divides ==
  ASSUME NEW l \in 0 .. Sz
  PROVE  \A k \in l .. Sz : \E d \in Nat \ {0} : Pow2[k] = d * Pow2[l]
<1> DEFINE P == {i \in Nat : l + i <= Sz => \E d \in Nat \ {0} : Pow2[l + i] = d * Pow2[l]}
<1>0. l \in Nat /\ Sz \in Nat /\ Sz - l \in Nat BY SizeAssumption
<1>1. 0 \in P 
  <2>1. Pow2[l + 0] = 1 * Pow2[l] BY <1>0, Pow2Type
  <2> QED BY <2>1
<1>2. ASSUME NEW i \in 0 .. (Sz - l - 1), i \in P PROVE i + 1 \in P
  <2>1. PICK d \in Nat \ {0} : Pow2[l + i] = d * Pow2[l] BY <1>2, <1>0
  <2>2. Pow2[l + (i + 1)] = 2 * Pow2[l + i] 
     <3>1. l + i \in 0 .. (Sz - 1) /\ l + (i + 1) = (l + i) + 1 BY <1>0
     <3> QED BY <3>1, Pow2Assumption
  <2>3. Pow2[l + (i + 1)] = (2 * d) * Pow2[l] BY <2>1, <2>2, Pow2Type
  <2>4. 2 * d \in Nat \ {0} OBVIOUS
  <2> QED BY <2>3, <2>4
<1>3. \A i \in 0 .. (Sz - l) : i \in P
  <2> HIDE DEF P
  <2> QED BY <1>0, <1>1, <1>2, SetInduction
<1>4. TAKE k \in l .. Sz
<1>5. k - l \in 0 .. (Sz - l) /\ l + (k - l) = k BY <1>0
<1> QED BY <1>3, <1>5

(* What the assumption on the sizes says of an order. *)
LEMMA Sizes == /\ Sz \in Nat /\ Level \in Nat /\ Level >= 1
               /\ Orders \subseteq 0 .. Sz
               /\ \A l \in Orders : l \in Nat /\ l <= Sz /\ l < Level
BY SizeAssumption DEF Orders

(* The cells of a block. *)
LEMMA SpanElement ==
  ASSUME NEW s \in Int, NEW l \in 0 .. Sz, NEW c
  PROVE  c \in Span(s, l) <=> c \in Int /\ s <= c /\ c < s + Pow2[l]
BY Pow2Type DEF Span

(* An aligned address is a multiple of the block size. *)
LEMMA AlignedMultiple ==
  ASSUME NEW l \in 0 .. Sz, NEW s \in Aligned(l)
  PROVE  /\ s \in Nat
         /\ \E i \in Nat : s = i * Pow2[l]
<1>1. s \in Nat /\ s % Pow2[l] = 0 BY DEF Aligned, Cells
<1> QED BY <1>1, ModMultiple, Pow2Type

(* A multiple of the block size inside the arena is aligned. *)
LEMMA MultipleAligned ==
  ASSUME NEW l \in 0 .. Sz, NEW i \in Nat, i * Pow2[l] \in Cells
  PROVE  i * Pow2[l] \in Aligned(l)
BY MultipleMod, Pow2Type DEF Aligned

(* An aligned block does not run over the end of the arena: buddy_init has  *)
(* room for every block it puts on a list.                                  *)
LEMMA AlignedFits ==
  ASSUME NEW l \in 0 .. Sz, NEW s \in Aligned(l)
  PROVE  s + Pow2[l] <= Pow2[Sz]
<1>1. PICK i \in Nat : s = i * Pow2[l] BY AlignedMultiple
<1>2. Sz \in l .. Sz BY SizeAssumption
<1>3. PICK d \in Nat \ {0} : Pow2[Sz] = d * Pow2[l] BY <1>2, Pow2Divides
<1>4. s < Pow2[Sz] BY Pow2Type, SizeAssumption DEF Aligned, Cells
<1>5. i < d BY <1>1, <1>3, <1>4, Step, Pow2Type
<1> QED BY <1>1, <1>3, <1>5, Step, Pow2Type

(* The cells of an aligned block are cells of the arena, the first one and  *)
(* the one whose bit marks the block among them.                            *)
LEMMA SpanInCells ==
  ASSUME NEW l \in 0 .. Sz, NEW s \in Aligned(l)
  PROVE  /\ Span(s, l) \subseteq Cells
         /\ s \in Span(s, l)
         /\ TailCell(s, l) \in Span(s, l)
<1>1. s \in Nat BY DEF Aligned, Cells
<1>2. Pow2[l] \in Nat \ {0} /\ Pow2[Sz] \in Nat BY Pow2Type, SizeAssumption
<1> QED BY <1>1, <1>2, AlignedFits, SpanElement DEF Cells, TailCell

(* A block that meets a larger one lies inside it. *)
LEMMA Nested ==
  ASSUME NEW l \in 0 .. Sz, NEW k \in l .. Sz, NEW s \in Aligned(l), NEW t \in Aligned(k),
         Span(s, l) \cap Span(t, k) # {}
  PROVE  Span(s, l) \subseteq Span(t, k)
<1>0. k \in 0 .. Sz /\ Pow2[l] \in Nat \ {0} /\ Pow2[k] \in Nat \ {0} BY Pow2Type, SizeAssumption
<1>1. PICK i \in Nat : s = i * Pow2[l] BY AlignedMultiple
<1>2. PICK j \in Nat : t = j * Pow2[k] BY AlignedMultiple, <1>0
<1>3. PICK d \in Nat \ {0} : Pow2[k] = d * Pow2[l] BY Pow2Divides
<1>4. t = (j * d) * Pow2[l] /\ t + Pow2[k] = (j * d + d) * Pow2[l] BY <1>0, <1>2, <1>3
<1>5. j * d \in Nat /\ j * d + d \in Nat OBVIOUS
<1>6. PICK c \in Int : s <= c /\ c < s + Pow2[l] /\ t <= c /\ c < t + Pow2[k]
  BY <1>0, <1>1, <1>2, SpanElement
<1>7. t <= s
  <2> SUFFICES ASSUME s < t PROVE FALSE BY <1>1, <1>2, <1>0
  <2>1. i < j * d BY <1>0, <1>1, <1>4, <1>5, Step
  <2>2. s + Pow2[l] <= t BY <2>1, <1>0, <1>1, <1>4, <1>5, Step
  <2> QED BY <2>2, <1>6, <1>0, <1>1, <1>2
<1>8. s + Pow2[l] <= t + Pow2[k]
  <2>1. s < t + Pow2[k] BY <1>6, <1>0, <1>1, <1>2
  <2>2. i < j * d + d BY <2>1, <1>0, <1>1, <1>4, <1>5, Step
  <2> QED BY <2>2, <1>0, <1>1, <1>4, <1>5, Step
<1>9. s \in Int /\ t \in Int BY <1>0, <1>1, <1>2
<1> QED BY <1>7, <1>8, <1>9, <1>0, SpanElement

(* off / (1 << l) * (1 << l), the block _merge looks at, is an aligned block*)
(* around the cell.                                                         *)
LEMMA BaseAligned ==
  ASSUME NEW l \in 0 .. Sz, NEW c \in Cells
  PROVE  Base(c, l) \in Aligned(l) /\ c \in Span(Base(c, l), l)
<1>1. c \in Nat /\ Pow2[l] \in Nat \ {0} BY Pow2Type DEF Cells
<1>2. /\ c \div Pow2[l] \in Nat
      /\ Base(c, l) <= c
      /\ c < Base(c, l) + Pow2[l]
  BY <1>1, ModMultiple DEF Base
<1>3. Base(c, l) \in Nat BY <1>1, <1>2 DEF Base
<1>4. Base(c, l) \in Cells BY <1>2, <1>3, Pow2Type, SizeAssumption DEF Cells
<1>5. Base(c, l) \in Aligned(l) BY <1>2, <1>4, MultipleAligned DEF Base
<1> QED BY <1>5, <1>2, <1>3, <1>1, SpanElement

(* It is the only aligned block of its order around the cell. *)
LEMMA BaseUnique ==
  ASSUME NEW l \in 0 .. Sz, NEW s \in Aligned(l), NEW c \in Span(s, l)
  PROVE  s = Base(c, l)
<1>0. c \in Cells /\ Pow2[l] \in Nat \ {0} /\ s \in Nat
  BY SpanInCells, Pow2Type DEF Aligned, Cells
<1>1. Base(c, l) \in Aligned(l) /\ c \in Span(Base(c, l), l) BY <1>0, BaseAligned
<1>2. Span(s, l) \cap Span(Base(c, l), l) # {} BY <1>1
<1>3. l \in l .. Sz OBVIOUS
<1>4. /\ Span(s, l) \subseteq Span(Base(c, l), l)
      /\ Span(Base(c, l), l) \subseteq Span(s, l)
  BY <1>1, <1>2, <1>3, Nested
<1>5. s \in Span(Base(c, l), l) /\ Base(c, l) \in Span(s, l) BY <1>4, <1>1, SpanInCells
<1>6. Base(c, l) \in Nat BY <1>1 DEF Aligned, Cells
<1> QED BY <1>5, <1>6, <1>0, SpanElement

(* An aligned block is made of two aligned blocks of half its size, as      *)
(* _split_buddy cuts it.                                                    *)
LEMMA Halves ==
  ASSUME NEW l \in 0 .. (Sz - 1), NEW t \in Aligned(l + 1)
  PROVE  /\ t \in Aligned(l)
         /\ t + Pow2[l] \in Aligned(l)
         /\ Span(t, l) \cup Span(t + Pow2[l], l) = Span(t, l + 1)
         /\ Span(t, l) \cap Span(t + Pow2[l], l) = {}
<1>0. /\ l \in 0 .. Sz /\ l + 1 \in 0 .. Sz /\ t \in Nat
      /\ Pow2[l] \in Nat \ {0} /\ Pow2[l + 1] = 2 * Pow2[l] /\ Pow2[Sz] \in Nat
  BY Pow2Type, Pow2Assumption, SizeAssumption DEF Aligned, Cells
<1>1. PICK i \in Nat : t = i * Pow2[l + 1] BY AlignedMultiple, <1>0
<1>2. t = (2 * i) * Pow2[l] /\ t + Pow2[l] = (2 * i + 1) * Pow2[l] BY <1>0, <1>1
<1>3. t + Pow2[l + 1] <= Pow2[Sz] BY AlignedFits, <1>0
<1>4. t \in Cells /\ t + Pow2[l] \in Cells BY <1>0, <1>3 DEF Cells
<1>5. t \in Aligned(l) /\ t + Pow2[l] \in Aligned(l)
  <2>1. 2 * i \in Nat /\ 2 * i + 1 \in Nat OBVIOUS
  <2> QED BY <2>1, <1>0, <1>2, <1>4, MultipleAligned
<1>6. Span(t, l) \cup Span(t + Pow2[l], l) = Span(t, l + 1)
  BY <1>0 DEF Span
<1>7. Span(t, l) \cap Span(t + Pow2[l], l) = {}
  BY <1>0 DEF Span
<1> QED BY <1>5, <1>6, <1>7

(* Every block below the largest order is the lower or the upper half of the*)
(* block around it.                                                         *)
LEMMA Parent ==
  ASSUME NEW l \in 0 .. (Sz - 1), NEW s \in Aligned(l)
  PROVE  /\ Base(s, l + 1) \in Aligned(l + 1)
         /\ Span(s, l) \subseteq Span(Base(s, l + 1), l + 1)
         /\ s = Base(s, l + 1) \/ s = Base(s, l + 1) + Pow2[l]
<1> DEFINE t == Base(s, l + 1)
<1>0. l \in 0 .. Sz /\ l + 1 \in 0 .. Sz /\ l + 1 \in l .. Sz BY SizeAssumption
<1>1. s \in Cells /\ s \in Span(s, l) BY <1>0, SpanInCells
<1>2. t \in Aligned(l + 1) /\ s \in Span(t, l + 1) BY <1>0, <1>1, BaseAligned
<1>3. Span(s, l) \subseteq Span(t, l + 1)
  <2> HIDE DEF t
  <2> QED BY <1>0, <1>1, <1>2, Nested
<1>4. s \in Span(t, l) \/ s \in Span(t + Pow2[l], l)
  <2> HIDE DEF t
  <2> QED BY <1>2, Halves
<1>5. t \in Aligned(l) /\ t + Pow2[l] \in Aligned(l)
  <2> HIDE DEF t
  <2> QED BY <1>2, Halves
<1>6. s = t \/ s = t + Pow2[l]
  <2> HIDE DEF t
  <2>1. \A u \in Aligned(l) : s \in Span(u, l) => u = s
    BY <1>0, <1>1, BaseUnique
  <2> QED BY <1>4, <1>5, <2>1
<1> QED BY <1>2, <1>3, <1>6

-----------------------------------------------------------------------------

(* What _split_buddy leaves behind when it cuts the block h of order src    *)
(* down to order o: the blocks h + (1 << l) on the way are aligned, lie     *)
(* inside the old block, miss the one that is handed out, and have h in the *)
(* block around them.                                                       *)
LEMMA SplitGeometry ==
  ASSUME NEW src \in 0 .. Sz, NEW h \in Aligned(src), NEW o \in 0 .. src
  PROVE  /\ h \in Aligned(o)
         /\ Span(h, o) \subseteq Span(h, src)
         /\ \A l \in o .. (src - 1) :
              /\ h + Pow2[l] \in Aligned(l)
              /\ Span(h + Pow2[l], l) \subseteq Span(h, src)
              /\ Span(h + Pow2[l], l) \cap Span(h, o) = {}
              /\ h \in Span(Base(h + Pow2[l], l + 1), l + 1)
<1>0. src \in Nat /\ src <= Sz /\ Sz \in Nat BY SizeAssumption
<1>1. ASSUME NEW j \in 0 .. src PROVE h \in Aligned(j) /\ h \in Span(h, j)
  <2>0. j \in 0 .. Sz /\ src \in j .. Sz BY <1>0
  <2>1. PICK i \in Nat : h = i * Pow2[src] BY AlignedMultiple
  <2>2. PICK d \in Nat \ {0} : Pow2[src] = d * Pow2[j] BY <2>0, Pow2Divides
  <2>3. h = (i * d) * Pow2[j] /\ i * d \in Nat BY <2>0, <2>1, <2>2, Pow2Type
  <2>4. h \in Cells BY DEF Aligned
  <2>5. h \in Aligned(j) BY <2>0, <2>3, <2>4, MultipleAligned
  <2> QED BY <2>0, <2>5, SpanInCells
<1>2. ASSUME NEW j \in 0 .. src, NEW k \in j .. src
      PROVE  Span(h, j) \subseteq Span(h, k)
  <2>1. j \in 0 .. Sz /\ k \in j .. Sz /\ k \in 0 .. src BY <1>0
  <2>2. h \in Aligned(j) /\ h \in Aligned(k) /\ h \in Span(h, j) /\ h \in Span(h, k)
    BY <1>1, <2>1
  <2> QED BY <2>1, <2>2, Nested
<1>3. ASSUME NEW l \in o .. (src - 1)
      PROVE  /\ h + Pow2[l] \in Aligned(l)
             /\ Span(h + Pow2[l], l) \subseteq Span(h, src)
             /\ Span(h + Pow2[l], l) \cap Span(h, o) = {}
             /\ h \in Span(Base(h + Pow2[l], l + 1), l + 1)
  <2>0. /\ l \in 0 .. (Sz - 1) /\ l \in 0 .. Sz /\ l + 1 \in 0 .. Sz
        /\ l + 1 \in 0 .. src /\ src \in (l + 1) .. src /\ l \in o .. src /\ o \in 0 .. src
    BY <1>0
  <2>1. h \in Aligned(l + 1) /\ h \in Span(h, l + 1) BY <1>1, <2>0
  <2>2. /\ h + Pow2[l] \in Aligned(l)
        /\ Span(h + Pow2[l], l) \subseteq Span(h, l + 1)
        /\ Span(h, l) \cap Span(h + Pow2[l], l) = {}
    BY <2>0, <2>1, Halves
  <2>3. Span(h, l + 1) \subseteq Span(h, src) /\ Span(h, o) \subseteq Span(h, l)
    BY <1>2, <2>0
  <2>4. h + Pow2[l] \in Span(h, l + 1) BY <2>0, <2>2, SpanInCells
  <2>5. h = Base(h + Pow2[l], l + 1) BY <2>0, <2>1, <2>4, BaseUnique
  <2> QED BY <2>1, <2>2, <2>3, <2>5
<1>4. src \in o .. src BY <1>0
<1> QED BY <1>1, <1>2, <1>3, <1>4

(* A held block is an aligned block of its order. *)
LEMMA HeldFacts ==
  ASSUME TypeOK, NEW b \in held
  PROVE  /\ b[2] \in Orders /\ b[2] \in 0 .. Sz /\ b[2] \in Nat
         /\ b[1] \in Aligned(b[2])
         /\ b = <<b[1], b[2]>>
<1>1. b \in Cells \X Orders /\ b[1] % Pow2[b[2]] = 0 BY DEF TypeOK, Blocks
<1>2. b = <<b[1], b[2]>> /\ b[1] \in Cells /\ b[2] \in Orders BY <1>1
<1>3. b[2] \in 0 .. Sz /\ b[2] \in Nat BY <1>2, Sizes
<1> QED BY <1>1, <1>2, <1>3 DEF Aligned

(* Every part of a clear block is clear. *)
LEMMA ClearPart ==
  ASSUME NEW s, NEW l, NEW t, NEW k, Span(s, l) \subseteq Span(t, k), Clear(t, k)
  PROVE  Clear(s, l)
BY DEF Clear, Disjoint

(* buddy_init establishes the invariant. *)
LEMMA InitInv == Init => IInv
<1> SUFFICES ASSUME Init PROVE IInv OBVIOUS
<1>1. TypeOK
  BY Sizes DEF Init, TypeOK, Aligned, Failed
<1>2. NoOverlap /\ TailsOfHeld BY DEF Init, NoOverlap, TailsOfHeld
<1>3. FreeExact
  <2> SUFFICES ASSUME NEW l \in Orders, NEW s \in Cells
      PROVE s \in free[l] <=> (s \in Aligned(l) /\ Clear(s, l) 
                  /\ (l + 1 < Level => ~ Clear(Base(s, l + 1), l + 1)))
    BY DEF FreeExact
  <2>1. \A x, y : Clear(x, y) BY DEF Init, Clear
  <2>2. l + 1 < Level <=> l # Level - 1 BY Sizes DEF Orders
  <2> QED BY <2>1, <2>2 DEF Init
<1> QED BY <1>1, <1>2, <1>3 DEF IInv

(* buddy_alloc2 keeps the invariant. The free lists are the hard part: above*)
(* the list that serves the request nothing changes, that list loses the    *)
(* block, between it and o the only new maximal clear block is the upper    *)
(* half the split leaves, and below o everything that changed lies inside   *)
(* the new block.                                                           *)
LEMMA AllocInv ==
  ASSUME IInv, NEW o \in Orders, NEW src \in Orders, Serves(o, src), NEW h \in free[src],
         free' = AfterSplit(o, src, h),
         tail' = tail \cup {TailCell(h, o)},
         held' = held \cup {<<h, o>>},
         asked' = o,
         ret'  = h
  PROVE  IInv'
<1> DEFINE b == <<h, o>>
<1>0. /\ TypeOK /\ NoOverlap /\ TailsOfHeld /\ FreeExact
      /\ o \in 0 .. Sz /\ src \in 0 .. Sz /\ o \in Nat /\ src \in Nat
      /\ o <= src /\ src < Level /\ Level \in Nat /\ Level <= Sz /\ Sz \in Nat
      /\ o \in 0 .. src
      /\ \A l \in o .. (src - 1) : free[l] = {}
  BY Sizes, SizeAssumption DEF IInv, Serves
<1>1. /\ h \in Cells /\ h \in Aligned(src) /\ Clear(h, src)
      /\ src + 1 < Level => ~ Clear(Base(h, src + 1), src + 1)
  <2>1. h \in Cells BY <1>0 DEF TypeOK
  <2> QED BY <2>1, <1>0 DEF FreeExact
<1>2. /\ h \in Aligned(o) /\ h \in Span(h, o)
      /\ Span(h, o) \subseteq Span(h, src)
      /\ \A l \in o .. (src - 1) :
              /\ h + Pow2[l] \in Aligned(l)
              /\ Span(h + Pow2[l], l) \subseteq Span(h, src)
              /\ Span(h + Pow2[l], l) \cap Span(h, o) = {}
              /\ h \in Span(Base(h + Pow2[l], l + 1), l + 1)
  BY <1>0, <1>1, SplitGeometry, SpanInCells
<1>3. Clear(h, o) BY <1>1, <1>2, ClearPart
<1>4. TypeOK'
  <2>1. \A l \in Orders : AfterSplit(o, src, h)[l] \subseteq Cells
    <3> SUFFICES ASSUME NEW l \in Orders PROVE AfterSplit(o, src, h)[l] \subseteq Cells
      OBVIOUS
    <3>1. free[l] \subseteq Cells BY <1>0 DEF TypeOK
    <3>2. l \in o .. (src - 1) => h + Pow2[l] \in Cells BY <1>2 DEF Aligned
    <3> QED BY <3>1, <3>2 DEF AfterSplit
  <2>2. free' \in [Orders -> SUBSET Cells] BY <2>1 DEF AfterSplit
  <2>3. TailCell(h, o) \in Cells BY <1>0, <1>2, SpanInCells
  <2>4. b \in Blocks BY <1>1, <1>2 DEF Blocks, Aligned
  <2>5. asked' \in -1 .. Level BY <1>0
  <2> QED BY <2>2, <2>3, <2>4, <2>5, <1>0, <1>1 DEF TypeOK
<1>5. NoOverlap'
  <2>1. \A c \in held : Disjoint(c, b) /\ Disjoint(b, c) BY <1>3 DEF Clear, Disjoint
  <2> QED BY <2>1, <1>0 DEF NoOverlap
<1>6. TailsOfHeld'
  <2> HIDE DEF b
  <2>1. b[1] = h /\ b[2] = o /\ held' = held \cup {b} BY DEF b
  <2>2. {TailCell(c[1], c[2]) : c \in held \cup {b}}
          = {TailCell(c[1], c[2]) : c \in held} \cup {TailCell(b[1], b[2])}
    OBVIOUS
  <2> QED BY <2>1, <2>2, <1>0 DEF TailsOfHeld, TailCell
<1>7. FreeExact'
  <2> SUFFICES ASSUME NEW l \in Orders, NEW s \in Cells
      PROVE s \in free'[l] <=> (s \in Aligned(l) /\ Clear(s, l)'
                  /\ (l + 1 < Level => ~ Clear(Base(s, l + 1), l + 1)'))
    BY DEF FreeExact
  <2> DEFINE p == Base(s, l + 1)
             Meets(t, k) == Span(h, o) \cap Span(t, k) # {}
  <2>1. \A t, k : Clear(t, k)' <=> Clear(t, k) /\ ~ Meets(t, k)
    <3> SUFFICES ASSUME NEW t, NEW k PROVE Clear(t, k)' <=> Clear(t, k) /\ ~ Meets(t, k)
      OBVIOUS
    <3>1. b[1] = h /\ b[2] = o /\ <<t, k>>[1] = t /\ <<t, k>>[2] = k OBVIOUS
    <3>2. Disjoint(b, <<t, k>>) <=> ~ Meets(t, k) BY <3>1 DEF Disjoint
    <3>3. Clear(t, k)' <=> \A c \in held \cup {b} : Disjoint(c, <<t, k>>) BY DEF Clear, Disjoint
    <3> HIDE DEF b, Meets
    <3> QED BY <3>2, <3>3 DEF Clear
  <2>2. s \in free[l] <=> (s \in Aligned(l) /\ Clear(s, l) /\ (l + 1 < Level => ~ Clear(p, l + 1)))
    BY <1>0 DEF FreeExact
  <2>3. l \in Nat /\ l \in 0 .. Sz /\ l < Level /\ (l + 1 < Level => l \in 0 .. (Sz - 1) /\ l + 1 \in 0 .. Sz)
    BY Sizes, <1>0
  <2>4. s \in Aligned(l) /\ l + 1 < Level => p \in Aligned(l + 1) /\ Span(s, l) \subseteq Span(p, l + 1)
    BY <2>3, Parent
  \* the block of order k at t lies in, or contains, the new block
  <2>5. ASSUME NEW k \in 0 .. Sz, NEW t \in Aligned(k), Meets(t, k)
        PROVE  /\ o <= k => h \in Span(t, k) /\ t = Base(h, k)
               /\ k <= o => Span(t, k) \subseteq Span(h, o)
    <3>1. o <= k => Span(h, o) \subseteq Span(t, k)
      BY <2>5, <1>0, <1>2, Nested
    <3>2. k <= o => Span(t, k) \subseteq Span(h, o)
      BY <2>5, <1>0, <1>2, Nested
    <3>3. h \in Span(t, k) => t = Base(h, k) BY BaseUnique
    <3> QED BY <3>1, <3>2, <3>3, <1>2
  <2> HIDE DEF p, Meets
  <2>6. CASE l > src
    <3>1. free'[l] = free[l] BY <2>6, <1>0 DEF AfterSplit
    <3>2. src + 1 < Level /\ src + 1 \in 0 .. Sz /\ h \in Span(Base(h, src + 1), src + 1)
          /\ Base(h, src + 1) \in Aligned(src + 1)
      BY <2>6, <2>3, <1>0, <1>1, BaseAligned
    <3>3. ASSUME NEW k \in 0 .. Sz, k > src, NEW t \in Aligned(k), Meets(t, k)
          PROVE  ~ Clear(t, k)
      <4>1. h \in Span(t, k) BY <2>5, <3>3, <1>0
      <4>2. Span(Base(h, src + 1), src + 1) \cap Span(t, k) # {} BY <3>2, <4>1
      <4>3. k \in (src + 1) .. Sz BY <3>3, <1>0
      <4>4. Span(Base(h, src + 1), src + 1) \subseteq Span(t, k)
        BY <3>2, <4>2, <4>3, Nested
      <4> QED BY <4>4, <3>2, <1>1, ClearPart
    <3>4. s \in Aligned(l) /\ Clear(s, l) => ~ Meets(s, l) BY <3>3, <2>3, <2>6
    <3>5. l + 1 < Level /\ s \in Aligned(l) /\ Clear(p, l + 1) => ~ Meets(p, l + 1)
      BY <3>3, <2>3, <2>4, <2>6, <1>0
    <3> QED BY <3>1, <3>4, <3>5, <2>1, <2>2 DEF p
  <2>7. CASE l = src
    <3>1. free'[l] = free[l] \ {h} BY <2>7 DEF AfterSplit
    <3>2. s = h => Meets(s, l)
      BY <2>7, <1>2 DEF Meets
    <3>3. s \in Aligned(l) /\ Meets(s, l) => s = h
      <4>1. h = Base(h, l) BY <2>7, <2>3, <1>1, BaseUnique, SpanInCells
      <4> QED BY <4>1, <2>5, <2>3, <2>7, <1>0
    <3>4. l + 1 < Level /\ s \in Aligned(l) /\ Clear(p, l + 1) => ~ Meets(p, l + 1)
      BY <2>3, <2>4, <2>5, <2>7, <1>0, <1>1
    <3> QED BY <3>1, <3>2, <3>3, <3>4, <2>1, <2>2 DEF p
  <2>8. CASE l \in o .. (src - 1)
    <3>0. l + 1 < Level /\ l + 1 \in 0 .. Sz /\ l \in 0 .. (Sz - 1) /\ o <= l /\ l # src 
      BY <2>8, <1>0, <2>3
    <3>1. free'[l] = {h + Pow2[l]} /\ free[l] = {}
      <4>1. l # src /\ free[l] = {} BY <2>8, <1>0
      <4> QED BY <4>1, <2>8 DEF AfterSplit
    <3>2. ASSUME s = h + Pow2[l]
          PROVE  s \in Aligned(l) /\ Clear(s, l)' /\ ~ Clear(p, l + 1)'
      <4>1. s \in Aligned(l) /\ Span(s, l) \subseteq Span(h, src) /\ ~ Meets(s, l)
        BY <3>2, <2>8, <1>2 DEF Meets
      <4>2. Clear(s, l) BY <4>1, <1>1, ClearPart
      <4>3. Meets(p, l + 1) BY <3>2, <2>8, <1>2 DEF Meets, p
      <4> QED BY <4>1, <4>2, <4>3, <2>1
    <3>3. ASSUME s \in Aligned(l), Clear(s, l)', ~ Clear(p, l + 1)'
          PROVE  s = h + Pow2[l]
      <4>1. Clear(s, l) /\ ~ Meets(s, l) BY <3>3, <2>1
      <4>2. Clear(p, l + 1) BY <4>1, <3>1, <3>3, <2>2, <3>0
      <4>3. Meets(p, l + 1) BY <4>2, <3>3, <2>1
      <4>4. p = Base(h, l + 1) BY <4>3, <3>3, <2>4, <2>5, <3>0, <1>0
      <4>5. h \in Aligned(l + 1) /\ h \in Span(h, l + 1)
        <5>1. l + 1 \in 0 .. src BY <2>8, <1>0
        <5> QED BY <5>1, <3>0, <1>0, <1>1, SplitGeometry, SpanInCells
      <4>6. p = h BY <4>4, <4>5, <3>0, BaseUnique
      <4>7. s = h \/ s = h + Pow2[l] BY <4>6, <3>3, <3>0, Parent DEF p
      <4>8. s # h
        <5> SUFFICES ASSUME s = h PROVE FALSE OBVIOUS
        <5>1. h \in Span(h, l) BY <3>3, <2>3, SpanInCells
        <5> QED BY <5>1, <1>2, <4>1 DEF Meets
      <4> QED BY <4>7, <4>8
    <3> QED BY <3>0, <3>1, <3>2, <3>3 DEF p
  <2>9. CASE l < o
    <3>0. l + 1 < Level /\ l + 1 \in 0 .. Sz /\ l + 1 <= o /\ l <= o BY <2>9, <1>0, <2>3
    <3>1. free'[l] = free[l]
      <4>1. l # src /\ l \notin o .. (src - 1) BY <2>9, <1>0
      <4> QED BY <4>1 DEF AfterSplit
    <3>2. ASSUME s \in Aligned(l), Meets(s, l) \/ Meets(p, l + 1)
          PROVE  Clear(p, l + 1) /\ Meets(s, l)
      <4>1. p \in Aligned(l + 1) /\ Span(s, l) \subseteq Span(p, l + 1) BY <3>0, <3>2, <2>4
      <4>2. Meets(p, l + 1) BY <3>2, <4>1 DEF Meets
      <4>3. Span(p, l + 1) \subseteq Span(h, o) BY <4>1, <4>2, <3>0, <2>5
      <4>4. Clear(p, l + 1) BY <4>3, <1>3, ClearPart
      <4>5. s \in Span(s, l) BY <3>2, <2>3, SpanInCells
      <4> QED BY <4>1, <4>3, <4>4, <4>5 DEF Meets
    <3> QED BY <3>0, <3>1, <3>2, <2>1, <2>2 DEF p
  <2>10. l > src \/ l = src \/ l \in o .. (src - 1) \/ l < o BY <2>3, <1>0
  <2> QED BY <2>6, <2>7, <2>8, <2>9, <2>10
<1> QED BY <1>4, <1>5, <1>6, <1>7 DEF IInv

(* Block sizes grow strictly with the order. *)
LEMMA Pow2Strict ==
  ASSUME NEW j \in Nat, NEW l \in 0 .. Sz, j < l
  PROVE  Pow2[j] < Pow2[l]
<1>0. j \in 0 .. (Sz - 1) /\ j \in 0 .. Sz /\ j + 1 \in 0 .. Sz /\ l \in (j + 1) .. Sz
  BY SizeAssumption
<1>1. PICK d \in Nat \ {0} : Pow2[l] = d * Pow2[j + 1] BY <1>0, Pow2Divides
<1>2. Pow2[j + 1] = 2 * Pow2[j] /\ Pow2[j] \in Nat \ {0} BY <1>0, Pow2Assumption, Pow2Type
<1>3. Pow2[l] = (2 * d) * Pow2[j] BY <1>1, <1>2
<1>4. 1 < 2 * d /\ 2 * d \in Nat OBVIOUS
<1>5. 1 * Pow2[j] < (2 * d) * Pow2[j]
  <2>1. 1 * Pow2[j] + Pow2[j] <= (2 * d) * Pow2[j] BY <1>2, <1>4, Step
  <2> QED BY <2>1, <1>2, <1>4
<1> QED BY <1>2, <1>3, <1>5

(* Two held blocks with a common cell are the same block. *)
LEMMA HeldApart ==
  ASSUME TypeOK, NoOverlap, NEW b \in held, NEW c \in held,
         NEW x \in Span(b[1], b[2]), x \in Span(c[1], c[2])
  PROVE  b = c
BY DEF NoOverlap, Disjoint

(* A held block lies in the arena, its first cell and its tail cell in it. *)
LEMMA HeldSpan ==
  ASSUME TypeOK, NEW b \in held
  PROVE  /\ Span(b[1], b[2]) \subseteq Cells
         /\ b[1] \in Span(b[1], b[2])
         /\ TailCell(b[1], b[2]) \in Span(b[1], b[2])
BY HeldFacts, SpanInCells

(* The scan of buddy_free2 finds the order of every held block: a smaller   *)
(* tail cell of it would be the tail of another held block inside it.       *)
LEMMA OrderFoundInv == IInv => OrderFound
<1> SUFFICES ASSUME IInv, NEW b \in held, NEW k \in Orders
    PROVE FoundOrder(b[1], k) <=> k = b[2]
  BY DEF OrderFound
<1>0. TypeOK /\ NoOverlap /\ TailsOfHeld BY DEF IInv
<1>1. TailCell(b[1], b[2]) \in tail BY <1>0 DEF TailsOfHeld
<1>2. ASSUME NEW j \in Nat, j < b[2] PROVE TailCell(b[1], j) \notin tail
  <2> SUFFICES ASSUME TailCell(b[1], j) \in tail PROVE FALSE OBVIOUS
  <2>1. PICK c \in held : TailCell(b[1], j) = TailCell(c[1], c[2]) BY <1>0 DEF TailsOfHeld
  <2>2. /\ b[2] \in 0 .. Sz /\ j \in 0 .. b[2] /\ j \in 0 .. Sz /\ b[1] \in Nat
        /\ Pow2[j] \in Nat /\ Pow2[b[2]] \in Nat /\ Pow2[j] < Pow2[b[2]]
    BY <1>0, <1>2, HeldFacts, Pow2Strict, Pow2Type, SizeAssumption DEF Aligned, Cells
  <2>3. TailCell(b[1], j) \in Span(b[1], b[2])
    <3>1. b[1] \in Aligned(b[2]) BY <1>0, HeldFacts
    <3>2. b[1] \in Aligned(j) /\ Span(b[1], j) \subseteq Span(b[1], b[2])
      BY <2>2, <3>1, SplitGeometry
    <3> QED BY <2>2, <3>2, SpanInCells
  <2>4. TailCell(c[1], c[2]) \in Span(c[1], c[2]) BY <1>0, HeldSpan
  <2>5. b = c BY <1>0, <2>1, <2>3, <2>4, HeldApart
  <2> QED BY <2>1, <2>2, <2>5 DEF TailCell
<1>3. k \in Nat /\ b[2] \in Nat /\ b[2] \in Orders BY <1>0, HeldFacts, Sizes
<1>4. FoundOrder(b[1], b[2]) BY <1>1, <1>2, <1>3 DEF FoundOrder
<1>5. ASSUME FoundOrder(b[1], k), k # b[2] PROVE FALSE
  <2>1. CASE k < b[2] BY <2>1, <1>2, <1>3, <1>5 DEF FoundOrder
  <2>2. CASE b[2] < k
    <3>1. b[2] \in 0 .. (k - 1) BY <2>2, <1>3
    <3> QED BY <3>1, <1>1, <1>5 DEF FoundOrder
  <2> QED BY <2>1, <2>2, <1>3, <1>5
<1> QED BY <1>4, <1>5

(* What buddy_free2 does to the held blocks and the bitmap when it clears   *)
(* the bit of b: only b goes, the bitmap still marks the held blocks, and a *)
(* block is clear afterwards exactly if it was clear or met b alone.        *)
LEMMA ReleaseFacts ==
  ASSUME IInv, NEW b \in held,
         tail' = tail \ {TailCell(b[1], b[2])},
         held' = {c \in held : c[1] # b[1]}
  PROVE  /\ held' = held \ {b}
         /\ NoOverlap' /\ TailsOfHeld'
         /\ \A t, j : Clear(t, j) <=> Clear(t, j)' /\ Disjoint(b, <<t, j>>)
         /\ Clear(b[1], b[2])'
<1>0. TypeOK /\ NoOverlap /\ TailsOfHeld BY DEF IInv
<1>1. held' = held \ {b}
  <2>1. \A c \in held : c[1] = b[1] => c = b BY <1>0, HeldSpan, HeldApart
  <2> QED BY <2>1
<1>2. NoOverlap' BY <1>0, <1>1 DEF NoOverlap, Disjoint
<1>3. \A c \in held : c # b => TailCell(c[1], c[2]) # TailCell(b[1], b[2])
  BY <1>0, HeldSpan, HeldApart
<1>4. TailsOfHeld'
  <2>1. tail = {TailCell(c[1], c[2]) : c \in held} BY <1>0 DEF TailsOfHeld
  <2>2. {TailCell(c[1], c[2]) : c \in held} \ {TailCell(b[1], b[2])}
          = {TailCell(c[1], c[2]) : c \in held \ {b}}
    BY <1>3
  <2> QED BY <1>1, <2>1, <2>2 DEF TailsOfHeld, TailCell
<1>5. ASSUME NEW t, NEW j
      PROVE Clear(t, j) <=> Clear(t, j)' /\ Disjoint(b, <<t, j>>)
  <2>1. Clear(t, j)' <=> \A c \in held \ {b} : Disjoint(c, <<t, j>>)
    BY <1>1 DEF Clear, Disjoint
  <2> QED BY <2>1 DEF Clear
<1>6. Clear(b[1], b[2])'
  <2>1. b = <<b[1], b[2]>> BY <1>0, HeldFacts
  <2>2. \A c \in held \ {b} : Disjoint(c, <<b[1], b[2]>>)
    BY <1>0, <2>1 DEF NoOverlap
  <2> QED BY <1>1, <2>2 DEF Clear, Disjoint
<1> QED BY <1>1, <1>2, <1>4, <1>5, <1>6

(* _merge may test the bitmap alone: the block of order j around the        *)
(* released one has no bit left exactly when no caller holds a cell of it. A*)
(* held block that meets it without having its tail inside would contain the*)
(* released block.                                                          *)
LEMMA TailBitsTell ==
  ASSUME IInv, NEW b \in held,
         tail' = tail \ {TailCell(b[1], b[2])},
         held' = {c \in held : c[1] # b[1]},
         NEW j \in Orders, b[2] <= j
  PROVE  Span(Base(b[1], j), j) \cap tail' = {} <=> Clear(Base(b[1], j), j)'
<1> DEFINE t == Base(b[1], j)
<1>0. /\ TypeOK /\ NoOverlap /\ j \in 0 .. Sz /\ j \in Nat
      /\ held' = held \ {b} /\ TailsOfHeld'
  BY ReleaseFacts, Sizes DEF IInv
<1>1. b[1] \in Cells /\ b[1] \in Span(b[1], b[2]) BY <1>0, HeldSpan
<1>2. t \in Aligned(j) /\ b[1] \in Span(t, j) BY <1>0, <1>1, BaseAligned
<1>3. tail' = {TailCell(c[1], c[2]) : c \in held'} BY <1>0 DEF TailsOfHeld, TailCell
<1>4. Clear(t, j)' <=> \A c \in held' : Span(c[1], c[2]) \cap Span(t, j) = {}
  BY DEF Clear, Disjoint, Span, Base
<1> HIDE DEF t
<1>5. ASSUME Clear(t, j)', NEW c \in held', TailCell(c[1], c[2]) \in Span(t, j) PROVE FALSE
  <2>1. TailCell(c[1], c[2]) \in Span(c[1], c[2]) BY <1>0, HeldSpan
  <2> QED BY <2>1, <1>4, <1>5
<1>6. ASSUME NEW c \in held', Span(c[1], c[2]) \cap Span(t, j) # {}
      PROVE  TailCell(c[1], c[2]) \in Span(t, j)
  <2>0. /\ c \in held /\ c # b /\ c[2] \in 0 .. Sz /\ c[2] \in Nat /\ c[1] \in Aligned(c[2])
        /\ TailCell(c[1], c[2]) \in Span(c[1], c[2])
    BY <1>0, HeldFacts, HeldSpan
  <2>1. CASE c[2] <= j
    <3>1. j \in c[2] .. Sz BY <2>1, <2>0, <1>0
    <3>2. Span(c[1], c[2]) \subseteq Span(t, j) BY <3>1, <2>0, <1>2, <1>6, Nested
    <3> QED BY <3>2, <2>0
  <2>2. CASE j <= c[2]
    <3>1. c[2] \in j .. Sz BY <2>2, <2>0, <1>0
    <3>2. Span(t, j) \subseteq Span(c[1], c[2]) BY <3>1, <2>0, <1>0, <1>2, <1>6, Nested
    <3>3. b = c BY <3>2, <1>0, <1>1, <1>2, <2>0, HeldApart
    <3> QED BY <3>3, <2>0
  <2> QED BY <2>0, <2>1, <2>2, <1>0
<1>7. Span(t, j) \cap tail' = {} <=> Clear(t, j)' BY <1>3, <1>4, <1>5, <1>6
<1> QED BY <1>7 DEF t

(* buddy_free2 with its _merge keeps the invariant. The cases of the free   *)
(* lists are those of the climb: above the last merge, at it, between the   *)
(* released order and the last merge, and below the released order.         *)
LEMMA FreeInv ==
  ASSUME IInv, NEW b \in held, Free(b[1])
  PROVE  IInv'
<1> DEFINE a == b[1]
           k == b[2]
           Meets(t, j) == ~ Disjoint(b, <<t, j>>)
<1>0. /\ TypeOK /\ FreeExact
      /\ k \in Orders /\ k \in 0 .. Sz /\ k \in Nat
      /\ a \in Aligned(k) /\ a \in Cells /\ a \in Span(a, k)
      /\ Level \in Nat /\ Level <= Sz /\ Sz \in Nat
  BY Sizes, SizeAssumption, HeldFacts, HeldSpan DEF IInv, Aligned
<1>1. PICK m \in Orders :
        /\ tail' = tail \ {TailCell(a, k)}
        /\ MergesTo(a, k, m, tail')
        /\ free' = AfterMerge(a, k, m)
        /\ held' = {c \in held : c[1] # a}
        /\ asked' = asked /\ ret' = ret
  <2>1. OrderFound BY OrderFoundInv
  <2> QED BY <2>1 DEF Free, OrderFound
<1>2. /\ m \in Nat /\ m \in 0 .. Sz /\ k <= m /\ m < Level
      /\ NoOverlap' /\ TailsOfHeld'
      /\ \A t, j : Clear(t, j) <=> Clear(t, j)' /\ ~ Meets(t, j)
      /\ Clear(a, k)'
      /\ held' \subseteq held
  BY <1>0, <1>1, Sizes, ReleaseFacts DEF MergesTo
<1>3. ASSUME NEW t, NEW j PROVE Meets(t, j) <=> Span(a, k) \cap Span(t, j) # {}
  BY DEF Disjoint
<1> HIDE DEF a, k, Meets
\* every block around a up to order m has become clear, the next one has not
<1>4. \A j \in k .. m : Clear(Base(a, j), j)'
  <2> SUFFICES ASSUME NEW j \in k .. m PROVE Clear(Base(a, j), j)' OBVIOUS
  <2>1. CASE j = k
    <3>1. a = Base(a, k) BY <1>0, BaseUnique
    <3> QED BY <2>1, <3>1, <1>2
  <2>2. CASE j \in (k + 1) .. m
    <3>1. Span(Base(a, j), j) \cap tail' = {} BY <2>2, <1>1 DEF MergesTo
    <3>2. j \in Orders /\ k <= j BY <2>2, <1>0, <1>2 DEF Orders
    <3> QED BY <3>1, <3>2, <1>1, TailBitsTell DEF a, k
  <2> QED BY <2>1, <2>2, <1>0, <1>2
<1>5. m + 1 < Level => ~ Clear(Base(a, m + 1), m + 1)'
  <2> SUFFICES ASSUME m + 1 < Level PROVE ~ Clear(Base(a, m + 1), m + 1)' OBVIOUS
  <2>1. Span(Base(a, m + 1), m + 1) \cap tail' # {} BY <1>1 DEF MergesTo
  <2>2. m + 1 \in Orders /\ k <= m + 1 BY <1>0, <1>2 DEF Orders
  <2> QED BY <2>1, <2>2, <1>1, TailBitsTell DEF a, k
\* the block of order j at t lies in, or contains, the released block
<1>6. ASSUME NEW j \in 0 .. Sz, NEW t \in Aligned(j), Meets(t, j)
      PROVE  /\ k <= j => a \in Span(t, j) /\ t = Base(a, j)
             /\ j <= k => Span(t, j) \subseteq Span(a, k)
  <2>0. Span(a, k) \cap Span(t, j) # {} BY <1>3, <1>6
  <2>1. k <= j => Span(a, k) \subseteq Span(t, j) BY <2>0, <1>0, Nested
  <2>2. j <= k => Span(t, j) \subseteq Span(a, k) BY <2>0, <1>0, Nested
  <2>3. a \in Span(t, j) => t = Base(a, j) BY BaseUnique
  <2> QED BY <2>1, <2>2, <2>3, <1>0
\* above order m nothing has changed
<1>7. ASSUME NEW j \in 0 .. Sz, m < j, j < Level, NEW t \in Aligned(j)
      PROVE  Clear(t, j) <=> Clear(t, j)'
  <2> SUFFICES ASSUME Meets(t, j), Clear(t, j)' PROVE FALSE BY <1>2
  <2> DEFINE u == Base(a, m + 1)
  <2>1. /\ m + 1 \in 0 .. Sz /\ m + 1 < Level /\ j \in (m + 1) .. Sz /\ k <= j
    BY <1>0, <1>2, <1>7
  <2>2. u \in Aligned(m + 1) /\ a \in Span(u, m + 1) BY <2>1, <1>0, BaseAligned
  <2>3. a \in Span(t, j) BY <2>1, <1>6
  <2> HIDE DEF u
  <2>4. Span(u, m + 1) \subseteq Span(t, j) BY <2>1, <2>2, <2>3, Nested
  <2>5. Clear(u, m + 1)' BY <2>4 DEF Clear, Disjoint, Span
  <2> QED BY <2>1, <2>5, <1>5 DEF u
<1>8. TypeOK'
  <2>1. Base(a, m) \in Cells BY <1>0, <1>2, BaseAligned DEF Aligned
  <2>2. \A l \in Orders : AfterMerge(a, k, m)[l] \subseteq Cells
    BY <2>1, <1>0 DEF TypeOK, AfterMerge
  <2>3. free' \in [Orders -> SUBSET Cells] BY <2>2, <1>1 DEF AfterMerge
  <2> QED BY <2>3, <1>0, <1>1, <1>2 DEF TypeOK
<1>9. FreeExact'
  <2> SUFFICES ASSUME NEW l \in Orders, NEW s \in Cells
      PROVE s \in free'[l] <=> (s \in Aligned(l) /\ Clear(s, l)'
                  /\ (l + 1 < Level => ~ Clear(Base(s, l + 1), l + 1)'))
    BY DEF FreeExact
  <2> DEFINE p == Base(s, l + 1)
  <2>1. s \in free[l] <=> (s \in Aligned(l) /\ Clear(s, l) /\ (l + 1 < Level => ~ Clear(p, l + 1)))
    BY <1>0 DEF FreeExact
  <2>2. l \in Nat /\ l \in 0 .. Sz /\ l < Level /\ (l + 1 < Level => l \in 0 .. (Sz - 1) /\ l + 1 \in 0 .. Sz)
    BY Sizes, <1>0
  <2>3. s \in Aligned(l) /\ l + 1 < Level =>
          /\ p \in Aligned(l + 1) /\ Span(s, l) \subseteq Span(p, l + 1)
          /\ s = p \/ s = p + Pow2[l]
    BY <2>2, Parent
  <2>4. s \in Aligned(l) => s \in Span(s, l) BY <2>2, SpanInCells
  <2> HIDE DEF p
  <2>5. CASE m < l
    <3>1. free'[l] = free[l] BY <2>5, <2>2, <1>1, <1>2 DEF AfterMerge
    <3>2. s \in Aligned(l) => (Clear(s, l) <=> Clear(s, l)') BY <2>5, <2>2, <1>7
    <3>3. s \in Aligned(l) /\ l + 1 < Level => (Clear(p, l + 1) <=> Clear(p, l + 1)')
      BY <2>5, <2>2, <2>3, <1>2, <1>7
    <3> QED BY <3>1, <3>2, <3>3, <2>1 DEF p
  <2>6. CASE l = m
    <3>1. free'[l] = free[l] \cup {Base(a, m)} BY <2>6, <1>1 DEF AfterMerge
    <3>2. Base(a, m) \in Aligned(m) /\ a \in Span(Base(a, m), m) BY <1>0, <1>2, BaseAligned
    <3>3. s \in Aligned(l) /\ l + 1 < Level => (Clear(p, l + 1) <=> Clear(p, l + 1)')
      BY <2>6, <2>2, <2>3, <1>2, <1>7
    <3>4. ASSUME s = Base(a, m)
          PROVE  s \in Aligned(l) /\ Clear(s, l)' /\ (l + 1 < Level => ~ Clear(p, l + 1)')
      <4>1. Clear(s, l)' BY <3>4, <2>6, <1>2, <1>4
      <4>2. l + 1 < Level => p = Base(a, l + 1)
        BY <3>2, <3>4, <2>2, <2>3, <2>6, BaseUnique
      <4> QED BY <4>1, <4>2, <3>2, <3>4, <2>6, <1>5
    <3>5. s \in Aligned(l) /\ s # Base(a, m) => (Clear(s, l) <=> Clear(s, l)')
      BY <2>2, <2>6, <1>2, <1>6
    <3> QED BY <3>1, <3>3, <3>4, <3>5, <2>1 DEF p
  <2>7. CASE l \in k .. (m - 1)
    <3>0. l + 1 < Level /\ l + 1 \in 0 .. Sz /\ l \in 0 .. (Sz - 1) /\ l # m
          /\ l + 1 \in k .. m /\ k <= l + 1
      BY <2>7, <2>2, <1>0, <1>2
    <3>1. free'[l] = free[l] \ {Base(a, l + 1), Base(a, l + 1) + Pow2[l]}
      BY <2>7, <3>0, <1>1 DEF AfterMerge
    <3>2. CASE s \in Aligned(l) /\ p = Base(a, l + 1)
      <4>1. s \notin free'[l] BY <3>0, <3>1, <3>2, <2>3
      <4>2. Clear(p, l + 1)' BY <3>0, <3>2, <1>4
      <4> QED BY <4>1, <4>2, <3>0 DEF p
    <3>3. CASE s \in Aligned(l) /\ p # Base(a, l + 1)
      <4>1. ~ Meets(p, l + 1) BY <3>0, <3>3, <2>3, <1>6
      <4>2. ~ Meets(s, l) BY <4>1, <3>0, <3>3, <2>3, <1>3
      <4>3. s # Base(a, l + 1) /\ s # Base(a, l + 1) + Pow2[l]
        <5> DEFINE u == Base(a, l + 1)
        <5>1. u \in Aligned(l + 1) BY <3>0, <1>0, BaseAligned
        <5> HIDE DEF u
        <5>2. /\ u \in Span(u, l + 1)
              /\ u + Pow2[l] \in Aligned(l)
              /\ Span(u + Pow2[l], l) \subseteq Span(u, l + 1)
          BY <5>1, <3>0, Halves, SpanInCells
        <5>3. u + Pow2[l] \in Span(u, l + 1) BY <5>2, <2>2, SpanInCells
        <5>4. u = Base(u, l + 1) /\ u = Base(u + Pow2[l], l + 1)
          BY <5>1, <5>2, <5>3, <3>0, BaseUnique
        <5> QED BY <5>4, <3>3 DEF p, u
      <4> QED BY <4>1, <4>2, <4>3, <3>0, <3>1, <2>1, <1>2 DEF p
    <3>4. CASE s \notin Aligned(l) BY <3>1, <3>4, <2>1
    <3> QED BY <3>2, <3>3, <3>4
  <2>8. CASE l < k
    <3>0. l + 1 < Level /\ l + 1 \in 0 .. Sz /\ l + 1 <= k /\ l <= k BY <2>8, <2>2, <1>0, <1>2
    <3>1. free'[l] = free[l] BY <2>8, <2>2, <1>0, <1>1, <1>2 DEF AfterMerge
    <3>2. ASSUME s \in Aligned(l), Meets(s, l) \/ Meets(p, l + 1)
          PROVE  Meets(s, l) /\ Clear(p, l + 1)'
      <4>1. Meets(p, l + 1) BY <3>0, <3>2, <2>3, <1>3
      <4>2. Span(p, l + 1) \subseteq Span(a, k) BY <4>1, <3>0, <3>2, <2>3, <1>6
      <4>3. Clear(p, l + 1)'
        <5>1. Clear(a, k)' BY <1>2
        <5> QED BY <5>1, <4>2 DEF Clear, Disjoint, Span
      <4> QED BY <4>2, <4>3, <3>0, <3>2, <2>3, <2>4, <1>3
    <3> QED BY <3>0, <3>1, <3>2, <2>1, <1>2 DEF p
  <2>9. m < l \/ l = m \/ l \in k .. (m - 1) \/ l < k BY <2>2, <1>0, <1>2
  <2> QED BY <2>5, <2>6, <2>7, <2>8, <2>9
<1> QED BY <1>2, <1>8, <1>9 DEF IInv

(* Every step keeps the invariant. *)
LEMMA NextInv == IInv /\ [Next]_vars => IInv'
<1> SUFFICES ASSUME IInv, [Next]_vars PROVE IInv' OBVIOUS
<1>1. ASSUME NEW o \in -1 .. Level, Alloc(o) PROVE IInv'
  <2>1. o \in Orders BY <1>1 DEF Alloc
  <2>2. PICK src \in Orders :
          /\ Serves(o, src)
          /\ \E h \in free[src] :
               /\ free' = AfterSplit(o, src, h)
               /\ tail' = tail \cup {TailCell(h, o)}
               /\ held' = held \cup {<<h, o>>}
               /\ asked' = o
               /\ ret'  = h
    BY <1>1 DEF Alloc
  <2> QED BY <2>1, <2>2, AllocInv
<1>2. ASSUME NEW o \in -1 .. Level, Refuse(o) PROVE IInv'
  <2>1. TypeOK' BY <1>2 DEF Refuse, IInv, TypeOK
  <2>2. NoOverlap' /\ TailsOfHeld'
    BY <1>2 DEF Refuse, IInv, NoOverlap, TailsOfHeld, Disjoint, TailCell
  <2>3. FreeExact' BY <1>2 DEF Refuse, IInv, FreeExact, Clear, Disjoint
  <2> QED BY <2>1, <2>2, <2>3 DEF IInv
<1>3. ASSUME NEW b \in held, Free(b[1]) PROVE IInv' BY <1>3, FreeInv
<1>4. CASE UNCHANGED vars
  <2>1. TypeOK' BY <1>4 DEF vars, IInv, TypeOK
  <2>2. NoOverlap' /\ TailsOfHeld'
    BY <1>4 DEF vars, IInv, NoOverlap, TailsOfHeld, Disjoint, TailCell
  <2>3. FreeExact' BY <1>4 DEF vars, IInv, FreeExact, Clear, Disjoint
  <2> QED BY <2>1, <2>2, <2>3 DEF IInv
<1> QED BY <1>1, <1>2, <1>3, <1>4 DEF Next

(* The inductive invariant holds of every behaviour of the buddy system,    *)
(* whatever the size of the arena and the number of its lists.              *)
THEOREM Invariance == Spec => []IInv
<1>1. Init => IInv BY InitInv
<1>2. IInv /\ [Next]_vars => IInv' BY NextInv
<1> QED BY <1>1, <1>2, PTL DEF Spec

(* The free lists, the bitmap and the held blocks stay inside the arena. *)
THEOREM TypeCorrect == Spec => []TypeOK
<1>1. IInv => TypeOK BY DEF IInv
<1> QED BY <1>1, Invariance, PTL

(* No cell is ever handed out twice: two node arrays of the trie never share*)
(* memory.                                                                  *)
THEOREM HeldBlocksApart == Spec => []NoOverlap
<1>1. IInv => NoOverlap BY DEF IInv
<1> QED BY <1>1, Invariance, PTL

(* The bitmap that buddy_free2 and _merge read always has exactly the tail  *)
(* bits of the held blocks.                                                 *)
THEOREM BitmapMarksHeld == Spec => []TailsOfHeld
<1>1. IInv => TailsOfHeld BY DEF IInv
<1> QED BY <1>1, Invariance, PTL

(* The free lists always hold exactly the maximal free blocks: splitting and*)
(* merging lose and duplicate nothing.                                      *)
THEOREM FreeListsExact == Spec => []FreeExact
<1>1. IInv => FreeExact BY DEF IInv
<1> QED BY <1>1, Invariance, PTL

(* buddy_free2, which is told an address alone, always finds the size the   *)
(* block was allocated with.                                                *)
THEOREM SizeReadBack == Spec => []OrderFound
<1> QED BY OrderFoundInv, Invariance, PTL

(* When every list from o upwards is empty no block of order o is clear: a  *)
(* clear one would make the block around it clear, order by order, up to the*)
(* largest, which would be on its list.                                     *)
LEMMA RefusalJustified ==
  ASSUME IInv, NEW o \in Orders, \A l \in o .. (Level - 1) : free[l] = {},
         NEW s \in Aligned(o)
  PROVE  ~ Clear(s, o)
<1> DEFINE N == Level - 1 - o
           P == {i \in Nat : Clear(Base(s, o + i), o + i)}
<1>0. /\ Level \in Nat /\ o \in Nat /\ o \in 0 .. Sz /\ Level <= Sz /\ o < Level /\ N \in Nat
      /\ Sz \in Nat
      /\ FreeExact /\ s \in Cells
  BY Sizes, SizeAssumption DEF IInv, Aligned
<1> SUFFICES ASSUME Clear(s, o) PROVE FALSE OBVIOUS
<1>1. 0 \in P
  <2>1. s = Base(s, o + 0) /\ o + 0 = o BY <1>0, SpanInCells, BaseUnique
  <2> QED BY <2>1
<1>2. ASSUME NEW i \in 0 .. (N - 1), i \in P PROVE i + 1 \in P
  <2> DEFINE j == o + i
             t == Base(s, j)
             u == Base(t, j + 1)
  <2>1. /\ j \in Orders /\ j \in 0 .. (Sz - 1) /\ j \in 0 .. Sz /\ j + 1 \in 0 .. Sz
        /\ j + 1 < Level /\ free[j] = {} /\ o + (i + 1) = j + 1
    <3>1. i \in Nat /\ i < N BY <1>0
    <3>2. j \in o .. (Level - 1) /\ j + 1 < Level BY <3>1, <1>0
    <3> HIDE DEF j
    <3>3. free[j] = {} BY <3>2
    <3>4. o + (i + 1) = j + 1 BY <3>1, <1>0 DEF j
    <3> QED BY <3>2, <3>3, <3>4, <1>0 DEF Orders
  <2> HIDE DEF j
  <2>2. t \in Aligned(j) /\ s \in Span(t, j) BY <2>1, <1>0, BaseAligned
  <2>3. Clear(t, j) BY <1>2 DEF j
  <2> HIDE DEF t
  <2>4. Clear(u, j + 1) BY <2>1, <2>2, <2>3, <1>0 DEF FreeExact, Aligned
  <2>5. u \in Aligned(j + 1) /\ s \in Span(u, j + 1) BY <2>1, <2>2, Parent
  <2> HIDE DEF u
  <2>6. u = Base(s, j + 1) BY <2>1, <2>5, BaseUnique
  <2> QED BY <2>1, <2>4, <2>6
<1>3. N \in P
  <2> HIDE DEF P, N
  <2>1. \A i \in 0 .. N : i \in P BY <1>0, <1>1, <1>2, SetInduction
  <2> QED BY <2>1, <1>0
<1>4. o + N = Level - 1 /\ Level - 1 \in Orders /\ Level - 1 \in 0 .. Sz /\ free[Level - 1] = {}
      /\ ~ (Level - 1 + 1 < Level)
  BY <1>0, SizeAssumption DEF Orders
<1>5. Clear(Base(s, Level - 1), Level - 1) BY <1>3, <1>4
<1>6. Base(s, Level - 1) \in Aligned(Level - 1) BY <1>0, <1>4, BaseAligned
<1> QED BY <1>0, <1>4, <1>5, <1>6 DEF FreeExact, Aligned

(* Every step of the buddy system is a step of the pool, or changes neither *)
(* the held blocks nor the answer.                                          *)
LEMMA PoolStep == IInv /\ [Next]_vars => [Pool!Next]_(Pool!vars)
<1> SUFFICES ASSUME IInv, [Next]_vars PROVE [Pool!Next]_(Pool!vars) OBVIOUS
<1>1. ASSUME NEW o \in -1 .. Level, Alloc(o) PROVE Pool!Alloc(o)
  <2>0. PICK src \in Orders :
          /\ Serves(o, src)
          /\ \E h \in free[src] :
               held' = held \cup {<<h, o>>} /\ asked' = o /\ ret' = h
    BY <1>1 DEF Alloc
  <2>1. PICK h \in free[src] : held' = held \cup {<<h, o>>} /\ asked' = o /\ ret' = h
    BY <2>0
  <2>2. /\ o \in Orders /\ o \in 0 .. src /\ src \in 0 .. Sz
        /\ h \in Cells /\ h \in Aligned(src) /\ Clear(h, src)
    BY <1>1, <2>0, <2>1, Sizes DEF Alloc, Serves, IInv, TypeOK, FreeExact
  <2>3. h \in Aligned(o) /\ Span(h, o) \subseteq Span(h, src) BY <2>2, SplitGeometry
  <2>4. Clear(h, o) BY <2>2, <2>3, ClearPart
  <2>5. <<h, o>> \in Pool!Blocks
    BY <2>2, <2>3 DEF Pool!Blocks, Pool!Cells, Pool!Orders, Aligned, Cells, Orders
  <2>6. Pool!Unheld(<<h, o>>) BY <2>4 DEF Pool!Unheld, Pool!Span, Clear, Disjoint, Span
  <2> QED BY <2>1, <2>5, <2>6 DEF Pool!Alloc
<1>2. ASSUME NEW o \in -1 .. Level, Refuse(o) PROVE Pool!Refuse(o)
  <2>1. ASSUME NEW b \in Pool!Blocks, b[2] = o PROVE ~ Pool!Unheld(b)
    <3>1. b \in Cells \X Orders /\ b[1] % Pow2[b[2]] = 0
      BY DEF Pool!Blocks, Pool!Cells, Pool!Orders, Cells, Orders
    <3>2. o \in Orders /\ b[1] \in Aligned(o) BY <3>1, <2>1 DEF Aligned
    <3>3. ~ Clear(b[1], o) BY <3>2, <1>2, RefusalJustified DEF Refuse
    <3> QED BY <3>3, <2>1 DEF Pool!Unheld, Pool!Span, Clear, Disjoint, Span
  <2> QED BY <2>1, <1>2 DEF Refuse, Pool!Refuse, Pool!Failed, Failed
<1>3. ASSUME NEW b \in held, Free(b[1]) PROVE Pool!Release(b)
  <2>1. OrderFound BY OrderFoundInv
  <2>2. /\ tail' = tail \ {TailCell(b[1], b[2])}
        /\ held' = {c \in held : c[1] # b[1]}
        /\ asked' = asked /\ ret' = ret
    BY <2>1, <1>3 DEF Free, OrderFound
  <2>3. held' = held \ {b} BY <2>2, ReleaseFacts
  <2> QED BY <2>2, <2>3 DEF Pool!Release
<1>4. CASE UNCHANGED vars BY <1>4 DEF vars, Pool!vars
<1> QED BY <1>1, <1>2, <1>3, <1>4 DEF Next, Pool!Next, Pool!Requests

(* The buddy system implements the block pool: it hands out only free       *)
(* aligned blocks of the order asked for, and returns -1 only when there is *)
(* none (or the order is out of range).                                     *)
THEOREM ImplementsPool == Spec => RefinesPool
<1>1. Init => Pool!Init BY DEF Init, Pool!Init, Pool!Failed, Failed
<1> QED BY <1>1, PoolStep, Invariance, PTL DEF Spec, RefinesPool, Pool!Spec
-----------------------------------------------------------------------------
(* What the loops of buddy_xid.c do to the free lists one order at a time,  *)
(* for the proof that its linked lists follow these sets (BuddyProofs).     *)

(* Two blocks on the free lists share no cell. *)
LEMMA FreeApart ==
  ASSUME IInv, NEW k \in Orders, NEW l \in Orders, NEW s \in free[k], NEW t \in free[l],
         Span(s, k) \cap Span(t, l) # {}
  PROVE  k = l /\ s = t
<1>1. ASSUME NEW i \in Orders, NEW j \in Orders, NEW x \in free[i], NEW y \in free[j],
             Span(x, i) \cap Span(y, j) # {}, i <= j
      PROVE  i = j /\ x = y
  <2>0. /\ i \in 0 .. Sz /\ j \in 0 .. Sz /\ j \in i .. Sz /\ i \in Nat /\ j \in Nat
        /\ j < Level /\ Level <= Sz /\ Level \in Nat /\ Sz \in Nat
    BY <1>1, Sizes, SizeAssumption
  <2>1. /\ x \in Cells /\ x \in Aligned(i) /\ (i + 1 < Level => ~ Clear(Base(x, i + 1), i + 1))
        /\ y \in Cells /\ y \in Aligned(j) /\ Clear(y, j)
    BY <1>1 DEF IInv, TypeOK, FreeExact
  <2>2. x \in Span(x, i) /\ Span(x, i) \subseteq Span(y, j)
    BY <1>1, <2>0, <2>1, Nested, SpanInCells
  <2>3. CASE i = j
    <3>1. y = Base(x, i) /\ x = Base(x, i) BY <2>0, <2>1, <2>2, <2>3, BaseUnique
    <3> QED BY <2>3, <3>1
  <2>4. CASE i # j
    <3>1. i + 1 < Level /\ i + 1 \in 0 .. Sz /\ j \in (i + 1) .. Sz BY <1>1, <2>0, <2>4
    <3>2. Base(x, i + 1) \in Aligned(i + 1) /\ x \in Span(Base(x, i + 1), i + 1)
      BY <2>1, <3>1, BaseAligned
    <3>3. Span(Base(x, i + 1), i + 1) \cap Span(y, j) # {} BY <2>2, <3>2
    <3>4. Span(Base(x, i + 1), i + 1) \subseteq Span(y, j) BY <2>1, <3>1, <3>2, <3>3, Nested
    <3> QED BY <2>1, <3>1, <3>4, ClearPart
  <2> QED BY <2>3, <2>4
<1>2. k \in Nat /\ l \in Nat BY Sizes
<1>3. k <= l \/ l <= k BY <1>2
<1> QED BY <1>1, <1>3

(* No cell is the address of two free blocks. *)
LEMMA FreeOnce ==
  ASSUME IInv, NEW k \in Orders, NEW l \in Orders, k # l
  PROVE  free[k] \cap free[l] = {}
<1> SUFFICES ASSUME NEW s \in free[k], s \in free[l] PROVE FALSE OBVIOUS
<1>1. s \in Aligned(k) /\ s \in Aligned(l) /\ k \in 0 .. Sz /\ l \in 0 .. Sz
  BY Sizes DEF IInv, TypeOK, FreeExact
<1>2. s \in Span(s, k) /\ s \in Span(s, l) BY <1>1, SpanInCells
<1> QED BY <1>2, FreeApart

(* The lists when the block h of order src has been split down to order j:  *)
(* h itself is still on list j.                                             *)
Midway(j, src, h) ==
  [l \in Orders |-> IF l = j THEN AfterSplit(j, src, h)[l] \cup {h} ELSE AfterSplit(j, src, h)[l]]

(* Before the first split nothing has changed. *)
LEMMA SplitStart ==
  ASSUME IInv, NEW src \in Orders, NEW h \in free[src]
  PROVE  Midway(src, src, h) = free
<1>1. free \in [Orders -> SUBSET Cells] /\ src \in Nat BY Sizes DEF IInv, TypeOK
<1>2. \A l \in Orders : Midway(src, src, h)[l] = free[l]
  <2> TAKE l \in Orders
  <2>1. l \notin src .. (src - 1) BY <1>1
  <2> QED BY <2>1 DEF Midway, AfterSplit
<1>3. DOMAIN Midway(src, src, h) = Orders BY DEF Midway
<1>4. Midway(src, src, h) = [l \in Orders |-> Midway(src, src, h)[l]] BY <1>3 DEF Midway
<1>5. free = [l \in Orders |-> free[l]] BY <1>1
<1> QED BY <1>2, <1>4, <1>5

(* The block h of list l + 1 becomes h and half on list l. *)
Halved(F, l, h, half) == [F EXCEPT ![l] = {h, half}, ![l + 1] = @ \ {h}]

(* One split, from order j + 1 to order j. *)
Cutting(o, src, h, j) ==
  o \in Orders /\ src \in Orders /\ Serves(o, src) /\ h \in free[src] /\ j \in o .. (src - 1)

Cuts(src, h, j) ==
  /\ j \in Orders /\ j + 1 \in Orders
  /\ h + Pow2[j] \in Cells /\ h + Pow2[j] # h
  /\ \A k \in Orders : h + Pow2[j] \notin Midway(j + 1, src, h)[k]
  /\ Midway(j + 1, src, h)[j] = {} /\ h \in Midway(j + 1, src, h)[j + 1]
  /\ Midway(j, src, h) = Halved(Midway(j + 1, src, h), j, h, h + Pow2[j])

(* Every split on the way back finds the list below empty, and the half it *)
(* puts there on no list.                                                  *)
LEMMA SplitStep ==
  ASSUME IInv, NEW o, NEW src, NEW h, NEW j, Cutting(o, src, h, j)
  PROVE  Cuts(src, h, j)
<1> USE DEF Cutting
<1>0. /\ src \in Nat /\ o \in Nat /\ o <= src /\ src < Level /\ Level \in Nat /\ Sz \in Nat
      /\ o \in 0 .. src /\ src \in 0 .. Sz /\ o \in 0 .. Sz
      /\ \A l \in o .. (src - 1) : free[l] = {}
      /\ free \in [Orders -> SUBSET Cells] /\ h \in Cells
  BY Sizes DEF IInv, Serves, TypeOK
<1>1. /\ j \in Orders /\ j + 1 \in Orders /\ j \in Nat /\ j \in 0 .. Sz /\ j # j + 1 /\ j # src
      /\ j + 1 \in 0 .. src
  BY <1>0 DEF Orders
<1>2. h \in Aligned(src) BY <1>0 DEF IInv, FreeExact
<1> DEFINE half == h + Pow2[j]
<1>3. /\ half \in Aligned(j) /\ Span(half, j) \subseteq Span(h, src)
      /\ half \in Span(half, j) /\ half \in Cells
  BY <1>0, <1>1, <1>2, SplitGeometry, SpanInCells DEF Aligned
<1>4. half # h BY <1>0, <1>1, Pow2Type DEF Cells
<1>5. \A k \in Orders : k \in (j + 1) .. (src - 1) => half # h + Pow2[k]
  <2> SUFFICES ASSUME NEW k \in (j + 1) .. (src - 1) PROVE Pow2[j] # Pow2[k] /\ Pow2[k] \in Nat
    BY <1>0, <1>1, Pow2Type DEF Cells
  <2>1. k \in 0 .. Sz /\ j < k BY <1>0, <1>1
  <2> QED BY <1>1, <2>1, Pow2Strict, Pow2Type
<1> HIDE DEF half
<1>6. ASSUME NEW k \in Orders, half \in free[k] PROVE FALSE
  <2>1. half \in Span(half, k)
    <3>1. half \in Aligned(k) /\ k \in 0 .. Sz BY <1>3, <1>6, Sizes DEF IInv, FreeExact
    <3> QED BY <3>1, SpanInCells
  <2>2. Span(half, k) \cap Span(h, src) # {} BY <1>3, <2>1
  <2> QED BY <1>4, <1>6, <2>2, FreeApart
<1>7. ASSUME NEW i \in Orders, NEW k \in Orders
      PROVE  AfterSplit(i, src, h)[k] = IF k = src THEN free[k] \ {h}
                                        ELSE IF k \in i .. (src - 1) THEN {h + Pow2[k]}
                                        ELSE free[k]
  BY DEF AfterSplit
<1>8. ASSUME NEW k \in Orders PROVE half \notin Midway(j + 1, src, h)[k]
  <2>1. Midway(j + 1, src, h)[k] \subseteq AfterSplit(j + 1, src, h)[k] \cup {h} BY <1>1 DEF Midway
  <2>2. half \notin AfterSplit(j + 1, src, h)[k] BY <1>1, <1>5, <1>6, <1>7
  <2> QED BY <1>4, <2>1, <2>2
<1>9. Midway(j + 1, src, h)[j] = {}
  <2>1. j \notin (j + 1) .. (src - 1) /\ free[j] = {} BY <1>0, <1>1
  <2> QED BY <1>1, <1>7, <2>1 DEF Midway
<1>10. h \in Midway(j + 1, src, h)[j + 1] BY <1>1 DEF Midway
<1>11. Midway(j, src, h) = [Midway(j + 1, src, h) EXCEPT ![j] = {h, half}, ![j + 1] = @ \ {h}]
  <2> DEFINE M == Midway(j + 1, src, h)
             E == [M EXCEPT ![j] = {h, half}, ![j + 1] = @ \ {h}]
  <2>1. DOMAIN M = Orders BY DEF Midway
  <2>2. E = [k \in Orders |-> IF k = j + 1 THEN M[k] \ {h} ELSE IF k = j THEN {h, half} ELSE M[k]]
    <3> HIDE DEF M
    <3> QED BY <1>1, <2>1
  <2>3. ASSUME NEW k \in Orders
        PROVE  Midway(j, src, h)[k]
                 = IF k = j + 1 THEN M[k] \ {h} ELSE IF k = j THEN {h, half} ELSE M[k]
    <3>1. CASE k = j + 1
      <4>1. h \notin AfterSplit(j + 1, src, h)[k]
        <5>1. k # src => k \in 0 .. Sz /\ h # h + Pow2[k]
          BY <1>0, <1>1, <3>1, Sizes, Pow2Type DEF Cells
        <5>2. k # src => k \in (j + 1) .. (src - 1) BY <1>0, <1>1, <3>1
        <5> QED BY <1>1, <1>7, <5>1, <5>2
      <4>2. AfterSplit(j + 1, src, h)[k] = AfterSplit(j, src, h)[k]
        <5>1. k # src => k \in (j + 1) .. (src - 1) /\ k \in j .. (src - 1) BY <1>0, <1>1, <3>1
        <5> QED BY <1>1, <1>7, <5>1
      <4> QED BY <1>1, <3>1, <4>1, <4>2 DEF Midway
    <3>2. CASE k = j
      <4>1. j \in j .. (src - 1) BY <1>0, <1>1
      <4>2. AfterSplit(j, src, h)[j] = {half} BY <1>1, <1>7, <4>1 DEF half
      <4> QED BY <1>1, <3>2, <4>2 DEF Midway
    <3>3. CASE k # j /\ k # j + 1
      <4>1. k \in j .. (src - 1) <=> k \in (j + 1) .. (src - 1) BY <1>0, <1>1, <3>3, Sizes
      <4>2. AfterSplit(j, src, h)[k] = AfterSplit(j + 1, src, h)[k] BY <1>1, <1>7, <4>1
      <4> QED BY <1>1, <3>3, <4>2 DEF Midway
    <3> QED BY <3>1, <3>2, <3>3
  <2>4. Midway(j, src, h) = [k \in Orders |-> Midway(j, src, h)[k]] BY DEF Midway
  <2> HIDE DEF M, E
  <2>5. Midway(j, src, h) = E BY <2>2, <2>3, <2>4
  <2> QED BY <2>5 DEF E, M
<1> QED BY <1>1, <1>3, <1>4, <1>8, <1>9, <1>10, <1>11 DEF half, Halved, Cuts

(* After the last split h is taken off, and no list has a cell of its block.*)
Opening(o, src, h) == o \in Orders /\ src \in Orders /\ Serves(o, src) /\ h \in free[src]

Opened(o, src, h) ==
  /\ AfterSplit(o, src, h) = [Midway(o, src, h) EXCEPT ![o] = @ \ {h}]
  /\ h \in Midway(o, src, h)[o]
  /\ Span(h, o) \subseteq Cells
  /\ \A k \in Orders : AfterSplit(o, src, h)[k] \cap Span(h, o) = {}

(* Taking h off its list ends the splits with AfterSplit.                  *)
LEMMA SplitEnd ==
  ASSUME IInv, NEW o, NEW src, NEW h, Opening(o, src, h)
  PROVE  Opened(o, src, h)
<1> USE DEF Opening
<1>0. /\ src \in Nat /\ o \in Nat /\ o <= src /\ src < Level /\ Level \in Nat /\ Sz \in Nat
      /\ o \in 0 .. src /\ src \in 0 .. Sz /\ o \in 0 .. Sz
      /\ free \in [Orders -> SUBSET Cells] /\ h \in Cells
  BY Sizes DEF IInv, Serves, TypeOK
<1>1. h \in Aligned(src) BY <1>0 DEF IInv, FreeExact
<1>2. /\ h \in Aligned(o) /\ Span(h, o) \subseteq Span(h, src) /\ Span(h, o) \subseteq Cells
      /\ h \in Span(h, o)
  BY <1>0, <1>1, SplitGeometry, SpanInCells
<1>3. \A k \in Orders : AfterSplit(o, src, h)[k] = IF k = src THEN free[k] \ {h}
                                        ELSE IF k \in o .. (src - 1) THEN {h + Pow2[k]}
                                        ELSE free[k]
  BY DEF AfterSplit
<1>4. ASSUME NEW k \in Orders, NEW x \in AfterSplit(o, src, h)[k], x \in Span(h, o) PROVE FALSE
  <2>1. CASE k # src /\ k \in o .. (src - 1)
    <3>1. x = h + Pow2[k] BY <1>3, <1>4, <2>1
    <3>2. /\ h + Pow2[k] \in Aligned(k) /\ Span(h + Pow2[k], k) \cap Span(h, o) = {}
          /\ k \in 0 .. Sz
      BY <1>0, <1>1, <2>1, SplitGeometry
    <3>3. x \in Span(h + Pow2[k], k) BY <3>1, <3>2, SpanInCells
    <3> QED BY <1>4, <3>2, <3>3
  <2>2. CASE ~ (k # src /\ k \in o .. (src - 1))
    <3>1. x \in free[k] /\ (k = src => x # h) BY <1>3, <1>4, <2>2
    <3>2. x \in Aligned(k) /\ k \in 0 .. Sz BY <1>0, <3>1, Sizes DEF IInv, FreeExact
    <3>3. x \in Span(x, k) BY <3>2, SpanInCells
    <3>4. Span(x, k) \cap Span(h, src) # {} BY <1>2, <1>4, <3>3
    <3> QED BY <3>1, <3>4, FreeApart
  <2> QED BY <2>1, <2>2
<1>5. h \notin AfterSplit(o, src, h)[o] BY <1>2, <1>4
<1>6. AfterSplit(o, src, h) = [Midway(o, src, h) EXCEPT ![o] = @ \ {h}]
  <2> DEFINE A == AfterSplit(o, src, h)
  <2>1. A = [k \in Orders |-> A[k]] BY DEF AfterSplit
  <2>2. Midway(o, src, h) = [k \in Orders |-> IF k = o THEN A[k] \cup {h} ELSE A[k]] BY DEF Midway
  <2> HIDE DEF A
  <2>3. h \notin A[o] BY <1>5 DEF A
  <2>4. [Midway(o, src, h) EXCEPT ![o] = @ \ {h}] = [k \in Orders |-> A[k]] BY <2>2, <2>3
  <2> QED BY <2>1, <2>4 DEF A
<1>7. h \in Midway(o, src, h)[o] BY DEF Midway
<1> QED BY <1>2, <1>4, <1>6, <1>7 DEF Opened

(* A held block is on no free list; when it is put on the list of its order *)
(* the climb has begun.                                                     *)
Releasable(b) ==
  /\ b[2] \in Orders /\ b[1] \in Cells
  /\ \A l \in Orders : b[1] \notin free[l]
  /\ AfterMerge(b[1], b[2], b[2]) = [free EXCEPT ![b[2]] = @ \cup {b[1]}]
  /\ {c \in held : c[1] # b[1]} = held \ {b}
  /\ FoundOrder(b[1], b[2])

(* Every block a caller may give back is releasable.                       *)
LEMMA ReleaseStart ==
  ASSUME IInv, NEW b \in held
  PROVE  Releasable(b)
<1>0. /\ TypeOK /\ NoOverlap /\ free \in [Orders -> SUBSET Cells]
      /\ b[2] \in Orders /\ b[2] \in 0 .. Sz /\ b[2] \in Nat /\ b[1] \in Aligned(b[2])
      /\ b[1] \in Span(b[1], b[2]) /\ b[1] \in Cells
  BY HeldFacts, HeldSpan DEF IInv, TypeOK
<1>1. ASSUME NEW l \in Orders, b[1] \in free[l] PROVE FALSE
  <2>1. Clear(b[1], l) /\ b[1] \in Aligned(l) /\ l \in 0 .. Sz BY <1>0, <1>1, Sizes DEF IInv, FreeExact
  <2>2. b[1] \in Span(b[1], l) BY <2>1, SpanInCells
  <2> QED BY <1>0, <2>1, <2>2 DEF Clear, Disjoint
<1>2. b[1] = Base(b[1], b[2]) BY <1>0, BaseUnique
<1>3. AfterMerge(b[1], b[2], b[2]) = [free EXCEPT ![b[2]] = @ \cup {b[1]}]
  <2>1. \A l \in Orders : l \notin b[2] .. (b[2] - 1) BY <1>0
  <2> QED BY <1>0, <1>2, <2>1 DEF AfterMerge
<1>4. {c \in held : c[1] # b[1]} = held \ {b}
  <2>1. \A c \in held : c[1] = b[1] => c = b BY <1>0, HeldSpan, HeldApart
  <2> QED BY <2>1
<1>5. FoundOrder(b[1], b[2]) BY <1>0, OrderFoundInv DEF OrderFound
<1> QED BY <1>0, <1>1, <1>3, <1>4, <1>5 DEF Releasable

(* The blocks s and half of list l become the block s of list l + 1. *)
Joined(F, l, s, half) == [F EXCEPT ![l] = @ \ {s, half}, ![l + 1] = @ \cup {s}]

(* One round of _merge, from order j to order j + 1: the block s that is    *)
(* put on list j + 1 is on no list but j.                                   *)
Joining(b, j, s) ==
  /\ b \in held
  /\ tail' = tail \ {TailCell(b[1], b[2])}
  /\ held' = {c \in held : c[1] # b[1]}
  /\ j \in Orders /\ b[2] <= j /\ j + 1 \in Orders
  /\ Span(Base(b[1], j + 1), j + 1) \cap tail' = {}
  /\ s = Base(b[1], j + 1)

Joins(b, j, s) ==
  /\ s \in Cells /\ s + Pow2[j] \in Cells
  /\ \A k \in Orders : k # j => s \notin AfterMerge(b[1], b[2], j)[k]
  /\ AfterMerge(b[1], b[2], j + 1) = Joined(AfterMerge(b[1], b[2], j), j, s, s + Pow2[j])

(* Every round whose block has no bit left in it is such a round.          *)
LEMMA MergeStep ==
  ASSUME IInv, NEW b, NEW j, NEW s, Joining(b, j, s)
  PROVE  Joins(b, j, s)
<1> USE DEF Joining
<1> DEFINE a == b[1]
           k == b[2]
<1>0. /\ TypeOK /\ free \in [Orders -> SUBSET Cells]
      /\ k \in Orders /\ k \in 0 .. Sz /\ k \in Nat /\ a \in Aligned(k)
      /\ a \in Span(a, k) /\ a \in Cells
      /\ j \in Nat /\ j \in 0 .. Sz /\ j + 1 \in 0 .. Sz /\ j \in 0 .. (Sz - 1) /\ j # j + 1
      /\ Sz \in Nat /\ k <= j
  BY HeldFacts, HeldSpan, Sizes DEF IInv, TypeOK
<1>1. s \in Aligned(j + 1) /\ a \in Span(s, j + 1) BY <1>0, BaseAligned
<1>2. /\ s \in Cells /\ s + Pow2[j] \in Cells /\ s \in Aligned(j) /\ s + Pow2[j] \in Aligned(j)
      /\ s \in Span(s, j + 1)
  BY <1>0, <1>1, Halves, SpanInCells DEF Aligned
<1>3. Clear(s, j + 1)'
  <2>1. k <= j + 1 BY <1>0
  <2>2. Clear(Base(b[1], j + 1), j + 1)' BY <2>1, TailBitsTell
  <2> QED BY <2>2 DEF Clear, Disjoint, Span, Base
<1>4. \A t, i : Clear(t, i) <=> Clear(t, i)' /\ Disjoint(b, <<t, i>>) BY ReleaseFacts
<1> HIDE DEF a, k
<1>5. ASSUME NEW l \in Orders, s \in free[l]
      PROVE  l \in k .. j /\ s = Base(a, l + 1)
  <2>1. /\ l \in 0 .. Sz /\ l \in Nat /\ s \in Aligned(l) /\ Clear(s, l)
        /\ (l + 1 < Level => ~ Clear(Base(s, l + 1), l + 1))
    BY <1>2, <1>5, Sizes DEF IInv, FreeExact
  <2>2. s \in Span(s, l) BY <2>1, SpanInCells
  <2>3. Span(a, k) \cap Span(s, l) = {} BY <1>0, <2>1 DEF Clear, Disjoint, a, k
  <2>4. l <= j
    <3> SUFFICES ASSUME j + 1 <= l PROVE FALSE BY <1>0, <2>1
    <3>1. l \in (j + 1) .. Sz BY <2>1, <1>0
    <3>2. Span(s, j + 1) \cap Span(s, l) # {} BY <1>2, <2>2
    <3>3. Span(s, j + 1) \subseteq Span(s, l) BY <1>0, <1>1, <2>1, <3>1, <3>2, Nested
    <3> QED BY <1>0, <1>1, <2>3, <3>3
  <2>5. l + 1 < Level /\ l + 1 \in 0 .. Sz /\ (j + 1) \in (l + 1) .. Sz /\ j + 1 < Level
    BY <1>0, <2>1, <2>4, Sizes
  <2> DEFINE p == Base(s, l + 1)
  <2>6. p \in Aligned(l + 1) /\ s \in Span(p, l + 1) BY <1>2, <2>5, BaseAligned
  <2>7. ~ Clear(p, l + 1) BY <2>1, <2>5
  <2> HIDE DEF p
  <2>8. Span(p, l + 1) \subseteq Span(s, j + 1)
    <3>1. Span(p, l + 1) \cap Span(s, j + 1) # {} BY <1>2, <2>6
    <3> QED BY <1>0, <1>1, <2>5, <2>6, <3>1, Nested
  <2>9. Clear(p, l + 1)' BY <1>3, <2>8 DEF Clear, Disjoint, Span
  <2>10. Span(a, k) \cap Span(p, l + 1) # {} BY <1>4, <2>7, <2>9 DEF Disjoint, a, k
  <2>11. k <= l
    <3> SUFFICES ASSUME l + 1 <= k PROVE FALSE BY <1>0, <2>1
    <3>1. k \in (l + 1) .. Sz BY <1>0, <2>1
    <3>2. Span(p, l + 1) \subseteq Span(a, k) BY <1>0, <2>5, <2>6, <2>10, <3>1, Nested
    <3> QED BY <2>2, <2>3, <2>6, <3>2
  <2>12. a \in Span(p, l + 1)
    <3>1. l + 1 \in k .. Sz BY <1>0, <2>5, <2>11, <2>1
    <3>2. Span(a, k) \subseteq Span(p, l + 1) BY <1>0, <2>6, <2>10, <3>1, Nested
    <3> QED BY <1>0, <3>2
  <2>13. p = Base(a, l + 1) BY <2>5, <2>6, <2>12, BaseUnique
  <2>14. s = p
    <3>1. l + 1 \in 0 .. (j + 1) BY <1>0, <2>1, <2>4
    <3>2. s \in Aligned(l + 1) BY <1>0, <1>1, <3>1, SplitGeometry
    <3>3. s \in Span(s, l + 1) BY <2>5, <3>2, SpanInCells
    <3>4. s = Base(s, l + 1) BY <2>5, <3>2, <3>3, BaseUnique
    <3> QED BY <3>4 DEF p
  <2> QED BY <1>0, <2>1, <2>4, <2>11, <2>13, <2>14
<1>6. ASSUME NEW i \in Orders, NEW l \in Orders
      PROVE  AfterMerge(a, k, i)[l] =
               IF l = i THEN free[l] \cup {Base(a, i)}
               ELSE IF l \in k .. (i - 1)
                    THEN free[l] \ {Base(a, l + 1), Base(a, l + 1) + Pow2[l]}
                    ELSE free[l]
  BY DEF AfterMerge
<1>7. ASSUME NEW l \in Orders, l # j, s \in AfterMerge(a, k, j)[l] PROVE FALSE
  <2>1. s \in free[l] BY <1>6, <1>7
  <2>2. l \in k .. j /\ s = Base(a, l + 1) BY <1>5, <2>1
  <2>3. l \in k .. (j - 1) BY <1>0, <1>7, <2>2
  <2> QED BY <1>6, <1>7, <2>2, <2>3
<1>8. Base(a, j) \in {s, s + Pow2[j]}
  <2> DEFINE u == Base(a, j)
  <2>1. u \in Aligned(j) /\ a \in Span(u, j) BY <1>0, BaseAligned
  <2> HIDE DEF u
  <2>2. /\ Base(u, j + 1) \in Aligned(j + 1) /\ Span(u, j) \subseteq Span(Base(u, j + 1), j + 1)
        /\ u = Base(u, j + 1) \/ u = Base(u, j + 1) + Pow2[j]
    BY <1>0, <2>1, Parent
  <2>3. Base(u, j + 1) = Base(a, j + 1) BY <1>0, <2>1, <2>2, BaseUnique
  <2> QED BY <2>2, <2>3 DEF u, a
<1>9. AfterMerge(a, k, j + 1)
        = [AfterMerge(a, k, j) EXCEPT ![j] = @ \ {s, s + Pow2[j]}, ![j + 1] = @ \cup {s}]
  <2> DEFINE M == AfterMerge(a, k, j)
             E == [M EXCEPT ![j] = @ \ {s, s + Pow2[j]}, ![j + 1] = @ \cup {s}]
             W == AfterMerge(a, k, j + 1)
  <2>1. DOMAIN M = Orders /\ W = [l \in Orders |-> W[l]] BY DEF AfterMerge
  <2>2. E = [l \in Orders |-> IF l = j + 1 THEN M[l] \cup {s}
                              ELSE IF l = j THEN M[l] \ {s, s + Pow2[j]} ELSE M[l]]
    <3> HIDE DEF M
    <3> QED BY <1>0, <2>1
  <2>3. ASSUME NEW l \in Orders
        PROVE  W[l] = IF l = j + 1 THEN M[l] \cup {s}
                      ELSE IF l = j THEN M[l] \ {s, s + Pow2[j]} ELSE M[l]
    <3>1. CASE l = j + 1
      <4>1. l \notin k .. (j - 1) /\ l # j BY <1>0, <3>1
      <4> QED BY <1>6, <3>1, <4>1 DEF a
    <3>2. CASE l = j
      <4>1. l \in k .. ((j + 1) - 1) /\ l # j + 1 BY <1>0, <3>2
      <4> QED BY <1>6, <1>8, <3>2, <4>1 DEF a
    <3>3. CASE l # j /\ l # j + 1
      <4>1. l \in k .. ((j + 1) - 1) <=> l \in k .. (j - 1) BY <1>0, <3>3, Sizes
      <4> QED BY <1>6, <3>3, <4>1
    <3> QED BY <3>1, <3>2, <3>3
  <2> HIDE DEF M, E, W
  <2>4. W = E BY <2>1, <2>2, <2>3
  <2> QED BY <2>4 DEF W, E, M
<1> QED BY <1>2, <1>7, <1>9 DEF a, k, Joins, Joined
=============================================================================
