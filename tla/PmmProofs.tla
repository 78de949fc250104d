----------------------------- MODULE PmmProofs -----------------------------
(***************************************************************************)
(* Theorems about Pmm, for every layout of the memory and every content    *)
(* its owners may write.                                                   *)
(*                                                                         *)
(* The inductive invariant says that the list in memory is the ghost       *)
(* sequence `chain' (ListIntact), that the blocks of `chain' are disjoint  *)
(* from each other and from what is owned (NoDoubleAlloc) and lie in the   *)
(* address space (Bounded), and where in `chain' a call is (Cursor).       *)
(*                                                                         *)
(* The last part is about machines whose memory regions are shorter than   *)
(* half the address space: on them the allocator implements the pool of    *)
(* blocks of BlockPool and says ENOMEM only when no block is large enough. *)
(***************************************************************************)
EXTENDS Pmm, TLAPS

\* Blocks and owned pages stay clear of page 0, which the code uses for "no
\* block", and below the end of the address space.
Bounded ==
    /\ 0 \notin owned
    /\ \A i \in DOMAIN chain :
          chain[i] > 0 /\ chain[i] + mem[chain[i]].size <= NPages

\* Where a call is in the list, and what it has found out so far.
Cursor ==
    /\ pc \in {"init_low", "init_high", "idle"} => scanned = 0
    /\ pc \in {"loop", "probe"} =>
          /\ arg \in 1 .. MaxRequest
          /\ scanned \in 0 .. Len(chain)
          /\ prev = (IF scanned = 0 THEN 0 ELSE chain[scanned])
          /\ cur = After(scanned)
          /\ \A i \in 1 .. scanned : Signed(mem[chain[i]].size) < arg
    /\ pc = "probe" => cur # 0
    /\ pc = "relink" =>
          /\ scanned \in 1 .. Len(chain)
          /\ prev = chain[scanned]
          /\ arg = After(scanned)
    /\ pc = "push" => arg \in 1 .. MaxRequest /\ Run(cur, arg) \subseteq owned

\* What pmm_init has done so far.
Startup ==
    /\ pc \in {"init_low", "init_high"} => owned = {}
    /\ pc = "init_low" => chain = <<>>
    /\ pc = "init_high" =>
          IF LowTop - boot.kend > 1
            THEN chain = <<boot.kend>> /\ mem[boot.kend].size = LowTop - boot.kend
            ELSE chain = <<>>

IInv == /\ TypeOK /\ Bounded /\ NoDoubleAlloc /\ ListIntact
        /\ WindowOK /\ Cursor /\ Startup

-----------------------------------------------------------------------------
(***************************************************************************)
(* Sequences: the head of a list, and a list without one element.          *)
(***************************************************************************)

\* A block pushed on the list is its first, the others move up by one.
LEMMA PushSeq ==
    ASSUME NEW S, NEW s \in Seq(S), NEW e \in S
    PROVE  /\ <<e>> \o s \in Seq(S)
           /\ Len(<<e>> \o s) = Len(s) + 1
           /\ (<<e>> \o s)[1] = e
           /\ \A i \in 1 .. Len(s) : (<<e>> \o s)[i + 1] = s[i]
  OBVIOUS

\* The list without its k-th block: the blocks behind it move down by one.
LEMMA WithoutSeq ==
    ASSUME NEW S, NEW s \in Seq(S), NEW k \in 1 .. Len(s),
           NEW t, t = [j \in 1 .. (Len(s) - 1) |-> IF j < k THEN s[j] ELSE s[j + 1]]
    PROVE  /\ t \in Seq(S)
           /\ Len(t) = Len(s) - 1
           /\ \A i \in 1 .. (Len(s) - 1) : t[i] = IF i < k THEN s[i] ELSE s[i + 1]
<1>1. Len(s) - 1 \in Nat
  OBVIOUS
<1>2. t \in [1 .. (Len(s) - 1) -> S]
  OBVIOUS
<1> QED
  BY <1>1, <1>2

-----------------------------------------------------------------------------
(***************************************************************************)
(* Words.                                                                  *)
(***************************************************************************)

\* The numbers of pages of the layout are words of the machine.
LEMMA LayoutFacts ==
    /\ SignBit \in Nat /\ SignBit > 0
    /\ NPages \in Nat /\ NPages = 2 * SignBit
    /\ Page = 0 .. (NPages - 1)
    /\ LowTop \in Page /\ HighBase \in Page /\ 0 < LowTop /\ LowTop <= HighBase
    /\ MaxRequest \in Nat /\ 1 <= MaxRequest /\ MaxRequest < SignBit
    /\ \A b \in Boots : /\ b.kend \in Nat /\ 1 <= b.kend /\ b.kend < NPages
                        /\ b.high_mem \in Nat /\ HighBase < b.high_mem
                        /\ b.high_mem < NPages
  BY LayoutAssumption DEF NPages, Page

\* The first pages of a run, the last ones, and a run inside the address space.
LEMMA RunFacts ==
    ASSUME NEW p \in Nat, NEW m \in Nat, NEW n \in Nat
    PROVE  /\ Run(p, m) \subseteq Run(p, m + n)
           /\ Run(p + m, n) \subseteq Run(p, m + n)
           /\ Run(p, m) \cap Run(p + m, n) = {}
           /\ Run(p, m + n) = Run(p, m) \cup Run(p + m, n)
           /\ p > 0 /\ p + n <= NPages => Run(p, n) \subseteq Page /\ 0 \notin Run(p, n)
  BY LayoutFacts DEF Run

\* What is left of a number and what was taken from it make up the number.
LEMMA PlainSum ==
    ASSUME NEW a \in Nat, NEW size \in Nat, NEW n \in Nat, NEW left \in Nat,
           left = size - n
    PROVE  a + left + n = a + size
OBVIOUS

\* A block that passes the signed comparison is large enough as a number too,
\* and what is left of it is the plain difference.
LEMMA SignedFit ==
    ASSUME NEW size \in Page, NEW n \in 1 .. MaxRequest, Signed(size) >= Signed(n)
    PROVE  /\ n <= size /\ size < SignBit
           /\ (size - n) % NPages = size - n
           /\ (size - n) \in Page
<1>1. Signed(n) = n
  BY LayoutFacts DEF Signed
<1>2. n <= size /\ size < SignBit
  BY <1>1, LayoutFacts DEF Signed
<1> QED
  BY <1>2, LayoutFacts

\* The blocks of the list are pages and their headers are headers.
LEMMA BlockTypes ==
    ASSUME TypeOK
    PROVE  /\ chain \in Seq(Page) /\ Len(chain) \in Nat /\ DOMAIN chain = 1 .. Len(chain)
           /\ \A i \in 1 .. Len(chain) :
                 /\ chain[i] \in Page /\ chain[i] \in Nat
                 /\ mem[chain[i]] \in Header
                 /\ mem[chain[i]].size \in Page /\ mem[chain[i]].size \in Nat
                 /\ mem[chain[i]].next \in Page
<1>1. chain \in Seq(Page) /\ Len(chain) \in Nat /\ DOMAIN chain = 1 .. Len(chain)
  BY DEF TypeOK
<1>2. \A p \in Page : p \in Nat
  BY LayoutFacts
<1>3. \A i \in 1 .. Len(chain) : chain[i] \in Page
  BY <1>1
<1>4. \A p \in Page : /\ mem[p] \in Header
                      /\ mem[p].size \in Page /\ mem[p].next \in Page
  BY DEF TypeOK, Header
<1> QED
  BY <1>1, <1>2, <1>3, <1>4

THEOREM InitInv == Init => IInv
<1> SUFFICES ASSUME Init PROVE IInv
  OBVIOUS
<1> USE DEF Init
<1>1. TypeOK
  BY LayoutFacts DEF TypeOK, Header
<1>2. chain = <<>> /\ Len(chain) = 0 /\ DOMAIN chain = {}
  OBVIOUS
<1> QED
  BY <1>1, <1>2 DEF IInv, Bounded, NoDoubleAlloc, ListIntact, After, WindowOK, Cursor, Startup

-----------------------------------------------------------------------------
(***************************************************************************)
(* Pushing a block on the list: pmm_init and pmm_free.                     *)
(***************************************************************************)

\* Pushing a block adds it to the blocks of the list and changes no other.
LEMMA PushBlocks ==
    ASSUME TypeOK, NoDoubleAlloc,
           NEW p \in Page, NEW n \in Page, n > 0,
           \A i \in DOMAIN chain : Extent(chain[i]) \cap Run(p, n) = {},
           Push(p, n)
    PROVE  /\ mem' \in [Page -> Header] /\ head' \in Page /\ chain' \in Seq(Page)
           /\ Len(chain') = Len(chain) + 1 /\ DOMAIN chain' = 1 .. (Len(chain) + 1)
           /\ chain'[1] = p /\ mem'[p] = [size |-> n, next |-> head]
           /\ \A i \in 1 .. Len(chain) : /\ chain'[i + 1] = chain[i]
                                         /\ mem'[chain[i]] = mem[chain[i]]
           /\ \A i \in DOMAIN chain' :
                 \/ i = 1 /\ chain'[i] = p /\ mem'[chain'[i]] = [size |-> n, next |-> head]
                 \/ /\ i - 1 \in 1 .. Len(chain) /\ chain'[i] = chain[i - 1]
                    /\ mem'[chain'[i]] = mem[chain[i - 1]]
<1> USE LayoutFacts
<1>1. /\ chain' \in Seq(Page)
      /\ Len(chain') = Len(chain) + 1
      /\ chain'[1] = p
      /\ \A i \in 1 .. Len(chain) : chain'[i + 1] = chain[i]
  BY PushSeq DEF Push, TypeOK
<1>2. chain \in Seq(Page) /\ Len(chain) \in Nat /\ DOMAIN chain = 1 .. Len(chain)
  BY BlockTypes
<1>3. DOMAIN chain' = 1 .. (Len(chain) + 1)
  BY <1>1, <1>2
<1>4. mem' \in [Page -> Header] /\ head' \in Page
  BY DEF Push, TypeOK, Header
<1>5. \A i \in 1 .. Len(chain) : chain[i] \in Page /\ chain[i] # p
  <2> SUFFICES ASSUME NEW i \in 1 .. Len(chain) PROVE chain[i] # p
    BY BlockTypes
  <2>1. Extent(chain[i]) \cap Run(p, n) = {} /\ mem[chain[i]].size > 0
    BY <1>2 DEF NoDoubleAlloc
  <2>2. chain[i] \in Nat /\ mem[chain[i]].size \in Nat
    BY BlockTypes
  <2>3. chain[i] \in Extent(chain[i])
    BY <2>1, <2>2 DEF Extent, Run
  <2>4. p \in Run(p, n)
    BY DEF Run
  <2> QED
    BY <2>1, <2>3, <2>4
<1>6. mem'[p] = [size |-> n, next |-> head]
  BY DEF Push, TypeOK
<1>7. \A i \in 1 .. Len(chain) : mem'[chain[i]] = mem[chain[i]]
  BY <1>5 DEF Push, TypeOK
<1>8. \A i \in DOMAIN chain' :
         \/ i = 1 /\ chain'[i] = p /\ mem'[chain'[i]] = [size |-> n, next |-> head]
         \/ /\ i - 1 \in 1 .. Len(chain) /\ chain'[i] = chain[i - 1]
            /\ mem'[chain'[i]] = mem[chain[i - 1]]
  <2> SUFFICES ASSUME NEW i \in 1 .. (Len(chain) + 1), i # 1
               PROVE  /\ i - 1 \in 1 .. Len(chain) /\ chain'[i] = chain[i - 1]
                      /\ mem'[chain'[i]] = mem[chain[i - 1]]
    BY <1>1, <1>3, <1>6
  <2>1. i - 1 \in 1 .. Len(chain) /\ (i - 1) + 1 = i
    BY <1>2
  <2> QED
    BY <1>1, <1>7, <2>1
<1> QED
  BY <1>1, <1>3, <1>4, <1>6, <1>7, <1>8

\* A run of pages that no block overlaps may be pushed: the list stays
\* intact and its blocks stay disjoint.
LEMMA PushKeeps ==
    ASSUME TypeOK, Bounded, NoDoubleAlloc, ListIntact,
           pc # "relink",
           NEW p \in Page, NEW n \in Page, p > 0, n > 0, p + n <= NPages,
           \A i \in DOMAIN chain : Extent(chain[i]) \cap Run(p, n) = {},
           Push(p, n),
           owned' \subseteq owned, Run(p, n) \cap owned' = {}
    PROVE  /\ mem' \in [Page -> Header] /\ head' \in Page /\ chain' \in Seq(Page)
           /\ Bounded' /\ NoDoubleAlloc' /\ ListIntact'
<1> USE LayoutFacts
<1>1. /\ mem' \in [Page -> Header] /\ head' \in Page /\ chain' \in Seq(Page)
      /\ Len(chain') = Len(chain) + 1 /\ chain'[1] = p
      /\ \A i \in 1 .. Len(chain) : chain'[i + 1] = chain[i]
  BY PushBlocks
<1>2. chain \in Seq(Page) /\ Len(chain) \in Nat /\ DOMAIN chain = 1 .. Len(chain)
  BY BlockTypes
<1>3. DOMAIN chain' = 1 .. (Len(chain) + 1)
  BY PushBlocks
<1>4. mem'[p] = [size |-> n, next |-> head]
  BY PushBlocks
<1>5. \A i \in DOMAIN chain' :
         \/ i = 1 /\ chain'[i] = p /\ mem'[chain'[i]] = [size |-> n, next |-> head]
         \/ /\ i - 1 \in 1 .. Len(chain) /\ chain'[i] = chain[i - 1]
            /\ mem'[chain'[i]] = mem[chain[i - 1]]
  BY PushBlocks
<1>6. Bounded'
  BY <1>2, <1>5 DEF Bounded
<1>7. NoDoubleAlloc'
  <2> DEFINE E(i) == Run(chain[i], mem[chain[i]].size)
             F(i) == Run(chain'[i], mem'[chain'[i]].size)
  <2>1. \A i \in DOMAIN chain' : \/ i = 1 /\ F(i) = Run(p, n)
                                 \/ i - 1 \in 1 .. Len(chain) /\ F(i) = E(i - 1)
    BY <1>5
  <2>2. /\ \A i \in 1 .. Len(chain) : E(i) \cap owned = {} /\ E(i) \cap Run(p, n) = {}
        /\ \A i, j \in 1 .. Len(chain) : i # j => E(i) \cap E(j) = {}
    BY <1>2 DEF NoDoubleAlloc, Extent
  <2>3. \A i \in DOMAIN chain' : F(i) \cap owned' = {}
    BY <2>1, <2>2
  <2>4. \A i, j \in DOMAIN chain' : i # j => F(i) \cap F(j) = {}
    <3> HIDE DEF E, F
    <3> SUFFICES ASSUME NEW i \in DOMAIN chain', NEW j \in DOMAIN chain', i # j
                 PROVE  F(i) \cap F(j) = {}
      OBVIOUS
    <3>1. CASE i = 1
      BY <1>3, <2>1, <2>2, <3>1
    <3>2. CASE j = 1
      BY <1>3, <2>1, <2>2, <3>2
    <3>3. CASE i # 1 /\ j # 1
      BY <1>2, <1>3, <2>1, <2>2, <3>3
    <3> QED
      BY <3>1, <3>2, <3>3
  <2>5. \A i \in DOMAIN chain' : mem'[chain'[i]].size > 0
    <3>1. \A i \in 1 .. Len(chain) : mem[chain[i]].size > 0
      BY <1>2 DEF NoDoubleAlloc
    <3>2. [size |-> n, next |-> head].size > 0
      OBVIOUS
    <3> QED
      BY <1>5, <3>1, <3>2
  <2> QED
    BY <2>3, <2>4, <2>5 DEF NoDoubleAlloc, Extent
<1>8. ListIntact'
  <2>1. head' = p /\ After(0)' = p
    BY <1>1, <1>2 DEF Push, After
  <2>2. After(1)' = head
    <3>1. CASE Len(chain) = 0
      BY <1>1, <3>1 DEF ListIntact, After
    <3>2. CASE Len(chain) > 0
      <4>1. 1 \in 1 .. Len(chain) /\ 1 + 1 = 2
        BY <1>2, <3>2
      <4>2. chain'[2] = chain[1] /\ 1 < Len(chain')
        BY <1>1, <1>2, <4>1
      <4>3. head = chain[1]
        BY <3>2 DEF ListIntact, After
      <4> QED
        BY <4>2, <4>3 DEF After
    <3> QED
      BY <1>2, <3>1, <3>2
  <2>3. \A i \in 1 .. Len(chain) : After(i + 1)' = After(i)
    <3> SUFFICES ASSUME NEW i \in 1 .. Len(chain)
                 PROVE  After(i + 1)' = After(i)
      OBVIOUS
    <3>1. CASE i < Len(chain)
      <4>1. i + 1 \in 1 .. Len(chain) /\ i + 1 < Len(chain')
        <5>1. Len(chain') = Len(chain) + 1
          BY <1>1
        <5> QED
          BY <1>2, <3>1, <5>1
      <4>2. chain'[(i + 1) + 1] = chain[i + 1]
        BY <1>1, <1>2, <4>1
      <4> QED
        BY <3>1, <4>1, <4>2 DEF After
    <3>2. CASE ~(i < Len(chain))
      <4>1. ~(i + 1 < Len(chain'))
        BY <1>1, <1>2, <3>2
      <4> QED
        BY <3>2, <4>1 DEF After
    <3> QED
      BY <3>1, <3>2
  <2>4. \A i \in 1 .. Len(chain) : mem[chain[i]].next = After(i)
    BY <1>2 DEF ListIntact
  <2>5. \A i \in DOMAIN chain' : mem'[chain'[i]].next = After(i)'
    <3> SUFFICES ASSUME NEW i \in DOMAIN chain'
                 PROVE  mem'[chain'[i]].next = After(i)'
      OBVIOUS
    <3>1. CASE i = 1
      BY <1>1, <1>4, <2>2, <3>1
    <3>2. CASE i # 1
      <4>1. i - 1 \in 1 .. Len(chain) /\ (i - 1) + 1 = i
        BY <1>2, <1>3, <3>2
      <4>2. After(i)' = After(i - 1)
        BY <2>3, <4>1
      <4> QED
        BY <1>5, <2>4, <3>2, <4>1, <4>2
    <3> QED
      BY <3>1, <3>2
  <2> QED
    BY <2>1, <2>5 DEF ListIntact
<1> QED
  BY <1>1, <1>6, <1>7, <1>8

-----------------------------------------------------------------------------
(***************************************************************************)
(* Taking pages from a block: pmm_alloc.                                   *)
(***************************************************************************)

\* Two places of the list are never the same block.
LEMMA Distinct ==
    ASSUME TypeOK, NoDoubleAlloc,
           NEW i \in 1 .. Len(chain), NEW j \in 1 .. Len(chain), i # j
    PROVE  chain[i] # chain[j]
<1>1. DOMAIN chain = 1 .. Len(chain)
  BY BlockTypes
<1>2. chain[i] \in Nat /\ mem[chain[i]].size \in Nat /\ mem[chain[i]].size > 0
  BY <1>1, BlockTypes DEF NoDoubleAlloc
<1>3. chain[i] \in Extent(chain[i])
  BY <1>2 DEF Extent, Run
<1>4. Extent(chain[i]) \cap Extent(chain[j]) = {}
  BY <1>1 DEF NoDoubleAlloc
<1> QED
  BY <1>3, <1>4

\* When the probed block fits, the call is at that block of the list, the
\* words of the machine do not wrap, and the pages to give out are the last
\* ones of the block and belong to nobody else.
LEMMA ProbeFacts ==
    ASSUME IInv, pc = "probe", Fits
    PROVE  LET k == scanned + 1 IN
           /\ k \in 1 .. Len(chain) /\ k = scanned + 1
           /\ temp = cur /\ cur = chain[k] /\ cur \in Page /\ cur \in Nat /\ cur > 0
           /\ arg \in Nat /\ 1 <= arg /\ arg <= MaxRequest
           /\ mem[cur].size \in Nat /\ arg <= mem[cur].size /\ mem[cur].size < SignBit
           /\ Left = mem[cur].size - arg /\ Left \in Page /\ Left \in Nat
           /\ cur + Left + arg <= NPages
           /\ (cur + Left) % NPages = cur + Left
           /\ cur + Left \in Page
           /\ Run(cur + Left, arg) \subseteq Extent(cur)
           /\ Run(cur + Left, arg) \cap owned = {}
           /\ \A i \in 1 .. Len(chain) :
                 i # k => Run(cur + Left, arg) \cap Extent(chain[i]) = {}
<1> DEFINE k == scanned + 1
<1> USE LayoutFacts
<1>1. TypeOK /\ Bounded /\ NoDoubleAlloc /\ WindowOK /\ Cursor
  BY DEF IInv
<1>2. DOMAIN chain = 1 .. Len(chain) /\ Len(chain) \in Nat
  BY <1>1, BlockTypes
<1>3. /\ arg \in 1 .. MaxRequest /\ scanned \in 0 .. Len(chain)
      /\ cur = After(scanned) /\ cur # 0 /\ temp = cur
  BY <1>1 DEF Cursor, WindowOK
<1>4. k \in 1 .. Len(chain) /\ cur = chain[k]
  BY <1>2, <1>3 DEF After
<1>5. /\ cur \in Page /\ cur \in Nat /\ mem[cur].size \in Page /\ mem[cur].size \in Nat
      /\ cur > 0 /\ cur + mem[cur].size <= NPages
  BY <1>1, <1>2, <1>4, BlockTypes DEF Bounded
<1>6. /\ arg <= mem[cur].size /\ mem[cur].size < SignBit
      /\ Left = mem[cur].size - arg /\ Left \in Page
  <2>1. mem[cur].size \in Page /\ arg \in 1 .. MaxRequest
        /\ Signed(mem[cur].size) >= Signed(arg)
    BY <1>3, <1>5 DEF Fits
  <2>2. /\ arg <= mem[cur].size /\ mem[cur].size < SignBit
        /\ (mem[cur].size - arg) % NPages = mem[cur].size - arg
        /\ mem[cur].size - arg \in Page
    BY <2>1, SignedFit
  <2>3. Left = (mem[cur].size - arg) % NPages
    BY <1>3 DEF Left
  <2> QED
    BY <2>2, <2>3
<1>7. /\ Left \in Nat /\ cur + Left + arg <= NPages /\ cur + Left \in Page
      /\ (cur + Left) % NPages = cur + Left
  <2>1. Left \in Nat /\ arg \in Nat /\ arg >= 1
    BY <1>3, <1>6
  <2>3. cur + Left + arg = cur + mem[cur].size
    <3>1. cur \in Nat /\ mem[cur].size \in Nat
      BY <1>5
    <3>2. Left = mem[cur].size - arg
      BY <1>6
    <3> QED
      BY <2>1, <3>1, <3>2, PlainSum, SMTT(30)
  <2>4. cur + Left + arg <= NPages
    BY <1>5, <2>3
  <2>2. cur + Left \in Nat /\ cur + Left < NPages
    BY <1>5, <2>1, <2>4
  <2> QED
    BY <2>1, <2>2, <2>4
<1>8. Run(cur + Left, arg) \subseteq Extent(cur)
  <2> SUFFICES ASSUME NEW x \in Run(cur + Left, arg) PROVE x \in Run(cur, mem[cur].size)
    BY DEF Extent
  <2>1. arg \in Nat
    BY <1>3
  <2>2. Left + arg = mem[cur].size
    BY <1>5, <1>6, <2>1
  <2> QED
    BY <1>5, <1>7, <2>1, <2>2, SMTT(30) DEF Run
<1>9. Extent(cur) \cap owned = {}
  BY <1>1, <1>2, <1>4 DEF NoDoubleAlloc
<1>10. \A i \in 1 .. Len(chain) : i # k => Extent(cur) \cap Extent(chain[i]) = {}
  BY <1>1, <1>2, <1>4 DEF NoDoubleAlloc
<1>11. arg \in Nat /\ 1 <= arg /\ arg <= MaxRequest
  BY <1>3
<1> QED
  BY <1>3, <1>4, <1>5, <1>6, <1>7, <1>8, <1>9, <1>10, <1>11

\* Carving pages off the probed block: its header gets the size that is left,
\* no other header of the list changes, and the caller owns the rest.
LEMMA CarveFacts ==
    ASSUME IInv, pc = "probe", Fits, Carve
    PROVE  /\ mem' \in [Page -> Header]
           /\ cur' = cur + Left /\ cur' \in Page
           /\ owned' = owned \cup Run(cur + Left, arg) /\ owned' \subseteq Page
           /\ 0 \notin owned'
           /\ mem'[cur].size = Left /\ mem'[cur].next = mem[cur].next
           /\ \A i \in 1 .. Len(chain) : i # scanned + 1 => mem'[chain[i]] = mem[chain[i]]
<1> USE LayoutFacts
<1>1. TypeOK /\ Bounded /\ NoDoubleAlloc
  BY DEF IInv
<1>2. /\ temp = cur /\ cur \in Page /\ Left \in Page /\ cur + Left \in Page
      /\ (cur + Left) % NPages = cur + Left
      /\ arg \in Nat /\ 1 <= arg /\ cur > 0 /\ cur \in Nat /\ Left \in Nat
      /\ cur + Left + arg <= NPages
      /\ scanned + 1 \in 1 .. Len(chain) /\ cur = chain[scanned + 1]
  BY ProbeFacts
<1>3. mem' = [mem EXCEPT ![cur].size = Left] /\ mem \in [Page -> Header]
  BY <1>1, <1>2 DEF Carve, TypeOK
<1>4. mem' \in [Page -> Header] /\ mem'[cur].size = Left /\ mem'[cur].next = mem[cur].next
  <2>1. mem[cur] \in Header
    BY <1>2, <1>3
  <2>2. mem'[cur] = [mem[cur] EXCEPT !.size = Left]
    BY <1>2, <1>3
  <2>3. mem'[cur] \in Header /\ mem'[cur].size = Left /\ mem'[cur].next = mem[cur].next
    BY <1>2, <2>1, <2>2 DEF Header
  <2> QED
    BY <1>2, <1>3, <2>2, <2>3
<1>5. \A q \in Page : q # cur => mem'[q] = mem[q]
  BY <1>3
<1>6. \A i \in 1 .. Len(chain) : i # scanned + 1 => mem'[chain[i]] = mem[chain[i]]
  BY <1>1, <1>2, <1>5, BlockTypes, Distinct
<1>7. Run(cur + Left, arg) \subseteq Page /\ 0 \notin Run(cur + Left, arg)
  <2>1. cur + Left \in Nat /\ cur + Left > 0
    BY <1>2
  <2> QED
    BY <1>2, <2>1, RunFacts
<1>8. cur' = cur + Left /\ owned' = owned \cup Run(cur + Left, arg)
  BY <1>2 DEF Carve
<1>9. owned' \subseteq Page /\ 0 \notin owned'
  BY <1>1, <1>7, <1>8 DEF TypeOK, Bounded
<1> QED
  BY <1>2, <1>4, <1>6, <1>8, <1>9

LEMMA ShrinkInv == IInv /\ AllocShrink => IInv'
<1> SUFFICES ASSUME IInv, AllocShrink PROVE IInv'
  OBVIOUS
<1> DEFINE k == scanned + 1
<1> USE LayoutFacts
<1>1. TypeOK /\ Bounded /\ NoDoubleAlloc /\ ListIntact
  BY DEF IInv
<1>2. /\ pc = "probe" /\ Fits /\ Left # 0 /\ Carve /\ pc' = "finalize"
      /\ UNCHANGED <<boot, head, temp, prev, arg, ret, chain, scanned>>
  BY DEF AllocShrink
<1>3. /\ DOMAIN chain = 1 .. Len(chain) /\ Len(chain) \in Nat
      /\ \A i \in 1 .. Len(chain) : /\ chain[i] \in Nat
                                    /\ mem[chain[i]].size \in Nat
  BY <1>1, BlockTypes
<1>4. /\ k \in 1 .. Len(chain) /\ cur = chain[k] /\ cur \in Nat /\ cur > 0
      /\ Left \in Nat /\ arg \in Nat /\ 1 <= arg /\ cur + Left + arg <= NPages
      /\ mem[cur].size \in Nat /\ arg <= mem[cur].size /\ Left = mem[cur].size - arg
      /\ \A i \in 1 .. Len(chain) :
            i # k => Run(cur + Left, arg) \cap Extent(chain[i]) = {}
  BY <1>2, ProbeFacts
<1>5. /\ mem' \in [Page -> Header] /\ cur' \in Page
      /\ owned' = owned \cup Run(cur + Left, arg)
      /\ owned' \subseteq Page /\ 0 \notin owned'
      /\ mem'[cur].size = Left /\ mem'[cur].next = mem[cur].next
      /\ \A i \in 1 .. Len(chain) : i # k => mem'[chain[i]] = mem[chain[i]]
  BY <1>2, CarveFacts
<1>6. TypeOK'
  BY <1>1, <1>2, <1>5 DEF TypeOK
<1>7. Bounded'
  <2> SUFFICES ASSUME NEW i \in 1 .. Len(chain)
               PROVE  chain[i] > 0 /\ chain[i] + mem'[chain[i]].size <= NPages
    BY <1>2, <1>3, <1>5 DEF Bounded
  <2>1. CASE i = k
    <3>1. chain[i] = cur /\ mem'[chain[i]].size = Left
      BY <1>4, <1>5, <2>1
    <3>2. cur \in Nat /\ Left \in Nat /\ arg \in Nat /\ cur > 0 /\ cur + Left + arg <= NPages
      BY <1>4
    <3>3. cur + Left <= NPages
      BY <3>2
    <3> QED
      BY <3>1, <3>2, <3>3
  <2>2. CASE i # k
    <3>1. mem'[chain[i]] = mem[chain[i]]
      BY <1>5, <2>2
    <3> QED
      BY <1>1, <1>3, <3>1 DEF Bounded
  <2> QED
    BY <2>1, <2>2
<1>8. NoDoubleAlloc'
  <2> DEFINE E(i) == Run(chain[i], mem[chain[i]].size)
             F(i) == Run(chain[i], mem'[chain[i]].size)
  <2>1. \A i \in 1 .. Len(chain) : i # k => F(i) = E(i)
    BY <1>5
  <2>2. F(k) \subseteq E(k) /\ F(k) \cap Run(cur + Left, arg) = {}
    <3>1. F(k) = Run(cur, Left) /\ E(k) = Run(cur, mem[cur].size)
      BY <1>4, <1>5
    <3>2. Left + arg = mem[cur].size
      BY <1>4
    <3>3. cur \in Nat /\ Left \in Nat /\ arg \in Nat
      BY <1>4
    <3>4. Run(cur, Left) \subseteq Run(cur, mem[cur].size)
      <4>1. Run(cur, Left) \subseteq Run(cur, Left + arg)
        BY <3>3, RunFacts
      <4> QED
        BY <3>2, <4>1
    <3>5. Run(cur, Left) \cap Run(cur + Left, arg) = {}
      BY <3>3, RunFacts
    <3> QED
      BY <3>1, <3>4, <3>5
  <2>3. /\ \A i \in 1 .. Len(chain) : E(i) \cap owned = {}
        /\ \A i \in 1 .. Len(chain) : i # k => Run(cur + Left, arg) \cap E(i) = {}
        /\ \A i, j \in 1 .. Len(chain) : i # j => E(i) \cap E(j) = {}
    BY <1>1, <1>3, <1>4 DEF NoDoubleAlloc, Extent
  <2>4. /\ \A i \in 1 .. Len(chain) : F(i) \cap owned' = {}
        /\ \A i, j \in 1 .. Len(chain) : i # j => F(i) \cap F(j) = {}
    <3> HIDE DEF E, F, k
    <3>1. owned' = owned \cup Run(cur + Left, arg)
      BY <1>5
    <3>2. \A i \in 1 .. Len(chain) : F(i) \cap owned' = {}
      <4>1. \A i \in 1 .. Len(chain) : F(i) \cap owned = {} /\ F(i) \cap Run(cur + Left, arg) = {}
        BY <2>1, <2>2, <2>3
      <4> QED
        BY <3>1, <4>1
    <3>3. \A i, j \in 1 .. Len(chain) : i # j => F(i) \cap F(j) = {}
      BY <2>1, <2>2, <2>3
    <3> QED
      BY <3>2, <3>3
  <2>5. \A i \in 1 .. Len(chain) : mem'[chain[i]].size > 0
    <3> SUFFICES ASSUME NEW i \in 1 .. Len(chain) PROVE mem'[chain[i]].size > 0
      OBVIOUS
    <3>1. CASE i = k
      <4>1. chain[i] = cur
        BY <1>4, <3>1
      <4>2. mem'[chain[i]].size = Left
        BY <1>5, <4>1
      <4>3. Left > 0
        <5>1. Left # 0
          BY <1>2
        <5>2. Left \in Nat
          BY <1>4
        <5> QED
          BY <5>1, <5>2
      <4> QED
        BY <4>2, <4>3
    <3>2. CASE i # k
      <4>1. mem'[chain[i]] = mem[chain[i]]
        BY <1>5, <3>2
      <4> QED
        BY <1>1, <4>1 DEF NoDoubleAlloc
    <3> QED
      BY <3>1, <3>2
  <2> QED
    BY <1>2, <1>3, <2>4, <2>5 DEF NoDoubleAlloc, Extent
<1>9. ListIntact'
  <2>1. \A i \in 1 .. Len(chain) : mem'[chain[i]].next = mem[chain[i]].next
    BY <1>4, <1>5
  <2>2. \A i \in 1 .. Len(chain) : mem[chain[i]].next = After(i)
    BY <1>1, <1>2, <1>3 DEF ListIntact
  <2>3. \A i \in 0 .. Len(chain) : After(i)' = After(i)
    BY <1>2 DEF After
  <2> QED
    BY <1>1, <1>2, <1>3, <2>1, <2>2, <2>3 DEF ListIntact
<1>10. WindowOK' /\ Cursor' /\ Startup'
  BY <1>2 DEF WindowOK, Cursor, Startup
<1> QED
  BY <1>6, <1>7, <1>8, <1>9, <1>10 DEF IInv

\* Unlinking the probed block when nothing is left of it: the blocks before
\* and behind it stay as they were, and the only link that is not yet right
\* is that of the block before it.
LEMMA UnlinkFacts ==
    ASSUME IInv, pc = "probe", Fits, Left = 0, Carve, chain' = Without(scanned + 1),
           scanned' = scanned
    PROVE  /\ chain' \in Seq(Page) /\ Len(chain') = Len(chain) - 1
           /\ Bounded' /\ NoDoubleAlloc'
           /\ mem[cur].next = After(scanned)'
           /\ scanned >= 1 => /\ scanned \in 1 .. Len(chain')
                              /\ chain'[scanned] = chain[scanned]
           /\ scanned >= 1 => head = After(0)'
           /\ \A i \in 1 .. Len(chain') : i # scanned => mem'[chain'[i]].next = After(i)'
<1> DEFINE k == scanned + 1
           n == Len(chain) - 1
           Old(i) == IF i < k THEN i ELSE i + 1
<1>1. TypeOK /\ Bounded /\ NoDoubleAlloc /\ ListIntact
  BY DEF IInv
<1>2. /\ chain \in Seq(Page) /\ DOMAIN chain = 1 .. Len(chain) /\ Len(chain) \in Nat
      /\ \A i \in 1 .. Len(chain) : chain[i] \in Nat /\ mem[chain[i]].size \in Nat
  BY <1>1, BlockTypes
<1>3. /\ k \in 1 .. Len(chain) /\ cur = chain[k] /\ cur + Left = cur
      /\ \A i \in 1 .. Len(chain) :
            i # k => Run(cur + Left, arg) \cap Extent(chain[i]) = {}
  BY ProbeFacts
<1>4. scanned \in Nat
  BY <1>1 DEF TypeOK
<1>5. /\ chain' \in Seq(Page) /\ Len(chain') = n
      /\ \A i \in 1 .. n : chain'[i] = IF i < k THEN chain[i] ELSE chain[i + 1]
  BY <1>2, <1>3, WithoutSeq DEF Without
<1>6. DOMAIN chain' = 1 .. n /\ n \in Nat
  BY <1>2, <1>3, <1>5
<1>7. \A i \in 1 .. n : /\ Old(i) \in 1 .. Len(chain) /\ Old(i) # k
                        /\ chain'[i] = chain[Old(i)]
  BY <1>2, <1>3, <1>4, <1>5
<1>8. /\ owned' = owned \cup Run(cur + Left, arg) /\ 0 \notin owned'
      /\ \A i \in 1 .. Len(chain) : i # k => mem'[chain[i]] = mem[chain[i]]
  BY CarveFacts
<1>9. \A i \in 1 .. n : mem'[chain'[i]] = mem[chain[Old(i)]]
  BY <1>7, <1>8
<1>10. Bounded'
  <2>1. \A i \in 1 .. Len(chain) : chain[i] > 0 /\ chain[i] + mem[chain[i]].size <= NPages
    BY <1>1, <1>2 DEF Bounded
  <2> HIDE DEF Old
  <2> QED
    BY <1>6, <1>7, <1>8, <1>9, <2>1 DEF Bounded
<1>11. NoDoubleAlloc'
  <2> DEFINE E(i) == Run(chain[i], mem[chain[i]].size)
             F(i) == Run(chain'[i], mem'[chain'[i]].size)
  <2>1. \A i \in 1 .. n : F(i) = E(Old(i))
    BY <1>7, <1>9
  <2>2. /\ \A i \in 1 .. Len(chain) : E(i) \cap owned = {}
        /\ \A i \in 1 .. Len(chain) : i # k => Run(cur + Left, arg) \cap E(i) = {}
        /\ \A i, j \in 1 .. Len(chain) : i # j => E(i) \cap E(j) = {}
    BY <1>1, <1>2, <1>3 DEF NoDoubleAlloc, Extent
  <2>3. \A i, j \in 1 .. n : i # j => Old(i) # Old(j)
    BY <1>4, <1>6
  <2>4. /\ \A i \in 1 .. n : F(i) \cap owned' = {}
        /\ \A i, j \in 1 .. n : i # j => F(i) \cap F(j) = {}
    <3> HIDE DEF E, F, Old, k, n
    <3> QED
      BY <1>7, <1>8, <2>1, <2>2, <2>3
  <2>5. \A i \in 1 .. Len(chain) : mem[chain[i]].size > 0
    BY <1>1, <1>2 DEF NoDoubleAlloc
  <2>6. \A i \in 1 .. n : mem'[chain'[i]].size > 0
    BY <1>7, <1>9, <2>5
  <2> QED
    BY <1>6, <2>4, <2>6 DEF NoDoubleAlloc, Extent
<1>12. \A i \in 1 .. Len(chain) : mem[chain[i]].next = After(i)
  BY <1>1, <1>2 DEF ListIntact
<1>13. mem[cur].next = After(scanned)'
  <2>1. mem[cur].next = After(k)
    BY <1>3, <1>12
  <2>2. CASE k < Len(chain)
    <3>1. k \in 1 .. n /\ scanned < n
      BY <1>2, <1>3, <1>4, <2>2
    <3>2. chain'[k] = chain[k + 1]
      BY <1>5, <3>1
    <3> QED
      BY <1>5, <2>1, <2>2, <3>1, <3>2 DEF After
  <2>3. CASE ~(k < Len(chain))
    <3>1. ~(scanned < n)
      BY <1>2, <1>3, <1>4, <2>3
    <3> QED
      BY <1>5, <2>1, <2>3, <3>1 DEF After
  <2> QED
    BY <2>2, <2>3
<1>14. scanned >= 1 => /\ scanned \in 1 .. Len(chain') /\ chain'[scanned] = chain[scanned]
                       /\ head = After(0)'
  <2> SUFFICES ASSUME scanned >= 1
               PROVE  /\ scanned \in 1 .. Len(chain') /\ chain'[scanned] = chain[scanned]
                      /\ head = After(0)'
    OBVIOUS
  <2>1. scanned \in 1 .. n
    BY <1>2, <1>3, <1>4
  <2>2. 1 \in 1 .. n /\ 1 < k
    BY <1>4, <1>6, <2>1
  <2>3. chain'[1] = chain[1] /\ After(0)' = chain'[1] /\ After(0) = chain[1]
    BY <1>2, <1>5, <2>2 DEF After
  <2> QED
    BY <1>1, <1>4, <1>5, <2>1, <2>3 DEF ListIntact
<1>15. \A i \in 1 .. Len(chain') : i # scanned => mem'[chain'[i]].next = After(i)'
  <2> SUFFICES ASSUME NEW i \in 1 .. n, i # scanned
               PROVE  mem'[chain'[i]].next = After(i)'
    BY <1>5
  <2>1. mem'[chain'[i]].next = After(Old(i))
    BY <1>7, <1>9, <1>12
  <2>2. CASE i < k
    <3>1. i + 1 < k /\ i < n /\ i + 1 \in 1 .. n /\ i < Len(chain)
      BY <1>2, <1>3, <1>4, <2>2
    <3>2. After(i)' = chain[i + 1] /\ After(i) = chain[i + 1]
      BY <1>5, <3>1 DEF After
    <3> QED
      BY <2>1, <2>2, <3>2
  <2>3. CASE ~(i < k)
    <3>1. After(i)' = After(i + 1)
      <4>1. CASE i < n
        <5>1. i + 1 \in 1 .. n /\ ~(i + 1 < k) /\ i + 1 < Len(chain)
          BY <1>2, <1>4, <1>6, <2>3, <4>1
        <5> QED
          BY <1>5, <4>1, <5>1 DEF After
      <4>2. CASE ~(i < n)
        BY <1>2, <1>5, <4>2 DEF After
      <4> QED
        BY <4>1, <4>2
    <3> QED
      BY <2>1, <2>3, <3>1
  <2> QED
    BY <2>2, <2>3
<1> QED
  BY <1>5, <1>10, <1>11, <1>13, <1>14, <1>15

LEMMA UnlinkHeadInv == IInv /\ AllocUnlinkHead => IInv'
<1> SUFFICES ASSUME IInv, AllocUnlinkHead PROVE IInv'
  OBVIOUS
<1>1. TypeOK /\ Bounded /\ NoDoubleAlloc /\ ListIntact /\ Cursor
  BY DEF IInv
<1>2. /\ pc = "probe" /\ Fits /\ Left = 0 /\ prev = 0 /\ Carve
      /\ arg' = mem[temp].next /\ head' = mem[temp].next
      /\ chain' = Without(scanned + 1) /\ pc' = "finalize"
      /\ UNCHANGED <<boot, temp, prev, ret, scanned>>
  BY DEF AllocUnlinkHead
<1>3. scanned \in Nat /\ (scanned >= 1 => scanned \in 1 .. Len(chain) /\ prev = chain[scanned])
  BY <1>1, <1>2 DEF Cursor, TypeOK
<1>4. \A i \in 1 .. Len(chain) : chain[i] > 0 /\ chain[i] \in Nat
  BY <1>1, BlockTypes DEF Bounded
<1>5. scanned = 0
  BY <1>2, <1>3, <1>4
<1>6. /\ chain' \in Seq(Page) /\ Bounded' /\ NoDoubleAlloc'
      /\ mem[cur].next = After(scanned)'
      /\ \A i \in 1 .. Len(chain') : i # scanned => mem'[chain'[i]].next = After(i)'
  BY <1>2, UnlinkFacts
<1>7. /\ mem' \in [Page -> Header] /\ cur' \in Page /\ owned' \subseteq Page
  BY <1>2, CarveFacts
<1>8. temp = cur /\ cur \in Page
  BY <1>2, ProbeFacts
<1>9. mem[temp].next \in Page
  BY <1>1, <1>8 DEF TypeOK, Header
<1>10. TypeOK'
  BY <1>1, <1>2, <1>6, <1>7, <1>9 DEF TypeOK
<1>11. DOMAIN chain' = 1 .. Len(chain')
  BY <1>6
<1>12. ListIntact'
  BY <1>2, <1>5, <1>6, <1>8, <1>11 DEF ListIntact
<1>13. WindowOK' /\ Cursor' /\ Startup'
  BY <1>2 DEF WindowOK, Cursor, Startup
<1> QED
  BY <1>6, <1>10, <1>12, <1>13 DEF IInv

LEMMA UnlinkInnerInv == IInv /\ AllocUnlinkInner => IInv'
<1> SUFFICES ASSUME IInv, AllocUnlinkInner PROVE IInv'
  OBVIOUS
<1>1. TypeOK /\ Bounded /\ NoDoubleAlloc /\ ListIntact /\ Cursor
  BY DEF IInv
<1>2. /\ pc = "probe" /\ Fits /\ Left = 0 /\ prev # 0 /\ Carve
      /\ arg' = mem[temp].next /\ temp' = prev
      /\ chain' = Without(scanned + 1) /\ pc' = "relink"
      /\ UNCHANGED <<boot, head, prev, ret, scanned>>
  BY DEF AllocUnlinkInner
<1>3. scanned \in Nat /\ scanned >= 1 /\ prev = chain[scanned]
  BY <1>1, <1>2 DEF Cursor, TypeOK
<1>4. /\ chain' \in Seq(Page) /\ Bounded' /\ NoDoubleAlloc'
      /\ mem[cur].next = After(scanned)'
      /\ scanned \in 1 .. Len(chain') /\ chain'[scanned] = chain[scanned]
      /\ head = After(0)'
      /\ \A i \in 1 .. Len(chain') : i # scanned => mem'[chain'[i]].next = After(i)'
  BY <1>2, <1>3, UnlinkFacts
<1>5. /\ mem' \in [Page -> Header] /\ cur' \in Page /\ owned' \subseteq Page
  BY <1>2, CarveFacts
<1>6. temp = cur /\ cur \in Page
  BY <1>2, ProbeFacts
<1>7. mem[temp].next \in Page /\ prev \in Page
  BY <1>1, <1>6 DEF TypeOK, Header
<1>8. TypeOK'
  BY <1>1, <1>2, <1>4, <1>5, <1>7 DEF TypeOK
<1>9. DOMAIN chain' = 1 .. Len(chain')
  BY <1>4
<1>10. ListIntact'
  <2>1. chain'[scanned] = temp' /\ arg' = After(scanned)'
    BY <1>2, <1>3, <1>4, <1>6
  <2> QED
    BY <1>2, <1>4, <1>9, <2>1 DEF ListIntact
<1>11. WindowOK' /\ Startup'
  BY <1>2 DEF WindowOK, Startup
<1>12. Cursor'
  BY <1>2, <1>3, <1>4, <1>6 DEF Cursor, After
<1> QED
  BY <1>4, <1>8, <1>10, <1>11, <1>12 DEF IInv

\* Mending the link of the block before the one that was used up.
LEMMA RelinkInv == IInv /\ AllocRelink => IInv'
<1> SUFFICES ASSUME IInv, AllocRelink PROVE IInv'
  OBVIOUS
<1>1. TypeOK /\ Bounded /\ NoDoubleAlloc /\ ListIntact /\ Cursor /\ WindowOK
  BY DEF IInv
<1>2. /\ pc = "relink" /\ mem' = [mem EXCEPT ![temp].next = arg] /\ pc' = "finalize"
      /\ UNCHANGED <<boot, head, temp, prev, cur, arg, ret, owned, chain, scanned>>
  BY DEF AllocRelink
<1>3. /\ DOMAIN chain = 1 .. Len(chain)
      /\ \A i \in 1 .. Len(chain) : chain[i] \in Page /\ mem[chain[i]] \in Header
  BY <1>1, BlockTypes
<1>4. /\ scanned \in 1 .. Len(chain) /\ temp = chain[scanned] /\ arg = After(scanned)
      /\ temp \in Page
  BY <1>1, <1>2, <1>3 DEF Cursor, WindowOK
<1>5. arg \in Page /\ mem \in [Page -> Header]
  BY <1>1 DEF TypeOK
<1>6. mem'[temp] = [mem[temp] EXCEPT !.next = arg] /\ \A q \in Page : q # temp => mem'[q] = mem[q]
  BY <1>2, <1>4, <1>5
<1>7. /\ mem'[temp] \in Header /\ mem'[temp].size = mem[temp].size /\ mem'[temp].next = arg
  BY <1>4, <1>5, <1>6 DEF Header
<1>8. mem' \in [Page -> Header]
  BY <1>2, <1>4, <1>5, <1>6, <1>7
<1>9. \A q \in Page : mem'[q].size = mem[q].size
  BY <1>6, <1>7
<1>10. TypeOK'
  BY <1>1, <1>2, <1>8 DEF TypeOK
<1>11. \A i \in 1 .. Len(chain) : mem'[chain[i]].size = mem[chain[i]].size
  BY <1>3, <1>9
<1>12. Bounded' /\ NoDoubleAlloc'
  <2>1. Bounded'
    BY <1>1, <1>2, <1>3, <1>11 DEF Bounded
  <2>2. \A i \in 1 .. Len(chain) : Extent(chain[i])' = Extent(chain[i])
    BY <1>2, <1>11 DEF Extent
  <2>3. NoDoubleAlloc'
    BY <1>1, <1>2, <1>3, <1>11, <2>2 DEF NoDoubleAlloc
  <2> QED
    BY <2>1, <2>3
<1>13. ListIntact'
  <2>1. \A i \in 0 .. Len(chain) : After(i)' = After(i)
    BY <1>2 DEF After
  <2>2. \A i \in 1 .. Len(chain) : i # scanned => chain[i] # temp
    BY <1>1, <1>4, Distinct
  <2>3. \A i \in 1 .. Len(chain) : i # scanned => mem'[chain[i]].next = After(i)
    BY <1>1, <1>3, <1>6, <2>2 DEF ListIntact
  <2>4. \A i \in 1 .. Len(chain) : mem'[chain[i]].next = After(i)'
    BY <1>4, <1>7, <2>1, <2>3
  <2>5. head' = After(0)'
    BY <1>1, <1>2, <2>1, BlockTypes DEF ListIntact
  <2> QED
    BY <1>2, <1>3, <2>4, <2>5 DEF ListIntact
<1>14. WindowOK' /\ Cursor' /\ Startup'
  BY <1>2 DEF WindowOK, Cursor, Startup
<1> QED
  BY <1>10, <1>12, <1>13, <1>14 DEF IInv

-----------------------------------------------------------------------------
(***************************************************************************)
(* The remaining steps.                                                    *)
(***************************************************************************)

LEMMA InitLowInv == IInv /\ InitLow => IInv'
<1> SUFFICES ASSUME IInv, InitLow PROVE IInv'
  OBVIOUS
<1> USE LayoutFacts
<1>1. TypeOK /\ Bounded /\ NoDoubleAlloc /\ ListIntact /\ WindowOK /\ Cursor /\ Startup
  BY DEF IInv
<1>2. /\ pc = "init_low" /\ pc' = "init_high"
      /\ UNCHANGED <<boot, temp, prev, cur, arg, ret, owned, scanned>>
  BY DEF InitLow
<1>3. chain = <<>> /\ owned = {} /\ temp = Unmapped
  BY <1>1, <1>2 DEF Startup, WindowOK
<1>4. WindowOK' /\ Cursor'
  BY <1>1, <1>2, <1>3 DEF WindowOK, Cursor
<1>5. CASE LowTop - boot.kend > 1
  <2> DEFINE n == LowTop - boot.kend
  <2>1. Push(boot.kend, n)
    BY <1>5 DEF InitLow
  <2>2. /\ boot.kend \in Page /\ boot.kend > 0 /\ n \in Page /\ n > 0
        /\ boot.kend + n <= NPages
    BY <1>1, <1>5 DEF TypeOK
  <2>3. \A i \in DOMAIN chain : Extent(chain[i]) \cap Run(boot.kend, n) = {}
    BY <1>3
  <2>4. /\ mem' \in [Page -> Header] /\ head' \in Page /\ chain' \in Seq(Page)
        /\ Bounded' /\ NoDoubleAlloc' /\ ListIntact'
    BY <1>1, <1>2, <1>3, <2>1, <2>2, <2>3, PushKeeps
  <2>5. TypeOK'
    BY <1>1, <1>2, <2>4 DEF TypeOK
  <2>6. chain' = <<boot.kend>> /\ mem'[boot.kend].size = n
    BY <1>1, <1>3, <2>1, <2>2 DEF Push, TypeOK
  <2>7. Startup'
    BY <1>2, <1>3, <1>5, <2>6 DEF Startup
  <2> QED
    BY <1>4, <2>4, <2>5, <2>7 DEF IInv
<1>6. CASE ~(LowTop - boot.kend > 1)
  <2>1. UNCHANGED <<mem, head, chain>>
    BY <1>6 DEF InitLow
  <2>2. TypeOK' /\ Bounded' /\ NoDoubleAlloc'
    BY <1>1, <1>2, <2>1 DEF TypeOK, Bounded, NoDoubleAlloc, Extent
  <2>3. ListIntact' /\ Startup'
    BY <1>1, <1>2, <1>3, <1>6, <2>1 DEF ListIntact, After, Startup
  <2> QED
    BY <1>4, <2>2, <2>3 DEF IInv
<1> QED
  BY <1>5, <1>6

LEMMA InitHighInv == IInv /\ InitHigh => IInv'
<1> SUFFICES ASSUME IInv, InitHigh PROVE IInv'
  OBVIOUS
<1> USE LayoutFacts
<1>1. TypeOK /\ Bounded /\ NoDoubleAlloc /\ ListIntact /\ WindowOK /\ Cursor /\ Startup
  BY DEF IInv
<1> DEFINE n == boot.high_mem - HighBase
<1>2. /\ pc = "init_high" /\ pc' = "idle" /\ Push(HighBase, n)
      /\ UNCHANGED <<boot, temp, prev, cur, arg, ret, owned, scanned>>
  BY DEF InitHigh
<1>3. owned = {}
  BY <1>1, <1>2 DEF Startup
<1>4. /\ n \in Page /\ n > 0 /\ HighBase \in Page /\ HighBase > 0
      /\ HighBase + n <= NPages
  BY <1>1 DEF TypeOK
<1>5. \A i \in DOMAIN chain : Extent(chain[i]) \cap Run(HighBase, n) = {}
  <2>1. CASE LowTop - boot.kend > 1
    <3>1. chain = <<boot.kend>> /\ mem[boot.kend].size = LowTop - boot.kend
      BY <1>1, <1>2, <2>1 DEF Startup
    <3>2. boot.kend \in Nat
      BY <1>1 DEF TypeOK
    <3>3. Run(boot.kend, LowTop - boot.kend) \cap Run(HighBase, n) = {}
      BY <1>4, <2>1, <3>2 DEF Run
    <3> QED
      BY <3>1, <3>3 DEF Extent
  <2>2. CASE ~(LowTop - boot.kend > 1)
    <3>1. chain = <<>>
      BY <1>1, <1>2, <2>2 DEF Startup
    <3> QED
      BY <3>1
  <2> QED
    BY <2>1, <2>2
<1>6. /\ mem' \in [Page -> Header] /\ head' \in Page /\ chain' \in Seq(Page)
      /\ Bounded' /\ NoDoubleAlloc' /\ ListIntact'
  BY <1>1, <1>2, <1>3, <1>4, <1>5, PushKeeps
<1>7. TypeOK'
  BY <1>1, <1>2, <1>6 DEF TypeOK
<1>8. WindowOK' /\ Cursor' /\ Startup'
  BY <1>1, <1>2 DEF WindowOK, Cursor, Startup
<1> QED
  BY <1>6, <1>7, <1>8 DEF IInv

LEMMA FreePushInv == IInv /\ FreePush => IInv'
<1> SUFFICES ASSUME IInv, FreePush PROVE IInv'
  OBVIOUS
<1> USE LayoutFacts
<1>1. TypeOK /\ Bounded /\ NoDoubleAlloc /\ ListIntact /\ WindowOK /\ Cursor
  BY DEF IInv
<1>2. /\ pc = "push" /\ mem' = [mem EXCEPT ![temp] = [size |-> arg, next |-> head]]
      /\ head' = cur /\ chain' = <<cur>> \o chain /\ owned' = owned \ Run(cur, arg)
      /\ temp' = Unmapped /\ Leave /\ UNCHANGED <<boot, ret>>
  BY DEF FreePush
<1>3. /\ temp = cur /\ cur \in Page /\ arg \in Nat /\ arg >= 1 /\ arg \in Page
      /\ Run(cur, arg) \subseteq owned /\ owned \subseteq Page
  BY <1>1, <1>2 DEF WindowOK, Cursor, TypeOK
<1>4. Push(cur, arg)
  BY <1>2, <1>3 DEF Push
<1>5. cur > 0 /\ cur + arg <= NPages
  <2>1. cur \in Run(cur, arg) /\ cur + arg - 1 \in Run(cur, arg)
    BY <1>3 DEF Run
  <2>2. cur # 0 /\ cur + arg - 1 \in Page
    BY <1>1, <1>3, <2>1 DEF Bounded
  <2> QED
    BY <1>3, <2>2
<1>6. \A i \in DOMAIN chain : Extent(chain[i]) \cap Run(cur, arg) = {}
  BY <1>1, <1>3 DEF NoDoubleAlloc
<1>7. owned' \subseteq owned /\ Run(cur, arg) \cap owned' = {}
  BY <1>2
<1>8. /\ mem' \in [Page -> Header] /\ head' \in Page /\ chain' \in Seq(Page)
      /\ Bounded' /\ NoDoubleAlloc' /\ ListIntact'
  BY <1>1, <1>2, <1>3, <1>4, <1>5, <1>6, <1>7, PushKeeps
<1>9. TypeOK'
  <2>1. 0 \in Page /\ owned' \subseteq Page
    BY <1>3, <1>7
  <2> QED
    BY <1>1, <1>2, <1>8, <2>1 DEF TypeOK, Leave
<1>10. WindowOK' /\ Cursor' /\ Startup'
  BY <1>2 DEF WindowOK, Cursor, Startup, Leave
<1> QED
  BY <1>8, <1>9, <1>10 DEF IInv

\* The owner's writes do not touch the list: no header lies in an owned page.
LEMMA ScribbleInv ==
    ASSUME NEW p \in Page, NEW w \in Contents, IInv, Scribble(p, w)
    PROVE  IInv'
<1>1. TypeOK /\ Bounded /\ NoDoubleAlloc /\ ListIntact /\ WindowOK /\ Cursor
  BY DEF IInv
<1>2. /\ pc = "idle" /\ p \in owned /\ mem' = [mem EXCEPT ![p] = w]
      /\ UNCHANGED <<boot, head, temp, pc, prev, cur, arg, ret, owned, chain, scanned>>
  BY DEF Scribble
<1>3. /\ DOMAIN chain = 1 .. Len(chain)
      /\ \A i \in 1 .. Len(chain) : /\ chain[i] \in Page /\ chain[i] \in Nat
                                    /\ mem[chain[i]].size \in Nat
  BY <1>1, BlockTypes
<1>4. \A i \in 1 .. Len(chain) : mem'[chain[i]] = mem[chain[i]]
  <2> SUFFICES ASSUME NEW i \in 1 .. Len(chain) PROVE mem'[chain[i]] = mem[chain[i]]
    OBVIOUS
  <2>1. mem[chain[i]].size > 0 /\ Extent(chain[i]) \cap owned = {}
    BY <1>1, <1>3 DEF NoDoubleAlloc
  <2>2. chain[i] \in Extent(chain[i])
    BY <1>3, <2>1 DEF Extent, Run
  <2>3. chain[i] # p
    BY <1>2, <2>1, <2>2
  <2> QED
    BY <1>1, <1>2, <1>3, <2>3 DEF TypeOK
<1>5. w \in Header
  BY LayoutAssumption
<1>6. TypeOK'
  BY <1>1, <1>2, <1>5 DEF TypeOK
<1>7. \A i \in 1 .. Len(chain) : Extent(chain[i])' = Extent(chain[i])
  BY <1>2, <1>4 DEF Extent
<1>8. Bounded' /\ NoDoubleAlloc'
  BY <1>1, <1>2, <1>3, <1>4, <1>7 DEF Bounded, NoDoubleAlloc
<1>9. ListIntact'
  BY <1>1, <1>2, <1>3, <1>4 DEF ListIntact, After
<1>10. WindowOK' /\ Cursor' /\ Startup'
  BY <1>1, <1>2 DEF WindowOK, Cursor, Startup
<1> QED
  BY <1>6, <1>8, <1>9, <1>10 DEF IInv

\* A step that leaves the list, its headers and what is owned alone.
LEMMA QuietStep ==
    ASSUME IInv, pc # "relink", pc' # "relink",
           UNCHANGED <<boot, head, mem, owned, chain>>
    PROVE  Bounded' /\ NoDoubleAlloc' /\ ListIntact'
<1>1. Bounded /\ NoDoubleAlloc /\ ListIntact
  BY DEF IInv
<1>2. Bounded' /\ NoDoubleAlloc'
  BY <1>1 DEF Bounded, NoDoubleAlloc, Extent
<1>3. ListIntact'
  BY <1>1 DEF ListIntact, After
<1> QED
  BY <1>2, <1>3

LEMMA AllocCallInv ==
    ASSUME NEW n \in 1 .. MaxRequest, IInv, AllocCall(n)
    PROVE  IInv'
<1>1. TypeOK /\ ListIntact /\ WindowOK /\ Cursor
  BY DEF IInv
<1>2. Bounded' /\ NoDoubleAlloc' /\ ListIntact'
  BY QuietStep DEF AllocCall
<1>3. n \in Page /\ 0 \in Page
  BY LayoutFacts
<1>4. TypeOK'
  BY <1>1, <1>3 DEF TypeOK, AllocCall
<1>5. WindowOK' /\ Startup'
  BY <1>1 DEF WindowOK, Startup, AllocCall
<1>6. Cursor'
  <2>1. scanned' = 0 /\ prev' = 0 /\ arg' = n /\ cur' = After(0) /\ pc' = "loop"
    BY <1>1 DEF Cursor, ListIntact, AllocCall
  <2>2. After(0)' = After(0) /\ Len(chain)' = Len(chain) /\ Len(chain) \in Nat
    BY <1>1, BlockTypes DEF After, AllocCall
  <2> QED
    BY <2>1, <2>2 DEF Cursor, After
<1> QED
  BY <1>2, <1>4, <1>5, <1>6 DEF IInv

LEMMA AllocFailInv == IInv /\ AllocFail => IInv'
<1> SUFFICES ASSUME IInv, AllocFail PROVE IInv'
  OBVIOUS
<1>1. TypeOK /\ WindowOK
  BY DEF IInv
<1>2. Bounded' /\ NoDoubleAlloc' /\ ListIntact'
  BY QuietStep DEF AllocFail, Leave
<1>3. TypeOK'
  BY <1>1, LayoutFacts DEF TypeOK, AllocFail, Leave
<1>4. WindowOK' /\ Cursor' /\ Startup'
  BY <1>1 DEF WindowOK, Cursor, Startup, AllocFail, Leave
<1> QED
  BY <1>2, <1>3, <1>4 DEF IInv

LEMMA AllocMapInv == IInv /\ AllocMap => IInv'
<1> SUFFICES ASSUME IInv, AllocMap PROVE IInv'
  OBVIOUS
<1>1. TypeOK /\ Cursor
  BY DEF IInv
<1>2. Bounded' /\ NoDoubleAlloc' /\ ListIntact'
  BY QuietStep DEF AllocMap
<1>3. TypeOK'
  BY <1>1 DEF TypeOK, AllocMap
<1>4. WindowOK' /\ Startup'
  BY DEF WindowOK, Startup, AllocMap
<1>5. Cursor'
  BY <1>1 DEF Cursor, After, AllocMap
<1> QED
  BY <1>2, <1>3, <1>4, <1>5 DEF IInv

\* Where the search is when it looks at a block: at the next block of the list.
LEMMA ProbePlace ==
    ASSUME IInv, pc = "probe"
    PROVE  /\ scanned \in Nat /\ scanned + 1 \in 1 .. Len(chain)
           /\ temp = cur /\ cur = chain[scanned + 1] /\ cur \in Page
           /\ mem[cur].next = After(scanned + 1)
           /\ arg \in 1 .. MaxRequest
           /\ Len(chain) \in Nat /\ DOMAIN chain = 1 .. Len(chain)
<1>1. TypeOK /\ ListIntact /\ WindowOK /\ Cursor
  BY DEF IInv
<1>2. DOMAIN chain = 1 .. Len(chain) /\ Len(chain) \in Nat
  BY <1>1, BlockTypes
<1>3. /\ arg \in 1 .. MaxRequest /\ scanned \in 0 .. Len(chain)
      /\ cur = After(scanned) /\ cur # 0 /\ temp = cur
  BY <1>1 DEF Cursor, WindowOK
<1>4. scanned + 1 \in 1 .. Len(chain) /\ cur = chain[scanned + 1]
  BY <1>2, <1>3 DEF After
<1>5. mem[cur].next = After(scanned + 1)
  BY <1>1, <1>2, <1>4 DEF ListIntact
<1> QED
  BY <1>1, <1>2, <1>3, <1>4, <1>5 DEF TypeOK

LEMMA AllocNextInv == IInv /\ AllocNext => IInv'
<1> SUFFICES ASSUME IInv, AllocNext PROVE IInv'
  OBVIOUS
<1> DEFINE k == scanned + 1
<1>1. TypeOK /\ Cursor
  BY DEF IInv
<1>2. /\ pc = "probe" /\ ~Fits /\ prev' = cur /\ cur' = mem[temp].next
      /\ temp' = Unmapped /\ pc' = "loop" /\ scanned' = k
      /\ UNCHANGED <<boot, head, mem, arg, ret, owned, chain>>
  BY DEF AllocNext
<1>3. /\ scanned \in Nat /\ k \in 1 .. Len(chain) /\ temp = cur /\ cur = chain[k]
      /\ cur \in Page /\ mem[cur].next = After(k) /\ arg \in 1 .. MaxRequest
      /\ Len(chain) \in Nat
  BY <1>2, ProbePlace
<1>4. Bounded' /\ NoDoubleAlloc' /\ ListIntact'
  BY <1>2, QuietStep
<1>5. mem[cur].next \in Page
  BY <1>1, <1>3 DEF TypeOK, Header
<1>6. TypeOK'
  BY <1>1, <1>2, <1>3, <1>5 DEF TypeOK
<1>7. WindowOK' /\ Startup'
  BY <1>2 DEF WindowOK, Startup
<1>8. Cursor'
  <2>1. prev' = chain'[scanned'] /\ scanned' \in 1 .. Len(chain')
    BY <1>2, <1>3
  <2>2. cur' = After(scanned)'
    BY <1>2, <1>3 DEF After
  <2>3. Signed(mem[cur].size) < arg
    <3>1. Signed(arg) = arg
      BY <1>3, LayoutFacts DEF Signed
    <3>2. mem[cur].size \in Nat
      BY <1>1, <1>3, BlockTypes
    <3>3. Signed(mem[cur].size) \in Int /\ arg \in Int
      BY <1>3, <3>2, LayoutFacts DEF Signed
    <3> QED
      BY <1>2, <1>3, <3>1, <3>3 DEF Fits
  <2>4. \A i \in 1 .. scanned : Signed(mem[chain[i]].size) < arg
    BY <1>1, <1>2 DEF Cursor
  <2>5. \A i \in 1 .. scanned' : Signed(mem'[chain'[i]].size) < arg'
    <3> SUFFICES ASSUME NEW i \in 1 .. k PROVE Signed(mem[chain[i]].size) < arg
      BY <1>2
    <3>1. i = k \/ i \in 1 .. scanned
      BY <1>3
    <3> QED
      BY <1>3, <2>3, <2>4, <3>1
  <2>6. scanned' # 0 /\ arg' \in 1 .. MaxRequest /\ Len(chain') \in Nat
    BY <1>2, <1>3
  <2> QED
    BY <1>2, <2>1, <2>2, <2>5, <2>6 DEF Cursor, Signed
<1> QED
  BY <1>4, <1>6, <1>7, <1>8 DEF IInv

LEMMA AllocReturnInv == IInv /\ AllocReturn => IInv'
<1> SUFFICES ASSUME IInv, AllocReturn PROVE IInv'
  OBVIOUS
<1>1. TypeOK
  BY DEF IInv
<1>2. Bounded' /\ NoDoubleAlloc' /\ ListIntact'
  BY QuietStep DEF AllocReturn, Leave
<1>3. TypeOK'
  BY <1>1, LayoutFacts DEF TypeOK, AllocReturn, Leave
<1>4. WindowOK' /\ Cursor' /\ Startup'
  BY DEF WindowOK, Cursor, Startup, AllocReturn, Leave
<1> QED
  BY <1>2, <1>3, <1>4 DEF IInv

LEMMA FreeCallInv ==
    ASSUME NEW p \in Page, NEW n \in 1 .. MaxRequest, IInv, FreeCall(p, n)
    PROVE  IInv'
<1>1. TypeOK
  BY DEF IInv
<1>2. Bounded' /\ NoDoubleAlloc' /\ ListIntact'
  BY QuietStep DEF FreeCall
<1>3. n \in Page
  BY LayoutFacts
<1>4. TypeOK'
  BY <1>1, <1>3 DEF TypeOK, FreeCall
<1>5. WindowOK' /\ Cursor' /\ Startup'
  BY DEF WindowOK, Cursor, Startup, FreeCall
<1> QED
  BY <1>2, <1>4, <1>5 DEF IInv

LEMMA StutterInv == IInv /\ UNCHANGED vars => IInv'
<1> SUFFICES ASSUME IInv, UNCHANGED vars PROVE IInv'
  OBVIOUS
<1> USE DEF vars
<1>1. TypeOK /\ Bounded /\ NoDoubleAlloc /\ ListIntact /\ WindowOK /\ Cursor /\ Startup
  BY DEF IInv
<1>2. TypeOK' /\ Bounded' /\ NoDoubleAlloc'
  BY <1>1 DEF TypeOK, Bounded, NoDoubleAlloc, Extent
<1>3. ListIntact' /\ WindowOK' /\ Startup'
  BY <1>1 DEF ListIntact, After, WindowOK, Startup
<1>4. Cursor'
  BY <1>1 DEF Cursor, After, Signed
<1> QED
  BY <1>2, <1>3, <1>4 DEF IInv

\* The inductive invariant is kept by every step of the allocator, of its
\* callers and of the owners of pages.
LEMMA NextInv == IInv /\ [Next]_vars => IInv'
<1> SUFFICES ASSUME IInv, [Next]_vars PROVE IInv'
  OBVIOUS
<1>1. CASE InitLow
  BY <1>1, InitLowInv
<1>2. CASE InitHigh
  BY <1>2, InitHighInv
<1>3. CASE \E n \in 1 .. MaxRequest : AllocCall(n)
  BY <1>3, AllocCallInv
<1>4. CASE \E p \in Page, n \in 1 .. MaxRequest : FreeCall(p, n)
  BY <1>4, FreeCallInv
<1>5. CASE \E p \in Page, w \in Contents : Scribble(p, w)
  BY <1>5, ScribbleInv
<1>6. CASE InCall
  BY <1>6, AllocFailInv, AllocMapInv, AllocNextInv, ShrinkInv, UnlinkHeadInv,
     UnlinkInnerInv, RelinkInv, AllocReturnInv, FreePushInv DEF InCall
<1>7. CASE UNCHANGED vars
  BY <1>7, StutterInv
<1> QED
  BY <1>1, <1>2, <1>3, <1>4, <1>5, <1>6, <1>7 DEF Next

\* The inductive invariant holds in every state of the allocator.
THEOREM Invariant == Spec => []IInv
<1> QED
  BY InitInv, NextInv, PTL DEF Spec

\* Every variable keeps its type: sizes and addresses computed by pmm_alloc
\* never leave the machine's words.
THEOREM TypeCorrect == Spec => []TypeOK
<1>1. IInv => TypeOK
  BY DEF IInv
<1> QED
  BY <1>1, Invariant, PTL

\* No page is handed out twice, or handed out while it is free.
THEOREM NoDoubleAllocation == Spec => []NoDoubleAlloc
<1>1. IInv => NoDoubleAlloc
  BY DEF IInv
<1> QED
  BY <1>1, Invariant, PTL

\* The links in the free pages are never damaged, whatever the owners of the
\* other pages write.
THEOREM ListStaysIntact == Spec => []ListIntact
<1>1. IInv => ListIntact
  BY DEF IInv
<1> QED
  BY <1>1, Invariant, PTL

\* The temporary mapping shows the block the next access is meant for.
THEOREM WindowCorrect == Spec => []WindowOK
<1>1. IInv => WindowOK
  BY DEF IInv
<1> QED
  BY <1>1, Invariant, PTL

-----------------------------------------------------------------------------
(***************************************************************************)
(* What each step does to the set of free blocks.                          *)
(***************************************************************************)

LEMMA PushSet ==
    ASSUME TypeOK, NoDoubleAlloc,
           NEW p \in Page, NEW n \in Page, n > 0,
           \A i \in DOMAIN chain : Extent(chain[i]) \cap Run(p, n) = {},
           Push(p, n)
    PROVE  Blocks' = Blocks \cup {[base |-> p, size |-> n]}
<1> DEFINE B(i) == [base |-> chain[i], size |-> mem[chain[i]].size]
           C(i) == [base |-> chain'[i], size |-> mem'[chain'[i]].size]
<1>1. DOMAIN chain = 1 .. Len(chain) /\ Len(chain) \in Nat
  BY BlockTypes
<1>2. /\ DOMAIN chain' = 1 .. (Len(chain) + 1)
      /\ C(1) = [base |-> p, size |-> n]
      /\ \A i \in 1 .. Len(chain) : C(i + 1) = B(i)
  <2>1. /\ DOMAIN chain' = 1 .. (Len(chain) + 1)
        /\ chain'[1] = p /\ mem'[p] = [size |-> n, next |-> head]
        /\ \A i \in 1 .. Len(chain) : /\ chain'[i + 1] = chain[i]
                                      /\ mem'[chain[i]] = mem[chain[i]]
    BY PushBlocks
  <2>2. mem'[p].size = n
    BY <2>1
  <2>3. \A i \in 1 .. Len(chain) : C(i + 1) = B(i)
    BY <2>1
  <2> QED
    BY <2>1, <2>2, <2>3
<1>3. \A i \in DOMAIN chain' : i = 1 \/ \E j \in DOMAIN chain : i = j + 1
  <2> SUFFICES ASSUME NEW i \in 1 .. (Len(chain) + 1), i # 1
               PROVE  \E j \in 1 .. Len(chain) : i = j + 1
    BY <1>1, <1>2
  <2>1. i - 1 \in 1 .. Len(chain) /\ i = (i - 1) + 1
    BY <1>1
  <2> QED
    BY <2>1
<1>4. 1 \in DOMAIN chain' /\ \A i \in DOMAIN chain : i + 1 \in DOMAIN chain'
  BY <1>1, <1>2
<1>5. Blocks = {B(i) : i \in DOMAIN chain} /\ Blocks' = {C(i) : i \in DOMAIN chain'}
  BY DEF Blocks
<1> HIDE DEF B, C
<1>6. \A c \in Blocks' : c = C(1) \/ c \in Blocks
  <2> SUFFICES ASSUME NEW i \in DOMAIN chain' PROVE C(i) = C(1) \/ C(i) \in Blocks
    BY <1>5
  <2>1. CASE i = 1
    BY <2>1
  <2>2. CASE i # 1
    <3>1. PICK j \in DOMAIN chain : i = j + 1
      BY <1>3, <2>2
    <3> QED
      BY <1>1, <1>2, <1>5, <3>1
  <2> QED
    BY <2>1, <2>2
<1>7. \A b \in Blocks : b \in Blocks'
  BY <1>1, <1>2, <1>4, <1>5
<1> QED
  BY <1>2, <1>4, <1>5, <1>6, <1>7

LEMMA ShrinkSet ==
    ASSUME IInv, AllocShrink
    PROVE  /\ [base |-> cur, size |-> mem[cur].size] \in Blocks
           /\ Blocks' = (Blocks \ {[base |-> cur, size |-> mem[cur].size]})
                           \cup {[base |-> cur, size |-> Left]}
<1> DEFINE k == scanned + 1
           B(i) == [base |-> chain[i], size |-> mem[chain[i]].size]
           C(i) == [base |-> chain[i], size |-> mem'[chain[i]].size]
<1>1. TypeOK /\ NoDoubleAlloc
  BY DEF IInv
<1>2. /\ pc = "probe" /\ Fits /\ Carve /\ chain' = chain
  BY DEF AllocShrink
<1>3. DOMAIN chain = 1 .. Len(chain) /\ k \in DOMAIN chain /\ cur = chain[k]
  BY <1>1, <1>2, ProbeFacts, BlockTypes
<1>4. /\ C(k) = [base |-> cur, size |-> Left] /\ B(k) = [base |-> cur, size |-> mem[cur].size]
      /\ \A i \in DOMAIN chain : i # k => C(i) = B(i)
  BY <1>2, <1>3, CarveFacts
<1>5. \A i \in DOMAIN chain : i # k => B(i) # B(k)
  BY <1>1, <1>3, Distinct
<1>6. Blocks = {B(i) : i \in DOMAIN chain} /\ Blocks' = {C(i) : i \in DOMAIN chain}
  BY <1>2 DEF Blocks
<1> HIDE DEF B, C, k
<1> QED
  BY <1>3, <1>4, <1>5, <1>6

LEMMA UnlinkSet ==
    ASSUME IInv, pc = "probe", Fits, Left = 0, Carve, chain' = Without(scanned + 1)
    PROVE  /\ [base |-> cur, size |-> mem[cur].size] \in Blocks
           /\ Blocks' = Blocks \ {[base |-> cur, size |-> mem[cur].size]}
<1> DEFINE k == scanned + 1
           B(i) == [base |-> chain[i], size |-> mem[chain[i]].size]
           C(i) == [base |-> chain'[i], size |-> mem'[chain'[i]].size]
<1>1. TypeOK /\ NoDoubleAlloc
  BY DEF IInv
<1>2. /\ DOMAIN chain = 1 .. Len(chain) /\ Len(chain) \in Nat /\ chain \in Seq(Page)
      /\ k \in 1 .. Len(chain) /\ cur = chain[k] /\ scanned \in Nat
  BY <1>1, ProbeFacts, BlockTypes DEF TypeOK
<1>3. /\ chain' \in Seq(Page) /\ Len(chain') = Len(chain) - 1
      /\ \A i \in 1 .. (Len(chain) - 1) :
            chain'[i] = IF i < k THEN chain[i] ELSE chain[i + 1]
  BY <1>2, WithoutSeq DEF Without
<1>4. DOMAIN chain' = 1 .. (Len(chain) - 1)
  BY <1>2, <1>3
<1>5. \A i \in 1 .. Len(chain) : i # k => mem'[chain[i]] = mem[chain[i]]
  BY CarveFacts
<1>6. /\ \A i \in DOMAIN chain' : i < k => i \in DOMAIN chain /\ C(i) = B(i)
      /\ \A i \in DOMAIN chain' : ~(i < k) => /\ i + 1 \in DOMAIN chain /\ i + 1 # k
                                              /\ C(i) = B(i + 1)
  <2>1. ASSUME NEW i \in DOMAIN chain', i < k
        PROVE  i \in DOMAIN chain /\ C(i) = B(i)
    <3>1. i \in 1 .. (Len(chain) - 1) /\ i \in 1 .. Len(chain) /\ i # k
      BY <1>2, <1>4, <2>1
    <3>2. chain'[i] = chain[i] /\ mem'[chain[i]] = mem[chain[i]]
      BY <1>3, <1>5, <2>1, <3>1
    <3> QED
      BY <1>2, <3>1, <3>2
  <2>2. ASSUME NEW i \in DOMAIN chain', ~(i < k)
        PROVE  i + 1 \in DOMAIN chain /\ i + 1 # k /\ C(i) = B(i + 1)
    <3>1. i \in 1 .. (Len(chain) - 1) /\ i + 1 \in 1 .. Len(chain) /\ i + 1 # k
      BY <1>2, <1>4, <2>2
    <3>2. chain'[i] = chain[i + 1] /\ mem'[chain[i + 1]] = mem[chain[i + 1]]
      BY <1>3, <1>5, <2>2, <3>1
    <3> QED
      BY <1>2, <3>1, <3>2
  <2> QED
    BY <2>1, <2>2
<1>7. /\ \A j \in DOMAIN chain : j < k => j \in DOMAIN chain' /\ C(j) = B(j)
      /\ \A j \in DOMAIN chain : j > k => j - 1 \in DOMAIN chain' /\ C(j - 1) = B(j)
  <2>1. \A j \in DOMAIN chain : j < k => j \in DOMAIN chain'
    BY <1>2, <1>4
  <2>2. \A j \in DOMAIN chain : j > k => /\ j - 1 \in DOMAIN chain' /\ ~(j - 1 < k)
                                         /\ (j - 1) + 1 = j
    BY <1>2, <1>4
  <2> HIDE DEF B, C, k
  <2> QED
    BY <1>6, <2>1, <2>2
<1>8. \A i \in DOMAIN chain : i # k => B(i) # B(k)
  BY <1>1, <1>2, Distinct
<1>9. \A i \in DOMAIN chain : i < k \/ i > k \/ i = k
  BY <1>2
<1>10. \A i \in DOMAIN chain' : i < k => i # k
  BY <1>2, <1>4
<1>11. B(k) = [base |-> cur, size |-> mem[cur].size] /\ k \in DOMAIN chain
  BY <1>2
<1>12. Blocks = {B(i) : i \in DOMAIN chain} /\ Blocks' = {C(i) : i \in DOMAIN chain'}
  BY DEF Blocks
<1>13. \A c \in Blocks' : c \in Blocks /\ c # B(k)
  <2> HIDE DEF B, C, k
  <2> QED
    BY <1>6, <1>8, <1>10, <1>12
<1>14. \A c \in Blocks : c # B(k) => c \in Blocks'
  <2> HIDE DEF B, C, k
  <2> QED
    BY <1>7, <1>9, <1>12
<1> HIDE DEF B, C, k
<1> QED
  BY <1>11, <1>12, <1>13, <1>14

\* The steps that neither push, carve nor unlink leave the blocks alone.
LEMMA SameSet ==
    ASSUME IInv,
           \/ UNCHANGED <<mem, chain>>
           \/ AllocRelink
           \/ \E p \in Page, w \in Contents : Scribble(p, w)
    PROVE  Blocks' = Blocks
<1>1. TypeOK /\ NoDoubleAlloc /\ ListIntact
  BY DEF IInv
<1>2. /\ DOMAIN chain = 1 .. Len(chain)
      /\ \A i \in 1 .. Len(chain) : /\ chain[i] \in Page /\ chain[i] \in Nat
                                    /\ mem[chain[i]].size \in Nat
  BY <1>1, BlockTypes
<1>3. CASE UNCHANGED <<mem, chain>>
  BY <1>3 DEF Blocks
<1>4. CASE AllocRelink
  <2>1. chain' = chain /\ mem' = [mem EXCEPT ![temp].next = arg]
    BY <1>4 DEF AllocRelink
  <2>2. \A q \in Page : mem'[q].size = mem[q].size
    BY <1>1, <2>1 DEF TypeOK, Header
  <2>3. \A i \in 1 .. Len(chain) : mem'[chain[i]].size = mem[chain[i]].size
    BY <1>2, <2>2
  <2> QED
    BY <1>2, <2>1, <2>3 DEF Blocks
<1>5. CASE \E p \in Page, w \in Contents : Scribble(p, w)
  <2>1. PICK p \in Page, w \in Contents : Scribble(p, w)
    BY <1>5
  <2>2. p \in owned /\ chain' = chain /\ mem' = [mem EXCEPT ![p] = w]
    BY <2>1 DEF Scribble
  <2>3. \A i \in 1 .. Len(chain) : chain[i] \in Extent(chain[i]) /\ chain[i] # p
    <3> SUFFICES ASSUME NEW i \in 1 .. Len(chain)
                 PROVE  chain[i] \in Extent(chain[i]) /\ chain[i] # p
      OBVIOUS
    <3>1. mem[chain[i]].size > 0 /\ Extent(chain[i]) \cap owned = {}
      BY <1>1, <1>2 DEF NoDoubleAlloc
    <3>2. chain[i] \in Extent(chain[i])
      BY <1>2, <3>1 DEF Extent, Run
    <3> QED
      BY <2>2, <3>1, <3>2
  <2>4. \A i \in 1 .. Len(chain) : mem'[chain[i]] = mem[chain[i]]
    BY <1>1, <1>2, <2>2, <2>3 DEF TypeOK
  <2> QED
    BY <1>2, <2>2, <2>4 DEF Blocks
<1> QED
  BY <1>3, <1>4, <1>5

\* A block added, replaced or taken out adds or removes exactly its pages.
LEMMA PagesAdded ==
    ASSUME NEW b, Blocks' = Blocks \cup {b}
    PROVE  FreePages' = FreePages \cup Run(b.base, b.size)
  BY DEF FreePages

LEMMA PagesReplaced ==
    ASSUME NEW b, NEW c, b \in Blocks, Blocks' = (Blocks \ {b}) \cup {c},
           NEW R, Run(b.base, b.size) = Run(c.base, c.size) \cup R
    PROVE  FreePages' \cup R = FreePages
  BY DEF FreePages

LEMMA PagesRemoved ==
    ASSUME NEW b, b \in Blocks, Blocks' = Blocks \ {b}
    PROVE  FreePages' \cup Run(b.base, b.size) = FreePages
  BY DEF FreePages

\* What the allocator has of the memory at every stage of pmm_init and after.
Stock ==
    /\ pc = "init_low" => FreePages = {}
    /\ pc = "init_high" =>
          FreePages = IF LowTop - boot.kend > 1 THEN boot.kend .. (LowTop - 1) ELSE {}
    /\ Conserved

LEMMA PushStock ==
    ASSUME IInv, Stock, FreePush
    PROVE  FreePages' \cup owned' = FreePages \cup owned
<1> USE LayoutFacts
<1>1. TypeOK /\ Bounded /\ NoDoubleAlloc /\ WindowOK /\ Cursor
  BY DEF IInv
<1>2. /\ temp = cur /\ cur \in Page /\ arg \in Page /\ arg > 0
      /\ Run(cur, arg) \subseteq owned /\ owned' = owned \ Run(cur, arg)
  BY <1>1 DEF FreePush, WindowOK, Cursor, TypeOK
<1>3. Push(cur, arg)
  BY <1>2 DEF FreePush, Push
<1>4. \A i \in DOMAIN chain : Extent(chain[i]) \cap Run(cur, arg) = {}
  BY <1>1, <1>2 DEF NoDoubleAlloc
<1>5. Blocks' = Blocks \cup {[base |-> cur, size |-> arg]}
  BY <1>1, <1>2, <1>3, <1>4, PushSet
<1>6. FreePages' = FreePages \cup Run(cur, arg)
  <2> DEFINE b == [base |-> cur, size |-> arg]
  <2>1. Run(b.base, b.size) = Run(cur, arg)
    OBVIOUS
  <2>2. Blocks' = Blocks \cup {b}
    BY <1>5
  <2> HIDE DEF b
  <2> QED
    BY <2>1, <2>2, PagesAdded
<1> QED
  BY <1>2, <1>6

LEMMA ShrinkStock ==
    ASSUME IInv, AllocShrink
    PROVE  FreePages' \cup owned' = FreePages \cup owned
<1> DEFINE b == [base |-> cur, size |-> mem[cur].size]
           c == [base |-> cur, size |-> Left]
<1>1. pc = "probe" /\ Fits /\ Carve
  BY DEF AllocShrink
<1>2. b \in Blocks /\ Blocks' = (Blocks \ {b}) \cup {c}
  BY ShrinkSet
<1>3. /\ cur \in Nat /\ Left \in Nat /\ arg \in Nat /\ mem[cur].size \in Nat
      /\ Left = mem[cur].size - arg
  BY <1>1, ProbeFacts
<1>4. mem[cur].size = Left + arg
  BY <1>3
<1>5. Run(cur, mem[cur].size) = Run(cur, Left) \cup Run(cur + Left, arg)
  <2>1. cur \in Nat /\ Left \in Nat /\ arg \in Nat
    BY <1>3
  <2>2. Run(cur, Left + arg) = Run(cur, Left) \cup Run(cur + Left, arg)
    BY <2>1, RunFacts
  <2> QED
    BY <1>4, <2>2
<1>6. owned' = owned \cup Run(cur + Left, arg)
  BY <1>1, CarveFacts
<1>7. Run(b.base, b.size) = Run(c.base, c.size) \cup Run(cur + Left, arg)
  BY <1>5
<1> HIDE DEF b, c
<1>8. FreePages' \cup Run(cur + Left, arg) = FreePages
  BY <1>2, <1>7, PagesReplaced
<1> QED
  BY <1>6, <1>8

LEMMA UnlinkStock ==
    ASSUME IInv, AllocUnlinkHead \/ AllocUnlinkInner
    PROVE  FreePages' \cup owned' = FreePages \cup owned
<1> DEFINE b == [base |-> cur, size |-> mem[cur].size]
<1>1. pc = "probe" /\ Fits /\ Left = 0 /\ Carve /\ chain' = Without(scanned + 1)
  BY DEF AllocUnlinkHead, AllocUnlinkInner
<1>2. b \in Blocks /\ Blocks' = Blocks \ {b}
  BY <1>1, UnlinkSet
<1>3. cur \in Nat /\ arg \in Nat /\ mem[cur].size \in Nat /\ Left = mem[cur].size - arg
  BY <1>1, ProbeFacts
<1>4. mem[cur].size = arg /\ cur + Left = cur
  BY <1>1, <1>3
<1>5. owned' = owned \cup Run(cur, mem[cur].size)
  BY <1>1, <1>4, CarveFacts
<1>6. Run(b.base, b.size) = Run(cur, mem[cur].size)
  OBVIOUS
<1> HIDE DEF b
<1>7. FreePages' \cup Run(cur, mem[cur].size) = FreePages
  BY <1>2, <1>6, PagesRemoved
<1> QED
  BY <1>5, <1>7

\* pmm_init pushes its first region on an empty list, if at all ...
LEMMA InitLowSet ==
    ASSUME IInv, InitLow
    PROVE  /\ Blocks = {}
           /\ Blocks' = IF LowTop - boot.kend > 1
                          THEN {[base |-> boot.kend, size |-> LowTop - boot.kend]}
                          ELSE {}
<1> USE LayoutFacts
<1>1. TypeOK /\ NoDoubleAlloc /\ Startup
  BY DEF IInv
<1>2. pc = "init_low" /\ chain = <<>>
  BY <1>1 DEF Startup, InitLow
<1>3. Blocks = {}
  BY <1>2 DEF Blocks
<1>4. CASE LowTop - boot.kend > 1
  <2>1. Push(boot.kend, LowTop - boot.kend)
    BY <1>4 DEF InitLow
  <2>2. boot.kend \in Page /\ LowTop - boot.kend \in Page /\ LowTop - boot.kend > 0
    BY <1>1, <1>4 DEF TypeOK
  <2>3. Blocks' = Blocks \cup {[base |-> boot.kend, size |-> LowTop - boot.kend]}
    BY <1>1, <1>2, <2>1, <2>2, PushSet
  <2> QED
    BY <1>3, <1>4, <2>3
<1>5. CASE ~(LowTop - boot.kend > 1)
  <2>1. UNCHANGED <<mem, chain>>
    BY <1>5 DEF InitLow
  <2> QED
    BY <1>2, <1>3, <1>5, <2>1 DEF Blocks
<1> QED
  BY <1>4, <1>5

\* ... and its second one, which lies behind the first.
LEMMA InitHighSet ==
    ASSUME IInv, InitHigh
    PROVE  /\ Blocks' = Blocks \cup
                        {[base |-> HighBase, size |-> boot.high_mem - HighBase]}
           /\ boot.high_mem - HighBase \in Page /\ boot.high_mem - HighBase > 0
           /\ \A b \in Blocks :
                 Run(b.base, b.size) \cap Run(HighBase, boot.high_mem - HighBase) = {}
<1> USE LayoutFacts
<1> DEFINE n == boot.high_mem - HighBase
<1>1. TypeOK /\ NoDoubleAlloc /\ Startup
  BY DEF IInv
<1>2. pc = "init_high" /\ Push(HighBase, n)
  BY DEF InitHigh
<1>3. n \in Page /\ n > 0 /\ HighBase \in Page
  BY <1>1 DEF TypeOK
<1>4. \A i \in DOMAIN chain : Extent(chain[i]) \cap Run(HighBase, n) = {}
  <2>1. CASE LowTop - boot.kend > 1
    <3>1. chain = <<boot.kend>> /\ mem[boot.kend].size = LowTop - boot.kend
      BY <1>1, <1>2, <2>1 DEF Startup
    <3>2. boot.kend \in Nat
      BY <1>1 DEF TypeOK
    <3>3. Run(boot.kend, LowTop - boot.kend) \cap Run(HighBase, n) = {}
      BY <1>3, <2>1, <3>2 DEF Run
    <3> QED
      BY <3>1, <3>3 DEF Extent
  <2>2. CASE ~(LowTop - boot.kend > 1)
    <3>1. chain = <<>>
      BY <1>1, <1>2, <2>2 DEF Startup
    <3> QED
      BY <3>1
  <2> QED
    BY <2>1, <2>2
<1>5. Blocks' = Blocks \cup {[base |-> HighBase, size |-> n]}
  BY <1>1, <1>2, <1>3, <1>4, PushSet
<1>6. \A b \in Blocks : Run(b.base, b.size) \cap Run(HighBase, n) = {}
  <2> HIDE DEF n
  <2> QED
    BY <1>4 DEF Blocks, Extent
<1> QED
  BY <1>3, <1>5, <1>6

LEMMA StockInit == Init => Stock
<1> SUFFICES ASSUME Init PROVE Stock
  OBVIOUS
<1>1. chain = <<>> /\ pc = "init_low"
  BY DEF Init
<1>2. FreePages = {}
  BY <1>1 DEF FreePages, Blocks
<1> QED
  BY <1>1, <1>2 DEF Stock, Conserved

LEMMA StockNext == IInv /\ Stock /\ [Next]_vars => Stock'
<1> SUFFICES ASSUME IInv, Stock, [Next]_vars PROVE Stock'
  OBVIOUS
<1>1. CASE InitLow
  <2>1. pc' = "init_high" /\ boot' = boot /\ boot \in Boots
    BY <1>1 DEF InitLow, IInv, TypeOK
  <2>2. FreePages' = IF LowTop - boot.kend > 1 THEN boot.kend .. (LowTop - 1) ELSE {}
    <3>1. CASE LowTop - boot.kend > 1
      <4> DEFINE b == [base |-> boot.kend, size |-> LowTop - boot.kend]
      <4>1. Blocks' = {b}
        BY <1>1, <3>1, InitLowSet
      <4>2. FreePages' = Run(b.base, b.size)
        <5> HIDE DEF b
        <5> QED
          BY <4>1 DEF FreePages
      <4>3. Run(b.base, b.size) = boot.kend .. (LowTop - 1)
        BY <2>1, LayoutFacts DEF Run
      <4> QED
        BY <3>1, <4>2, <4>3
    <3>2. CASE ~(LowTop - boot.kend > 1)
      <4>1. Blocks' = {}
        BY <1>1, <3>2, InitLowSet
      <4> QED
        BY <3>2, <4>1 DEF FreePages
    <3> QED
      BY <3>1, <3>2
  <2> QED
    BY <2>1, <2>2 DEF Stock, Conserved
<1>2. CASE InitHigh
  <2>1. /\ pc = "init_high" /\ pc' = "idle" /\ boot' = boot /\ owned' = owned /\ owned = {}
        /\ boot \in Boots
    BY <1>2 DEF InitHigh, IInv, Startup, TypeOK
  <2> DEFINE b == [base |-> HighBase, size |-> boot.high_mem - HighBase]
  <2>2. Blocks' = Blocks \cup {b}
    BY <1>2, InitHighSet
  <2>3. Run(b.base, b.size) = HighBase .. (boot.high_mem - 1)
    BY <2>1, LayoutFacts DEF Run
  <2>4. FreePages' = FreePages \cup Run(b.base, b.size)
    <3> HIDE DEF b
    <3> QED
      BY <2>2, PagesAdded
  <2>5. FreePages' \cup owned' = Ram'
    BY <2>1, <2>3, <2>4 DEF Stock, Ram
  <2> QED
    BY <2>1, <2>5 DEF Stock, Conserved
<1>3. CASE ~InitLow /\ ~InitHigh
  <2>1. FreePages' \cup owned' = FreePages \cup owned
    <3>1. CASE AllocShrink
      BY <3>1, ShrinkStock
    <3>2. CASE AllocUnlinkHead \/ AllocUnlinkInner
      BY <3>2, UnlinkStock
    <3>3. CASE FreePush
      BY <3>3, PushStock
    <3>4. CASE AllocRelink \/ \E p \in Page, w \in Contents : Scribble(p, w)
      <4>1. Blocks' = Blocks
        BY <3>4, SameSet
      <4>2. owned' = owned
        BY <3>4 DEF AllocRelink, Scribble
      <4> QED
        BY <4>1, <4>2 DEF FreePages
    <3>5. CASE UNCHANGED <<mem, chain, owned>>
      BY <3>5, SameSet DEF FreePages
    <3>6. \/ AllocShrink \/ AllocUnlinkHead \/ AllocUnlinkInner \/ FreePush
          \/ AllocRelink \/ \E p \in Page, w \in Contents : Scribble(p, w)
          \/ UNCHANGED <<mem, chain, owned>>
      BY <1>3 DEF Next, InCall, AllocCall, AllocFail, AllocMap, AllocNext, AllocReturn,
                  FreeCall, vars
    <3> QED
      BY <3>1, <3>2, <3>3, <3>4, <3>5, <3>6
  <2>2. boot' = boot
    BY <1>3 DEF Next, InCall, AllocCall, AllocFail, AllocMap, AllocNext, AllocShrink,
                AllocUnlinkHead, AllocUnlinkInner, AllocRelink, AllocReturn, FreeCall,
                FreePush, Scribble, Leave, vars
  <2>3. \/ pc' \notin {"init_low", "init_high"} /\ pc \notin {"init_low", "init_high"}
        \/ UNCHANGED vars
    BY <1>3 DEF Next, InCall, AllocCall, AllocFail, AllocMap, AllocNext, AllocShrink,
                AllocUnlinkHead, AllocUnlinkInner, AllocRelink, AllocReturn, FreeCall,
                FreePush, Scribble, Leave, vars
  <2>4. CASE pc' \notin {"init_low", "init_high"} /\ pc \notin {"init_low", "init_high"}
    BY <2>1, <2>2, <2>4 DEF Stock, Conserved, Ram
  <2>5. CASE UNCHANGED vars
    BY <2>5 DEF Stock, Conserved, Ram, FreePages, Blocks, vars
  <2> QED
    BY <2>3, <2>4, <2>5
<1> QED
  BY <1>1, <1>2, <1>3

\* After pmm_init, free and owned pages together are always the whole memory.
THEOREM Conservation == Spec => []Conserved
<1>1. Stock => Conserved
  BY DEF Stock
<1> QED
  BY <1>1, InitInv, NextInv, StockInit, StockNext, PTL DEF Spec

-----------------------------------------------------------------------------
\* No region pmm_init finds has its size's sign bit set.  The comparison of
\* pmm_alloc takes a larger region for a negative number of bytes.
SmallRegions ==
    /\ LowTop < SignBit
    /\ \A b \in Boots : b.high_mem - HighBase < SignBit

\* No free block has its size's sign bit set.
SmallBlocks == \A b \in Blocks : b.size < SignBit

LEMMA SmallNext ==
    ASSUME SmallRegions, IInv, SmallBlocks, [Next]_vars
    PROVE  SmallBlocks'
<1> USE LayoutFacts
<1>1. TypeOK /\ NoDoubleAlloc /\ WindowOK /\ Cursor
  BY DEF IInv
<1>2. CASE InitLow
  <2>1. LowTop - boot.kend < SignBit
    BY <1>1 DEF SmallRegions, TypeOK
  <2> QED
    BY <1>2, <2>1, InitLowSet DEF SmallBlocks
<1>3. CASE InitHigh
  <2>1. boot.high_mem - HighBase < SignBit
    BY <1>1 DEF SmallRegions, TypeOK
  <2> QED
    BY <1>3, <2>1, InitHighSet DEF SmallBlocks
<1>4. CASE AllocShrink
  <2>1. Left < SignBit
    <3>1. /\ mem[cur].size \in Nat /\ arg \in Nat /\ 1 <= arg
          /\ mem[cur].size < SignBit /\ Left = mem[cur].size - arg
      BY <1>4, ProbeFacts DEF AllocShrink
    <3> QED
      BY <3>1
  <2> QED
    BY <1>4, <2>1, ShrinkSet DEF SmallBlocks
<1>5. CASE AllocUnlinkHead \/ AllocUnlinkInner
  BY <1>5, UnlinkSet DEF SmallBlocks, AllocUnlinkHead, AllocUnlinkInner
<1>6. CASE FreePush
  <2>1. /\ temp = cur /\ cur \in Page /\ arg \in Page /\ arg > 0 /\ arg < SignBit
        /\ Run(cur, arg) \subseteq owned
    BY <1>1, <1>6 DEF FreePush, WindowOK, Cursor, TypeOK
  <2>2. Push(cur, arg)
    BY <1>6, <2>1 DEF FreePush, Push
  <2>3. \A i \in DOMAIN chain : Extent(chain[i]) \cap Run(cur, arg) = {}
    BY <1>1, <2>1 DEF NoDoubleAlloc
  <2> QED
    BY <1>1, <2>1, <2>2, <2>3, PushSet DEF SmallBlocks
<1>7. CASE \/ UNCHANGED <<mem, chain>> \/ AllocRelink
           \/ \E p \in Page, w \in Contents : Scribble(p, w)
  BY <1>7, SameSet DEF SmallBlocks
<1>8. \/ InitLow \/ InitHigh \/ AllocShrink \/ AllocUnlinkHead \/ AllocUnlinkInner
      \/ FreePush \/ AllocRelink \/ \E p \in Page, w \in Contents : Scribble(p, w)
      \/ UNCHANGED <<mem, chain>>
  BY DEF Next, InCall, AllocCall, AllocFail, AllocMap, AllocNext, AllocReturn, FreeCall, vars
<1> QED
  BY <1>2, <1>3, <1>4, <1>5, <1>6, <1>7, <1>8

\* When the search reaches the end of the list it has passed every block.
LEMMA FailFacts ==
    ASSUME IInv, SmallBlocks, AllocFail
    PROVE  arg \in 1 .. MaxRequest /\ \A b \in Blocks : b.size < arg
<1> USE LayoutFacts
<1>1. TypeOK /\ Bounded /\ Cursor
  BY DEF IInv
<1>2. /\ arg \in 1 .. MaxRequest /\ scanned \in 0 .. Len(chain) /\ After(scanned) = 0
      /\ \A i \in 1 .. scanned : Signed(mem[chain[i]].size) < arg
  BY <1>1 DEF AllocFail, Cursor
<1>3. /\ DOMAIN chain = 1 .. Len(chain) /\ Len(chain) \in Nat
      /\ \A i \in 1 .. Len(chain) : mem[chain[i]].size \in Nat
  BY <1>1, BlockTypes
<1>4. scanned = Len(chain)
  <2>1. scanned \in 0 .. Len(chain) /\ Len(chain) \in Nat
    BY <1>2, <1>3
  <2> SUFFICES ASSUME scanned < Len(chain) PROVE FALSE
    BY <2>1
  <2>2. scanned + 1 \in 1 .. Len(chain) /\ chain[scanned + 1] = 0
    BY <1>2, <1>3 DEF After
  <2>3. chain[scanned + 1] > 0
    BY <1>1, <1>3, <2>2 DEF Bounded
  <2> QED
    BY <2>2, <2>3
<1>5. \A i \in 1 .. Len(chain) : mem[chain[i]].size < arg
  <2> SUFFICES ASSUME NEW i \in 1 .. Len(chain) PROVE mem[chain[i]].size < arg
    OBVIOUS
  <2>1. [base |-> chain[i], size |-> mem[chain[i]].size] \in Blocks
    BY <1>3 DEF Blocks
  <2>2. mem[chain[i]].size < SignBit
    BY <2>1 DEF SmallBlocks
  <2>3. Signed(mem[chain[i]].size) = mem[chain[i]].size
    BY <2>2 DEF Signed
  <2> QED
    BY <1>2, <1>4, <2>3
<1> QED
  BY <1>2, <1>3, <1>5 DEF Blocks

LEMMA SmallInit == Init => SmallBlocks
  BY DEF Init, SmallBlocks, Blocks

\* ENOMEM means that no free block has as many pages as were asked for.
THEOREM EnomemIsTrue == SmallRegions => (Spec => NoMemoryLeft)
<1> SUFFICES ASSUME SmallRegions PROVE Spec => NoMemoryLeft
  OBVIOUS
<1>1. IInv /\ SmallBlocks /\ [Next]_vars =>
         [pc = "loop" /\ pc' = "idle" => \A b \in Blocks : b.size < arg]_vars
  <2> SUFFICES ASSUME IInv, SmallBlocks, Next, pc = "loop", pc' = "idle"
               PROVE  \A b \in Blocks : b.size < arg
    OBVIOUS
  <2>1. AllocFail
    BY DEF Next, InCall, InitLow, InitHigh, AllocCall, FreeCall, Scribble, AllocMap,
           AllocNext, AllocShrink, AllocUnlinkHead, AllocUnlinkInner, AllocRelink,
           AllocReturn, FreePush
  <2> QED
    BY <2>1, FailFacts
<1>2. IInv /\ SmallBlocks /\ [Next]_vars => SmallBlocks'
  BY SmallNext
<1> QED
  BY <1>1, <1>2, SmallInit, InitInv, NextInv, PTL DEF Spec, NoMemoryLeft

-----------------------------------------------------------------------------
(***************************************************************************)
(* The steps of the allocator as steps of the pool.                        *)
(***************************************************************************)

\* The abstract state, written out.
Want   == IF pc \in {"loop", "probe"} THEN arg ELSE 0
Answer == IF pc \in {"relink", "finalize"} THEN cur ELSE ret.addr

LEMMA GrantHelper ==
    ASSUME IInv, AllocShrink \/ AllocUnlinkHead \/ AllocUnlinkInner
    PROVE  /\ Want = arg /\ arg > 0 /\ mem[cur].size >= arg /\ Left = mem[cur].size - arg
           /\ Run(cur + Left, arg) \cap owned = {}
           /\ owned' = owned \cup Run(cur + Left, arg)
           /\ Answer' = cur + Left /\ Want' = 0
           /\ [base |-> cur, size |-> mem[cur].size] \in Blocks
           /\ Blocks' = (Blocks \ {[base |-> cur, size |-> mem[cur].size]}) \cup
                        (IF Left = 0 THEN {} ELSE {[base |-> cur, size |-> Left]})
<1>1. pc = "probe" /\ Fits /\ Carve /\ pc' \in {"finalize", "relink"}
  BY DEF AllocShrink, AllocUnlinkHead, AllocUnlinkInner
<1>2. /\ arg \in Nat /\ 1 <= arg /\ mem[cur].size \in Nat /\ arg <= mem[cur].size
      /\ Left = mem[cur].size - arg /\ Run(cur + Left, arg) \cap owned = {}
  BY <1>1, ProbeFacts
<1>3. cur' = cur + Left /\ owned' = owned \cup Run(cur + Left, arg)
  BY <1>1, CarveFacts
<1>4. /\ [base |-> cur, size |-> mem[cur].size] \in Blocks
      /\ Blocks' = (Blocks \ {[base |-> cur, size |-> mem[cur].size]}) \cup
                   (IF Left = 0 THEN {} ELSE {[base |-> cur, size |-> Left]})
  <2>1. CASE AllocShrink
    BY <2>1, ShrinkSet DEF AllocShrink
  <2>2. CASE AllocUnlinkHead \/ AllocUnlinkInner
    BY <2>2, UnlinkSet DEF AllocUnlinkHead, AllocUnlinkInner
  <2> QED
    BY <2>1, <2>2
<1>5. Want = arg /\ Want' = 0 /\ Answer' = cur'
  BY <1>1 DEF Want, Answer
<1>6. arg > 0 /\ mem[cur].size >= arg
  BY <1>2
<1> QED
  BY <1>2, <1>3, <1>4, <1>5, <1>6

\* Carving pages off a block is the grant.
LEMMA GrantStep ==
    ASSUME IInv, AllocShrink \/ AllocUnlinkHead \/ AllocUnlinkInner
    PROVE  \E b \in Blocks : Pool!Grant(b)
<1> DEFINE b == [base |-> cur, size |-> mem[cur].size]
<1>1. b \in Blocks
  BY GrantHelper
<1>2. Pool!Grant(b)
  BY GrantHelper DEF Pool!Grant, Pool!Run, Run, Want, Answer
<1> QED
  BY <1>1, <1>2

\* The end of the list is the refusal.
LEMMA RefuseStep ==
    ASSUME IInv, SmallBlocks, AllocFail
    PROVE  Pool!Refuse
<1>1. arg \in 1 .. MaxRequest /\ \A b \in Blocks : b.size < arg
  BY FailFacts
<1>2. Blocks' = Blocks
  BY SameSet DEF AllocFail
<1>3. arg > 0
  BY <1>1, LayoutFacts
<1> QED
  BY <1>1, <1>2, <1>3 DEF Pool!Refuse, AllocFail, Leave

\* Writing the header of freed pages is giving them back.
LEMMA GiveBackStep ==
    ASSUME IInv, FreePush
    PROVE  Pool!GiveBack(cur, arg) /\ cur \in Page /\ arg \in Page
<1>1. TypeOK /\ NoDoubleAlloc /\ WindowOK /\ Cursor
  BY DEF IInv
<1>2. /\ temp = cur /\ cur \in Page /\ arg \in Page /\ arg > 0
      /\ Run(cur, arg) \subseteq owned
  BY <1>1, LayoutFacts DEF FreePush, WindowOK, Cursor, TypeOK
<1>3. Push(cur, arg)
  BY <1>2 DEF FreePush, Push
<1>4. \A i \in DOMAIN chain : Extent(chain[i]) \cap Run(cur, arg) = {}
  BY <1>1, <1>2 DEF NoDoubleAlloc
<1>5. Blocks' = Blocks \cup {[base |-> cur, size |-> arg]}
  BY <1>1, <1>2, <1>3, <1>4, PushSet
<1>6. owned' = owned \ Run(cur, arg) /\ pc = "push" /\ pc' = "idle" /\ ret' = ret
  BY DEF FreePush, Leave
<1> QED
  BY <1>2, <1>5, <1>6 DEF Pool!GiveBack, Pool!Run, Run

\* The regions of pmm_init join a pool they do not overlap.
LEMMA RegionStep ==
    ASSUME IInv, InitLow \/ InitHigh
    PROVE  \/ UNCHANGED <<Blocks, owned, Want, Answer>>
           \/ \E p, n \in Page : Pool!AddRegion([base |-> p, size |-> n])
<1> USE LayoutFacts
<1>1. TypeOK /\ Startup
  BY DEF IInv
<1>2. /\ owned = {} /\ owned' = owned /\ ret' = ret /\ boot \in Boots
      /\ pc \in {"init_low", "init_high"} /\ pc' \in {"init_high", "idle"}
  BY <1>1 DEF InitLow, InitHigh, Startup, TypeOK
<1>3. Want = 0 /\ Want' = 0 /\ Answer' = Answer
  BY <1>2 DEF Want, Answer
<1>4. CASE InitLow /\ ~(LowTop - boot.kend > 1)
  BY <1>2, <1>3, <1>4, InitLowSet
<1>5. CASE InitLow /\ LowTop - boot.kend > 1
  <2> DEFINE b == [base |-> boot.kend, size |-> LowTop - boot.kend]
  <2>1. Blocks = {} /\ Blocks' = Blocks \cup {b} /\ b.size > 0
    <3>1. b.size > 0
      BY <1>2, <1>5
    <3>2. Blocks = {} /\ Blocks' = {b}
      BY <1>5, InitLowSet
    <3> QED
      BY <3>1, <3>2
  <2>2. boot.kend \in Page /\ LowTop - boot.kend \in Page
    BY <1>2, <1>5
  <2>3. Pool!AddRegion(b)
    BY <1>2, <1>3, <2>1 DEF Pool!AddRegion, Pool!Fresh, Want, Answer
  <2> QED
    BY <2>2, <2>3
<1>6. CASE InitHigh
  <2> DEFINE b == [base |-> HighBase, size |-> boot.high_mem - HighBase]
  <2>1. /\ Blocks' = Blocks \cup {b} /\ b.size > 0 /\ boot.high_mem - HighBase \in Page
        /\ \A c \in Blocks :
              Run(HighBase, boot.high_mem - HighBase) \cap Run(c.base, c.size) = {}
    BY <1>6, InitHighSet
  <2>2. Pool!Fresh(Pool!Extent(b))
    BY <1>2, <2>1 DEF Pool!Fresh, Pool!Extent, Pool!Run, Run
  <2>3. Pool!AddRegion(b)
    BY <1>2, <1>3, <2>1, <2>2 DEF Pool!AddRegion, Want, Answer
  <2> QED
    BY <2>1, <2>3
<1> QED
  BY <1>4, <1>5, <1>6

\* The allocator implements the pool of blocks: a grant is the end of one free
\* block that nobody held, a refusal means no block is large enough, and pages
\* given back come into the pool as they are.
THEOREM ImplementsPool == SmallRegions => (Spec => PoolSpec)
<1> SUFFICES ASSUME SmallRegions PROVE Spec => PoolSpec
  OBVIOUS
<1>1. Init => Pool!Init
  BY DEF Init, Pool!Init, Blocks
<1>2. IInv /\ SmallBlocks /\ [Next]_vars => [Pool!Next]_(Pool!pvars)
  <2> SUFFICES ASSUME IInv, SmallBlocks, [Next]_vars
               PROVE  Pool!Next \/ UNCHANGED Pool!pvars
    OBVIOUS
  <2> USE DEF Pool!pvars
  <2>1. CASE InitLow \/ InitHigh
    BY <2>1, RegionStep DEF Pool!Next, Want, Answer
  <2>2. CASE \E n \in 1 .. MaxRequest : AllocCall(n)
    <3>1. PICK n \in 1 .. MaxRequest : AllocCall(n)
      BY <2>2
    <3>2. Pool!Ask(n) /\ n \in Page
      BY <3>1, LayoutFacts, SameSet DEF Pool!Ask, AllocCall
    <3> QED
      BY <3>2 DEF Pool!Next
  <2>3. CASE AllocFail
    BY <2>3, RefuseStep DEF Pool!Next
  <2>4. CASE AllocShrink \/ AllocUnlinkHead \/ AllocUnlinkInner
    BY <2>4, GrantStep DEF Pool!Next
  <2>5. CASE FreePush
    BY <2>5, GiveBackStep DEF Pool!Next
  <2>6. CASE AllocMap
    BY <2>6, SameSet DEF AllocMap
  <2>7. CASE AllocNext
    BY <2>7, SameSet DEF AllocNext
  <2>8. CASE AllocRelink
    BY <2>8, SameSet DEF AllocRelink
  <2>9. CASE AllocReturn
    BY <2>9, SameSet DEF AllocReturn, Leave
  <2>10. CASE \E p \in Page, n \in 1 .. MaxRequest : FreeCall(p, n)
    BY <2>10, SameSet DEF FreeCall
  <2>11. CASE \E p \in Page, w \in Contents : Scribble(p, w)
    BY <2>11, SameSet DEF Scribble
  <2>12. CASE UNCHANGED vars
    BY <2>12, SameSet DEF vars
  <2> QED
    BY <2>1, <2>2, <2>3, <2>4, <2>5, <2>6, <2>7, <2>8, <2>9, <2>10, <2>11, <2>12
    DEF Next, InCall
<1>3. IInv /\ SmallBlocks /\ [Next]_vars => SmallBlocks'
  BY SmallNext
<1> QED
  BY <1>1, <1>2, <1>3, SmallInit, InitInv, NextInv, PTL DEF Spec, PoolSpec, Pool!Spec
=============================================================================
