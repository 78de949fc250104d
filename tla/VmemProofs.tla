----------------------------- MODULE VmemProofs -----------------------------
(***************************************************************************)
(* Every answer of vmem_alloc lies inside the arena, for every number of   *)
(* descriptors and of free lists and every arena that fits them and is     *)
(* smaller than half the address space (2 GB).                             *)
(*                                                                         *)
(* The reason is not the one the code had in mind.  list_remove never      *)
(* moves the head of a list, so that the pool hands out the descriptor     *)
(* that was put there last, again and again: the arena, the free segment,  *)
(* both spare descriptors of a call and the segment it finds are one and   *)
(* the same.  It begins where the arena begins and never grows.            *)
(***************************************************************************)
EXTENDS Vmem, FiniteSetTheorems, WellFoundedInduction, TLAPS

\* The descriptor with the highest address, the last one of vmem_bootstrap.
Top == NSegs

\* Where vmem_alloc holds two descriptors.
InCall == {"retry_strat", "instant_fit", "best_fit", "next", "fail", "found"}

Links == [first : [Lists \cup {Pool} -> Seg \cup {Null}],
          next : [Seg -> Seg \cup {Null}], prev : [Seg -> Seg \cup {Null}],
          count : Int]

\* During the bootstrap the pool begins with the descriptor freed last and the
\* free lists of the arena are empty.
Filling ==
    pc \in {"bootstrap", "create"} =>
        /\ q.count \in 0 .. NSegs /\ q.first[Pool] = q.count
        /\ pc = "bootstrap" => q.count < NSegs
        /\ pc = "create" => q.count = NSegs
        /\ \A l \in Lists : q.first[l] = Null

\* Top heads the pool and every free list that has a head, and none of these is
\* a list of segments larger than the arena.
Headed(links) ==
    /\ links \in Links
    /\ links.first[Pool] = Top
    /\ \A l \in Lists : links.first[l] # Null => links.first[l] = Top /\ 2 ^ l <= Span

\* From vmem_create on; nothing but Top itself is ever behind it.
OneDescriptor ==
    pc \notin {"bootstrap", "create"} =>
        /\ Headed(q) /\ q.next[Top] \in {Top, Null}
        /\ seg[Top].base = Base /\ seg[Top].size <= Span

\* The count leaves room for the descriptors a call holds, which are Top twice.
Spares ==
    IF pc \in InCall
      THEN spare = <<Top, Top>> /\ q.count <= NSegs - 2 /\ req.size \in Sizes
      ELSE spare = <<Null, Null>>

\* What the search knows of the list and the segment it looks at.
Search ==
    /\ at \in {Top, Null} /\ found \in {Top, Null}
    /\ pc = "instant_fit" => req.size <= 2 ^ list
    /\ pc = "best_fit" => list < NLists
    /\ pc = "found" => found = Top /\ req.size <= Span

\* An address that is not 0 is the beginning of the arena.
Answers == answer.addr # 0 => answer.addr = Base /\ answer.size <= Span

IInv == TypeOK /\ Filling /\ OneDescriptor /\ Spares /\ Search /\ Answers

-----------------------------------------------------------------------------
\* A set of numbers has a smallest one.
LEMMA Smallest ==
    ASSUME NEW S \in SUBSET Nat, NEW m \in S
    PROVE  \E n \in S : \A i \in Nat : i < n => i \notin S
    <1>1. PICK n \in S : \A y \in S : ~(<<y, n>> \in OpToRel(<, Nat))
        BY WFMin, NatLessThanWellFounded
    <1>2. \A y \in S : ~(y < n)
        BY <1>1 DEF OpToRel
    <1> QED BY <1>2

\* The powers of two, by the numbers of subsets they are.
LEMMA PowerType ==
    ASSUME NEW n \in Nat
    PROVE  2 ^ n \in Nat
    <1>1. IsFiniteSet(1 .. n) /\ Cardinality(1 .. n) = n
        BY FS_Interval
    <1>2. IsFiniteSet(SUBSET (1 .. n)) /\ Cardinality(SUBSET (1 .. n)) = 2 ^ n
        BY <1>1, FS_SUBSET
    <1> QED BY <1>2, FS_CardinalityType

\* The subsets of 1 .. (n + 1) are those of 1 .. n, with and without n + 1.
LEMMA PowerStep ==
    ASSUME NEW n \in Nat
    PROVE  2 ^ (n + 1) = 2 * 2 ^ n
    <1> DEFINE A == SUBSET (1 .. n)
               B == {T \in SUBSET (1 .. (n + 1)) : n + 1 \in T}
    <1>1. IsFiniteSet(1 .. n) /\ Cardinality(1 .. n) = n
        BY FS_Interval
    <1>2. IsFiniteSet(1 .. (n + 1)) /\ Cardinality(1 .. (n + 1)) = n + 1
        BY FS_Interval
    <1>3. IsFiniteSet(A) /\ Cardinality(A) = 2 ^ n
        BY <1>1, FS_SUBSET
    <1>4. Cardinality(SUBSET (1 .. (n + 1))) = 2 ^ (n + 1)
        BY <1>2, FS_SUBSET
    <1>5. SUBSET (1 .. (n + 1)) = A \cup B
        <2>1. ASSUME NEW T \in SUBSET (1 .. (n + 1)), n + 1 \notin T
              PROVE  T \subseteq 1 .. n
            BY <2>1
        <2>2. 1 .. n \subseteq 1 .. (n + 1)
            OBVIOUS
        <2> QED BY <2>1, <2>2
    <1>6. A \cap B = {}
        <2>1. n + 1 \notin 1 .. n
            OBVIOUS
        <2> QED BY <2>1
    <1>7. ExistsBijection(A, B)
        <2> DEFINE f == [T \in A |-> T \cup {n + 1}]
        <2>1. n + 1 \notin 1 .. n /\ 1 .. (n + 1) = (1 .. n) \cup {n + 1}
            OBVIOUS
        <2>2. f \in [A -> B]
            BY <2>1
        <2>3. \A S, T \in A : f[S] = f[T] => S = T
            BY <2>1
        <2>4. \A T \in B : \E S \in A : f[S] = T
            <3> SUFFICES ASSUME NEW T \in B PROVE f[T \ {n + 1}] = T /\ T \ {n + 1} \in A
                OBVIOUS
            <3>1. T \ {n + 1} \in A /\ n + 1 \in T
                BY <2>1
            <3> QED BY <3>1
        <2> HIDE DEF f, A, B
        <2>5. f \in Bijection(A, B)
            BY <2>2, <2>3, <2>4 DEF Bijection, Injection, Surjection, IsInjective
        <2> QED BY <2>5 DEF ExistsBijection
    <1>8. IsFiniteSet(B) /\ Cardinality(B) = 2 ^ n
        BY <1>3, <1>7, FS_Bijection
    <1>9. Cardinality(A \cup B) = Cardinality(A) + Cardinality(B) - Cardinality({})
        BY <1>3, <1>6, <1>8, FS_Union
    <1> HIDE DEF A, B
    <1>10. 2 ^ (n + 1) = 2 ^ n + 2 ^ n - 0
        BY <1>3, <1>4, <1>5, <1>8, <1>9, FS_EmptySet
    <1> QED BY <1>10, PowerType

\* VMEM_GET_LIST_FROM_SIZE finds a list, and the one of the size.
LEMMA ListFacts ==
    ASSUME NEW n \in Nat, 1 <= n, n <= 2 ^ NLists - 1
    PROVE  /\ ListOf(n) \in Lists /\ 2 ^ ListOf(n) <= n /\ n < 2 ^ (ListOf(n) + 1)
    <1> DEFINE S == {k \in Nat : n < 2 ^ k}
    <1>1. NLists \in Nat /\ NLists >= 1
        BY VmemAssumption
    <1>2. NLists \in S
        BY <1>1, PowerType
    <1>3. PICK k \in S : \A i \in Nat : i < k => i \notin S
        <2>1. S \in SUBSET Nat
            OBVIOUS
        <2> HIDE DEF S
        <2> QED BY <1>2, <2>1, Smallest
    <1>4. k \in Nat /\ n < 2 ^ k /\ k <= NLists
        BY <1>1, <1>2, <1>3
    <1>5. k # 0
        <2> SUFFICES ASSUME k = 0 PROVE FALSE
            OBVIOUS
        <2>1. 2 ^ 0 = 1
            OBVIOUS
        <2> QED BY <1>4, <2>1
    <1>6. k - 1 \in Lists /\ k - 1 \in Nat /\ (k - 1) + 1 = k
        BY <1>1, <1>4, <1>5 DEF Lists
    <1>7. ~(n < 2 ^ (k - 1))
        BY <1>3, <1>6
    <1>8. 2 ^ (k - 1) <= n
        BY <1>6, <1>7, PowerType
    <1>9. \E i \in Lists : 2 ^ i <= n /\ n < 2 ^ (i + 1)
        BY <1>4, <1>6, <1>8
    <1> QED BY <1>9 DEF ListOf

\* The constants are numbers.
LEMMA Sized ==
    /\ NSegs \in Nat /\ NSegs >= 1 /\ NLists \in Nat /\ NLists >= 1
    /\ Quantum \in Nat /\ Quantum >= 1 /\ Base \in Nat /\ Base >= 1
    /\ Span \in Nat /\ Span >= 1 /\ Span <= 2 ^ NLists - 1
    /\ Half \in Nat /\ Span < Half /\ Quantum < Half
    /\ Top \in Seg /\ Null \notin Seg /\ Pool \notin Lists /\ Top # Null /\ Top \in Nat
    <1>1. /\ NSegs \in Nat /\ NSegs >= 1 /\ NLists \in Nat /\ NLists >= 1
          /\ Quantum \in Nat \ {0} /\ Base \in Nat \ {0} /\ Span \in 1 .. (2 ^ NLists - 1)
          /\ Half \in Nat /\ Span < Half /\ Quantum < Half
        BY VmemAssumption
    <1>2. 2 ^ NLists \in Nat
        BY <1>1, PowerType
    <1> QED BY <1>1, <1>2 DEF Top, Seg, Null, Pool, Lists

LEMMA Asked ==
    ASSUME NEW n \in Sizes
    PROVE  n \in Nat /\ 1 <= n /\ n <= 2 ^ NLists - 1 /\ n < Half
    BY Sized, PowerType, VmemAssumption

\* Below half the address space sizes compare as what they are, and so do
\* their differences.
LEMMA SignedIs ==
    ASSUME NEW a \in Nat, a < Half, NEW b \in Nat, b < Half
    PROVE  Signed(a) = a /\ Signed(a - b) = a - b
    BY Sized DEF Signed

-----------------------------------------------------------------------------
\* What the routines of queue.inc do to the links.
LEMMA Inserted ==
    ASSUME NEW links \in Links, NEW l \in Lists \cup {Pool}, NEW e \in Seg
    PROVE  /\ InsertHead(links, l, e) \in Links
           /\ InsertHead(links, l, e).first = [links.first EXCEPT ![l] = e]
           /\ InsertHead(links, l, e).next[e] = links.first[l]
           /\ InsertHead(links, l, e).count = links.count
    BY DEF InsertHead, Links

\* list_remove leaves every head where it is.
LEMMA Removed ==
    ASSUME NEW links \in Links, NEW e \in Seg
    PROVE  /\ Remove(links, e) \in Links
           /\ Remove(links, e).first = links.first
           /\ Remove(links, e).next[e] = links.next[e]
           /\ Remove(links, e).count = links.count
    BY DEF Remove, Links

LEMMA InsertTop ==
    ASSUME NEW links, Headed(links), NEW l \in Lists \cup {Pool}, l # Pool => 2 ^ l <= Span
    PROVE  LET r == InsertHead(links, l, Top)
           IN  Headed(r) /\ r.next[Top] \in {Top, Null} /\ r.count = links.count
    <1> DEFINE r == InsertHead(links, l, Top)
    <1>1. links \in Links /\ Top \in Seg
        BY Sized DEF Headed
    <1>2. /\ r \in Links /\ r.first = [links.first EXCEPT ![l] = Top]
          /\ r.next[Top] = links.first[l] /\ r.count = links.count
        BY <1>1, Inserted
    <1> HIDE DEF r
    <1>3. /\ r.first[l] = Top
          /\ \A k \in Lists \cup {Pool} : k # l => r.first[k] = links.first[k]
        BY <1>1, <1>2 DEF Links
    <1>4. Headed(r)
        BY <1>2, <1>3 DEF Headed
    <1>5. r.next[Top] \in {Top, Null}
        BY <1>2 DEF Headed
    <1> QED BY <1>2, <1>4, <1>5 DEF r

LEMMA RemoveTop ==
    ASSUME NEW links, Headed(links)
    PROVE  LET r == Remove(links, Top)
           IN  Headed(r) /\ r.next[Top] = links.next[Top] /\ r.count = links.count
    BY Removed, Sized DEF Headed

\* The pool hands out Top and keeps it.
LEMMA TakeTop ==
    ASSUME NEW links, Headed(links)
    PROVE  LET r == SegAlloc(links)
           IN  /\ r.seg = Top /\ Headed(r.links)
               /\ r.links.next[Top] = links.next[Top] /\ r.links.count = links.count - 1
    <1> DEFINE k == Remove(links, Top)
               r == [k EXCEPT !.count = @ - 1]
    <1>1. Headed(k) /\ k.next[Top] = links.next[Top] /\ k.count = links.count
        BY RemoveTop
    <1>2. SegAlloc(links) = [seg |-> Top, links |-> r]
        BY Sized DEF SegAlloc, Headed
    <1> HIDE DEF k
    <1>3. r \in Links /\ r.first = k.first /\ r.next = k.next /\ r.count = k.count - 1
        BY <1>1 DEF Headed, Links
    <1>4. /\ SegAlloc(links).seg = Top /\ SegAlloc(links).links = r
        BY <1>2
    <1> HIDE DEF r
    <1> QED BY <1>1, <1>3, <1>4 DEF Headed

LEMMA FreeTop ==
    ASSUME NEW links, Headed(links)
    PROVE  LET r == SegFree(links, Top)
           IN  Headed(r) /\ r.next[Top] \in {Top, Null} /\ r.count = links.count + 1
    <1> DEFINE k == InsertHead(links, Pool, Top)
               r == [k EXCEPT !.count = @ + 1]
    <1>1. Headed(k) /\ k.next[Top] \in {Top, Null} /\ k.count = links.count
        BY InsertTop
    <1>2. SegFree(links, Top) = r
        BY Sized DEF SegFree
    <1> HIDE DEF k
    <1>3. r \in Links /\ r.first = k.first /\ r.next = k.next /\ r.count = k.count + 1
        BY <1>1 DEF Headed, Links
    <1> QED BY <1>1, <1>2, <1>3 DEF Headed

-----------------------------------------------------------------------------
LEMMA Initially == Init => IInv
    <1> SUFFICES ASSUME Init PROVE IInv
        OBVIOUS
    <1>1. TypeOK
        BY Sized DEF Init, TypeOK, Seg, Null, Flags
    <1>2. Filling
        BY Sized DEF Init, Filling, Lists, Pool, Null
    <1> QED BY <1>1, <1>2 DEF Init, IInv, OneDescriptor, Spares, Search, Answers, InCall

LEMMA BootstrapInv == IInv /\ Bootstrap => IInv'
    <1> SUFFICES ASSUME IInv, Bootstrap PROVE IInv'
        OBVIOUS
    <1> DEFINE e == q.count + 1
               k == InsertHead(q, Pool, e)
    <1>1. /\ pc = "bootstrap" /\ q \in Links /\ q.count \in Nat /\ q.count < NSegs
          /\ \A l \in Lists : q.first[l] = Null
        BY DEF IInv, Filling, TypeOK, Bootstrap, Links
    <1>2. e \in Seg /\ e # Null /\ e \in Nat /\ e <= NSegs
        BY <1>1, Sized DEF Seg, Null
    <1>3. k \in Links /\ k.first = [q.first EXCEPT ![Pool] = e] /\ k.count = q.count
        BY <1>1, <1>2, Inserted
    <1>4. q' = [k EXCEPT !.count = @ + 1]
        BY <1>2 DEF Bootstrap, SegFree
    <1> HIDE DEF k
    <1>5. /\ q' \in Links /\ q'.count = e /\ q'.first[Pool] = e
          /\ \A l \in Lists : q'.first[l] = Null
        BY <1>1, <1>3, <1>4, Sized DEF Links
    <1>6. pc' = IF e = NSegs THEN "create" ELSE "bootstrap"
        BY <1>1, <1>5 DEF Bootstrap
    <1>7. UNCHANGED <<seg, req, spare, list, at, found, answer>>
        BY DEF Bootstrap
    <1> HIDE DEF e
    <1>9. TypeOK'
        BY <1>2, <1>5, <1>6, <1>7 DEF IInv, TypeOK, Links
    <1>10. Filling'
        BY <1>2, <1>5, <1>6, Sized DEF Filling
    <1>11. (OneDescriptor /\ Spares /\ Search /\ Answers)'
        BY <1>1, <1>6, <1>7 DEF IInv, OneDescriptor, Spares, Search, Answers, InCall
    <1> QED BY <1>9, <1>10, <1>11 DEF IInv

LEMMA CreateInv == IInv /\ Create => IInv'
    <1> SUFFICES ASSUME IInv, Create PROVE IInv'
        OBVIOUS
    <1> DEFINE a == SegAlloc(q).links
               b == SegAlloc(a).links
               d(sg, type) == [sg EXCEPT ![Top] = [base |-> Base, size |-> Span, type |-> type]]
    <1>1. /\ pc = "create" /\ TypeOK /\ q \in Links /\ q.count = NSegs
          /\ spare = <<Null, Null>>
        BY DEF IInv, Filling, Spares, TypeOK, Create, Links, InCall
    <1>2. Headed(q)
        BY <1>1 DEF Headed, IInv, Filling, Top
    <1>3. SegAlloc(q).seg = Top /\ Headed(a) /\ a.count = NSegs - 1
        BY <1>1, <1>2, TakeTop
    <1>4. SegAlloc(a).seg = Top /\ Headed(b) /\ b.count = NSegs - 1 - 1
        BY <1>3, TakeTop
    <1>5. ListOf(Span) \in Lists /\ 2 ^ ListOf(Span) <= Span
        BY Sized, ListFacts
    <1>6. /\ seg' = d(d(seg, "static_span"), "free") /\ q' = InsertHead(b, ListOf(Span), Top)
          /\ pc' = "idle" /\ UNCHANGED <<req, spare, list, at, found, answer>>
        BY <1>3, <1>4, Sized DEF Create
    <1>7. Headed(q') /\ q'.next[Top] \in {Top, Null} /\ q'.count = NSegs - 2
        <2> HIDE DEF b
        <2> QED BY <1>4, <1>5, <1>6, InsertTop, Sized
    <1>8. /\ seg' \in [Seg -> [base : Nat, size : Nat, type : {"allocated", "free", "static_span"}]]
          /\ seg'[Top].base = Base /\ seg'[Top].size = Span
        BY <1>1, <1>6, Sized DEF TypeOK
    <1> HIDE DEF a, b, d
    <1>9. TypeOK'
        BY <1>1, <1>6, <1>7, <1>8, Sized DEF TypeOK, Headed, Links
    <1>10. (Filling /\ OneDescriptor /\ Spares)'
        BY <1>1, <1>6, <1>7, <1>8, Sized DEF Filling, OneDescriptor, Spares, InCall
    <1>11. (Search /\ Answers)'
        BY <1>6 DEF IInv, Search, Answers
    <1> QED BY <1>9, <1>10, <1>11 DEF IInv

-----------------------------------------------------------------------------
\* In a call, after the bootstrap: what the invariant comes to.
LEMMA CallFacts ==
    ASSUME IInv, pc \in InCall
    PROVE  /\ TypeOK /\ Search /\ Answers
           /\ Headed(q) /\ q.next[Top] \in {Top, Null}
           /\ seg[Top].base = Base /\ seg[Top].size <= Span /\ seg[Top].size \in Nat
           /\ spare = <<Top, Top>> /\ q.count <= NSegs - 2
           /\ req.size \in Sizes /\ req.size \in Nat /\ 1 <= req.size
           /\ ListOf(req.size) \in Lists /\ 2 ^ ListOf(req.size) <= req.size
           /\ req.size < 2 ^ (ListOf(req.size) + 1)
    <1>1. pc \notin {"bootstrap", "create"}
        BY DEF InCall
    <1>2. seg[Top].size \in Nat
        BY Sized DEF IInv, TypeOK
    <1>3. req.size \in Sizes
        BY DEF IInv, Spares
    <1>4. req.size \in Nat /\ 1 <= req.size /\ req.size <= 2 ^ NLists - 1
        BY <1>3, Asked
    <1> QED BY <1>1, <1>2, <1>3, <1>4, ListFacts DEF IInv, OneDescriptor, Spares

\* A step inside a call that leaves the links and the segments alone.
LEMMA InsideInv ==
    ASSUME IInv, pc \in InCall, pc' \in InCall, UNCHANGED <<q, seg, req, spare, answer>>,
           list' \in 0 .. NLists, Search'
    PROVE  IInv'
    <1>1. TypeOK /\ Spares /\ Answers /\ OneDescriptor
        BY DEF IInv
    <1>2. at' \in Seg \cup {Null} /\ found' \in Seg \cup {Null}
        BY Sized DEF Search
    <1>3. TypeOK'
        BY <1>1, <1>2 DEF TypeOK, InCall
    <1>4. (Filling /\ OneDescriptor /\ Spares /\ Answers)'
        BY <1>1 DEF Filling, OneDescriptor, Spares, Answers, InCall, Headed
    <1> QED BY <1>3, <1>4 DEF IInv

LEMMA AllocCallInv ==
    ASSUME IInv, NEW n \in Sizes, NEW flag \in Flags, AllocCall(n, flag)
    PROVE  IInv'
    <1> DEFINE a == SegAlloc(q).links
               b == SegAlloc(a).links
    <1>1. /\ pc = "idle" /\ TypeOK /\ Search /\ Answers /\ Headed(q) /\ q.next[Top] \in {Top, Null}
          /\ q.count <= NSegs /\ q.count \in Int
          /\ seg[Top].base = Base /\ seg[Top].size <= Span
        BY DEF IInv, OneDescriptor, AllocCall, TypeOK
    <1>2. SegAlloc(q).seg = Top /\ Headed(a) /\ a.next[Top] = q.next[Top] /\ a.count = q.count - 1
        BY <1>1, TakeTop
    <1>3. SegAlloc(a).seg = Top /\ Headed(b) /\ b.next[Top] = a.next[Top] /\ b.count = a.count - 1
        BY <1>2, TakeTop
    <1>4. /\ req' = [size |-> n, flag |-> flag] /\ q' = b /\ spare' = <<Top, Top>>
          /\ pc' \in {"fail", "retry_strat"} /\ UNCHANGED <<seg, list, at, found, answer>>
        BY <1>2, <1>3 DEF AllocCall
    <1> HIDE DEF a, b
    <1>5. /\ Headed(q') /\ q'.next[Top] \in {Top, Null}
          /\ q'.count = q.count - 2 /\ q'.count \in Int /\ q' \in Links
        BY <1>1, <1>2, <1>3, <1>4 DEF Headed
    <1>6. n \in Nat
        BY Asked
    <1>7. TypeOK'
        BY <1>1, <1>4, <1>5, <1>6, Sized DEF TypeOK, Links
    <1>8. (Filling /\ OneDescriptor /\ Spares)'
        BY <1>1, <1>4, <1>5, Sized DEF Filling, OneDescriptor, Spares, InCall
    <1>9. (Search /\ Answers)'
        BY <1>1, <1>4 DEF Search, Answers
    <1> QED BY <1>7, <1>8, <1>9 DEF IInv

LEMMA RetryStratInv == IInv /\ RetryStrat => IInv'
    <1> SUFFICES ASSUME IInv, RetryStrat PROVE IInv'
        OBVIOUS
    <1> DEFINE l == ListOf(req.size)
    <1>1. pc \in InCall
        BY DEF RetryStrat, InCall
    <1>2. /\ at \in {Top, Null} /\ found \in {Top, Null} /\ Headed(q)
          /\ l \in Lists /\ req.size \in Nat /\ 1 <= req.size
          /\ 2 ^ l <= req.size /\ req.size < 2 ^ (l + 1)
        BY <1>1, CallFacts DEF Search
    <1>3. /\ l \in Nat /\ l < NLists /\ l + 1 \in Nat /\ 2 ^ l \in Nat /\ 2 ^ (l + 1) \in Nat
        <2>1. l \in Nat /\ l < NLists
            BY <1>2, Sized DEF Lists
        <2> QED BY <2>1, PowerType
    <1>4. UNCHANGED <<q, seg, req, spare, found, answer>>
        BY DEF RetryStrat
    <1>5. CASE req.flag = "instantfit"
        <2>1. pc' = "instant_fit" /\ at' = at
            BY <1>5 DEF RetryStrat
        <2>2. list' \in 0 .. NLists /\ req.size <= 2 ^ list'
            <3>1. CASE PowerOfTwo(req.size)
                <4>1. list' = l /\ req.size = 2 ^ l
                    BY <1>5, <3>1 DEF RetryStrat, PowerOfTwo
                <4> QED BY <1>3, <4>1, Sized
            <3>2. CASE ~PowerOfTwo(req.size)
                <4>1. list' = l + 1
                    BY <1>5, <3>2 DEF RetryStrat
                <4> QED BY <1>2, <1>3, <4>1, Sized
            <3> QED BY <3>1, <3>2
        <2>3. Search'
            BY <1>2, <1>4, <2>1, <2>2 DEF Search
        <2> QED BY <1>1, <1>4, <2>1, <2>2, <2>3, InsideInv DEF InCall
    <1>6. CASE req.flag # "instantfit"
        <2>1. pc' = "best_fit" /\ list' = l /\ at' = q.first[l]
            BY <1>6 DEF RetryStrat
        <2>2. at' \in {Top, Null}
            BY <1>2, <2>1 DEF Headed
        <2>3. list' \in 0 .. NLists /\ list' < NLists
            BY <1>3, <2>1, Sized
        <2>4. Search'
            BY <1>2, <1>4, <2>1, <2>2, <2>3 DEF Search
        <2> QED BY <1>1, <1>4, <2>1, <2>3, <2>4, InsideInv DEF InCall
    <1> QED BY <1>5, <1>6

LEMMA InstantFitInv == IInv /\ InstantFit => IInv'
    <1> SUFFICES ASSUME IInv, InstantFit PROVE IInv'
        OBVIOUS
    <1>1. pc = "instant_fit" /\ pc \in InCall
        BY DEF InstantFit, InCall
    <1>2. /\ at \in {Top, Null} /\ found \in {Top, Null} /\ Headed(q)
          /\ req.size <= 2 ^ list /\ req.size \in Nat
        BY <1>1, CallFacts DEF Search
    <1>3. list \in Nat /\ list <= NLists
        BY Sized DEF IInv, TypeOK
    <1>4. 2 ^ list \in Nat /\ 2 ^ (list + 1) = 2 * 2 ^ list
        BY <1>3, PowerType, PowerStep
    <1>5. UNCHANGED <<q, seg, req, spare, at, answer>>
        BY DEF InstantFit
    <1>6. CASE list >= NLists
        <2>1. pc' = "next" /\ UNCHANGED <<list, found>>
            BY <1>6 DEF InstantFit
        <2>2. Search' /\ list' \in 0 .. NLists
            BY <1>2, <1>3, <1>5, <2>1, Sized DEF Search
        <2> QED BY <1>1, <1>5, <2>1, <2>2, InsideInv DEF InCall
    <1>7. CASE ~(list >= NLists) /\ q.first[list] # Null
        <2>1. pc' = "found" /\ found' = q.first[list] /\ UNCHANGED list
            BY <1>7 DEF InstantFit
        <2>2. list \in Lists
            BY <1>3, <1>7, Sized DEF Lists
        <2>3. q.first[list] = Top /\ 2 ^ list <= Span
            BY <1>2, <1>7, <2>2 DEF Headed
        <2>4. req.size <= Span
            BY <1>2, <1>4, <2>3, Sized
        <2>5. Search' /\ list' \in 0 .. NLists
            BY <1>2, <1>3, <1>5, <2>1, <2>3, <2>4, Sized DEF Search
        <2> QED BY <1>1, <1>5, <2>1, <2>5, InsideInv DEF InCall
    <1>8. CASE ~(list >= NLists) /\ q.first[list] = Null
        <2>1. list' = list + 1 /\ UNCHANGED <<pc, found>>
            BY <1>8 DEF InstantFit
        <2>2. req.size <= 2 ^ list'
            BY <1>2, <1>4, <2>1
        <2>3. list' \in 0 .. NLists
            BY <1>3, <1>8, <2>1, Sized
        <2>4. Search'
            BY <1>1, <1>2, <1>5, <2>1, <2>2 DEF Search
        <2> QED BY <1>1, <1>5, <2>1, <2>3, <2>4, InsideInv DEF InCall
    <1> QED BY <1>6, <1>7, <1>8

LEMMA BestFitSegInv == IInv /\ BestFitSeg => IInv'
    <1> SUFFICES ASSUME IInv, BestFitSeg PROVE IInv'
        OBVIOUS
    <1>1. pc = "best_fit" /\ pc \in InCall /\ at # Null /\ found' = at
        BY DEF BestFitSeg, InCall
    <1>2. /\ at = Top /\ q.next[Top] \in {Top, Null}
          /\ seg[Top].size <= Span /\ seg[Top].size \in Nat /\ req.size \in Nat
          /\ list < NLists
        BY <1>1, CallFacts DEF Search
    <1>3. list' \in 0 .. NLists /\ list' < NLists
        BY <1>2 DEF IInv, TypeOK, BestFitSeg
    <1>4. UNCHANGED <<q, seg, req, spare, answer>>
        BY DEF BestFitSeg
    <1>0. Signed(req.size) = req.size /\ Signed(seg[at].size) = seg[at].size
        <2>1. req.size \in Sizes /\ req.size < Half
            BY <1>1, CallFacts, Asked
        <2>2. seg[at].size \in Nat /\ seg[at].size < Half
            BY <1>2, Sized
        <2>3. Signed(req.size) = req.size
            BY <1>2, <2>1, SignedIs
        <2>4. Signed(seg[at].size) = seg[at].size
            BY <2>2, SignedIs
        <2> QED BY <2>3, <2>4
    <1>5. CASE req.size < seg[at].size
        <2>1. pc' = "found" /\ UNCHANGED at
            BY <1>0, <1>5 DEF BestFitSeg
        <2>2. req.size <= Span
            BY <1>2, <1>5, Sized
        <2>3. Search'
            BY <1>1, <1>2, <1>4, <2>1, <2>2 DEF Search
        <2> QED BY <1>1, <1>3, <1>4, <2>1, <2>3, InsideInv DEF InCall
    <1>6. CASE ~(req.size < seg[at].size)
        <2>1. at' = q.next[at] /\ UNCHANGED pc
            BY <1>0, <1>6 DEF BestFitSeg
        <2>2. Search'
            BY <1>1, <1>2, <1>3, <1>4, <2>1 DEF Search
        <2> QED BY <1>1, <1>3, <1>4, <2>1, <2>2, InsideInv DEF InCall
    <1> QED BY <1>5, <1>6

LEMMA BestFitNextInv == IInv /\ BestFitNext => IInv'
    <1> SUFFICES ASSUME IInv, BestFitNext PROVE IInv'
        OBVIOUS
    <1>1. pc = "best_fit" /\ pc \in InCall /\ at = Null /\ list' = list + 1
        BY DEF BestFitNext, InCall
    <1>2. found \in {Top, Null} /\ Headed(q) /\ list < NLists
        BY <1>1, CallFacts DEF Search
    <1>3. list' \in 0 .. NLists
        BY <1>1, <1>2, Sized DEF IInv, TypeOK
    <1>4. UNCHANGED <<q, seg, req, spare, found, answer>>
        BY DEF BestFitNext
    <1>5. CASE list' < NLists
        <2>1. at' = q.first[list'] /\ UNCHANGED pc
            BY <1>5 DEF BestFitNext
        <2>2. list' \in Lists
            BY <1>3, <1>5, Sized DEF Lists
        <2>3. at' \in {Top, Null}
            BY <1>2, <2>1, <2>2 DEF Headed
        <2>4. Search'
            BY <1>1, <1>2, <1>4, <1>5, <2>1, <2>3 DEF Search
        <2> QED BY <1>1, <1>3, <1>4, <2>1, <2>4, InsideInv
    <1>6. CASE ~(list' < NLists)
        <2>1. pc' = "next" /\ UNCHANGED at
            BY <1>6 DEF BestFitNext
        <2>2. Search'
            BY <1>1, <1>2, <1>4, <2>1 DEF Search
        <2> QED BY <1>1, <1>3, <1>4, <2>1, <2>2, InsideInv DEF InCall
    <1> QED BY <1>5, <1>6

LEMMA NextStratInv == IInv /\ NextStrat => IInv'
    <1> SUFFICES ASSUME IInv, NextStrat PROVE IInv'
        OBVIOUS
    <1>1. pc \in InCall /\ pc' \in {"retry_strat", "fail"}
          /\ UNCHANGED <<q, seg, req, spare, list, at, found, answer>>
        BY DEF NextStrat, InCall
    <1>2. Search'
        BY <1>1 DEF IInv, Search
    <1>3. list' \in 0 .. NLists
        BY <1>1 DEF IInv, TypeOK
    <1> QED BY <1>1, <1>2, <1>3, InsideInv DEF InCall

-----------------------------------------------------------------------------
\* The ways out: the links go back with one descriptor or with both.
LEMMA LeaveInv ==
    ASSUME IInv, pc \in InCall, NEW links, Headed(links),
           links.next[Top] \in {Top, Null}, links.count = q.count,
           NEW back \in {Top, Null}, Leave(links, Top, back),
           seg' \in [Seg -> [base : Nat, size : Nat, type : {"allocated", "free", "static_span"}]],
           seg'[Top].base = Base, seg'[Top].size <= Span,
           answer' \in [addr : Nat, size : Nat], Answers'
    PROVE  IInv'
    <1> DEFINE a == SegFree(links, Top)
               b == SegFree(a, back)
    <1>1. TypeOK /\ q.count <= NSegs - 2 /\ q.count \in Int
        BY CallFacts DEF TypeOK
    <1>2. Headed(a) /\ a.next[Top] \in {Top, Null} /\ a.count = q.count + 1
        BY FreeTop
    <1>3. Headed(b) /\ b.next[Top] \in {Top, Null} /\ b.count <= NSegs /\ b.count \in Int
        <2>1. CASE back = Top
            <3> HIDE DEF a
            <3>1. Headed(b) /\ b.next[Top] \in {Top, Null} /\ b.count = a.count + 1
                BY <1>2, <2>1, FreeTop
            <3> QED BY <1>1, <1>2, <3>1, Sized
        <2>2. CASE back = Null
            <3>1. b = a
                BY <2>2 DEF SegFree
            <3> HIDE DEF a, b
            <3> QED BY <1>1, <1>2, <3>1, Sized
        <2> QED BY <2>1, <2>2
    <1>4. /\ q' = b /\ pc' = "idle" /\ spare' = <<Null, Null>>
          /\ req' = [size |-> 0, flag |-> "neither"]
          /\ list' = 0 /\ at' = Null /\ found' = Null
        BY DEF Leave
    <1> HIDE DEF a, b
    <1>5. TypeOK'
        BY <1>1, <1>3, <1>4, Sized DEF TypeOK, Headed, Links, Flags
    <1>6. (Filling /\ OneDescriptor /\ Spares /\ Search)'
        BY <1>3, <1>4 DEF Filling, OneDescriptor, Spares, Search, InCall
    <1> QED BY <1>5, <1>6 DEF IInv

LEMMA AllocFailInv == IInv /\ AllocFail => IInv'
    <1> SUFFICES ASSUME IInv, AllocFail PROVE IInv'
        OBVIOUS
    <1>1. pc \in InCall
        BY DEF AllocFail, InCall
    <1>2. /\ TypeOK /\ Headed(q) /\ q.next[Top] \in {Top, Null} /\ spare = <<Top, Top>>
          /\ seg[Top].base = Base /\ seg[Top].size <= Span /\ req.size \in Nat
        BY <1>1, CallFacts
    <1>3. Leave(q, Top, Top) /\ seg' = seg /\ answer' = [addr |-> 0, size |-> req.size]
        BY <1>2 DEF AllocFail
    <1>4. Answers' /\ answer' \in [addr : Nat, size : Nat]
        BY <1>2, <1>3 DEF Answers
    <1> QED BY <1>1, <1>2, <1>3, <1>4, LeaveInv DEF TypeOK

LEMMA AllocSplitInv == IInv /\ AllocSplit => IInv'
    <1> SUFFICES ASSUME IInv, AllocSplit PROVE IInv'
        OBVIOUS
    <1> DEFINE rest == seg[Top].size - req.size
               cut == [seg EXCEPT ![Top].base = Base + req.size, ![Top].size = @ - req.size]
               both == [cut EXCEPT ![Top].base = Base, ![Top].size = req.size]
               a == Remove(q, Top)
               b == InsertHead(a, ListOf(req.size), Top)
    <1>1. pc = "found" /\ pc \in InCall /\ Splits
        BY DEF AllocSplit, InCall
    <1>2. /\ TypeOK /\ Headed(q) /\ q.next[Top] \in {Top, Null} /\ spare = <<Top, Top>>
          /\ seg[Top].base = Base /\ seg[Top].size <= Span /\ seg[Top].size \in Nat
          /\ req.size \in Nat /\ found = Top /\ req.size <= Span
          /\ ListOf(req.size) \in Lists /\ 2 ^ ListOf(req.size) <= req.size
        BY <1>1, CallFacts DEF Search
    <1>3. Headed(a) /\ a.next[Top] = q.next[Top] /\ a.count = q.count
        BY <1>2, RemoveTop
    <1>4. 2 ^ ListOf(req.size) <= Span
        <2>1. ListOf(req.size) \in Nat
            BY <1>2, Sized DEF Lists
        <2>2. 2 ^ ListOf(req.size) \in Nat
            BY <2>1, PowerType
        <2> QED BY <1>2, <2>2, Sized
    <1>5. Headed(b) /\ b.next[Top] \in {Top, Null} /\ b.count = q.count
        <2> HIDE DEF a
        <2> QED BY <1>2, <1>3, <1>4, InsertTop
    <1>6. rest >= 0 /\ rest \in Nat
        <2>1. req.size < Half
            BY <1>1, CallFacts, Asked
        <2>2. Signed(rest) = rest /\ Signed(Quantum - 1) = Quantum - 1
            BY <1>2, <2>1, SignedIs, Sized
        <2>3. Signed(rest) > Signed(Quantum - 1)
            BY <1>1, <1>2 DEF Splits
        <2> QED BY <1>2, <2>2, <2>3, Sized
    <1>7. cut \in [Seg -> [base : Nat, size : Nat, type : {"allocated", "free", "static_span"}]]
        <2> HIDE DEF rest
        <2>1. Base + req.size \in Nat
            BY <1>2, Sized
        <2>2. DEFINE r == [seg[Top] EXCEPT !.base = Base + req.size, !.size = rest]
        <2>3. r \in [base : Nat, size : Nat, type : {"allocated", "free", "static_span"}]
            <3>1. seg[Top] \in [base : Nat, size : Nat, type : {"allocated", "free", "static_span"}]
                BY <1>2, Sized DEF TypeOK
            <3> QED BY <1>6, <2>1, <3>1
        <2>4. cut = [seg EXCEPT ![Top] = r]
            BY <1>2, Sized DEF rest, TypeOK
        <2> HIDE DEF cut, r
        <2> QED BY <1>2, <2>3, <2>4 DEF TypeOK
    <1> HIDE DEF cut
    <1>8. /\ both \in [Seg -> [base : Nat, size : Nat, type : {"allocated", "free", "static_span"}]]
          /\ both[Top].base = Base /\ both[Top].size = req.size
        BY <1>2, <1>7, Sized
    <1>9. /\ seg' = [both EXCEPT ![Top].type = "allocated"] /\ Leave(b, Top, Null)
          /\ answer' = [addr |-> both[Top].base, size |-> req.size]
        BY <1>1, <1>2 DEF AllocSplit, cut
    <1> HIDE DEF both, b, a
    <1>10. /\ seg' \in [Seg -> [base : Nat, size : Nat, type : {"allocated", "free", "static_span"}]]
           /\ seg'[Top].base = Base /\ seg'[Top].size <= Span
        BY <1>2, <1>8, <1>9, Sized
    <1>11. answer' = [addr |-> Base, size |-> req.size]
        BY <1>8, <1>9
    <1>12. Answers' /\ answer' \in [addr : Nat, size : Nat]
        BY <1>2, <1>11, Sized DEF Answers
    <1> QED BY <1>1, <1>5, <1>9, <1>10, <1>12, LeaveInv

LEMMA AllocWholeInv == IInv /\ AllocWhole => IInv'
    <1> SUFFICES ASSUME IInv, AllocWhole PROVE IInv'
        OBVIOUS
    <1> DEFINE a == Remove(q, Top)
    <1>1. pc = "found" /\ pc \in InCall
        BY DEF AllocWhole, InCall
    <1>2. /\ TypeOK /\ Headed(q) /\ q.next[Top] \in {Top, Null} /\ spare = <<Top, Top>>
          /\ seg[Top].base = Base /\ seg[Top].size <= Span /\ seg[Top].size \in Nat
          /\ req.size \in Nat /\ found = Top /\ req.size <= Span
        BY <1>1, CallFacts DEF Search
    <1>3. Headed(a) /\ a.next[Top] = q.next[Top] /\ a.count = q.count
        BY <1>2, RemoveTop
    <1>4. /\ seg' = [seg EXCEPT ![Top].type = "allocated"] /\ Leave(a, Top, Top)
          /\ answer' = [addr |-> Base, size |-> req.size]
        BY <1>2 DEF AllocWhole
    <1> HIDE DEF a
    <1>5. /\ seg' \in [Seg -> [base : Nat, size : Nat, type : {"allocated", "free", "static_span"}]]
          /\ seg'[Top].base = Base /\ seg'[Top].size <= Span
        BY <1>2, <1>4, Sized DEF TypeOK
    <1>6. Answers' /\ answer' \in [addr : Nat, size : Nat]
        BY <1>2, <1>4, Sized DEF Answers
    <1> QED BY <1>1, <1>2, <1>3, <1>4, <1>5, <1>6, LeaveInv

-----------------------------------------------------------------------------
LEMMA Invariance == Spec => []IInv
    <1>1. IInv /\ [Next]_vars => IInv'
        <2> SUFFICES ASSUME IInv, [Next]_vars PROVE IInv'
            OBVIOUS
        <2>1. CASE Step
            BY <2>1, BootstrapInv, CreateInv, RetryStratInv, InstantFitInv, BestFitSegInv,
               BestFitNextInv, NextStratInv, AllocFailInv, AllocSplitInv, AllocWholeInv DEF Step
        <2>2. CASE \E n \in Sizes, flag \in Flags : AllocCall(n, flag)
            BY <2>2, AllocCallInv
        <2>3. CASE UNCHANGED vars
            BY <2>3 DEF vars, IInv, TypeOK, Filling, OneDescriptor, Headed, Spares, Search, Answers, InCall
        <2> QED BY <2>1, <2>2, <2>3 DEF Next
    <1> QED BY <1>1, Initially, PTL DEF Spec

\* Every variable has its type, and the count of free descriptors never says
\* that there are more than there are, though the pool hands the same one out
\* again and again (_vmem_segalloc, _vmem_segfree).
THEOREM TypeCorrect == Spec => []TypeOK
    BY Invariance, PTL DEF IInv

\* Every answer of vmem_alloc lies inside the arena with all its bytes, in any
\* arena below 2 GB and for requests below 2 GB.
THEOREM AnswersAreInArena == Spec => []InArena
    <1>1. IInv => InArena
        BY Sized DEF IInv, TypeOK, Answers, InArena
    <1> QED BY <1>1, Invariance, PTL

\* Every successful vmem_alloc answers with the same address, whatever was
\* allocated before: the segment found always is Top, whose base is kept.
THEOREM EveryAnswerIsBase == Spec => []Answers
    BY Invariance, PTL DEF IInv

\* The descriptors vmem_xalloc takes for the split on the left and for the one
\* on the right are the same one.
TwoAreOne == pc \in InCall => spare[1] = spare[2] /\ spare[1] # Null

\* In every call the two descriptors _vmem_segalloc gives vmem_xalloc are one.
THEOREM SparesAreOne == Spec => []TwoAreOne
    <1>1. IInv => TwoAreOne
        BY Sized DEF IInv, Spares, TwoAreOne
    <1> QED BY <1>1, Invariance, PTL
=============================================================================
