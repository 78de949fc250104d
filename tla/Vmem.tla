-------------------------------- MODULE Vmem --------------------------------
(***************************************************************************)
(* The resource allocator kernel/mm/vmem.inc on the linked lists of        *)
(* kernel/queue.inc: the pool of segment descriptors vmem_bootstrap makes, *)
(* the arena mm_init creates, and vmem_alloc as its callers may call it.   *)
(*                                                                         *)
(* A descriptor is in a list through its link words, of which it has one   *)
(* pair: the pool and the free lists of the arena share it.  The segment   *)
(* queue and the hash table are left out, because the routines that would  *)
(* fill them (tailq_*, _vmem_hashtable_insert) return at once; vmem_free   *)
(* and vmem_xfree do, too.  vmem_alloc passes no alignment, so the quantum *)
(* is used, and _vmem_segfit accepts every segment at its base: the code   *)
(* that splits a segment on the left never runs.                           *)
(***************************************************************************)
EXTENDS Integers

CONSTANTS
    NSegs,     \* VMEM_STATIC_SEG_COUNT
    NLists,    \* VMEM_FREELISTS_N
    Quantum,   \* the quantum of the arena
    Base,      \* where it begins
    Span,      \* its size
    Half,      \* half the address space, 2^31: a word from there on is negative
    Sizes      \* what callers ask for

Seg   == 1 .. NSegs        \* the descriptors, in the order of their addresses
Null  == 0
Lists == 0 .. (NLists - 1) \* the free lists of the arena
Pool  == -1                \* pVmemFreeSegHead
Flags == {"bestfit", "instantfit", "neither"}

ASSUME VmemAssumption ==
    /\ NSegs \in Nat /\ NSegs >= 1 /\ NLists \in Nat /\ NLists >= 1
    /\ Quantum \in Nat \ {0} /\ Base \in Nat \ {0} /\ Span \in 1 .. (2 ^ NLists - 1)
    /\ Sizes \subseteq 1 .. (2 ^ NLists - 1)
    \* Sizes are compared as signed numbers.  The arena of mm_init, which lies
    \* in the last quarter of the address space, and what is asked of it are
    \* below the sign bit; a larger request would be smaller than any segment.
    /\ Half \in Nat /\ Span < Half /\ Quantum < Half
    /\ \A n \in Sizes : n < Half

VARIABLES
    q,        \* the heads, the link words and iVmemFreeSegCount
    seg,      \* what the descriptors say: base, size and type
    pc,       \* where kmain or the caller of vmem_alloc is
    req,      \* its arguments: the size and the flags
    spare,    \* [ebp - 8] and [ebp - 4] of vmem_xalloc, for the two splits
    list,     \* [ebp - 12]: the free list looked at; NLists is behind the last
    at,       \* EAX in the best fit loop: the segment looked at
    found,    \* [ebp - 16]
    answer    \* what the last vmem_alloc that returned gave, and its size

vars == <<q, seg, pc, req, spare, list, at, found, answer>>

-----------------------------------------------------------------------------
\* list_insert_head: the element that was first points back to the new one,
\* which points back to itself.
InsertHead(links, l, e) ==
    LET f == links.first[l]
    IN  [links EXCEPT !.first[l] = e,
                      !.next[e] = f,
                      !.prev = [s \in Seg |-> IF s \in {e, f} THEN e ELSE @[s]]]

\* list_remove: the element behind points back past this one, and the word at
\* the back link, which is taken for a pointer to the element, is set to it.
Remove(links, e) ==
    LET p == links.prev[e]
        n == links.next[e]
    IN  [links EXCEPT !.prev = IF n = Null THEN @ ELSE [@ EXCEPT ![n] = p],
                      !.next[p] = n]

\* Fault: the count is not brought down.
SegAlloc_NoCount(links) ==
    LET s == links.first[Pool]
    IN  [seg |-> s, links |-> IF s = Null THEN links ELSE Remove(links, s)]

\* _vmem_segalloc: the first descriptor of the pool, Null if there is none.
SegAlloc(links) ==
    LET s == links.first[Pool]
    IN  [seg   |-> s,
         links |-> IF s = Null THEN links
                               ELSE [Remove(links, s) EXCEPT !.count = @ - 1]]

\* _vmem_segfree, passed over for a Null.
SegFree(links, s) ==
    IF s = Null THEN links ELSE [InsertHead(links, Pool, s) EXCEPT !.count = @ + 1]

\* VMEM_GET_LIST_FROM_SIZE: the position of the highest bit.
ListOf(n) == CHOOSE i \in Lists : 2 ^ i <= n /\ n < 2 ^ (i + 1)

PowerOfTwo(n) == n = 2 ^ ListOf(n)

\* What jge and jle take the word of a number for, a size or a difference of two.
Signed(n) == IF n >= Half THEN n - 2 * Half
             ELSE IF n < -Half THEN n + 2 * Half ELSE n

-----------------------------------------------------------------------------
Init ==
    /\ q = [first |-> [l \in Lists \cup {Pool} |-> Null],
            next |-> [s \in Seg |-> Null], prev |-> [s \in Seg |-> Null],
            count |-> 0]
    /\ seg = [s \in Seg |-> [base |-> 0, size |-> 0, type |-> "allocated"]]
    /\ pc = "bootstrap"
    /\ req = [size |-> 0, flag |-> "neither"]
    /\ spare = <<Null, Null>>
    /\ list = 0 /\ at = Null /\ found = Null
    /\ answer = [addr |-> 0, size |-> 0]

\* vmem_bootstrap: one descriptor after the other goes to the pool.
Bootstrap ==
    /\ pc = "bootstrap"
    /\ q' = SegFree(q, q.count + 1)
    /\ pc' = IF q'.count = NSegs THEN "create" ELSE pc
    /\ UNCHANGED <<seg, req, spare, list, at, found, answer>>

\* vmem_create, which calls vmem_add and so _vmem_add: a descriptor for the
\* span, which the stub of the segment queue drops, and one for the free
\* segment, which goes to a free list.  Nothing happens without descriptors.
Create ==
    LET span == SegAlloc(q)
        free == SegAlloc(span.links)
        Described(sg, s, type) ==
            IF s = Null THEN sg
            ELSE [sg EXCEPT ![s] = [base |-> Base, size |-> Span, type |-> type]]
    IN
    /\ pc = "create"
    /\ seg' = Described(Described(seg, span.seg, "static_span"), free.seg, "free")
    /\ q' = IF free.seg = Null THEN free.links
            ELSE InsertHead(free.links, ListOf(Span), free.seg)
    /\ pc' = "idle"
    /\ UNCHANGED <<req, spare, list, at, found, answer>>

-----------------------------------------------------------------------------
\* vmem_alloc and the entry of vmem_xalloc: a descriptor for each split.
\* _vmem_refill, called while the arena is populated, does nothing.
AllocCall(n, flag) ==
    LET left  == SegAlloc(q)
        right == SegAlloc(left.links)
    IN
    /\ pc = "idle"
    /\ req' = [size |-> n, flag |-> flag]
    /\ q' = right.links
    /\ spare' = <<left.seg, right.seg>>
    /\ pc' = IF right.seg = Null \/ flag = "neither" THEN "fail" ELSE "retry_strat"
    /\ UNCHANGED <<seg, list, at, found, answer>>

\* Fault: the instant fit begins with the list of the size itself.
RetryStrat_NoRound ==
    /\ pc = "retry_strat"
    /\ list' = ListOf(req.size)
    /\ IF req.flag = "instantfit"
         THEN pc' = "instant_fit" /\ UNCHANGED at
         ELSE pc' = "best_fit" /\ at' = q.first[list']
    /\ UNCHANGED <<q, seg, req, spare, found, answer>>

\* .retry_strat: the free list of the size; the instant fit begins one list
\* further on unless the size is a power of two.
RetryStrat ==
    /\ pc = "retry_strat"
    /\ IF req.flag = "instantfit"
         THEN /\ list' = IF PowerOfTwo(req.size) THEN ListOf(req.size)
                                                 ELSE ListOf(req.size) + 1
              /\ pc' = "instant_fit" /\ UNCHANGED at
         ELSE /\ list' = ListOf(req.size)
              /\ pc' = "best_fit" /\ at' = q.first[list']
    /\ UNCHANGED <<q, seg, req, spare, found, answer>>

\* The first segment of the first list that has one, whatever its size.
InstantFit ==
    /\ pc = "instant_fit"
    /\ IF list >= NLists
         THEN pc' = "next" /\ UNCHANGED <<list, found>>
         ELSE IF q.first[list] # Null
                THEN pc' = "found" /\ found' = q.first[list] /\ UNCHANGED list
                ELSE list' = list + 1 /\ UNCHANGED <<pc, found>>
    /\ UNCHANGED <<q, seg, req, spare, at, answer>>

\* The first segment that is LARGER than the size, list by list (a signed jge).
BestFitSeg ==
    /\ pc = "best_fit" /\ at # Null
    /\ found' = at
    /\ IF Signed(req.size) < Signed(seg[at].size)
         THEN pc' = "found" /\ UNCHANGED at
         ELSE at' = q.next[at] /\ UNCHANGED pc
    /\ UNCHANGED <<q, seg, req, spare, list, answer>>

BestFitNext ==
    /\ pc = "best_fit" /\ at = Null
    /\ list' = list + 1
    /\ IF list' < NLists
         THEN at' = q.first[list'] /\ UNCHANGED pc
         ELSE pc' = "next" /\ UNCHANGED at
    /\ UNCHANGED <<q, seg, req, spare, found, answer>>

\* .next: an instant fit starts again.  The flags of the best fit are worked
\* out in EAX, but .retry_strat reads them from the stack.
NextStrat ==
    /\ pc = "next"
    /\ pc' = IF req.flag = "instantfit" THEN "retry_strat" ELSE "fail"
    /\ UNCHANGED <<q, seg, req, spare, list, at, found, answer>>

\* .end: the descriptors that were not used go back, and the locals are gone.
Leave(links, left, right) ==
    /\ q' = SegFree(SegFree(links, left), right)
    /\ pc' = "idle"
    /\ spare' = <<Null, Null>>
    /\ req' = [size |-> 0, flag |-> "neither"]
    /\ list' = 0 /\ at' = Null /\ found' = Null

\* .fail: the answer is 0.
AllocFail ==
    /\ pc = "fail"
    /\ Leave(q, spare[1], spare[2])
    /\ answer' = [addr |-> 0, size |-> req.size]
    /\ UNCHANGED seg

\* .found: something worth a segment is left of this one (a signed jle).  The
\* rest is negative when a stale list has offered a segment too small.
Splits == LET rest == seg[found].size - req.size
          IN  rest # 0 /\ Signed(rest) > Signed(Quantum - 1)

\* .found with a split: the segment found keeps the end, and a new one takes
\* the beginning; the new one, which is the one allocated, is what goes to a
\* free list.
AllocSplit ==
    LET s    == found
        new  == spare[2]
        b    == seg[s].base
        cut  == [seg EXCEPT ![s].base = b + req.size, ![s].size = @ - req.size]
        both == [cut EXCEPT ![new].base = b, ![new].size = req.size]
    IN
    /\ pc = "found" /\ Splits
    /\ seg' = [both EXCEPT ![new].type = "allocated"]
    /\ Leave(InsertHead(Remove(q, s), ListOf(req.size), new), spare[1], Null)
    /\ answer' = [addr |-> both[new].base, size |-> req.size]

\* .found without one: the whole segment is allocated.
AllocWhole ==
    /\ pc = "found" /\ ~Splits
    /\ seg' = [seg EXCEPT ![found].type = "allocated"]
    /\ Leave(Remove(q, found), spare[1], spare[2])
    /\ answer' = [addr |-> seg[found].base, size |-> req.size]

-----------------------------------------------------------------------------
Step == \/ Bootstrap \/ Create
        \/ RetryStrat \/ InstantFit \/ BestFitSeg \/ BestFitNext \/ NextStrat
        \/ AllocFail \/ AllocSplit \/ AllocWhole

Next == Step \/ \E n \in Sizes, flag \in Flags : AllocCall(n, flag)

Spec == Init /\ [][Next]_vars

\* The processor goes on executing what it has begun.
LiveSpec == Spec /\ WF_vars(Step)

-----------------------------------------------------------------------------
\* Every variable has its type; the count of free descriptors never says that
\* there are more than there are.
TypeOK ==
    /\ q \in [first : [Lists \cup {Pool} -> Seg \cup {Null}],
              next : [Seg -> Seg \cup {Null}], prev : [Seg -> Seg \cup {Null}],
              count : Int]
    /\ q.count <= NSegs
    /\ seg \in [Seg -> [base : Nat, size : Nat,
                        type : {"allocated", "free", "static_span"}]]
    /\ pc \in {"bootstrap", "create", "idle", "retry_strat", "instant_fit",
               "best_fit", "next", "fail", "found"}
    /\ req \in [size : Nat, flag : Flags]
    /\ spare \in (Seg \cup {Null}) \X (Seg \cup {Null})
    /\ list \in 0 .. NLists
    /\ at \in Seg \cup {Null} /\ found \in Seg \cup {Null}
    /\ answer \in [addr : Nat, size : Nat]

\* An answer lies inside the arena with all its bytes, though an instant fit
\* does not look at the size of the segment it takes and segments stay in the
\* lists of the sizes they once had.
InArena ==
    answer.addr # 0 =>
        Base <= answer.addr /\ answer.addr + answer.size <= Base + Span

\* vmem_xalloc, "remove seg from freelist": between calls no free list of the
\* arena begins with an allocated segment.
AllocatedLeavesList ==
    pc = "idle" => \A l \in Lists :
        q.first[l] # Null => seg[q.first[l]].type = "free"

\* vmem_xalloc, "Allocated address on succes, 0 on failure": a call with the
\* instant fit comes back with one or the other.
InstantFitReturns ==
    (pc = "retry_strat" /\ req.flag = "instantfit") ~> pc = "idle"
=============================================================================
