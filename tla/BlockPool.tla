----------------------------- MODULE BlockPool -----------------------------
(***************************************************************************)
(* What a physical page allocator promises, with no word on lists, headers *)
(* or registers.  The free memory is a pool of blocks; a caller asks for   *)
(* `want' contiguous pages and is granted the last pages of some block     *)
(* that has them, or is refused because no block has them; it gives back   *)
(* pages it holds, which become a block of the pool.                       *)
(*                                                                         *)
(* Pmm, the model of kernel/mm/pmm.inc, implements this module.            *)
(***************************************************************************)
EXTENDS Naturals

CONSTANT Page   \* the page numbers

VARIABLES
    pool,     \* the free blocks: a set of [base, size] records
    held,     \* the pages callers hold
    want,     \* the number of pages asked for, 0 when nothing is asked
    answer    \* the first page of the last grant, 0 after a refusal

pvars == <<pool, held, want, answer>>

\* The n pages from page p on.
Run(p, n) == p .. (p + n - 1)

Extent(b) == Run(b.base, b.size)

\* p is a page of no block of the pool and nobody holds it.
Fresh(S) == /\ S \cap held = {}
            /\ \A b \in pool : S \cap Extent(b) = {}

Init == pool = {} /\ held = {} /\ want = 0 /\ answer = 0

\* Memory nobody knew of before joins the pool.
AddRegion(b) ==
    /\ b.size > 0 /\ Fresh(Extent(b))
    /\ pool' = pool \cup {b}
    /\ UNCHANGED <<held, want, answer>>

Ask(n) ==
    /\ want = 0 /\ n > 0
    /\ want' = n
    /\ UNCHANGED <<pool, held, answer>>

\* The pages granted are the last ones of the block, and nobody held them.
Grant(b) ==
    LET left == b.size - want IN
    /\ want > 0 /\ b.size >= want
    /\ Run(b.base + left, want) \cap held = {}
    /\ pool' = (pool \ {b}) \cup
               (IF left = 0 THEN {} ELSE {[base |-> b.base, size |-> left]})
    /\ held' = held \cup Run(b.base + left, want)
    /\ answer' = b.base + left
    /\ want' = 0

Refuse ==
    /\ want > 0
    /\ \A b \in pool : b.size < want
    /\ answer' = 0 /\ want' = 0
    /\ UNCHANGED <<pool, held>>

GiveBack(p, n) ==
    /\ want = 0 /\ n > 0
    /\ Run(p, n) \subseteq held
    /\ held' = held \ Run(p, n)
    /\ pool' = pool \cup {[base |-> p, size |-> n]}
    /\ UNCHANGED <<want, answer>>

Next == \/ \E p, n \in Page : AddRegion([base |-> p, size |-> n])
        \/ \E n \in Page : Ask(n)
        \/ \E b \in pool : Grant(b)
        \/ Refuse
        \/ \E p, n \in Page : GiveBack(p, n)

Spec == Init /\ [][Next]_pvars
=============================================================================
