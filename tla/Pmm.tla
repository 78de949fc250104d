-------------------------------- MODULE Pmm --------------------------------
(***************************************************************************)
(* The physical memory manager, kernel/mm/pmm.inc.                         *)
(*                                                                         *)
(* The free memory is a linked list of blocks.  The two words that         *)
(* describe a block, its size and the address of the next one, are kept in *)
(* the first page of the block itself, so the list lives in the memory it  *)
(* gives away.  Only one page at a time is visible to the allocator, the   *)
(* one mapped at PMM_VIRT_TEMP.                                            *)
(*                                                                         *)
(* Addresses and sizes are counted in pages: both are 32-bit byte          *)
(* quantities whose low 12 bits are zero, so adding, subtracting and       *)
(* comparing them is arithmetic on 20-bit page numbers.  SignBit is 2^19   *)
(* on the machine and small in a model.                                    *)
(***************************************************************************)
EXTENDS Integers, Sequences

CONSTANTS
    SignBit,     \* half of the range of a page number
    LowTop,      \* page of 0x400000, the end of the region behind the kernel
    HighBase,    \* page of 0x800000, the start of the main region
    Boots,       \* what the linker and the loader leave: `kend', aligned up,
                 \* and stBootInfo.high_mem, aligned down
    MaxRequest,  \* the most pages a caller asks for or gives back at once
    Contents     \* what owners may write over the first words of their pages

NPages == 2 * SignBit
Page   == 0 .. (NPages - 1)
Header == [size : Page, next : Page]

ASSUME LayoutAssumption ==
    /\ SignBit \in Nat \ {0}
    /\ LowTop \in Page /\ HighBase \in Page /\ 0 < LowTop /\ LowTop <= HighBase
    \* The machine has memory at HighBase: pmm_init does not look.
    /\ Boots \subseteq [kend : 1 .. (NPages - 1),
                        high_mem : (HighBase + 1) .. (NPages - 1)]
    /\ MaxRequest \in 1 .. (SignBit - 1)
    /\ Contents \subseteq Header

VARIABLES
    boot,     \* the machine it runs on, a member of Boots
    head,     \* pPmmFreeListHead; 0 is the empty list
    mem,      \* the two words at the start of every physical page
    temp,     \* the page mapped at PMM_VIRT_TEMP, or Unmapped
    pc,       \* where the allocator is
    prev,     \* EBX in pmm_alloc: the block before `cur', 0 at the head
    cur,      \* ESI: the block looked at, later the address to return
    arg,      \* EDI: the size asked for or freed, later the successor block
    ret       \* EAX and EDX of the last pmm_alloc that returned

(***************************************************************************)
(* Ghosts: what the list is meant to be.  No action reads them to choose   *)
(* what to do with the variables above.                                    *)
(***************************************************************************)
VARIABLES
    owned,    \* pages handed out and not given back
    chain,    \* the free blocks in list order
    scanned   \* blocks pmm_alloc has passed in this call

cells == <<boot, head, mem, temp, pc, prev, cur, arg, ret>>
vars  == <<boot, head, mem, temp, pc, prev, cur, arg, ret, owned, chain, scanned>>

Unmapped == -1
Run(p, n) == p .. (p + n - 1)

\* A page count as the signed number the jge and jl instructions take it for.
Signed(x) == IF x < SignBit THEN x ELSE x - NPages

\* The list without its i-th block.
Without(i) == [j \in 1 .. (Len(chain) - 1) |-> IF j < i THEN chain[j] ELSE chain[j + 1]]

-----------------------------------------------------------------------------
Init ==
    /\ boot \in Boots
    /\ head = 0
    /\ mem = [p \in Page |-> [size |-> 0, next |-> 0]]
    /\ temp = Unmapped
    /\ pc = "init_low"
    /\ prev = 0 /\ cur = 0 /\ arg = 0
    /\ ret = [addr |-> 0, err |-> "none"]
    /\ owned = {} /\ chain = <<>> /\ scanned = 0

\* A block of n pages at p becomes the head of the list.
Push(p, n) ==
    /\ mem' = [mem EXCEPT ![p] = [size |-> n, next |-> head]]
    /\ head' = p
    /\ chain' = <<p>> \o chain

\* pmm_init, first region: from the kernel's end to 4 MB, when it is more
\* than one page.
InitLow ==
    /\ pc = "init_low"
    /\ IF LowTop - boot.kend > 1
         THEN Push(boot.kend, LowTop - boot.kend)
         ELSE UNCHANGED <<mem, head, chain>>
    /\ pc' = "init_high"
    /\ UNCHANGED <<boot, temp, prev, cur, arg, ret, owned, scanned>>

\* pmm_init, second region: from 8 MB to high_mem.
InitHigh ==
    /\ pc = "init_high"
    /\ Push(HighBase, boot.high_mem - HighBase)
    /\ pc' = "idle"
    /\ UNCHANGED <<boot, temp, prev, cur, arg, ret, owned, scanned>>

-----------------------------------------------------------------------------
\* A call keeps nothing in registers for the next one, which the model writes
\* as 0.  What it leaves in its caller's is not modelled: pmm_alloc restores
\* ESI, EDI and EBX, pmm_free and _pmm_init_region give ESI and EDI back
\* exchanged.
Leave == /\ prev' = 0 /\ cur' = 0 /\ arg' = 0 /\ scanned' = 0
         /\ pc' = "idle"

\* pmm_alloc, entry: EDI is the size, EBX no block, ESI the first block.
AllocCall(n) ==
    /\ pc = "idle"
    /\ arg' = n /\ prev' = 0 /\ cur' = head
    /\ pc' = "loop"
    /\ UNCHANGED <<boot, head, mem, temp, ret, owned, chain, scanned>>

\* The end of the list: EAX = 0 and EDX = ENOMEM.
AllocFail ==
    /\ pc = "loop" /\ cur = 0
    /\ ret' = [addr |-> 0, err |-> "ENOMEM"]
    /\ Leave
    /\ UNCHANGED <<boot, head, mem, temp, owned, chain>>

AllocMap ==
    /\ pc = "loop" /\ cur # 0
    /\ temp' = cur
    /\ pc' = "probe"
    /\ UNCHANGED <<boot, head, mem, prev, cur, arg, ret, owned, chain, scanned>>

\* Fault: an exact fit is not a fit.
Fits_Strict == Signed(mem[temp].size) > Signed(arg)

\* sub eax, edi; jge: a signed comparison of the block's size with the request.
Fits == Signed(mem[temp].size) >= Signed(arg)

\* Fault: the mapping outlives the visit.
AllocNext_StaysMapped ==
    /\ pc = "probe" /\ ~Fits
    /\ prev' = cur
    /\ cur' = mem[temp].next
    /\ pc' = "loop" /\ scanned' = scanned + 1
    /\ UNCHANGED <<boot, head, mem, temp, arg, ret, owned, chain>>

\* Fault: the address of the next block is not loaded.
AllocNext_NoLoad ==
    /\ pc = "probe" /\ ~Fits
    /\ prev' = cur
    /\ temp' = Unmapped
    /\ pc' = "loop"
    /\ UNCHANGED <<boot, head, mem, cur, arg, ret, owned, chain, scanned>>

\* The block is too small: go on to the next one.
AllocNext ==
    /\ pc = "probe" /\ ~Fits
    /\ prev' = cur
    /\ cur' = mem[temp].next
    /\ temp' = Unmapped
    /\ pc' = "loop" /\ scanned' = scanned + 1
    /\ UNCHANGED <<boot, head, mem, arg, ret, owned, chain>>

\* The difference of size and request, which is the block's new size and,
\* added to its base, the address of the pages given out.
Left == (mem[temp].size - arg) % NPages

\* Fault: the new size never reaches the header.
Carve_NoStore ==
    /\ cur' = (cur + Left) % NPages
    /\ owned' = owned \cup Run((cur + Left) % NPages, arg)
    /\ UNCHANGED mem

\* Fault: the base of the block is returned for its end.
Carve_NoAdd ==
    /\ mem' = [mem EXCEPT ![temp].size = Left]
    /\ owned' = owned \cup Run((cur + Left) % NPages, arg)
    /\ UNCHANGED cur

\* The new size goes into the header and the pages behind it to the caller.
Carve ==
    /\ mem' = [mem EXCEPT ![temp].size = Left]
    /\ cur' = (cur + Left) % NPages
    /\ owned' = owned \cup Run((cur + Left) % NPages, arg)

\* Something is left of the block: it stays in the list.
AllocShrink ==
    /\ pc = "probe" /\ Fits /\ Left # 0
    /\ Carve
    /\ pc' = "finalize"
    /\ UNCHANGED <<boot, head, temp, prev, arg, ret, chain, scanned>>

\* Fault: the first block is unlinked whatever is left of it.
AllocUnlinkHead_Always ==
    /\ pc = "probe" /\ Fits /\ prev = 0
    /\ Carve
    /\ arg' = mem[temp].next
    /\ head' = mem[temp].next
    /\ chain' = Without(scanned + 1)
    /\ pc' = "finalize"
    /\ UNCHANGED <<boot, temp, prev, ret, scanned>>

\* Nothing is left of the first block: the head moves on.
AllocUnlinkHead ==
    /\ pc = "probe" /\ Fits /\ Left = 0 /\ prev = 0
    /\ Carve
    /\ arg' = mem[temp].next
    /\ head' = mem[temp].next
    /\ chain' = Without(scanned + 1)
    /\ pc' = "finalize"
    /\ UNCHANGED <<boot, temp, prev, ret, scanned>>

\* Fault: the block used up stays mapped when its predecessor is written.
AllocUnlinkInner_NoRemap ==
    /\ pc = "probe" /\ Fits /\ Left = 0 /\ prev # 0
    /\ Carve
    /\ arg' = mem[temp].next
    /\ chain' = Without(scanned + 1)
    /\ pc' = "relink"
    /\ UNCHANGED <<boot, head, temp, prev, ret, scanned>>

\* Nothing is left of a later block: map the block before it ...
AllocUnlinkInner ==
    /\ pc = "probe" /\ Fits /\ Left = 0 /\ prev # 0
    /\ Carve
    /\ arg' = mem[temp].next
    /\ temp' = prev
    /\ chain' = Without(scanned + 1)
    /\ pc' = "relink"
    /\ UNCHANGED <<boot, head, prev, ret, scanned>>

\* ... and let it point past the block.
AllocRelink ==
    /\ pc = "relink"
    /\ mem' = [mem EXCEPT ![temp].next = arg]
    /\ pc' = "finalize"
    /\ UNCHANGED <<boot, head, temp, prev, cur, arg, ret, owned, chain, scanned>>

\* Fault: EDX is not cleared on the way out of a search that succeeded.
AllocReturn_KeepsEdx ==
    /\ pc = "finalize"
    /\ temp' = Unmapped
    /\ ret' = [addr |-> cur, err |-> "whatever EDX held"]
    /\ Leave
    /\ UNCHANGED <<boot, head, mem, owned, chain>>

AllocReturn ==
    /\ pc = "finalize"
    /\ temp' = Unmapped
    /\ ret' = [addr |-> cur, err |-> "none"]
    /\ Leave
    /\ UNCHANGED <<boot, head, mem, owned, chain>>

-----------------------------------------------------------------------------
\* pmm_free, entry: the first page of the run is mapped.
FreeCall(p, n) ==
    /\ pc = "idle"
    /\ Run(p, n) \subseteq owned
    /\ cur' = p /\ arg' = n
    /\ temp' = p
    /\ pc' = "push"
    /\ UNCHANGED <<boot, head, mem, prev, ret, owned, chain, scanned>>

\* The header is written through the mapping and the run becomes the head.
FreePush ==
    /\ pc = "push"
    /\ mem' = [mem EXCEPT ![temp] = [size |-> arg, next |-> head]]
    /\ head' = cur
    /\ chain' = <<cur>> \o chain
    /\ owned' = owned \ Run(cur, arg)
    /\ temp' = Unmapped
    /\ Leave
    /\ UNCHANGED <<boot, ret>>

\* The owner of a page writes what it likes over it.
Scribble(p, w) ==
    /\ pc = "idle"
    /\ p \in owned
    /\ mem' = [mem EXCEPT ![p] = w]
    /\ UNCHANGED <<boot, head, temp, pc, prev, cur, arg, ret, owned, chain, scanned>>

-----------------------------------------------------------------------------
\* The steps of a call of pmm_alloc or pmm_free that has begun.
InCall == \/ AllocFail \/ AllocMap \/ AllocNext
          \/ AllocShrink \/ AllocUnlinkHead \/ AllocUnlinkInner
          \/ AllocRelink \/ AllocReturn
          \/ FreePush

Next == \/ InitLow \/ InitHigh
        \/ \E n \in 1 .. MaxRequest : AllocCall(n)
        \/ \E p \in Page, n \in 1 .. MaxRequest : FreeCall(p, n)
        \/ \E p \in Page, w \in Contents : Scribble(p, w)
        \/ InCall

Spec == Init /\ [][Next]_vars

\* The processor goes on executing a call; nothing makes a caller call.
LiveSpec == Spec /\ WF_vars(InCall)

-----------------------------------------------------------------------------
\* Every variable has its type.
TypeOK ==
    /\ boot \in Boots
    /\ head \in Page /\ prev \in Page /\ cur \in Page /\ arg \in Page
    /\ mem \in [Page -> Header]
    /\ temp \in Page \cup {Unmapped}
    /\ pc \in {"init_low", "init_high", "idle", "loop", "probe", "relink",
               "finalize", "push"}
    /\ ret \in [addr : Page, err : {"none", "ENOMEM"}]
    /\ owned \subseteq Page
    /\ chain \in Seq(Page)
    /\ scanned \in Nat

\* The block behind the i-th one, 0 behind the last.
After(i) == IF i < Len(chain) THEN chain[i + 1] ELSE 0

Extent(b) == Run(b, mem[b].size)

\* The free blocks as [base, size] pairs, and their pages.
Blocks == {[base |-> chain[i], size |-> mem[chain[i]].size] : i \in DOMAIN chain}

FreePages == UNION {Run(b.base, b.size) : b \in Blocks}

\* The memory pmm_init finds.
Ram == (IF LowTop - boot.kend > 1 THEN boot.kend .. (LowTop - 1) ELSE {})
         \cup HighBase .. (boot.high_mem - 1)

\* The list is never damaged, though its links lie in pages that are handed
\* out and overwritten: the head and the words in memory spell out exactly
\* the blocks that are free, in order, except for the one link a call is
\* about to mend (pmm_alloc takes the END of a block, unlinks a block it
\* uses up and reads its successor before the caller owns it).
ListIntact ==
    /\ head = After(0)
    /\ \A i \in DOMAIN chain :
          \/ mem[chain[i]].next = After(i)
          \/ pc = "relink" /\ chain[i] = temp /\ arg = After(i)

\* No page is free twice or free and owned: neither two allocations nor an
\* allocation and a free block ever share a page.
NoDoubleAlloc ==
    /\ \A i \in DOMAIN chain :
          /\ mem[chain[i]].size > 0
          /\ Extent(chain[i]) \cap owned = {}
    /\ \A i, j \in DOMAIN chain :
          i # j => Extent(chain[i]) \cap Extent(chain[j]) = {}

\* No page is lost and none is invented: after pmm_init, what is free and
\* what is owned make up the memory, whatever the order of calls.
Conserved ==
    pc \notin {"init_low", "init_high"} => FreePages \cup owned = Ram

\* PMM_VIRT_TEMP shows the block the next access is meant for, and nothing
\* between calls.
WindowOK ==
    /\ pc = "probe" => temp = cur
    /\ pc = "relink" => temp = prev
    /\ pc = "push" => temp = cur
    /\ pc \in {"init_low", "init_high", "idle", "loop"} => temp = Unmapped

\* pmm_alloc says ENOMEM ("no memory left") only when no block has as many
\* pages as were asked for.
NoMemoryLeft ==
    [][pc = "loop" /\ pc' = "idle" =>
          \A b \in Blocks : b.size < arg]_vars

\* Every call of pmm_alloc and pmm_free returns: the search ends whatever
\* the order in which blocks were freed.
CallsReturn ==
    pc \in {"loop", "probe", "relink", "finalize", "push"} ~> pc = "idle"

-----------------------------------------------------------------------------
\* The allocator as its callers see it.  The grant takes effect when the
\* pages are carved off, though pmm_alloc returns some steps later.
Pool == INSTANCE BlockPool WITH
    pool   <- Blocks,
    held   <- owned,
    want   <- IF pc \in {"loop", "probe"} THEN arg ELSE 0,
    answer <- IF pc \in {"relink", "finalize"} THEN cur ELSE ret.addr

\* The allocator implements the pool of blocks: a grant is the tail of a free
\* block that nobody held, a refusal means no block was large enough.
PoolSpec == Pool!Spec
=============================================================================
