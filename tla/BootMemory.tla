----------------------------- MODULE BootMemory -----------------------------
(***************************************************************************)
(* How the kernel learns of the machine's memory: the BIOS queries of      *)
(* boot/loader/memory.inc, the table boot_info_add_memmap makes of the     *)
(* answers (boot/common/bootinfo.inc), and the two regions pmm_init takes  *)
(* from it (kernel/mm/pmm.inc).                                            *)
(*                                                                         *)
(* The machine is a sequence of address ranges, the order its BIOS reports *)
(* them in.  The BIOS has any of the three services, and ends the list of  *)
(* the first one either with a zero continuation value beside the last     *)
(* range or with the carry flag after it.                                  *)
(***************************************************************************)
EXTENDS Integers, Sequences, FiniteSets

CONSTANTS
    W,           \* the number of 32-bit addresses, 4 GB
    PageSize,
    OneMB, SixteenMB,
    KB, KB64,    \* the units in which E801h and 88h count
    LowTop,      \* 0x400000
    HighBase,    \* 0x800000
    Kend,        \* the kernel's end, aligned up
    NSlots,      \* ranges boot_info_add_memmap has room for
    Maps,        \* what the machine's memory may be
    Services     \* what the BIOS may offer

Limit == W - PageSize     \* BOOTINFO_MEMORY_LIMIT

ASSUME BootAssumption ==
    /\ W \in Nat /\ PageSize \in Nat \ {0} /\ NSlots \in Nat \ {0}
    /\ KB \in Nat \ {0} /\ KB64 \in Nat \ {0}
    /\ {OneMB, Kend, LowTop, HighBase, SixteenMB} \subseteq Nat
    /\ 0 < OneMB /\ OneMB < Kend /\ Kend <= LowTop /\ LowTop < HighBase
    /\ HighBase < SixteenMB /\ SixteenMB < Limit
    /\ \A a \in {Kend, LowTop, HighBase, W} : a % PageSize = 0
    /\ \A m \in Maps :
          /\ m \in Seq([base : Nat, len : Nat \ {0}, usable : BOOLEAN]) /\ m # <<>>
          \* No range is almost as long as the 32-bit address space.
          /\ \A i \in DOMAIN m : m[i].len <= Limit \/ m[i].len >= W
    /\ \A s \in Services : /\ s.e820 \in {"none", "zero", "carry"}
                           /\ s.e801 \in BOOLEAN /\ s.x88 \in BOOLEAN

VARIABLES
    ram,       \* the machine's ranges
    bios,      \* the services it has
    pc,
    cont,      \* EBX: the range the next query reports
    mmap,      \* boot_structure.mmap up to its first free slot
    high_mem,  \* boot_structure.high_mem
    low_mem,   \* boot_structure.low_mem
    regions    \* what pmm_init made free blocks of: [start, size]

vars == <<ram, bios, pc, cont, mmap, high_mem, low_mem, regions>>

Addresses(base, len) == base .. (base + len - 1)

\* The addresses of memory, below and above 4 GB.
Ram == UNION {Addresses(ram[i].base, ram[i].len) : i \in {j \in DOMAIN ram : ram[j].usable}}

\* The length of the memory from address a on without a hole, up to `most'.
Contiguous(a, most) ==
    CHOOSE n \in 0 .. most :
        /\ Addresses(a, n) \subseteq Ram
        /\ n = most \/ a + n \notin Ram

-----------------------------------------------------------------------------
Init ==
    /\ ram \in Maps /\ bios \in Services
    /\ pc = "e820" /\ cont = 1
    /\ mmap = <<>> /\ high_mem = 0 /\ low_mem = 0
    /\ regions = {}

\* Fault: no jump over the store for a base other than 1 MB.
HighMem_AnyBase(info, base, len) == (base + len) % W

\* The end of the memory from 1 MB on, when this range is it.
HighMem(info, base, len) == IF base = OneMB THEN (base + len) % W ELSE info.high

\* Fault: the loop over the slots knows no end.
Slots_NoEnd(map, base, len) ==
    IF len = 0 THEN map ELSE Append(map, [base |-> base, len |-> len])

\* The first free slot takes the range.  A slot whose length is 0 is free, so
\* a range without length leaves the table as it is.
Slots(map, base, len) ==
    IF Len(map) = NSlots \/ len = 0 THEN map ELSE Append(map, [base |-> base, len |-> len])

\* Fault: only the base is compared with the limit.
Refused_BaseOnly(base, len) == base > Limit

\* The range does not lie below 4 GB.
Refused(base, len) == base > Limit \/ base > (Limit - len) % W

\* boot_info_add_memmap.
AddMemmap(info, base, len) ==
    IF Refused(base, len) THEN info
    ELSE [high |-> HighMem(info, base, len),
          low  |-> IF base = 0 THEN len ELSE info.low,
          map  |-> Slots(info.map, base, len)]

Info == [high |-> high_mem, low |-> low_mem, map |-> mmap]

Store(info) ==
    /\ high_mem' = info.high /\ low_mem' = info.low /\ mmap' = info.map

\* Fault: the high words are not looked at.
Recorded_LowWords(r) == r.usable

\* The ranges memory_e820_get_map hands on: usable, and both high words zero.
Recorded(r) == r.usable /\ r.base < W /\ r.len < W

\* The service fails: it does not exist, or it ends its list like this.
E820Error ==
    /\ pc = "e820"
    /\ bios.e820 = "none" \/ cont > Len(ram)
    /\ pc' = "e801"
    /\ UNCHANGED <<ram, bios, cont, mmap, high_mem, low_mem, regions>>

\* A zero continuation value: memory_e820_get_map is done, and does not look
\* at the range that came with it.
E820Last ==
    /\ pc = "e820" /\ bios.e820 = "zero" /\ cont = Len(ram)
    /\ pc' = "loaded"
    /\ UNCHANGED <<ram, bios, cont, mmap, high_mem, low_mem, regions>>

\* Fault: the continuation value is cleared before every query.
E820Range_Restart ==
    /\ pc = "e820" /\ bios.e820 # "none"
    /\ IF bios.e820 = "zero" THEN cont < Len(ram) ELSE cont <= Len(ram)
    /\ Store(IF Recorded(ram[cont]) THEN AddMemmap(Info, ram[cont].base % W, ram[cont].len % W)
             ELSE Info)
    /\ cont' = 1
    /\ UNCHANGED <<ram, bios, pc, regions>>

\* One range, and on to the next query.
E820Range ==
    /\ pc = "e820" /\ bios.e820 # "none"
    /\ IF bios.e820 = "zero" THEN cont < Len(ram) ELSE cont <= Len(ram)
    /\ Store(IF Recorded(ram[cont]) THEN AddMemmap(Info, ram[cont].base % W, ram[cont].len % W)
             ELSE Info)
    /\ cont' = cont + 1
    /\ UNCHANGED <<ram, bios, pc, regions>>

\* memory_get_for_large_conf: the kilobytes from 1 MB on, stored as they are,
\* and the 64-kilobyte blocks from 16 MB on, converted to bytes.  The carry
\* flag is clear afterwards, whatever boot_info_add_memmap did.
LargeConf ==
    LET ax == Contiguous(OneMB, SixteenMB - OneMB) \div KB
        bx == Contiguous(SixteenMB, Limit - SixteenMB) \div KB64
    IN
    /\ pc = "e801" /\ bios.e801
    /\ Store(AddMemmap(AddMemmap(Info, OneMB, ax), SixteenMB, bx * KB64))
    /\ pc' = "loaded"
    /\ UNCHANGED <<ram, bios, cont, regions>>

LargeConfError ==
    /\ pc = "e801" /\ ~bios.e801
    /\ pc' = "88"
    /\ UNCHANGED <<ram, bios, cont, mmap, high_mem, low_mem, regions>>

\* memory_get_map, the last resort: again kilobytes.
Get88 ==
    /\ pc = "88" /\ bios.x88
    /\ Store(AddMemmap(Info, OneMB, Contiguous(OneMB, Limit - OneMB) \div KB))
    /\ pc' = "loaded"
    /\ UNCHANGED <<ram, bios, cont, regions>>

\* No service at all: the loader stops with an error.
Get88Error ==
    /\ pc = "88" /\ ~bios.x88
    /\ pc' = "halt"
    /\ UNCHANGED <<ram, bios, cont, mmap, high_mem, low_mem, regions>>

\* kmain has copied the structure; pmm_init makes its free blocks.
PmmInit ==
    /\ pc = "loaded"
    /\ regions' = {[start |-> HighBase,
                    size  |-> ((high_mem - (high_mem % PageSize)) - HighBase) % W]}
                  \cup (IF LowTop - Kend > PageSize
                          THEN {[start |-> Kend, size |-> LowTop - Kend]} ELSE {})
    /\ pc' = "done"
    /\ UNCHANGED <<ram, bios, cont, mmap, high_mem, low_mem>>

\* Nothing is left to do.
Finished == pc \in {"done", "halt"} /\ UNCHANGED vars

Query == E820Error \/ E820Last \/ E820Range \/ LargeConf \/ LargeConfError
           \/ Get88 \/ Get88Error \/ PmmInit

Next == Query \/ Finished

\* The loader goes on, and the BIOS answers.
Spec == Init /\ [][Next]_vars /\ WF_vars(Query)

-----------------------------------------------------------------------------
\* Every variable has its type; the table is no longer than its slots.
TypeOK ==
    /\ ram \in Maps /\ bios \in Services
    /\ pc \in {"e820", "e801", "88", "loaded", "done", "halt"}
    /\ cont \in 1 .. (Len(ram) + 1)
    /\ \A i \in DOMAIN mmap : mmap[i].base \in 0 .. (W - 1) /\ mmap[i].len \in 1 .. (W - 1)
    /\ Len(mmap) <= NSlots
    /\ high_mem \in 0 .. (W - 1) /\ low_mem \in 0 .. (W - 1)
    /\ \A r \in regions : r.start \in 0 .. (W - 1) /\ r.size \in 0 .. (W - 1)

\* Whatever the BIOS offers and however it ends its list, the table names only
\* memory, also after a query that failed half way and was followed by another.
MapIsRam ==
    \A i \in DOMAIN mmap : Addresses(mmap[i].base, mmap[i].len) \subseteq Ram

\* The usable ranges below 4 GB among the first n.
Below4G(n) ==
    {i \in 1 .. n : Recorded(ram[i]) /\ ram[i].base + ram[i].len <= Limit}

\* The k-th of them is in slot k of the table, as far as there is room, and
\* nothing else is in it.
Listed(n) ==
    /\ Len(mmap) = IF Cardinality(Below4G(n)) < NSlots THEN Cardinality(Below4G(n)) ELSE NSlots
    /\ \A i \in Below4G(n) :
          LET k == Cardinality(Below4G(i))
          IN  k <= NSlots => mmap[k] = [base |-> ram[i].base, len |-> ram[i].len]

\* When E820h ends well, the table is exactly the usable ranges below 4 GB that
\* were reported before the last one, in their order, as far as there is room.
E820Exact == pc \in {"loaded", "done"} /\ bios.e820 = "zero" => Listed(Len(ram) - 1)

\* The usable ranges from 1 MB on among the first n.
FromOneMB(n) == {i \in Below4G(n) : ram[i].base = OneMB}

\* The machine has a range from 1 MB to `end' or beyond, and E820h reports it,
\* not as the last one, in a list that ends well.
Reports(end) ==
    /\ bios.e820 = "zero"
    /\ FromOneMB(Len(ram) - 1) # {}
    /\ \A i \in FromOneMB(Len(ram) - 1) : OneMB + ram[i].len >= end

\* What pmm_init makes free blocks of is memory, on a machine whose E820h
\* reports memory from 1 MB to 8 MB.  The machines left out are those on which
\* pmm_init goes wrong: with less memory, with the range reported last, or with
\* the memory learned from E801h or 88h, whose kilobytes are stored as bytes,
\* high_mem ends up below 8 MB, and the size of the region wraps.
PmmRegionsAreRam ==
    pc = "done" /\ Reports(HighBase) =>
        \A r \in regions : Addresses(r.start, r.size) \subseteq Ram

\* memory_get_map comes to an end whatever the BIOS reports.
DetectionEnds == <>(pc \in {"done", "halt"})
=============================================================================
