-------------------------- MODULE BootMemoryProofs --------------------------
(***************************************************************************)
(* What the boot loader learns of the memory is memory, for every machine, *)
(* every BIOS and every size of the table.                                 *)
(*                                                                         *)
(* The regions of pmm_init come from high_mem alone, so that the invariant *)
(* has to say what high_mem is the end of, behind every service and also   *)
(* behind one that failed half way.  That it reaches 8 MB at all follows   *)
(* from what E820h has reported of the machine (Reported).                 *)
(***************************************************************************)
EXTENDS BootMemory, SequenceTheorems, FiniteSetTheorems, WellFoundedInduction, TLAPS

Slot == [base : 0 .. (W - 1), len : 1 .. (W - 1)]

\* All of it is memory.
IsRam(base, len) == Addresses(base, len) \subseteq Ram

\* What boot_structure says is true: its table, and high_mem, which is the end
\* of memory without a hole from 1 MB on when it is above 1 MB at all.
Good(info) ==
    /\ info.high \in 0 .. (W - 1) /\ info.low \in 0 .. (W - 1)
    /\ info.map \in Seq(Slot) /\ Len(info.map) <= NSlots
    /\ \A i \in DOMAIN info.map : IsRam(info.map[i].base, info.map[i].len)
    /\ info.high > OneMB => IsRam(OneMB, info.high - OneMB)

Control ==
    /\ ram \in Maps /\ bios \in Services
    /\ pc \in {"e820", "e801", "88", "loaded", "done", "halt"}
    /\ cont \in 1 .. (Len(ram) + 1)

RegionsOK ==
    /\ pc # "done" => regions = {}
    /\ \A r \in regions : r.start \in 0 .. (W - 1) /\ r.size \in 0 .. (W - 1)
    /\ high_mem >= HighBase =>
          \A r \in regions : Addresses(r.start, r.size) \subseteq Ram

IInv == Control /\ Good(Info) /\ RegionsOK

-----------------------------------------------------------------------------
\* The constants are numbers in this order.
LEMMA Sizes ==
    /\ W \in Nat \ {0} /\ Limit \in Nat /\ Limit < W /\ PageSize \in Nat \ {0} /\ NSlots \in Nat \ {0}
    /\ OneMB \in Nat /\ Kend \in Nat /\ LowTop \in Nat /\ HighBase \in Nat /\ SixteenMB \in Nat
    /\ 0 < OneMB /\ OneMB < Kend /\ Kend <= LowTop /\ LowTop < HighBase
    /\ HighBase < SixteenMB /\ SixteenMB < Limit
    /\ KB \in Nat \ {0} /\ KB64 \in Nat \ {0}
    BY BootAssumption DEF Limit

\* What is known of a machine.
LEMMA MapFacts ==
    ASSUME NEW m \in Maps
    PROVE  /\ Len(m) \in Nat /\ DOMAIN m = 1 .. Len(m)
           /\ \A i \in 1 .. Len(m) :
                 /\ m[i].base \in Nat /\ m[i].len \in Nat \ {0}
                 /\ m[i].len <= Limit \/ m[i].len >= W
    <1> DEFINE R == [base : Nat, len : Nat \ {0}, usable : BOOLEAN]
    <1>1. m \in Seq(R) /\ \A i \in DOMAIN m : m[i].len <= Limit \/ m[i].len >= W
        BY BootAssumption
    <1>2. Len(m) \in Nat /\ DOMAIN m = 1 .. Len(m)
        BY <1>1
    <1>3. ASSUME NEW i \in 1 .. Len(m) PROVE m[i] \in R
        BY <1>1, <1>2, ElementOfSeq
    <1> QED BY <1>1, <1>2, <1>3

\* A set of numbers has a smallest one.
LEMMA Smallest ==
    ASSUME NEW S \in SUBSET Nat, NEW m \in S
    PROVE  \E n \in S : \A i \in Nat : i < n => i \notin S
    <1>1. PICK n \in S : \A y \in S : ~(<<y, n>> \in OpToRel(<, Nat))
        BY WFMin, NatLessThanWellFounded
    <1>2. \A y \in S : ~(y < n)
        BY <1>1 DEF OpToRel
    <1> QED BY <1>2

\* There is a length the BIOS can answer with, and it is one of memory.
LEMMA ContiguousFacts ==
    ASSUME NEW a \in Nat, NEW most \in Nat
    PROVE  Contiguous(a, most) \in 0 .. most /\ IsRam(a, Contiguous(a, most))
    <1> DEFINE S == {n \in 0 .. most : n = most \/ a + n \notin Ram}
    <1>1. most \in S /\ S \in SUBSET Nat
        OBVIOUS
    <1>2. PICK n \in S : \A i \in Nat : i < n => i \notin S
        <2> HIDE DEF S
        <2> QED BY <1>1, Smallest
    <1>3. n \in 0 .. most /\ (n = most \/ a + n \notin Ram)
        BY <1>2
    <1>4. Addresses(a, n) \subseteq Ram
        <2> SUFFICES ASSUME NEW x \in a .. (a + n - 1) PROVE x \in Ram
            BY DEF Addresses
        <2>1. x - a \in 0 .. most /\ x - a < n /\ x - a # most /\ a + (x - a) = x
            BY <1>3
        <2>2. x - a \notin S
            BY <1>2, <2>1
        <2> QED BY <2>1, <2>2
    <1>5. \E k \in 0 .. most : Addresses(a, k) \subseteq Ram /\ (k = most \/ a + k \notin Ram)
        BY <1>3, <1>4
    <1> QED BY <1>5 DEF Contiguous, IsRam

\* A shorter piece of memory is memory.
LEMMA Shorter ==
    ASSUME NEW base \in Nat, NEW len \in Nat, NEW less \in 0 .. len, IsRam(base, len)
    PROVE  IsRam(base, less)
    BY DEF IsRam, Addresses

\* Whole units are no more than what they are counted in.
LEMMA Units ==
    ASSUME NEW n \in Nat, NEW k \in Nat \ {0}
    PROVE  n \div k \in 0 .. n /\ (n \div k) * k \in 0 .. n
    OBVIOUS

\* Down to a page, but not below the one that begins at b.
LEMMA AlignedDown ==
    ASSUME NEW h \in Nat, NEW b \in Nat, NEW k \in Nat \ {0}, b % k = 0, h >= b
    PROVE  h - (h % k) \in b .. h
    <1> DEFINE q == h \div k
               s == b \div k
               r == h % k
    <1>1. /\ h = k * q + r /\ b = k * s
          /\ q \in Nat /\ s \in Nat /\ r \in 0 .. (k - 1) /\ r <= h
        OBVIOUS
    <1> HIDE DEF q, s, r
    <1>2. CASE q < s
        <2>1. s - q \in Nat \ {0}
            BY <1>1, <1>2
        <2>2. k * (s - q) >= k
            BY <2>1
        <2>3. k * (s - q) = k * s - k * q
            BY <1>1
        <2> QED BY <1>1, <2>2, <2>3
    <1>3. CASE q >= s
        <2>1. k * (q - s) >= 0
            BY <1>1, <1>3
        <2>2. k * (q - s) = k * q - k * s
            BY <1>1
        <2>3. h - r = k * q
            BY <1>1
        <2>4. h - r \in b .. h
            BY <1>1, <2>1, <2>2, <2>3
        <2> QED BY <2>4 DEF r
    <1> QED BY <1>1, <1>2, <1>3

\* boot_info_add_memmap keeps the structure true when what it is given is
\* memory: the limit refuses whatever would wrap behind 4 GB.
LEMMA AddMemmapGood ==
    ASSUME NEW info, Good(info), NEW base \in 0 .. (W - 1), NEW len \in 0 .. Limit, IsRam(base, len)
    PROVE  Good(AddMemmap(info, base, len))
    <1>1. CASE Refused(base, len)
        BY <1>1 DEF AddMemmap
    <1>2. CASE ~Refused(base, len)
        <2> DEFINE new == AddMemmap(info, base, len)
        <2>1. /\ new.high = HighMem(info, base, len)
              /\ new.low = IF base = 0 THEN len ELSE info.low
              /\ new.map = Slots(info.map, base, len)
            BY <1>2 DEF AddMemmap
        <2> HIDE DEF new
        <2>2. base + len <= Limit
            <3>1. Limit - len \in 0 .. (W - 1) /\ base <= (Limit - len) % W
                BY <1>2, Sizes DEF Refused
            <3>2. (Limit - len) % W = Limit - len
                BY <3>1, Sizes
            <3> QED BY <3>1, <3>2, Sizes
        <2>3. base + len \in 0 .. (W - 1) /\ (base + len) % W = base + len
            BY <2>2, Sizes
        <2>4. /\ new.high \in 0 .. (W - 1)
              /\ new.high > OneMB => IsRam(OneMB, new.high - OneMB)
            <3>1. CASE base = OneMB
                <4>1. new.high = base + len /\ new.high - OneMB = len
                    BY <2>1, <2>3, <3>1, Sizes DEF HighMem
                <4> QED BY <2>3, <3>1, <4>1
            <3>2. CASE base # OneMB
                BY <2>1, <3>2 DEF HighMem, Good
            <3> QED BY <3>1, <3>2
        <2>5. new.low \in 0 .. (W - 1)
            BY <2>1, Sizes DEF Good
        <2>6. /\ new.map \in Seq(Slot) /\ Len(new.map) <= NSlots
              /\ \A i \in DOMAIN new.map : IsRam(new.map[i].base, new.map[i].len)
            <3>1. CASE Len(info.map) = NSlots \/ len = 0
                BY <2>1, <3>1 DEF Slots, Good
            <3>2. CASE ~(Len(info.map) = NSlots \/ len = 0)
                <4> DEFINE slot == [base |-> base, len |-> len]
                <4>1. new.map = Append(info.map, slot)
                    BY <2>1, <3>2 DEF Slots
                <4>2. slot \in Slot
                    BY <3>2, Sizes DEF Slot
                <4>3. IsRam(slot.base, slot.len)
                    OBVIOUS
                <4> HIDE DEF slot
                <4>4. /\ info.map \in Seq(Slot) /\ Len(info.map) \in Nat /\ Len(info.map) < NSlots
                      /\ DOMAIN info.map = 1 .. Len(info.map)
                    BY <3>2, Sizes DEF Good
                <4>5. /\ new.map \in Seq(Slot) /\ Len(new.map) = Len(info.map) + 1
                      /\ DOMAIN new.map = 1 .. (Len(info.map) + 1)
                      /\ \A i \in 1 .. Len(info.map) : new.map[i] = info.map[i]
                      /\ new.map[Len(info.map) + 1] = slot
                    BY <4>1, <4>2, <4>4
                <4>6. ASSUME NEW i \in DOMAIN new.map PROVE IsRam(new.map[i].base, new.map[i].len)
                    <5>1. CASE i \in 1 .. Len(info.map)
                        BY <4>4, <4>5, <5>1 DEF Good
                    <5>2. CASE i = Len(info.map) + 1
                        BY <4>3, <4>5, <5>2
                    <5> QED BY <4>4, <4>5, <5>1, <5>2
                <4> QED BY <4>4, <4>5, <4>6, Sizes
            <3> QED BY <3>1, <3>2
        <2> QED BY <2>4, <2>5, <2>6 DEF Good, new
    <1> QED BY <1>1, <1>2

-----------------------------------------------------------------------------
\* Before the first query nothing has been said.
LEMMA InitInv == Init => IInv
    <1> SUFFICES ASSUME Init PROVE IInv
        OBVIOUS
    <1>1. Control
        BY MapFacts DEF Init, Control
    <1>2. Info = [high |-> 0, low |-> 0, map |-> <<>>]
        BY DEF Init, Info
    <1>3. Good(Info)
        BY <1>2, Sizes DEF Good
    <1>4. RegionsOK
        BY DEF Init, RegionsOK
    <1> QED BY <1>1, <1>3, <1>4 DEF IInv

\* A query that stores something true.
LEMMA StoreInv ==
    ASSUME IInv, pc # "done", NEW info, Good(info), Store(info),
           UNCHANGED <<ram, bios, regions>>,
           pc' \in {"e820", "loaded"}, cont' \in 1 .. (Len(ram) + 1)
    PROVE  IInv'
    <1>1. Control'
        BY DEF IInv, Control
    <1>2. Info'.high = info.high /\ Info'.low = info.low /\ Info'.map = info.map
        BY DEF Info, Store
    <1>3. Ram' = Ram
        BY DEF Ram
    <1>4. Good(Info)'
        BY <1>2, <1>3 DEF Good, IsRam, Addresses
    <1>5. RegionsOK'
        BY DEF IInv, RegionsOK
    <1> QED BY <1>1, <1>4, <1>5 DEF IInv

\* A query that stores nothing.
LEMMA SameInv ==
    ASSUME IInv, pc # "done", pc' \in {"e801", "88", "loaded", "halt"},
           UNCHANGED <<ram, bios, cont, mmap, high_mem, low_mem, regions>>
    PROVE  IInv'
    <1>1. Control'
        BY DEF IInv, Control
    <1>2. Good(Info)'
        BY DEF IInv, Good, Info, IsRam, Addresses, Ram
    <1>3. RegionsOK'
        BY DEF IInv, RegionsOK
    <1> QED BY <1>1, <1>2, <1>3 DEF IInv

\* One descriptor of the list.
LEMMA E820RangeInv == IInv /\ E820Range => IInv'
    <1> SUFFICES ASSUME IInv, E820Range PROVE IInv'
        OBVIOUS
    <1> DEFINE r == ram[cont]
               info == IF Recorded(r) THEN AddMemmap(Info, r.base % W, r.len % W) ELSE Info
    <1>1. /\ pc = "e820" /\ cont' = cont + 1 /\ Store(info) /\ UNCHANGED <<ram, bios, pc, regions>>
        BY DEF E820Range
    <1>2. ram \in Maps /\ Len(ram) \in Nat /\ cont \in 1 .. (Len(ram) + 1) /\ DOMAIN ram = 1 .. Len(ram)
        BY MapFacts DEF IInv, Control
    <1>3. cont \in 1 .. Len(ram)
        BY <1>2 DEF E820Range
    <1>4. ASSUME Recorded(r) PROVE Good(info)
        <2>1. /\ r.base \in Nat /\ r.len \in Nat \ {0} /\ (r.len <= Limit \/ r.len >= W)
              /\ r.base < W /\ r.len < W /\ r.usable
            BY <1>2, <1>3, <1>4, MapFacts DEF Recorded
        <2>2. IsRam(r.base, r.len)
            <3>1. cont \in {j \in DOMAIN ram : ram[j].usable}
                BY <1>2, <1>3, <2>1
            <3>2. Addresses(r.base, r.len)
                    \in {Addresses(ram[i].base, ram[i].len) : i \in {j \in DOMAIN ram : ram[j].usable}}
                BY <3>1
            <3> QED BY <3>2 DEF IsRam, Ram
        <2> HIDE DEF r
        <2>3. /\ r.base \in 0 .. (W - 1) /\ r.len \in 0 .. Limit
              /\ r.base % W = r.base /\ r.len % W = r.len
            BY <2>1, Sizes
        <2>4. Good(AddMemmap(Info, r.base % W, r.len % W))
            <3>1. Good(Info)
                BY DEF IInv
            <3> QED BY <2>2, <2>3, <3>1, AddMemmapGood
        <2> QED BY <1>4, <2>4
    <1>5. ASSUME ~Recorded(r) PROVE Good(info)
        BY <1>5 DEF IInv
    <1>6. Good(info)
        BY <1>4, <1>5
    <1> HIDE DEF info
    <1>7. cont' \in 1 .. (Len(ram) + 1)
        BY <1>1, <1>2, <1>3
    <1> QED BY <1>1, <1>6, <1>7, StoreInv

\* The kilobytes and the blocks E801h answers with are no longer than the
\* memory they stand for.
LEMMA LargeConfInv == IInv /\ LargeConf => IInv'
    <1> SUFFICES ASSUME IInv, LargeConf PROVE IInv'
        OBVIOUS
    <1> DEFINE low  == Contiguous(OneMB, SixteenMB - OneMB)
               high == Contiguous(SixteenMB, Limit - SixteenMB)
               ax   == low \div KB
               len  == (high \div KB64) * KB64
               one  == AddMemmap(Info, OneMB, ax)
               two  == AddMemmap(one, SixteenMB, len)
    <1>1. /\ pc = "e801" /\ pc' = "loaded" /\ Store(two)
          /\ UNCHANGED <<ram, bios, cont, regions>>
        BY DEF LargeConf
    <1>2. SixteenMB - OneMB \in Nat /\ Limit - SixteenMB \in Nat
        BY Sizes
    <1>3. /\ low \in 0 .. (SixteenMB - OneMB) /\ IsRam(OneMB, low)
          /\ high \in 0 .. (Limit - SixteenMB) /\ IsRam(SixteenMB, high)
        BY <1>2, ContiguousFacts, Sizes
    <1> HIDE DEF low, high
    <1>4. low \in Nat /\ high \in Nat
        BY <1>2, <1>3
    <1>5. ax \in 0 .. low /\ len \in 0 .. high
        BY <1>4, Sizes, Units
    <1>6. IsRam(OneMB, ax) /\ IsRam(SixteenMB, len)
        <2> HIDE DEF ax, len
        <2> QED BY <1>3, <1>4, <1>5, Sizes, Shorter
    <1>7. ax \in 0 .. Limit /\ len \in 0 .. Limit
        <2> HIDE DEF ax, len
        <2> QED BY <1>3, <1>4, <1>5, Sizes
    <1>8. OneMB \in 0 .. (W - 1) /\ SixteenMB \in 0 .. (W - 1)
        BY Sizes
    <1>9. Good(Info)
        BY DEF IInv
    <1> HIDE DEF ax, len
    <1>10. Good(one)
        BY <1>6, <1>7, <1>8, <1>9, AddMemmapGood
    <1> HIDE DEF one
    <1>11. Good(two)
        BY <1>6, <1>7, <1>8, <1>10, AddMemmapGood
    <1> HIDE DEF two
    <1>12. cont' \in 1 .. (Len(ram) + 1)
        BY <1>1 DEF IInv, Control
    <1> QED BY <1>1, <1>11, <1>12, StoreInv

\* Nor is what service 88h answers.
LEMMA Get88Inv == IInv /\ Get88 => IInv'
    <1> SUFFICES ASSUME IInv, Get88 PROVE IInv'
        OBVIOUS
    <1> DEFINE n  == Contiguous(OneMB, Limit - OneMB)
               ax == n \div KB
               info == AddMemmap(Info, OneMB, ax)
    <1>1. /\ pc = "88" /\ pc' = "loaded" /\ Store(info)
          /\ UNCHANGED <<ram, bios, cont, regions>>
        BY DEF Get88
    <1>2. Limit - OneMB \in Nat
        BY Sizes
    <1>3. n \in 0 .. (Limit - OneMB) /\ IsRam(OneMB, n)
        BY <1>2, ContiguousFacts, Sizes
    <1> HIDE DEF n
    <1>4. ax \in 0 .. n
        BY <1>2, <1>3, Sizes, Units
    <1> HIDE DEF ax
    <1>5. IsRam(OneMB, ax)
        BY <1>2, <1>3, <1>4, Sizes, Shorter
    <1>6. ax \in 0 .. Limit /\ OneMB \in 0 .. (W - 1)
        BY <1>2, <1>3, <1>4, Sizes
    <1>7. Good(Info)
        BY DEF IInv
    <1>8. Good(info)
        BY <1>5, <1>6, <1>7, AddMemmapGood
    <1> HIDE DEF info
    <1>9. cont' \in 1 .. (Len(ram) + 1)
        BY <1>1 DEF IInv, Control
    <1> QED BY <1>1, <1>8, <1>9, StoreInv

\* With memory behind 8 MB, both regions lie between 1 MB and high_mem.
LEMMA PmmInitInv == IInv /\ PmmInit => IInv'
    <1> SUFFICES ASSUME IInv, PmmInit PROVE IInv'
        OBVIOUS
    <1> DEFINE aligned == high_mem - (high_mem % PageSize)
               main == [start |-> HighBase, size |-> (aligned - HighBase) % W]
               kernel == [start |-> Kend, size |-> LowTop - Kend]
    <1>1. /\ pc' = "done" /\ UNCHANGED <<ram, bios, cont, mmap, high_mem, low_mem>>
          /\ regions' = {main} \cup (IF LowTop - Kend > PageSize THEN {kernel} ELSE {})
        BY DEF PmmInit
    <1>2. Control'
        BY <1>1 DEF IInv, Control
    <1>3. Ram' = Ram
        BY <1>1 DEF Ram
    <1>4. Good(Info)'
        BY <1>1, <1>3 DEF IInv, Good, Info, IsRam, Addresses
    <1>5. high_mem \in 0 .. (W - 1) /\ (high_mem > OneMB => IsRam(OneMB, high_mem - OneMB))
        BY DEF IInv, Good, Info
    <1>6. high_mem % PageSize \in Nat /\ aligned \in Int
        BY <1>5, Sizes
    <1>7. ASSUME high_mem >= HighBase
          PROVE  main.size = aligned - HighBase /\ aligned \in HighBase .. high_mem
        <2>1. aligned \in HighBase .. high_mem
            BY <1>5, <1>7, Sizes, AlignedDown, BootAssumption
        <2> HIDE DEF aligned
        <2>2. aligned - HighBase \in 0 .. (W - 1)
            BY <1>5, <2>1, Sizes
        <2>3. (aligned - HighBase) % W = aligned - HighBase
            BY <2>2, Sizes
        <2> QED BY <2>1, <2>3
    <1>8. main.start \in 0 .. (W - 1) /\ main.size \in 0 .. (W - 1)
        <2> HIDE DEF aligned
        <2>1. aligned - HighBase \in Int
            BY <1>6, Sizes
        <2>2. (aligned - HighBase) % W \in 0 .. (W - 1)
            BY <2>1, Sizes
        <2> QED BY <2>2, Sizes
    <1>9. kernel.start \in 0 .. (W - 1) /\ kernel.size \in 0 .. (W - 1)
        BY Sizes
    <1>10. ASSUME high_mem >= HighBase
           PROVE  IsRam(main.start, main.size) /\ IsRam(kernel.start, kernel.size)
        <2>1. \A x \in OneMB .. (high_mem - 1) : x \in Ram
            <3>1. IsRam(OneMB, high_mem - OneMB)
                BY <1>5, <1>10, Sizes
            <3>2. OneMB + (high_mem - OneMB) - 1 = high_mem - 1
                BY <1>5, Sizes
            <3> QED BY <3>1, <3>2 DEF IsRam, Addresses
        <2>2. ASSUME NEW x \in Addresses(main.start, main.size) PROVE x \in OneMB .. (high_mem - 1)
            <3>1. aligned \in HighBase .. high_mem /\ x \in HighBase .. (HighBase + (aligned - HighBase) - 1)
                BY <1>7, <1>10, <2>2 DEF Addresses
            <3> HIDE DEF aligned
            <3> QED BY <1>5, <3>1, Sizes
        <2>3. ASSUME NEW x \in Addresses(kernel.start, kernel.size)
              PROVE  x \in OneMB .. (high_mem - 1)
            <3>1. x \in Kend .. (Kend + (LowTop - Kend) - 1)
                BY <2>3 DEF Addresses
            <3> QED BY <1>5, <1>10, <3>1, Sizes
        <2> QED BY <2>1, <2>2, <2>3 DEF IsRam
    <1>11. RegionsOK'
        <2> HIDE DEF main, kernel
        <2>1. \A r \in regions' : r = main \/ r = kernel
            BY <1>1
        <2> QED BY <1>1, <1>3, <1>8, <1>9, <1>10, <2>1 DEF RegionsOK, IsRam, Addresses
    <1> QED BY <1>2, <1>4, <1>11 DEF IInv

\* Every query keeps the inductive invariant.
LEMMA NextInv == IInv /\ [Next]_vars => IInv'
    <1> SUFFICES ASSUME IInv, [Next]_vars PROVE IInv'
        OBVIOUS
    <1>1. CASE UNCHANGED vars
        BY <1>1 DEF vars, IInv, Control, Good, Info, RegionsOK, IsRam, Addresses,
                    Ram
    <1>2. CASE E820Error
        BY <1>2, SameInv DEF E820Error
    <1>3. CASE E820Last
        BY <1>3, SameInv DEF E820Last
    <1>4. CASE LargeConfError
        BY <1>4, SameInv DEF LargeConfError
    <1>5. CASE Get88Error
        BY <1>5, SameInv DEF Get88Error
    <1> QED BY <1>1, <1>2, <1>3, <1>4, <1>5, E820RangeInv, LargeConfInv, Get88Inv, PmmInitInv
            DEF Next, Query, Finished

-----------------------------------------------------------------------------
\* While the BIOS goes through a list that it ends with a zero continuation
\* value, the table is that of the ranges reported so far; such a list is
\* never given up.
Listing ==
    bios.e820 = "zero" =>
        /\ pc \in {"e820", "loaded", "done"}
        /\ pc = "e820" => cont <= Len(ram) /\ Listed(cont - 1)
        /\ pc # "e820" => Listed(Len(ram) - 1)

\* How many there are among the first n.
LEMMA Below4GFacts ==
    ASSUME NEW n \in Nat
    PROVE  IsFiniteSet(Below4G(n)) /\ Cardinality(Below4G(n)) \in Nat
    <1>1. IsFiniteSet(1 .. n) /\ Below4G(n) \subseteq 1 .. n
        BY FS_Interval DEF Below4G
    <1>2. IsFiniteSet(Below4G(n))
        BY <1>1, FS_Subset
    <1> QED BY <1>2, FS_CardinalityType

\* One range more is in or it is not.
LEMMA Below4GStep ==
    ASSUME NEW n \in Nat \ {0}
    PROVE  IF Recorded(ram[n]) /\ ram[n].base + ram[n].len <= Limit
             THEN /\ Below4G(n) = Below4G(n - 1) \cup {n}
                  /\ Cardinality(Below4G(n)) = Cardinality(Below4G(n - 1)) + 1
             ELSE Below4G(n) = Below4G(n - 1)
    <1>1. n - 1 \in Nat /\ n \notin 1 .. (n - 1) /\ 1 .. n = (1 .. (n - 1)) \cup {n}
        OBVIOUS
    <1>2. CASE Recorded(ram[n]) /\ ram[n].base + ram[n].len <= Limit
        <2>1. Below4G(n) = Below4G(n - 1) \cup {n} /\ n \notin Below4G(n - 1)
            BY <1>1, <1>2 DEF Below4G
        <2>2. IsFiniteSet(Below4G(n - 1))
            BY <1>1, Below4GFacts
        <2>3. Cardinality(Below4G(n - 1) \cup {n}) = Cardinality(Below4G(n - 1)) + 1
            BY <2>1, <2>2, FS_AddElement
        <2> QED BY <1>2, <2>1, <2>3
    <1>3. CASE ~(Recorded(ram[n]) /\ ram[n].base + ram[n].len <= Limit)
        BY <1>1, <1>3 DEF Below4G
    <1> QED BY <1>2, <1>3

\* boot_info_add_memmap compares with the limit without an overflow.
LEMMA RefusedFacts ==
    ASSUME NEW base \in 0 .. (W - 1), NEW len \in 1 .. Limit
    PROVE  Refused(base, len) <=> ~(base + len <= Limit)
    <1>1. Limit - len \in 0 .. (W - 1)
        BY Sizes
    <1>2. (Limit - len) % W = Limit - len
        BY <1>1, Sizes
    <1> QED BY <1>2, Sizes DEF Refused

\* The table after one descriptor more.
LEMMA ListedStep ==
    ASSUME IInv, bios.e820 = "zero", pc = "e820", cont <= Len(ram), Listed(cont - 1), E820Range,
           NEW n \in Nat, n = cont
    PROVE  Listed(n)'
    <1> DEFINE r == ram[cont]
               in == Recorded(r) /\ r.base + r.len <= Limit
               card == Cardinality(Below4G(cont - 1))
               slot == [base |-> r.base, len |-> r.len]
    <1>1. /\ ram \in Maps /\ Len(ram) \in Nat /\ cont \in 1 .. Len(ram)
          /\ cont \in Nat \ {0} /\ cont - 1 \in Nat
        BY MapFacts DEF IInv, Control
    <1>2. r.base \in Nat /\ r.len \in Nat \ {0} /\ (r.len <= Limit \/ r.len >= W)
        BY <1>1, MapFacts
    <1>3. mmap \in Seq(Slot) /\ Len(mmap) \in Nat /\ Len(mmap) <= NSlots /\ NSlots \in Nat
        BY Sizes DEF IInv, Good, Info
    <1>4. card \in Nat
        BY <1>1, Below4GFacts
    <1>5. /\ Len(mmap) = IF card < NSlots THEN card ELSE NSlots
          /\ \A i \in Below4G(cont - 1) :
                Cardinality(Below4G(i)) <= NSlots =>
                    mmap[Cardinality(Below4G(i))] = [base |-> ram[i].base, len |-> ram[i].len]
        BY DEF Listed
    <1>6. ram' = ram /\ mmap' = IF in THEN Slots(mmap, r.base, r.len) ELSE mmap
        <2>1. /\ ram' = ram
              /\ mmap' = (IF Recorded(r) THEN AddMemmap(Info, r.base % W, r.len % W) ELSE Info).map
            BY DEF E820Range, Store
        <2>2. CASE Recorded(r)
            <3>1. r.base \in 0 .. (W - 1) /\ r.len \in 1 .. Limit /\ r.base % W = r.base /\ r.len % W = r.len
                <4>1. r.base < W /\ r.len < W
                    BY <2>2 DEF Recorded
                <4> HIDE DEF r
                <4>2. r.base \in 0 .. (W - 1) /\ r.len \in 1 .. Limit
                    BY <1>2, <4>1, Sizes
                <4>3. \A x \in 0 .. (W - 1) : x % W = x
                    BY Sizes
                <4>4. r.len \in 0 .. (W - 1)
                    BY <4>2, Sizes
                <4> QED BY <4>2, <4>3, <4>4
            <3>2. Refused(r.base, r.len) <=> ~(r.base + r.len <= Limit)
                <4> HIDE DEF r
                <4> QED BY <3>1, RefusedFacts
            <3> HIDE DEF r
            <3> QED BY <2>1, <2>2, <3>1, <3>2 DEF AddMemmap, Info
        <2>3. CASE ~Recorded(r)
            BY <2>1, <2>3 DEF Info
        <2> QED BY <2>1, <2>2, <2>3
    <1>7. IF in THEN /\ Below4G(cont) = Below4G(cont - 1) \cup {cont}
                     /\ Cardinality(Below4G(cont)) = card + 1
                ELSE Below4G(cont) = Below4G(cont - 1)
        BY <1>1, Below4GStep
    <1>8. \A i \in Below4G(cont - 1) : Cardinality(Below4G(i)) \in 1 .. card
        <2> SUFFICES ASSUME NEW i \in Below4G(cont - 1) PROVE Cardinality(Below4G(i)) \in 1 .. card
            OBVIOUS
        <2>1. i \in 1 .. (cont - 1) /\ i \in Nat
            BY <1>1 DEF Below4G
        <2>2. Below4G(i) \subseteq Below4G(cont - 1) /\ i \in Below4G(i)
            BY <1>1, <2>1 DEF Below4G
        <2>3. Cardinality(Below4G(i)) \in Nat /\ Cardinality(Below4G(i)) <= card
            BY <1>1, <2>1, <2>2, Below4GFacts, FS_Subset
        <2>4. Cardinality(Below4G(i)) # 0
            BY <2>1, <2>2, Below4GFacts, FS_EmptySet
        <2> QED BY <1>4, <2>3, <2>4
    <1>9. SUFFICES /\ Len(mmap') = IF Cardinality(Below4G(cont)) < NSlots
                                     THEN Cardinality(Below4G(cont)) ELSE NSlots
                   /\ \A i \in Below4G(cont) :
                         Cardinality(Below4G(i)) <= NSlots =>
                             mmap'[Cardinality(Below4G(i))] = [base |-> ram[i].base, len |-> ram[i].len]
        <2>1. ram' = ram /\ Below4G(n)' = Below4G(n) /\ \A i : Below4G(i)' = Below4G(i)
            BY <1>6 DEF Below4G, Recorded
        <2> QED BY <2>1 DEF Listed
    <1>10. CASE ~in
        BY <1>5, <1>6, <1>7, <1>10
    <1>11. CASE in /\ Len(mmap) = NSlots
        <2>1. mmap' = mmap /\ Cardinality(Below4G(cont)) = card + 1
            BY <1>6, <1>7, <1>11 DEF Slots
        <2>2. ~(card < NSlots) /\ ~(card + 1 < NSlots) /\ ~(card + 1 <= NSlots)
            BY <1>3, <1>4, <1>5, <1>11
        <2> QED BY <1>5, <1>7, <1>11, <2>1, <2>2
    <1>12. CASE in /\ Len(mmap) # NSlots
        <2>1. mmap' = Append(mmap, slot)
            BY <1>2, <1>6, <1>12 DEF Slots
        <2>2. card < NSlots /\ Len(mmap) = card
            BY <1>3, <1>4, <1>5, <1>12
        <2> HIDE DEF slot, card, in
        <2>3. /\ Len(mmap') = card + 1 /\ mmap'[card + 1] = slot
              /\ \A k \in 1 .. card : mmap'[k] = mmap[k]
            BY <1>3, <2>1, <2>2
        <2>4. /\ Below4G(cont) = Below4G(cont - 1) \cup {cont}
              /\ Cardinality(Below4G(cont)) = card + 1
            BY <1>7, <1>12
        <2>5. Len(mmap') = IF card + 1 < NSlots THEN card + 1 ELSE NSlots
            BY <1>3, <1>4, <2>2, <2>3
        <2>6. ASSUME NEW i \in Below4G(cont), Cardinality(Below4G(i)) <= NSlots
              PROVE  mmap'[Cardinality(Below4G(i))] = [base |-> ram[i].base, len |-> ram[i].len]
            <3>1. CASE i \in Below4G(cont - 1)
                BY <1>5, <1>8, <2>3, <2>6, <3>1
            <3>2. CASE i = cont
                BY <2>3, <2>4, <3>2 DEF slot
            <3> QED BY <2>4, <3>1, <3>2
        <2> QED BY <2>4, <2>5, <2>6
    <1> QED BY <1>10, <1>11, <1>12

LEMMA ListingInit == Init => Listing
    <1> SUFFICES ASSUME Init PROVE Listing
        OBVIOUS
    <1>1. ram \in Maps /\ mmap = <<>> /\ pc = "e820" /\ cont = 1
        BY DEF Init
    <1>2. Len(ram) \in Nat /\ Len(ram) # 0
        BY <1>1, MapFacts, BootAssumption
    <1>3. Below4G(0) = {}
        BY DEF Below4G
    <1>4. Listed(0)
        <2>1. Cardinality(Below4G(0)) = 0 /\ Len(mmap) = 0 /\ NSlots \in Nat /\ 0 < NSlots
            <3>1. Cardinality(Below4G(0)) = 0
                BY <1>3, FS_EmptySet
            <3> QED BY <1>1, <3>1, Sizes
        <2> QED BY <1>3, <2>1 DEF Listed
    <1> QED BY <1>1, <1>2, <1>4 DEF Listing

LEMMA ListingNext == IInv /\ Listing /\ [Next]_vars => Listing'
    <1> SUFFICES ASSUME IInv, Listing, [Next]_vars, bios.e820 = "zero" PROVE Listing'
        BY DEF Listing, Next, Query, E820Error, E820Last, E820Range, LargeConf, LargeConfError,
               Get88, Get88Error, PmmInit, Finished, vars
    <1>1. ram \in Maps /\ Len(ram) \in Nat /\ cont \in Nat
        BY MapFacts DEF IInv, Control
    <1>2. CASE E820Last
        <2>1. pc = "e820" /\ cont = Len(ram) /\ pc' = "loaded" /\ UNCHANGED <<ram, bios, mmap>>
            BY <1>2 DEF E820Last
        <2> QED BY <2>1 DEF Listing, Listed, Below4G, Recorded
    <1>3. CASE E820Range
        <2>1. /\ pc = "e820" /\ cont < Len(ram) /\ cont' = cont + 1
              /\ UNCHANGED <<ram, bios, pc>> /\ Listed(cont - 1) /\ cont <= Len(ram)
            BY <1>3 DEF E820Range, Listing
        <2>2. PICK n \in Nat : n = cont
            BY <1>1
        <2>3. Listed(n)'
            BY <1>3, <2>1, <2>2, ListedStep
        <2>4. cont' - 1 = n /\ cont' <= Len(ram)
            BY <1>1, <2>1, <2>2
        <2> QED BY <2>1, <2>3, <2>4 DEF Listing
    <1>4. CASE PmmInit \/ UNCHANGED vars
        <2>1. /\ UNCHANGED <<ram, bios, mmap, cont>>
              /\ pc' = pc \/ (pc = "loaded" /\ pc' = "done")
            BY <1>4 DEF PmmInit, vars
        <2> QED BY <2>1 DEF Listing, Listed, Below4G, Recorded
    <1>5. CASE E820Error \/ LargeConf \/ LargeConfError \/ Get88 \/ Get88Error
        BY <1>1, <1>5 DEF Listing, E820Error, LargeConf, LargeConfError, Get88, Get88Error
    <1> QED BY <1>2, <1>3, <1>4, <1>5 DEF Next, Query, Finished

-----------------------------------------------------------------------------
\* high_mem is the end of a range from 1 MB on, when one of the first n is.
HighReported(n) ==
    FromOneMB(n) # {} => \E i \in FromOneMB(n) : high_mem = OneMB + ram[i].len

\* While the BIOS goes through such a list, high_mem is what it has reported.
Reported ==
    bios.e820 = "zero" =>
        /\ pc \in {"e820", "loaded", "done"}
        /\ pc = "e820" => cont <= Len(ram) /\ HighReported(cont - 1)
        /\ pc # "e820" => HighReported(Len(ram) - 1)

\* high_mem after one descriptor more.
LEMMA HighStep ==
    ASSUME IInv, cont <= Len(ram), HighReported(cont - 1), E820Range, NEW n \in Nat, n = cont
    PROVE  HighReported(n)'
    <1> DEFINE r == ram[cont]
               in == Recorded(r) /\ r.base + r.len <= Limit
    <1>1. /\ ram \in Maps /\ cont \in 1 .. Len(ram) /\ cont \in Nat \ {0}
        BY MapFacts DEF IInv, Control
    <1>2. r.base \in Nat /\ r.len \in Nat \ {0} /\ (r.len <= Limit \/ r.len >= W)
        BY <1>1, MapFacts
    <1>3. /\ ram' = ram
          /\ high_mem' = (IF Recorded(r) THEN AddMemmap(Info, r.base % W, r.len % W) ELSE Info).high
        BY DEF E820Range, Store
    <1>4. FromOneMB(n)' = FromOneMB(cont)
        BY <1>3 DEF FromOneMB, Below4G, Recorded
    <1>5. IF in THEN Below4G(cont) = Below4G(cont - 1) \cup {cont}
                ELSE Below4G(cont) = Below4G(cont - 1)
        BY <1>1, Below4GStep
    <1>6. CASE Recorded(r)
        <2>1. r.base < W /\ r.len < W
            BY <1>6 DEF Recorded
        <2> HIDE DEF r
        <2>2. r.base \in 0 .. (W - 1) /\ r.len \in 1 .. Limit
            BY <1>2, <2>1, Sizes
        <2>3. \A x \in 0 .. (W - 1) : x % W = x
            BY Sizes
        <2>4. r.base % W = r.base /\ r.len % W = r.len
            <3>1. r.len \in 0 .. (W - 1)
                BY <2>2, Sizes
            <3> QED BY <2>2, <2>3, <3>1
        <2>5. Refused(r.base, r.len) <=> ~in
            BY <1>6, <2>2, RefusedFacts DEF in
        <2>6. CASE in /\ r.base = OneMB
            <3>1. r.base + r.len \in 0 .. (W - 1)
                BY <2>2, <2>6, Sizes
            <3>2. high_mem' = OneMB + r.len
                BY <1>3, <1>6, <2>3, <2>4, <2>5, <2>6, <3>1 DEF AddMemmap, HighMem
            <3>3. cont \in FromOneMB(cont)
                BY <1>5, <2>6 DEF FromOneMB, r
            <3> QED BY <1>3, <1>4, <3>2, <3>3 DEF HighReported, r
        <2>7. CASE ~(in /\ r.base = OneMB)
            <3>1. high_mem' = high_mem
                BY <1>3, <1>6, <2>4, <2>5, <2>7 DEF AddMemmap, HighMem, Info
            <3>2. FromOneMB(cont) = FromOneMB(cont - 1)
                BY <1>5, <2>7 DEF FromOneMB, r
            <3> QED BY <1>3, <1>4, <3>1, <3>2 DEF HighReported
        <2> QED BY <2>6, <2>7
    <1>7. CASE ~Recorded(r)
        <2>1. high_mem' = high_mem
            BY <1>3, <1>7 DEF Info
        <2>2. FromOneMB(cont) = FromOneMB(cont - 1)
            BY <1>5, <1>7 DEF FromOneMB
        <2> QED BY <1>3, <1>4, <2>1, <2>2 DEF HighReported
    <1> QED BY <1>6, <1>7

LEMMA ReportedInit == Init => Reported
    <1> SUFFICES ASSUME Init PROVE Reported
        OBVIOUS
    <1>1. ram \in Maps /\ pc = "e820" /\ cont = 1
        BY DEF Init
    <1>2. Len(ram) \in Nat /\ Len(ram) # 0
        BY <1>1, MapFacts, BootAssumption
    <1>3. FromOneMB(0) = {}
        BY DEF FromOneMB, Below4G
    <1> QED BY <1>1, <1>2, <1>3 DEF Reported, HighReported

LEMMA ReportedNext == IInv /\ Reported /\ [Next]_vars => Reported'
    <1> SUFFICES ASSUME IInv, Reported, [Next]_vars, bios.e820 = "zero" PROVE Reported'
        BY DEF Reported, Next, Query, E820Error, E820Last, E820Range, LargeConf, LargeConfError,
               Get88, Get88Error, PmmInit, Finished, vars
    <1> USE DEF HighReported, FromOneMB, Below4G, Recorded
    <1>1. ram \in Maps /\ Len(ram) \in Nat /\ cont \in Nat
        BY MapFacts DEF IInv, Control
    <1>2. CASE E820Last
        BY <1>2 DEF E820Last, Reported
    <1>3. CASE E820Range
        <2> USE <1>3
        <2> HIDE DEF HighReported, FromOneMB, Below4G, Recorded
        <2>1. /\ pc = "e820" /\ cont < Len(ram) /\ cont' = cont + 1
              /\ UNCHANGED <<ram, bios, pc>> /\ HighReported(cont - 1) /\ cont <= Len(ram)
            BY DEF E820Range, Reported
        <2>2. PICK n \in Nat : n = cont
            BY <1>1
        <2>3. HighReported(n)'
            BY <2>1, <2>2, HighStep
        <2>4. cont' - 1 = n /\ cont' <= Len(ram)
            BY <1>1, <2>1, <2>2
        <2> QED BY <2>1, <2>3, <2>4 DEF Reported
    <1>4. CASE PmmInit \/ UNCHANGED vars
        <2>1. /\ UNCHANGED <<ram, bios, high_mem, cont>>
              /\ pc' = pc \/ (pc = "loaded" /\ pc' = "done")
            BY <1>4 DEF PmmInit, vars
        <2> QED BY <2>1 DEF Reported
    <1>5. CASE E820Error \/ LargeConf \/ LargeConfError \/ Get88 \/ Get88Error
        BY <1>1, <1>5 DEF Reported, E820Error, LargeConf, LargeConfError, Get88, Get88Error
    <1> QED BY <1>2, <1>3, <1>4, <1>5 DEF Next, Query, Finished

\* What is reported is what high_mem says in the end.
LEMMA HighEnough ==
    ASSUME IInv, Reported, pc = "done", NEW end \in Nat, Reports(end)
    PROVE  high_mem >= end
    <1>1. HighReported(Len(ram) - 1)
        BY DEF Reported, Reports
    <1>2. PICK i \in FromOneMB(Len(ram) - 1) : high_mem = OneMB + ram[i].len
        BY <1>1 DEF HighReported, Reports
    <1> QED BY <1>2 DEF Reports

-----------------------------------------------------------------------------
\* The inductive invariant holds of every detection.
THEOREM Invariant == Spec => []IInv
    BY InitInv, NextInv, PTL DEF Spec

\* Every variable keeps its type, and boot_info_add_memmap never writes behind
\* its slots.
THEOREM TypeCorrect == Spec => []TypeOK
    <1>1. IInv => TypeOK
        <2> SUFFICES ASSUME IInv PROVE TypeOK
            OBVIOUS
        <2>1. mmap \in Seq(Slot) /\ Len(mmap) <= NSlots
            BY DEF IInv, Good, Info
        <2>2. ASSUME NEW i \in DOMAIN mmap
              PROVE  mmap[i].base \in 0 .. (W - 1) /\ mmap[i].len \in 1 .. (W - 1)
            <3>1. mmap[i] \in Slot
                BY <2>1, ElementOfSeq
            <3> QED BY <3>1 DEF Slot
        <2> QED BY <2>1, <2>2 DEF IInv, Control, Good, Info, RegionsOK, TypeOK
    <1> QED BY <1>1, Invariant, PTL

\* The table the kernel is given names only memory, whatever services the BIOS
\* has, in whatever order it lists its ranges and wherever its list breaks off.
THEOREM TableIsMemory == Spec => []MapIsRam
    <1>1. IInv => MapIsRam
        BY DEF IInv, Good, Info, MapIsRam, IsRam
    <1> QED BY <1>1, Invariant, PTL

\* When the BIOS ends its list with a zero continuation value, slot k holds the
\* k-th usable range below 4 GB reported before the last one, for every k.
THEOREM TableIsExact == Spec => []E820Exact
    <1>1. Listing => E820Exact
        BY DEF Listing, E820Exact
    <1> QED BY <1>1, Invariant, ListingInit, ListingNext, PTL DEF Spec

\* The free blocks pmm_init makes are memory, on every machine whose E820h
\* reports its memory from 1 MB to 8 MB or beyond before the last range.
THEOREM RegionsAreMemory == Spec => []PmmRegionsAreRam
    <1>1. IInv /\ Reported => PmmRegionsAreRam
        <2> SUFFICES ASSUME IInv, Reported, pc = "done", Reports(HighBase)
                     PROVE  \A r \in regions : Addresses(r.start, r.size) \subseteq Ram
            BY DEF PmmRegionsAreRam
        <2>1. high_mem >= HighBase
            BY Sizes, HighEnough
        <2> QED BY <2>1 DEF IInv, RegionsOK
    <1> QED BY <1>1, Invariant, ReportedInit, ReportedNext, PTL DEF Spec

-----------------------------------------------------------------------------
\* The machine as Pmm knows it, in pages: a member of its constant Boots.
Boot == [kend |-> Kend \div PageSize, high_mem |-> high_mem \div PageSize]

\* The blocks Pmm starts with on machine b, those of InitHigh and InitLow.
Blocks(b) ==
    {[start |-> HighBase \div PageSize, size |-> b.high_mem - HighBase \div PageSize]}
    \cup (IF LowTop \div PageSize - b.kend > 1
            THEN {[start |-> b.kend, size |-> LowTop \div PageSize - b.kend]} ELSE {})

\* What Pmm assumes of a machine, and what pmm_init gives it.
PmmStarts ==
    pc = "done" /\ Reports(HighBase + PageSize) =>
        /\ Boot.kend \in 1 .. (W \div PageSize - 1)
        /\ Boot.high_mem \in (HighBase \div PageSize + 1) .. (W \div PageSize - 1)
        /\ regions = {[start |-> PageSize * r.start, size |-> PageSize * r.size] : r \in Blocks(Boot)}

\* The regions are what PmmInit makes of high_mem, which stays as it is.
Made ==
    pc = "done" =>
        regions = {[start |-> HighBase,
                    size  |-> ((high_mem - (high_mem % PageSize)) - HighBase) % W]}
                  \cup (IF LowTop - Kend > PageSize
                          THEN {[start |-> Kend, size |-> LowTop - Kend]} ELSE {})

\* A number of bytes that is a number of pages.
LEMMA Paged ==
    ASSUME NEW k \in Nat \ {0}, NEW a \in Nat, a % k = 0
    PROVE  a \div k \in Nat /\ a = k * (a \div k)
    OBVIOUS

\* Multiples of k are in the order of their factors.
LEMMA FactorOrder ==
    ASSUME NEW k \in Nat \ {0}, NEW p \in Int, NEW q \in Int, k * p < k * q
    PROVE  p < q
    <1> SUFFICES ASSUME p >= q PROVE FALSE
        OBVIOUS
    <1>1. k * (p - q) >= 0
        OBVIOUS
    <1>2. k * (p - q) = k * p - k * q
        OBVIOUS
    <1> QED BY <1>1, <1>2

\* Made holds at the end because no step changes high_mem behind PmmInit.
LEMMA MadeNext == Made /\ [Next]_vars => Made'
    <1> SUFFICES ASSUME Made, [Next]_vars PROVE Made'
        OBVIOUS
    <1>1. CASE PmmInit
        BY <1>1 DEF PmmInit, Made
    <1>2. CASE UNCHANGED vars
        BY <1>2 DEF vars, Made
    <1>3. CASE E820Error \/ E820Last \/ E820Range \/ LargeConf \/ LargeConfError
                 \/ Get88 \/ Get88Error
        BY <1>3 DEF Made, E820Error, E820Last, E820Range, LargeConf, LargeConfError,
                    Get88, Get88Error
    <1> QED BY <1>1, <1>2, <1>3 DEF Next, Query, Finished

\* The same regions, counted in pages.
LEMMA InPages == IInv /\ Reported /\ Made => PmmStarts
    <1> SUFFICES ASSUME IInv, Made, pc = "done", high_mem >= HighBase + PageSize
                 PROVE  /\ Boot.kend \in 1 .. (W \div PageSize - 1)
                        /\ Boot.high_mem \in (HighBase \div PageSize + 1) .. (W \div PageSize - 1)
                        /\ regions = {[start |-> PageSize * r.start, size |-> PageSize * r.size] :
                                         r \in Blocks(Boot)}
        <2>1. HighBase + PageSize \in Nat
            BY Sizes
        <2> QED BY <2>1, HighEnough DEF PmmStarts
    <1> DEFINE k == PageSize
               w == W \div k
               b == HighBase \div k
               t == LowTop \div k
               e == Kend \div k
               q == high_mem \div k
               r0 == high_mem % k
    <1>1. /\ w \in Nat /\ W = k * w
          /\ b \in Nat /\ HighBase = k * b
          /\ t \in Nat /\ LowTop = k * t
          /\ e \in Nat /\ Kend = k * e
        BY Sizes, Paged, BootAssumption
    <1>2. high_mem \in 0 .. (W - 1)
        BY DEF IInv, Good, Info
    <1>3. q \in Nat /\ r0 \in 0 .. (k - 1) /\ high_mem = k * q + r0
        BY <1>2, Sizes
    <1>4. Boot.kend = e /\ Boot.high_mem = q
        BY DEF Boot
    <1>5. regions = {[start |-> HighBase, size |-> ((high_mem - r0) - HighBase) % W]}
                    \cup (IF LowTop - Kend > k THEN {[start |-> Kend, size |-> LowTop - Kend]} ELSE {})
        BY DEF Made
    <1>6. Blocks(Boot) = {[start |-> b, size |-> q - b]}
                         \cup (IF t - e > 1 THEN {[start |-> e, size |-> t - e]} ELSE {})
        BY <1>4 DEF Blocks
    <1>7. k \in Nat \ {0} /\ k = PageSize
        BY Sizes
    <1> HIDE DEF k, w, b, t, e, q, r0
    <1>8. b < q /\ q < w
        <2>1. k * b < k * q
            BY <1>1, <1>2, <1>3, <1>7
        <2>2. k * q < k * w
            BY <1>1, <1>2, <1>3, <1>7
        <2> QED BY <1>1, <1>3, <1>7, <2>1, <2>2, FactorOrder
    <1>9. 0 < e /\ e < w
        <2>1. k * 0 < k * e /\ k * e < k * w
            BY <1>1, <1>7, Sizes
        <2> QED BY <1>1, <1>7, <2>1, FactorOrder
    <1>10. ((high_mem - r0) - HighBase) % W = k * (q - b)
        <2>1. (high_mem - r0) - HighBase = k * q - k * b
            BY <1>1, <1>2, <1>3, <1>7
        <2>2. k * q - k * b = k * (q - b)
            BY <1>1, <1>3, <1>7
        <2>3. k * (q - b) \in 0 .. (W - 1)
            BY <1>1, <1>2, <1>3, <1>7, <2>1, <2>2, Sizes
        <2> QED BY <2>1, <2>2, <2>3, Sizes
    <1>11. LowTop - Kend = k * (t - e)
        BY <1>1, <1>7
    <1>12. LowTop - Kend > k <=> t - e > 1
        <2>1. ASSUME LowTop - Kend > k PROVE t - e > 1
            <3>1. k * 1 < k * (t - e)
                BY <1>1, <1>7, <1>11, <2>1, Sizes
            <3> QED BY <1>1, <1>7, <3>1, FactorOrder
        <2>2. ASSUME t - e > 1 PROVE LowTop - Kend > k
            <3>1. k * (t - e - 1) > 0 /\ k * (t - e - 1) = k * (t - e) - k
                BY <1>1, <1>7, <2>2
            <3> QED BY <1>1, <1>7, <1>11, <3>1, Sizes
        <2> QED BY <2>1, <2>2
    <1>13. regions = {[start |-> k * r.start, size |-> k * r.size] : r \in Blocks(Boot)}
        <2> DEFINE main == [start |-> b, size |-> q - b]
                   kernel == [start |-> e, size |-> t - e]
                   Bytes(r) == [start |-> k * r.start, size |-> k * r.size]
        <2>1. Bytes(main) = [start |-> HighBase, size |-> ((high_mem - r0) - HighBase) % W]
            BY <1>1, <1>10
        <2>2. Bytes(kernel) = [start |-> Kend, size |-> LowTop - Kend]
            BY <1>1, <1>11
        <2> HIDE DEF main, kernel, Bytes
        <2>3. regions = {Bytes(main)} \cup (IF t - e > 1 THEN {Bytes(kernel)} ELSE {})
            BY <1>5, <1>12, <2>1, <2>2
        <2>4. Blocks(Boot) = {main} \cup (IF t - e > 1 THEN {kernel} ELSE {})
            BY <1>6 DEF main, kernel
        <2>5. regions = {Bytes(r) : r \in Blocks(Boot)}
            BY <2>3, <2>4
        <2> QED BY <2>5 DEF Bytes
    <1> QED BY <1>1, <1>3, <1>4, <1>7, <1>8, <1>9, <1>13 DEF k, b, w

\* What the detection ends with is what Pmm starts from: on a machine whose E820h
\* reports memory from 1 MB to a page behind 8 MB, before the last range, `kend'
\* and high_mem, counted in pages, satisfy the assumption of Pmm on its constant
\* Boots, and the regions are the blocks it makes of them.
THEOREM DetectionFitsPmm == Spec => []PmmStarts
    <1>1. Init => Made
        BY DEF Init, Made
    <1> QED BY <1>1, Invariant, ReportedInit, ReportedNext, MadeNext, InPages, PTL DEF Spec
=============================================================================
