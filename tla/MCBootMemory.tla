---------------------------- MODULE MCBootMemory ----------------------------
\* BootMemory with 4 GB at 32, 1 MB at 4, 4 MB at 10, 8 MB at 14, 16 MB at 20.
EXTENDS BootMemory, FiniteSetsExt, SequencesExt

Usable(b, n)   == [base |-> b, len |-> n, usable |-> TRUE]
Reserved(b, n) == [base |-> b, len |-> n, usable |-> FALSE]

\* Low memory and the ROM behind it, three machines' memory from 1 MB on, more
\* behind a hole, devices, and memory at, across and behind 4 GB.
Ranges == {Usable(0, 3), Reserved(3, 1), Usable(4, 8), Usable(4, 15), Usable(4, 20),
           Usable(20, 6), Reserved(26, 4), Usable(24, 12), Usable(24, 40), Usable(32, 8)}

Disjoint(S) == \A r, s \in S :
    r # s => Addresses(r.base, r.len) \cap Addresses(s.base, s.len) = {}

\* Up to three of them in any order.
MC_Maps == UNION {SetToSeqs(S) :
              S \in {T \in UNION {kSubset(k, Ranges) : k \in 1 .. 3} : Disjoint(T)}}

MC_Services == [e820 : {"none", "zero", "carry"}, e801 : BOOLEAN, x88 : BOOLEAN]
=============================================================================
