----------------------------- MODULE MCFatLoad -----------------------------
\* FatLoad on a disk of 24 sectors: one reserved, two FATs of three sectors
\* each, two sectors of directory, and five clusters of three sectors.
EXTENDS FatLoad, FiniteSetsExt, SequencesExt

Clusters == 2 .. 6

\* The clusters of a file chained up to an end mark; the others belong to files
\* whose entries are full of digits, or are free.
Chain(file, mark, other) ==
    [c \in 0 .. 6 |->
        IF \E i \in 1 .. Len(file) : file[i] = c
          THEN LET i == CHOOSE j \in 1 .. Len(file) : file[j] = c
               IN  IF i = Len(file) THEN mark ELSE file[i + 1]
          ELSE other]

\* The kernel's entry at position k of the directory, none for 0.
Root(file, k) ==
    [i \in 1 .. 4 |-> IF i = k THEN [name |-> "VMSTUPIDSYS", start |-> file[1]]
                      ELSE [name |-> "OTHER", start |-> 2]]

\* Every file of up to three clusters in any order.
Files == UNION {SetToSeqs(S) : S \in UNION {kSubset(n, Clusters) : n \in 1 .. 3}}

\* The first and the last end mark, at the first and the last entry.
DisksOf(files) ==
    {[file |-> f, fat |-> Chain(f, 4080, other), root |-> Root(f, 1)] :
        f \in files, other \in {0, 2730}}
    \cup {[file |-> f, fat |-> Chain(f, 4095, other), root |-> Root(f, 4)] :
        f \in files, other \in {0, 2730}}

NoKernel == [file |-> <<>>, fat |-> Chain(<<>>, 4095, 0), root |-> Root(<<2>>, 0)]

On(extensions, disks) == [disk : disks, lba : {extensions}]

\* Floppy drives with any file, hard disks with files of one cluster.
MC_Machines == On(FALSE, DisksOf(Files) \cup {NoKernel})
                 \cup On(TRUE, DisksOf({f \in Files : Len(f) = 1}) \cup {NoKernel})

MC_HardDisks == On(TRUE, DisksOf(Files))
=============================================================================
