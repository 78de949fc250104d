--------------------------- MODULE FatLoadProofs ---------------------------
(***************************************************************************)
(* The kernel that is loaded is the file on the disk, for every geometry   *)
(* of the drive and every FAT12 file system, on drives without the disk    *)
(* extensions; with them only for a file of one cluster, since the path by *)
(* logical block puts every cluster where the first one is.                *)
(***************************************************************************)
EXTENDS FatLoad, SequenceTheorems, TLAPS

FatSectors == FatCount * SectorsPerFat

\* Drives with the disk extensions have only kernels of one cluster.
SmallOnHardDisk == \A m \in Machines : m.lba => Len(m.disk.file) <= 1

\* The clusters of the file: how many, the k-th of them, its first sector, and an entry of the FAT.
Clusters == Len(disk.file)
FileCluster(k) == disk.file[k]
Start(k) == (FileCluster(k) - 2) * ClusterSize + RootStart + RootSectors
FatEntry(c) == disk.fat[c]

\* The first n sectors behind s are at the beginning of the buffer.
InBuffer(s, n) == \A i \in 0 .. (n - 1) : mem["buffer"][i] = s + i

\* The first n sectors of the file are where the kernel belongs, unless the disk
\* extensions have put more than one cluster there.
InPlace(n) ==
    (lba => Clusters <= 1) =>
        \A i \in 0 .. (n - 1) : mem["preload"][i] = FileSector(i)

\* So much of a read of n sectors from s on has been done.
Reading(s, n) ==
    /\ es = "buffer" /\ count \in 1 .. n /\ sector = s + n - count /\ bx = n - count
    /\ InBuffer(s, n - count)
    /\ lba => count = n

\* The first k clusters are in place, and the next one is in `cluster'.
Walked(k) ==
    /\ k \in 0 .. (Clusters - 1)
    /\ cluster = FileCluster(k + 1)
    /\ es = "preload" /\ InBuffer(Reserved, FatSectors)

Geometry == geo = [track |-> Track, heads |-> Heads]

\* Where the boot is before it knows the geometry: it reads one sector, and
\* does not look at it.
EarlyOK ==
    /\ pc = "read" => ret # "super"
    /\ pc \in {"super", "bpb", "root"} \/ (pc = "read" /\ ret \in {"bpb", "root"}) =>
          geo = [track |-> DefaultTrack, heads |-> DefaultHeads]
    /\ pc = "read" /\ ret \in {"bpb", "root"} =>
          es = "buffer" /\ bx = 0 /\ count = 1 /\ sector \in {0, 1}

DirectoryOK ==
    /\ pc \in {"search", "fat", "cluster", "next"} \/ (pc = "read" /\ ret \in {"search", "fat", "next"})
          => Geometry
    /\ pc = "read" /\ ret = "search" => Reading(RootStart, RootSectors)
    /\ pc = "search" => es = "buffer" /\ InBuffer(RootStart, RootSectors)
    /\ pc = "read" /\ ret = "fat" => Reading(Reserved, FatSectors)
    /\ pc = "fat" => InBuffer(Reserved, FatSectors)
    /\ pc = "fat" \/ (pc = "read" /\ ret = "fat") => disk.file # <<>> /\ cluster = FileCluster(1)

\* The walk along the chain.
WalkOK ==
    /\ pc = "cluster" =>
          \E k \in 0 .. (Clusters - 1) :
              /\ Walked(k) /\ InPlace(k * ClusterSize)
              /\ bx = IF lba THEN 0 ELSE k * ClusterSize
    /\ pc = "read" /\ ret = "next" =>
          \E k \in 0 .. (Clusters - 1) :
              /\ Walked(k) /\ count \in 1 .. ClusterSize
              /\ sector = Start(k + 1) + ClusterSize - count
              /\ InPlace(k * ClusterSize + ClusterSize - count)
              /\ bx = IF lba THEN 0 ELSE k * ClusterSize + ClusterSize - count
              /\ lba => count = ClusterSize
    /\ pc = "next" =>
          \E k \in 0 .. (Clusters - 1) :
              /\ Walked(k) /\ InPlace((k + 1) * ClusterSize)
              /\ k + 1 < Clusters => bx = IF lba THEN 0 ELSE (k + 1) * ClusterSize

LoadedOK == pc = "loaded" => disk.file # <<>> /\ InPlace(Clusters * ClusterSize)

IInv == TypeOK /\ EarlyOK /\ DirectoryOK /\ WalkOK /\ LoadedOK /\ NotFoundIsTrue

-----------------------------------------------------------------------------
\* Numbers.
LEMMA DivMod ==
    ASSUME NEW n \in Nat, NEW d \in Nat \ {0}
    PROVE  n \div d \in Nat /\ n % d \in 0 .. (d - 1) /\ n = ((n \div d) * d) + (n % d)
    OBVIOUS

\* Products of natural numbers are natural numbers, and grow with their factors.
LEMMA Products ==
    ASSUME NEW a \in Nat, NEW b \in Nat, NEW d \in Nat
    PROVE  a * d \in Nat /\ (a <= b => a * d <= b * d) /\ (a + 1) * d = a * d + d
    OBVIOUS

\* There is one quotient and one remainder.
LEMMA Quotient ==
    ASSUME NEW d \in Nat \ {0}, NEW q \in Nat, NEW r \in 0 .. (d - 1)
    PROVE  (q * d + r) \div d = q /\ (q * d + r) % d = r
    <1> DEFINE p == (q * d + r) \div d
               s == (q * d + r) % d
    <1>1. q * d + r \in Nat
        BY Products
    <1>2. p \in Nat /\ s \in 0 .. (d - 1) /\ q * d + r = p * d + s
        BY <1>1, DivMod
    <1> HIDE DEF p, s
    <1>3. CASE q < p
        <2>1. q * d + d <= p * d
            <3>1. q + 1 <= p /\ q + 1 \in Nat
                BY <1>2, <1>3
            <3> QED BY <1>2, <3>1, Products
        <2>2. q * d \in Nat /\ p * d \in Nat
            BY <1>2, Products
        <2> QED BY <1>2, <2>1, <2>2
    <1>4. CASE p < q
        <2>1. p * d + d <= q * d
            <3>1. p + 1 <= q /\ p + 1 \in Nat
                BY <1>2, <1>4
            <3> QED BY <1>2, <3>1, Products
        <2>2. q * d \in Nat /\ p * d \in Nat
            BY <1>2, Products
        <2> QED BY <1>2, <2>1, <2>2
    <1>5. q = p
        BY <1>2, <1>3, <1>4
    <1>6. r = s
        <2>1. q * d \in Nat
            BY Products
        <2> QED BY <1>2, <1>5, <2>1
    <1> QED BY <1>5, <1>6 DEF p, s

\* A number below a product has its quotient below the other factor.
LEMMA Below ==
    ASSUME NEW n \in Nat, NEW d \in Nat \ {0}, NEW m \in Nat, n < m * d
    PROVE  n \div d \in 0 .. (m - 1) /\ n % d \in 0 .. (d - 1) /\ n = ((n \div d) * d) + (n % d)
    <1>1. n \div d \in Nat /\ n % d \in 0 .. (d - 1) /\ n = ((n \div d) * d) + (n % d)
        BY DivMod
    <1>2. n \div d < m
        <2>1. SUFFICES ASSUME m <= n \div d PROVE FALSE
            BY <1>1
        <2>2. m * d <= (n \div d) * d /\ (n \div d) * d \in Nat
            BY <1>1, <2>1, Products
        <2> QED BY <1>1, <2>2, Products
    <1> QED BY <1>1, <1>2

\* The digits of an entry of the FAT.
LEMMA Digits ==
    ASSUME NEW x \in 0 .. 4095, NEW y \in 0 .. 15
    PROVE  /\ ((x % 16) + 16 * ((x \div 16) % 16) + 256 * ((x \div 256) % 16) + 4096 * y) % 4096 = x
           /\ (y + 16 * (x % 16) + 256 * ((x \div 16) % 16) + 4096 * ((x \div 256) % 16)) \div 16 = x
           /\ x \div 1 = x
    <1>1. (x % 16) + 16 * ((x \div 16) % 16) + 256 * ((x \div 256) % 16) = x
        OBVIOUS
    <1>2. (x + 4096 * y) % 4096 = x /\ (y + 16 * x) \div 16 = x /\ x \div 1 = x
        OBVIOUS
    <1> QED BY <1>1, <1>2

\* The constants.
LEMMA Sizes ==
    /\ Track \in Nat /\ Track >= 2 /\ Heads \in Nat /\ Heads >= 1
    /\ Cylinders \in Nat /\ Cylinders >= 1
    /\ DefaultTrack \in Nat /\ DefaultTrack >= 2 /\ DefaultHeads \in Nat /\ DefaultHeads >= 1
    /\ Segment \in Nat /\ Segment >= 1 /\ ClusterSize \in Nat /\ ClusterSize >= 1
    /\ EntriesPerSector \in Nat /\ EntriesPerSector >= 1
    /\ NibblesPerSector \in Nat /\ NibblesPerSector >= 1
    /\ Reserved \in Nat /\ FatCount \in Nat /\ FatCount >= 1
    /\ SectorsPerFat \in Nat /\ SectorsPerFat >= 1 /\ RootEntries \in Nat
    /\ RootStart \in Nat /\ RootStart = FatSectors + Reserved
    /\ FatSectors \in Nat /\ FatSectors >= SectorsPerFat /\ FatSectors <= Segment
    /\ RootSectors \in Nat /\ RootSectors >= 1 /\ RootSectors <= Segment
    /\ NSectors \in Nat /\ NSectors >= 2 /\ NSectors <= 65536
    /\ RootStart + RootSectors <= NSectors
    <1>1. /\ Track \in Nat /\ Track >= 2 /\ Heads \in Nat \ {0} /\ Cylinders \in Nat \ {0}
          /\ DefaultTrack \in Nat /\ DefaultTrack >= 2 /\ DefaultHeads \in Nat \ {0}
          /\ Segment \in Nat \ {0} /\ ClusterSize \in Nat \ {0} /\ EntriesPerSector \in Nat \ {0}
          /\ NibblesPerSector \in Nat \ {0}
          /\ Reserved \in Nat /\ FatCount \in Nat /\ SectorsPerFat \in Nat /\ RootEntries \in Nat
        BY DiskAssumption
    <1>2. /\ FatSectors \in 1 .. Segment /\ RootSectors \in 1 .. Segment
          /\ NSectors \in Nat /\ NSectors <= 65536 /\ RootStart + RootSectors <= NSectors
        BY DiskAssumption DEF FatSectors
    <1>3. FatCount >= 1 /\ SectorsPerFat >= 1
        <2>1. FatCount = 0 \/ SectorsPerFat = 0 => FatCount * SectorsPerFat = 0
            BY <1>1
        <2> QED BY <1>1, <1>2, <2>1 DEF FatSectors
    <1>4. SectorsPerFat <= FatSectors
        <2>1. 1 * SectorsPerFat <= FatCount * SectorsPerFat
            BY <1>1, <1>3, Products
        <2> QED BY <1>1, <2>1 DEF FatSectors
    <1>5. RootStart = FatSectors + Reserved /\ RootStart \in Nat
        BY <1>1, <1>2 DEF RootStart, FatSectors
    <1>6. /\ Heads >= 1 /\ Cylinders >= 1 /\ DefaultHeads >= 1 /\ Segment >= 1 /\ ClusterSize >= 1
          /\ EntriesPerSector >= 1 /\ NibblesPerSector >= 1
        BY <1>1
    <1>7. /\ FatSectors \in Nat /\ FatSectors <= Segment
          /\ RootSectors \in Nat /\ RootSectors >= 1 /\ RootSectors <= Segment /\ NSectors >= 2
        BY <1>1, <1>2, <1>3, <1>4, <1>5
    <1> QED BY <1>1, <1>2, <1>3, <1>4, <1>5, <1>6, <1>7

LEMMA RootSize == RootSectors * EntriesPerSector = RootEntries
    <1>1. /\ RootEntries \in Nat /\ EntriesPerSector \in Nat \ {0}
          /\ RootEntries % EntriesPerSector = 0
        BY DiskAssumption
    <1>2. RootEntries = ((RootEntries \div EntriesPerSector) * EntriesPerSector)
                          + (RootEntries % EntriesPerSector)
        BY <1>1, DivMod
    <1>3. (RootEntries \div EntriesPerSector) * EntriesPerSector \in Nat
        BY <1>1, DivMod, Products
    <1> QED BY <1>1, <1>2, <1>3 DEF RootSectors

LEMMA DiskSize == NSectors <= Cylinders * Heads * Track
    <1>1. /\ Track \in Nat /\ Heads \in Nat /\ Cylinders \in Nat /\ NSectors \in Nat
          /\ NSectors <= Track * Heads * Cylinders
        BY DiskAssumption
    <1>2. Track * Heads * Cylinders = Cylinders * Heads * Track
        BY <1>1
    <1> QED BY <1>1, <1>2

-----------------------------------------------------------------------------
\* What is known of the file system.
LEMMA DiskIsFat ==
    ASSUME TypeOK
    PROVE  lba \in BOOLEAN /\ FatDisk(disk) /\ (SmallOnHardDisk /\ lba => Len(disk.file) <= 1)
    <1> DEFINE m == [disk |-> disk, lba |-> lba]
    <1>1. m \in Machines /\ m.disk = disk /\ m.lba = lba
        BY DEF TypeOK
    <1> HIDE DEF m
    <1>2. m.lba \in BOOLEAN /\ FatDisk(m.disk)
        BY <1>1, DiskAssumption
    <1>3. SmallOnHardDisk /\ m.lba => Len(m.disk.file) <= 1
        BY <1>1 DEF SmallOnHardDisk
    <1> QED BY <1>1, <1>2, <1>3

LEMMA FatFacts ==
    ASSUME TypeOK, NEW c \in DOMAIN disk.fat
    PROVE  c \in Nat /\ FatEntry(c) \in FatValue
    <1>1. \A e \in DOMAIN disk.fat : e \in Nat /\ disk.fat[e] \in FatValue
        BY DiskIsFat, Zenon DEF FatDisk
    <1> QED BY <1>1, Zenon DEF FatEntry

LEMMA RootFacts ==
    ASSUME TypeOK
    PROVE  /\ DOMAIN disk.root = 1 .. RootEntries
           /\ \A i \in 1 .. RootEntries :
                 disk.root[i].name = "VMSTUPIDSYS" =>
                     disk.file # <<>> /\ disk.root[i].start = FileCluster(1)
    <1>1. /\ DOMAIN disk.root = 1 .. RootEntries
          /\ \A i \in DOMAIN disk.root :
                disk.root[i].name = "VMSTUPIDSYS" =>
                    disk.file # <<>> /\ disk.root[i].start = disk.file[1]
        BY DiskIsFat, Zenon DEF FatDisk
    <1> QED BY <1>1, Zenon DEF FileCluster

LEMMA FileFacts ==
    ASSUME TypeOK
    PROVE  /\ Clusters \in Nat /\ Clusters * ClusterSize <= Segment
           /\ disk.file # <<>> <=> Clusters > 0
           /\ DOMAIN disk.file = 1 .. Clusters
           /\ \A k \in 1 .. Clusters : FileCluster(k) \in 2 .. (LastCluster - 1)
    <1> DEFINE f == disk.file
    <1>1. f \in Seq(2 .. (LastCluster - 1)) /\ Len(f) * ClusterSize <= Segment
        BY DiskIsFat DEF FatDisk
    <1> HIDE DEF f
    <1>4. Len(f) \in Nat /\ DOMAIN f = 1 .. Len(f) /\ (f # <<>> <=> Len(f) > 0)
        BY <1>1, EmptySeq
    <1>5. \A k \in 1 .. Len(f) : f[k] \in 2 .. (LastCluster - 1)
        BY <1>1, ElementOfSeq
    <1> QED BY <1>1, <1>4, <1>5, Zenon DEF FileCluster, Clusters, f

\* A cluster of the file: where it lies, and what follows it.
LEMMA ClusterFacts ==
    ASSUME TypeOK, NEW k \in 1 .. Clusters
    PROVE  /\ FileCluster(k) \in 2 .. 4079 /\ FileCluster(k) \in DOMAIN disk.fat
           /\ 3 * FileCluster(k) + 2 < SectorsPerFat * NibblesPerSector
           /\ Start(k) \in Nat /\ Start(k) + ClusterSize <= NSectors
           /\ k < Clusters => FatEntry(FileCluster(k)) = FileCluster(k + 1)
           /\ k = Clusters => FatEntry(FileCluster(k)) >= LastCluster
           /\ FatEntry(FileCluster(k)) \in FatValue
    <1> DEFINE x == FileCluster(k)
    <1>1. x \in 2 .. 4079
        <2>1. x \in 2 .. (LastCluster - 1)
            BY FileFacts, Zenon
        <2> HIDE DEF x
        <2> QED BY <2>1 DEF LastCluster
    <1>2. /\ x \in DOMAIN disk.fat /\ 3 * x + 2 < SectorsPerFat * NibblesPerSector
          /\ (x - 1) * ClusterSize + RootStart + RootSectors <= NSectors
        <2>1. \A i \in DOMAIN disk.file :
                  /\ disk.file[i] \in DOMAIN disk.fat
                  /\ 3 * disk.file[i] + 2 < SectorsPerFat * NibblesPerSector
                  /\ (disk.file[i] - 1) * ClusterSize + RootStart + RootSectors <= NSectors
            BY DiskIsFat, Zenon DEF FatDisk
        <2>2. k \in DOMAIN disk.file
            BY FileFacts, Zenon
        <2> QED BY <2>1, <2>2, Zenon DEF FileCluster
    <1>3. k < Clusters => FatEntry(x) = FileCluster(k + 1)
        <2>1. \A i \in 1 .. (Clusters - 1) : FatEntry(FileCluster(i)) = FileCluster(i + 1)
            BY DiskIsFat, Zenon DEF FatDisk, Clusters, FatEntry, FileCluster
        <2>2. k < Clusters => k \in 1 .. (Clusters - 1)
            BY FileFacts
        <2> QED BY <2>1, <2>2
    <1>4. k = Clusters => FatEntry(x) >= LastCluster
        <2>1. disk.file # <<>> => disk.fat[disk.file[Clusters]] >= LastCluster
            BY DiskIsFat, Zenon DEF FatDisk, Clusters
        <2>2. k = Clusters => disk.file # <<>>
            BY FileFacts
        <2> QED BY <2>1, <2>2, Zenon DEF FileCluster, FatEntry
    <1>5. FatEntry(x) \in FatValue
        BY <1>2, FatFacts, Zenon
    <1> HIDE DEF x
    <1>6. /\ (x - 2) * ClusterSize + RootStart + RootSectors \in Nat
          /\ ((x - 2) * ClusterSize + RootStart + RootSectors) + ClusterSize <= NSectors
        <2>1. x - 2 \in Nat /\ (x - 2) + 1 = x - 1
            BY <1>1
        <2>2. (x - 2) * ClusterSize \in Nat /\ (x - 1) * ClusterSize = (x - 2) * ClusterSize + ClusterSize
            BY <2>1, Sizes, Products
        <2> QED BY <1>2, <2>2, Sizes
    <1> QED BY <1>1, <1>2, <1>3, <1>4, <1>5, <1>6 DEF x, Start

\* All of the file fits the segment.
LEMMA FileFits ==
    ASSUME TypeOK, NEW k \in 0 .. (Clusters - 1)
    PROVE  /\ k \in Nat /\ k * ClusterSize \in Nat
           /\ (k + 1) * ClusterSize = k * ClusterSize + ClusterSize
           /\ (k + 1) * ClusterSize <= Segment
           /\ k + 1 < Clusters => (k + 1) * ClusterSize < Segment
    <1>1. Clusters \in Nat /\ Clusters * ClusterSize <= Segment
        BY FileFacts
    <1>2. /\ k * ClusterSize \in Nat /\ (k + 1) * ClusterSize = k * ClusterSize + ClusterSize
          /\ k + 1 \in Nat
        BY <1>1, Sizes, Products
    <1>3. (k + 1) * ClusterSize <= Clusters * ClusterSize
        BY <1>1, <1>2, Sizes, Products
    <1>4. ASSUME k + 1 < Clusters PROVE (k + 1) * ClusterSize < Segment
        <2>1. k + 2 \in Nat /\ k + 2 <= Clusters /\ (k + 1) + 1 = k + 2
            BY <1>1, <1>4
        <2>2. (k + 2) * ClusterSize <= Clusters * ClusterSize
            BY <1>1, <2>1, Sizes, Products
        <2>3. (k + 2) * ClusterSize = (k + 1) * ClusterSize + ClusterSize
            BY <1>2, <2>1, Sizes, Products
        <2> QED BY <1>1, <1>2, <2>2, <2>3, Sizes
    <1> QED BY <1>1, <1>2, <1>3, <1>4, Sizes

\* Where the j-th sector of the k-th cluster of the file is.
LEMMA FileSectorIs ==
    ASSUME NEW k \in Nat, NEW j \in 0 .. (ClusterSize - 1)
    PROVE  FileSector(k * ClusterSize + j) = Start(k + 1) + j
    <1>1. /\ (k * ClusterSize + j) \div ClusterSize = k
          /\ (k * ClusterSize + j) % ClusterSize = j
        BY Sizes, Quotient
    <1> QED BY <1>1 DEF FileSector, FileCluster, Start

\* With the geometry of the BPB every sector of the disk is where the drive
\* is asked for it.
LEMMA ChsExact ==
    ASSUME Geometry, sector \in Nat, sector < NSectors
    PROVE  Chs.S <= Track /\ Chs.H < Heads /\ AtChs = sector
    <1> DEFINE a == sector \div Track
               b == a \div Heads
    <1>1. geo.track = Track /\ geo.heads = Heads
        BY DEF Geometry
    <1>a. Track \in Nat \ {0} /\ Heads \in Nat \ {0} /\ Cylinders \in Nat \ {0}
        BY Sizes
    <1>2. sector < Cylinders * Heads * Track
        <2>1. NSectors \in Nat /\ Cylinders * Heads * Track \in Nat
            BY <1>a, Sizes, Products
        <2> QED BY <2>1, DiskSize
    <1>3. Cylinders * Heads \in Nat
        BY Sizes, Products
    <1>4. /\ a \in 0 .. (Cylinders * Heads - 1) /\ sector % Track \in 0 .. (Track - 1)
          /\ sector = (a * Track) + (sector % Track)
        <2>1. sector < (Cylinders * Heads) * Track
            BY <1>2
        <2> QED BY <1>a, <1>3, <2>1, Below
    <1> HIDE DEF a
    <1>5. /\ b \in 0 .. (Cylinders - 1) /\ a % Heads \in 0 .. (Heads - 1)
          /\ a = (b * Heads) + (a % Heads)
        <2>1. a \in Nat /\ a < Cylinders * Heads
            BY <1>3, <1>4
        <2> QED BY <1>a, <2>1, Below
    <1> HIDE DEF b
    <1>6. b % Cylinders = b
        BY <1>5, Sizes
    <1>7. Chs.S = (sector % Track) + 1 /\ Chs.H = a % Heads /\ Chs.C = b
        BY <1>1, <1>6 DEF Chs, a, b
    <1>8. AtChs = (b * Heads + (a % Heads)) * Track + ((sector % Track) + 1) - 1
        BY <1>7 DEF AtChs
    <1> QED BY <1>4, <1>5, <1>7, <1>8, Sizes

-----------------------------------------------------------------------------
\* Once the directory is in the buffer, its entries are those of the disk.
LEMMA EntryIs ==
    ASSUME InBuffer(RootStart, RootSectors), NEW i \in 0 .. (RootEntries - 1)
    PROVE  Entry(i) = disk.root[i + 1]
    <1>1. /\ i \div EntriesPerSector \in 0 .. (RootSectors - 1)
          /\ i = ((i \div EntriesPerSector) * EntriesPerSector) + (i % EntriesPerSector)
        <2>1. RootSectors \in Nat /\ EntriesPerSector \in Nat \ {0} /\ RootEntries \in Nat
            BY Sizes
        <2>2. i \in Nat /\ i < RootSectors * EntriesPerSector
            BY <2>1, RootSize
        <2> QED BY <2>1, <2>2, Below
    <1>2. mem["buffer"][i \div EntriesPerSector] - RootStart = i \div EntriesPerSector
        BY <1>1, Sizes DEF InBuffer
    <1> QED BY <1>1, <1>2 DEF Entry

\* A digit of the FAT is less than 16.
LEMMA NibbleRange ==
    ASSUME TypeOK, NEW i \in Nat
    PROVE  DiskNibble(i) \in 0 .. 15 /\ BufferNibble(i) \in 0 .. 15
    <1>1. ASSUME NEW n \in Nat PROVE DiskNibble(n) \in 0 .. 15
        <2>1. CASE n \div 3 \in DOMAIN disk.fat
            <3> DEFINE x == FatEntry(n \div 3)
                       y == <<1, 16, 256>>[(n % 3) + 1]
            <3>1. x \in FatValue
                BY <2>1, FatFacts
            <3>2. n % 3 \in {0, 1, 2}
                OBVIOUS
            <3>3. y \in {1, 16, 256}
                BY <3>2
            <3>4. DiskNibble(n) = (x \div y) % 16
                BY <2>1, Zenon DEF DiskNibble, FatEntry
            <3> HIDE DEF x, y
            <3>5. (x \div y) % 16 \in 0 .. 15
                BY <3>1, <3>3 DEF FatValue
            <3> QED BY <3>4, <3>5
        <2>2. CASE n \div 3 \notin DOMAIN disk.fat
            BY <2>2 DEF DiskNibble
        <2> QED BY <2>1, <2>2
    <1> DEFINE k == i \div NibblesPerSector
               s == mem["buffer"][k] - Reserved
    <1>2. CASE k < Segment /\ s \in 0 .. (FatSectors - 1)
        <2>1. s % SectorsPerFat \in Nat /\ i % NibblesPerSector \in Nat
            BY <1>2, Sizes, DivMod
        <2>2. (s % SectorsPerFat) * NibblesPerSector + (i % NibblesPerSector) \in Nat
            BY <2>1, Sizes, Products
        <2>3. BufferNibble(i)
              = DiskNibble((s % SectorsPerFat) * NibblesPerSector + (i % NibblesPerSector))
            BY <1>2 DEF BufferNibble, FatSectors
        <2> QED BY <1>1, <2>2, <2>3
    <1>3. CASE ~(k < Segment /\ s \in 0 .. (FatSectors - 1))
        BY <1>1, <1>3 DEF BufferNibble, FatSectors
    <1> QED BY <1>2, <1>3

\* Once the FATs are in the buffer, the digits of the first are those of the disk.
LEMMA NibbleIs ==
    ASSUME InBuffer(Reserved, FatSectors), NEW i \in Nat, i < SectorsPerFat * NibblesPerSector
    PROVE  BufferNibble(i) = DiskNibble(i)
    <1> DEFINE k == i \div NibblesPerSector
    <1>1. /\ k \in 0 .. (SectorsPerFat - 1)
          /\ i = (k * NibblesPerSector) + (i % NibblesPerSector)
        <2>1. SectorsPerFat \in Nat /\ NibblesPerSector \in Nat \ {0}
            BY Sizes
        <2> QED BY <2>1, Below
    <1> HIDE DEF k
    <1>2. k < Segment /\ k \in 0 .. (FatSectors - 1) /\ k % SectorsPerFat = k
        BY <1>1, Sizes
    <1>3. mem["buffer"][k] - Reserved = k
        BY <1>2, Sizes DEF InBuffer
    <1> QED BY <1>1, <1>2, <1>3 DEF BufferNibble, FatSectors, k

\* The three digits of an entry.
LEMMA EntryNibbles ==
    ASSUME TypeOK, InBuffer(Reserved, FatSectors), NEW c \in DOMAIN disk.fat,
           3 * c + 2 < SectorsPerFat * NibblesPerSector
    PROVE  /\ BufferNibble(3 * c) = FatEntry(c) % 16
           /\ BufferNibble(3 * c + 1) = (FatEntry(c) \div 16) % 16
           /\ BufferNibble(3 * c + 2) = (FatEntry(c) \div 256) % 16
    <1>1. c \in Nat /\ FatEntry(c) \in FatValue
        BY FatFacts
    <1>2. SectorsPerFat * NibblesPerSector \in Nat
        BY Sizes, Products
    <1>3. /\ BufferNibble(3 * c) = DiskNibble(3 * c)
          /\ BufferNibble(3 * c + 1) = DiskNibble(3 * c + 1)
          /\ BufferNibble(3 * c + 2) = DiskNibble(3 * c + 2)
        BY <1>1, <1>2, NibbleIs
    <1>4. /\ (3 * c) \div 3 = c /\ (3 * c) % 3 = 0
          /\ (3 * c + 1) \div 3 = c /\ (3 * c + 1) % 3 = 1
          /\ (3 * c + 2) \div 3 = c /\ (3 * c + 2) % 3 = 2
        BY <1>1
    <1>5. \A i \in Nat : i \div 3 = c =>
              DiskNibble(i) = (FatEntry(c) \div <<1, 16, 256>>[(i % 3) + 1]) % 16
        BY Zenon DEF DiskNibble, FatEntry
    <1>6. /\ DiskNibble(3 * c) = (FatEntry(c) \div 1) % 16
          /\ DiskNibble(3 * c + 1) = (FatEntry(c) \div 16) % 16
          /\ DiskNibble(3 * c + 2) = (FatEntry(c) \div 256) % 16
        <2>1. 3 * c \in Nat /\ 3 * c + 1 \in Nat /\ 3 * c + 2 \in Nat
            BY <1>1
        <2> QED BY <1>4, <1>5, <2>1
    <1>7. FatEntry(c) \div 1 = FatEntry(c)
        <2>1. FatEntry(c) \in Nat
            <3>1. FatValue \subseteq Nat
                BY DEF FatValue
            <3> QED BY <1>1, <3>1
        <2>2. \A x \in Nat : x \div 1 = x
            OBVIOUS
        <2> QED BY <2>1, <2>2
    <1> QED BY <1>3, <1>6, <1>7

\* The successor of a cluster in the buffer is its entry of the FAT.
LEMMA SuccessorIsEntry ==
    ASSUME TypeOK, InBuffer(Reserved, FatSectors), NEW c \in DOMAIN disk.fat, c \in Nat \ {0},
           3 * c + 2 < SectorsPerFat * NibblesPerSector
    PROVE  Successor(c) = FatEntry(c)
    <1> DEFINE f == FatEntry(c)
    <1>1. f \in FatValue
        BY FatFacts
    <1>2. /\ BufferNibble(3 * c) = f % 16
          /\ BufferNibble(3 * c + 1) = (f \div 16) % 16
          /\ BufferNibble(3 * c + 2) = (f \div 256) % 16
        BY EntryNibbles
    <1> HIDE DEF f
    <1>3. CASE c % 2 = 0
        <2>1. 2 * (c + (c \div 2)) = 3 * c
            BY <1>3
        <2>2. BufferNibble(3 * c + 3) \in 0 .. 15
            <3>1. 3 * c + 3 \in Nat
                OBVIOUS
            <3> QED BY <3>1, NibbleRange
        <2>3. Word(c + (c \div 2)) = (f % 16) + 16 * ((f \div 16) % 16) + 256 * ((f \div 256) % 16)
                                     + 4096 * BufferNibble(3 * c + 3)
            BY <1>2, <2>1 DEF Word
        <2>4. Successor(c) = Word(c + (c \div 2)) % 4096
            BY <1>3 DEF Successor
        <2> DEFINE y == BufferNibble(3 * c + 3)
        <2> HIDE DEF y
        <2>5. y \in 0 .. 15 /\ f \in 0 .. 4095
            BY <1>1, <2>2 DEF y, FatValue
        <2>6. ((f % 16) + 16 * ((f \div 16) % 16) + 256 * ((f \div 256) % 16) + 4096 * y) % 4096 = f
            BY <2>5, Digits
        <2>7. Word(c + (c \div 2)) % 4096 = f
            BY <2>3, <2>6 DEF y
        <2> QED BY <2>4, <2>7 DEF f
    <1>4. CASE c % 2 # 0
        <2>1. /\ 2 * (c + (c \div 2)) = 3 * c - 1 /\ 3 * c - 1 \in Nat
              /\ (3 * c - 1) + 1 = 3 * c /\ (3 * c - 1) + 2 = 3 * c + 1
              /\ (3 * c - 1) + 3 = 3 * c + 2
            BY <1>4
        <2>2. BufferNibble(3 * c - 1) \in 0 .. 15
            BY <2>1, NibbleRange
        <2>3. Word(c + (c \div 2)) = BufferNibble(3 * c - 1) + 16 * (f % 16)
                                     + 256 * ((f \div 16) % 16) + 4096 * ((f \div 256) % 16)
            BY <1>2, <2>1 DEF Word
        <2>4. Successor(c) = Word(c + (c \div 2)) \div 16
            BY <1>4 DEF Successor
        <2> DEFINE y == BufferNibble(3 * c - 1)
        <2> HIDE DEF y
        <2>5. y \in 0 .. 15 /\ f \in 0 .. 4095
            BY <1>1, <2>2 DEF y, FatValue
        <2>6. (y + 16 * (f % 16) + 256 * ((f \div 16) % 16) + 4096 * ((f \div 256) % 16)) \div 16 = f
            BY <2>5, Digits
        <2>7. Word(c + (c \div 2)) \div 16 = f
            BY <2>3, <2>6 DEF y
        <2> QED BY <2>4, <2>7 DEF f
    <1> QED BY <1>3, <1>4

-----------------------------------------------------------------------------
\* The file system stays as it is.
LEMMA Static ==
    ASSUME disk' = disk, lba' = lba
    PROVE  /\ Clusters' = Clusters
           /\ \A k : FileCluster(k)' = FileCluster(k) /\ Start(k)' = Start(k)
           /\ \A i : FileSector(i)' = FileSector(i)
    BY DEF Clusters, FileCluster, Start, FileSector

\* Memory that no one writes keeps what it has.
LEMMA SameMemory ==
    ASSUME disk' = disk, lba' = lba, mem' = mem
    PROVE  /\ \A s, n : InBuffer(s, n)' <=> InBuffer(s, n)
           /\ \A n : InPlace(n)' <=> InPlace(n)
    BY Static DEF InBuffer, InPlace

\* The state at a read.
LEMMA ReadFacts ==
    ASSUME IInv, pc = "read"
    PROVE  /\ ret \in {"bpb", "root", "search", "fat", "next"}
           /\ sector \in Nat /\ count \in 1 .. Segment /\ sector + count <= NSectors
           /\ bx \in Nat /\ bx + count <= Segment
           /\ AtChs = sector /\ OnDisk
    <1>0. TypeOK /\ EarlyOK /\ DirectoryOK /\ WalkOK
        BY DEF IInv
    <1>1. ret \in {"bpb", "root", "search", "fat", "next"}
        BY <1>0 DEF TypeOK, EarlyOK
    <1>2. CASE ret \in {"bpb", "root"}
        <2>1. /\ geo = [track |-> DefaultTrack, heads |-> DefaultHeads]
              /\ bx = 0 /\ count = 1 /\ sector \in {0, 1}
            BY <1>0, <1>2 DEF EarlyOK
        <2>2. /\ DefaultTrack \in Nat \ {0, 1} /\ DefaultHeads \in Nat \ {0}
              /\ Track \in Nat \ {0, 1} /\ Heads \in Nat \ {0} /\ Cylinders \in Nat \ {0}
              /\ Segment \in Nat \ {0} /\ NSectors \in Nat /\ NSectors >= 2
            BY Sizes
        <2>3. /\ sector \div DefaultTrack = 0 /\ sector % DefaultTrack = sector
              /\ 0 \div DefaultHeads = 0 /\ 0 % DefaultHeads = 0 /\ 0 % Cylinders = 0
            BY <2>1, <2>2
        <2>4. Chs.S = sector + 1 /\ Chs.H = 0 /\ Chs.C = 0
            BY <2>1, <2>3 DEF Chs
        <2>5. AtChs = sector
            BY <2>1, <2>2, <2>4 DEF AtChs
        <2>6. OnDisk
            BY <2>1, <2>2, <2>4, <2>5 DEF OnDisk
        <2> QED BY <1>1, <2>1, <2>2, <2>5, <2>6
    <1>3. ASSUME ret \in {"search", "fat", "next"}
          PROVE  /\ sector \in Nat /\ count \in 1 .. Segment /\ sector + count <= NSectors
                 /\ bx \in Nat /\ bx + count <= Segment
        <2>1. CASE ret = "search"
            BY <1>0, <2>1, Sizes DEF DirectoryOK, Reading
        <2>2. CASE ret = "fat"
            BY <1>0, <2>2, Sizes DEF DirectoryOK, Reading
        <2>3. CASE ret = "next"
            <3>1. PICK k \in 0 .. (Clusters - 1) :
                      /\ count \in 1 .. ClusterSize /\ sector = Start(k + 1) + ClusterSize - count
                      /\ bx = IF lba THEN 0 ELSE k * ClusterSize + ClusterSize - count
                BY <1>0, <2>3 DEF WalkOK
            <3>2. /\ Start(k + 1) \in Nat /\ Start(k + 1) + ClusterSize <= NSectors
                <4>1. k + 1 \in 1 .. Clusters
                    BY <1>0, FileFacts
                <4> QED BY <1>0, <4>1, ClusterFacts
            <3>3. k * ClusterSize \in Nat /\ k * ClusterSize + ClusterSize <= Segment
                BY <1>0, FileFits, Zenon
            <3>4. ClusterSize \in Nat /\ NSectors \in Nat /\ Segment \in Nat
                BY Sizes
            <3> QED BY <3>1, <3>2, <3>3, <3>4
        <2> QED BY <1>3, <2>1, <2>2, <2>3
    <1>4. CASE ret \in {"search", "fat", "next"}
        <2>1. Geometry
            BY <1>0, <1>4 DEF DirectoryOK
        <2>2. sector < NSectors
            BY <1>3, <1>4, Sizes
        <2>3. Chs.S <= Track /\ Chs.H < Heads /\ AtChs = sector
            BY <1>3, <1>4, <2>1, <2>2, ChsExact
        <2> QED BY <1>1, <1>3, <1>4, <2>2, <2>3 DEF OnDisk
    <1> QED BY <1>1, <1>2, <1>4

-----------------------------------------------------------------------------
LEMMA InitInv ==
    ASSUME Init
    PROVE  IInv
    <1>1. TypeOK
        <2>1. PICK m \in Machines : disk = m.disk /\ lba = m.lba
            BY DEF Init
        <2>2. [disk |-> disk, lba |-> lba] = m
            <3>1. m = [disk |-> m.disk, lba |-> m.lba]
                BY DiskAssumption
            <3> QED BY <2>1, <3>1, Zenon
        <2>3. /\ DefaultTrack \in Nat /\ DefaultHeads \in Nat /\ NSectors \in Nat /\ Segment \in Nat \ {0}
            BY Sizes
        <2>4. mem \in [{"buffer", "preload"} -> [0 .. (Segment - 1) -> 0 .. (NSectors - 1) \cup {Nothing}]]
            BY DEF Init
        <2> QED BY <2>2, <2>3, <2>4 DEF Init, TypeOK, FatValue
    <1>2. pc = "super" /\ geo = [track |-> DefaultTrack, heads |-> DefaultHeads]
        BY DEF Init
    <1> QED BY <1>1, <1>2 DEF IInv, EarlyOK, DirectoryOK, WalkOK, LoadedOK, NotFoundIsTrue

\* Steps of the boot that read one sector, and do not look at it.
LEMMA ReadSuperInv ==
    ASSUME IInv, ReadSuper \/ ReadBpb
    PROVE  IInv'
    <1>0. TypeOK /\ geo = [track |-> DefaultTrack, heads |-> DefaultHeads]
        BY DEF IInv, EarlyOK, ReadSuper, ReadBpb
    <1>1. /\ pc' = "read" /\ ret' \in {"bpb", "root"} /\ sector' \in {0, 1} /\ count' = 1
          /\ es' = "buffer" /\ bx' = 0 /\ UNCHANGED <<disk, lba, geo, mem, cluster>>
        BY DEF ReadSuper, ReadBpb, Read
    <1>2. TypeOK'
        BY <1>0, <1>1, Sizes DEF TypeOK
    <1> QED BY <1>0, <1>1, <1>2 DEF IInv, EarlyOK, DirectoryOK, WalkOK, LoadedOK, NotFoundIsTrue

LEMMA LoadRootInv ==
    ASSUME IInv, LoadRoot
    PROVE  IInv'
    <1>0. TypeOK
        BY DEF IInv
    <1>1. /\ pc' = "read" /\ ret' = "search" /\ sector' = RootStart /\ count' = RootSectors
          /\ es' = "buffer" /\ bx' = 0 /\ geo' = [track |-> Track, heads |-> Heads]
          /\ UNCHANGED <<disk, lba, mem, cluster>>
        BY DEF LoadRoot, Read
    <1>2. /\ RootSectors \in 1 .. Segment /\ Segment \in Nat /\ RootStart \in Nat
          /\ NSectors \in Nat /\ RootStart + RootSectors <= NSectors
          /\ Track \in Nat /\ Heads \in Nat
        BY Sizes
    <1>3. TypeOK'
        BY <1>0, <1>1, <1>2 DEF TypeOK
    <1>4. Reading(RootStart, RootSectors)'
        BY <1>1, <1>2 DEF Reading, InBuffer
    <1>5. Geometry'
        BY <1>1 DEF Geometry
    <1> QED BY <1>1, <1>3, <1>4, <1>5
            DEF IInv, EarlyOK, DirectoryOK, WalkOK, LoadedOK, NotFoundIsTrue

LEMMA SearchRootInv ==
    ASSUME IInv, SearchRoot
    PROVE  IInv'
    <1>0. /\ TypeOK /\ pc = "search" /\ Geometry
          /\ es = "buffer" /\ InBuffer(RootStart, RootSectors)
        BY DEF IInv, DirectoryOK, SearchRoot
    <1>1. PICK i \in Matches : cluster' = Entry(i).start
        BY DEF SearchRoot
    <1>2. /\ pc' = "read" /\ ret' = "fat" /\ sector' = Reserved /\ count' = FatSectors
          /\ bx' = 0 /\ UNCHANGED <<disk, lba, geo, mem, es>>
        BY DEF SearchRoot, Read, FatSectors
    <1>3. disk.file # <<>> /\ cluster' = FileCluster(1)
        <2>1. i \in 0 .. (RootEntries - 1) /\ Entry(i).name = "VMSTUPIDSYS"
            BY DEF Matches
        <2>2. Entry(i) = disk.root[i + 1]
            BY <1>0, <2>1, EntryIs
        <2>3. i + 1 \in 1 .. RootEntries
            BY <2>1, Sizes
        <2> QED BY <1>0, <1>1, <2>1, <2>2, <2>3, RootFacts
    <1>4. cluster' \in FatValue
        <2>1. 1 \in 1 .. Clusters
            BY <1>0, <1>3, FileFacts
        <2>2. FileCluster(1) \in 2 .. (LastCluster - 1)
            BY <1>0, <2>1, FileFacts
        <2>3. cluster' \in 2 .. (LastCluster - 1)
            BY <1>3, <2>2
        <2> QED BY <2>3 DEF FatValue, LastCluster
    <1>5. /\ FatSectors \in 1 .. Segment /\ Segment \in Nat /\ Reserved \in Nat
          /\ NSectors \in Nat /\ Reserved + FatSectors <= NSectors
        BY Sizes
    <1>6. TypeOK'
        BY <1>0, <1>2, <1>4, <1>5 DEF TypeOK
    <1>7. Reading(Reserved, FatSectors)'
        BY <1>0, <1>2, <1>5 DEF Reading, InBuffer
    <1>8. Geometry' /\ disk'.file # <<>> /\ cluster' = FileCluster(1)'
        BY <1>0, <1>2, <1>3, Static DEF Geometry
    <1> QED BY <1>2, <1>6, <1>7, <1>8
            DEF IInv, EarlyOK, DirectoryOK, WalkOK, LoadedOK, NotFoundIsTrue

LEMMA NotFoundInv ==
    ASSUME IInv, NotFound
    PROVE  IInv'
    <1>0. TypeOK /\ InBuffer(RootStart, RootSectors)
        BY DEF IInv, DirectoryOK, NotFound
    <1>1. /\ Matches = {} /\ pc' = "not_found"
          /\ UNCHANGED <<disk, lba, geo, mem, es, bx, sector, count, ret, cluster>>
        BY DEF NotFound
    <1>2. TypeOK'
        BY <1>0, <1>1 DEF TypeOK
    <1>3. ASSUME NEW i \in DOMAIN disk.root PROVE disk.root[i].name # "VMSTUPIDSYS"
        <2>1. i \in 1 .. RootEntries
            BY <1>0, RootFacts, Zenon
        <2>2. i - 1 \in 0 .. (RootEntries - 1) /\ (i - 1) + 1 = i
            BY <2>1, Sizes
        <2>3. Entry(i - 1) = disk.root[(i - 1) + 1]
            BY <1>0, <2>2, EntryIs
        <2>4. Entry(i - 1).name # "VMSTUPIDSYS"
            BY <1>1, <2>2 DEF Matches
        <2> QED BY <2>2, <2>3, <2>4, Zenon
    <1>4. NotFoundIsTrue'
        BY <1>1, <1>3 DEF NotFoundIsTrue
    <1> QED BY <1>1, <1>2, <1>4 DEF IInv, EarlyOK, DirectoryOK, WalkOK, LoadedOK

LEMMA LoadKernelInv ==
    ASSUME IInv, LoadKernel
    PROVE  IInv'
    <1>0. /\ TypeOK /\ Geometry /\ InBuffer(Reserved, FatSectors)
          /\ disk.file # <<>> /\ cluster = FileCluster(1)
        BY DEF IInv, DirectoryOK, LoadKernel
    <1>1. /\ pc' = "cluster" /\ es' = "preload" /\ bx' = 0
          /\ UNCHANGED <<disk, lba, geo, mem, sector, count, ret, cluster>>
        BY DEF LoadKernel
    <1>2. TypeOK'
        BY <1>0, <1>1, Sizes DEF TypeOK
    <1>3. 0 \in 0 .. (Clusters' - 1) /\ 0 * ClusterSize = 0 /\ 0 + 1 = 1
        BY <1>0, <1>1, FileFacts, Static, Sizes
    <1>4. Walked(0)'
        BY <1>0, <1>1, <1>3, Static, SameMemory DEF Walked
    <1>5. InPlace(0)'
        BY DEF InPlace
    <1>6. WalkOK'
        BY <1>1, <1>3, <1>4, <1>5 DEF WalkOK
    <1>7. Geometry'
        BY <1>0, <1>1 DEF Geometry
    <1> QED BY <1>1, <1>2, <1>6, <1>7 DEF IInv, EarlyOK, DirectoryOK, LoadedOK, NotFoundIsTrue

LEMMA LoadClusterInv ==
    ASSUME IInv, LoadCluster
    PROVE  IInv'
    <1>0. TypeOK /\ Geometry
        BY DEF IInv, DirectoryOK, LoadCluster
    <1>1. /\ sector' = ((cluster - 2) * ClusterSize + RootStart + RootSectors) % 65536
          /\ pc' = "read" /\ ret' = "next" /\ count' = ClusterSize
          /\ UNCHANGED <<disk, lba, geo, mem, es, bx, cluster>>
        BY DEF LoadCluster, Read
    <1>2. PICK k \in 0 .. (Clusters - 1) :
              /\ Walked(k) /\ InPlace(k * ClusterSize)
              /\ bx = IF lba THEN 0 ELSE k * ClusterSize
        BY DEF IInv, WalkOK, LoadCluster
    <1>3. Start(k + 1) \in Nat /\ Start(k + 1) + ClusterSize <= NSectors
        <2>1. k + 1 \in 1 .. Clusters
            BY <1>0, FileFacts
        <2> QED BY <1>0, <2>1, ClusterFacts
    <1>4. ClusterSize \in Nat \ {0} /\ NSectors \in Nat /\ NSectors <= 65536 /\ Segment \in Nat
        BY Sizes
    <1>5. sector' = Start(k + 1)
        <2>1. sector' = Start(k + 1) % 65536
            BY <1>1, <1>2 DEF Walked, Start
        <2> QED BY <1>3, <1>4, <2>1
    <1>6. k * ClusterSize \in Nat /\ k * ClusterSize + ClusterSize <= Segment
        BY <1>0, FileFits, Zenon
    <1>7. TypeOK'
        <2>1. sector' \in 0 .. NSectors /\ count' \in 0 .. Segment
            BY <1>1, <1>3, <1>4, <1>5, <1>6
        <2> QED BY <1>0, <1>1, <2>1 DEF TypeOK
    <1>8. WalkOK'
        <2>1. k \in 0 .. (Clusters' - 1) /\ Walked(k)'
            BY <1>1, <1>2, Static, SameMemory DEF Walked
        <2>2. count' \in 1 .. ClusterSize /\ sector' = Start(k + 1)' + ClusterSize - count'
            BY <1>1, <1>3, <1>4, <1>5, Static
        <2>3. k * ClusterSize + ClusterSize - count' = k * ClusterSize
            BY <1>1, <1>4, <1>6
        <2>4. InPlace(k * ClusterSize)'
            BY <1>1, <1>2, SameMemory
        <2>5. InPlace(k * ClusterSize + ClusterSize - count)'
            BY <2>3, <2>4 DEF InPlace
        <2>6. bx' = IF lba' THEN 0 ELSE k * ClusterSize + ClusterSize - count'
            BY <1>1, <1>2, <2>3
        <2> QED BY <1>1, <2>1, <2>2, <2>5, <2>6 DEF WalkOK
    <1>9. Geometry'
        BY <1>0, <1>1 DEF Geometry
    <1> QED BY <1>1, <1>7, <1>8, <1>9 DEF IInv, EarlyOK, DirectoryOK, LoadedOK, NotFoundIsTrue

LEMMA NextClusterInv ==
    ASSUME IInv, NextCluster
    PROVE  IInv'
    <1>0. TypeOK /\ Geometry
        BY DEF IInv, DirectoryOK, NextCluster
    <1>1. /\ cluster' = Successor(cluster)
          /\ pc' = IF cluster' < LastCluster THEN "cluster" ELSE "loaded"
          /\ UNCHANGED <<disk, lba, geo, mem, es, bx, sector, count, ret>>
        BY DEF NextCluster
    <1>2. PICK k \in 0 .. (Clusters - 1) :
              /\ Walked(k) /\ InPlace((k + 1) * ClusterSize)
              /\ k + 1 < Clusters => bx = IF lba THEN 0 ELSE (k + 1) * ClusterSize
        BY DEF IInv, WalkOK, NextCluster
    <1>3. k + 1 \in 1 .. Clusters /\ Clusters \in Nat
        BY <1>0, FileFacts
    <1> DEFINE x == FileCluster(k + 1)
    <1>4. /\ x \in 2 .. 4079 /\ x \in DOMAIN disk.fat
          /\ 3 * x + 2 < SectorsPerFat * NibblesPerSector
          /\ k + 1 < Clusters => FatEntry(x) = FileCluster((k + 1) + 1)
          /\ k + 1 = Clusters => FatEntry(x) >= LastCluster
          /\ FatEntry(x) \in FatValue
        BY <1>0, <1>3, ClusterFacts
    <1>5. cluster = x /\ InBuffer(Reserved, FatSectors) /\ es = "preload"
        BY <1>2 DEF Walked
    <1> HIDE DEF x
    <1>6. cluster' = FatEntry(x)
        <2>1. x \in Nat \ {0}
            BY <1>4
        <2> QED BY <1>0, <1>1, <1>4, <1>5, <2>1, SuccessorIsEntry
    <1>7. TypeOK'
        BY <1>0, <1>1, <1>4, <1>6 DEF TypeOK
    <1>8. CASE k + 1 < Clusters
        <2>1. k + 1 \in 0 .. (Clusters - 1) /\ (k + 1) + 1 \in 1 .. Clusters
            BY <1>3, <1>8
        <2>2. cluster' = FileCluster((k + 1) + 1)
            BY <1>4, <1>6, <1>8
        <2>3. cluster' < LastCluster
            <3>1. cluster' \in 2 .. (LastCluster - 1)
                BY <1>0, <2>1, <2>2, FileFacts
            <3> QED BY <3>1 DEF LastCluster
        <2>4. pc' = "cluster"
            BY <1>1, <2>3
        <2>5. k + 1 \in 0 .. (Clusters' - 1) /\ Walked(k + 1)'
            BY <1>1, <1>5, <2>1, <2>2, Static, SameMemory DEF Walked
        <2>6. InPlace((k + 1) * ClusterSize)'
            BY <1>1, <1>2, SameMemory
        <2>7. bx' = IF lba' THEN 0 ELSE (k + 1) * ClusterSize
            BY <1>1, <1>2, <1>8
        <2>8. WalkOK'
            BY <2>4, <2>5, <2>6, <2>7 DEF WalkOK
        <2>9. Geometry'
            BY <1>0, <1>1 DEF Geometry
        <2> QED BY <1>7, <2>4, <2>8, <2>9 DEF IInv, EarlyOK, DirectoryOK, LoadedOK, NotFoundIsTrue
    <1>9. CASE k + 1 = Clusters
        <2>1. ~(cluster' < LastCluster)
            <3>1. cluster' \in FatValue /\ cluster' >= LastCluster
                BY <1>4, <1>6, <1>9
            <3> QED BY <3>1 DEF FatValue, LastCluster
        <2>2. pc' = "loaded"
            BY <1>1, <2>1
        <2>3. InPlace(Clusters * ClusterSize)'
            <3>1. InPlace(Clusters * ClusterSize)
                BY <1>2, <1>9
            <3>2. Clusters' = Clusters
                BY <1>1, Static
            <3> QED BY <1>1, <3>1, <3>2, Static DEF InPlace
        <2>4. disk'.file # <<>>
            BY <1>0, <1>1, <1>3, FileFacts
        <2>5. LoadedOK'
            BY <2>3, <2>4 DEF LoadedOK
        <2> QED BY <1>7, <2>2, <2>5 DEF IInv, EarlyOK, DirectoryOK, WalkOK, NotFoundIsTrue
    <1> QED BY <1>3, <1>8, <1>9

-----------------------------------------------------------------------------
\* One sector by cylinder, head and sector.
LEMMA ReadSectorTypes ==
    ASSUME IInv, ReadSector
    PROVE  /\ TypeOK' /\ pc' = (IF count = 1 THEN ret ELSE "read")
           /\ sector' = sector + 1 /\ count' = count - 1
           /\ bx' = (bx + 1) % Segment /\ (bx + 1 < Segment => bx' = bx + 1)
           /\ \A s \in {"buffer", "preload"} : \A i \in 0 .. (Segment - 1) :
                 mem'[s][i] = IF s = es /\ i = bx THEN sector ELSE mem[s][i]
           /\ UNCHANGED <<disk, lba, geo, es, ret, cluster>> /\ ~lba
    <1>0. TypeOK
        BY DEF IInv
    <1>1. /\ pc = "read" /\ ~lba
          /\ mem' = [mem EXCEPT ![es][bx] = AtChs]
          /\ bx' = (bx + 1) % Segment /\ sector' = sector + 1 /\ count' = count - 1
          /\ pc' = IF count = 1 THEN ret ELSE pc
          /\ UNCHANGED <<disk, lba, geo, es, ret, cluster>>
        BY DEF ReadSector
    <1>2. /\ ret \in {"bpb", "root", "search", "fat", "next"}
          /\ sector \in Nat /\ count \in 1 .. Segment /\ sector + count <= NSectors
          /\ bx \in Nat /\ bx + count <= Segment /\ AtChs = sector
        BY <1>1, ReadFacts
    <1>3. Segment \in Nat \ {0} /\ NSectors \in Nat
        BY Sizes
    <1>4. /\ mem \in [{"buffer", "preload"} -> [0 .. (Segment - 1) -> 0 .. (NSectors - 1) \cup {Nothing}]]
          /\ es \in {"buffer", "preload"} /\ bx \in 0 .. (Segment - 1)
        BY <1>0 DEF TypeOK
    <1>5. sector \in 0 .. (NSectors - 1)
        BY <1>2, <1>3
    <1>6. mem' = [mem EXCEPT ![es][bx] = sector]
        BY <1>1, <1>2
    <1>7. mem' \in [{"buffer", "preload"} -> [0 .. (Segment - 1) -> 0 .. (NSectors - 1) \cup {Nothing}]]
        BY <1>4, <1>5, <1>6
    <1>8. \A s \in {"buffer", "preload"} : \A i \in 0 .. (Segment - 1) :
              mem'[s][i] = IF s = es /\ i = bx THEN sector ELSE mem[s][i]
        BY <1>4, <1>6
    <1>9. bx' \in 0 .. (Segment - 1) /\ (bx + 1 < Segment => bx' = bx + 1)
        BY <1>1, <1>2, <1>3
    <1>10. TypeOK'
        <2>1. sector' \in 0 .. NSectors /\ count' \in 0 .. Segment
            BY <1>1, <1>2, <1>3
        <2>2. pc' \in {"super", "bpb", "root", "search", "fat", "cluster", "next", "read",
                       "loaded", "not_found", "lost"}
            BY <1>1, <1>2
        <2> QED BY <1>0, <1>1, <1>7, <1>9, <2>1, <2>2 DEF TypeOK
    <1> QED BY <1>1, <1>8, <1>9, <1>10

\* A table of n sectors from s on, read to the beginning of the buffer.
LEMMA ReadSectorTable ==
    ASSUME IInv, ReadSector, NEW s \in Nat, NEW n \in 1 .. Segment, Reading(s, n)
    PROVE  /\ count = 1 => es' = "buffer" /\ InBuffer(s, n)'
           /\ count # 1 => Reading(s, n)'
    <1>1. /\ es = "buffer" /\ count \in 1 .. n /\ sector = s + n - count /\ bx = n - count
          /\ InBuffer(s, n - count)
        BY DEF Reading
    <1>2. Segment \in Nat \ {0}
        BY Sizes
    <1>4. ASSUME NEW i \in 0 .. (n - count) PROVE mem'["buffer"][i] = s + i
        <2>1. mem'["buffer"][i] = IF i = bx THEN sector ELSE mem["buffer"][i]
            <3>1. i \in 0 .. (Segment - 1)
                BY <1>1, <1>2, <1>4
            <3> QED BY <1>1, <3>1, ReadSectorTypes
        <2>2. CASE i = bx
            BY <1>1, <2>1, <2>2
        <2>3. CASE i # bx
            <3>1. i \in 0 .. ((n - count) - 1)
                BY <1>1, <1>4, <2>3
            <3> QED BY <1>1, <2>1, <2>3, <3>1 DEF InBuffer
        <2> QED BY <2>2, <2>3
    <1>5. CASE count = 1
        <2>1. \A i \in 0 .. (n - 1) : i \in 0 .. (n - count)
            BY <1>5
        <2> QED BY <1>1, <1>4, <1>5, <2>1, ReadSectorTypes DEF InBuffer
    <1>6. CASE count # 1
        <2>1. /\ sector' = sector + 1 /\ count' = count - 1 /\ es' = es /\ ~lba /\ lba' = lba
              /\ (bx + 1 < Segment => bx' = bx + 1)
            BY ReadSectorTypes
        <2>2. /\ es' = "buffer" /\ count' \in 1 .. n /\ sector' = s + n - count' /\ bx' = n - count'
            BY <1>1, <1>2, <1>6, <2>1
        <2>3. \A i \in 0 .. (n - count' - 1) : i \in 0 .. (n - count)
            BY <1>1, <2>1
        <2>4. InBuffer(s, n - count)'
            BY <1>4, <2>3 DEF InBuffer
        <2> QED BY <2>1, <2>2, <2>4 DEF Reading
    <1> QED BY <1>5, <1>6

\* One more sector of the file.
LEMMA ReadSectorWalk ==
    ASSUME IInv, ReadSector, ret = "next"
    PROVE  WalkOK'
    <1>0. TypeOK
        BY DEF IInv
    <1>1. PICK k \in 0 .. (Clusters - 1) :
              /\ Walked(k) /\ count \in 1 .. ClusterSize
              /\ sector = Start(k + 1) + ClusterSize - count
              /\ InPlace(k * ClusterSize + ClusterSize - count)
              /\ bx = IF lba THEN 0 ELSE k * ClusterSize + ClusterSize - count
        BY DEF IInv, WalkOK, ReadSector
    <1>2. /\ sector' = sector + 1 /\ count' = count - 1 /\ ~lba
          /\ (bx + 1 < Segment => bx' = bx + 1)
          /\ UNCHANGED <<disk, lba, es, ret, cluster>>
          /\ pc' = IF count = 1 THEN "next" ELSE "read"
        BY ReadSectorTypes
    <1>3. ClusterSize \in Nat \ {0} /\ Segment \in Nat
        BY Sizes
    <1> DEFINE p == k * ClusterSize
    <1>4. /\ p \in Nat /\ k \in Nat /\ (k + 1) * ClusterSize = p + ClusterSize
          /\ p + ClusterSize <= Segment
          /\ k + 1 < Clusters => p + ClusterSize < Segment
        BY <1>0, FileFits
    <1>a. PICK j \in 0 .. (ClusterSize - 1) : j = ClusterSize - count
        BY <1>1, <1>3
    <1>5. j \in 0 .. (ClusterSize - 1) /\ bx = p + j /\ Start(k + 1) \in Nat
        <2>1. k + 1 \in 1 .. Clusters
            BY <1>0, FileFacts
        <2>2. Start(k + 1) \in Nat
            BY <1>0, <2>1, ClusterFacts
        <2> QED BY <1>1, <1>2, <1>3, <1>4, <1>a, <2>2
    <1>6. sector = FileSector(p + j)
        <2>1. FileSector(p + j) = Start(k + 1) + j
            BY <1>4, <1>5, FileSectorIs
        <2>2. sector = Start(k + 1) + j
            BY <1>1, <1>3, <1>5, <1>a
        <2> QED BY <2>1, <2>2
    <1>7. es = "preload" /\ cluster = FileCluster(k + 1) /\ InBuffer(Reserved, FatSectors)
        BY <1>1 DEF Walked
    <1>8. InPlace(p + j)
        <2>1. p + j = k * ClusterSize + ClusterSize - count
            BY <1>1, <1>3, <1>4, <1>a
        <2> QED BY <1>1, <2>1
    <1> HIDE DEF p
    <1>9. Walked(k)'
        <2>1. ASSUME NEW i \in 0 .. (FatSectors - 1) PROVE mem'["buffer"][i] = Reserved + i
            <3>1. i \in 0 .. (Segment - 1)
                BY Sizes
            <3>2. mem'["buffer"][i] = mem["buffer"][i]
                BY <1>7, <3>1, ReadSectorTypes
            <3> QED BY <1>7, <3>2 DEF InBuffer
        <2>2. InBuffer(Reserved, FatSectors)'
            BY <2>1 DEF InBuffer
        <2> QED BY <1>2, <1>7, <2>2, Static DEF Walked
    <1>10. InPlace(p + j + 1)'
        <2>1. SUFFICES ASSUME lba => Clusters <= 1, NEW i \in 0 .. (p + j) PROVE mem'["preload"][i] = FileSector(i)
            <3>1. \A i \in 0 .. ((p + j + 1) - 1) : i \in 0 .. (p + j)
                BY <1>4, <1>5
            <3>2. /\ (lba' => Clusters' <= 1) => (lba => Clusters <= 1)
                  /\ \A i : FileSector(i)' = FileSector(i)
                BY <1>2, Static
            <3> QED BY <2>1, <3>1, <3>2 DEF InPlace
        <2>2. mem'["preload"][i] = IF i = bx THEN sector ELSE mem["preload"][i]
            <3>1. i \in 0 .. (Segment - 1)
                BY <1>3, <1>4, <1>5
            <3> QED BY <1>7, <3>1, ReadSectorTypes
        <2>3. CASE i = bx
            BY <1>5, <1>6, <2>2, <2>3
        <2>4. CASE i # bx
            <3>1. i \in 0 .. ((p + j) - 1)
                BY <1>4, <1>5, <2>4
            <3> QED BY <1>8, <2>1, <2>2, <2>4, <3>1 DEF InPlace
        <2> QED BY <2>3, <2>4
    <1>11. CASE count = 1
        <2>1. p + j + 1 = (k + 1) * ClusterSize
            BY <1>3, <1>4, <1>11, <1>a
        <2>2. InPlace((k + 1) * ClusterSize)'
            BY <1>10, <2>1 DEF InPlace
        <2>3. k + 1 < Clusters => bx' = (k + 1) * ClusterSize
            <3>1. k + 1 < Clusters => bx + 1 < Segment
                BY <1>3, <1>4, <1>5, <1>11
            <3> QED BY <1>2, <1>4, <1>5, <2>1, <3>1
        <2>4. pc' = "next" /\ k \in 0 .. (Clusters' - 1) /\ ~lba'
            BY <1>2, <1>11, Static
        <2>5. Clusters' = Clusters
            BY <1>2, Static
        <2> QED BY <1>9, <2>2, <2>3, <2>4, <2>5 DEF WalkOK
    <1>12. CASE count # 1
        <2>1. count' \in 1 .. ClusterSize /\ sector' = Start(k + 1)' + ClusterSize - count'
            BY <1>1, <1>2, <1>3, <1>5, <1>12, Static
        <2>2. p + j + 1 = k * ClusterSize + ClusterSize - count'
            BY <1>1, <1>2, <1>3, <1>4, <1>a DEF p
        <2>3. InPlace(k * ClusterSize + ClusterSize - count)'
            BY <1>10, <2>2 DEF InPlace
        <2>4. bx' = k * ClusterSize + ClusterSize - count'
            <3>1. bx + 1 < Segment
                BY <1>1, <1>3, <1>4, <1>5, <1>12, <1>a
            <3> QED BY <1>2, <1>5, <2>2, <3>1
        <2>5. pc' = "read" /\ ret' = "next" /\ k \in 0 .. (Clusters' - 1) /\ ~lba'
            BY <1>2, <1>12, Static
        <2> QED BY <1>9, <2>1, <2>3, <2>4, <2>5 DEF WalkOK
    <1> QED BY <1>11, <1>12

LEMMA ReadSectorInv ==
    ASSUME IInv, ReadSector
    PROVE  IInv'
    <1>0. TypeOK /\ EarlyOK /\ DirectoryOK /\ pc = "read"
        BY DEF IInv, ReadSector
    <1>1. /\ TypeOK' /\ pc' = (IF count = 1 THEN ret ELSE "read")
          /\ sector' = sector + 1 /\ count' = count - 1
          /\ UNCHANGED <<disk, lba, geo, es, ret, cluster>>
        BY ReadSectorTypes
    <1>2. ret \in {"bpb", "root", "search", "fat", "next"}
        BY <1>0, ReadFacts
    <1>3. CASE ret \in {"bpb", "root"}
        <2>1. count = 1 /\ geo = [track |-> DefaultTrack, heads |-> DefaultHeads]
            BY <1>0, <1>3 DEF EarlyOK
        <2>2. pc' = ret
            BY <1>1, <2>1
        <2> QED BY <1>1, <1>3, <2>1, <2>2
                DEF IInv, EarlyOK, DirectoryOK, WalkOK, LoadedOK, NotFoundIsTrue
    <1>4. CASE ret \in {"search", "fat", "next"}
        <2>1. Geometry'
            BY <1>0, <1>1, <1>4 DEF DirectoryOK, Geometry
        <2>2. CASE ret = "search"
            <3>1. Reading(RootStart, RootSectors) /\ RootStart \in Nat /\ RootSectors \in 1 .. Segment
                BY <1>0, <2>2, Sizes DEF DirectoryOK
            <3>2. /\ count = 1 => es' = "buffer" /\ InBuffer(RootStart, RootSectors)'
                  /\ count # 1 => Reading(RootStart, RootSectors)'
                BY <3>1, ReadSectorTable
            <3> QED BY <1>1, <2>1, <2>2, <3>2
                    DEF IInv, EarlyOK, DirectoryOK, WalkOK, LoadedOK, NotFoundIsTrue
        <2>3. CASE ret = "fat"
            <3>1. Reading(Reserved, FatSectors) /\ Reserved \in Nat /\ FatSectors \in 1 .. Segment
                BY <1>0, <2>3, Sizes DEF DirectoryOK
            <3>2. /\ count = 1 => es' = "buffer" /\ InBuffer(Reserved, FatSectors)'
                  /\ count # 1 => Reading(Reserved, FatSectors)'
                BY <3>1, ReadSectorTable
            <3>3. disk'.file # <<>> /\ cluster' = FileCluster(1)'
                BY <1>0, <1>1, <2>3, Static DEF DirectoryOK
            <3> QED BY <1>1, <2>1, <2>3, <3>2, <3>3
                    DEF IInv, EarlyOK, DirectoryOK, WalkOK, LoadedOK, NotFoundIsTrue
        <2>4. CASE ret = "next"
            <3>1. WalkOK'
                BY <2>4, ReadSectorWalk
            <3> QED BY <1>1, <2>1, <2>4, <3>1
                    DEF IInv, EarlyOK, DirectoryOK, LoadedOK, NotFoundIsTrue
        <2> QED BY <1>4, <2>2, <2>3, <2>4
    <1> QED BY <1>2, <1>3, <1>4

-----------------------------------------------------------------------------
\* All of the sectors by their logical block.
LEMMA ReadLbaTypes ==
    ASSUME IInv, ReadLba
    PROVE  /\ TypeOK' /\ pc' = ret /\ lba
           /\ \A s \in {"buffer", "preload"} : \A i \in 0 .. (Segment - 1) :
                 mem'[s][i] = IF s = es /\ i \in bx .. (bx + count - 1) THEN sector + i - bx ELSE mem[s][i]
           /\ UNCHANGED <<disk, lba, geo, es, bx, sector, count, ret, cluster>>
    <1>0. TypeOK
        BY DEF IInv
    <1>1. /\ pc = "read" /\ lba /\ pc' = ret
          /\ mem' = [mem EXCEPT ![es] = [i \in DOMAIN @ |->
                        IF i \in bx .. (bx + count - 1) THEN sector + i - bx ELSE @[i]]]
          /\ UNCHANGED <<disk, lba, geo, es, bx, sector, count, ret, cluster>>
        BY DEF ReadLba
    <1>2. /\ ret \in {"bpb", "root", "search", "fat", "next"}
          /\ sector \in Nat /\ count \in 1 .. Segment /\ sector + count <= NSectors
          /\ bx \in Nat /\ bx + count <= Segment
        BY <1>1, ReadFacts
    <1>3. Segment \in Nat \ {0} /\ NSectors \in Nat
        BY Sizes
    <1>4. /\ mem \in [{"buffer", "preload"} -> [0 .. (Segment - 1) -> 0 .. (NSectors - 1) \cup {Nothing}]]
          /\ es \in {"buffer", "preload"}
        BY <1>0 DEF TypeOK
    <1> DEFINE row == [i \in 0 .. (Segment - 1) |->
                          IF i \in bx .. (bx + count - 1) THEN sector + i - bx ELSE mem[es][i]]
    <1>5. mem' = [mem EXCEPT ![es] = row]
        <2>1. DOMAIN mem[es] = 0 .. (Segment - 1)
            BY <1>4
        <2> QED BY <1>1, <2>1
    <1>6. row \in [0 .. (Segment - 1) -> 0 .. (NSectors - 1) \cup {Nothing}]
        <2>1. ASSUME NEW i \in 0 .. (Segment - 1)
              PROVE  (IF i \in bx .. (bx + count - 1) THEN sector + i - bx ELSE mem[es][i])
                         \in 0 .. (NSectors - 1) \cup {Nothing}
            <3>1. CASE i \in bx .. (bx + count - 1)
                BY <1>2, <1>3, <2>1, <3>1
            <3>2. CASE i \notin bx .. (bx + count - 1)
                BY <1>4, <2>1, <3>2
            <3> QED BY <3>1, <3>2
        <2> QED BY <2>1
    <1>7. \A i \in 0 .. (Segment - 1) :
              row[i] = IF i \in bx .. (bx + count - 1) THEN sector + i - bx ELSE mem[es][i]
        OBVIOUS
    <1> HIDE DEF row
    <1>8. mem' \in [{"buffer", "preload"} -> [0 .. (Segment - 1) -> 0 .. (NSectors - 1) \cup {Nothing}]]
        BY <1>4, <1>5, <1>6
    <1>9. \A s \in {"buffer", "preload"} : mem'[s] = IF s = es THEN row ELSE mem[s]
        BY <1>4, <1>5
    <1>10. TypeOK'
        BY <1>0, <1>1, <1>2, <1>8 DEF TypeOK
    <1> QED BY <1>1, <1>7, <1>9, <1>10

LEMMA ReadLbaTable ==
    ASSUME IInv, ReadLba, NEW s \in Nat, NEW n \in 1 .. Segment, Reading(s, n)
    PROVE  es' = "buffer" /\ InBuffer(s, n)'
    <1>1. es = "buffer" /\ count = n /\ sector = s /\ bx = 0
        <2>1. lba
            BY ReadLbaTypes
        <2> QED BY <2>1 DEF Reading
    <1>2. ASSUME NEW i \in 0 .. (n - 1) PROVE mem'["buffer"][i] = s + i
        <2>1. i \in 0 .. (Segment - 1) /\ i \in bx .. (bx + count - 1)
            BY <1>1, Sizes
        <2>2. mem'["buffer"][i] = sector + i - bx
            BY <1>1, <2>1, ReadLbaTypes
        <2> QED BY <1>1, <2>2
    <1>3. es' = "buffer"
        BY <1>1, ReadLbaTypes
    <1> QED BY <1>2, <1>3 DEF InBuffer

LEMMA ReadLbaWalk ==
    ASSUME IInv, ReadLba, ret = "next"
    PROVE  WalkOK'
    <1>0. TypeOK
        BY DEF IInv
    <1>1. PICK k \in 0 .. (Clusters - 1) :
              /\ Walked(k) /\ count \in 1 .. ClusterSize
              /\ sector = Start(k + 1) + ClusterSize - count
              /\ bx = IF lba THEN 0 ELSE k * ClusterSize + ClusterSize - count
              /\ lba => count = ClusterSize
        BY DEF IInv, WalkOK, ReadLba
    <1>2. lba /\ pc' = "next" /\ UNCHANGED <<disk, lba, es, bx, cluster>>
        BY ReadLbaTypes
    <1>3. ClusterSize \in Nat \ {0} /\ Segment \in Nat
        BY Sizes
    <1>4. Start(k + 1) \in Nat
        <2>1. k + 1 \in 1 .. Clusters
            BY <1>0, FileFacts
        <2> QED BY <1>0, <2>1, ClusterFacts
    <1>5. count = ClusterSize /\ bx = 0 /\ sector = Start(k + 1)
        BY <1>1, <1>2, <1>3, <1>4
    <1>6. es = "preload" /\ cluster = FileCluster(k + 1) /\ InBuffer(Reserved, FatSectors)
        BY <1>1 DEF Walked
    <1>7. Walked(k)'
        <2>1. ASSUME NEW i \in 0 .. (FatSectors - 1) PROVE mem'["buffer"][i] = Reserved + i
            <3>1. i \in 0 .. (Segment - 1)
                BY Sizes
            <3>2. mem'["buffer"][i] = mem["buffer"][i]
                BY <1>6, <3>1, ReadLbaTypes
            <3> QED BY <1>6, <3>2 DEF InBuffer
        <2>2. InBuffer(Reserved, FatSectors)'
            BY <2>1 DEF InBuffer
        <2> QED BY <1>2, <1>6, <2>2, Static DEF Walked
    <1>8. InPlace((k + 1) * ClusterSize)'
        <2>1. ASSUME Clusters <= 1, NEW i \in 0 .. ((k + 1) * ClusterSize - 1)
              PROVE  mem'["preload"][i] = FileSector(i)
            <3>1. k = 0 /\ (k + 1) * ClusterSize = ClusterSize /\ 0 * ClusterSize = 0
                BY <1>0, <1>3, <2>1, FileFacts
            <3>2. ClusterSize <= Segment
                <4>1. (k + 1) * ClusterSize <= Segment
                    BY <1>0, FileFits, Zenon
                <4> QED BY <3>1, <4>1
            <3>3. i \in 0 .. (ClusterSize - 1) /\ i \in 0 .. (Segment - 1) /\ i \in bx .. (bx + count - 1)
                BY <1>3, <1>5, <2>1, <3>1, <3>2
            <3>4. mem'["preload"][i] = sector + i - bx
                BY <1>6, <3>3, ReadLbaTypes
            <3>5. FileSector(0 * ClusterSize + i) = Start(0 + 1) + i
                BY <3>3, FileSectorIs
            <3>6. FileSector(i) = Start(k + 1) + i
                <4>1. 0 * ClusterSize + i = i /\ 0 + 1 = k + 1
                    BY <3>1, <3>3
                <4> QED BY <3>5, <4>1
            <3> QED BY <1>4, <1>5, <3>3, <3>4, <3>6
        <2>2. /\ (lba' => Clusters' <= 1) => Clusters <= 1
              /\ \A i : FileSector(i)' = FileSector(i)
            BY <1>2, Static
        <2> QED BY <2>1, <2>2 DEF InPlace
    <1>9. k \in 0 .. (Clusters' - 1) /\ bx' = 0 /\ lba'
        BY <1>2, <1>5, Static
    <1> QED BY <1>2, <1>7, <1>8, <1>9 DEF WalkOK

LEMMA ReadLbaInv ==
    ASSUME IInv, ReadLba
    PROVE  IInv'
    <1>0. TypeOK /\ EarlyOK /\ DirectoryOK /\ pc = "read"
        BY DEF IInv, ReadLba
    <1>1. /\ TypeOK' /\ pc' = ret
          /\ UNCHANGED <<disk, lba, geo, es, bx, sector, count, ret, cluster>>
        BY ReadLbaTypes
    <1>2. ret \in {"bpb", "root", "search", "fat", "next"}
        BY <1>0, ReadFacts
    <1>3. CASE ret \in {"bpb", "root"}
        <2>1. geo = [track |-> DefaultTrack, heads |-> DefaultHeads]
            BY <1>0, <1>3 DEF EarlyOK
        <2> QED BY <1>1, <1>3, <2>1
                DEF IInv, EarlyOK, DirectoryOK, WalkOK, LoadedOK, NotFoundIsTrue
    <1>4. CASE ret \in {"search", "fat", "next"}
        <2>1. Geometry'
            BY <1>0, <1>1, <1>4 DEF DirectoryOK, Geometry
        <2>2. CASE ret = "search"
            <3>1. Reading(RootStart, RootSectors) /\ RootStart \in Nat /\ RootSectors \in 1 .. Segment
                BY <1>0, <2>2, Sizes DEF DirectoryOK
            <3>2. es' = "buffer" /\ InBuffer(RootStart, RootSectors)'
                BY <3>1, ReadLbaTable
            <3> QED BY <1>1, <2>1, <2>2, <3>2
                    DEF IInv, EarlyOK, DirectoryOK, WalkOK, LoadedOK, NotFoundIsTrue
        <2>3. CASE ret = "fat"
            <3>1. Reading(Reserved, FatSectors) /\ Reserved \in Nat /\ FatSectors \in 1 .. Segment
                BY <1>0, <2>3, Sizes DEF DirectoryOK
            <3>2. es' = "buffer" /\ InBuffer(Reserved, FatSectors)'
                BY <3>1, ReadLbaTable
            <3>3. disk'.file # <<>> /\ cluster' = FileCluster(1)'
                BY <1>0, <1>1, <2>3, Static DEF DirectoryOK
            <3> QED BY <1>1, <2>1, <2>3, <3>2, <3>3
                    DEF IInv, EarlyOK, DirectoryOK, WalkOK, LoadedOK, NotFoundIsTrue
        <2>4. CASE ret = "next"
            <3>1. WalkOK'
                BY <2>4, ReadLbaWalk
            <3> QED BY <1>1, <2>1, <2>4, <3>1
                    DEF IInv, EarlyOK, DirectoryOK, LoadedOK, NotFoundIsTrue
        <2> QED BY <1>4, <2>2, <2>3, <2>4
    <1> QED BY <1>2, <1>3, <1>4

-----------------------------------------------------------------------------
\* After a read that fails the boot is lost.
LEMMA ReadErrorInv ==
    ASSUME IInv, ReadError
    PROVE  IInv'
    <1>1. /\ TypeOK /\ pc' = "lost"
          /\ UNCHANGED <<disk, lba, geo, mem, es, bx, sector, count, ret, cluster>>
        BY DEF IInv, ReadError
    <1>2. TypeOK'
        BY <1>1 DEF TypeOK
    <1> QED BY <1>1, <1>2 DEF IInv, EarlyOK, DirectoryOK, WalkOK, LoadedOK, NotFoundIsTrue

LEMMA NextInv ==
    ASSUME IInv, [Next]_vars
    PROVE  IInv'
    <1>1. CASE Load
        BY <1>1, ReadSuperInv, LoadRootInv, SearchRootInv, NotFoundInv, LoadKernelInv,
           LoadClusterInv, NextClusterInv, ReadSectorInv, ReadLbaInv, ReadErrorInv DEF Load
    <1>2. CASE UNCHANGED vars
        BY <1>2 DEF vars, IInv, TypeOK, EarlyOK, DirectoryOK, WalkOK, LoadedOK, NotFoundIsTrue,
           Geometry, Reading, Walked, InBuffer, InPlace, Clusters, FileCluster, Start, FileSector
    <1> QED BY <1>1, <1>2 DEF Next, Finished

\* The invariant: what each place of the loader has read, where the read it is
\* in stands, and how far along the chain of clusters the kernel is.
THEOREM Invariant == Spec => []IInv
    <1>1. Init => IInv
        BY InitInv
    <1>2. IInv /\ [Next]_vars => IInv'
        BY NextInv
    <1> QED BY <1>1, <1>2, PTL DEF Spec

\* Every variable of the loader has its type.
THEOREM TypeCorrect == Spec => []TypeOK
    <1>1. IInv => TypeOK
        BY DEF IInv
    <1> QED BY <1>1, Invariant, PTL

\* disk_read_sectors never asks the BIOS for a sector the drive does not have,
\* whatever geometry it has taken from the BPB and however the clusters lie.
THEOREM ReadsStayOnDisk == Spec => []ReadsOnDisk
    <1>1. IInv => ReadsOnDisk
        BY ReadFacts DEF ReadsOnDisk
    <1> QED BY <1>1, Invariant, PTL

\* fat_search_root says that there is no kernel only when there is none.
THEOREM NotFoundIsHonest == Spec => []NotFoundIsTrue
    <1>1. IInv => NotFoundIsTrue
        BY DEF IInv
    <1> QED BY <1>1, Invariant, PTL

\* fat_load_binary puts the whole file at KERNEL_PRELOAD in its order, unless a
\* drive with the disk extensions has a kernel of more than one cluster.
THEOREM KernelIsLoaded == SmallOnHardDisk => (Spec => []KernelLoaded)
    <1> SUFFICES ASSUME SmallOnHardDisk PROVE Spec => []KernelLoaded
        OBVIOUS
    <1>1. IInv => KernelLoaded
        <2> SUFFICES ASSUME IInv, pc = "loaded"
                     PROVE  /\ disk.file # <<>>
                            /\ \A i \in 0 .. (Len(disk.file) * ClusterSize - 1) :
                                  mem["preload"][i] = FileSector(i)
            BY DEF KernelLoaded
        <2>1. TypeOK /\ disk.file # <<>> /\ InPlace(Clusters * ClusterSize)
            BY DEF IInv, LoadedOK
        <2>2. lba => Clusters <= 1
            BY <2>1, DiskIsFat DEF Clusters
        <2> QED BY <2>1, <2>2 DEF InPlace, Clusters
    <1> QED BY <1>1, Invariant, PTL
=============================================================================
