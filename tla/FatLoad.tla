------------------------------ MODULE FatLoad ------------------------------
(***************************************************************************)
(* The boot loader loads the kernel from a FAT12 disk: the `fat_fallback'  *)
(* path of boot/loader/loader.asm with fat_read_bpb, fat_load_root,        *)
(* fat_search_root and fat_load_binary (fat.inc, boot/common/fat12.inc)    *)
(* above disk_read_sectors (disk.inc), which addresses the disk either by  *)
(* cylinder, head and sector or by logical block.                          *)
(*                                                                         *)
(* Memory is counted in sectors: a buffer holds, at each position, the     *)
(* number of the disk sector read there.  BX is a 16-bit offset, so a      *)
(* segment has Segment positions and then begins again.  The upper half of *)
(* EAX, which the second way of addressing stores too, is taken to be 0.   *)
(***************************************************************************)
EXTENDS Integers, Sequences

CONSTANTS
    Machines,        \* the file systems, on drives with or without the disk
                     \* extensions
    NSectors,        \* sectors of the disk
    Segment,         \* sectors in 64 KB
    Track, Heads,    \* the geometry of the drive and of the BPB
    DefaultTrack, DefaultHeads,   \* what disk.inc has before it reads the BPB
    Cylinders,       \* what the byte in CH can tell apart
    Reserved, FatCount, SectorsPerFat, ClusterSize,   \* from the BPB
    RootEntries, EntriesPerSector,
    NibblesPerSector \* the FAT is a row of 4-bit digits, three to an entry

LastCluster == 16 * 255     \* 0xFF0: this and above ends a chain
RootStart   == FatCount * SectorsPerFat + Reserved
RootSectors == RootEntries \div EntriesPerSector
FatValue    == 0 .. 4095    \* an entry of the FAT has 12 bits
Nothing == -1

\* A FAT12 file system on the disk, with a file for the kernel or none.
FatDisk(d) ==
    /\ \A c \in DOMAIN d.fat : c \in Nat /\ d.fat[c] \in FatValue
    \* The file's clusters, as the FAT chains them, lie on the disk, have their
    \* digits in the FAT, and fit the segment.
    /\ d.file \in Seq(2 .. (LastCluster - 1)) /\ Len(d.file) * ClusterSize <= Segment
    /\ \A i \in DOMAIN d.file :
          /\ d.file[i] \in DOMAIN d.fat /\ 3 * d.file[i] + 2 < SectorsPerFat * NibblesPerSector
          /\ (d.file[i] - 1) * ClusterSize + RootStart + RootSectors <= NSectors
    /\ \A i \in 1 .. (Len(d.file) - 1) : d.fat[d.file[i]] = d.file[i + 1]
    /\ d.file # <<>> => d.fat[d.file[Len(d.file)]] >= LastCluster
    \* One entry has the kernel's name, if there is a kernel.
    /\ DOMAIN d.root = 1 .. RootEntries
    /\ \A i \in DOMAIN d.root :
          d.root[i].name = "VMSTUPIDSYS" => d.file # <<>> /\ d.root[i].start = d.file[1]

ASSUME DiskAssumption ==
    /\ Track \in Nat /\ Track >= 2 /\ Heads \in Nat \ {0} /\ Cylinders \in Nat \ {0}
    /\ DefaultTrack \in Nat /\ DefaultTrack >= 2 /\ DefaultHeads \in Nat \ {0}
    /\ {Segment, ClusterSize, EntriesPerSector, NibblesPerSector} \subseteq Nat \ {0}
    /\ {Reserved, FatCount, SectorsPerFat, RootEntries} \subseteq Nat
    /\ RootEntries % EntriesPerSector = 0
    /\ RootSectors \in 1 .. Segment /\ FatCount * SectorsPerFat \in 1 .. Segment
    \* Sectors have 16-bit numbers.
    /\ NSectors \in Nat /\ NSectors <= 65536 /\ NSectors <= Track * Heads * Cylinders
    /\ RootStart + RootSectors <= NSectors
    /\ \A m \in Machines :
          m = [disk |-> m.disk, lba |-> m.lba] /\ m.lba \in BOOLEAN /\ FatDisk(m.disk)

VARIABLES
    disk,     \* the file system
    lba,      \* bDriveLBA
    pc,
    geo,      \* sectors_per_track and heads_per_cylinder
    mem,      \* what is at DISK_BUFFER and at KERNEL_PRELOAD
    es,       \* the one of the two the segment register names
    bx,       \* the offset in it
    sector,   \* AX in disk_read_sectors
    count,    \* CX in disk_read_sectors
    ret,      \* where disk_read_sectors returns to
    cluster   \* AX in fat_load_binary

vars == <<disk, lba, pc, geo, mem, es, bx, sector, count, ret, cluster>>

-----------------------------------------------------------------------------
Init ==
    /\ \E m \in Machines : disk = m.disk /\ lba = m.lba
    /\ pc = "super"
    /\ geo = [track |-> DefaultTrack, heads |-> DefaultHeads]
    /\ mem = [s \in {"buffer", "preload"} |-> [i \in 0 .. (Segment - 1) |-> Nothing]]
    /\ es = "buffer" /\ bx = 0
    /\ sector = 0 /\ count = 0 /\ ret = "super" /\ cluster = 0

\* Call disk_read_sectors for n sectors from s on, and go on at `label'.
Read(s, n, label) ==
    /\ sector' = s /\ count' = n /\ ret' = label
    /\ pc' = "read"

\* The super block of the other file system, which this disk does not have.
ReadSuper ==
    /\ pc = "super"
    /\ Read(1, 1, "bpb")
    /\ es' = "buffer" /\ bx' = 0
    /\ UNCHANGED <<disk, lba, geo, mem, cluster>>

\* fat_read_bpb, the call.
ReadBpb ==
    /\ pc = "bpb"
    /\ Read(0, 1, "root")
    /\ es' = "buffer" /\ bx' = 0
    /\ UNCHANGED <<disk, lba, geo, mem, cluster>>

\* Fault: the geometry of the BPB is not taken over.
LoadRoot_DefaultGeometry ==
    /\ pc = "root"
    /\ Read(RootStart, RootSectors, "search")
    /\ es' = "buffer" /\ bx' = 0
    /\ UNCHANGED <<disk, lba, geo, mem, cluster>>

\* fat_read_bpb, what it takes from the block, and fat_load_root.
LoadRoot ==
    /\ pc = "root"
    /\ geo' = [track |-> Track, heads |-> Heads]
    /\ Read(RootStart, RootSectors, "search")
    /\ es' = "buffer" /\ bx' = 0
    /\ UNCHANGED <<disk, lba, mem, cluster>>

\* The i-th entry of the directory as the buffer has it.
Entry(i) ==
    LET s == mem["buffer"][i \div EntriesPerSector] - RootStart
    IN  IF s \in 0 .. (RootSectors - 1)
          THEN disk.root[s * EntriesPerSector + (i % EntriesPerSector) + 1]
          ELSE [name |-> "", start |-> 0]

Matches == {i \in 0 .. (RootEntries - 1) : Entry(i).name = "VMSTUPIDSYS"}

\* fat_search_root finds the first entry of that name; the FATs are read over
\* the directory.
SearchRoot ==
    /\ pc = "search"
    /\ \E i \in Matches : (\A j \in Matches : i <= j) /\ cluster' = Entry(i).start
    /\ Read(Reserved, FatCount * SectorsPerFat, "fat")
    /\ bx' = 0
    /\ UNCHANGED <<disk, lba, geo, mem, es>>

\* "kernel not found".
NotFound ==
    /\ pc = "search" /\ Matches = {}
    /\ pc' = "not_found"
    /\ UNCHANGED <<disk, lba, geo, mem, es, bx, sector, count, ret, cluster>>

\* Fault: BX is left behind the FATs.
LoadKernel_KeepsOffset ==
    /\ pc = "fat"
    /\ es' = "preload"
    /\ pc' = "cluster"
    /\ UNCHANGED <<disk, lba, geo, mem, bx, sector, count, ret, cluster>>

\* The kernel's clusters go to KERNEL_PRELOAD.
LoadKernel ==
    /\ pc = "fat"
    /\ es' = "preload" /\ bx' = 0
    /\ pc' = "cluster"
    /\ UNCHANGED <<disk, lba, geo, mem, sector, count, ret, cluster>>

\* Fault: clusters counted from 0.
LoadCluster_FromZero ==
    /\ pc = "cluster"
    /\ Read((cluster * ClusterSize + RootStart + RootSectors) % 65536, ClusterSize, "next")
    /\ UNCHANGED <<disk, lba, geo, mem, es, bx, cluster>>

\* fat_load_binary: the sectors of one cluster.
LoadCluster ==
    /\ pc = "cluster"
    /\ Read(((cluster - 2) * ClusterSize + RootStart + RootSectors) % 65536,
            ClusterSize, "next")
    /\ UNCHANGED <<disk, lba, geo, mem, es, bx, cluster>>

-----------------------------------------------------------------------------
\* The i-th digit of the FAT on the disk, and in the buffer.
DiskNibble(i) ==
    IF i \div 3 \in DOMAIN disk.fat THEN (disk.fat[i \div 3] \div <<1, 16, 256>>[(i % 3) + 1]) % 16
    ELSE 0

BufferNibble(i) ==
    LET k == i \div NibblesPerSector
        s == mem["buffer"][k] - Reserved
    IN  IF k < Segment /\ s \in 0 .. (FatCount * SectorsPerFat - 1)
          THEN DiskNibble((s % SectorsPerFat) * NibblesPerSector + (i % NibblesPerSector))
          ELSE 0

\* The 16-bit word at byte b of the buffer.
Word(b) == BufferNibble(2 * b) + 16 * BufferNibble(2 * b + 1)
             + 256 * BufferNibble(2 * b + 2) + 4096 * BufferNibble(2 * b + 3)

\* Fault: even and odd clusters the wrong way round.
Successor_Swapped(c) ==
    LET w == Word(c + c \div 2)
    IN  IF c % 2 = 1 THEN w % 4096 ELSE w \div 16

\* Two entries share three bytes: the low 12 bits of the word are the entry of
\* an even cluster, the high ones the entry of an odd one.
Successor(c) ==
    LET w == Word(c + c \div 2)
    IN  IF c % 2 = 0 THEN w % 4096 ELSE w \div 16

\* Fault: the successor is compared but not kept.
NextCluster_NotKept ==
    /\ pc = "next"
    /\ pc' = IF Successor(cluster) < LastCluster THEN "cluster" ELSE "loaded"
    /\ UNCHANGED <<disk, lba, geo, mem, es, bx, sector, count, ret, cluster>>

NextCluster ==
    /\ pc = "next"
    /\ cluster' = Successor(cluster)
    /\ pc' = IF cluster' < LastCluster THEN "cluster" ELSE "loaded"
    /\ UNCHANGED <<disk, lba, geo, mem, es, bx, sector, count, ret>>

-----------------------------------------------------------------------------
\* What disk_read_sectors asks the BIOS for: S counts from 1, and only the low
\* byte of the cylinder is passed.
Chs == [S |-> (sector % geo.track) + 1,
        H |-> (sector \div geo.track) % geo.heads,
        C |-> ((sector \div geo.track) \div geo.heads) % Cylinders]

\* The sector the drive finds there.
AtChs == (Chs.C * Heads + Chs.H) * Track + Chs.S - 1

OnDisk == IF lba THEN sector + count <= NSectors
          ELSE Chs.S <= Track /\ Chs.H < Heads /\ AtChs < NSectors

\* One sector by cylinder, head and sector.
ReadSector ==
    /\ pc = "read" /\ ~lba /\ OnDisk
    /\ mem' = [mem EXCEPT ![es][bx] = AtChs]
    /\ bx' = (bx + 1) % Segment
    /\ sector' = sector + 1 /\ count' = count - 1
    /\ pc' = IF count = 1 THEN ret ELSE pc
    /\ UNCHANGED <<disk, lba, geo, es, ret, cluster>>

\* All of them by their logical block; BX stays where it was.
ReadLba ==
    /\ pc = "read" /\ lba /\ OnDisk
    /\ mem' = [mem EXCEPT ![es] = [i \in DOMAIN @ |->
                  IF i \in bx .. (bx + count - 1) THEN sector + i - bx ELSE @[i]]]
    /\ pc' = ret
    /\ UNCHANGED <<disk, lba, geo, es, bx, sector, count, ret, cluster>>

\* The BIOS cannot read it: after the message, `ret' takes a saved register
\* for the address to return to, and the loader is lost.
ReadError ==
    /\ pc = "read"
    /\ pc' = "lost"
    /\ UNCHANGED <<disk, lba, geo, mem, es, bx, sector, count, ret, cluster>>

\* The rest of the boot, a halt, or whatever is at the wrong address.
Finished == pc \in {"loaded", "not_found", "lost"} /\ UNCHANGED vars

Load == \/ ReadSuper \/ ReadBpb \/ LoadRoot \/ SearchRoot \/ NotFound \/ LoadKernel
        \/ LoadCluster \/ NextCluster \/ ReadSector \/ ReadLba \/ ReadError

Next == Load \/ Finished

\* The loader goes on, and the BIOS answers.
Spec == Init /\ [][Next]_vars /\ WF_vars(Load)

-----------------------------------------------------------------------------
\* Every variable has its type.
TypeOK ==
    /\ [disk |-> disk, lba |-> lba] \in Machines
    /\ pc \in {"super", "bpb", "root", "search", "fat", "cluster", "next", "read",
               "loaded", "not_found", "lost"}
    /\ geo \in [track : Nat, heads : Nat]
    /\ mem \in [{"buffer", "preload"} -> [0 .. (Segment - 1) -> 0 .. (NSectors - 1) \cup {Nothing}]]
    /\ es \in {"buffer", "preload"} /\ bx \in 0 .. (Segment - 1)
    /\ sector \in 0 .. NSectors /\ count \in 0 .. Segment
    /\ ret \in {"super", "bpb", "root", "search", "fat", "next"}
    /\ cluster \in FatValue

\* The sectors of the kernel's file, in their order.
FileSector(i) ==
    (disk.file[i \div ClusterSize + 1] - 2) * ClusterSize + RootStart + RootSectors
        + (i % ClusterSize)

\* loader.asm, "load kernel from filesystem": when the loader goes on to the
\* kernel, all of its file lies at KERNEL_PRELOAD, one sector behind the other,
\* wherever its clusters are on the disk and whatever reads failed.
KernelLoaded ==
    pc = "loaded" =>
        /\ disk.file # <<>>
        /\ \A i \in 0 .. (Len(disk.file) * ClusterSize - 1) : mem["preload"][i] = FileSector(i)

\* Every sector the loader asks for is one the drive has: the walk over the FAT,
\* whose entries share bytes, never takes half of one entry and half of another
\* for a cluster.
ReadsOnDisk == pc = "read" => OnDisk

\* "kernel not found" is said only when no entry of the directory names it.
NotFoundIsTrue ==
    pc = "not_found" => \A i \in DOMAIN disk.root : disk.root[i].name # "VMSTUPIDSYS"

\* Loading comes to an end: the walk over the FAT reaches the end of the chain.
LoadEnds == <>(pc \in {"loaded", "not_found", "lost"})
=============================================================================
