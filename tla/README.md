# StupidOS: specifications and proofs

StupidOS is a small operating system for 32-bit PCs. It is written in fasm assembly (boot sectors,
boot loader, kernel, crypto and compression libraries), with host tools in C (archive index, symbol tools,
fdisk). This directory holds TLA+ modules that model its core, TLC configurations that
model-check them, and TLAPS proofs about them. Paths below are relative to `src/`.

- [1. The system](#1-the-system)
- [2. What is modelled, and how](#2-what-is-modelled-and-how)
- [3. What the runs check](#3-what-the-runs-check)
- [4. What is proved](#4-what-is-proved)
- [5. Where the code disagrees with itself](#5-where-the-code-disagrees-with-itself)
- [6. What is not modelled](#6-what-is-not-modelled)
- [7. Plan](#7-plan)

To run a check: `tlc -config MCPmm.cfg MCPmm.tla`. To check a proof: `tlapm PmmProofs.tla`.

## 1. The system

From power-on, control passes through these parts, one after the other:

    boot sector -> boot loader -> kmain -> mm_init -> pic_init -> idt_setup -> pit_init -> jmp $
                   (memory map,            pmm_init                (sti: interrupts from
                    A20, disk, FAT)        vmem_bootstrap           here on, two handlers
                                           vmem_create, vmem_alloc  do real work)

There is one processor, no threads and no processes yet. Concurrency comes from three places: the
interrupt handlers and the hardware that triggers them; the owners of memory, whose writes share pages
with the allocator's own bookkeeping; and the order in which callers combine the operations.

| component | state it keeps | operations | talks to |
|---|---|---|---|
| physical memory manager, `kernel/mm/pmm.inc` | the head of a list of free blocks; the links and sizes lie in the free pages; one mapped page at `PMM_VIRT_TEMP` | `pmm_init`, `pmm_alloc`, `pmm_alloc_page`, `pmm_free`, `pmm_free_page` | boot memory map (`stBootInfo.high_mem`), page tables; called by kmain |
| kernel resource allocator, `kernel/mm/vmem.inc` on `kernel/queue.inc` | a pool of static segment descriptors with a count; the free lists of each arena | `vmem_bootstrap`, `vmem_create`, `vmem_add`, `vmem_alloc`, `vmem_xalloc` | called by `mm_init`; meant for kernel addresses |
| interrupts, `kernel/pic.inc`, `idt.inc`, `isr.inc`, the handlers in `dev/at/` | the gates; the request and in-service registers of both 8259A; the interrupt flag | `pic_init`, `idt_setup`, `pit_irq`, `kbd_irq`, the other handlers | every device; kmain is what they interrupt |
| kernel entry, `kernel/kernel.asm`, `gdt.inc` | boot information, GDT, TSS | kmain | all of the above, once, in order |
| paging bootstrap, `kernel/mm/bootstrap.inc` | page directory and recursive mapping | `mm_bootstrap` | pmm's temporary mapping |
| locks, buffer cache, processes: `lock.inc`, `bio.inc`, `proc.inc` | a spin lock word; eight buffers; the process table | `lock_acquire/release`, `bio_*`, `proc_alloc` | devices through `BlkDev.strategy`; not started by kmain yet |
| device switch, console, vfs, system calls | fixed tables | registration, mostly stubs | - |
| AT drivers: cga, com, ata, floppy, cmos, ne2k | cursor; controller registers | polling loops, CHS arithmetic | ports |
| kernel log, `klog.inc` | - | `klog`: a format string and the arguments on the stack | cga, com |
| boot sectors | - | load the loader from a FAT12 root directory | BIOS |
| boot loader: `disk.inc`, `fat.inc`, `common/fat12.inc` | the FAT and root directory buffers | `disk_read_sectors` (CHS or LBA), `fat_load_binary` | BIOS |
| boot memory map: `memory.inc`, `common/bootinfo.inc` | `low_mem`, `high_mem`, the map entries | E820h, E801h, 88h queries, `boot_info_add_memmap` | pmm_init reads its result |
| A20 gate, `a20.inc` | the line | methods tried in turn | keyboard controller, BIOS |
| UEFI loader, `boot/efi` | firmware tables | unfinished | firmware |
| archive tools, `bin/ranlib` on `bin/ar/archive.c` | two descriptors, the file position, the entry read last | `archive_open`, `archive_get_entry_hdr`, `archive_skip_entry`, `archive_close` in a loop | files, through `read` and `lseek` |
| symbol tools, `bin/fas2sym`, `fasdump`, `readcoff` | the tables of the input; in fas2sym three growing buffers and the section headers of the output | load all tables or none; display, or export and write | files, the allocator of the C library |
| `bin/ld`, `bin/elf2coff` | - | options only | - |
| fdisk, `sbin/fdisk` | the file of the disk, the line being read, a command table | `device_open`, `readline`, `parse_cmd` and the commands, `device_close` | files, standard input |
| crypto and lzp libraries, `lib/` | cipher and hash states | pure algorithms | - |

`PROJECT.json` has the full list with the status of each part.

### What is hard, and what makes each part correct

*Physical memory.* The list of free blocks is written into the memory it gives away. An allocation
takes the **end** of a block, so that the header at its beginning survives; when a block is used up its
header page goes with it, and the link must have been read before the owner can write there. Only one
page is mapped at a time, so every access is right only if the right page is mapped: relinking an inner
block needs a second mapping in the middle of the operation. Correct means: the words in memory always
spell out the list; no page is free twice, or free and owned; no page is lost; the search terminates
whatever the order of frees; and "no memory left" is true when it is said.

*Resource allocator.* A descriptor has one pair of link words for whichever list it is in, and is taken
from and given back to a pool around every call. Correct means: what is handed out lies in the arena;
an allocated segment is on no free list; every call returns; the count of free descriptors is a count.

*Interrupts.* Handlers end an interrupt with a *non-specific* EOI, which ends whatever the controller
considers most urgent. Most handlers send none, so their line stays in service for good. Requests are
edges, which `pic_init` forgets and which can arrive between a handler's EOI and its read of the
device. Correct means: an EOI ends the line whose handler sends it; the timer and the keyboard never
block; no key waits without an interrupt that will fetch it; ticks and keys are eventually handled.

*Boot.* Sixteen-bit pointers, BIOS calls that fail or are missing, two addressing paths that must leave
the same registers behind, and a memory map whose result `pmm_init` trusts without a look.

*Host tools.* They are sequential, and what is hard in them is what may go wrong between two calls: a `read`
that gives less than was asked for, or -1, which `read_data` adds to its count; a table that is missing when
the display comes to it; a `realloc` that fails when half of the symbols are exported; a line in several
pieces. Correct means: only what is a header is taken for one; what is printed or written is what the input
says; refusals are true; every path frees what was taken and nothing else; loops end.

The hazards at their lines, with the properties that would show them going wrong, are listed in
`PROJECT.json`; the ones without a property are what the plan in section 7 works from.

## 2. What is modelled, and how

| module | what it is |
|---|---|
| `BlockPool` | what a page allocator promises: a pool of blocks, a request, a grant or a refusal |
| `Pmm` | `kernel/mm/pmm.inc`, step by step; implements `BlockPool` |
| `MCPmm` | small machines for TLC |
| `PmmProofs` | the inductive invariant of `Pmm` and the theorems that follow from it; that `Pmm` implements `BlockPool` |
| `Interrupts` | the 8259A pair, the keyboard controller, `pic_init`, `idt_setup`, the gates and their handlers |
| `MCInterrupts` | the devices wired to the lines |
| `InterruptsProofs` | the inductive invariant of `Interrupts` and its theorems |
| `Vmem` | `kernel/mm/vmem.inc` on `kernel/queue.inc`: the descriptors, the arena of `mm_init`, `vmem_alloc` |
| `MCVmem` | an arena of a few bytes |
| `VmemProofs` | the inductive invariant of `Vmem` and its theorems |
| `BootMemory` | `boot/loader/memory.inc` and `common/bootinfo.inc`: from the BIOS's answers to the regions of `pmm_init` |
| `MCBootMemory` | machines and BIOSes |
| `BootMemoryProofs` | the inductive invariant of `BootMemory` and its theorems |
| `FatLoad` | `boot/loader/disk.inc`, `fat.inc` and `common/fat12.inc` under `loader.asm`: the kernel from a FAT12 disk |
| `MCFatLoad` | disks of 24 sectors |
| `FatLoadProofs` | the inductive invariant of `FatLoad` and its theorems |
| `Archive` | `bin/ranlib/main.c` on `bin/ar/archive.c`: the walk over the members of archives |
| `MCArchive` | archives of up to three members |
| `ArchiveProofs` | the inductive invariant of `Archive` and its theorems |
| `TableLoad` | how fas2sym, fasdump and readcoff load their input |
| `ObjectTools` | what they do with it: `fasdump` and `readcoff` display, fas2sym exports and writes an ELF file |
| `MCObjectTools` | FAS and COFF files of up to four symbols |
| `ObjectToolsProofs` | the inductive invariant of `ObjectTools` with its loaders, and its theorems |
| `Fdisk` | `sbin/fdisk`: the file device, `readline`, the command loop and the commands |
| `MCFdisk` | inputs of up to three lines |
| `FdiskProofs` | the inductive invariant of `Fdisk` and its theorems |

The operators whose comment begins with "Fault:" are wrong variants of the definition that follows.
No specification uses them: putting one in the place of that definition must make a property fail,
which shows that the property depends on the code (`PROJECT.json`, "mutants").

### Pmm

Addresses and sizes are counted in pages. Both are 32-bit byte quantities with twelve low zero bits, so
the code's `add`, `sub` and comparisons are arithmetic modulo 2^20 on page numbers; `SignBit` is half
that range and `Signed` is what `jge` (`pmm.inc:212`) and `jl` see.

| state | code |
|---|---|
| `head` | `pPmmFreeListHead` |
| `mem[p]` | the two words `PMMFreeRange` at the start of physical page `p` |
| `temp` | the page behind `PMM_VIRT_TEMP` |
| `prev`, `cur`, `arg` | EBX, ESI and EDI inside a call |
| `ret` | EAX and EDX of the last `pmm_alloc` that returned |
| `pc` | which part of a routine comes next |
| `boot` | `kend` aligned up and `stBootInfo.high_mem` aligned down |
| `owned`, `chain`, `scanned` | ghosts: who holds pages, what the list is meant to be, how far a search is |

The steps are cut wherever a mapping changes or memory is written. `InitLow` and `InitHigh` are the two
calls of `_pmm_init_region`. A search is `AllocMap` and `AllocNext` in turn, ending in `AllocFail` or in
one of `AllocShrink` (something is left of the block), `AllocUnlinkHead`, or `AllocUnlinkInner` followed
by `AllocRelink`; then `AllocReturn`. A free is `FreeCall` and `FreePush`. `Scribble` is the owner of a
page writing over the words that were a header. `pmm_alloc_page` and `pmm_free_page` are the calls with
one page. Calls do not overlap: there is one processor and no interrupt handler calls the allocator.
Callers give back pages they own, any run of them, not only the ones of one allocation.

A caller is assumed to ask for at least one page and at most `MaxRequest`, less than half the address
space. `LayoutAssumption` also says that `high_mem` is above 8 MB: `pmm_init` does not look, and with
less memory the size of the region wraps round. That hazard is listed; the composition with the boot
loader's memory map is planned.

The `BlockPool` refinement maps `pool` to the blocks of the list, `held` to `owned`, `want` to EDI during
the search, and `answer` to ESI from the moment the pages are carved off. A grant takes effect at that
moment, although the call goes on to mend the list.

### Interrupts

`irr` and `isr` are the request and in-service registers of both controllers together (lines 0-7 and
8-15). The hardware is modelled from what `pic_init` asks of it: edge triggered, fully nested, cascaded
on line 2, no automatic EOI, nothing masked. The map marks it external where it is not this
repository's code. `Accept` is the processor taking the most urgent request that the in-service bits
let through; `Spurious1` and `Spurious2` are the requests that are gone when the processor answers,
which get the last vector of a controller. Every gate is an interrupt gate (`idt.inc`, type 8Eh), so
handlers do not nest. `cpu` is what the running handler does next: `pit_irq` sends an EOI; `kbd_irq`
sends its EOI **first** and then reads the keyboard; `com_irq1` and `ne2k_irq` call `klog` (`Klog`); the
others only return. `klog` takes its string in EAX, but the two handlers put it in ESI (`com.inc:134`,
`ne2k.inc:112`, `klog.inc:230`), so it reads from what `kmain` left in EAX, an address in the first 64 KB.
The page table for that address is one `mm_bootstrap` never fills, so the read may find a page or none:
`Klog` returns or faults, as it likes. A fault is the end (`Faulted`): `isr_common` leaves with a word too
many on the stack, and its `iret` leads nowhere. A key raises line 1 and
stays in the output buffer (`obf`) until it is read; the controller takes no further code meanwhile.
`stale` marks a code that was there before `pic_init` erased the latched edges: the line is high and
will not rise again.

`Wired` is the set of other lines devices use. Which those are is a matter of the machine, so it is a
parameter.

### Vmem

A descriptor is a number in address order, and `q` holds the heads, the `next` and `prev` words and the
count, exactly as `queue.inc` leaves them - including that `list_insert_head` stores an element's own
address in its back link, which makes `list_remove` of a first element overwrite that element's own
`next`. `Bootstrap` and `Create` are what `mm_init` does; `AllocCall` is the entry of `vmem_alloc` and
`vmem_xalloc` with the two spare descriptors; `RetryStrat`, `InstantFit`, `BestFitSeg`, `BestFitNext` and
`NextStrat` are the search at the code's labels; `AllocSplit`, `AllocWhole` and `AllocFail` are the three
ways out. Routines that return at once (`vmem_free`, `vmem_xfree`, the `tailq_*` and hash table routines)
have no action. `vmem_alloc` passes no alignment and `_vmem_segfit` accepts the base of any segment, so
the left split of `vmem_xalloc` is unreachable and left out. Sizes and what is left of one are compared by
`jge` and `jle`, as signed numbers (`Signed`); `Half` is where those begin to be negative.

### BootMemory

`ram` is the machine's memory as its BIOS lists it, `bios` the services there are and whether E820h ends its
list with a zero continuation value or with the carry flag. `E820Range`, `E820Last` and `E820Error` are one
query each, at the tests of `memory_e820_get_map`; `LargeConf` and `Get88` are the two other services, with
`Contiguous` standing for what the BIOS would answer. `AddMemmap` is `boot_info_add_memmap`: the limit
(`Refused`), `high_mem` (`HighMem`) and the table (`Slots`). `PmmInit` computes the two regions `pmm_init`
makes free blocks of, with the wrap of the size when there is little memory. The counts of E801h and 88h
are kilobytes stored as if they were bytes (`memory.inc:105`, `136`); the model stores them the same way, so
`high_mem` is then just above 1 MB. `Reports(end)` says of the machine, not of `high_mem`, that E820h names memory from
1 MB to `end` before its last range and ends its list well. The module is where the
constant `Boots` of `Pmm` comes from: `Pmm` starts from what this one ends with.

### FatLoad

Memory is counted in sectors and holds the numbers of the disk sectors read into it; names and contents
do not matter. `disk_read_sectors` is `Read` (the call), `ReadSector` (one sector by cylinder, head and
sector, which moves BX) and `ReadLba` (all of them, which does not), with `ret` for the return address. Any read
may fail (`ReadError`); after that the routine returns with its saved registers on the stack, so the loader
is `lost`. `BufferNibble`, `Word` and `Successor` decode the FAT as the buffer has it, digit by digit, because
the 12-bit entries are where the code could go wrong; everything else on the disk is an abstract record.
`geo` is the geometry before and after the BPB was read.

### Archive

A file is where its headers are (`start`), what they say (`members`) and where it ends (`length`), which may
be before its last member does. `pos` is the offset of the descriptor. `read_data` is a routine of three
variables and a return label: `from` and `size` are its arguments, `total` its count. `ReadSome` is a read of
any length, `ReadNothing` the end of the file, `ReadError` a read that answers -1: the code looks only for 0
and adds the -1 to its count, so the next bytes are stored one place too low and one byte more is consumed
than counted. For a name that place is the last byte of the entry's size, and `damage` says that it was written
to: "size" until `Report` goes on by it to any place (`Landing`), "walk" from then on. What lies below the local
arrays for the magic and for a header is left out. `Recognised` and `Saying` are what the reader makes of such bytes: the two bytes at the end
of a header are recognised where some header ends and nowhere else, and all other fields may then say
anything. `exact` and `tail` are what matters of the name buffer, which is used again and again without being
cleared. `argv` is the rest of the command line; main goes on whatever `ranlib` answers.

### TableLoad and ObjectTools

`TableLoad` is the part the three tools share: `Steps` is the list of calls, one `malloc`, `fseek` and `fread` for
each table, and every one of them may fail (`StepFails`), up to `MaxFaults` times in a run. A file is which
of its parts are missing (`short`), which tables have no entries (`empty`), and its symbols. `ObjectTools` adds
the displays, which read tables (`Reads` is a crash, or printf's word for NULL, when one is not there), and fas2sym. `BufferPut`, `Grow`,
`GrowFails` and `Copy` are `buffer_put`: doubling until there is room, and a failed `realloc` that overwrites the
only pointer but keeps the new capacity. The contents of a buffer are a function from offsets to what was
put there, so that an offset that is wrong by a byte finds nothing. `WritePart` writes the five parts of the
output, each of which may fail; `Resolve` is the search for the symbols of `-t begin,end`. `heap` holds every
block in use, and `lost` those nothing points to any more.

### Fdisk

The input is a sequence of lines, each with its words and length; `row` and `col` are how far fgets has come.
`AppendPiece` is one turn of the loop of `readline`, `ReallocFails` and `EndOfInput` its other ways out. `Plain`,
`Unknown`, `CmdPrint`, `Quit`, `Empty` and `Blank` are what `repl` does with a line. Three of them can end in a crash: the
context of the commands is never filled in, and a line of blanks has no first word. The property is about
what was done before that. `fildev`
is the stream of the file device: `device_open` can leave a pointer to a stream it has closed, and a second close of
it would end in `closed_twice`. The input is text: `readline` takes the length of a piece from `strlen`
(`repl.c:21`), so a NUL would hide what is behind it, the newline included, and at the beginning of a line
`line[linsz - 1]` (`repl.c:35`) would be the byte before the string. `Args` may end in a crash, because `-p` with another
character than 0 to 3 writes outside `partfile` (`main.c:101-105`).

## 3. What the runs check

| run | configuration | result | distinct states |
|---|---|---|---|
| `pmm` | `MCPmm.cfg` | passes | 238 240 |
| `pmm_2g` | `MCPmmBig.cfg` | `NoMemoryLeft` violated (section 5) | - |
| `interrupts` | `MCInterrupts.cfg` | passes | 52 864 |
| `vmem` | `MCVmem.cfg` | passes | 125 504 |
| `bootmem` | `MCBootMemory.cfg` | passes | 24 244 |
| `fatload` | `MCFatLoad.cfg` | passes | 16 424 |
| `fatload_lba` | `MCFatLoadLba.cfg` | `KernelLoaded` violated (section 5) | - |
| `archive` | `MCArchive.cfg` | passes | 218 494 |
| `objtools` | `MCObjectTools.cfg` | passes | 91 668 |
| `fdisk` | `MCFdisk.cfg` | passes | 227 916 |
| `vmem_list` | `MCVmemList.cfg` | `AllocatedLeavesList` violated (section 5) | - |
| `vmem_instant` | `MCVmemInstant.cfg` | `InstantFitReturns` violated (section 5) | - |

**pmm.** `ListIntact`, `NoDoubleAlloc`, `Conserved` and `WindowOK` say that the list in memory, the pages
and the mapping are sound at every step; `NoMemoryLeft` that ENOMEM is true; `PoolSpec` that the allocator
implements the abstract pool; `CallsReturn` that every call comes back. *Bounds.* The address space has
sixteen pages, `SignBit` = 8. One machine has two pages behind the kernel and two from `HighBase` on; the
other has one page behind the kernel, which `pmm_init` leaves aside, and one block of four. Four pages
suffice for lists of four blocks, the removal of the first, of an inner and of the last one, a list in
an order different from memory, and a block that grows smaller twice. Requests of one to three pages fit
exactly, with a rest, and not at all. `Contents` is a header that would look like a block of the main
region if it were ever read from a page an owner wrote. *Fairness.* `WF_vars(InCall)`: the processor
executes the rest of a call that has begun. Nothing makes a caller call.

**interrupts.** `NeverStuck`, `KeyHasInterrupt` and `EoiEndsOwnLine` are described in section 1. `TickServed`
says that a tick asked for once the controllers are set up is handled whatever else stays in service,
unless a serial or network interrupt has stopped the machine in `klog`; `KeyRead` that a key struck after
`pic_init` is read, on a machine that goes on. *Bounds.* `Wired` = {4, 7, 8, 9, 15}: a serial port
between the keyboard and the end of the first controller, the line whose number its spurious requests
borrow, the first and last line of the second controller, and the network card's. That is every case the priority rules
tell apart. The model has no counters. *Fairness.* Weak for kmain (`Main`), for the handler that runs
(`Handler`), and for taking some request while one stands (`Taken`), because interrupts are off only
inside a handler; strong for taking the **keyboard's** request, which comes second in urgency and is
enabled only between ticks. `KeyRead` further assumes `[]<>(iflag /\ Timer \notin irr)`, that is, that ticks
leave gaps; the strong fairness then says that the processor does not miss every gap. At the timer's
rate and with a handler of three instructions that is how the machine behaves. Devices are never
obliged to do anything. A machine that has stopped in a fault has its interrupts off for ever, so it meets
`KeyRead`'s assumption never and `TickServed` by its exception.

**vmem.** `InArena` says that no answer of `vmem_alloc` reaches outside the arena in any sequence of calls with
either strategy, although segments stay in the lists of sizes they once had and the instant fit does not look at
sizes (section 4 proves more: every answer is the beginning of the arena). `TypeOK` carries one bound that is
not a type: the count of free descriptors is at most their number; it may go below 0. *Bounds.* Four descriptors, four free lists,
an arena of 13 bytes at 3, quantum 2, `Half` = 16, all sizes 1 to 15: arena sizes and requests that are powers of two and are
not, requests larger than the arena, splits that leave less than, exactly and more than a quantum. Arena and requests are smaller than `Half`, as the arena of `mm_init` is (below 256 MB); to
the best fit a request of 2 GB or more is negative and smaller than any segment (section 5). The pool
count falls by one in each split and does not come back, because nothing is freed; after the second finding of
section 5 it is no longer the number of descriptors in the pool, so only the upper bound is stated.
`CHECK_DEADLOCK` is on everywhere: there is always a call to make.

**bootmem.** `MapIsRam`: the table names only memory, also when one query failed half way and the next one added
to what it left. `E820Exact`: if E820h ends well, the table is exactly the usable ranges below 4 GB before
the last one, in order, as far as there is room. `PmmRegionsAreRam`: if E820h reports the memory from 1 MB to 8 MB
(`Reports`), the allocator's regions are memory. On all other machines they need not be: with less memory, with that
range reported last, or with a list given up for E801h or 88h, `high_mem` is below 8 MB whatever memory there is, and
the size of the main region wraps to almost 4 GB (section 5). `DetectionEnds`. *Bounds.* Up to three disjoint ranges out of ten, in every order: low
memory, ROM, three sizes of memory from 1 MB on (below 8 MB, with a hole below 16 MB, beyond it), memory
behind a hole, a reserved range, and memory across, behind and much longer than 4 GB; every combination of
services; two slots, so that the table overflows. Ranges almost as long as the 32-bit address space (more
than 4 GB - 4 KB) are excluded, because the limit minus such a length wraps. *Fairness.* The loader goes on
and the BIOS answers.

**fatload.** `KernelLoaded`: the loader goes on to the kernel only with all of its file in its place. `ReadsOnDisk`:
it never asks for a sector the drive does not have. `NotFoundIsTrue`: "kernel not found" is said only when
no entry names it. `LoadEnds`. *Bounds.* Files of one to three clusters out of five, in every order, at the
first and last entry of the directory, with both the lowest and the highest end mark, next to entries of
other files with digits set and clear; clusters of three sectors, FAT entries that straddle sectors, a
segment exactly full, a geometry in `disk.inc` that is not the disk's. Hard disks have files of one cluster
in this run, because longer ones are what `fatload_lba` refutes. Files of more than 64 KB are excluded by
`DiskAssumption`: BX wraps and the end overwrites the beginning. *Fairness.* As above.

**archive.** `HeaderTrue`: a header is accepted only where a member begins and says what that member's says.
`MembersReported`: the names printed are the members' and, of a whole archive read without an error, all of
them. `NothingOpen`: no descriptor is open between archives and at the end. `WalkEnds`. The first two hold until
a read fails before any byte of an extended name, because the next byte is then stored in the entry's size (`damage`);
the last two hold wherever the walk then goes. The first two also except archives with an extended name of odd length (`OddName`): `archive_skip_entry` makes even what is left of such
a member instead of the member, so the walk is off by one behind it. A name that fills its field is not
closed with a 0 and may go on with the rest of a longer one before it; an extended name of which bytes could
not be read is printed as it is. *Bounds.* A magic of 2 bytes, headers of 4, name fields of 2: names shorter
than the field, of its length and longer, contents of 0 and 1 bytes, so that padding is and is not there;
two members in any order, three with the longest name first; one member cut off at every place; a second archive
behind the first. `MaxErrors` = 2 reads fail in one run. It is a bound on the fault, not only on the
instance: a read that fails for ever keeps `read_data` in its loop for ever. The assumption `MaxErrors` < `SAR_HDR`
keeps the drift below one header. `NameMax` is larger than every name: what a name too long for the entry
overwrites is not modelled. *Fairness.* The program goes on and the system answers its calls.

**objtools.** `NothingLeaks`: when a tool ends, memory and streams are given back, and until then every pointer
names a block in use. `CrashIsExplained`: a tool crashes only on a file that refers into a table of length 0, whose
pointer is NULL, and fas2sym behind a failed `realloc` too; a table cut off or not loaded is never read. `RefusalIsTrue`: what is refused is of another kind or damaged (or a COFF file
without sections, since `fread` of 0 bytes answers 0). `OutputExact`: the tables of the output are where its
headers say, and hold each defined symbol once, in order, under its name and with its value. `TextRange`: with
`-t`, .text is the range between the two symbols. The last two are about runs in which no `realloc` failed and
the last `fclose` could write, which the code does not check; `TextRange` is about values other than 0,
because 0 stands for "not found yet". *Bounds.* Up to four symbols out of seven kinds; names of 5 and 40
characters, so that the buffers double once and twice in one call; values on both sides of `Word`; files cut
off in every combination of parts; tables of length 0 that are referred to and that are not; two failing calls, so that a second failure meets what the first left.
No fairness, no liveness: the programs have no loops that wait.

**fdisk.** `CommandsTrue`: every command carried out is one complete line of the input, whole, once and in order,
and at a regular end none is missing. `NothingLeft`: no memory is in use between two lines, and neither memory nor
a stream when main returns; and no stream is closed twice, which the bit of the status, uninitialised until
`device_open` succeeds, would not prevent. `CommandsTrue` is about text without NUL bytes, and about which lines
become commands: a word behind the sixth is dropped (`Argv`), and the property says nothing of it. Behind a failed `realloc` or read, or in a last line without a newline, commands are
given up; the property says so. *Bounds.* A buffer of 4 characters, lines of 0 to 6, so that lines fill it
never, exactly, twice, with the newline alone in the last piece; up to three lines, one failing call.

The bounds `MaxRequest`, `SignBit`, `NSegs`, `NLists`, `Span`, `Half`, `Sizes`, `NSlots`, `Segment`, `SARMAG`,
`SAR_HDR`, `NameField`, `MaxErrors`, `MaxFaults`, `Word`, `BUFFSZ` and `MAXARGS` are the only ones; none but the
two numbers of faults is a cut-off of behaviour inside the model.

## 4. What is proved

All theorems hold for every value of the constants the assumptions allow. TLC evaluates those
assumptions in the runs.

**Pmm** (`PmmProofs`, assumption `LayoutAssumption`). The inductive invariant is

    IInv == TypeOK /\ Bounded /\ NoDoubleAlloc /\ ListIntact /\ WindowOK /\ Cursor /\ Startup

`ListIntact` alone is not inductive: a header could be overwritten by an owner, or by the push of another
block, if blocks could overlap, hence `NoDoubleAlloc`. That carving stays inside a block needs `Bounded` (no wrap
round the end of the address space; page 0 is never a block, so that 0 can mean "no block"). That the
right word is rewritten needs `WindowOK` and `Cursor`, which ties the registers EBX, ESI and EDI to a
position in the list. `Startup` says what is there between the two regions of `pmm_init`. There is
one lemma per action and part it can disturb; the lemmas about sequences (`PushSeq`, `WithoutSeq`) and about
the block set (`PushSet`, `ShrinkSet`, `UnlinkSet`, `SameSet`) serve the refinement too.

- `TypeCorrect`, `NoDoubleAllocation`, `ListStaysIntact`, `WindowCorrect`: the invariants of the run.
- `Conservation`: free and owned pages together are the machine's memory for ever.

**Pmm and BlockPool** (at the end of `PmmProofs`). Under `SmallRegions` - no region of the machine reaches half the
address space, which is exactly what the signed comparison needs - no block is ever that large
(`SmallNext`), so:

- `EnomemIsTrue`: `NoMemoryLeft` holds.
- `ImplementsPool`: every step is a step of `BlockPool` or a stutter, one lemma per kind of step.

The run `pmm_2g` shows that the hypothesis cannot be dropped.

**Interrupts** (`InterruptsProofs`, assumption `WiredAssumption`: the devices do not share the lines of the
timer, the keyboard and the cascade). The inductive invariant adds to the three invariants of the run
`Serving` (while `pit_irq` or `kbd_irq` has its EOI before it, its line is in service, and interrupts are on
only in kmain), `Pulled` (only wired lines are ever requested) and `Startup` (before `sti` nothing is in
service, and a code that is there before `pic_init` is stale). The heart of it: when
the timer or the keyboard is accepted it is more urgent than everything in service, so the EOI, which
names no line, ends exactly that one.

- `TypeCorrect`, `TimerAndKeyboardFree`, `NoKeyWithoutInterrupt`, `EoiIsOwn`.

**BootMemory** (`BootMemoryProofs`, assumption `BootAssumption`: the order of the addresses in the loader and the
kernel, which except for 1 MB and 16 MB are aligned to pages, that no machine is without any range, and that no range is
almost as long as the 32-bit address space). The inductive
invariant is

    IInv == Control /\ Good(Info) /\ RegionsOK

The regions of `pmm_init` come from `high_mem` alone, which says nothing of holes: `Good` says that what is
listed is memory and that from 1 MB up to `high_mem` there is nothing else. `boot_info_add_memmap` keeps it
because the limit it compares with refuses what would wrap (`AddMemmapGood`); the other services, because they
answer the end of memory without a hole, which exists as the smallest address from 1 MB on that is not memory
(`Contiguous`). `Reported` says that `high_mem` is the end of the last range from 1 MB on that E820h has named, which
is how a machine with memory at 8 MB comes to a `high_mem` of 8 MB or more (`HighStep`, `HighEnough`).

For the table itself a second invariant, `Listing`, says at every query what `E820Exact` says at the end: the usable
ranges below 4 GB among those reported so far (`Below4G`) are in the table by rank. The rank of a range is the number
of such ranges up to it, so that one more query adds one element to a finite set (`Below4GStep`) and at most one
slot to the table (`ListedStep`); no recursion over the list is needed.

- `TypeCorrect`, `TableIsMemory`, `TableIsExact`, `RegionsAreMemory`: the invariants of the run.
- `DetectionFitsPmm`: how the two modules fit together. On a machine whose E820h reports memory from 1 MB to a page behind 8 MB
  (`Reports(HighBase + PageSize)`), `kend` and `high_mem` counted
  in pages are in the range `LayoutAssumption` demands of `Boots`, and the regions are, in pages, what `InitHigh` and
  `InitLow` of `Pmm` push. The other machines are the hazards at `pmm.inc:346` and `memory.inc:105`, which no module has as
  its start.

**Vmem** (`VmemProofs`, assumption `VmemAssumption`: there is a descriptor, and the arena and the requests fit
the free lists and are smaller than half the address space, so that the signed comparisons compare what they should -
`SignedIs`). The inductive invariant is

    IInv == TypeOK /\ Filling /\ OneDescriptor /\ Spares /\ Search /\ Answers

The answers are right for another reason than the one the code had in mind. `list_remove` never moves the head
of a list, so the pool hands out the descriptor freed last, `Top`, for ever: the arena, the free segment, both
spare descriptors of a call and the segment it finds are the same one (`OneDescriptor`, `Spares`, `Search`). It
begins where the arena begins and never grows, so every successful call answers the beginning of the arena
(`Answers`), and nothing outside it. `Filling` is the bootstrap, in which the pool is filled up to `Top`. The
lists are those of powers of two: `PowerType` and `PowerStep` have 2^n as the number of subsets of a set of n
elements, and `ListFacts` finds the position of the highest bit as a smallest number, both without induction
over the exponent.

- `TypeCorrect`, `AnswersAreInArena`: the invariants of the run. The count of descriptors has no lower bound.
- `EveryAnswerIsBase`: an answer that is not 0 is the first address of the arena - two successful calls get the same.
- `SparesAreOne`: the two spare descriptors of every call are one.

**FatLoad** (`FatLoadProofs`, assumption `DiskAssumption`: what a FAT12 disk is - the chain of the file in the first FAT,
clusters on the disk, a file that fits the segment, one entry of the kernel's name). The inductive invariant is

    IInv == TypeOK /\ EarlyOK /\ DirectoryOK /\ WalkOK /\ LoadedOK /\ NotFoundIsTrue

`EarlyOK` is the time before the BPB, when only the first two sectors are read, which every geometry finds.
`DirectoryOK` says how much of a table the read has brought to the beginning of the buffer (`Reading`), and
`WalkOK` that the first clusters of the file are in place while `cluster` is the next one and the FATs are in the
buffer. Three lemmas carry it: `ChsExact` (cylinder, head and sector name the sector they were computed from),
`SuccessorIsEntry` (the 16-bit word at one and a half times the cluster holds its 12-bit entry, for even and odd
clusters) and `FileSectorIs` (the sectors of a cluster follow each other in the file).

- `TypeCorrect`, `ReadsStayOnDisk`, `NotFoundIsHonest`: invariants of the run, on every drive.
- `KernelIsLoaded`: `KernelLoaded` under `SmallOnHardDisk` - a drive with the disk extensions has only kernels of one
  cluster. The run `fatload_lba` shows that the hypothesis cannot be dropped.

**Archive** (`ArchiveProofs`, assumptions `SizeAssumption` and `ArchiveAssumption`: the members lie one behind the
other at even offsets, extended names fit the entry, and fewer reads fail than a header has bytes). The inductive invariant is

    IInv == /\ TypeOK /\ FdsOK /\ ReadOK /\ MagicOK /\ HeaderOK /\ ParseOK /\ NameOK
            /\ KnownOK /\ ReportOK /\ NamesOK /\ CloseOK

`HeaderTrue` does not say where the descriptor is, and that is what the next header depends on. `ReadOK` says that a
read has consumed what it counted and at most one byte more for each error; `HeaderOK`, `ParseOK`, `NameOK` and
`ReportOK` carry the distance between the descriptor and the next header through the parts of the walk. The
heart of it is `Recognition`: what is recognised ends where a header ends, the descriptor is less than a header
behind the place where it should be, headers are at least a header apart - so it is the right one, and
no error was in it. All of that is under `OnTrack`: no extended name is odd and no failed read has reached the
entry's size. Behind such a read the walk may stand anywhere, and the invariant keeps types, descriptors and
the count.

- `TypeCorrect`, `HeadersAreTrue`, `NamesAreTrue`, `NothingStaysOpen`: the invariants of the run.

**TableLoad and ObjectTools** (`ObjectToolsProofs`, assumptions `FileAssumption` and `NameAssumption`: what a file is).
The inductive invariant is

    IInv == /\ TypeOK /\ Shape /\ ToolOK /\ StreamsOK /\ LoadOK /\ TablesOK
            /\ NothingLeaks /\ LostOK /\ PutOK /\ FilledOK /\ FailureOK /\ CrashIsExplained

`LoadOK` says which tables have been read at which of the nine, twelve or four steps of a loader, so that behind it
every table with entries is there (`TablesOK`), and what is read and not there has length 0 (`NeedsLoaded`). `LostOK` says that a lost block is
smaller than what the buffer counts as its capacity: that is why giving the buffers back neither frees a lost block nor
takes it for one in use. `FilledOK` follows elf_init from buffer to buffer: from then on a buffer without
contents means that a `realloc` has failed, which is all that can lead to `memcpy` to NULL. One
lemma (`LoaderInv`, `MoveInv`, `PutInv`, `ElfInv`, `LeftInv`) for each kind of step carries what such a step leaves alone.

- `TypeCorrect`, `NothingIsLeft`, `CrashesAreExplained`, `RefusalsAreTrue`: the invariants of the run that are about
  memory, streams and what is refused.

What is in the buffers and in the file is the matter of a second invariant on top of the first,

    Content == /\ Inside /\ Headers /\ Final
               /\ lost = {} => Beginning /\ Exporting /\ Writing

`Inside`: no buffer has contents at or behind its end. So what `buffer_put` stores is new and everything else
stays (`Kept`). `Beginning` and `Exporting` follow fas2sym from the first name put to the last symbol; `Right`
says of one symbol of the output that its name and value are those of the symbol that belongs there, and
`Listed` says it of all in the table. The place of a symbol is the number of defined symbols up to it (`Rank`),
as in BootMemory. `Writing` takes the file part by part, each at the offset the lengths of the parts before give
it (`Starts`, `InFile`); `Headers` and `Final` are what the headers name at the end. `Placed` is about `-t`: the
search for the two symbols is a recursive function, so `ScanFacts` gives its value outright (`Found`) and shows
it right by a smallest place where the two would differ, not by induction.

- `ContentIsRight`: the invariant. `OutputIsExact`, `TextIsRange`: the two remaining invariants of the run.

**Fdisk** (`FdiskProofs`, assumption `InputAssumption`). The invariant ties the length of the string to `col` while
a line is read and to the line before `row` when it is there, the block in use to the pointer, and the
commands done to the lines behind `row`.

- `TypeCorrect`, `CommandsAreTrue`, `NothingIsLeft`: the invariants of the run, for buffers and lines of
  any length and any number of failing calls.

**Only model-checked.** The liveness properties `CallsReturn`, `TickServed`, `KeyRead`, `DetectionEnds`, `LoadEnds` and
`WalkEnds`: TLAPS does not treat fairness and ENABLED. Every other property of a passing run is stated by a
theorem. The properties of the four runs that end in a violation are refuted, not proved; where a hypothesis
repairs one (`SmallRegions`, `SmallOnHardDisk`) the theorem has it.

## 5. Where the code disagrees with itself

1. **Memory above 2 GB is refused** (`pmm_2g`, `NoMemoryLeft`). `pmm_alloc` compares the size of a block with
   the request by `jge` (`kernel/mm/pmm.inc:212`), a signed comparison. A block of 2^31 bytes or more looks
   negative and is passed over for every request, and the call ends in "no memory left :'("
   (`pmm.inc:204`) with all of it free. `pmm_init` makes one block of everything above 8 MB.
2. **An allocated segment stays on a free list** (`vmem_list`, `AllocatedLeavesList`). `list_insert_head`
   stores in the back link the element's own address (`kernel/queue.inc:33`) where the head's belongs, so
   `list_remove` does not remove a first element; and a split puts the piece it allocates on the free
   list, not what is left (`kernel/mm/vmem.inc:762`). The comment reads "remove seg from freelist"
   (`vmem.inc:696`).
3. **An instant fit that finds nothing never returns** (`vmem_instant`, `InstantFitReturns`). The flags for
   the second strategy are computed in EAX and not stored (`vmem.inc:678-684`), `.retry_strat` reads the old
   ones from the stack and repeats the search. The header promises "Allocated address on succes, 0 on
   failure" (`vmem.inc:532`).

4. **A kernel of more than one cluster is not loaded from a hard disk** (`fatload_lba`, `KernelLoaded`). The loop
   of `fat_load_binary` needs `disk_read_sectors` to leave BX behind the last sector, as the floppy path does
   (`boot/loader/disk.inc:34`); the path by logical block (`disk.inc:42-54`) leaves it where it was, and
   every cluster overwrites the one before. `loader.asm:62` says "load kernel from filesystem".

Met while modelling, without a run of their own - the models have them as they are, and the properties except them:

- **Kilobytes are taken for bytes.** E801h and 88h answer with a "Number of contiguous KB above 1MB" (`memory.inc:123`),
  which is given to `boot_info_add_memmap` as a length in bytes (`memory.inc:105`, `136`). A machine whose memory is
  learned from them ends with `high_mem` less than 64 KB above 1 MB, and `pmm_init` makes a block of almost 4 GB at 8 MB
  of it (`pmm.inc:346`; BootMemory's `PmmInit`, excepted by `Reports`).
- **A serial or network interrupt prints from nowhere.** `klog` takes "EAX - null-terminated string"
  (`klog.inc:222-230`), `com_irq1` and `ne2k_irq` put it into ESI (`com.inc:134`, `ne2k.inc:112`). If the page EAX happens to
  name is not mapped, the handler never returns (Interrupts' `Klog` and `Faulted`, excepted in `TickServed`).
- **A failed read of an extended name damages the header.** `read_data` adds the -1 of `read` to its count
  (`archive.c:26`), so the next byte goes before the buffer; for an extended name that is the last byte of the entry's
  size (`archive.h:13-14`), by which `archive_skip_entry` then moves (Archive's `damage`, excepted in `HeaderTrue` and
  `MembersReported`).
- **Tables without entries are read.** The loaders leave the pointer of a table of length 0 at NULL (`fas.c:33-36`), and
  the programs read it when a file refers to such a table (`fas.c:161`, `fasdump/main.c:142`; ObjectTools' `Reads`, named
  in `CrashIsExplained`).
- **A request of 2 GB or more fits everywhere.** The best fit compares by `jge` (`vmem.inc:647-648`): such a request is
  negative, and any segment is larger. No caller asks for that much (`VmemAssumption` excludes it).
- **`-p` takes any character.** `optarg[0] < '0' && optarg[0] > '3'` (`sbin/fdisk/main.c:101`) never holds, so `-p9` stores
  a pointer behind `partfile` (`main.c:105`; Fdisk's `Args`). No property of Fdisk is about it.

## 6. What is not modelled

- *Inside the modelled parts.* `au32PmmLowMemBitmap`, which `_pmm_init_low_memory` fills and nothing reads;
  that `pmm_free` and `_pmm_init_region` give ESI and EDI back exchanged (`pmm.inc:115-116`, `298-299`);
  in `Pmm`, machines that do not report memory above 8 MB; files of more
  than 64 KB; the copy of the kernel to 1 MB; `vmem_xalloc` with an alignment (no caller, and its code jumps into
  the middle of another loop); `vmem_size` and `list_map`; the exception gates and `isr_common`;
  `pic_disable` (never called); everything that is printed.
- *Stubs.* svm, system calls, most of vfs and console: routines that return at once.
- *Not built.* `kernel/heap.inc`: its include is commented out and it calls routines that are gone.
- *No behaviour of their own.* GDT and TSS loading, page table bootstrap (a straight line run once), structure
  declarations, the UEFI tables, C library helpers.
- *Formatting.* What readcoff and fasdump display of a table that is there, the loader's messages.
- *Not written yet.* `bin/ld`, `bin/elf2coff`, `mtree` and `boot-install` parse their options around nothing;
  `bin/ar/main.c` is empty; fdisk's labels are. `archive_copy` and the encoding of archive headers are
  declared only.
- *No caller.* `coff_addsym`, `coff_getsym`; `device_read`, `device_write` and `repl_ask` of fdisk.
- *Outside the abstraction.* Bytes that `read_data` stores before `archive_open`'s magic and before the header in
  `archive_get_entry_hdr`, local arrays both (before a name it is the entry's size, and that is modelled); an extended
  name that does not fit `entry.name`, whose length `atoi` gives and nothing checks (`archive.c:100-103`). In
  ObjectTools, what a display prints for offsets beyond the end of a table; an offset into a table of length 0 is
  taken to lie in the pages behind NULL that are never mapped. In Fdisk, input with NUL bytes (`repl.c:21`, `35`), and
  what a write outside `partfile` changes when it does not end the program.
- *Vendored and generated.* The contents of `external/` are empty here; images and documentation tools.

## 7. Plan

Done: 1. `BlockPool`, `Pmm` and their proofs. 2. `Interrupts` and its proofs. 3. `Vmem` and its proofs. 4.
`BootMemory` and its proofs, with the theorem that `Pmm` starts from what it ends with. 5. `FatLoad` and its
proofs. 6. The host tools that do something: `Archive`, `Fdisk`, `TableLoad` and `ObjectTools` with their
proofs.

What is left, in this order:

7. **StupidFS in the loader** (`boot/loader/stpdfs.inc`): directory search, inodes and zones, on the same
   `disk_read_sectors`; then **A20** (`a20.inc`): the methods in turn against a machine where any subset works; that it ends.
8. **CGA and klog**: the cursor stays on the screen whatever is written; the argument walk reads as many
   words as the format names. Theorem: the cursor invariant for every screen size.
9. **Locks, buffer cache, processes** (`lock.inc`, `bio.inc`, `proc.inc`), when something calls them: mutual
   exclusion, no slot given twice, no waiting on oneself.
10. **Pure algorithms**: chacha quarter round, RC4 key schedule, NTT butterflies, lzp round trip,
    each against a reference definition over bounded inputs, with 2^w arithmetic.

Theorems to come: those of the modules above, and the liveness properties as far as a bound on the steps of a call (a
number that every step makes smaller) can stand for them without fairness.
