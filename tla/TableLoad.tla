----------------------------- MODULE TableLoad -----------------------------
(***************************************************************************)
(* How the symbol tools load their input: fas_load_file of                 *)
(* bin/fas2sym/fas.c and of bin/fasdump/main.c, coff_load_file of          *)
(* bin/readcoff/main.c.  Every call into the system may fail.              *)
(*                                                                         *)
(* A file is what the loaders can tell apart: what its first bytes say,    *)
(* which tables it has and which of its parts lie behind its end.          *)
(***************************************************************************)
EXTENDS Integers, Sequences

CONSTANTS
    Files,      \* the files the tools may be given
    MaxFaults   \* calls that fail in one run

FasTables  == {"strtab", "symtab", "psrc", "sectab"}
CoffTables == {"relocs", "secdata", "scnhdrs"}
Tables     == FasTables \cup CoffTables
FasTools   == {"fas2sym", "fasdump"}

ASSUME FileAssumption ==
    /\ MaxFaults \in Nat
    /\ \A f \in Files :
          /\ f.kind \in {"fas", "coff", "other"}
          /\ f.empty \subseteq Tables                     \* tables of length 0
          /\ f.short \subseteq Tables \cup {"header", "optional"}
          /\ f.optional \in {"none", "good", "bad"}

VARIABLES
    tool,      \* which of the three programs runs
    options,   \* what it is asked to display
    file,
    pc,
    step,      \* how far the present list of steps is done
    ptr,       \* the table pointers that are not NULL
    loaded,    \* the tables whose contents have been read
    heap,      \* the blocks of memory in use, a name and a size each
    streams,   \* the open streams
    faults     \* calls that have failed

loadVars == <<tool, options, file, pc, step, ptr, loaded, heap, streams, faults>>

-----------------------------------------------------------------------------
\* The three tables of fas2sym and the four of fasdump: malloc, fseek and fread
\* for each.
FasSteps(tables) ==
    [k \in 1 .. 3 * Len(tables) |->
        [op |-> <<"malloc", "fseek", "fread">>[((k - 1) % 3) + 1],
         of |-> tables[((k - 1) \div 3) + 1]]]

\* coff_load_sections reads the section headers where the headers end.
CoffSteps ==
    << [op |-> "malloc", of |-> "relocs"], [op |-> "malloc", of |-> "secdata"],
       [op |-> "malloc", of |-> "scnhdrs"], [op |-> "fread", of |-> "scnhdrs"] >>

Steps == CASE tool = "fas2sym"  -> FasSteps(<<"strtab", "symtab", "psrc">>)
           [] tool = "fasdump"  -> FasSteps(<<"strtab", "symtab", "psrc", "sectab">>)
           [] tool = "readcoff" -> CoffSteps

Op(op) == pc = "load" /\ step <= Len(Steps) /\ Steps[step].op = op
Table == Steps[step].of

\* Fault: a table of length 0 is read like any other.
Nothing_Never == FALSE

\* fas_load_table returns at once for a table of length 0.
Nothing == tool \in FasTools /\ Table \in file.empty

Fault == faults < MaxFaults /\ faults' = faults + 1

-----------------------------------------------------------------------------
LoadInit ==
    /\ tool \in FasTools \cup {"readcoff"}
    /\ file \in Files
    /\ pc = "args" /\ options = {} /\ step = 1
    /\ ptr = {} /\ loaded = {} /\ heap = {} /\ streams = {} /\ faults = 0

\* The parts of a file that the options of fasdump and of readcoff display.
FasdumpParts  == {"header", "sections", "symbols"}
ReadcoffParts == {"header", "optional", "sections"}

Display == CASE tool = "fas2sym"  -> {{}}
             [] tool = "fasdump"  -> SUBSET FasdumpParts
             [] tool = "readcoff" -> SUBSET ReadcoffParts

\* The options of main: what they ask for, or help, the version, a mistake.
Args ==
    /\ pc = "args"
    /\ \/ pc' = "usage" /\ UNCHANGED options
       \/ pc' = "fopen" /\ options' \in Display
    /\ UNCHANGED <<tool, file, step, ptr, loaded, heap, streams, faults>>

Open ==
    /\ pc = "fopen"
    /\ streams' = streams \cup {"in"} /\ pc' = "header"
    /\ UNCHANGED <<tool, options, file, step, ptr, loaded, heap, faults>>

OpenFails ==
    /\ pc = "fopen" /\ Fault
    /\ pc' = "failure"
    /\ UNCHANGED <<tool, options, file, step, ptr, loaded, heap, streams>>

\* A header of fasm's symbols: its magic number is all that is looked at.
FasHeader == "header" \notin file.short /\ file.kind = "fas"

\* The headers of a COFF file: the magic number, and that the optional header
\* has its size and a magic known to readcoff.
CoffHeader ==
    /\ "header" \notin file.short /\ file.kind = "coff"
    /\ \/ file.optional = "none"
       \/ file.optional = "good" /\ "optional" \notin file.short

GoodHeader == IF tool \in FasTools THEN FasHeader ELSE CoffHeader

ReadHeader ==
    /\ pc = "header" /\ GoodHeader
    /\ pc' = "load"
    /\ UNCHANGED <<tool, options, file, step, ptr, loaded, heap, streams, faults>>

\* `goto err': nothing has been allocated, only the stream is closed.
HeaderFails ==
    /\ pc = "header"
    /\ (~GoodHeader /\ UNCHANGED faults) \/ Fault
    /\ streams' = streams \ {"in"} /\ pc' = "failure"
    /\ UNCHANGED <<tool, options, file, step, ptr, loaded, heap>>

SkipTable ==
    /\ Op("malloc") /\ Nothing
    /\ step' = step + 3
    /\ UNCHANGED <<tool, options, file, pc, ptr, loaded, heap, streams, faults>>

Malloc ==
    /\ Op("malloc") /\ ~Nothing
    /\ ptr' = ptr \cup {Table} /\ heap' = heap \cup {<<Table, 0>>}
    /\ step' = step + 1
    /\ UNCHANGED <<tool, options, file, pc, loaded, streams, faults>>

Seek ==
    /\ Op("fseek")
    /\ step' = step + 1
    /\ UNCHANGED <<tool, options, file, pc, ptr, loaded, heap, streams, faults>>

\* What fread answers 1 for: all of the table, and not for 0 bytes.
Readable == Table \notin file.short \cup file.empty

ReadTable ==
    /\ Op("fread") /\ Readable
    /\ loaded' = loaded \cup {Table}
    /\ step' = step + 1
    /\ UNCHANGED <<tool, options, file, pc, ptr, heap, streams, faults>>

\* Fault: a short read is not noticed.
StepFails_FullReads ==
    /\ pc = "load" /\ step <= Len(Steps) /\ ~(Op("malloc") /\ Nothing)
    /\ (Op("fread") /\ ~Readable /\ UNCHANGED faults) \/ Fault
    /\ pc' = IF Op("fread") THEN pc ELSE "load_failed"
    /\ step' = IF Op("fread") THEN step + 1 ELSE step
    /\ UNCHANGED <<tool, options, file, ptr, loaded, heap, streams>>

\* Any step of a table may fail.
StepFails ==
    /\ pc = "load" /\ step <= Len(Steps) /\ ~(Op("malloc") /\ Nothing)
    /\ (Op("fread") /\ ~Readable /\ UNCHANGED faults) \/ Fault
    /\ pc' = "load_failed"
    /\ UNCHANGED <<tool, options, file, step, ptr, loaded, heap, streams>>

\* Fault: the sources are not freed.
FreeTables_NotPsrc ==
    /\ heap' = heap \ {<<t, 0>> : t \in ptr \ {"psrc"}}
    /\ ptr' = {} /\ loaded' = {}

\* fas_cleanup, coff_cleanup: all of the tables are freed, and NULL again.
FreeTables ==
    /\ heap' = heap \ {<<t, 0>> : t \in ptr}
    /\ ptr' = {} /\ loaded' = {}

\* `goto err_cleanup'
LoadFails ==
    /\ pc = "load_failed"
    /\ FreeTables
    /\ streams' = streams \ {"in"} /\ pc' = "failure"
    /\ UNCHANGED <<tool, options, file, step, faults>>

Loaded ==
    /\ pc = "load" /\ step > Len(Steps)
    /\ streams' = streams \ {"in"}
    /\ pc' = "loaded" /\ step' = 1
    /\ UNCHANGED <<tool, options, file, ptr, loaded, heap, faults>>

Load == \/ Args \/ Open \/ OpenFails \/ ReadHeader \/ HeaderFails \/ SkipTable \/ Malloc
        \/ Seek \/ ReadTable \/ StepFails \/ LoadFails \/ Loaded

-----------------------------------------------------------------------------
LoadTypeOK ==
    /\ tool \in FasTools \cup {"readcoff"}
    /\ options \in Display
    /\ file \in Files
    /\ step \in 1 .. 13
    /\ ptr \subseteq Tables /\ loaded \subseteq ptr
    /\ streams \subseteq {"in", "out"}
    /\ faults \in 0 .. MaxFaults
=============================================================================
