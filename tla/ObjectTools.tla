---------------------------- MODULE ObjectTools ----------------------------
(***************************************************************************)
(* The symbol tools behind the loaders of TableLoad.  fasdump and readcoff *)
(* display what was asked for.  fas2sym (main.c, fas.c, elf.c, buffer.c)   *)
(* collects the symbols in growing buffers and writes an ELF file.         *)
(*                                                                         *)
(* A buffer is what has been copied into it, by offset; a string is a      *)
(* name, with the length NameLen gives it.                                 *)
(***************************************************************************)
EXTENDS TableLoad, FiniteSets

CONSTANTS
    Names,     \* the names of symbols and of the source file
    NameLen,   \* and their lengths
    Ranges,    \* the arguments of -t: <<>>, or the names of the begin and the end
    Word       \* values are kept modulo this, 2^32 in the program

ASSUME NameAssumption ==
    /\ NameLen \in [Names -> Nat \ {0}] /\ Word \in Nat \ {0}
    /\ \A r \in Ranges : r = <<>> \/ r \in Names \X Names
    /\ \A f \in Files :
          /\ f.input \in Names
          /\ f.symbols \in Seq([name : Names, place : {"none", "strtab", "psrc"},
                                def : BOOLEAN, asm : BOOLEAN, value : Nat])
          /\ "symtab" \in f.empty <=> f.symbols = <<>>

Buffers == {"shstrtab", "strtab", "symtab"}
EhdrSize == 52
SymSize == 16
ShdrsSize == 200      \* five section headers
InitialNames == 34    \* the bytes of elf_shstrtab_init's string

VARIABLES
    range,     \* text_begin and text_end
    buf,       \* the three buffers
    put,       \* the arguments of the present buffer_put
    idx,       \* the offset of the last string
    next,      \* the symbol of the input that is looked at
    shdrs,     \* the section headers
    shoff,     \* e_shoff
    out,       \* the parts of the output: where they lie, their size and contents
    outpos,    \* its length
    written,   \* elf_write's status is 0
    lost,      \* blocks whose address a failed realloc has overwritten
    flushed    \* fclose could write what was left of the output

elfVars == <<range, buf, put, idx, next, shdrs, shoff, out, outpos, written, lost, flushed>>
vars == <<loadVars, elfVars>>
loading == <<tool, options, file, step, ptr, loaded, streams>>
writing == <<shoff, out, outpos, written, flushed>>

NoData == [o \in {} |-> ""]
NoBuffers == [b \in Buffers |-> [cap |-> 0, cnt |-> 0, null |-> TRUE, data |-> NoData]]
NoPut == [buf |-> "strtab", item |-> "", size |-> 0, ok |-> "loaded", fail |-> "loaded"]

Init ==
    /\ LoadInit
    /\ range \in {r \in Ranges : tool = "fas2sym" \/ r = <<>>}
    /\ buf = NoBuffers
    /\ put = NoPut /\ idx = 0 /\ next = 1
    /\ shdrs = [s \in Buffers \cup {"text"} |-> [addr |-> 0, offset |-> 0, size |-> 0, info |-> 0]]
    /\ shoff = 0 /\ out = NoData /\ outpos = 0
    /\ written = FALSE /\ lost = {} /\ flushed = TRUE

-----------------------------------------------------------------------------
\* A display that reads a table which is not there ends the program, unless what
\* it reads is at offset 0 and printf knows what to print for NULL.
Reads(tables, label) ==
    IF tables \subseteq loaded THEN pc' = label ELSE pc' \in {"crash", label}

\* The tables a part of the display is made from, by the lengths and offsets in
\* the file; nothing looks whether a table of length 0 is referred to.
Places == {file.symbols[i].place : i \in DOMAIN file.symbols} \ {"none"}

FasdumpNeeds(part) ==
    CASE part = "header" -> {"strtab"}
      [] part = "sections" /\ "sectab" \notin file.empty -> {"strtab", "sectab"}
      [] part = "symbols" /\ file.symbols # <<>> -> {"symtab"} \cup Places
      [] OTHER -> {}

ReadcoffNeeds(part) == IF part = "sections" THEN {"scnhdrs"} ELSE {}

Needs(part) == IF tool = "fasdump" THEN FasdumpNeeds(part) ELSE ReadcoffNeeds(part)

\* process_file of fasdump, main of readcoff.
ShowParts ==
    /\ pc = "loaded" /\ tool # "fas2sym"
    /\ Reads(UNION {Needs(part) : part \in options}, "free_tables")
    /\ UNCHANGED <<loading, heap, faults, elfVars>>

Status == IF tool # "fas2sym" \/ written THEN "success" ELSE "failure"

\* The cleanup that ends each of the programs.
FreeAll ==
    /\ pc = "free_tables"
    /\ FreeTables
    /\ pc' = Status
    /\ UNCHANGED <<tool, options, file, step, streams, faults, elfVars>>

-----------------------------------------------------------------------------
\* Call buffer_put(b, item, size), and go on at `ok' or at `fail'.
BufferPut(b, item, size, ok, fail) ==
    /\ put' = [buf |-> b, item |-> item, size |-> size, ok |-> ok, fail |-> fail]
    /\ pc' = "put"

Room == buf[put.buf].cnt + put.size
Grown == IF buf[put.buf].cap = 0 THEN 32 ELSE 2 * buf[put.buf].cap

\* Store v at offset o of a buffer's contents.
Stored(data, o, v) == [x \in DOMAIN data \cup {o} |-> IF x = o THEN v ELSE data[x]]

\* Fault: one doubling is taken to be enough.
Grow_Once ==
    /\ pc = "put" /\ buf[put.buf].cap < Room
    /\ buf' = [buf EXCEPT ![put.buf] = [cap |-> Grown, cnt |-> Room, null |-> FALSE,
                  data |-> Stored(@.data, @.cnt, put.item)]]
    /\ heap' = IF buf[put.buf].null THEN heap \cup {<<put.buf, Grown>>}
               ELSE (heap \ {<<put.buf, buf[put.buf].cap>>}) \cup {<<put.buf, Grown>>}
    /\ pc' = put.ok
    /\ UNCHANGED <<loading, faults, range, put, idx, next, shdrs, writing, lost>>

\* realloc moves the block and what it holds; behind a failure it begins a new
\* one, and what was put before is not in it.
Grow ==
    /\ pc = "put" /\ buf[put.buf].cap < Room
    /\ buf' = [buf EXCEPT ![put.buf].cap = Grown, ![put.buf].null = FALSE]
    /\ heap' = IF buf[put.buf].null THEN heap \cup {<<put.buf, Grown>>}
               ELSE (heap \ {<<put.buf, buf[put.buf].cap>>}) \cup {<<put.buf, Grown>>}
    /\ UNCHANGED <<loading, pc, faults, range, put, idx, next, shdrs, writing, lost>>

\* realloc fails: the only pointer to the block is overwritten, the capacity
\* keeps its new value.  A symbol whose name was to be put is anonymous.
GrowFails ==
    /\ pc = "put" /\ buf[put.buf].cap < Room /\ Fault
    /\ buf' = [buf EXCEPT ![put.buf].cap = Grown, ![put.buf].null = TRUE,
                  ![put.buf].data = NoData]
    /\ lost' = IF buf[put.buf].null THEN lost
               ELSE lost \cup {<<put.buf, buf[put.buf].cap>>}
    /\ idx' = IF put.ok = "add_symbol" THEN 0 ELSE idx
    /\ pc' = put.fail
    /\ UNCHANGED <<loading, heap, range, put, next, shdrs, writing>>

\* memcpy, to NULL behind a failed realloc whose capacity is enough.
Copy ==
    /\ pc = "put" /\ buf[put.buf].cap >= Room
    /\ IF buf[put.buf].null
         THEN pc' = "crash" /\ UNCHANGED buf
         ELSE /\ buf' = [buf EXCEPT ![put.buf].cnt = Room,
                            ![put.buf].data = Stored(@, buf[put.buf].cnt, put.item)]
              /\ pc' = put.ok
    /\ UNCHANGED <<loading, heap, faults, range, put, idx, next, shdrs, writing, lost>>

-----------------------------------------------------------------------------
Symbol(name, value, type, sect) ==
    [name |-> name, value |-> value % Word, type |-> type, sect |-> sect]

\* elf_init
InitShstrtab ==
    /\ pc = "loaded" /\ tool = "fas2sym"
    /\ BufferPut("shstrtab", "", InitialNames, "init_strtab", "elf_cleanup")
    /\ UNCHANGED <<loading, heap, faults, range, buf, idx, next, shdrs, writing, lost>>

InitStrtab ==
    /\ pc = "init_strtab"
    /\ BufferPut("strtab", "", 2, "init_symtab", "elf_cleanup")
    /\ UNCHANGED <<loading, heap, faults, range, buf, idx, next, shdrs, writing, lost>>

InitSymtab ==
    /\ pc = "init_symtab"
    /\ BufferPut("symtab", Symbol(0, 0, "NOTYPE", "UNDEF"), SymSize, "export_file", "elf_cleanup")
    /\ UNCHANGED <<loading, heap, faults, range, buf, idx, next, shdrs, writing, lost>>

\* elf_add_str: the offset is known before there is room.
AddStr(name, ok, fail) ==
    /\ BufferPut("strtab", name, NameLen[name] + 1, ok, fail)
    /\ idx' = buf["strtab"].cnt

\* elf_add_symbol: the symbol is counted before there is room.
AddSymbol(value, type, ok) ==
    /\ BufferPut("symtab", Symbol(idx, value, type, "ABS"), SymSize, ok, ok)
    /\ shdrs' = [shdrs EXCEPT !["symtab"].info = @ + 1]

\* fas_export_symbols looks at no answer, and strlen at no NULL.
ExportFileName ==
    /\ pc = "export_file"
    /\ IF "strtab" \in loaded THEN AddStr(file.input, "add_file", "add_file")
                              ELSE pc' = "crash" /\ UNCHANGED <<put, idx>>
    /\ UNCHANGED <<loading, heap, faults, range, buf, next, shdrs, writing, lost>>

ExportFile ==
    /\ pc = "add_file"
    /\ AddSymbol(0, "FILE", "export")
    /\ UNCHANGED <<loading, heap, faults, range, buf, idx, next, writing, lost>>

Exported(s) == s.def /\ ~s.asm

Skip ==
    /\ pc = "export" /\ next <= Len(file.symbols) /\ ~Exported(file.symbols[next])
    /\ next' = next + 1
    /\ UNCHANGED <<loading, pc, heap, faults, range, buf, put, idx, shdrs, writing, lost>>

\* fas_export_symbol_name: no name, or one in either of two tables.
ExportName ==
    /\ pc = "export" /\ next <= Len(file.symbols) /\ Exported(file.symbols[next])
    /\ LET s == file.symbols[next]
       IN  IF s.place = "none" THEN idx' = 0 /\ pc' = "add_symbol" /\ UNCHANGED put
           ELSE IF s.place \in loaded THEN AddStr(s.name, "add_symbol", "add_symbol")
           ELSE pc' = "crash" /\ UNCHANGED <<put, idx>>
    /\ UNCHANGED <<loading, heap, faults, range, buf, next, shdrs, writing, lost>>

ExportSymbol ==
    /\ pc = "add_symbol"
    /\ AddSymbol(file.symbols[next].value, "OBJECT", "export")
    /\ next' = next + 1
    /\ UNCHANGED <<loading, heap, faults, range, buf, idx, writing, lost>>

ExportEnds ==
    /\ pc = "export" /\ next > Len(file.symbols)
    /\ pc' = "elf_write"
    /\ UNCHANGED <<loading, heap, faults, elfVars>>

-----------------------------------------------------------------------------
\* elf_write: e_shoff is behind the header and the three tables.
OpenOut ==
    /\ pc = "elf_write"
    /\ streams' = streams \cup {"out"}
    /\ shoff' = EhdrSize + buf["shstrtab"].cnt + buf["strtab"].cnt + buf["symtab"].cnt
    /\ pc' = "resolve"
    /\ UNCHANGED <<tool, options, file, step, ptr, loaded, heap, faults,
                   range, buf, put, idx, next, shdrs, out, outpos, written, lost, flushed>>

OpenOutFails ==
    /\ pc = "elf_write" /\ Fault
    /\ pc' = "elf_cleanup"
    /\ UNCHANGED <<loading, heap, elfVars>>

\* The symbols of a table in their order, and the names the offsets mean.
Sym(symtab, i) == symtab[SymSize * i]
Symbols == buf["symtab"].data
NameOf(i) == buf["strtab"].data[Sym(Symbols, i).name]

\* No contents have been lost.
Whole == \A b \in Buffers : ~buf[b].null /\ 0 \in DOMAIN buf[b].data

\* What elf_resolve_symbols makes of what it has found when it comes to symbol i:
\* it stops when both values are not 0, and a later symbol of a name replaces an
\* earlier one.
ScanStep(r, i) ==
    IF r.begin # 0 /\ r.end # 0 THEN r
    ELSE IF NameOf(i) = range[1] THEN [r EXCEPT !.begin = Sym(Symbols, i).value]
    ELSE IF NameOf(i) = range[2] THEN [r EXCEPT !.end = Sym(Symbols, i).value]
    ELSE r

\* What it has found in the first n symbols.
Scan(n) ==
    LET s[i \in 0 .. n] == IF i = 0 THEN [begin |-> 0, end |-> 0] ELSE ScanStep(s[i - 1], i - 1)
    IN  s[n]

\* Fault: the symbol at the end is left out.
InText_Open(v, r) == v >= r.begin /\ v < r.end

\* The values between the two, both included.
InText(v, r) == v >= r.begin /\ v <= r.end

Resolve ==
    /\ pc = "resolve" /\ range # <<>> /\ Whole
    /\ LET r == Scan(buf["symtab"].cnt \div SymSize)
       IN  /\ shdrs' = [shdrs EXCEPT !["text"].addr = r.begin,
                           !["text"].size = (r.end - r.begin) % Word]
           /\ buf' = [buf EXCEPT !["symtab"].data = [o \in DOMAIN @ |->
                         IF InText(@[o].value, r) THEN [@[o] EXCEPT !.sect = "TEXT"] ELSE @[o]]]
    /\ pc' = "write" /\ step' = 1
    /\ UNCHANGED <<tool, options, file, ptr, loaded, streams, heap, faults,
                   range, put, idx, next, writing, lost>>

\* Behind a failed realloc the symbols and names are NULL or whatever was in the
\* new block: the walk ends the program or finds nothing.
ResolveGarbage ==
    /\ pc = "resolve" /\ range # <<>> /\ ~Whole
    /\ pc' \in {"crash", "write"} /\ step' = 1
    /\ UNCHANGED <<tool, options, file, ptr, loaded, streams, heap, faults, elfVars>>

NoRange ==
    /\ pc = "resolve" /\ range = <<>>
    /\ pc' = "write" /\ step' = 1
    /\ UNCHANGED <<tool, options, file, ptr, loaded, streams, heap, faults, elfVars>>

Parts == <<"ehdr", "shstrtab", "strtab", "symtab", "shdrs">>
Part == Parts[step]
PartSize == CASE Part = "ehdr"    -> EhdrSize
              [] Part = "shdrs"   -> ShdrsSize
              [] Part \in Buffers -> IF buf[Part].null THEN 0 ELSE buf[Part].cnt

\* Fault: the first table's length is not added.
Offset_First(b) == IF b = "symtab" THEN EhdrSize + buf["strtab"].cnt
                   ELSE IF b = "strtab" THEN EhdrSize + buf["shstrtab"].cnt ELSE EhdrSize

\* elf_compute_section_offsets
Offset(b) ==
    CASE b = "shstrtab" -> EhdrSize
      [] b = "strtab"   -> EhdrSize + buf["shstrtab"].cnt
      [] b = "symtab"   -> EhdrSize + buf["shstrtab"].cnt + buf["strtab"].cnt

\* The section headers as they are written, with the null symbol counted too.
Completed ==
    [s \in DOMAIN shdrs |->
        IF s = "text" THEN shdrs[s]
        ELSE [shdrs[s] EXCEPT !.offset = Offset(s), !.size = buf[s].cnt,
                              !.info = IF s = "symtab" THEN @ + 1 ELSE @]]

PartData == CASE Part = "ehdr"    -> shoff
              [] Part = "shdrs"   -> Completed
              [] Part \in Buffers -> buf[Part].data

WritePart ==
    /\ pc = "write" /\ step <= Len(Parts)
    /\ out' = IF PartSize = 0 THEN out
              ELSE Stored(out, Part, [at |-> outpos, size |-> PartSize, data |-> PartData])
    /\ outpos' = outpos + PartSize
    /\ shdrs' = IF Part = "shdrs" THEN Completed ELSE shdrs
    /\ step' = step + 1
    /\ UNCHANGED <<tool, options, file, pc, ptr, loaded, streams, heap, faults,
                   range, buf, put, idx, next, shoff, written, lost, flushed>>

\* A table that is NULL or empty is not written at all.
WriteFails ==
    /\ pc = "write" /\ step <= Len(Parts) /\ PartSize > 0 /\ Fault
    /\ pc' = "fclose"
    /\ UNCHANGED <<loading, heap, elfVars>>

AllWritten ==
    /\ pc = "write" /\ step > Len(Parts)
    /\ written' = TRUE /\ pc' = "fclose"
    /\ UNCHANGED <<loading, heap, faults, range, buf, put, idx, next, shdrs, shoff, out,
                   outpos, lost, flushed>>

\* What fclose answers is not looked at.
CloseOut ==
    /\ pc = "fclose"
    /\ \/ flushed' = TRUE /\ UNCHANGED faults
       \/ flushed' = FALSE /\ Fault
    /\ streams' = streams \ {"out"} /\ pc' = "elf_cleanup"
    /\ UNCHANGED <<tool, options, file, step, ptr, loaded, heap, range, buf, put, idx, next,
                   shdrs, shoff, out, outpos, written, lost>>

\* elf_cleanup
ElfCleanup ==
    /\ pc = "elf_cleanup"
    /\ heap' = heap \ {<<b, buf[b].cap>> : b \in {c \in Buffers : ~buf[c].null}}
    /\ buf' = NoBuffers /\ pc' = "free_tables"
    /\ UNCHANGED <<loading, faults, range, put, idx, next, shdrs, writing, lost>>

Export == \/ InitShstrtab \/ InitStrtab \/ InitSymtab \/ ExportFileName \/ ExportFile
          \/ Skip \/ ExportName \/ ExportSymbol \/ ExportEnds \/ Grow \/ GrowFails \/ Copy

Write == \/ OpenOut \/ OpenOutFails \/ Resolve \/ ResolveGarbage \/ NoRange
         \/ WritePart \/ WriteFails \/ AllWritten \/ CloseOut

Ends == {"usage", "success", "failure", "crash"}
Finished == pc \in Ends /\ UNCHANGED vars

Next == (Load /\ UNCHANGED elfVars) \/ ShowParts \/ Export \/ Write \/ ElfCleanup \/ FreeAll
        \/ Finished

Spec == Init /\ [][Next]_vars

-----------------------------------------------------------------------------
\* Every variable has its type, and a buffer holds no more than it has room for.
TypeOK ==
    /\ LoadTypeOK
    /\ pc \in Ends \cup {"args", "fopen", "header", "load", "load_failed", "loaded", "put",
                "init_strtab", "init_symtab", "export_file", "add_file", "export", "add_symbol",
                "elf_write", "resolve", "write", "fclose", "elf_cleanup", "free_tables"}
    /\ range \in Ranges
    /\ \A b \in Buffers : buf[b].cap \in Nat /\ buf[b].cnt \in 0 .. buf[b].cap
    /\ next \in 1 .. (Len(file.symbols) + 1)
    /\ idx \in Nat /\ shoff \in Nat /\ outpos \in Nat
    /\ DOMAIN out \subseteq {Parts[i] : i \in DOMAIN Parts}

\* When a tool ends, whatever failed and however far it had come, no stream is
\* open and no memory in use but what a failed realloc has lost; until then what
\* the pointers name has not been freed.
NothingLeaks ==
    /\ pc \in {"success", "failure"} => streams = {} /\ heap = lost
    /\ pc \notin Ends =>
          heap = {<<t, 0>> : t \in ptr} \cup lost
                   \cup {<<b, buf[b].cap>> : b \in {c \in Buffers : ~buf[c].null}}

\* The tables the input refers to for what the tool is to do with it.
Referred ==
    CASE tool = "fas2sym" ->
            {"strtab"} \cup {file.symbols[i].place : i \in {j \in DOMAIN file.symbols :
                                                            Exported(file.symbols[j])}}
      [] tool = "fasdump" -> UNION {FasdumpNeeds(part) : part \in options}
      [] tool = "readcoff" -> {}

\* No tool reads through NULL, or a table of which it has not read all, or copies
\* to NULL, but for two reasons: fas2sym went on exporting behind a failed
\* realloc, or the file refers into a table of its own that has length 0.
CrashIsExplained ==
    pc = "crash" => \/ tool = "fas2sym" /\ lost # {}
                    \/ Referred \cap file.empty # {}

\* A tool refuses only what it cannot read or a file that is damaged or of
\* another kind; readcoff refuses COFF files without sections too, for which it
\* takes fread's answer of 0 for an error.
RefusalIsTrue ==
    pc = "failure" /\ faults = 0 =>
        \/ file.kind # (IF tool = "readcoff" THEN "coff" ELSE "fas")
        \/ file.optional = "bad"
        \/ file.short \cap ({"header", "optional"} \cup {Steps[k].of : k \in DOMAIN Steps}) # {}
        \/ tool = "readcoff" /\ "scnhdrs" \in file.empty

\* fas2sym has succeeded, no buffer has lost memory and the system took the last
\* of the output.
Output == pc = "success" /\ tool = "fas2sym" /\ lost = {} /\ flushed

\* The symbols of the input that go to the output, of the first n, and how many
\* they are.
Defined(n) == {i \in 1 .. n : Exported(file.symbols[i])}
Rank(n) == Cardinality(Defined(n))

\* The name a symbol of the input has.
NameIn(i) == IF file.symbols[i].place = "none" THEN "" ELSE file.symbols[i].name

\* What a reader of the output finds, by the section headers behind e_shoff.
OutHeaders == out["shdrs"].data
OutSym(i) == Sym(out["symtab"].data, i)
OutName(i) == out["strtab"].data[OutSym(i).name]
OutCount == OutHeaders["symtab"].size \div SymSize

\* The section headers are where e_shoff says, each table where its section
\* header says, and the symbols are the null symbol, the file's and every
\* defined symbol in its order, under the name it has in the input; sh_info is
\* one more than the last of them.
TablesMatch ==
    /\ out["ehdr"].data = out["shdrs"].at /\ outpos = out["shdrs"].at + ShdrsSize
    /\ \A b \in Buffers : OutHeaders[b].offset = out[b].at /\ OutHeaders[b].size = out[b].size
    /\ OutCount = Rank(Len(file.symbols)) + 2 /\ OutHeaders["symtab"].info = OutCount
    /\ OutSym(0).name = 0 /\ OutName(1) = file.input
    /\ \A i \in Defined(Len(file.symbols)) :
          /\ OutName(Rank(i) + 1) = NameIn(i)
          /\ OutSym(Rank(i) + 1).value = file.symbols[i].value % Word

OutputExact == Output => TablesMatch

\* The one value of the symbols of a name, if it is not 0.
ValueOf(name) ==
    LET syms == {i \in 0 .. (OutCount - 1) : OutName(i) = name}
    IN  {v \in 1 .. (Word - 1) : syms # {} /\ \A i \in syms : OutSym(i).value = v}

\* With -t begin,end for two different names that have one value each, none of
\* them 0, .text is the range between the two and its symbols are those in it,
\* whatever the order of the two in the table.
RangeMatches ==
    range # <<>> /\ range[1] # range[2] =>
        \A begin \in ValueOf(range[1]), end \in ValueOf(range[2]) :
            /\ OutHeaders["text"].addr = begin
            /\ OutHeaders["text"].size = (end - begin) % Word
            /\ \A i \in 0 .. (OutCount - 1) :
                  OutSym(i).sect = "TEXT" <=> OutSym(i).value \in begin .. end

TextRange == Output => RangeMatches
=============================================================================
