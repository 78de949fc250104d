------------------------- MODULE ObjectToolsProofs -------------------------
(***************************************************************************)
(* The symbol tools give back what they took, crash for two reasons only   *)
(* and refuse only what they must, for files with any number of symbols    *)
(* and names of any length, and however many calls fail.  What fas2sym has *)
(* written, with no block of memory lost, is what its input says.          *)
(***************************************************************************)
EXTENDS ObjectTools, FiniteSetTheorems, SequenceTheorems, WellFoundedInduction, TLAPS

LoadPcs   == {"args", "fopen", "header", "load", "load_failed", "loaded"}
ExportPcs == {"export_file", "add_file", "export", "add_symbol"}
WritePcs  == {"elf_write", "resolve", "write", "fclose"}
ElfPcs    == {"init_strtab", "init_symtab", "put"} \cup ExportPcs \cup WritePcs

Put(label) == pc = "put" /\ put.ok = label

\* A buffer nothing has been put in, one whose first block may be there, and
\* one with contents.
Fresh(b)  == buf[b].cap = 0 /\ buf[b].cnt = 0 /\ buf[b].null
Begun(b)  == buf[b].cnt = 0 /\ (buf[b].null => buf[b].cap = 0)
Filled(b) == ~buf[b].null /\ 0 \in DOMAIN buf[b].data

\* A buffer is four fields.
Shape ==
    /\ DOMAIN buf = Buffers /\ buf = [b \in Buffers |-> buf[b]]
    /\ \A b \in Buffers :
          /\ buf[b] = [cap |-> buf[b].cap, cnt |-> buf[b].cnt, null |-> buf[b].null,
                       data |-> buf[b].data]
          /\ buf[b].null \in BOOLEAN
          /\ ~buf[b].null => buf[b].cap > 0

ToolOK == pc \in ElfPcs \cup {"elf_cleanup"} => tool = "fas2sym"

StreamsOK ==
    streams = CASE pc \in {"header", "load", "load_failed"} -> {"in"}
                [] pc \in {"resolve", "write", "fclose"} -> {"out"}
                [] pc = "crash" -> streams
                [] OTHER -> {}

\* The tables of fasm's symbols come in this order, those with entries.
FasOK ==
    /\ step > 3 => "strtab" \in loaded \cup file.empty
    /\ step > 6 => "symtab" \in loaded \cup file.empty
    /\ step > 9 => "psrc" \in loaded \cup file.empty
    /\ step > 12 => "sectab" \in loaded \cup file.empty
    /\ step \in {2, 3} => "strtab" \in ptr \ file.empty
    /\ step \in {5, 6} => "symtab" \in ptr \ file.empty
    /\ step \in {8, 9} => "psrc" \in ptr \ file.empty
    /\ step \in {11, 12} => "sectab" \in ptr \ file.empty

CoffOK == (step > 3 => "scnhdrs" \in ptr) /\ (step > 4 => "scnhdrs" \in loaded)

LoadOK ==
    /\ pc \in {"args", "fopen", "header"} => ptr = {} /\ loaded = {} /\ step = 1
    /\ pc = "load" => IF tool \in FasTools THEN FasOK ELSE CoffOK
    /\ pc \in {"write"} => step <= Len(Parts) + 1

\* Behind the loader, every table that has entries has been read.
TablesOK ==
    pc \in {"loaded"} \cup ElfPcs =>
        /\ tool \in FasTools => {"strtab", "symtab", "psrc"} \subseteq loaded \cup file.empty
        /\ tool = "fasdump" => "sectab" \in loaded \cup file.empty
        /\ tool = "readcoff" => "scnhdrs" \in loaded

\* What a failed realloc has lost is no block that is still in use.
LostOK ==
    /\ pc \in LoadPcs => lost = {} /\ \A b \in Buffers : Fresh(b)
    /\ pc = "free_tables" => \A b \in Buffers : buf[b].null
    /\ lost \subseteq Buffers \X (Nat \ {0})
    /\ pc \in ElfPcs \cup {"elf_cleanup"} => \A x \in lost : x[2] < buf[x[1]].cap
    /\ lost # {} => faults > 0

PutOK ==
    /\ pc = "put" =>
          /\ put.buf \in Buffers /\ put.size \in Nat \ {0}
          /\ \/ /\ put.fail = "elf_cleanup"
                /\ <<put.ok, put.buf>> \in {<<"init_strtab", "shstrtab">>,
                                            <<"init_symtab", "strtab">>, <<"export_file", "symtab">>}
             \/ put.ok \in {"add_file", "export", "add_symbol"} /\ put.fail = put.ok
    /\ pc = "add_symbol" \/ Put("add_symbol") => next <= Len(file.symbols)

\* The buffers are begun one after the other, and from then on hold something
\* unless memory has been lost.
FilledOK ==
    /\ pc = "init_strtab" \/ Put("init_strtab") => Fresh("strtab") /\ Fresh("symtab")
    /\ pc = "init_symtab" \/ Put("init_symtab") => Filled("shstrtab") /\ Fresh("symtab")
    /\ Put("export_file") => Filled("shstrtab") /\ Filled("strtab") /\ Begun("symtab")
    /\ Put("init_strtab") => Begun("shstrtab")
    /\ pc = "init_strtab" => Filled("shstrtab")
    /\ Put("init_symtab") => Begun("strtab")
    /\ pc = "init_symtab" => Filled("strtab")
    /\ (pc \in ExportPcs \cup WritePcs \/ Put("add_file") \/ Put("export") \/ Put("add_symbol")) =>
          lost # {} \/ \A b \in Buffers : Filled(b)

Reason ==
    \/ file.kind # (IF tool = "readcoff" THEN "coff" ELSE "fas")
    \/ file.optional = "bad"
    \/ file.short \cap ({"header", "optional"} \cup {Steps[k].of : k \in DOMAIN Steps}) # {}
    \/ tool = "readcoff" /\ "scnhdrs" \in file.empty

\* Without a failed call, only the input is a reason to give up.
FailureOK ==
    /\ pc \in {"load_failed", "failure"} /\ faults = 0 => Reason
    /\ pc \in {"fclose", "elf_cleanup"} => written \/ faults > 0
    /\ pc = "free_tables" /\ tool = "fas2sym" => written \/ faults > 0

IInv ==
    /\ TypeOK /\ Shape /\ ToolOK /\ StreamsOK /\ LoadOK /\ TablesOK
    /\ NothingLeaks /\ LostOK /\ PutOK /\ FilledOK /\ FailureOK /\ CrashIsExplained

-----------------------------------------------------------------------------
\* What is known of a file.
LEMMA FileFacts ==
    ASSUME NEW f \in Files
    PROVE  /\ f.kind \in {"fas", "coff", "other"} /\ f.optional \in {"none", "good", "bad"}
           /\ Len(f.symbols) \in Nat /\ DOMAIN f.symbols = 1 .. Len(f.symbols)
           /\ "symtab" \in f.empty <=> f.symbols = <<>>
           /\ f.input \in Names
           /\ \A i \in 1 .. Len(f.symbols) :
                 /\ f.symbols[i].name \in Names
                 /\ f.symbols[i].place \in {"none", "strtab", "psrc"}
                 /\ f.symbols[i].value \in Nat
    <1> DEFINE S == [name : Names, place : {"none", "strtab", "psrc"}, def : BOOLEAN,
                     asm : BOOLEAN, value : Nat]
    <1>1. /\ f.symbols \in Seq(S) /\ f.input \in Names
          /\ "symtab" \in f.empty <=> f.symbols = <<>>
        BY NameAssumption
    <1>2. Len(f.symbols) \in Nat /\ DOMAIN f.symbols = 1 .. Len(f.symbols)
        BY <1>1
    <1>3. ASSUME NEW i \in 1 .. Len(f.symbols) PROVE f.symbols[i] \in S
        BY <1>1, <1>2, ElementOfSeq
    <1> QED BY <1>1, <1>2, <1>3, FileAssumption

\* The operation and the table of a step, by its number.
LEMMA Thirds ==
    ASSUME NEW k \in 1 .. 12
    PROVE  /\ (k - 1) % 3 = IF k \in {1, 4, 7, 10} THEN 0
                             ELSE IF k \in {2, 5, 8, 11} THEN 1 ELSE 2
           /\ (k - 1) \div 3 = IF k <= 3 THEN 0 ELSE IF k <= 6 THEN 1 ELSE IF k <= 9 THEN 2 ELSE 3
    <1>1. CASE k \in {1, 2, 3}
        BY <1>1
    <1>2. CASE k \in {4, 5, 6}
        BY <1>2
    <1>3. CASE k \in {7, 8, 9}
        BY <1>3
    <1>4. CASE k \in {10, 11, 12}
        BY <1>4
    <1> QED BY <1>1, <1>2, <1>3, <1>4

\* The first steps of fas2sym's tables are those of fasdump's.
LEMMA FasSteps3 ==
    LET s == FasSteps(<<"strtab", "symtab", "psrc">>)
    IN  /\ DOMAIN s = 1 .. 9
        /\ Len(s) = 9
        /\ \A k \in 1 .. 9 :
              /\ s[k].op = IF k \in {1, 4, 7} THEN "malloc"
                           ELSE IF k \in {2, 5, 8} THEN "fseek" ELSE "fread"
              /\ s[k].of = IF k <= 3 THEN "strtab" ELSE IF k <= 6 THEN "symtab" ELSE "psrc"
    <1> DEFINE s == FasSteps(<<"strtab", "symtab", "psrc">>)
    <1>1. s = [k \in 1 .. 9 |->
                 [op |-> <<"malloc", "fseek", "fread">>[((k - 1) % 3) + 1],
                  of |-> <<"strtab", "symtab", "psrc">>[((k - 1) \div 3) + 1]]]
        BY DEF FasSteps
    <1>2. DOMAIN s = 1 .. 9 /\ Len(s) = 9
        BY <1>1
    <1>3. ASSUME NEW k \in 1 .. 9
          PROVE  /\ s[k].op = IF k \in {1, 4, 7} THEN "malloc"
                              ELSE IF k \in {2, 5, 8} THEN "fseek" ELSE "fread"
                 /\ s[k].of = IF k <= 3 THEN "strtab" ELSE IF k <= 6 THEN "symtab" ELSE "psrc"
        <2>1. PICK op, of : /\ op = (k - 1) % 3 /\ of = (k - 1) \div 3
                           /\ s[k].op = <<"malloc", "fseek", "fread">>[op + 1]
                           /\ s[k].of = <<"strtab", "symtab", "psrc">>[of + 1]
            BY <1>1
        <2> HIDE DEF s
        <2>2. CASE k \in {1, 2, 3}
            BY <2>1, <2>2, Thirds
        <2>3. CASE k \in {4, 5, 6}
            BY <2>1, <2>3, Thirds
        <2>4. CASE k \in {7, 8, 9}
            BY <2>1, <2>4, Thirds
        <2> QED BY <2>2, <2>3, <2>4
    <1> QED BY <1>2, <1>3

\* The four tables of fasdump.
LEMMA FasSteps4 ==
    LET s == FasSteps(<<"strtab", "symtab", "psrc", "sectab">>)
    IN  /\ DOMAIN s = 1 .. 12
        /\ Len(s) = 12
        /\ \A k \in 1 .. 12 :
              /\ s[k].op = IF k \in {1, 4, 7, 10} THEN "malloc"
                           ELSE IF k \in {2, 5, 8, 11} THEN "fseek" ELSE "fread"
              /\ s[k].of = IF k <= 3 THEN "strtab" ELSE IF k <= 6 THEN "symtab"
                           ELSE IF k <= 9 THEN "psrc" ELSE "sectab"
    <1> DEFINE s == FasSteps(<<"strtab", "symtab", "psrc", "sectab">>)
    <1>1. s = [k \in 1 .. 12 |->
                 [op |-> <<"malloc", "fseek", "fread">>[((k - 1) % 3) + 1],
                  of |-> <<"strtab", "symtab", "psrc", "sectab">>[((k - 1) \div 3) + 1]]]
        BY DEF FasSteps
    <1>2. DOMAIN s = 1 .. 12 /\ Len(s) = 12
        BY <1>1
    <1>3. ASSUME NEW k \in 1 .. 12
          PROVE  /\ s[k].op = IF k \in {1, 4, 7, 10} THEN "malloc"
                              ELSE IF k \in {2, 5, 8, 11} THEN "fseek" ELSE "fread"
                 /\ s[k].of = IF k <= 3 THEN "strtab" ELSE IF k <= 6 THEN "symtab"
                              ELSE IF k <= 9 THEN "psrc" ELSE "sectab"
        <2>1. PICK op, of : /\ op = (k - 1) % 3 /\ of = (k - 1) \div 3
                           /\ s[k].op = <<"malloc", "fseek", "fread">>[op + 1]
                           /\ s[k].of = <<"strtab", "symtab", "psrc", "sectab">>[of + 1]
            BY <1>1
        <2> HIDE DEF s
        <2>2. CASE k \in {1, 2, 3}
            BY <2>1, <2>2, Thirds
        <2>3. CASE k \in {4, 5, 6}
            BY <2>1, <2>3, Thirds
        <2>4. CASE k \in {7, 8, 9}
            BY <2>1, <2>4, Thirds
        <2>5. CASE k \in {10, 11, 12}
            BY <2>1, <2>5, Thirds
        <2> QED BY <2>2, <2>3, <2>4, <2>5
    <1> QED BY <1>2, <1>3

\* Which table the present step is about, in the two formats.
LEMMA StepFacts ==
    ASSUME tool \in FasTools \cup {"readcoff"}, step \in 1 .. Len(Steps)
    PROVE  /\ step \in DOMAIN Steps /\ Steps[step].op \in {"malloc", "fseek", "fread"}
           /\ Table \in Tables
           /\ tool \in FasTools =>
                 /\ step \in 1 .. 12
                 /\ Steps[step].op = "malloc" <=> step \in {1, 4, 7, 10}
                 /\ Steps[step].op = "fseek" <=> step \in {2, 5, 8, 11}
                 /\ Steps[step].op = "fread" <=> step \in {3, 6, 9, 12}
                 /\ Table = IF step <= 3 THEN "strtab" ELSE IF step <= 6 THEN "symtab"
                            ELSE IF step <= 9 THEN "psrc" ELSE "sectab"
           /\ tool = "readcoff" =>
                 /\ step \in 1 .. 4
                 /\ Steps[step].op = IF step = 4 THEN "fread" ELSE "malloc"
                 /\ Table = <<"relocs", "secdata", "scnhdrs", "scnhdrs">>[step]
    <1>1. CASE tool = "fas2sym"
        <2>1. Steps = FasSteps(<<"strtab", "symtab", "psrc">>)
            BY <1>1 DEF Steps
        <2>2. step \in 1 .. 9
            BY <2>1, FasSteps3
        <2> QED BY <1>1, <2>1, <2>2, FasSteps3 DEF Table, Tables, FasTables, FasTools
    <1>2. CASE tool = "fasdump"
        <2>1. Steps = FasSteps(<<"strtab", "symtab", "psrc", "sectab">>)
            BY <1>2 DEF Steps
        <2>2. step \in 1 .. 12
            BY <2>1, FasSteps4
        <2>3. /\ step \in DOMAIN Steps
              /\ Steps[step].op = IF step \in {1, 4, 7, 10} THEN "malloc"
                                  ELSE IF step \in {2, 5, 8, 11} THEN "fseek" ELSE "fread"
              /\ Steps[step].of = IF step <= 3 THEN "strtab" ELSE IF step <= 6 THEN "symtab"
                                  ELSE IF step <= 9 THEN "psrc" ELSE "sectab"
            BY <2>1, <2>2, FasSteps4
        <2>4. /\ Steps[step].op \in {"malloc", "fseek", "fread"}
              /\ Steps[step].op = "malloc" <=> step \in {1, 4, 7, 10}
              /\ Steps[step].op = "fseek" <=> step \in {2, 5, 8, 11}
              /\ Steps[step].op = "fread" <=> step \in {3, 6, 9, 12}
            BY <2>2, <2>3
        <2>5. /\ Table \in Tables
              /\ Table = IF step <= 3 THEN "strtab" ELSE IF step <= 6 THEN "symtab"
                         ELSE IF step <= 9 THEN "psrc" ELSE "sectab"
            BY <2>3 DEF Table, Tables, FasTables
        <2> QED BY <1>2, <2>2, <2>3, <2>4, <2>5 DEF FasTools
    <1>3. CASE tool = "readcoff"
        <2>1. Steps = CoffSteps
            BY <1>3 DEF Steps
        <2>2. Len(Steps) = 4 /\ DOMAIN Steps = 1 .. 4 /\ tool \notin FasTools
            BY <1>3, <2>1 DEF CoffSteps, FasTools
        <2>3. step \in {1, 2, 3, 4}
            BY <2>2
        <2>4. /\ Steps[step].op = IF step = 4 THEN "fread" ELSE "malloc"
              /\ Steps[step].of = <<"relocs", "secdata", "scnhdrs", "scnhdrs">>[step]
            BY <2>1, <2>3 DEF CoffSteps
        <2> QED BY <1>3, <2>2, <2>3, <2>4 DEF Table, Tables, CoffTables
    <1> QED BY <1>1, <1>2, <1>3 DEF FasTools

\* All the steps are done.
LEMMA LastStep ==
    ASSUME tool \in FasTools \cup {"readcoff"}, step \in Nat, step > Len(Steps)
    PROVE  /\ tool = "fas2sym" => step > 9
           /\ tool = "fasdump" => step > 12
           /\ tool = "readcoff" => step > 4
    <1>1. CASE tool = "fas2sym"
        BY <1>1, FasSteps3 DEF Steps
    <1>2. CASE tool = "fasdump"
        BY <1>2, FasSteps4 DEF Steps
    <1>3. CASE tool = "readcoff"
        <2>1. Len(Steps) = 4
            BY <1>3 DEF Steps, CoffSteps
        <2> QED BY <1>3, <2>1
    <1> QED BY <1>1, <1>2, <1>3 DEF FasTools

-----------------------------------------------------------------------------
\* main has not looked at its options.
LEMMA InitInv == Init => IInv
    <1> SUFFICES ASSUME Init PROVE IInv
        OBVIOUS
    <1>1. /\ tool \in FasTools \cup {"readcoff"} /\ file \in Files /\ pc = "args" /\ options = {}
          /\ step = 1 /\ ptr = {} /\ loaded = {} /\ heap = {} /\ streams = {} /\ faults = 0
        BY DEF Init, LoadInit
    <1>2. /\ range \in Ranges /\ buf = NoBuffers /\ idx = 0 /\ next = 1 /\ shoff = 0
          /\ out = NoData /\ outpos = 0 /\ lost = {}
        BY DEF Init
    <1>3. Len(file.symbols) \in Nat
        BY <1>1, FileFacts
    <1>4. \A b \in Buffers : /\ buf[b].cap = 0 /\ buf[b].cnt = 0 /\ buf[b].null = TRUE
                             /\ buf[b] = [cap |-> 0, cnt |-> 0, null |-> TRUE, data |-> NoData]
        BY <1>2 DEF NoBuffers
    <1>5. options \in Display
        BY <1>1 DEF Display, FasTools
    <1>6. DOMAIN out = {}
        BY <1>2 DEF NoData
    <1>7. TypeOK
        <2>1. LoadTypeOK
            BY <1>1, <1>5, FileAssumption DEF LoadTypeOK
        <2> QED BY <1>1, <1>2, <1>3, <1>4, <1>6, <2>1 DEF TypeOK
    <1>8. Shape
        <2>1. DOMAIN buf = Buffers /\ buf = [b \in Buffers |-> buf[b]]
            BY <1>2 DEF NoBuffers
        <2>2. ASSUME NEW b \in Buffers
              PROVE  /\ buf[b] = [cap |-> buf[b].cap, cnt |-> buf[b].cnt, null |-> buf[b].null,
                                  data |-> buf[b].data]
                     /\ buf[b].null \in BOOLEAN
                     /\ ~buf[b].null => buf[b].cap > 0
            <3>1. buf[b] = [cap |-> 0, cnt |-> 0, null |-> TRUE, data |-> NoData]
                BY <1>4
            <3> QED BY <3>1
        <2> QED BY <2>1, <2>2 DEF Shape
    <1>9. NothingLeaks
        BY <1>1, <1>2, <1>4 DEF NothingLeaks
    <1>10. LostOK
        BY <1>1, <1>2, <1>4 DEF LostOK, Fresh, LoadPcs, ElfPcs, ExportPcs, WritePcs
    <1>11. /\ ToolOK /\ StreamsOK /\ LoadOK /\ TablesOK /\ PutOK /\ FilledOK /\ FailureOK
           /\ CrashIsExplained
        BY <1>1 DEF ToolOK, StreamsOK, LoadOK, TablesOK, PutOK, FilledOK, FailureOK, Put,
                    CrashIsExplained, ElfPcs, ExportPcs, WritePcs
    <1> QED BY <1>7, <1>8, <1>9, <1>10, <1>11 DEF IInv

-----------------------------------------------------------------------------
\* The loaders touch nothing of what fas2sym does behind them.
LEMMA LoaderInv ==
    ASSUME IInv, pc \in LoadPcs, pc' \in LoadPcs \cup {"usage", "failure"},
           UNCHANGED <<tool, file>>, UNCHANGED elfVars,
           options' \in Display, step' \in 1 .. 13, ptr' \subseteq Tables, loaded' \subseteq ptr',
           faults' \in 0 .. MaxFaults,
           pc' = "failure" => heap' = {},
           pc' \notin {"failure", "usage"} => heap' = {<<t, 0>> : t \in ptr'},
           StreamsOK', LoadOK', TablesOK',
           pc' \in {"load_failed", "failure"} /\ faults' = 0 => Reason
    PROVE  IInv'
    <1>1. UNCHANGED <<range, buf, put, idx, next, shdrs, shoff, out, outpos, written, lost, flushed>>
        BY DEF elfVars
    <1>2. TypeOK'
        <2>1. Display' = Display
            BY DEF Display
        <2>2. streams' \subseteq {"in", "out"}
            BY DEF StreamsOK, LoadPcs
        <2>3. LoadTypeOK'
            BY <2>1, <2>2 DEF IInv, TypeOK, LoadTypeOK
        <2> QED BY <1>1, <2>3 DEF IInv, TypeOK, LoadPcs, Ends
    <1>3. Shape'
        BY <1>1 DEF IInv, Shape
    <1>4. lost = {} /\ \A b \in Buffers : Fresh(b)
        BY DEF IInv, LostOK
    <1>5. lost' = {} /\ \A b \in Buffers : Fresh(b)'
        BY <1>1, <1>4 DEF Fresh
    <1>6. LostOK'
        BY <1>5 DEF LostOK, LoadPcs, ElfPcs, ExportPcs, WritePcs, Fresh
    <1>7. NothingLeaks'
        <2>1. {c \in Buffers : ~buf'[c].null} = {}
            BY <1>5 DEF Fresh
        <2>2. {<<b, buf'[b].cap>> : b \in {c \in Buffers : ~buf'[c].null}} = {}
            BY <2>1
        <2>3. pc' = "failure" => streams' = {}
            BY DEF StreamsOK
        <2> QED BY <1>5, <2>2, <2>3 DEF NothingLeaks, LoadPcs, Ends
    <1>8. ToolOK' /\ PutOK' /\ FilledOK' /\ CrashIsExplained'
        BY DEF ToolOK, PutOK, FilledOK, Put, CrashIsExplained, LoadPcs, ElfPcs, ExportPcs,
               WritePcs
    <1>9. FailureOK'
        <2>1. Reason' = Reason
            BY DEF Reason, Steps
        <2> QED BY <2>1 DEF FailureOK, LoadPcs
    <1> QED BY <1>2, <1>3, <1>6, <1>7, <1>8, <1>9 DEF IInv

\* What the tools hold while they load.
LEMMA LoadFacts ==
    ASSUME IInv, pc \in LoadPcs
    PROVE  /\ tool \in FasTools \cup {"readcoff"} /\ file \in Files /\ options \in Display
           /\ step \in 1 .. 13 /\ ptr \subseteq Tables /\ loaded \subseteq ptr
           /\ faults \in 0 .. MaxFaults /\ MaxFaults \in Nat
           /\ heap = {<<t, 0>> : t \in ptr}
    <1>1. LoadTypeOK /\ MaxFaults \in Nat
        BY FileAssumption DEF IInv, TypeOK
    <1>2. lost = {} /\ \A b \in Buffers : Fresh(b)
        BY DEF IInv, LostOK
    <1>3. heap = {<<t, 0>> : t \in ptr}
        <2>1. {c \in Buffers : ~buf[c].null} = {}
            BY <1>2 DEF Fresh
        <2>2. {<<b, buf[b].cap>> : b \in {c \in Buffers : ~buf[c].null}} = {}
            BY <2>1
        <2> QED BY <1>2, <2>2 DEF IInv, NothingLeaks, LoadPcs, Ends
    <1> QED BY <1>1, <1>3 DEF LoadTypeOK

-----------------------------------------------------------------------------
\* The options, and the two outcomes of fopen.
LEMMA BeginInv == IInv /\ (Args \/ Open \/ OpenFails) /\ UNCHANGED elfVars => IInv'
    <1> SUFFICES ASSUME IInv, Args \/ Open \/ OpenFails, UNCHANGED elfVars PROVE IInv'
        OBVIOUS
    <1>1. /\ pc \in {"args", "fopen"} /\ pc \in LoadPcs
          /\ ptr = {} /\ loaded = {} /\ step = 1 /\ streams = {}
        BY DEF IInv, Args, Open, OpenFails, LoadOK, StreamsOK, LoadPcs
    <1>2. /\ heap = {} /\ options \in Display /\ faults \in 0 .. MaxFaults /\ MaxFaults \in Nat
        BY <1>1, LoadFacts
    <1>3. /\ UNCHANGED <<tool, file, step, ptr, loaded, heap>> /\ options' \in Display
          /\ pc' \in {"usage", "fopen", "header", "failure"} /\ faults' \in 0 .. MaxFaults
          /\ pc' = "failure" => faults' > 0
          /\ streams' = IF pc' = "header" THEN {"in"} ELSE {}
        BY <1>1, <1>2 DEF Args, Open, OpenFails, Fault
    <1>4. StreamsOK' /\ LoadOK' /\ TablesOK'
        BY <1>1, <1>3 DEF StreamsOK, LoadOK, TablesOK, ElfPcs, ExportPcs, WritePcs
    <1>5. heap' = {} /\ {<<t, 0>> : t \in ptr'} = {}
        BY <1>1, <1>2, <1>3
    <1> QED BY <1>1, <1>2, <1>3, <1>4, <1>5, LoaderInv DEF LoadPcs

\* The headers.
LEMMA HeaderInv == IInv /\ (ReadHeader \/ HeaderFails) /\ UNCHANGED elfVars => IInv'
    <1> SUFFICES ASSUME IInv, ReadHeader \/ HeaderFails, UNCHANGED elfVars PROVE IInv'
        OBVIOUS
    <1>1. /\ pc = "header" /\ pc \in LoadPcs
          /\ ptr = {} /\ loaded = {} /\ step = 1 /\ streams = {"in"}
        BY DEF IInv, ReadHeader, HeaderFails, LoadOK, StreamsOK, LoadPcs
    <1>2. /\ heap = {} /\ options \in Display /\ faults \in 0 .. MaxFaults /\ MaxFaults \in Nat
          /\ file \in Files
        BY <1>1, LoadFacts
    <1>3. /\ UNCHANGED <<tool, file, step, ptr, loaded, heap, options>>
          /\ pc' \in {"load", "failure"} /\ faults' \in 0 .. MaxFaults
          /\ pc' = "failure" /\ faults' = 0 => ~GoodHeader
          /\ streams' = IF pc' = "load" THEN {"in"} ELSE {}
        BY <1>1, <1>2 DEF ReadHeader, HeaderFails, Fault
    <1>4. ~GoodHeader => Reason
        <2>1. file.kind \in {"fas", "coff", "other"} /\ file.optional \in {"none", "good", "bad"}
            BY <1>2, FileFacts
        <2>2. CASE tool \in FasTools
            BY <2>2 DEF GoodHeader, FasHeader, Reason, FasTools
        <2>3. CASE tool \notin FasTools
            <3>1. tool = "readcoff"
                BY <1>1, <2>3, LoadFacts
            <3> QED BY <2>1, <2>3, <3>1 DEF GoodHeader, CoffHeader, Reason
        <2> QED BY <2>2, <2>3
    <1>5. StreamsOK' /\ LoadOK' /\ TablesOK'
        BY <1>1, <1>3 DEF StreamsOK, LoadOK, FasOK, CoffOK, TablesOK, ElfPcs, ExportPcs, WritePcs
    <1>6. heap' = {} /\ {<<t, 0>> : t \in ptr'} = {}
        BY <1>1, <1>2, <1>3
    <1> QED BY <1>1, <1>2, <1>3, <1>4, <1>5, <1>6, LoaderInv DEF LoadPcs

\* A step that succeeds.
LEMMA StepInv == IInv /\ (SkipTable \/ Malloc \/ Seek \/ ReadTable) /\ UNCHANGED elfVars => IInv'
    <1> SUFFICES ASSUME IInv, SkipTable \/ Malloc \/ Seek \/ ReadTable, UNCHANGED elfVars
                 PROVE  IInv'
        OBVIOUS
    <1>1. /\ pc = "load" /\ pc \in LoadPcs /\ step <= Len(Steps)
          /\ streams = {"in"} /\ IF tool \in FasTools THEN FasOK ELSE CoffOK
        BY DEF IInv, SkipTable, Malloc, Seek, ReadTable, Op, LoadOK, StreamsOK, LoadPcs
    <1>2. /\ tool \in FasTools \cup {"readcoff"} /\ file \in Files /\ step \in 1 .. 13
          /\ ptr \subseteq Tables /\ loaded \subseteq ptr /\ options \in Display
          /\ faults \in 0 .. MaxFaults /\ heap = {<<t, 0>> : t \in ptr}
        BY <1>1, LoadFacts
    <1>3. step \in 1 .. Len(Steps)
        <2>1. Len(Steps) \in Nat
            BY <1>2, FasSteps3, FasSteps4 DEF Steps, CoffSteps, FasTools
        <2> QED BY <1>1, <1>2, <2>1
    <1>4. /\ UNCHANGED <<tool, file, pc, options, streams, faults>>
          /\ ptr \subseteq ptr' /\ loaded \subseteq loaded' /\ ptr' \subseteq Tables
          /\ loaded' \subseteq ptr' \/ Op("fread")
        BY <1>2, <1>3, StepFacts DEF SkipTable, Malloc, Seek, ReadTable
    <1>5. heap' = {<<t, 0>> : t \in ptr'}
        <2>1. {<<t, 0>> : t \in ptr \cup {Table}} = {<<t, 0>> : t \in ptr} \cup {<<Table, 0>>}
            OBVIOUS
        <2> QED BY <1>2, <2>1 DEF SkipTable, Malloc, Seek, ReadTable
    <1>6. ASSUME tool \in FasTools
          PROVE  step' \in 1 .. 13 /\ loaded' \subseteq ptr' /\ FasOK'
        <2>1. /\ step \in 1 .. 12
              /\ Steps[step].op = "malloc" <=> step \in {1, 4, 7, 10}
              /\ Steps[step].op = "fseek" <=> step \in {2, 5, 8, 11}
              /\ Steps[step].op = "fread" <=> step \in {3, 6, 9, 12}
              /\ Table = IF step <= 3 THEN "strtab" ELSE IF step <= 6 THEN "symtab"
                         ELSE IF step <= 9 THEN "psrc" ELSE "sectab"
            BY <1>2, <1>3, <1>6, StepFacts
        <2>2. FasOK
            BY <1>1, <1>6
        <2>3. \/ /\ step \in {1, 4, 7, 10} /\ Table \in file.empty
                 /\ step' = step + 3 /\ ptr' = ptr /\ loaded' = loaded
              \/ /\ step \in {1, 4, 7, 10} /\ Table \notin file.empty
                 /\ step' = step + 1 /\ ptr' = ptr \cup {Table} /\ loaded' = loaded
              \/ /\ step \in {2, 5, 8, 11}
                 /\ step' = step + 1 /\ ptr' = ptr /\ loaded' = loaded
              \/ /\ step \in {3, 6, 9, 12}
                 /\ step' = step + 1 /\ ptr' = ptr /\ loaded' = loaded \cup {Table}
            BY <1>6, <2>1 DEF SkipTable, Malloc, Seek, ReadTable, Op, Nothing
        <2>4. step' \in 1 .. 13 /\ loaded' \subseteq ptr'
            BY <1>2, <2>1, <2>2, <2>3 DEF FasOK
        <2>5. FasOK'
            <3>1. file' = file
                BY <1>4
            <3>2. CASE step \in {1, 4, 7, 10}
                BY <2>1, <2>2, <2>3, <3>1, <3>2 DEF FasOK
            <3>3. CASE step \in {2, 5, 8, 11}
                BY <2>1, <2>2, <2>3, <3>1, <3>3 DEF FasOK
            <3>4. CASE step \in {3, 6, 9, 12}
                BY <2>1, <2>2, <2>3, <3>1, <3>4 DEF FasOK
            <3> QED BY <2>1, <3>2, <3>3, <3>4
        <2> QED BY <2>4, <2>5
    <1>7. ASSUME tool = "readcoff"
          PROVE  step' \in 1 .. 13 /\ loaded' \subseteq ptr' /\ CoffOK'
        <2>1. /\ step \in 1 .. 4 /\ Steps[step].op = IF step = 4 THEN "fread" ELSE "malloc"
              /\ Table = <<"relocs", "secdata", "scnhdrs", "scnhdrs">>[step]
            BY <1>2, <1>3, <1>7, StepFacts
        <2>2. CoffOK
            BY <1>1, <1>7 DEF FasTools
        <2>3. \/ /\ step \in 1 .. 3 /\ step' = step + 1 /\ ptr' = ptr \cup {Table} /\ loaded' = loaded
              \/ /\ step = 4 /\ step' = 5 /\ ptr' = ptr /\ loaded' = loaded \cup {Table}
            BY <1>7, <2>1 DEF SkipTable, Malloc, Seek, ReadTable, Op, Nothing, FasTools
        <2>4. step' \in 1 .. 13 /\ loaded' \subseteq ptr' /\ CoffOK'
            <3>1. CASE step \in {1, 2}
                BY <1>2, <2>3, <3>1 DEF CoffOK
            <3>2. CASE step = 3
                BY <1>2, <2>1, <2>3, <3>2 DEF CoffOK
            <3>3. CASE step = 4
                BY <1>2, <2>1, <2>2, <2>3, <3>3 DEF CoffOK
            <3> QED BY <2>1, <3>1, <3>2, <3>3
        <2> QED BY <2>4
    <1>8. /\ step' \in 1 .. 13 /\ loaded' \subseteq ptr'
          /\ IF tool' \in FasTools THEN FasOK' ELSE CoffOK'
        BY <1>2, <1>4, <1>6, <1>7 DEF FasTools
    <1>9. pc' = "load" /\ streams' = {"in"}
        BY <1>1, <1>4
    <1>10. StreamsOK' /\ LoadOK' /\ TablesOK'
        BY <1>8, <1>9 DEF StreamsOK, LoadOK, TablesOK, ElfPcs, ExportPcs, WritePcs
    <1> QED BY <1>1, <1>2, <1>4, <1>5, <1>8, <1>9, <1>10, LoaderInv DEF LoadPcs

\* A step that fails, the way out, and the end of the loader.
LEMMA EndInv == IInv /\ (StepFails \/ LoadFails \/ Loaded) /\ UNCHANGED elfVars => IInv'
    <1> SUFFICES ASSUME IInv, StepFails \/ LoadFails \/ Loaded, UNCHANGED elfVars PROVE IInv'
        OBVIOUS
    <1>1. pc \in {"load", "load_failed"} /\ pc \in LoadPcs /\ streams = {"in"}
        BY DEF IInv, StepFails, LoadFails, Loaded, StreamsOK, LoadPcs
    <1>2. /\ tool \in FasTools \cup {"readcoff"} /\ file \in Files /\ step \in 1 .. 13
          /\ ptr \subseteq Tables /\ loaded \subseteq ptr /\ options \in Display
          /\ faults \in 0 .. MaxFaults /\ MaxFaults \in Nat /\ heap = {<<t, 0>> : t \in ptr}
        BY <1>1, LoadFacts
    <1>3. Len(Steps) \in Nat
        BY <1>2, FasSteps3, FasSteps4 DEF Steps, CoffSteps, FasTools
    <1>4. CASE StepFails
        <2>1. /\ pc = "load" /\ pc' = "load_failed" /\ step \in 1 .. Len(Steps)
              /\ UNCHANGED <<tool, options, file, step, ptr, loaded, heap, streams>>
              /\ faults' \in 0 .. MaxFaults
              /\ faults' > 0 \/ (Op("fread") /\ ~Readable)
            BY <1>2, <1>3, <1>4 DEF StepFails, Fault
        <2>2. ASSUME Op("fread"), ~Readable PROVE Reason
            <3>1. /\ step \in DOMAIN Steps /\ Table = Steps[step].of
                  /\ Table \in file.short \/ Table \in file.empty
                BY <1>2, <2>1, <2>2, StepFacts DEF Table, Readable
            <3>2. CASE Table \in file.short
                BY <3>1, <3>2 DEF Reason
            <3>3. CASE Table \in file.empty /\ tool = "readcoff"
                <4>1. Table = "scnhdrs"
                    <5>1. step = 4
                        BY <1>2, <2>1, <2>2, <3>3, StepFacts DEF Op
                    <5> QED BY <1>2, <2>1, <3>3, <5>1, StepFacts
                <4> QED BY <3>3, <4>1 DEF Reason
            <3>4. CASE Table \in file.empty /\ tool \in FasTools
                <4>1. FasOK
                    BY <2>1, <3>4 DEF IInv, LoadOK
                <4>2. /\ step \in {3, 6, 9, 12}
                      /\ Table = IF step <= 3 THEN "strtab" ELSE IF step <= 6 THEN "symtab"
                                 ELSE IF step <= 9 THEN "psrc" ELSE "sectab"
                    BY <1>2, <2>1, <2>2, <3>4, StepFacts DEF Op
                <4> QED BY <3>4, <4>1, <4>2 DEF FasOK
            <3> QED BY <1>2, <3>1, <3>2, <3>3, <3>4
        <2>3. StreamsOK' /\ LoadOK' /\ TablesOK'
            BY <1>1, <2>1 DEF StreamsOK, LoadOK, TablesOK, ElfPcs, ExportPcs, WritePcs
        <2> QED BY <1>1, <1>2, <2>1, <2>2, <2>3, LoaderInv DEF LoadPcs
    <1>5. CASE LoadFails
        <2>1. /\ pc = "load_failed" /\ pc' = "failure" /\ heap' = {} /\ ptr' = {} /\ loaded' = {}
              /\ streams' = {} /\ UNCHANGED <<tool, options, file, step, faults>>
            BY <1>1, <1>2, <1>5 DEF LoadFails, FreeTables
        <2>2. faults = 0 => Reason
            BY <2>1 DEF IInv, FailureOK
        <2>3. StreamsOK' /\ LoadOK' /\ TablesOK'
            BY <2>1 DEF StreamsOK, LoadOK, TablesOK, ElfPcs, ExportPcs, WritePcs
        <2> QED BY <1>1, <1>2, <2>1, <2>2, <2>3, LoaderInv DEF LoadPcs
    <1>6. CASE Loaded
        <2>1. /\ pc = "load" /\ pc' = "loaded" /\ step' = 1 /\ step > Len(Steps) /\ streams' = {}
              /\ UNCHANGED <<tool, options, file, ptr, loaded, heap, faults>>
            BY <1>1, <1>6 DEF Loaded
        <2>2. IF tool \in FasTools THEN FasOK ELSE CoffOK
            BY <2>1 DEF IInv, LoadOK
        <2>3. /\ tool = "fas2sym" => step > 9
              /\ tool = "fasdump" => step > 12
              /\ tool = "readcoff" => step > 4
            BY <1>2, <2>1, LastStep
        <2>4. TablesOK'
            BY <1>2, <2>1, <2>2, <2>3 DEF TablesOK, FasOK, CoffOK, FasTools
        <2>5. StreamsOK' /\ LoadOK'
            BY <2>1 DEF StreamsOK, LoadOK
        <2> QED BY <1>1, <1>2, <2>1, <2>4, <2>5, LoaderInv DEF LoadPcs
    <1> QED BY <1>4, <1>5, <1>6
-----------------------------------------------------------------------------
\* What the pointers and the lost blocks name is what is in use.
Held == heap = {<<t, 0>> : t \in ptr} \cup lost
                  \cup {<<b, buf[b].cap>> : b \in {c \in Buffers : ~buf[c].null}}

PartNames == {Parts[i] : i \in DOMAIN Parts}

\* What is known while fas2sym works.
LEMMA ElfFacts ==
    ASSUME IInv, pc \in ElfPcs \cup {"loaded", "elf_cleanup"}
    PROVE  /\ file \in Files /\ Len(file.symbols) \in Nat /\ options \in Display
           /\ step \in 1 .. 13 /\ ptr \subseteq Tables /\ loaded \subseteq ptr
           /\ faults \in 0 .. MaxFaults /\ MaxFaults \in Nat
           /\ Held /\ range \in Ranges /\ next \in 1 .. (Len(file.symbols) + 1)
           /\ idx \in Nat /\ shoff \in Nat /\ outpos \in Nat /\ DOMAIN out \subseteq PartNames
           /\ \A b \in Buffers : /\ buf[b].cap \in Nat /\ buf[b].cnt \in 0 .. buf[b].cap
                                 /\ buf[b].null \in BOOLEAN
                                 /\ ~buf[b].null => buf[b].cap > 0
    <1>1. TypeOK /\ LoadTypeOK /\ MaxFaults \in Nat /\ Shape
        BY FileAssumption DEF IInv, TypeOK
    <1>2. file \in Files /\ Len(file.symbols) \in Nat
        BY <1>1, FileFacts DEF LoadTypeOK
    <1>3. Held
        BY DEF IInv, NothingLeaks, Held, ElfPcs, ExportPcs, WritePcs, Ends
    <1>4. /\ options \in Display /\ step \in 1 .. 13 /\ ptr \subseteq Tables /\ loaded \subseteq ptr
          /\ faults \in 0 .. MaxFaults
        BY <1>1 DEF LoadTypeOK
    <1>5. /\ range \in Ranges /\ next \in 1 .. (Len(file.symbols) + 1)
          /\ idx \in Nat /\ shoff \in Nat /\ outpos \in Nat /\ DOMAIN out \subseteq PartNames
        BY <1>1 DEF TypeOK, PartNames
    <1>6. \A b \in Buffers : /\ buf[b].cap \in Nat /\ buf[b].cnt \in 0 .. buf[b].cap
                             /\ buf[b].null \in BOOLEAN
                             /\ ~buf[b].null => buf[b].cap > 0
        BY <1>1 DEF TypeOK, Shape
    <1> QED BY <1>1, <1>2, <1>3, <1>4, <1>5, <1>6

\* A step of fas2sym behind its loader.
LEMMA ElfInv ==
    ASSUME IInv, tool = "fas2sym", pc \in ElfPcs \cup {"loaded"},
           pc' \in ElfPcs \cup {"elf_cleanup"},
           UNCHANGED <<tool, options, file, ptr, loaded, range>>,
           faults' \in 0 .. MaxFaults, step' \in 1 .. 13,
           next' \in 1 .. (Len(file.symbols) + 1), idx' \in Nat, shoff' \in Nat, outpos' \in Nat,
           DOMAIN out' \subseteq PartNames,
           \A b \in Buffers : buf'[b].cap \in Nat /\ buf'[b].cnt \in 0 .. buf'[b].cap,
           Shape', Held', LostOK', StreamsOK', PutOK', FilledOK',
           pc' = "write" => step' <= Len(Parts) + 1,
           pc' \in {"fclose", "elf_cleanup"} => written' \/ faults' > 0
    PROVE  IInv'
    <1>1. file \in Files /\ options \in Display /\ range \in Ranges
          /\ ptr \subseteq Tables /\ loaded \subseteq ptr
        BY ElfFacts
    <1>2. LoadTypeOK'
        <2>1. Display' = Display
            BY DEF Display
        <2>2. streams' \subseteq {"in", "out"}
            BY DEF StreamsOK, ElfPcs, ExportPcs, WritePcs
        <2> QED BY <1>1, <2>1, <2>2 DEF LoadTypeOK, FasTools
    <1>3. TypeOK'
        BY <1>1, <1>2 DEF TypeOK, PartNames, ElfPcs, ExportPcs, WritePcs
    <1>4. TablesOK'
        BY DEF IInv, TablesOK
    <1>5. NothingLeaks'
        BY DEF NothingLeaks, Held, ElfPcs, ExportPcs, WritePcs
    <1>6. ToolOK' /\ LoadOK' /\ FailureOK' /\ CrashIsExplained'
        BY DEF ToolOK, LoadOK, FailureOK, CrashIsExplained, ElfPcs, ExportPcs, WritePcs
    <1> QED BY <1>3, <1>4, <1>5, <1>6 DEF IInv

\* A step that leaves the buffers alone.
LEMMA MoveInv ==
    ASSUME IInv, tool = "fas2sym", pc \in ElfPcs \cup {"loaded"},
           pc' \in ElfPcs \cup {"elf_cleanup"},
           UNCHANGED <<tool, options, file, ptr, loaded, range, buf, heap, lost>>,
           faults' \in faults .. MaxFaults, step' \in 1 .. 13,
           next' \in 1 .. (Len(file.symbols) + 1), idx' \in Nat, shoff' \in Nat, outpos' \in Nat,
           DOMAIN out' \subseteq PartNames,
           StreamsOK', PutOK', FilledOK',
           pc' = "write" => step' <= Len(Parts) + 1,
           pc' \in {"fclose", "elf_cleanup"} => written' \/ faults' > 0
    PROVE  IInv'
    <1>1. /\ faults \in 0 .. MaxFaults /\ MaxFaults \in Nat /\ Held
          /\ \A b \in Buffers : buf[b].cap \in Nat /\ buf[b].cnt \in 0 .. buf[b].cap
        BY ElfFacts
    <1>2. faults' \in 0 .. MaxFaults
        BY <1>1
    <1>3. \A b \in Buffers : buf'[b].cap \in Nat /\ buf'[b].cnt \in 0 .. buf'[b].cap
        BY <1>1
    <1>4. Shape'
        BY DEF IInv, Shape
    <1>5. Held'
        BY <1>1 DEF Held
    <1>6. LostOK'
        <2>1. pc = "loaded" => lost = {}
            BY DEF IInv, LostOK, LoadPcs
        <2>2. \A x \in lost : x[2] < buf[x[1]].cap
            BY <2>1 DEF IInv, LostOK
        <2>3. lost # {} => faults' > 0
            BY <1>1 DEF IInv, LostOK
        <2>4. lost \subseteq Buffers \X (Nat \ {0})
            BY DEF IInv, LostOK
        <2> QED BY <2>2, <2>3, <2>4 DEF LostOK, LoadPcs, ElfPcs, ExportPcs, WritePcs
    <1> QED BY <1>2, <1>3, <1>4, <1>5, <1>6, ElfInv

\* Behind elf_init every buffer holds something, unless memory has been lost.
LEMMA AllFilled ==
    ASSUME IInv, pc \in ExportPcs \cup WritePcs
    PROVE  lost # {} \/ \A b \in Buffers : ~buf[b].null /\ 0 \in DOMAIN buf[b].data
    <1>1. FilledOK
        BY DEF IInv
    <1> QED BY <1>1 DEF FilledOK, Filled, ExportPcs, WritePcs

\* A buffer_put that is about to begin, of which fas2sym's steps are made.
LEMMA PutInv ==
    ASSUME IInv, tool = "fas2sym", pc \in ExportPcs \cup {"loaded", "init_strtab", "init_symtab"},
           UNCHANGED <<loading, buf, heap, lost, faults, range, writing>>,
           NEW b \in Buffers, NEW item, NEW size \in Nat \ {0}, NEW ok, NEW fail,
           BufferPut(b, item, size, ok, fail),
           idx' \in Nat, next' \in 1 .. (Len(file.symbols) + 1),
           ok = "add_symbol" => next' <= Len(file.symbols),
           \/ pc = "loaded" /\ ok = "init_strtab" /\ b = "shstrtab" /\ fail = "elf_cleanup"
           \/ pc = "init_strtab" /\ ok = "init_symtab" /\ b = "strtab" /\ fail = "elf_cleanup"
           \/ pc = "init_symtab" /\ ok = "export_file" /\ b = "symtab" /\ fail = "elf_cleanup"
           \/ pc \in ExportPcs /\ ok \in {"add_file", "export", "add_symbol"} /\ fail = ok
    PROVE  IInv'
    <1>1. /\ UNCHANGED <<tool, options, file, step, ptr, loaded, streams>>
          /\ UNCHANGED <<shoff, out, outpos, written>>
        BY DEF loading, writing
    <1>2. /\ pc' = "put" /\ put'.buf = b /\ put'.size = size /\ put'.ok = ok /\ put'.fail = fail
        BY DEF BufferPut
    <1>3. PutOK'
        BY <1>1, <1>2 DEF PutOK, Put
    <1>4. FilledOK'
        <2>1. CASE pc = "loaded"
            <3>1. \A c \in Buffers : Fresh(c)
                BY <2>1 DEF IInv, LostOK, LoadPcs
            <3> QED BY <1>2, <2>1, <3>1
                    DEF FilledOK, Put, ExportPcs, WritePcs, Fresh, Begun, Buffers
        <2>2. CASE pc = "init_strtab"
            <3>1. Filled("shstrtab") /\ Fresh("strtab") /\ Fresh("symtab")
                BY <2>2 DEF IInv, FilledOK
            <3>2. Filled("shstrtab")' /\ Begun("strtab")' /\ Fresh("symtab")'
                BY <3>1 DEF Filled, Fresh, Begun
            <3>3. ok = "init_symtab"
                BY <2>2 DEF ExportPcs
            <3> QED BY <1>2, <3>2, <3>3 DEF FilledOK, Put, ExportPcs, WritePcs
        <2>4. CASE pc = "init_symtab"
            <3>1. Filled("shstrtab") /\ Filled("strtab") /\ Fresh("symtab")
                BY <2>4 DEF IInv, FilledOK
            <3>2. Filled("shstrtab")' /\ Filled("strtab")' /\ Begun("symtab")'
                BY <3>1 DEF Filled, Fresh, Begun
            <3>3. ok = "export_file"
                BY <2>4 DEF ExportPcs
            <3> QED BY <1>2, <3>2, <3>3 DEF FilledOK, Put, ExportPcs, WritePcs
        <2>3. CASE pc \in ExportPcs
            <3>1. lost # {} \/ \A c \in Buffers : ~buf[c].null /\ 0 \in DOMAIN buf[c].data
                BY <2>3, AllFilled
            <3> QED BY <1>2, <2>3, <3>1 DEF FilledOK, Put, ExportPcs, WritePcs, Filled
        <2> QED BY <2>1, <2>2, <2>3, <2>4
    <1>5. StreamsOK'
        <2>1. streams = {}
            BY DEF IInv, StreamsOK, ExportPcs
        <2> QED BY <1>1, <1>2, <2>1 DEF StreamsOK
    <1>6. /\ faults \in 0 .. MaxFaults /\ step \in 1 .. 13 /\ shoff \in Nat /\ outpos \in Nat
          /\ DOMAIN out \subseteq PartNames
        BY ElfFacts DEF ElfPcs
    <1>7. faults' \in faults .. MaxFaults
        BY <1>6
    <1> QED BY <1>1, <1>2, <1>3, <1>4, <1>5, <1>6, <1>7, MoveInv DEF ElfPcs

-----------------------------------------------------------------------------
\* elf_init.
LEMMA InitBuffersInv == IInv /\ (InitShstrtab \/ InitStrtab \/ InitSymtab) => IInv'
    <1> SUFFICES ASSUME IInv, InitShstrtab \/ InitStrtab \/ InitSymtab PROVE IInv'
        OBVIOUS
    <1>1. tool = "fas2sym" /\ pc \in {"loaded", "init_strtab", "init_symtab"}
        <2>1. ToolOK
            BY DEF IInv
        <2> QED BY <2>1 DEF ToolOK, ElfPcs, InitShstrtab, InitStrtab, InitSymtab
    <1>2. idx \in Nat /\ next \in 1 .. (Len(file.symbols) + 1)
        BY <1>1, ElfFacts DEF ElfPcs
    <1>3. CASE InitShstrtab
        <2>1. InitialNames \in Nat \ {0}
            BY DEF InitialNames
        <2> QED BY <1>1, <1>2, <1>3, <2>1, PutInv DEF InitShstrtab, Buffers
    <1>4. CASE InitStrtab
        <2>0. PICK size \in Nat \ {0} : size = 2
            OBVIOUS
        <2>1. /\ pc = "init_strtab" /\ BufferPut("strtab", "", size, "init_symtab", "elf_cleanup")
              /\ UNCHANGED <<loading, buf, heap, lost, faults, range, writing>>
              /\ idx' = idx /\ next' = next
            BY <1>4, <2>0 DEF InitStrtab
        <2> QED BY <1>1, <1>2, <2>1, PutInv DEF Buffers
    <1>5. CASE InitSymtab
        <2>1. SymSize \in Nat \ {0}
            BY DEF SymSize
        <2> QED BY <1>1, <1>2, <1>5, <2>1, PutInv DEF InitSymtab, Buffers
    <1> QED BY <1>3, <1>4, <1>5

\* A crash is the end: what matters is what had come before.
LEMMA CrashInv ==
    ASSUME IInv, pc \in ElfPcs \cup {"loaded"}, pc' = "crash", step' \in 1 .. 13,
           \/ tool = "fas2sym" /\ lost # {}
           \/ Referred \cap file.empty # {},
           UNCHANGED <<tool, options, file, ptr, loaded, streams, faults, range, buf, next, idx,
                       shoff, out, outpos, lost>>
    PROVE  IInv'
    <1>1. TypeOK /\ Shape /\ LostOK /\ options \in Display
        BY DEF IInv, TypeOK, LoadTypeOK
    <1>2. TypeOK'
        <2>1. Display' = Display
            BY DEF Display
        <2>2. LoadTypeOK'
            BY <1>1, <2>1 DEF TypeOK, LoadTypeOK
        <2> QED BY <1>1, <2>2 DEF TypeOK, Ends
    <1>3. Shape'
        BY <1>1 DEF Shape
    <1>4. LostOK'
        BY <1>1 DEF LostOK, LoadPcs, ElfPcs, ExportPcs, WritePcs
    <1>5. CrashIsExplained'
        <2>1. Referred' = Referred
            BY DEF Referred, FasdumpNeeds, Places, Exported
        <2> QED BY <2>1 DEF CrashIsExplained
    <1>6. /\ ToolOK' /\ StreamsOK' /\ LoadOK' /\ TablesOK' /\ NothingLeaks' /\ PutOK' /\ FilledOK'
          /\ FailureOK'
        BY DEF ToolOK, StreamsOK, LoadOK, TablesOK, NothingLeaks, PutOK, FilledOK, FailureOK, Put,
               ElfPcs, ExportPcs, WritePcs, Ends
    <1> QED BY <1>2, <1>3, <1>4, <1>5, <1>6 DEF IInv

\* What is known while the symbols are exported: their tables have been read, or
\* have length 0.
LEMMA ExportFacts ==
    ASSUME IInv, pc \in ExportPcs
    PROVE  /\ tool = "fas2sym" /\ file \in Files /\ "strtab" \in loaded \cup file.empty
           /\ next \in 1 .. (Len(file.symbols) + 1) /\ idx \in Nat
           /\ buf["strtab"].cnt \in Nat
           /\ file.input \in Names
           /\ next <= Len(file.symbols) =>
                 /\ file.symbols[next].name \in Names
                 /\ file.symbols[next].place \in {"none"} \cup loaded \cup file.empty
           /\ \A name \in Names : NameLen[name] + 1 \in Nat \ {0}
    <1>1. /\ file \in Files /\ next \in 1 .. (Len(file.symbols) + 1) /\ idx \in Nat
          /\ Len(file.symbols) \in Nat /\ buf["strtab"].cnt \in Nat
        BY ElfFacts DEF ElfPcs, Buffers
    <1>2. tool = "fas2sym" /\ {"strtab", "symtab", "psrc"} \subseteq loaded \cup file.empty
        BY DEF IInv, ToolOK, TablesOK, ElfPcs, FasTools
    <1>3. file.input \in Names
        BY <1>1, FileFacts
    <1>4. ASSUME next <= Len(file.symbols)
          PROVE  /\ file.symbols[next].name \in Names
                 /\ file.symbols[next].place \in {"none"} \cup loaded \cup file.empty
        <2>1. next \in 1 .. Len(file.symbols)
            BY <1>1, <1>4
        <2> QED BY <1>1, <1>2, <2>1, FileFacts
    <1>5. \A name \in Names : NameLen[name] + 1 \in Nat \ {0}
        BY NameAssumption
    <1> QED BY <1>1, <1>2, <1>3, <1>4, <1>5

\* The strings and symbols of the input.
LEMMA ExportInv ==
    IInv /\ (ExportFileName \/ ExportFile \/ ExportName \/ ExportSymbol) => IInv'
    <1> SUFFICES ASSUME IInv, ExportFileName \/ ExportFile \/ ExportName \/ ExportSymbol
                 PROVE  IInv'
        OBVIOUS
    <1>1. pc \in ExportPcs
        BY DEF ExportFileName, ExportFile, ExportName, ExportSymbol, ExportPcs
    <1>2. /\ tool = "fas2sym" /\ file \in Files /\ "strtab" \in loaded \cup file.empty
          /\ next \in 1 .. (Len(file.symbols) + 1) /\ idx \in Nat
          /\ buf["strtab"].cnt \in Nat
          /\ file.input \in Names
          /\ next <= Len(file.symbols) =>
                /\ file.symbols[next].name \in Names
                /\ file.symbols[next].place \in {"none"} \cup loaded \cup file.empty
          /\ \A name \in Names : NameLen[name] + 1 \in Nat \ {0}
        BY <1>1, ExportFacts
    <1>3. SymSize \in Nat \ {0} /\ "strtab" \in Buffers /\ "symtab" \in Buffers
        BY DEF SymSize, Buffers
    <1>4. CASE ExportFileName
        <2>1. CASE "strtab" \in loaded
            BY <1>1, <1>2, <1>3, <1>4, <2>1, PutInv DEF ExportFileName, AddStr
        <2>2. CASE "strtab" \notin loaded
            <3>1. "strtab" \in Referred \cap file.empty
                BY <1>2, <2>2 DEF Referred
            <3>2. /\ pc' = "crash"
                  /\ UNCHANGED <<tool, options, file, step, ptr, loaded, streams, faults, range, buf,
                                 next, idx, shoff, out, outpos, lost>>
                BY <1>4, <2>2 DEF ExportFileName, loading, writing
            <3>3. step' \in 1 .. 13
                BY <1>1, <3>2, ElfFacts DEF ElfPcs
            <3> QED BY <1>1, <3>1, <3>2, <3>3, CrashInv DEF ElfPcs
        <2> QED BY <2>1, <2>2
    <1>5. CASE ExportFile
        BY <1>1, <1>2, <1>3, <1>5, PutInv DEF ExportFile, AddSymbol
    <1>6. CASE ExportName
        <2>1. /\ pc = "export" /\ next <= Len(file.symbols)
              /\ UNCHANGED <<loading, heap, faults, range, buf, next, shdrs, writing, lost>>
            BY <1>6 DEF ExportName
        <2>2. CASE file.symbols[next].place = "none"
            <3>1. idx' = 0 /\ pc' = "add_symbol" /\ UNCHANGED put
                BY <1>6, <2>2 DEF ExportName
            <3>2. /\ UNCHANGED <<tool, options, file, step, ptr, loaded, streams>>
                  /\ UNCHANGED <<shoff, out, outpos, written>>
                BY <2>1 DEF loading, writing
            <3>3. /\ faults \in 0 .. MaxFaults /\ step \in 1 .. 13 /\ shoff \in Nat
                  /\ outpos \in Nat /\ DOMAIN out \subseteq PartNames
                BY <1>1, ElfFacts DEF ElfPcs
            <3>4. PutOK'
                BY <2>1, <3>1, <3>2 DEF PutOK, Put
            <3>5. FilledOK'
                <4>1. lost # {} \/ \A c \in Buffers : ~buf[c].null /\ 0 \in DOMAIN buf[c].data
                    BY <1>1, AllFilled
                <4> QED BY <2>1, <3>1, <4>1 DEF FilledOK, Put, Filled
            <3>6. StreamsOK'
                BY <2>1, <3>1, <3>2 DEF IInv, StreamsOK
            <3>7. faults' \in faults .. MaxFaults
                BY <2>1, <3>3
            <3> QED BY <1>1, <1>2, <2>1, <3>1, <3>2, <3>3, <3>4, <3>5, <3>6, <3>7, MoveInv
                    DEF ElfPcs, ExportPcs
        <2>3. CASE file.symbols[next].place \in loaded \ {"none"}
            <3>1. AddStr(file.symbols[next].name, "add_symbol", "add_symbol")
                BY <1>2, <1>6, <2>1, <2>3 DEF ExportName
            <3> QED BY <1>1, <1>2, <1>3, <2>1, <3>1, PutInv DEF AddStr
        <2>4. CASE file.symbols[next].place \notin loaded \cup {"none"}
            <3>1. pc' = "crash" /\ idx' = idx /\ Exported(file.symbols[next])
                BY <1>6, <2>4 DEF ExportName
            <3>2. file.symbols[next].place \in Referred \cap file.empty
                <4>1. next \in DOMAIN file.symbols
                    BY <1>2, <2>1, FileFacts
                <4> QED BY <1>2, <2>1, <2>4, <3>1, <4>1 DEF Referred
            <3>3. UNCHANGED <<tool, options, file, step, ptr, loaded, streams, shoff, out, outpos>>
                BY <2>1 DEF loading, writing
            <3>4. step' \in 1 .. 13
                BY <1>1, <3>3, ElfFacts DEF ElfPcs
            <3> QED BY <1>1, <2>1, <3>1, <3>2, <3>3, <3>4, CrashInv DEF ElfPcs
        <2> QED BY <2>2, <2>3, <2>4
    <1>7. CASE ExportSymbol
        <2>1. next <= Len(file.symbols) /\ pc = "add_symbol"
            BY <1>7 DEF IInv, PutOK, ExportSymbol
        <2>2. next' = next + 1 /\ next' \in 1 .. (Len(file.symbols) + 1)
            <3>1. Len(file.symbols) \in Nat
                BY <1>2, FileFacts
            <3> QED BY <1>2, <1>7, <2>1, <3>1 DEF ExportSymbol
        <2> QED BY <1>1, <1>2, <1>3, <1>7, <2>1, <2>2, PutInv DEF ExportSymbol, AddSymbol
    <1> QED BY <1>4, <1>5, <1>6, <1>7

\* The place in a list of steps, and what is behind it.
LEMMA PartFacts ==
    ASSUME IInv, pc = "write", step <= Len(Parts)
    PROVE  Part \in PartNames /\ PartSize \in Nat
    <1>1. step \in 1 .. 13 /\ \A b \in Buffers : buf[b].cnt \in Nat
        BY ElfFacts DEF ElfPcs, WritePcs
    <1>2. step \in 1 .. 5 /\ DOMAIN Parts = 1 .. 5
        BY <1>1 DEF Parts
    <1>3. Part \in PartNames
        BY <1>2 DEF Part, PartNames
    <1>4. Part \in {"ehdr", "shdrs"} \cup Buffers
        BY <1>2 DEF Part, Parts, Buffers
    <1>5. CASE Part = "ehdr"
        BY <1>3, <1>5 DEF PartSize, EhdrSize, Buffers
    <1>6. CASE Part = "shdrs"
        BY <1>3, <1>6 DEF PartSize, ShdrsSize, Buffers
    <1>7. CASE Part \in Buffers
        <2>1. PartSize = IF buf[Part].null THEN 0 ELSE buf[Part].cnt
            <3>1. Part # "ehdr" /\ Part # "shdrs"
                BY <1>7 DEF Buffers
            <3> QED BY <1>7, <3>1 DEF PartSize
        <2> QED BY <1>1, <1>3, <1>7, <2>1
    <1> QED BY <1>3, <1>4, <1>5, <1>6, <1>7

\* Between the symbols, and from one part of the output to the next.
LEMMA WalkInv ==
    IInv /\ (Skip \/ ExportEnds \/ OpenOut \/ OpenOutFails \/ NoRange \/ WritePart \/ WriteFails
             \/ AllWritten \/ CloseOut) => IInv'
    <1> SUFFICES ASSUME IInv, \/ Skip \/ ExportEnds \/ OpenOut \/ OpenOutFails \/ NoRange
                              \/ WritePart \/ WriteFails \/ AllWritten \/ CloseOut
                 PROVE  IInv'
        OBVIOUS
    <1>1. /\ pc \in ExportPcs \cup WritePcs
          /\ UNCHANGED <<tool, options, file, ptr, loaded, range, buf, heap, lost, put, idx>>
        BY DEF Skip, ExportEnds, OpenOut, OpenOutFails, NoRange, WritePart, WriteFails, AllWritten,
               CloseOut, ExportPcs, WritePcs, loading, elfVars, writing
    <1>2. /\ file \in Files /\ Len(file.symbols) \in Nat /\ step \in 1 .. 13
          /\ faults \in 0 .. MaxFaults /\ MaxFaults \in Nat
          /\ next \in 1 .. (Len(file.symbols) + 1)
          /\ idx \in Nat /\ shoff \in Nat /\ outpos \in Nat /\ DOMAIN out \subseteq PartNames
          /\ \A b \in Buffers : buf[b].cnt \in Nat
        BY <1>1, ElfFacts DEF ElfPcs
    <1>3. tool = "fas2sym"
        <2>1. ToolOK
            BY DEF IInv
        <2> QED BY <1>1, <2>1 DEF ToolOK, ElfPcs
    <1>4. Len(Parts) = 5
        BY DEF Parts
    <1>5. lost # {} \/ \A c \in Buffers : ~buf[c].null /\ 0 \in DOMAIN buf[c].data
        BY <1>1, AllFilled
    <1>6. ASSUME pc' \in {"export"} \cup WritePcs \cup {"elf_cleanup"}
          PROVE  PutOK' /\ FilledOK'
        BY <1>1, <1>5, <1>6 DEF PutOK, FilledOK, Put, Filled, ExportPcs, WritePcs
    <1>7. CASE Skip
        <2>1. /\ pc = "export" /\ pc' = "export" /\ next' = next + 1 /\ next <= Len(file.symbols)
              /\ UNCHANGED <<step, streams, faults, shoff, out, outpos, written>>
            BY <1>7 DEF Skip, loading, writing
        <2>2. StreamsOK'
            BY <2>1 DEF IInv, StreamsOK
        <2>3. next' \in 1 .. (Len(file.symbols) + 1) /\ faults' \in faults .. MaxFaults
            BY <1>2, <2>1
        <2> QED BY <1>1, <1>2, <1>3, <1>6, <2>1, <2>2, <2>3, MoveInv DEF ElfPcs, ExportPcs
    <1>8. CASE ExportEnds
        <2>1. /\ pc = "export" /\ pc' = "elf_write"
              /\ UNCHANGED <<step, streams, faults, next, shoff, out, outpos, written>>
            BY <1>8 DEF ExportEnds, loading, elfVars
        <2>2. StreamsOK'
            BY <2>1 DEF IInv, StreamsOK
        <2>3. faults' \in faults .. MaxFaults
            BY <1>2, <2>1
        <2> QED BY <1>1, <1>2, <1>3, <1>6, <2>1, <2>2, <2>3, MoveInv DEF ElfPcs, WritePcs
    <1>9. CASE OpenOut
        <2>1. /\ pc = "elf_write" /\ pc' = "resolve" /\ streams' = streams \cup {"out"}
              /\ shoff' = EhdrSize + buf["shstrtab"].cnt + buf["strtab"].cnt + buf["symtab"].cnt
              /\ UNCHANGED <<step, faults, next, out, outpos, written>>
            BY <1>9 DEF OpenOut
        <2>2. StreamsOK'
            BY <2>1 DEF IInv, StreamsOK
        <2>3. faults' \in faults .. MaxFaults
            BY <1>2, <2>1
        <2>4. shoff' \in Nat
            <3>1. /\ buf["shstrtab"].cnt \in Nat /\ buf["strtab"].cnt \in Nat
                  /\ buf["symtab"].cnt \in Nat
                BY <1>2 DEF Buffers
            <3> QED BY <2>1, <3>1 DEF EhdrSize
        <2> QED BY <1>1, <1>2, <1>3, <1>6, <2>1, <2>2, <2>3, <2>4, MoveInv DEF ElfPcs, WritePcs
    <1>10. CASE OpenOutFails
        <2>1. /\ pc = "elf_write" /\ pc' = "elf_cleanup" /\ faults' = faults + 1
              /\ faults < MaxFaults
              /\ UNCHANGED <<step, streams, next, shoff, out, outpos, written>>
            BY <1>10 DEF OpenOutFails, Fault, loading, elfVars
        <2>2. StreamsOK'
            BY <2>1 DEF IInv, StreamsOK
        <2>3. faults' \in faults .. MaxFaults /\ faults' > 0
            BY <1>2, <2>1
        <2> QED BY <1>1, <1>2, <1>3, <1>6, <2>1, <2>2, <2>3, MoveInv DEF ElfPcs, WritePcs
    <1>11. CASE NoRange
        <2>1. /\ pc = "resolve" /\ pc' = "write" /\ step' = 1
              /\ UNCHANGED <<streams, faults, next, shoff, out, outpos, written>>
            BY <1>11 DEF NoRange, elfVars
        <2>2. StreamsOK'
            BY <2>1 DEF IInv, StreamsOK
        <2>3. faults' \in faults .. MaxFaults
            BY <1>2, <2>1
        <2> QED BY <1>1, <1>2, <1>3, <1>4, <1>6, <2>1, <2>2, <2>3, MoveInv DEF ElfPcs, WritePcs
    <1>12. CASE WritePart
        <2>1. /\ pc = "write" /\ pc' = "write" /\ step' = step + 1 /\ step <= Len(Parts)
              /\ outpos' = outpos + PartSize
              /\ UNCHANGED <<streams, faults, next, shoff, written>>
            BY <1>12 DEF WritePart
        <2>2. Part \in PartNames /\ PartSize \in Nat
            BY <2>1, PartFacts
        <2>3. DOMAIN out' \subseteq DOMAIN out \cup {Part}
            BY <1>12 DEF WritePart, Stored
        <2>4. StreamsOK'
            BY <2>1 DEF IInv, StreamsOK
        <2>5. faults' \in faults .. MaxFaults /\ outpos' \in Nat /\ step' \in 1 .. 6
            BY <1>2, <1>4, <2>1, <2>2
        <2> QED BY <1>1, <1>2, <1>3, <1>4, <1>6, <2>1, <2>2, <2>3, <2>4, <2>5, MoveInv
                DEF ElfPcs, WritePcs
    <1>13. CASE WriteFails
        <2>1. /\ pc = "write" /\ pc' = "fclose" /\ faults' = faults + 1 /\ faults < MaxFaults
              /\ UNCHANGED <<step, streams, next, shoff, out, outpos, written>>
            BY <1>13 DEF WriteFails, Fault, loading, elfVars
        <2>2. StreamsOK'
            BY <2>1 DEF IInv, StreamsOK
        <2>3. faults' \in faults .. MaxFaults /\ faults' > 0
            BY <1>2, <2>1
        <2> QED BY <1>1, <1>2, <1>3, <1>6, <2>1, <2>2, <2>3, MoveInv DEF ElfPcs, WritePcs
    <1>14. CASE AllWritten
        <2>1. /\ pc = "write" /\ pc' = "fclose" /\ written' = TRUE
              /\ UNCHANGED <<step, streams, faults, next, shoff, out, outpos>>
            BY <1>14 DEF AllWritten, loading
        <2>2. StreamsOK'
            BY <2>1 DEF IInv, StreamsOK
        <2>3. faults' \in faults .. MaxFaults
            BY <1>2, <2>1
        <2> QED BY <1>1, <1>2, <1>3, <1>6, <2>1, <2>2, <2>3, MoveInv DEF ElfPcs, WritePcs
    <1>15. CASE CloseOut
        <2>1. /\ pc = "fclose" /\ pc' = "elf_cleanup" /\ streams' = streams \ {"out"}
              /\ UNCHANGED <<step, next, shoff, out, outpos, written>>
              /\ faults' = faults \/ (faults' = faults + 1 /\ faults < MaxFaults)
            BY <1>15 DEF CloseOut, Fault
        <2>2. StreamsOK'
            BY <2>1 DEF IInv, StreamsOK
        <2>3. faults' \in faults .. MaxFaults
            BY <1>2, <2>1
        <2>4. written' \/ faults' > 0
            <3>1. written \/ faults > 0
                BY <2>1 DEF IInv, FailureOK
            <3> QED BY <1>2, <2>1, <3>1
        <2> QED BY <1>1, <1>2, <1>3, <1>6, <2>1, <2>2, <2>3, <2>4, MoveInv DEF ElfPcs, WritePcs
    <1> QED BY <1>7, <1>8, <1>9, <1>10, <1>11, <1>12, <1>13, <1>14, <1>15

-----------------------------------------------------------------------------
\* What is known inside buffer_put.
LEMMA PutFacts ==
    ASSUME IInv, pc = "put"
    PROVE  /\ put.buf \in Buffers /\ put.size \in Nat \ {0} /\ tool = "fas2sym"
           /\ buf[put.buf].cap \in Nat /\ buf[put.buf].cnt \in 0 .. buf[put.buf].cap
           /\ buf[put.buf].null \in BOOLEAN /\ Room \in Nat \ {0} /\ Grown \in Nat
           /\ Grown > buf[put.buf].cap /\ Room > buf[put.buf].cnt
           /\ ~buf[put.buf].null => buf[put.buf].cap > 0
           /\ \/ /\ put.fail = "elf_cleanup"
                 /\ put.ok \in {"init_strtab", "init_symtab", "export_file"}
              \/ put.ok \in {"add_file", "export", "add_symbol"} /\ put.fail = put.ok
           /\ streams = {}
    <1>1. PutOK /\ ToolOK /\ StreamsOK
        BY DEF IInv
    <1>2. put.buf \in Buffers /\ put.size \in Nat \ {0}
        BY <1>1 DEF PutOK
    <1>3. /\ buf[put.buf].cap \in Nat /\ buf[put.buf].cnt \in 0 .. buf[put.buf].cap
          /\ buf[put.buf].null \in BOOLEAN
          /\ ~buf[put.buf].null => buf[put.buf].cap > 0
        BY <1>2, ElfFacts DEF ElfPcs
    <1>4. Room \in Nat \ {0} /\ Grown \in Nat /\ Grown > buf[put.buf].cap /\ Room > buf[put.buf].cnt
        BY <1>2, <1>3 DEF Room, Grown
    <1>5. tool = "fas2sym" /\ streams = {}
        BY <1>1 DEF ToolOK, StreamsOK, ElfPcs
    <1>6. \/ /\ put.fail = "elf_cleanup"
             /\ put.ok \in {"init_strtab", "init_symtab", "export_file"}
          \/ put.ok \in {"add_file", "export", "add_symbol"} /\ put.fail = put.ok
        BY <1>1 DEF PutOK
    <1> QED BY <1>2, <1>3, <1>4, <1>5, <1>6

\* The buffers with one of them replaced.
Replaced(p, b) ==
    /\ DOMAIN buf' = Buffers /\ buf' = [c \in Buffers |-> buf'[c]]
    /\ \A c \in Buffers \ {p} : buf'[c] = buf[c]
    /\ buf'[p] = b

\* One buffer is replaced by another.
LEMMA BufferSet ==
    ASSUME Shape, NEW p \in Buffers, NEW b, Replaced(p, b),
           b = [cap |-> b.cap, cnt |-> b.cnt, null |-> b.null, data |-> b.data],
           b.null \in BOOLEAN, ~b.null => b.cap > 0
    PROVE  Shape' /\ buf'[p] = b /\ \A c \in Buffers \ {p} : buf'[c] = buf[c]
    <1>1. /\ DOMAIN buf' = Buffers /\ buf' = [c \in Buffers |-> buf'[c]]
          /\ buf'[p] = b /\ \A c \in Buffers \ {p} : buf'[c] = buf[c]
        BY DEF Replaced
    <1>2. ASSUME NEW c \in Buffers
          PROVE  /\ buf'[c] = [cap |-> buf'[c].cap, cnt |-> buf'[c].cnt, null |-> buf'[c].null,
                               data |-> buf'[c].data]
                 /\ buf'[c].null \in BOOLEAN
                 /\ ~buf'[c].null => buf'[c].cap > 0
        <2>1. CASE c = p
            BY <1>1, <2>1
        <2>2. CASE c # p
            BY <1>1, <2>2 DEF Shape
        <2> QED BY <2>1, <2>2
    <1> QED BY <1>1, <1>2 DEF Shape

\* What each part of buffer_put makes of the buffer.
LEMMA GrowSet ==
    ASSUME IInv, Grow
    PROVE  Replaced(put.buf, [cap |-> Grown, cnt |-> buf[put.buf].cnt, null |-> FALSE,
                              data |-> buf[put.buf].data])
    <1>1. put.buf \in Buffers /\ Shape
        BY PutFacts DEF IInv, Grow
    <1>2. buf[put.buf] = [cap |-> buf[put.buf].cap, cnt |-> buf[put.buf].cnt,
                          null |-> buf[put.buf].null, data |-> buf[put.buf].data]
        BY <1>1 DEF Shape
    <1>3. buf' = [buf EXCEPT ![put.buf].cap = Grown, ![put.buf].null = FALSE]
        BY DEF Grow
    <1>4. DOMAIN buf = Buffers
        BY <1>1 DEF Shape
    <1>5. buf'[put.buf] = [cap |-> Grown, cnt |-> buf[put.buf].cnt, null |-> FALSE,
                     data |-> buf[put.buf].data]
        BY <1>1, <1>2, <1>3, <1>4
    <1>6. /\ DOMAIN buf' = Buffers /\ buf' = [c \in Buffers |-> buf'[c]]
          /\ \A c \in Buffers \ {put.buf} : buf'[c] = buf[c]
        BY <1>1, <1>3, <1>4
    <1> QED BY <1>5, <1>6 DEF Replaced

\* realloc has failed.
LEMMA GrowFailsSet ==
    ASSUME IInv, GrowFails
    PROVE  Replaced(put.buf, [cap |-> Grown, cnt |-> buf[put.buf].cnt, null |-> TRUE,
                              data |-> NoData])
    <1>1. put.buf \in Buffers /\ Shape
        BY PutFacts DEF IInv, GrowFails
    <1>2. buf[put.buf] = [cap |-> buf[put.buf].cap, cnt |-> buf[put.buf].cnt,
                          null |-> buf[put.buf].null, data |-> buf[put.buf].data]
        BY <1>1 DEF Shape
    <1>3. buf' = [buf EXCEPT ![put.buf].cap = Grown, ![put.buf].null = TRUE,
                     ![put.buf].data = NoData]
        BY DEF GrowFails
    <1>4. DOMAIN buf = Buffers
        BY <1>1 DEF Shape
    <1>5. buf'[put.buf] = [cap |-> Grown, cnt |-> buf[put.buf].cnt, null |-> TRUE,
                     data |-> NoData]
        BY <1>1, <1>2, <1>3, <1>4
    <1>6. /\ DOMAIN buf' = Buffers /\ buf' = [c \in Buffers |-> buf'[c]]
          /\ \A c \in Buffers \ {put.buf} : buf'[c] = buf[c]
        BY <1>1, <1>3, <1>4
    <1> QED BY <1>5, <1>6 DEF Replaced

\* memcpy.
LEMMA CopySet ==
    ASSUME IInv, Copy, ~buf[put.buf].null
    PROVE  Replaced(put.buf, [cap |-> buf[put.buf].cap, cnt |-> Room, null |-> FALSE,
                              data |-> Stored(buf[put.buf].data, buf[put.buf].cnt, put.item)])
    <1>1. put.buf \in Buffers /\ Shape
        BY PutFacts DEF IInv, Copy
    <1>2. buf[put.buf] = [cap |-> buf[put.buf].cap, cnt |-> buf[put.buf].cnt,
                          null |-> buf[put.buf].null, data |-> buf[put.buf].data]
          /\ buf[put.buf].null = FALSE
        BY <1>1 DEF Shape
    <1>3. buf' = [buf EXCEPT ![put.buf].cnt = Room,
                     ![put.buf].data = Stored(@, buf[put.buf].cnt, put.item)]
        BY DEF Copy
    <1>4. DOMAIN buf = Buffers
        BY <1>1 DEF Shape
    <1>5. buf'[put.buf] = [cap |-> buf[put.buf].cap, cnt |-> Room, null |-> FALSE,
                     data |-> Stored(buf[put.buf].data, buf[put.buf].cnt, put.item)]
        BY <1>1, <1>2, <1>3, <1>4
    <1>6. /\ DOMAIN buf' = Buffers /\ buf' = [c \in Buffers |-> buf'[c]]
          /\ \A c \in Buffers \ {put.buf} : buf'[c] = buf[c]
        BY <1>1, <1>3, <1>4
    <1> QED BY <1>5, <1>6 DEF Replaced

-----------------------------------------------------------------------------
\* realloc has moved the block.
LEMMA GrowInv == IInv /\ Grow => IInv'
    <1> SUFFICES ASSUME IInv, Grow PROVE IInv'
        OBVIOUS
    <1> DEFINE p == put.buf
    <1>1. /\ pc = "put" /\ pc' = "put" /\ put' = put
          /\ UNCHANGED <<tool, options, file, step, ptr, loaded, streams, faults, range, idx, next,
                         shoff, out, outpos, written, lost>>
          /\ heap' = IF buf[p].null THEN heap \cup {<<p, Grown>>}
                     ELSE (heap \ {<<p, buf[p].cap>>}) \cup {<<p, Grown>>}
        BY DEF Grow, loading, writing
    <1>2. /\ p \in Buffers /\ tool = "fas2sym" /\ buf[p].cap \in Nat
          /\ buf[p].cnt \in 0 .. buf[p].cap /\ buf[p].null \in BOOLEAN
          /\ Grown \in Nat /\ Grown > buf[p].cap
          /\ ~buf[p].null => buf[p].cap > 0
        BY <1>1, PutFacts
    <1>3. Replaced(p, [cap |-> Grown, cnt |-> buf[p].cnt, null |-> FALSE, data |-> buf[p].data])
        BY GrowSet
    <1>4. /\ Shape' /\ \A b \in Buffers \ {p} : buf'[b] = buf[b]
          /\ buf'[p].cap = Grown /\ buf'[p].cnt = buf[p].cnt /\ buf'[p].null = FALSE
          /\ buf'[p].data = buf[p].data
        <2> DEFINE b == [cap |-> Grown, cnt |-> buf[p].cnt, null |-> FALSE, data |-> buf[p].data]
        <2>1. /\ b = [cap |-> b.cap, cnt |-> b.cnt, null |-> b.null, data |-> b.data]
              /\ b.cap = Grown /\ b.cnt = buf[p].cnt /\ b.null = FALSE /\ b.data = buf[p].data
            OBVIOUS
        <2>2. Shape /\ Grown > 0 /\ Replaced(p, b)
            BY <1>2, <1>3 DEF IInv
        <2> HIDE DEF b
        <2>3. Shape' /\ buf'[p] = b /\ \A c \in Buffers \ {p} : buf'[c] = buf[c]
            BY <1>2, <2>1, <2>2, BufferSet
        <2> QED BY <2>1, <2>3
    <1> HIDE DEF p
    <1>5. /\ faults \in 0 .. MaxFaults /\ step \in 1 .. 13 /\ next \in 1 .. (Len(file.symbols) + 1)
          /\ idx \in Nat /\ shoff \in Nat /\ outpos \in Nat /\ DOMAIN out \subseteq PartNames /\ Held
          /\ \A b \in Buffers : buf[b].cap \in Nat /\ buf[b].cnt \in 0 .. buf[b].cap
        BY <1>1, ElfFacts DEF ElfPcs
    <1>6. \A b \in Buffers : buf'[b].cap \in Nat /\ buf'[b].cnt \in 0 .. buf'[b].cap
        <2> TAKE b \in Buffers
        <2>1. CASE b = p
            BY <1>2, <1>4, <2>1
        <2>2. CASE b # p
            BY <1>4, <1>5, <2>2
        <2> QED BY <2>1, <2>2
    <1>7. /\ lost \subseteq Buffers \X (Nat \ {0})
          /\ lost # {} => faults > 0
          /\ \A x \in lost : x[2] < buf[x[1]].cap
        BY <1>1 DEF IInv, LostOK, ElfPcs
    <1>8. LostOK'
        <2>1. ASSUME NEW x \in lost PROVE x[2] < buf'[x[1]].cap
            <3>1. x[1] \in Buffers /\ x[2] \in Nat /\ x[2] < buf[x[1]].cap
                BY <1>7
            <3> QED BY <1>2, <1>4, <3>1
        <2> QED BY <1>1, <1>7, <2>1 DEF LostOK, LoadPcs
    <1>9. Held'
        <2> DEFINE Blocks  == {<<t, 0>> : t \in ptr}
                   Live    == {<<b, buf[b].cap>> : b \in {c \in Buffers : ~buf[c].null}}
                   NewLive == {<<b, buf'[b].cap>> : b \in {c \in Buffers : ~buf'[c].null}}
        <2>1. heap = Blocks \cup lost \cup Live
            BY <1>5 DEF Held
        <2>2. NewLive = (Live \ {<<p, buf[p].cap>>}) \cup {<<p, Grown>>}
            BY <1>2, <1>4
        <2>3. <<p, buf[p].cap>> \notin lost
            BY <1>2, <1>7
        <2>4. ~buf[p].null => <<p, buf[p].cap>> \notin Blocks
            BY <1>2
        <2>5. buf[p].null => <<p, buf[p].cap>> \notin Live
            OBVIOUS
        <2>6. Blocks' = Blocks /\ Live' = NewLive
            BY <1>1
        <2> HIDE DEF Blocks, Live, NewLive
        <2>7. heap' = Blocks \cup lost \cup NewLive
            BY <1>1, <2>1, <2>2, <2>3, <2>4, <2>5
        <2> USE DEF Blocks, Live, NewLive
        <2> QED BY <1>1, <2>7 DEF Held
    <1>10. PutOK' /\ StreamsOK'
        BY <1>1 DEF IInv, PutOK, StreamsOK, Put
    <1>11. FilledOK'
        <2>1. FilledOK /\ PutOK
            BY DEF IInv
        <2>2. CASE put.ok = "init_strtab"
            <3>1. p = "shstrtab" /\ Fresh("strtab") /\ Fresh("symtab") /\ Begun("shstrtab")
                BY <1>1, <2>1, <2>2 DEF FilledOK, PutOK, Put, p
            <3>2. Fresh("strtab")' /\ Fresh("symtab")' /\ Begun("shstrtab")'
                BY <1>4, <3>1 DEF Fresh, Begun, Buffers
            <3> QED BY <1>1, <2>2, <3>2 DEF FilledOK, Put, ExportPcs, WritePcs
        <2>3. CASE put.ok = "init_symtab"
            <3>1. p = "strtab" /\ Filled("shstrtab") /\ Fresh("symtab") /\ Begun("strtab")
                BY <1>1, <2>1, <2>3 DEF FilledOK, PutOK, Put, p
            <3>2. Filled("shstrtab")' /\ Fresh("symtab")' /\ Begun("strtab")'
                BY <1>4, <3>1 DEF Filled, Fresh, Begun, Buffers
            <3> QED BY <1>1, <2>3, <3>2 DEF FilledOK, Put, ExportPcs, WritePcs
        <2>4. CASE put.ok = "export_file"
            <3>1. p = "symtab" /\ Filled("shstrtab") /\ Filled("strtab") /\ Begun("symtab")
                BY <1>1, <2>1, <2>4 DEF FilledOK, PutOK, Put, p
            <3>2. Filled("shstrtab")' /\ Filled("strtab")' /\ Begun("symtab")'
                BY <1>4, <3>1 DEF Filled, Fresh, Begun, Buffers
            <3> QED BY <1>1, <2>4, <3>2 DEF FilledOK, Put, ExportPcs, WritePcs
        <2>5. CASE put.ok \in {"add_file", "export", "add_symbol"}
            <3>1. lost # {} \/ \A b \in Buffers : Filled(b)
                BY <1>1, <2>1, <2>5 DEF FilledOK, Put
            <3>2. lost' # {} \/ \A b \in Buffers : Filled(b)'
                BY <1>1, <1>2, <1>4, <3>1 DEF Filled
            <3> QED BY <1>1, <2>5, <3>2 DEF FilledOK, Put, ExportPcs, WritePcs
        <2> QED BY <1>1, <2>2, <2>3, <2>4, <2>5, PutFacts
    <1> QED BY <1>1, <1>2, <1>4, <1>5, <1>6, <1>8, <1>9, <1>10, <1>11, ElfInv DEF ElfPcs

\* realloc has failed.
LEMMA GrowFailsInv == IInv /\ GrowFails => IInv'
    <1> SUFFICES ASSUME IInv, GrowFails PROVE IInv'
        OBVIOUS
    <1> DEFINE p == put.buf
    <1>1. /\ pc = "put" /\ pc' = put.fail /\ put' = put
          /\ faults < MaxFaults /\ faults' = faults + 1
          /\ UNCHANGED <<tool, options, file, step, ptr, loaded, streams, heap, range, next,
                         shoff, out, outpos, written>>
          /\ lost' = IF buf[p].null THEN lost ELSE lost \cup {<<p, buf[p].cap>>}
          /\ idx' \in {0, idx}
        BY DEF GrowFails, Fault, loading, writing
    <1>2. /\ p \in Buffers /\ tool = "fas2sym" /\ buf[p].cap \in Nat
          /\ buf[p].cnt \in 0 .. buf[p].cap /\ buf[p].null \in BOOLEAN
          /\ Grown \in Nat /\ Grown > buf[p].cap /\ streams = {}
          /\ ~buf[p].null => buf[p].cap > 0
          /\ \/ put.fail = "elf_cleanup"
             \/ put.ok \in {"add_file", "export", "add_symbol"} /\ put.fail = put.ok
        BY <1>1, PutFacts
    <1>3. Replaced(p, [cap |-> Grown, cnt |-> buf[p].cnt, null |-> TRUE, data |-> NoData])
        BY GrowFailsSet
    <1>4. /\ Shape' /\ \A b \in Buffers \ {p} : buf'[b] = buf[b]
          /\ buf'[p].cap = Grown /\ buf'[p].cnt = buf[p].cnt /\ buf'[p].null = TRUE
        <2> DEFINE b == [cap |-> Grown, cnt |-> buf[p].cnt, null |-> TRUE, data |-> NoData]
        <2>1. /\ b = [cap |-> b.cap, cnt |-> b.cnt, null |-> b.null, data |-> b.data]
              /\ b.cap = Grown /\ b.cnt = buf[p].cnt /\ b.null = TRUE
            OBVIOUS
        <2>2. Shape /\ Replaced(p, b)
            BY <1>3 DEF IInv
        <2> HIDE DEF b
        <2>3. Shape' /\ buf'[p] = b /\ \A c \in Buffers \ {p} : buf'[c] = buf[c]
            BY <1>2, <2>1, <2>2, BufferSet
        <2> QED BY <2>1, <2>3
    <1> HIDE DEF p
    <1>5. /\ faults \in 0 .. MaxFaults /\ step \in 1 .. 13 /\ next \in 1 .. (Len(file.symbols) + 1)
          /\ idx \in Nat /\ shoff \in Nat /\ outpos \in Nat /\ DOMAIN out \subseteq PartNames /\ Held
          /\ \A b \in Buffers : buf[b].cap \in Nat /\ buf[b].cnt \in 0 .. buf[b].cap
          /\ MaxFaults \in Nat
        BY <1>1, ElfFacts DEF ElfPcs
    <1>6. \A b \in Buffers : buf'[b].cap \in Nat /\ buf'[b].cnt \in 0 .. buf'[b].cap
        <2> TAKE b \in Buffers
        <2>1. CASE b = p
            BY <1>2, <1>4, <2>1
        <2>2. CASE b # p
            BY <1>4, <1>5, <2>2
        <2> QED BY <2>1, <2>2
    <1>7. /\ lost \subseteq Buffers \X (Nat \ {0})
          /\ \A x \in lost : x[2] < buf[x[1]].cap
        BY <1>1 DEF IInv, LostOK, ElfPcs
    <1>8. faults' \in 0 .. MaxFaults /\ faults' > 0 /\ idx' \in Nat
        BY <1>1, <1>5
    <1>9. pc' \in ElfPcs \cup {"elf_cleanup"} /\ pc' \notin {"write", "put", "fclose", "resolve"}
        BY <1>1, <1>2 DEF ElfPcs, ExportPcs
    <1>10. LostOK'
        <2>1. ASSUME NEW x \in lost PROVE x[2] < buf'[x[1]].cap
            <3>1. x[1] \in Buffers /\ x[2] \in Nat /\ x[2] < buf[x[1]].cap
                BY <1>7
            <3> QED BY <1>2, <1>4, <3>1
        <2>2. ASSUME ~buf[p].null, NEW x, x = <<p, buf[p].cap>>
              PROVE  x[2] < buf'[x[1]].cap /\ x \in Buffers \X (Nat \ {0})
            BY <1>2, <1>4, <2>2
        <2>3. /\ \A x \in lost' : x[2] < buf'[x[1]].cap
              /\ lost' \subseteq Buffers \X (Nat \ {0})
            BY <1>1, <1>7, <2>1, <2>2
        <2> QED BY <1>8, <1>9, <2>3 DEF LostOK, LoadPcs, ElfPcs, ExportPcs, WritePcs
    <1>11. Held'
        <2> DEFINE Blocks  == {<<t, 0>> : t \in ptr}
                   Live    == {<<b, buf[b].cap>> : b \in {c \in Buffers : ~buf[c].null}}
                   NewLive == {<<b, buf'[b].cap>> : b \in {c \in Buffers : ~buf'[c].null}}
        <2>1. heap = Blocks \cup lost \cup Live
            BY <1>5 DEF Held
        <2>2. /\ NewLive = Live \ {<<p, buf[p].cap>>}
              /\ ~buf[p].null => <<p, buf[p].cap>> \in Live
              /\ buf[p].null => <<p, buf[p].cap>> \notin Live
            BY <1>2, <1>4
        <2> HIDE DEF Blocks, Live, NewLive
        <2>3. heap = Blocks \cup lost' \cup NewLive
            BY <1>1, <2>1, <2>2
        <2> USE DEF Blocks, Live, NewLive
        <2> QED BY <1>1, <2>3 DEF Held
    <1>12. PutOK'
        <2>1. pc' = "add_symbol" => next' <= Len(file'.symbols)
            BY <1>1, <1>2 DEF IInv, PutOK, Put
        <2> QED BY <1>9, <2>1 DEF PutOK, Put
    <1>13. StreamsOK'
        BY <1>1, <1>2 DEF StreamsOK
    <1>14. FilledOK'
        <2>1. CASE put.fail = "elf_cleanup"
            BY <1>1, <2>1 DEF FilledOK, Put, ExportPcs, WritePcs
        <2>2. CASE put.ok \in {"add_file", "export", "add_symbol"} /\ put.fail = put.ok
            <3>1. lost # {} \/ \A b \in Buffers : Filled(b)
                BY <1>1, <2>2 DEF IInv, FilledOK, Put
            <3>2. lost' # {}
                BY <1>1, <1>2, <3>1 DEF Filled
            <3> QED BY <1>1, <2>2, <3>2 DEF FilledOK, Put, ExportPcs, WritePcs
        <2> QED BY <1>2, <2>1, <2>2
    <1> QED BY <1>1, <1>2, <1>4, <1>5, <1>6, <1>8, <1>9, <1>10, <1>11, <1>12, <1>13, <1>14, ElfInv
            DEF ElfPcs

\* memcpy.
LEMMA CopyInv == IInv /\ Copy => IInv'
    <1> SUFFICES ASSUME IInv, Copy PROVE IInv'
        OBVIOUS
    <1> DEFINE p == put.buf
    <1>1. /\ pc = "put" /\ put' = put /\ buf[p].cap >= Room
          /\ UNCHANGED <<tool, options, file, step, ptr, loaded, streams, faults, heap, range, idx,
                         next, shoff, out, outpos, written, lost>>
        BY DEF Copy, loading, writing
    <1>2. /\ p \in Buffers /\ tool = "fas2sym" /\ buf[p].cap \in Nat /\ buf[p].cnt \in Nat
          /\ buf[p].null \in BOOLEAN /\ Room \in Nat \ {0} /\ streams = {}
          /\ \/ put.ok \in {"init_strtab", "init_symtab", "export_file"}
             \/ put.ok \in {"add_file", "export", "add_symbol"}
        BY <1>1, PutFacts
    <1>3. /\ faults \in 0 .. MaxFaults /\ step \in 1 .. 13 /\ next \in 1 .. (Len(file.symbols) + 1)
          /\ idx \in Nat /\ shoff \in Nat /\ outpos \in Nat /\ DOMAIN out \subseteq PartNames /\ Held
          /\ \A b \in Buffers : buf[b].cap \in Nat /\ buf[b].cnt \in 0 .. buf[b].cap
        BY <1>1, ElfFacts DEF ElfPcs
    <1>4. FilledOK /\ PutOK
        BY DEF IInv
    <1>5. CASE buf[p].null
        <2>1. pc' = "crash" /\ UNCHANGED buf
            BY <1>5 DEF Copy
        <2>2. lost # {}
            <3>1. put.ok \notin {"init_strtab", "init_symtab", "export_file"}
                <4>1. ASSUME put.ok \in {"init_strtab", "init_symtab", "export_file"} PROVE Begun(p)
                    BY <1>1, <1>4, <4>1 DEF FilledOK, PutOK, Put
                <4> QED BY <1>1, <1>2, <1>5, <4>1 DEF Begun
            <3> QED BY <1>1, <1>2, <1>4, <1>5, <3>1 DEF FilledOK, Put, Filled
        <2> QED BY <1>1, <1>2, <1>3, <2>1, <2>2, CrashInv DEF ElfPcs
    <1>6. CASE ~buf[p].null
        <2>1. pc' = put.ok
            BY <1>6 DEF Copy
        <2>2. Replaced(p, [cap |-> buf[p].cap, cnt |-> Room, null |-> FALSE,
                           data |-> Stored(buf[p].data, buf[p].cnt, put.item)])
            BY <1>6, CopySet
        <2>3. /\ Shape' /\ \A b \in Buffers \ {p} : buf'[b] = buf[b]
              /\ buf'[p].cap = buf[p].cap /\ buf'[p].cnt = Room /\ buf'[p].null = FALSE
              /\ DOMAIN buf'[p].data = DOMAIN buf[p].data \cup {buf[p].cnt}
            <3> DEFINE d == Stored(buf[p].data, buf[p].cnt, put.item)
                       b == [cap |-> buf[p].cap, cnt |-> Room, null |-> FALSE, data |-> d]
            <3>1. /\ b = [cap |-> b.cap, cnt |-> b.cnt, null |-> b.null, data |-> b.data]
                  /\ b.cap = buf[p].cap /\ b.cnt = Room /\ b.null = FALSE /\ b.data = d
                OBVIOUS
            <3>2. Shape /\ Replaced(p, b) /\ b.cap > 0
                BY <1>1, <1>2, <2>2, <3>1 DEF IInv
            <3>3. DOMAIN d = DOMAIN buf[p].data \cup {buf[p].cnt}
                BY DEF Stored
            <3> HIDE DEF b, d
            <3>4. Shape' /\ buf'[p] = b /\ \A c \in Buffers \ {p} : buf'[c] = buf[c]
                BY <1>2, <3>1, <3>2, BufferSet
            <3> QED BY <3>1, <3>3, <3>4
        <2> HIDE DEF p
        <2>4. \A b \in Buffers : buf'[b].cap \in Nat /\ buf'[b].cnt \in 0 .. buf'[b].cap
            <3> TAKE b \in Buffers
            <3>1. CASE b = p
                BY <1>1, <1>2, <2>3, <3>1
            <3>2. CASE b # p
                BY <1>3, <2>3, <3>2
            <3> QED BY <3>1, <3>2
        <2>5. pc' \in ElfPcs /\ pc' \notin WritePcs \cup {"put", "elf_cleanup", "write", "fclose"}
            BY <1>2, <2>1 DEF ElfPcs, ExportPcs, WritePcs
        <2>6. \A b \in Buffers : buf'[b].cap = buf[b].cap /\ buf'[b].null = buf[b].null
            BY <1>2, <1>6, <2>3
        <2>7. LostOK'
            <3>1. /\ lost \subseteq Buffers \X (Nat \ {0})
                  /\ \A x \in lost : x[2] < buf[x[1]].cap
                  /\ lost # {} => faults > 0
                BY <1>1 DEF IInv, LostOK, ElfPcs
            <3>2. \A x \in lost : x[2] < buf'[x[1]].cap
                BY <2>6, <3>1
            <3> QED BY <1>1, <2>5, <3>1, <3>2 DEF LostOK, LoadPcs, ElfPcs, ExportPcs, WritePcs
        <2>8. Held'
            <3>1. {<<b, buf'[b].cap>> : b \in {c \in Buffers : ~buf'[c].null}}
                  = {<<b, buf[b].cap>> : b \in {c \in Buffers : ~buf[c].null}}
                BY <2>6
            <3> QED BY <1>1, <1>3, <3>1 DEF Held
        <2>9. PutOK' /\ StreamsOK'
            BY <1>1, <1>2, <1>4, <2>1 DEF PutOK, StreamsOK, Put
        <2>10. FilledOK'
            <3>1. CASE put.ok = "init_strtab"
                <4>1. p = "shstrtab" /\ Fresh("strtab") /\ Fresh("symtab") /\ Begun("shstrtab")
                    BY <1>1, <1>4, <3>1 DEF FilledOK, PutOK, Put, p
                <4>2. Fresh("strtab")' /\ Fresh("symtab")' /\ Filled("shstrtab")'
                    BY <2>3, <4>1 DEF Fresh, Begun, Filled, Buffers
                <4> QED BY <2>1, <3>1, <4>2 DEF FilledOK, Put, ExportPcs, WritePcs
            <3>2. CASE put.ok = "init_symtab"
                <4>1. p = "strtab" /\ Filled("shstrtab") /\ Fresh("symtab") /\ Begun("strtab")
                    BY <1>1, <1>4, <3>2 DEF FilledOK, PutOK, Put, p
                <4>2. Filled("shstrtab")' /\ Fresh("symtab")' /\ Filled("strtab")'
                    BY <2>3, <4>1 DEF Filled, Fresh, Begun, Buffers
                <4> QED BY <2>1, <3>2, <4>2 DEF FilledOK, Put, ExportPcs, WritePcs
            <3>3. CASE put.ok = "export_file"
                <4>1. p = "symtab" /\ Filled("shstrtab") /\ Filled("strtab") /\ Begun("symtab")
                    BY <1>1, <1>4, <3>3 DEF FilledOK, PutOK, Put, p
                <4>2. \A b \in Buffers : Filled(b)'
                    BY <2>3, <4>1 DEF Filled, Begun, Buffers
                <4> QED BY <2>1, <3>3, <4>2 DEF FilledOK, Put, ExportPcs, WritePcs
            <3>4. CASE put.ok \in {"add_file", "export", "add_symbol"}
                <4>1. lost # {} \/ \A b \in Buffers : Filled(b)
                    BY <1>1, <1>4, <3>4 DEF FilledOK, Put
                <4>2. lost' # {} \/ \A b \in Buffers : Filled(b)'
                    BY <1>1, <1>2, <2>3, <4>1 DEF Filled
                <4> QED BY <2>1, <3>4, <4>2 DEF FilledOK, Put, ExportPcs, WritePcs
            <3> QED BY <1>2, <3>1, <3>2, <3>3, <3>4
        <2> QED BY <1>1, <1>2, <1>3, <2>3, <2>4, <2>5, <2>7, <2>8, <2>9, <2>10, ElfInv
                DEF ElfPcs
    <1> QED BY <1>2, <1>5, <1>6

-----------------------------------------------------------------------------
\* elf_resolve_symbols.
LEMMA ResolveInv == IInv /\ (Resolve \/ ResolveGarbage) => IInv'
    <1> SUFFICES ASSUME IInv, Resolve \/ ResolveGarbage PROVE IInv'
        OBVIOUS
    <1>1. /\ pc = "resolve" /\ step' = 1
          /\ UNCHANGED <<tool, options, file, ptr, loaded, streams, heap, faults, range, put, idx,
                         next, shoff, out, outpos, written, lost>>
        BY DEF Resolve, ResolveGarbage, writing, elfVars
    <1>2. /\ faults \in 0 .. MaxFaults /\ next \in 1 .. (Len(file.symbols) + 1)
          /\ idx \in Nat /\ shoff \in Nat /\ outpos \in Nat /\ DOMAIN out \subseteq PartNames /\ Held
          /\ \A b \in Buffers : buf[b].cap \in Nat /\ buf[b].cnt \in 0 .. buf[b].cap
        BY <1>1, ElfFacts DEF ElfPcs, WritePcs
    <1>3. tool = "fas2sym" /\ streams = {"out"}
        <2>1. ToolOK /\ StreamsOK
            BY DEF IInv
        <2> QED BY <1>1, <2>1 DEF ToolOK, StreamsOK, ElfPcs, WritePcs
    <1>4. lost # {} \/ \A c \in Buffers : ~buf[c].null /\ 0 \in DOMAIN buf[c].data
        BY <1>1, AllFilled DEF WritePcs
    <1>5. /\ lost \subseteq Buffers \X (Nat \ {0})
          /\ \A x \in lost : x[2] < buf[x[1]].cap
          /\ lost # {} => faults > 0
        BY <1>1 DEF IInv, LostOK, ElfPcs, WritePcs
    <1>6. 1 \in 1 .. 13 /\ Len(Parts) = 5
        BY DEF Parts
    <1>7. pc' = "write" => PutOK' /\ StreamsOK'
        BY <1>1, <1>3 DEF PutOK, StreamsOK, Put
    <1>8. CASE ResolveGarbage /\ pc' = "crash"
        <2>1. lost # {} /\ buf' = buf
            BY <1>4, <1>8 DEF ResolveGarbage, Whole, elfVars
        <2> QED BY <1>1, <1>2, <1>3, <1>6, <1>8, <2>1, CrashInv DEF ElfPcs, WritePcs
    <1>9. CASE ResolveGarbage /\ pc' = "write"
        <2>1. buf' = buf /\ faults' \in faults .. MaxFaults
            BY <1>1, <1>2, <1>9 DEF ResolveGarbage, elfVars
        <2>2. FilledOK'
            BY <1>1, <1>4, <1>9, <2>1 DEF FilledOK, Put, Filled
        <2> QED BY <1>1, <1>2, <1>3, <1>6, <1>7, <1>9, <2>1, <2>2, MoveInv DEF ElfPcs, WritePcs
    <1>10. CASE Resolve
        <2>1. PICK data : /\ buf' = [buf EXCEPT !["symtab"].data = data]
                          /\ DOMAIN data = DOMAIN buf["symtab"].data
            <3> DEFINE r == Scan(buf["symtab"].cnt \div SymSize)
                       d == [o \in DOMAIN buf["symtab"].data |->
                                IF InText(buf["symtab"].data[o].value, r)
                                  THEN [buf["symtab"].data[o] EXCEPT !.sect = "TEXT"]
                                  ELSE buf["symtab"].data[o]]
            <3>1. buf' = [buf EXCEPT !["symtab"].data = d]
                BY <1>10 DEF Resolve
            <3>2. DOMAIN d = DOMAIN buf["symtab"].data
                OBVIOUS
            <3> QED BY <3>1, <3>2
        <2>2. pc' = "write"
            BY <1>10 DEF Resolve
        <2>3. Shape /\ DOMAIN buf = Buffers /\ "symtab" \in Buffers
            BY DEF IInv, Shape, Buffers
        <2>4. /\ buf'["symtab"].data = data /\ buf'["symtab"].cap = buf["symtab"].cap
              /\ buf'["symtab"].cnt = buf["symtab"].cnt /\ buf'["symtab"].null = buf["symtab"].null
              /\ \A b \in Buffers \ {"symtab"} : buf'[b] = buf[b]
              /\ Shape'
            <3>1. buf["symtab"] = [cap |-> buf["symtab"].cap, cnt |-> buf["symtab"].cnt,
                                   null |-> buf["symtab"].null, data |-> buf["symtab"].data]
                BY <2>3 DEF Shape
            <3> DEFINE n == [cap |-> buf["symtab"].cap, cnt |-> buf["symtab"].cnt,
                             null |-> buf["symtab"].null, data |-> data]
            <3>2. /\ n = [cap |-> n.cap, cnt |-> n.cnt, null |-> n.null, data |-> n.data]
                  /\ n.cap = buf["symtab"].cap /\ n.cnt = buf["symtab"].cnt
                  /\ n.null = buf["symtab"].null /\ n.data = data
                OBVIOUS
            <3>3. buf'["symtab"] = n
                BY <2>1, <2>3, <3>1
            <3>4. Replaced("symtab", n)
                <4>1. /\ DOMAIN buf' = Buffers /\ buf' = [c \in Buffers |-> buf'[c]]
                      /\ \A c \in Buffers \ {"symtab"} : buf'[c] = buf[c]
                    BY <2>1, <2>3
                <4> QED BY <3>3, <4>1 DEF Replaced
            <3> HIDE DEF n
            <3>5. ~n.null => n.cap > 0
                BY <2>3, <3>2 DEF Shape
            <3>6. n.null \in BOOLEAN
                BY <2>3, <3>2 DEF Shape
            <3>7. Shape' /\ buf'["symtab"] = n /\ \A c \in Buffers \ {"symtab"} : buf'[c] = buf[c]
                BY <2>3, <3>2, <3>4, <3>5, <3>6, BufferSet
            <3> QED BY <3>2, <3>7
        <2>5. \A b \in Buffers : /\ buf'[b].cap = buf[b].cap /\ buf'[b].null = buf[b].null
                                 /\ buf'[b].cnt = buf[b].cnt
                                 /\ DOMAIN buf'[b].data = DOMAIN buf[b].data
            BY <2>1, <2>3, <2>4
        <2>6. \A b \in Buffers : buf'[b].cap \in Nat /\ buf'[b].cnt \in 0 .. buf'[b].cap
            BY <1>2, <2>5
        <2>7. LostOK'
            <3>1. \A x \in lost : x[2] < buf'[x[1]].cap
                BY <1>5, <2>5
            <3> QED BY <1>1, <1>5, <2>2, <3>1 DEF LostOK, LoadPcs
        <2>8. Held'
            <3>1. {<<b, buf'[b].cap>> : b \in {c \in Buffers : ~buf'[c].null}}
                  = {<<b, buf[b].cap>> : b \in {c \in Buffers : ~buf[c].null}}
                BY <2>5
            <3> QED BY <1>1, <1>2, <3>1 DEF Held
        <2>9. FilledOK'
            <3>1. lost' # {} \/ \A b \in Buffers : Filled(b)'
                BY <1>1, <1>4, <2>5 DEF Filled
            <3> QED BY <2>2, <3>1 DEF FilledOK, Put
        <2> QED BY <1>1, <1>2, <1>3, <1>6, <1>7, <2>2, <2>4, <2>6, <2>7, <2>8, <2>9, ElfInv
                DEF ElfPcs, WritePcs
    <1> QED BY <1>8, <1>9, <1>10 DEF ResolveGarbage

-----------------------------------------------------------------------------
\* What a display reads has been loaded, or the file refers into a table of
\* length 0.
LEMMA NeedsLoaded ==
    ASSUME IInv, pc = "loaded", tool # "fas2sym", NEW part \in options
    PROVE  Needs(part) \subseteq loaded \cup (Referred \cap file.empty)
    <1>1. TablesOK /\ tool \in FasTools \cup {"readcoff"} /\ file \in Files
        BY DEF IInv, TypeOK, LoadTypeOK
    <1>2. CASE tool = "fasdump"
        <2>1. /\ {"strtab", "symtab", "psrc"} \subseteq loaded \cup file.empty
              /\ "sectab" \in loaded \cup file.empty
            BY <1>1, <1>2 DEF TablesOK, FasTools
        <2>2. /\ DOMAIN file.symbols = 1 .. Len(file.symbols)
              /\ \A i \in 1 .. Len(file.symbols) :
                    file.symbols[i].place \in {"none", "strtab", "psrc"}
            BY <1>1, FileFacts
        <2>3. Places \subseteq {"strtab", "psrc"}
            BY <2>2 DEF Places
        <2>4. FasdumpNeeds(part) \subseteq {"strtab", "symtab", "psrc", "sectab"}
            BY <2>3 DEF FasdumpNeeds
        <2>5. Needs(part) = FasdumpNeeds(part) /\ FasdumpNeeds(part) \subseteq Referred
            BY <1>2 DEF Needs, Referred
        <2> QED BY <2>1, <2>4, <2>5
    <1>3. CASE tool = "readcoff"
        <2>1. "scnhdrs" \in loaded
            BY <1>1, <1>3 DEF TablesOK
        <2> QED BY <1>3, <2>1 DEF Needs, ReadcoffNeeds
    <1> QED BY <1>1, <1>2, <1>3 DEF FasTools

\* Behind the work only the tables are left to be freed.
LEMMA LeftInv ==
    ASSUME IInv, pc \in {"loaded", "elf_cleanup"}, pc' = "free_tables",
           UNCHANGED <<tool, options, file, step, ptr, loaded, streams, faults>>,
           UNCHANGED <<range, idx, next, shoff, out, outpos, written, lost>>,
           Shape', \A b \in Buffers : /\ buf'[b].null /\ buf'[b].cap \in Nat
                                      /\ buf'[b].cnt \in 0 .. buf'[b].cap,
           heap' = {<<t, 0>> : t \in ptr} \cup lost,
           tool = "fas2sym" => written \/ faults > 0
    PROVE  IInv'
    <1>1. TypeOK /\ StreamsOK /\ LostOK /\ options \in Display
        BY DEF IInv, TypeOK, LoadTypeOK
    <1>2. TypeOK'
        <2>1. Display' = Display
            BY DEF Display
        <2>2. LoadTypeOK'
            BY <1>1, <2>1 DEF TypeOK, LoadTypeOK
        <2> QED BY <1>1, <2>2 DEF TypeOK
    <1>3. LostOK'
        BY <1>1 DEF LostOK, LoadPcs, ElfPcs, ExportPcs, WritePcs
    <1>4. NothingLeaks'
        <2>1. {c \in Buffers : ~buf'[c].null} = {}
            OBVIOUS
        <2>2. {<<b, buf'[b].cap>> : b \in {c \in Buffers : ~buf'[c].null}} = {}
            BY <2>1
        <2> QED BY <2>2 DEF NothingLeaks
    <1>5. StreamsOK'
        BY <1>1 DEF StreamsOK
    <1>6. ToolOK' /\ LoadOK' /\ TablesOK' /\ PutOK' /\ FilledOK' /\ CrashIsExplained'
        BY DEF ToolOK, LoadOK, TablesOK, PutOK, FilledOK, Put, CrashIsExplained, ElfPcs,
               ExportPcs, WritePcs
    <1>7. FailureOK'
        BY DEF FailureOK
    <1> QED BY <1>2, <1>3, <1>4, <1>5, <1>6, <1>7 DEF IInv

\* process_file of fasdump, main of readcoff.
LEMMA ShowPartsInv == IInv /\ ShowParts => IInv'
    <1> SUFFICES ASSUME IInv, ShowParts PROVE IInv'
        OBVIOUS
    <1>1. /\ pc = "loaded" /\ tool # "fas2sym"
          /\ UNCHANGED <<tool, options, file, step, ptr, loaded, streams, heap, faults>>
          /\ UNCHANGED <<range, buf, idx, next, shoff, out, outpos, written, lost>>
        BY DEF ShowParts, loading, elfVars
    <1>2. \/ pc' = "free_tables"
          \/ pc' = "crash" /\ Referred \cap file.empty # {}
        <2>1. CASE UNION {Needs(part) : part \in options} \subseteq loaded
            BY <2>1 DEF ShowParts, Reads
        <2>2. CASE ~(UNION {Needs(part) : part \in options} \subseteq loaded)
            <3>1. pc' \in {"free_tables", "crash"}
                BY <2>2 DEF ShowParts, Reads
            <3>2. PICK part \in options : ~(Needs(part) \subseteq loaded)
                BY <2>2
            <3> QED BY <1>1, <3>1, <3>2, NeedsLoaded
        <2> QED BY <2>1, <2>2
    <1>3. lost = {} /\ \A b \in Buffers : Fresh(b)
        BY <1>1 DEF IInv, LostOK, LoadPcs
    <1>4. heap = {<<t, 0>> : t \in ptr}
        BY <1>1, LoadFacts DEF LoadPcs
    <1>5. Shape'
        BY <1>1 DEF IInv, Shape
    <1>6. \A b \in Buffers : /\ buf'[b].null /\ buf'[b].cap \in Nat
                             /\ buf'[b].cnt \in 0 .. buf'[b].cap
        BY <1>1, <1>3 DEF Fresh
    <1>7. CASE pc' = "free_tables"
        BY <1>1, <1>3, <1>4, <1>5, <1>6, <1>7, LeftInv
    <1>8. CASE pc' = "crash" /\ Referred \cap file.empty # {}
        <2>1. step' \in 1 .. 13
            BY <1>1 DEF IInv, TypeOK, LoadTypeOK
        <2> QED BY <1>1, <1>8, <2>1, CrashInv
    <1> QED BY <1>2, <1>7, <1>8

\* elf_cleanup.
LEMMA ElfCleanupInv == IInv /\ ElfCleanup => IInv'
    <1> SUFFICES ASSUME IInv, ElfCleanup PROVE IInv'
        OBVIOUS
    <1> DEFINE Blocks == {<<t, 0>> : t \in ptr}
               Live   == {<<b, buf[b].cap>> : b \in {c \in Buffers : ~buf[c].null}}
    <1>1. /\ pc = "elf_cleanup" /\ pc' = "free_tables" /\ heap' = heap \ Live /\ buf' = NoBuffers
          /\ UNCHANGED <<tool, options, file, step, ptr, loaded, streams, faults>>
          /\ UNCHANGED <<range, idx, next, shoff, out, outpos, written, lost>>
        BY DEF ElfCleanup, loading, writing
    <1>2. \A b \in Buffers : /\ buf[b].cap \in Nat
                             /\ ~buf[b].null => buf[b].cap > 0
        BY <1>1, ElfFacts
    <1>3. Held
        BY <1>1, ElfFacts
    <1>4. \A x \in lost : x[2] < buf[x[1]].cap
        BY <1>1 DEF IInv, LostOK
    <1>5. \A x \in Live : x \notin Blocks /\ x \notin lost
        <2> SUFFICES ASSUME NEW b \in Buffers, ~buf[b].null
                     PROVE  <<b, buf[b].cap>> \notin Blocks /\ <<b, buf[b].cap>> \notin lost
            OBVIOUS
        <2>1. <<b, buf[b].cap>> \notin Blocks
            BY <1>2
        <2>2. <<b, buf[b].cap>> \notin lost
            BY <1>2, <1>4
        <2> QED BY <2>1, <2>2
    <1>6. heap' = Blocks \cup lost
        <2>1. heap = Blocks \cup lost \cup Live
            BY <1>3 DEF Held
        <2> HIDE DEF Blocks, Live
        <2> QED BY <1>1, <1>5, <2>1
    <1>7. \A b \in Buffers : buf'[b] = [cap |-> 0, cnt |-> 0, null |-> TRUE, data |-> NoData]
        BY <1>1 DEF NoBuffers
    <1>8. \A b \in Buffers : buf'[b].null /\ buf'[b].cap \in Nat /\ buf'[b].cnt \in 0 .. buf'[b].cap
        BY <1>7
    <1>9. Shape'
        <2>1. DOMAIN buf' = Buffers /\ buf' = [b \in Buffers |-> buf'[b]]
            BY <1>1 DEF NoBuffers
        <2>2. ASSUME NEW b \in Buffers
              PROVE  /\ buf'[b] = [cap |-> buf'[b].cap, cnt |-> buf'[b].cnt,
                                   null |-> buf'[b].null, data |-> buf'[b].data]
                     /\ buf'[b].null \in BOOLEAN
                     /\ ~buf'[b].null => buf'[b].cap > 0
            <3>1. buf'[b] = [cap |-> 0, cnt |-> 0, null |-> TRUE, data |-> NoData]
                BY <1>7
            <3> QED BY <3>1
        <2> QED BY <2>1, <2>2 DEF Shape
    <1>10. written \/ faults > 0
        BY <1>1 DEF IInv, FailureOK
    <1> QED BY <1>1, <1>6, <1>8, <1>9, <1>10, LeftInv

\* The end of each of the programs.
LEMMA FreeAllInv == IInv /\ FreeAll => IInv'
    <1> SUFFICES ASSUME IInv, FreeAll PROVE IInv'
        OBVIOUS
    <1>1. /\ pc = "free_tables" /\ pc' = Status /\ heap' = heap \ {<<t, 0>> : t \in ptr}
          /\ ptr' = {} /\ loaded' = {}
          /\ UNCHANGED <<tool, options, file, step, streams, faults>>
          /\ UNCHANGED <<range, buf, idx, next, shoff, out, outpos, written, lost>>
        BY DEF FreeAll, FreeTables, elfVars
    <1>2. pc' \in {"success", "failure"} /\ (pc' = "failure" => tool = "fas2sym" /\ ~written)
        BY <1>1 DEF Status
    <1>3. /\ TypeOK /\ Shape /\ LostOK /\ options \in Display
          /\ streams = {} /\ faults \in 0 .. MaxFaults
        BY <1>1 DEF IInv, TypeOK, LoadTypeOK, StreamsOK
    <1>4. heap' = lost
        <2> DEFINE Blocks == {<<t, 0>> : t \in ptr}
                   Live   == {<<b, buf[b].cap>> : b \in {c \in Buffers : ~buf[c].null}}
        <2>1. \A b \in Buffers : buf[b].null
            BY <1>1, <1>3 DEF LostOK
        <2>2. Live = {}
            BY <2>1
        <2>3. heap = Blocks \cup lost
            BY <1>1, <2>2 DEF IInv, NothingLeaks, Ends
        <2>4. \A t \in ptr : <<t, 0>> \notin lost
            BY <1>3 DEF LostOK
        <2> QED BY <1>1, <2>3, <2>4
    <1>5. TypeOK'
        <2>1. Display' = Display
            BY <1>1 DEF Display
        <2>2. LoadTypeOK'
            BY <1>1, <1>3, <2>1 DEF TypeOK, LoadTypeOK
        <2> QED BY <1>1, <1>2, <1>3, <2>2 DEF TypeOK, Ends
    <1>6. Shape'
        BY <1>1, <1>3 DEF Shape
    <1>7. LostOK'
        BY <1>1, <1>2, <1>3 DEF LostOK, LoadPcs, ElfPcs, ExportPcs, WritePcs
    <1>8. NothingLeaks' /\ StreamsOK'
        BY <1>1, <1>2, <1>3, <1>4 DEF NothingLeaks, StreamsOK, Ends
    <1>9. FailureOK'
        <2>1. pc' = "failure" => faults > 0
            BY <1>1, <1>2, <1>3 DEF IInv, FailureOK
        <2> QED BY <1>1, <1>2, <1>3, <2>1 DEF FailureOK
    <1>10. ToolOK' /\ LoadOK' /\ TablesOK' /\ PutOK' /\ FilledOK' /\ CrashIsExplained'
        BY <1>2 DEF ToolOK, LoadOK, TablesOK, PutOK, FilledOK, Put, CrashIsExplained, ElfPcs,
                    ExportPcs, WritePcs
    <1> QED BY <1>5, <1>6, <1>7, <1>8, <1>9, <1>10 DEF IInv

\* Nothing changes.
LEMMA StutterInv == IInv /\ UNCHANGED vars => IInv'
    <1> SUFFICES ASSUME IInv, UNCHANGED vars PROVE IInv'
        OBVIOUS
    <1>1. /\ UNCHANGED <<tool, options, file, pc, step, ptr, loaded, heap, streams, faults>>
          /\ UNCHANGED <<range, buf, put, idx, next, shoff, out, outpos, written, lost>>
        BY DEF vars, loadVars, elfVars
    <1>2. TypeOK' /\ Shape'
        BY <1>1 DEF IInv, TypeOK, LoadTypeOK, Display, Shape
    <1>3. ToolOK' /\ StreamsOK'
        BY <1>1 DEF IInv, ToolOK, StreamsOK
    <1>4. LoadOK' /\ TablesOK'
        BY <1>1 DEF IInv, LoadOK, FasOK, CoffOK, TablesOK
    <1>5. NothingLeaks'
        BY <1>1 DEF IInv, NothingLeaks
    <1>6. LostOK'
        BY <1>1 DEF IInv, LostOK, Fresh
    <1>7. PutOK'
        BY <1>1 DEF IInv, PutOK, Put
    <1>8. FilledOK'
        BY <1>1 DEF IInv, FilledOK, Put, Fresh, Begun, Filled
    <1>9. FailureOK'
        BY <1>1 DEF IInv, FailureOK, Reason, Steps
    <1>10. CrashIsExplained'
        <2>1. Referred' = Referred
            BY <1>1 DEF Referred, FasdumpNeeds, Places, Exported
        <2> QED BY <1>1, <2>1 DEF IInv, CrashIsExplained
    <1> QED BY <1>2, <1>3, <1>4, <1>5, <1>6, <1>7, <1>8, <1>9, <1>10 DEF IInv

\* Every step.
LEMMA NextInv == IInv /\ [Next]_vars => IInv'
    <1> SUFFICES ASSUME IInv, [Next]_vars PROVE IInv'
        OBVIOUS
    <1>1. CASE Load /\ UNCHANGED elfVars
        BY <1>1, BeginInv, HeaderInv, StepInv, EndInv DEF Load
    <1>2. CASE Export
        BY <1>2, InitBuffersInv, ExportInv, WalkInv, GrowInv, GrowFailsInv, CopyInv DEF Export
    <1>3. CASE Write
        BY <1>3, WalkInv, ResolveInv DEF Write
    <1>4. CASE ShowParts \/ ElfCleanup \/ FreeAll
        BY <1>4, ShowPartsInv, ElfCleanupInv, FreeAllInv
    <1>5. CASE UNCHANGED vars
        BY <1>5, StutterInv
    <1> QED BY <1>1, <1>2, <1>3, <1>4, <1>5 DEF Next, Finished

-----------------------------------------------------------------------------
\* The inductive invariant holds in every state of fas2sym, fasdump and readcoff.
THEOREM Invariant == Spec => []IInv
    BY InitInv, NextInv, PTL DEF Spec

\* Every variable has its type and no buffer holds more than it has room for,
\* for names of any length and however realloc fails (buffer_put).
THEOREM TypeCorrect == Spec => []TypeOK
    <1>1. IInv => TypeOK
        BY DEF IInv
    <1> QED BY <1>1, Invariant, PTL

\* When a tool ends, whatever failed, no stream is open and no memory in use
\* but what a failed realloc has lost (fas_cleanup, coff_cleanup, elf_cleanup).
THEOREM NothingIsLeft == Spec => []NothingLeaks
    <1>1. IInv => NothingLeaks
        BY DEF IInv
    <1> QED BY <1>1, Invariant, PTL

\* A crash of any of the tools comes behind a failed realloc of fas2sym, or its
\* input refers into a table of length 0 (fas_load_table, fas_export_symbols,
\* buffer_put, print_header, print_sections, print_symbol_name).
THEOREM CrashesAreExplained == Spec => []CrashIsExplained
    <1>1. IInv => CrashIsExplained
        BY DEF IInv
    <1> QED BY <1>1, Invariant, PTL

\* Without a failed call a tool refuses only what it cannot take (fas_load_file,
\* coff_load_file).
THEOREM RefusalsAreTrue == Spec => []RefusalIsTrue
    <1>1. IInv => RefusalIsTrue
        BY DEF IInv, FailureOK, Reason, RefusalIsTrue
    <1> QED BY <1>1, Invariant, PTL

-----------------------------------------------------------------------------
\* How many symbols the input has, and the names of the output.
Last == Len(file.symbols)
StrData == buf["strtab"].data

SymType == [name : Nat, value : 0 .. (Word - 1), type : {"NOTYPE", "FILE", "OBJECT"},
            sect : {"UNDEF", "ABS", "TEXT"}]

\* s may be symbol k of the output: the null symbol, the file's or the one that
\* is defined by a symbol of the input.
Right(k, s) ==
    /\ s \in SymType /\ s.name \in DOMAIN StrData
    /\ k = 0 => s.name = 0
    /\ k = 1 => StrData[s.name] = file.input
    /\ \A i \in Defined(Last) :
          Rank(i) + 1 = k => StrData[s.name] = NameIn(i) /\ s.value = file.symbols[i].value % Word

\* Until the first symbol of the input is looked at, and from elf_init on.
FileOnly == pc \in {"export_file", "add_file"} \/ Put("add_file")
Listing  == FileOnly \/ pc \in ExportPcs \cup WritePcs \/ Put("export") \/ Put("add_symbol")

\* The symbols in the table and those that sh_info counts.
Number  == IF FileOnly \/ Put("export") THEN Rank(next - 1) + 1 ELSE Rank(next - 1) + 2
Counted == IF FileOnly THEN 0 ELSE Rank(next - 1) + 1

\* The symbols are in their places.
Listed ==
    /\ buf["symtab"].cnt = SymSize * Number
    /\ \A k \in 0 .. (Number - 1) :
          SymSize * k \in DOMAIN Symbols /\ Right(k, Sym(Symbols, k))

\* No buffer has contents behind its end, and a section header is four fields.
Inside == \A b \in Buffers : \A o \in DOMAIN buf[b].data : o \in Nat /\ o < buf[b].cnt

Headers ==
    /\ DOMAIN shdrs = Buffers \cup {"text"}
    /\ \A s \in Buffers \cup {"text"} :
          shdrs[s] = [addr |-> shdrs[s].addr, offset |-> shdrs[s].offset,
                      size |-> shdrs[s].size, info |-> shdrs[s].info]

\* elf_init.
Beginning ==
    LET early == \/ pc \in LoadPcs \cup {"init_strtab", "init_symtab"}
                 \/ Put("init_strtab") \/ Put("init_symtab") \/ Put("export_file")
    IN  /\ early => shdrs["symtab"].info = 0
        /\ early \/ FileOnly => next = 1
        /\ Put("init_symtab") => put.item = ""
        /\ pc = "init_symtab" \/ Put("export_file") => StrData[0] = ""
        /\ Put("export_file") => put.item = Symbol(0, 0, "NOTYPE", "UNDEF") /\ put.size = SymSize

\* A name is about to be put, or has been.
Naming(name) == put.buf = "strtab" /\ put.item = name /\ idx = buf["strtab"].cnt
Named(name)  == idx \in DOMAIN StrData /\ StrData[idx] = name

\* The export, up to the range of .text.
Exporting ==
    /\ Listing => Listed /\ StrData[0] = ""
    /\ Listing /\ pc \notin {"write", "fclose"} =>
          shdrs["symtab"].info = Counted /\ \A o \in DOMAIN Symbols : Symbols[o].sect # "TEXT"
    /\ pc \in WritePcs => next = Last + 1
    /\ Put("add_file") => Naming(file.input)
    /\ pc = "add_file" => Named(file.input)
    /\ Put("add_symbol") => Exported(file.symbols[next]) /\ Naming(NameIn(next))
    /\ pc = "add_symbol" => Exported(file.symbols[next]) /\ Named(NameIn(next))
    /\ Put("export") => /\ put.buf = "symtab" /\ put.size = SymSize
                        /\ Right(Number, put.item) /\ put.item.sect # "TEXT"

\* The symbols that have a name, and the one value they have.
Bearers(name) == {k \in 0 .. (Number - 1) : NameOf(k) = name}
OneValue(name) ==
    {v \in 1 .. (Word - 1) : Bearers(name) # {} /\ \A k \in Bearers(name) : Sym(Symbols, k).value = v}

\* .text is between the two.
Placed ==
    range # <<>> /\ range[1] # range[2] =>
        \A begin \in OneValue(range[1]), end \in OneValue(range[2]) :
            /\ shdrs["text"].addr = begin /\ shdrs["text"].size = (end - begin) % Word
            /\ \A k \in 0 .. (Number - 1) :
                  Sym(Symbols, k).sect = "TEXT" <=> Sym(Symbols, k).value \in begin .. end

\* Where the parts of the output begin.
Starts == << 0, EhdrSize, EhdrSize + buf["shstrtab"].cnt,
             EhdrSize + buf["shstrtab"].cnt + buf["strtab"].cnt,
             EhdrSize + buf["shstrtab"].cnt + buf["strtab"].cnt + buf["symtab"].cnt,
             EhdrSize + buf["shstrtab"].cnt + buf["strtab"].cnt + buf["symtab"].cnt + ShdrsSize >>

\* A buffer is in the output.
InFile(b) ==
    /\ b \in DOMAIN out
    /\ out[b].at = Offset(b) /\ out[b].size = buf[b].cnt /\ out[b].data = buf[b].data

\* The output, part by part.
Writing ==
    /\ pc \in {"resolve", "write"} => shoff = Starts[5]
    /\ pc = "write" =>
          /\ Placed
          /\ outpos = Starts[step]
          /\ step > 1 => "ehdr" \in DOMAIN out /\ out["ehdr"].data = shoff
          /\ step > 2 => InFile("shstrtab")
          /\ step > 3 => InFile("strtab")
          /\ step > 4 => InFile("symtab")
          /\ step > 5 => out["shdrs"].at = shoff /\ out["shdrs"].data = shdrs
          /\ step > 5 => \A b \in Buffers : shdrs[b].offset = Offset(b) /\ shdrs[b].size = buf[b].cnt
          /\ shdrs["symtab"].info = IF step > 5 THEN Counted + 1 ELSE Counted

\* What has been written is what the two properties of the output say.
Final ==
    /\ written => pc \in {"fclose", "elf_cleanup", "free_tables", "success"}
    /\ pc = "success" /\ tool = "fas2sym" => written
    /\ pc \in LoadPcs \cup (ElfPcs \ {"write", "fclose"}) => outpos = 0
    /\ written /\ lost = {} => TablesMatch /\ RangeMatches

Content ==
    /\ Inside /\ Headers /\ Final
    /\ lost = {} => Beginning /\ Exporting /\ Writing

-----------------------------------------------------------------------------
\* How many of the first n symbols are exported.
LEMMA RankFacts ==
    ASSUME NEW n \in Nat
    PROVE  IsFiniteSet(Defined(n)) /\ Rank(n) \in Nat
    <1>1. IsFiniteSet(1 .. n)
        BY FS_Interval
    <1>2. Defined(n) \subseteq 1 .. n
        BY DEF Defined
    <1> QED BY <1>1, <1>2, FS_Subset, FS_CardinalityType DEF Rank

LEMMA RankZero == Rank(0) = 0
    <1>1. Defined(0) = {}
        BY DEF Defined
    <1> QED BY <1>1, FS_EmptySet DEF Rank

\* One symbol more.
LEMMA RankStep ==
    ASSUME NEW n \in Nat
    PROVE  /\ Exported(file.symbols[n + 1]) => Rank(n + 1) = Rank(n) + 1
           /\ ~Exported(file.symbols[n + 1]) => Rank(n + 1) = Rank(n)
    <1>1. 1 .. (n + 1) = (1 .. n) \cup {n + 1} /\ n + 1 \notin 1 .. n
        OBVIOUS
    <1>2. n + 1 \notin Defined(n)
        BY <1>1 DEF Defined
    <1>3. CASE Exported(file.symbols[n + 1])
        <2>1. Defined(n + 1) = Defined(n) \cup {n + 1}
            BY <1>1, <1>3 DEF Defined
        <2> QED BY <1>2, <1>3, <2>1, RankFacts, FS_AddElement DEF Rank
    <1>4. CASE ~Exported(file.symbols[n + 1])
        <2>1. Defined(n + 1) = Defined(n)
            BY <1>1, <1>4 DEF Defined
        <2> QED BY <1>4, <2>1 DEF Rank
    <1> QED BY <1>3, <1>4

\* An exported symbol is counted with those before it, and no other has its rank.
LEMMA RankOrder ==
    ASSUME NEW n \in Nat, NEW i \in Defined(n)
    PROVE  /\ i \in Nat /\ Rank(i) \in 1 .. Rank(n)
           /\ \A j \in Defined(n) : Rank(j) = Rank(i) => j = i
    <1>1. ASSUME NEW k \in Defined(n)
          PROVE  k \in 1 .. n /\ k \in Nat /\ k \in Defined(k) /\ Defined(k) \subseteq Defined(n)
        BY <1>1 DEF Defined
    <1>2. Rank(i) \in 1 .. Rank(n)
        <2>1. Rank(i) \in Nat /\ Rank(n) \in Nat /\ Rank(i) <= Rank(n)
            BY <1>1, RankFacts, FS_Subset DEF Rank
        <2>2. Rank(i) # 0
            BY <1>1, RankFacts, FS_EmptySet DEF Rank
        <2> QED BY <2>1, <2>2
    <1>3. ASSUME NEW j \in Defined(n), NEW k \in Defined(n), j < k PROVE Rank(j) < Rank(k)
        <2>1. /\ j \in Nat /\ k \in Nat /\ k \in Defined(k) /\ k \notin Defined(j)
              /\ Defined(j) \subseteq Defined(k)
            BY <1>1, <1>3 DEF Defined
        <2>2. Cardinality(Defined(j) \cup {k}) = Rank(j) + 1
            BY <2>1, RankFacts, FS_AddElement DEF Rank
        <2>3. Cardinality(Defined(j) \cup {k}) <= Rank(k)
            BY <2>1, RankFacts, FS_Subset DEF Rank
        <2> QED BY <2>1, <2>2, <2>3, RankFacts
    <1>4. ASSUME NEW j \in Defined(n), Rank(j) = Rank(i) PROVE j = i
        <2>1. j \in Nat /\ i \in Nat /\ Rank(i) \in Nat
            BY <1>1, RankFacts
        <2> QED BY <1>3, <1>4, <2>1
    <1> QED BY <1>1, <1>2, <1>4

\* The input stays the same.
LEMMA RankSame ==
    ASSUME file' = file
    PROVE  Last' = Last /\ \A n : Rank(n)' = Rank(n) /\ Defined(n)' = Defined(n) /\ NameIn(n)' = NameIn(n)
    <1>1. \A n : Defined(n)' = Defined(n)
        BY DEF Defined, Exported
    <1> QED BY <1>1 DEF Rank, Last, NameIn

-----------------------------------------------------------------------------
\* What is in a buffer stays there.
Kept(b) ==
    \A o \in DOMAIN buf[b].data : o \in DOMAIN buf'[b].data /\ buf'[b].data[o] = buf[b].data[o]

\* A symbol stays right when names are added.
LEMMA RightKept ==
    ASSUME file' = file, Kept("strtab"), NEW k, NEW s, Right(k, s)
    PROVE  Right(k, s)'
    <1>1. /\ s \in SymType /\ s.name \in DOMAIN StrData
          /\ k = 0 => s.name = 0
          /\ k = 1 => StrData[s.name] = file.input
          /\ \A i \in Defined(Last) :
               Rank(i) + 1 = k => StrData[s.name] = NameIn(i) /\ s.value = file.symbols[i].value % Word
        BY DEF Right
    <1>2. s.name \in DOMAIN StrData' /\ StrData'[s.name] = StrData[s.name]
        BY <1>1 DEF Kept, StrData
    <1>3. SymType' = SymType
        BY DEF SymType
    <1>4. /\ Last' = Last
          /\ \A n : Rank(n)' = Rank(n) /\ Defined(n)' = Defined(n) /\ NameIn(n)' = NameIn(n)
        BY RankSame
    <1>5. PICK set : set = Defined(Last) /\ set = Defined(Last)'
        <2>1. Defined(Last)' = Defined(Last)
            BY <1>4 DEF Defined, Exported
        <2> QED BY <2>1
    <1>6. \A i \in set : Rank(i)' + 1 = k =>
             StrData'[s.name] = NameIn(i)' /\ s.value = file'.symbols[i].value % Word
        BY <1>1, <1>2, <1>4, <1>5
    <1> QED BY <1>1, <1>2, <1>3, <1>5, <1>6 DEF Right

\* The symbols stay in their places when nothing is added to them.
LEMMA ListedKept ==
    ASSUME file' = file, Kept("strtab"), Kept("symtab"), Listed, Number' = Number,
           buf'["symtab"].cnt = buf["symtab"].cnt
    PROVE  Listed'
    <1>1. ASSUME NEW k \in 0 .. (Number - 1)
          PROVE  SymSize * k \in DOMAIN Symbols' /\ Right(k, Sym(Symbols, k))'
        <2>1. SymSize * k \in DOMAIN Symbols /\ Right(k, Sym(Symbols, k))
            BY DEF Listed
        <2>2. PICK s : s = Sym(Symbols, k)
            OBVIOUS
        <2>3. SymSize * k \in DOMAIN Symbols' /\ Sym(Symbols, k)' = s
            BY <2>1, <2>2 DEF Kept, Symbols, Sym
        <2>4. Right(k, s)'
            BY <2>1, <2>2, RightKept
        <2> QED BY <2>3, <2>4 DEF Right
    <1>2. buf'["symtab"].cnt = SymSize * Number
        BY DEF Listed
    <1> QED BY <1>1, <1>2 DEF Listed

-----------------------------------------------------------------------------
\* What a reader finds depends on the output and the input alone.
LEMMA MatchKept ==
    ASSUME file' = file, UNCHANGED <<out, outpos, range>>
    PROVE  (TablesMatch => TablesMatch') /\ (RangeMatches => RangeMatches')
    <1>1. TablesMatch => TablesMatch'
        <2>1. \A n : Rank(n)' = Rank(n) /\ Defined(n)' = Defined(n) /\ NameIn(n)' = NameIn(n)
            BY RankSame
        <2>2. PICK set, rank : /\ set = Defined(Last) /\ set = Defined(Last)'
                               /\ rank = Rank(Last) /\ rank = Rank(Last)'
            <3>1. Defined(Last)' = Defined(Last)
                BY DEF Defined, Exported, Last
            <3> QED BY <3>1 DEF Rank
        <2>3. /\ OutHeaders' = OutHeaders /\ OutCount' = OutCount
              /\ \A k : OutSym(k)' = OutSym(k) /\ OutName(k)' = OutName(k)
            BY DEF OutHeaders, OutCount, OutSym, OutName, Sym
        <2> SUFFICES ASSUME TablesMatch PROVE TablesMatch'
            OBVIOUS
        <2>4. /\ out["ehdr"].data = out["shdrs"].at /\ outpos = out["shdrs"].at + ShdrsSize
              /\ \A b \in Buffers : /\ OutHeaders[b].offset = out[b].at
                                    /\ OutHeaders[b].size = out[b].size
              /\ OutCount = rank + 2 /\ OutHeaders["symtab"].info = OutCount
              /\ OutSym(0).name = 0 /\ OutName(1) = file.input
              /\ \A i \in set : /\ OutName(Rank(i) + 1) = NameIn(i)
                                /\ OutSym(Rank(i) + 1).value = file.symbols[i].value % Word
            BY <2>2 DEF TablesMatch, Last
        <2>5. \A i \in set : /\ OutName(Rank(i) + 1)' = NameIn(i)'
                             /\ OutSym(Rank(i) + 1)'.value = file'.symbols[i].value % Word
            <3> TAKE i \in set
            <3>1. PICK k : k = Rank(i) + 1 /\ k = Rank(i)' + 1
                BY <2>1
            <3>2. OutName(k)' = NameIn(i) /\ OutSym(k)'.value = file.symbols[i].value % Word
                BY <2>3, <2>4, <3>1
            <3> QED BY <2>1, <3>1, <3>2 DEF OutName, OutSym
        <2> QED BY <2>2, <2>3, <2>4, <2>5 DEF TablesMatch, Last
    <1>2. RangeMatches => RangeMatches'
        BY DEF RangeMatches, ValueOf, OutHeaders, OutCount, OutSym, OutName, Sym
    <1> QED BY <1>1, <1>2

\* What has been written stays as it is.
LEMMA FinalKept ==
    ASSUME Final, file' = file, UNCHANGED <<out, outpos, range, written>>,
           lost' = {} => lost = {},
           written => pc' \in {"fclose", "elf_cleanup", "free_tables", "success"},
           pc' = "success" /\ tool' = "fas2sym" => written,
           pc' \in LoadPcs \cup (ElfPcs \ {"write", "fclose"}) => outpos = 0
    PROVE  Final'
    <1>1. written /\ lost' = {} => TablesMatch /\ RangeMatches
        BY DEF Final
    <1> QED BY <1>1, MatchKept DEF Final

\* The buffers and headers stay as they are.
LEMMA InsideKept == Inside /\ Headers /\ UNCHANGED <<buf, shdrs>> => Inside' /\ Headers'
    BY DEF Inside, Headers

\* Before and behind the work on the output.
LEMMA Quiet ==
    ASSUME pc' \notin LoadPcs \cup ElfPcs
    PROVE  Beginning' /\ Exporting' /\ Writing'
    BY DEF Beginning, Exporting, Writing, Listing, FileOnly, Put, LoadPcs, ElfPcs, ExportPcs, WritePcs

\* A step behind the work.
LEMMA QuietStep ==
    ASSUME Content, Inside', Headers', file' = file, UNCHANGED <<out, outpos, range, written>>,
           pc' \notin LoadPcs \cup ElfPcs, lost' = {} => lost = {},
           written => pc' \in {"elf_cleanup", "free_tables", "success"},
           pc' = "success" /\ tool' = "fas2sym" => written
    PROVE  Content'
    <1>1. Final'
        BY FinalKept DEF Content
    <1> QED BY <1>1, Quiet DEF Content

LEMMA InitContent == Init => Content
    <1> SUFFICES ASSUME Init PROVE Content
        OBVIOUS
    <1>1. /\ pc = "args" /\ buf = NoBuffers /\ next = 1 /\ outpos = 0 /\ written = FALSE
          /\ shdrs = [s \in Buffers \cup {"text"} |->
                         [addr |-> 0, offset |-> 0, size |-> 0, info |-> 0]]
        BY DEF Init, LoadInit
    <1>2. Inside
        BY <1>1 DEF Inside, NoBuffers, NoData
    <1>3. Headers
        BY <1>1 DEF Headers
    <1>4. Final
        BY <1>1 DEF Final
    <1>5. Beginning
        BY <1>1 DEF Beginning, Put, Buffers
    <1>6. Exporting /\ Writing
        BY <1>1 DEF Exporting, Writing, Listing, FileOnly, Put, ExportPcs, WritePcs
    <1> QED BY <1>2, <1>3, <1>4, <1>5, <1>6 DEF Content

\* The loader.
LEMMA LoadContent == Content /\ Load /\ UNCHANGED elfVars => Content'
    <1> SUFFICES ASSUME Content, Load, UNCHANGED elfVars PROVE Content'
        OBVIOUS
    <1>1. /\ file' = file /\ pc \in LoadPcs /\ pc' \in LoadPcs \cup {"usage", "failure"}
        BY DEF Load, Args, Open, OpenFails, ReadHeader, HeaderFails, SkipTable, Malloc, Seek,
               ReadTable, StepFails, LoadFails, Loaded, Op, LoadPcs
    <1>2. UNCHANGED <<range, buf, put, idx, next, shdrs, shoff, out, outpos, written, lost>>
        BY DEF elfVars
    <1>3. outpos = 0 /\ ~written
        BY <1>1 DEF Content, Final, LoadPcs
    <1>4. Final'
        BY <1>1, <1>2, <1>3, FinalKept DEF Content, LoadPcs
    <1>5. lost = {} => Beginning' /\ Exporting' /\ Writing'
        BY <1>1, <1>2 DEF Content, Beginning, Exporting, Writing, Listing, FileOnly, Put, LoadPcs,
                          ExportPcs, WritePcs
    <1> QED BY <1>2, <1>4, <1>5, InsideKept DEF Content

\* The ends of the programs.
LEMMA EndContent == Content /\ (ShowParts \/ ElfCleanup \/ FreeAll) => Content'
    <1> SUFFICES ASSUME Content, ShowParts \/ ElfCleanup \/ FreeAll PROVE Content'
        OBVIOUS
    <1>1. /\ UNCHANGED <<tool, file, range, shdrs, out, outpos, written, lost>>
          /\ pc \in {"loaded", "elf_cleanup", "free_tables"}
        BY DEF ShowParts, ElfCleanup, FreeAll, loading, elfVars, writing
    <1>2. CASE ShowParts
        <2>1. pc' \in {"free_tables", "crash"} /\ buf' = buf /\ pc = "loaded"
            BY <1>2 DEF ShowParts, Reads, elfVars
        <2>2. ~written
            BY <2>1 DEF Content, Final
        <2>3. Inside' /\ Headers'
            BY <1>1, <2>1, InsideKept DEF Content
        <2> QED BY <1>1, <2>1, <2>2, <2>3, QuietStep DEF LoadPcs, ElfPcs, ExportPcs, WritePcs
    <1>3. CASE ElfCleanup
        <2>1. pc' = "free_tables" /\ buf' = NoBuffers
            BY <1>3 DEF ElfCleanup
        <2>2. Inside' /\ Headers'
            BY <1>1, <2>1 DEF Content, Inside, Headers, NoBuffers, NoData
        <2> QED BY <1>1, <2>1, <2>2, QuietStep DEF LoadPcs, ElfPcs, ExportPcs, WritePcs
    <1>4. CASE FreeAll
        <2>1. pc' = Status /\ buf' = buf
            BY <1>4 DEF FreeAll, elfVars
        <2>2. /\ pc' \in {"success", "failure"}
              /\ written => pc' = "success"
              /\ pc' = "success" /\ tool = "fas2sym" => written
            BY <2>1 DEF Status
        <2>3. Inside' /\ Headers'
            BY <1>1, <2>1, InsideKept DEF Content
        <2> QED BY <1>1, <2>2, <2>3, QuietStep DEF LoadPcs, ElfPcs, ExportPcs, WritePcs
    <1> QED BY <1>2, <1>3, <1>4

-----------------------------------------------------------------------------
\* A step of fas2sym before anything is written to the output.
LEMMA FinalEarly ==
    ASSUME Content, file' = file, UNCHANGED <<out, outpos, range, written>>,
           lost' = {} => lost = {},
           pc \in LoadPcs \cup (ElfPcs \ {"write", "fclose"}), pc' \notin {"success", "write", "fclose"}
    PROVE  Final'
    <1>1. ~written /\ outpos = 0
        BY DEF Content, Final, LoadPcs, ElfPcs, ExportPcs, WritePcs
    <1> QED BY <1>1, FinalKept DEF Content

\* elf_add_symbol changes one number.
LEMMA HeadersAdd ==
    ASSUME Headers, shdrs' = [shdrs EXCEPT !["symtab"].info = @ + 1]
    PROVE  Headers' /\ shdrs'["symtab"].info = shdrs["symtab"].info + 1
    <1>1. DOMAIN shdrs' = Buffers \cup {"text"} /\ "symtab" \in Buffers \cup {"text"}
        BY DEF Headers, Buffers
    <1>2. \A s \in Buffers \cup {"text"} : s # "symtab" => shdrs'[s] = shdrs[s]
        BY DEF Headers
    <1>3. shdrs'["symtab"] = [shdrs["symtab"] EXCEPT !.info = @ + 1]
        BY <1>1 DEF Headers
    <1> DEFINE h == shdrs["symtab"]
    <1>4. h = [addr |-> h.addr, offset |-> h.offset, size |-> h.size, info |-> h.info]
        BY <1>1 DEF Headers
    <1>5. shdrs'["symtab"] = [addr |-> h.addr, offset |-> h.offset, size |-> h.size, info |-> h.info + 1]
        BY <1>3, <1>4
    <1>6. ASSUME NEW s \in Buffers \cup {"text"}
          PROVE  shdrs'[s] = [addr |-> shdrs'[s].addr, offset |-> shdrs'[s].offset,
                              size |-> shdrs'[s].size, info |-> shdrs'[s].info]
        <2>1. CASE s = "symtab"
            BY <1>5, <2>1
        <2>2. CASE s # "symtab"
            BY <1>2, <2>2 DEF Headers
        <2> QED BY <2>1, <2>2
    <1> QED BY <1>1, <1>5, <1>6 DEF Headers

\* The numbers of the export.
LEMMA Numbers ==
    ASSUME IInv, pc \in ElfPcs \cup {"loaded"}
    PROVE  /\ file \in Files /\ Last \in Nat /\ next \in 1 .. (Last + 1) /\ next - 1 \in Nat
           /\ Rank(next - 1) \in Nat /\ Number \in Nat /\ Rank(0) = 0
           /\ next = 1 => Rank(next - 1) = 0
           /\ next <= Last =>
                 /\ next \in 1 .. Last
                 /\ Exported(file.symbols[next]) =>
                       Rank(next) = Rank(next - 1) + 1 /\ next \in Defined(Last)
                 /\ ~Exported(file.symbols[next]) => Rank(next) = Rank(next - 1)
    <1>1. file \in Files /\ Last \in Nat /\ next \in 1 .. (Last + 1) /\ next - 1 \in Nat
        BY ElfFacts DEF Last
    <1>2. Rank(next - 1) \in Nat /\ Rank(0) = 0 /\ Number \in Nat
        BY <1>1, RankFacts, RankZero DEF Number
    <1>3. ASSUME next <= Last
          PROVE  /\ next \in 1 .. Last
                 /\ Exported(file.symbols[next]) =>
                       Rank(next) = Rank(next - 1) + 1 /\ next \in Defined(Last)
                 /\ ~Exported(file.symbols[next]) => Rank(next) = Rank(next - 1)
        <2>1. next \in 1 .. Last /\ (next - 1) + 1 = next
            BY <1>1, <1>3
        <2>2. /\ Exported(file.symbols[(next - 1) + 1]) =>
                    Rank((next - 1) + 1) = Rank(next - 1) + 1
              /\ ~Exported(file.symbols[(next - 1) + 1]) => Rank((next - 1) + 1) = Rank(next - 1)
            BY <1>1, RankStep
        <2> QED BY <2>1, <2>2 DEF Defined
    <1> QED BY <1>1, <1>2, <1>3

\* elf_init.
LEMMA InitBuffersContent == IInv /\ Content /\ (InitShstrtab \/ InitStrtab \/ InitSymtab) => Content'
    <1> SUFFICES ASSUME IInv, Content, InitShstrtab \/ InitStrtab \/ InitSymtab PROVE Content'
        OBVIOUS
    <1>1. /\ UNCHANGED <<tool, file, range, buf, idx, next, shdrs, shoff, out, outpos, written, lost>>
          /\ pc \in {"loaded", "init_strtab", "init_symtab"} /\ pc' = "put"
        BY DEF InitShstrtab, InitStrtab, InitSymtab, BufferPut, loading, writing
    <1>2. Final'
        BY <1>1, FinalEarly DEF LoadPcs, ElfPcs, ExportPcs, WritePcs
    <1>3. ASSUME lost = {} PROVE Beginning' /\ Exporting' /\ Writing'
        <2>1. /\ shdrs["symtab"].info = 0 /\ next = 1
              /\ pc = "init_symtab" => StrData[0] = ""
            BY <1>1, <1>3 DEF Content, Beginning, LoadPcs
        <2>2. \/ put'.ok = "init_strtab"
              \/ put'.ok = "init_symtab" /\ put'.item = ""
              \/ /\ put'.ok = "export_file" /\ pc = "init_symtab" /\ put'.size = SymSize
                 /\ put'.item = Symbol(0, 0, "NOTYPE", "UNDEF")
            <3>1. CASE InitShstrtab
                BY <3>1 DEF InitShstrtab, BufferPut
            <3>2. CASE InitStrtab
                BY <3>2 DEF InitStrtab, BufferPut
            <3>3. CASE InitSymtab
                <4>1. PICK item : item = Symbol(0, 0, "NOTYPE", "UNDEF")
                    OBVIOUS
                <4> QED BY <3>3, <4>1 DEF InitSymtab, BufferPut
            <3> QED BY <3>1, <3>2, <3>3
        <2>3. Beginning'
            BY <1>1, <2>1, <2>2 DEF Beginning, Put, StrData, Symbol
        <2>4. Exporting' /\ Writing'
            BY <1>1, <2>2 DEF Exporting, Writing, Listing, FileOnly, Put, ExportPcs, WritePcs
        <2> QED BY <2>3, <2>4
    <1> QED BY <1>1, <1>2, <1>3, InsideKept DEF Content

-----------------------------------------------------------------------------
\* What is known while the symbols are exported.
LEMMA ExportContent ==
    ASSUME IInv, Content, lost = {}, pc \in ExportPcs
    PROVE  /\ Listed /\ StrData[0] = "" /\ 0 \in DOMAIN StrData
           /\ shdrs["symtab"].info = Counted
           /\ \A o \in DOMAIN Symbols : Symbols[o].sect # "TEXT"
           /\ pc \in {"export_file", "add_file"} => next = 1
    <1>1. Listing /\ pc \notin {"write", "fclose"}
        BY DEF Listing, ExportPcs
    <1>2. 0 \in DOMAIN StrData
        BY AllFilled DEF StrData, Buffers
    <1>3. pc \in {"export_file", "add_file"} => next = 1
        BY DEF Content, Beginning, FileOnly
    <1> QED BY <1>1, <1>2, <1>3 DEF Content, Exporting

\* The buffers are not touched.
LEMMA NothingPut == UNCHANGED buf => Kept("strtab") /\ Kept("symtab")
    BY DEF Kept

\* fas_export_symbols and fas_export_symbol_name hand a name to elf_add_str.
LEMMA AddStrContent ==
    ASSUME IInv, Content, NEW name, NEW ok, pc' = "put",
           put'.buf = "strtab", put'.item = name, put'.ok = ok, idx' = buf["strtab"].cnt,
           UNCHANGED <<file, range, buf, next, shdrs, shoff, out, outpos, written, lost>>,
           \/ pc = "export_file" /\ ok = "add_file" /\ name = file.input
           \/ /\ pc = "export" /\ ok = "add_symbol" /\ Exported(file.symbols[next])
              /\ name = NameIn(next)
    PROVE  Content'
    <1>1. Final'
        BY FinalEarly DEF LoadPcs, ElfPcs, ExportPcs, WritePcs
    <1>2. pc \in ExportPcs
        BY DEF ExportPcs
    <1>3. ASSUME lost = {} PROVE Beginning' /\ Exporting' /\ Writing'
        <2>1. /\ Listed /\ StrData[0] = "" /\ shdrs["symtab"].info = Counted
              /\ \A o \in DOMAIN Symbols : Symbols[o].sect # "TEXT"
              /\ pc \in {"export_file", "add_file"} => next = 1
            BY <1>2, <1>3, ExportContent
        <2>2. Last' = Last /\ Rank(next - 1)' = Rank(next - 1)
            BY RankSame DEF Rank, Defined, Exported
        <2>3. /\ FileOnly <=> pc = "export_file"
              /\ FileOnly' <=> pc = "export_file"
              /\ ~Put("export") /\ ~Put("export")'
              /\ Listing'
            BY DEF FileOnly, Listing, Put
        <2>4. Number' = Number /\ Counted' = Counted
            BY <2>2, <2>3 DEF Number, Counted
        <2>5. Listed'
            BY <2>1, <2>4, NothingPut, ListedKept
        <2>6. Beginning' /\ Writing'
            BY <2>1, <2>3 DEF Beginning, Writing, Put, LoadPcs
        <2>7. Exporting'
            <3>1. Put("add_file")' => Naming(file.input)'
                BY DEF Put, Naming
            <3>2. Put("add_symbol")' => Exported(file.symbols[next])' /\ Naming(NameIn(next))'
                BY DEF Put, Naming, NameIn, Exported
            <3>3. StrData'[0] = "" /\ \A o \in DOMAIN Symbols' : Symbols'[o].sect # "TEXT"
                BY <2>1 DEF StrData, Symbols
            <3>4. shdrs'["symtab"].info = Counted'
                BY <2>1, <2>4
            <3> QED BY <2>3, <2>5, <3>1, <3>2, <3>3, <3>4 DEF Exporting, WritePcs
        <2> QED BY <2>6, <2>7
    <1> QED BY <1>1, <1>3, InsideKept DEF Content

\* A string that is read through NULL ends the program, and nothing is written.
LEMMA CrashContent ==
    ASSUME Content, pc \in ExportPcs, pc' = "crash",
           UNCHANGED <<file, range, buf, shdrs, out, outpos, written, lost>>
    PROVE  Content'
    <1>1. Final'
        BY FinalEarly DEF LoadPcs, ElfPcs, ExportPcs, WritePcs
    <1>2. Beginning' /\ Exporting' /\ Writing'
        BY Quiet DEF LoadPcs, ElfPcs, ExportPcs, WritePcs
    <1> QED BY <1>1, <1>2, InsideKept DEF Content

LEMMA ExportFileNameContent == IInv /\ Content /\ ExportFileName => Content'
    <1> SUFFICES ASSUME IInv, Content, ExportFileName PROVE Content'
        OBVIOUS
    <1>1. pc = "export_file" /\ pc \in ExportPcs
        BY DEF ExportFileName, ExportPcs
    <1>2. UNCHANGED <<file, range, buf, next, shdrs, shoff, out, outpos, written, lost>>
        BY DEF ExportFileName, loading, writing
    <1>3. CASE "strtab" \in loaded
        <2>1. /\ idx' = buf["strtab"].cnt /\ pc' = "put"
              /\ put'.buf = "strtab" /\ put'.item = file.input /\ put'.ok = "add_file"
            BY <1>3 DEF ExportFileName, AddStr, BufferPut
        <2> QED BY <1>1, <1>2, <2>1, AddStrContent
    <1>4. CASE "strtab" \notin loaded
        <2>1. pc' = "crash"
            BY <1>4 DEF ExportFileName
        <2> QED BY <1>1, <1>2, <2>1, CrashContent
    <1> QED BY <1>3, <1>4

LEMMA ExportNameContent == IInv /\ Content /\ ExportName => Content'
    <1> SUFFICES ASSUME IInv, Content, ExportName PROVE Content'
        OBVIOUS
    <1>1. /\ pc = "export" /\ pc \in ExportPcs /\ next <= Last /\ Exported(file.symbols[next])
          /\ UNCHANGED <<file, range, buf, next, shdrs, shoff, out, outpos, written, lost>>
        BY DEF ExportName, ExportPcs, loading, writing, Last
    <1>2. CASE file.symbols[next].place = "none"
        <2>1. idx' = 0 /\ pc' = "add_symbol"
            BY <1>2 DEF ExportName
        <2>2. Final'
            BY <1>1, <2>1, FinalEarly DEF LoadPcs, ElfPcs, ExportPcs, WritePcs
        <2>3. ASSUME lost = {} PROVE Beginning' /\ Exporting' /\ Writing'
            <3>1. /\ Listed /\ StrData[0] = "" /\ 0 \in DOMAIN StrData
                  /\ shdrs["symtab"].info = Counted
                  /\ \A o \in DOMAIN Symbols : Symbols[o].sect # "TEXT"
                BY <1>1, <2>3, ExportContent
            <3>2. Rank(next - 1)' = Rank(next - 1)
                BY <1>1 DEF Rank, Defined, Exported
            <3>3. ~FileOnly /\ ~FileOnly' /\ ~Put("export") /\ ~Put("export")'
                BY <1>1, <2>1 DEF FileOnly, Put
            <3>4. Number' = Number /\ Counted' = Counted
                BY <3>2, <3>3 DEF Number, Counted
            <3>5. Listed'
                BY <1>1, <3>1, <3>4, NothingPut, ListedKept
            <3>6. Exported(file.symbols[next])' /\ Named(NameIn(next))'
                BY <1>1, <1>2, <2>1, <3>1 DEF Named, NameIn, Exported, StrData
            <3>7. Beginning' /\ Writing'
                BY <1>1, <2>1, <3>3 DEF Beginning, Writing, Put, LoadPcs
            <3>8. Exporting'
                BY <1>1, <2>1, <3>1, <3>4, <3>5, <3>6
                   DEF Exporting, Put, WritePcs, StrData, Symbols
            <3> QED BY <3>7, <3>8
        <2> QED BY <1>1, <2>2, <2>3, InsideKept DEF Content
    <1>3. CASE file.symbols[next].place \in loaded \ {"none"}
        <2>1. AddStr(file.symbols[next].name, "add_symbol", "add_symbol")
            BY <1>3 DEF ExportName
        <2>2. /\ idx' = buf["strtab"].cnt /\ pc' = "put" /\ put'.buf = "strtab"
              /\ put'.item = NameIn(next) /\ put'.ok = "add_symbol"
            BY <1>3, <2>1 DEF AddStr, BufferPut, NameIn
        <2> QED BY <1>1, <2>2, AddStrContent
    <1>4. CASE file.symbols[next].place \notin loaded \cup {"none"}
        <2>1. pc' = "crash"
            BY <1>4 DEF ExportName
        <2> QED BY <1>1, <2>1, CrashContent
    <1> QED BY <1>2, <1>3, <1>4

\* elf_add_symbol is given the file, or the symbol whose name has just been put.
LEMMA AddSymbolContent ==
    ASSUME IInv, Content, NEW value \in Nat, NEW type \in {"FILE", "OBJECT"},
           AddSymbol(value, type, "export"),
           UNCHANGED <<file, range, buf, idx, shoff, out, outpos, written, lost>>,
           \/ pc = "add_file" /\ next' = next
           \/ /\ pc = "add_symbol" /\ next' = next + 1 /\ value = file.symbols[next].value
    PROVE  Content'
    <1>1. /\ pc' = "put" /\ put'.buf = "symtab" /\ put'.size = SymSize /\ put'.ok = "export"
          /\ put'.item = Symbol(idx, value, type, "ABS")
          /\ shdrs' = [shdrs EXCEPT !["symtab"].info = @ + 1]
        <2>1. PICK item : item = Symbol(idx, value, type, "ABS")
            OBVIOUS
        <2> QED BY <2>1 DEF AddSymbol, BufferPut
    <1>2. Final'
        BY <1>1, FinalEarly DEF LoadPcs, ElfPcs, ExportPcs, WritePcs
    <1>3. Headers' /\ shdrs'["symtab"].info = shdrs["symtab"].info + 1 /\ Inside'
        BY <1>1, HeadersAdd DEF Content, Inside
    <1>4. /\ pc \in ExportPcs /\ pc \in ElfPcs /\ pc \in {"add_file", "add_symbol"}
          /\ pc = "add_file" => next' = next
          /\ pc = "add_symbol" => next' = next + 1 /\ value = file.symbols[next].value
        BY DEF ExportPcs, ElfPcs
    <1>5. ASSUME lost = {} PROVE Beginning' /\ Exporting' /\ Writing'
        <2>1. /\ Listed /\ StrData[0] = "" /\ shdrs["symtab"].info = Counted
              /\ \A o \in DOMAIN Symbols : Symbols[o].sect # "TEXT"
            BY <1>4, <1>5, ExportContent
        <2>0. pc = "add_file" => next = 1
            BY <1>4, <1>5, ExportContent
        <2>2. /\ Last \in Nat /\ next \in Nat /\ Rank(next - 1) \in Nat /\ Rank(0) = 0
              /\ pc = "add_file" => Rank(next - 1) = 0
              /\ pc = "add_symbol" => /\ next \in Defined(Last)
                                      /\ Rank(next) = Rank(next - 1) + 1
            <3>1. pc = "add_symbol" => next <= Last /\ Exported(file.symbols[next])
                BY <1>5 DEF IInv, PutOK, Content, Exporting, Last
            <3> QED BY <1>4, <2>0, <3>1, Numbers
        <2>3. /\ FileOnly <=> pc = "add_file"
              /\ ~Put("export") /\ Put("export")' /\ ~FileOnly' /\ Listing'
            BY <1>1 DEF FileOnly, Put, Listing
        <2>4. Rank(next - 1)' = IF pc = "add_file" THEN 0 ELSE Rank(next - 1) + 1
            <3>1. \A n : Rank(n)' = Rank(n)
                BY RankSame
            <3>2. Rank(next - 1)' = Rank(next' - 1)
                BY DEF Rank, Defined, Exported
            <3>3. pc = "add_symbol" => next' - 1 = next
                BY <1>4, <2>2
            <3>4. pc = "add_file" => next' - 1 = 0
                BY <1>4, <2>0
            <3> QED BY <1>4, <2>0, <2>2, <3>1, <3>2, <3>3, <3>4
        <2>5. Number' = Number /\ shdrs'["symtab"].info = Counted'
            <3> DEFINE r == Rank(next - 1)
            <3>1. /\ shdrs["symtab"].info = IF FileOnly THEN 0 ELSE r + 1
                  /\ Number = IF FileOnly THEN r + 1 ELSE r + 2
                BY <2>1, <2>3 DEF Counted, Number
            <3>2. Counted' = r' + 1 /\ Number' = r' + 1
                BY <2>3 DEF Counted, Number
            <3> HIDE DEF r
            <3>3. CASE pc = "add_file"
                BY <1>3, <2>2, <2>3, <2>4, <3>1, <3>2, <3>3 DEF r
            <3>4. CASE pc = "add_symbol"
                BY <1>3, <2>2, <2>3, <2>4, <3>1, <3>2, <3>4 DEF r
            <3> QED BY <1>4, <3>3, <3>4
        <2>6. Listed'
            BY <2>1, <2>5, NothingPut, ListedKept
        <2>7. Right(Number, put.item)'
            <3>1. PICK s : /\ s = put'.item
                           /\ s = [name |-> idx, value |-> value % Word, type |-> type, sect |-> "ABS"]
                BY <1>1 DEF Symbol
            <3>2. idx \in Nat /\ value % Word \in 0 .. (Word - 1)
                BY <1>4, ElfFacts, NameAssumption
            <3>3. s \in SymType /\ s.name = idx /\ s.value = value % Word /\ s.sect = "ABS"
                BY <3>1, <3>2 DEF SymType
            <3>4. /\ idx \in DOMAIN StrData
                  /\ StrData[idx] = IF pc = "add_file" THEN file.input ELSE NameIn(next)
                BY <1>4, <1>5 DEF Content, Exporting, Named
            <3>5. PICK n : n = Number /\ n = Number'
                BY <2>5
            <3>6. n = IF pc = "add_file" THEN 1 ELSE Rank(next) + 1
                BY <1>4, <2>2, <2>3, <3>5 DEF Number
            <3>7. n # 0 /\ (n = 1 => pc = "add_file")
                BY <1>4, <2>2, <3>6
            <3>8. ASSUME NEW i \in Defined(Last), Rank(i) + 1 = n
                  PROVE  StrData[idx] = NameIn(i) /\ s.value = file.symbols[i].value % Word
                <4>1. Rank(i) \in Nat /\ Rank(i) # 0
                    BY <2>2, RankOrder
                <4>2. pc = "add_symbol"
                    BY <1>4, <3>6, <3>8, <4>1
                <4>3. Rank(next) \in Nat
                    BY <2>2, <4>2
                <4>4. i = next
                    BY <2>2, <3>6, <3>8, <4>1, <4>2, <4>3, RankOrder
                <4> QED BY <1>4, <3>3, <3>4, <4>2, <4>4
            <3>9. Right(n, s)
                BY <3>3, <3>4, <3>6, <3>7, <3>8 DEF Right
            <3>10. Right(n, s)'
                BY <3>9, NothingPut, RightKept
            <3> QED BY <3>1, <3>5, <3>10 DEF Right
        <2>8. put'.item.sect = "ABS"
            BY <1>1 DEF Symbol
        <2>9. Beginning' /\ Writing'
            BY <1>1, <2>3 DEF Beginning, Writing, Put, LoadPcs
        <2>10. StrData'[0] = "" /\ \A o \in DOMAIN Symbols' : Symbols'[o].sect # "TEXT"
            BY <2>1 DEF StrData, Symbols
        <2>11. Exporting'
            BY <1>1, <2>3, <2>5, <2>6, <2>7, <2>8, <2>10 DEF Exporting, Put, WritePcs
        <2> QED BY <2>9, <2>11
    <1> QED BY <1>2, <1>3, <1>5 DEF Content

\* fas_export_symbols hands a symbol to elf_add_symbol.
LEMMA ExportSymbolContent == IInv /\ Content /\ (ExportFile \/ ExportSymbol) => Content'
    <1> SUFFICES ASSUME IInv, Content, ExportFile \/ ExportSymbol PROVE Content'
        OBVIOUS
    <1>1. CASE ExportFile
        <2>1. /\ UNCHANGED <<file, range, buf, idx, shoff, out, outpos, written, lost>>
              /\ pc = "add_file" /\ next' = next /\ AddSymbol(0, "FILE", "export")
            BY <1>1 DEF ExportFile, loading, writing
        <2> QED BY <2>1, AddSymbolContent
    <1>2. CASE ExportSymbol
        <2>1. /\ UNCHANGED <<file, range, buf, idx, shoff, out, outpos, written, lost>>
              /\ pc = "add_symbol" /\ next' = next + 1
              /\ AddSymbol(file.symbols[next].value, "OBJECT", "export")
            BY <1>2 DEF ExportSymbol, loading, writing
        <2>2. file.symbols[next].value \in Nat
            <3>1. next <= Last
                BY <2>1 DEF IInv, PutOK, Last
            <3>2. file \in Files /\ next \in 1 .. Last
                BY <2>1, <3>1, Numbers DEF ElfPcs, ExportPcs
            <3> QED BY <3>2, FileFacts DEF Last
        <2> QED BY <2>1, <2>2, AddSymbolContent
    <1> QED BY <1>1, <1>2

\* A symbol that is not exported, and the end of the symbols.
LEMMA SkipContent == IInv /\ Content /\ (Skip \/ ExportEnds) => Content'
    <1> SUFFICES ASSUME IInv, Content, Skip \/ ExportEnds PROVE Content'
        OBVIOUS
    <1>1. /\ UNCHANGED <<tool, file, range, buf, put, idx, shdrs, shoff, out, outpos, written, lost>>
          /\ pc = "export" /\ pc \in ExportPcs /\ pc \in ElfPcs
          /\ \/ pc' = "export" /\ next <= Last /\ ~Exported(file.symbols[next]) /\ next' = next + 1
             \/ pc' = "elf_write" /\ next > Last /\ next' = next
        BY DEF Skip, ExportEnds, loading, elfVars, writing, ExportPcs, ElfPcs, Last
    <1>2. Final'
        BY <1>1, FinalEarly DEF LoadPcs, ElfPcs, ExportPcs, WritePcs
    <1>3. ASSUME lost = {} PROVE Beginning' /\ Exporting' /\ Writing'
        <2>1. /\ Listed /\ StrData[0] = "" /\ shdrs["symtab"].info = Counted
              /\ \A o \in DOMAIN Symbols : Symbols[o].sect # "TEXT"
            BY <1>1, <1>3, ExportContent
        <2>2. Rank(next - 1)' = Rank(next - 1)
            <3>1. \A n : Rank(n)' = Rank(n)
                BY <1>1, RankSame
            <3>2. Rank(next - 1)' = Rank(next' - 1)
                BY <1>1 DEF Rank, Defined, Exported
            <3>3. /\ next \in Nat
                  /\ next <= Last /\ ~Exported(file.symbols[next]) => Rank(next) = Rank(next - 1)
                BY <1>1, Numbers
            <3>4. CASE next' = next
                BY <3>2, <3>4
            <3>5. CASE next <= Last /\ ~Exported(file.symbols[next]) /\ next' = next + 1
                <4>1. next' - 1 = next
                    BY <3>3, <3>5
                <4> QED BY <3>2, <3>3, <3>5, <4>1
            <3> QED BY <1>1, <3>4, <3>5
        <2>3. ~FileOnly /\ ~FileOnly' /\ ~Put("export") /\ ~Put("export")' /\ Listing'
            BY <1>1 DEF FileOnly, Put, Listing, ExportPcs, WritePcs
        <2>4. Number' = Number /\ Counted' = Counted
            BY <2>2, <2>3 DEF Number, Counted
        <2>5. Listed'
            BY <1>1, <2>1, <2>4, NothingPut, ListedKept
        <2>6. pc' \in WritePcs => next' = Last' + 1
            <3>1. next \in 1 .. (Last + 1) /\ Last \in Nat
                BY <1>1, Numbers
            <3> QED BY <1>1, <3>1 DEF WritePcs, Last
        <2>7. Beginning' /\ Writing'
            BY <1>1, <2>3 DEF Beginning, Writing, Put, LoadPcs
        <2>8. StrData'[0] = "" /\ \A o \in DOMAIN Symbols' : Symbols'[o].sect # "TEXT"
            BY <1>1, <2>1 DEF StrData, Symbols
        <2>9. Exporting'
            BY <1>1, <2>1, <2>3, <2>4, <2>5, <2>6, <2>8 DEF Exporting, Put
        <2> QED BY <2>7, <2>9
    <1> QED BY <1>1, <1>2, <1>3, InsideKept DEF Content

-----------------------------------------------------------------------------
\* Nothing is added to the contents of the buffers, and the program stays where it is.
LEMMA SameContent ==
    ASSUME IInv, Content,
           UNCHANGED <<tool, file, pc, step, range, put, idx, next, shdrs, shoff, out, outpos,
                       written, lost>>,
           buf' = buf \/ pc = "put",
           \A b \in Buffers : buf'[b].data = buf[b].data /\ buf'[b].cnt = buf[b].cnt
    PROVE  Content'
    <1>1. Final'
        <2>1. /\ written => pc' \in {"fclose", "elf_cleanup", "free_tables", "success"}
              /\ pc' = "success" /\ tool' = "fas2sym" => written
              /\ pc' \in LoadPcs \cup (ElfPcs \ {"write", "fclose"}) => outpos = 0
            BY DEF Content, Final
        <2> QED BY <2>1, FinalKept DEF Content
    <1>2. Inside' /\ Headers'
        BY DEF Content, Inside, Headers
    <1>3. /\ StrData' = StrData /\ Symbols' = Symbols
          /\ buf'["strtab"].cnt = buf["strtab"].cnt /\ buf'["symtab"].cnt = buf["symtab"].cnt
        BY DEF StrData, Symbols, Buffers
    <1>4. ASSUME lost = {} PROVE Beginning' /\ Exporting' /\ Writing'
        <2>1. Beginning /\ Exporting /\ Writing
            BY <1>4 DEF Content
        <2>2. Beginning'
            BY <1>3, <2>1 DEF Beginning, Put, FileOnly, Symbol
        <2>3. Last' = Last /\ Rank(next - 1)' = Rank(next - 1)
            BY RankSame DEF Rank, Defined, Exported
        <2>4. /\ FileOnly' <=> FileOnly
              /\ \A label : Put(label)' <=> Put(label)
              /\ Listing' <=> Listing
            BY DEF FileOnly, Listing, Put
        <2>5. Number' = Number /\ Counted' = Counted
            BY <2>3, <2>4 DEF Number, Counted
        <2>6. Kept("strtab") /\ Kept("symtab")
            BY <1>3 DEF Kept, StrData, Symbols
        <2>7. Listed => Listed'
            BY <1>3, <2>5, <2>6, ListedKept
        <2>8. Exporting'
            <3>1. Put("export") => Right(Number, put.item)'
                <4>1. PICK n : n = Number /\ n = Number'
                    BY <2>5
                <4>2. PICK s : s = put.item /\ s = put'.item
                    OBVIOUS
                <4>3. Put("export") => Right(n, s)
                    BY <2>1, <4>1, <4>2 DEF Exporting
                <4>4. Right(n, s) => Right(n, s)'
                    BY <2>6, RightKept
                <4> QED BY <4>1, <4>2, <4>3, <4>4 DEF Right
            <3>2. Listing' => Listed' /\ StrData'[0] = ""
                BY <1>3, <2>1, <2>4, <2>7 DEF Exporting
            <3>3. Listing' /\ pc' \notin {"write", "fclose"} =>
                     /\ shdrs'["symtab"].info = Counted'
                     /\ \A o \in DOMAIN Symbols' : Symbols'[o].sect # "TEXT"
                BY <1>3, <2>1, <2>4, <2>5 DEF Exporting
            <3>4. pc' \in WritePcs => next' = Last' + 1
                BY <2>1, <2>3 DEF Exporting
            <3>5. \A name : Naming(name) = Naming(name)' /\ Named(name) = Named(name)'
                BY <1>3 DEF Naming, Named
            <3>6. /\ Put("add_file")' => Naming(file.input)'
                  /\ pc' = "add_file" => Named(file.input)'
                BY <1>3, <2>1, <2>4 DEF Exporting, Naming, Named
            <3>7. /\ Put("add_symbol")' => Exported(file.symbols[next])' /\ Naming(NameIn(next))'
                  /\ pc' = "add_symbol" => Exported(file.symbols[next])' /\ Named(NameIn(next))'
                BY <1>3, <2>1, <2>4 DEF Exporting, Naming, Named, NameIn, Exported
            <3>8. Put("export")' => /\ put'.buf = "symtab" /\ put'.size = SymSize
                                    /\ Right(Number, put.item)' /\ put'.item.sect # "TEXT"
                BY <2>1, <2>4, <3>1 DEF Exporting
            <3> QED BY <3>2, <3>3, <3>4, <3>6, <3>7, <3>8 DEF Exporting
        <2>9. Writing'
            <3>1. CASE pc = "put"
                BY <3>1 DEF Writing
            <3>2. CASE buf' = buf
                <4>1. Placed => Placed'
                    BY <2>5, <3>2 DEF Placed, OneValue, Bearers, NameOf, Sym, Symbols
                <4>2. /\ Starts' = Starts
                      /\ \A b : Offset(b)' = Offset(b)
                    BY <3>2 DEF Starts, Offset
                <4>3. \A b : InFile(b) => InFile(b)'
                    BY <3>2, <4>2 DEF InFile
                <4> QED BY <2>1, <2>5, <3>2, <4>1, <4>2, <4>3 DEF Writing
            <3> QED BY <3>1, <3>2
        <2> QED BY <2>2, <2>8, <2>9
    <1> QED BY <1>1, <1>2, <1>4 DEF Content

\* realloc moves what the block holds.
LEMMA GrowContent == IInv /\ Content /\ Grow => Content'
    <1> SUFFICES ASSUME IInv, Content, Grow PROVE Content'
        OBVIOUS
    <1>1. /\ UNCHANGED <<tool, file, pc, step, range, put, idx, next, shdrs, shoff, out, outpos,
                         written, lost>>
          /\ pc = "put"
        BY DEF Grow, loading, writing
    <1>2. \A b \in Buffers : buf'[b].data = buf[b].data /\ buf'[b].cnt = buf[b].cnt
        <2> DEFINE b == [cap |-> Grown, cnt |-> buf[put.buf].cnt, null |-> FALSE,
                         data |-> buf[put.buf].data]
        <2>1. b.cnt = buf[put.buf].cnt /\ b.data = buf[put.buf].data
            OBVIOUS
        <2>2. Replaced(put.buf, b)
            BY GrowSet
        <2> HIDE DEF b
        <2> QED BY <2>1, <2>2 DEF Replaced
    <1> QED BY <1>1, <1>2, SameContent

\* Memory is lost, or elf_init gives up.
LEMMA GrowFailsContent == IInv /\ Content /\ GrowFails => Content'
    <1> SUFFICES ASSUME IInv, Content, GrowFails PROVE Content'
        OBVIOUS
    <1>1. /\ UNCHANGED <<tool, file, range, put, next, shdrs, shoff, out, outpos, written>>
          /\ pc = "put" /\ pc' = put.fail
          /\ lost' = IF buf[put.buf].null THEN lost ELSE lost \cup {<<put.buf, buf[put.buf].cap>>}
        BY DEF GrowFails, loading, writing
    <1>2. \/ put.fail = "elf_cleanup" /\ put.ok \in {"init_strtab", "init_symtab", "export_file"}
          \/ put.ok \in {"add_file", "export", "add_symbol"} /\ put.fail = put.ok
        BY <1>1, PutFacts
    <1>3. lost' = {} => lost = {} /\ pc' = "elf_cleanup"
        <2> SUFFICES ASSUME lost' = {} PROVE lost = {} /\ pc' = "elf_cleanup"
            OBVIOUS
        <2>1. lost = {} /\ buf[put.buf].null /\ put.buf \in Buffers
            BY <1>1, PutFacts
        <2>2. put.ok \notin {"add_file", "export", "add_symbol"}
            BY <1>1, <2>1 DEF IInv, FilledOK, Put, Filled
        <2> QED BY <1>1, <1>2, <2>1, <2>2
    <1>4. Final'
        <2>1. pc' \notin {"success", "write", "fclose"}
            BY <1>1, <1>2
        <2> QED BY <1>1, <1>3, <2>1, FinalEarly DEF LoadPcs, ElfPcs, ExportPcs, WritePcs
    <1>5. Inside' /\ Headers'
        <2> DEFINE b == [cap |-> Grown, cnt |-> buf[put.buf].cnt, null |-> TRUE, data |-> NoData]
        <2>1. DOMAIN b.data = {}
            BY DEF NoData
        <2>2. Replaced(put.buf, b)
            BY GrowFailsSet
        <2> HIDE DEF b
        <2> QED BY <1>1, <2>1, <2>2 DEF Content, Inside, Headers, Replaced
    <1>6. lost' = {} => Beginning' /\ Exporting' /\ Writing'
        BY <1>3, Quiet DEF LoadPcs, ElfPcs, ExportPcs, WritePcs
    <1> QED BY <1>4, <1>5, <1>6 DEF Content

\* What memcpy makes of the contents.
LEMMA CopyFacts ==
    ASSUME IInv, Content, Copy, ~buf[put.buf].null
    PROVE  /\ UNCHANGED <<tool, file, range, put, idx, next, shdrs, shoff, out, outpos, written, lost>>
           /\ pc = "put" /\ pc' = put.ok /\ put.buf \in Buffers
           /\ buf[put.buf].cnt \in Nat /\ put.size \in Nat \ {0}
           /\ buf'[put.buf].cnt = buf[put.buf].cnt + put.size
           /\ DOMAIN buf'[put.buf].data = DOMAIN buf[put.buf].data \cup {buf[put.buf].cnt}
           /\ buf'[put.buf].data[buf[put.buf].cnt] = put.item
           /\ \A b \in Buffers : Kept(b)
           /\ \A b \in Buffers \ {put.buf} : buf'[b] = buf[b]
           /\ Inside'
    <1> DEFINE p == put.buf
    <1>1. /\ UNCHANGED <<tool, file, range, put, idx, next, shdrs, shoff, out, outpos, written, lost>>
          /\ pc = "put" /\ pc' = put.ok
        BY DEF Copy, loading, writing
    <1>2. p \in Buffers /\ buf[p].cnt \in Nat /\ put.size \in Nat \ {0} /\ Room = buf[p].cnt + put.size
        BY <1>1, PutFacts DEF Room
    <1>3. /\ buf'[p].cnt = Room /\ \A b \in Buffers \ {p} : buf'[b] = buf[b]
          /\ buf'[p].data = Stored(buf[p].data, buf[p].cnt, put.item)
        <2> DEFINE d == Stored(buf[p].data, buf[p].cnt, put.item)
                   b == [cap |-> buf[p].cap, cnt |-> Room, null |-> FALSE, data |-> d]
        <2>1. b.cnt = Room /\ b.data = d
            OBVIOUS
        <2>2. Replaced(p, b)
            BY CopySet
        <2> HIDE DEF b, d
        <2>3. buf'[p].cnt = Room /\ buf'[p].data = d /\ \A c \in Buffers \ {p} : buf'[c] = buf[c]
            BY <2>1, <2>2 DEF Replaced
        <2> QED BY <2>3 DEF d
    <1> HIDE DEF p
    <1>4. /\ DOMAIN buf'[p].data = DOMAIN buf[p].data \cup {buf[p].cnt}
          /\ buf'[p].data[buf[p].cnt] = put.item
          /\ \A o \in DOMAIN buf[p].data : o # buf[p].cnt => buf'[p].data[o] = buf[p].data[o]
        BY <1>3 DEF Stored
    <1>5. \A o \in DOMAIN buf[p].data : o \in Nat /\ o < buf[p].cnt
        BY <1>2 DEF Content, Inside
    <1>6. \A b \in Buffers : Kept(b)
        <2>1. Kept(p)
            BY <1>2, <1>4, <1>5 DEF Kept
        <2>2. \A b \in Buffers \ {p} : Kept(b)
            BY <1>3 DEF Kept
        <2> QED BY <2>1, <2>2
    <1>7. Inside'
        <2>1. \A o \in DOMAIN buf'[p].data : o \in Nat /\ o < buf'[p].cnt
            BY <1>2, <1>3, <1>4, <1>5
        <2>2. \A b \in Buffers \ {p} : \A o \in DOMAIN buf'[b].data : o \in Nat /\ o < buf'[b].cnt
            BY <1>3 DEF Content, Inside
        <2> QED BY <2>1, <2>2 DEF Inside
    <1> QED BY <1>1, <1>2, <1>3, <1>4, <1>6, <1>7 DEF p

\* The first contents of the three buffers.
LEMMA CopyBegin ==
    ASSUME IInv, Content, Copy, ~buf[put.buf].null, lost = {},
           put.ok \in {"init_strtab", "init_symtab", "export_file"}
    PROVE  Beginning' /\ Exporting' /\ Writing'
    <1>1. /\ UNCHANGED <<file, put, next, shdrs, lost>>
          /\ pc = "put" /\ pc' = put.ok
          /\ shdrs["symtab"].info = 0 /\ next = 1
        <2>1. /\ UNCHANGED <<file, put, next, shdrs, lost>>
              /\ pc = "put" /\ pc' = put.ok
            BY CopyFacts
        <2> QED BY <2>1 DEF Content, Beginning, Put
    <1>2. CASE put.ok = "init_strtab"
        <2>1. pc' = "init_strtab"
            BY <1>1, <1>2
        <2> QED BY <1>1, <2>1 DEF Beginning, Exporting, Writing, Listing, FileOnly, Put, LoadPcs,
                                  ExportPcs, WritePcs
    <1>3. CASE put.ok = "init_symtab"
        <2>1. pc' = "init_symtab" /\ put.item = ""
            BY <1>1, <1>3 DEF Content, Beginning, Put
        <2>2. put.buf = "strtab" /\ buf["strtab"].cnt = 0
            BY <1>1, <1>3 DEF IInv, PutOK, FilledOK, Put, Begun
        <2>3. StrData'[0] = ""
            <3>1. buf'[put.buf].data[buf[put.buf].cnt] = put.item
                BY CopyFacts
            <3> QED BY <2>1, <2>2, <3>1 DEF StrData
        <2> QED BY <1>1, <2>1, <2>3 DEF Beginning, Exporting, Writing, Listing, FileOnly, Put,
                                        LoadPcs, ExportPcs, WritePcs
    <1>4. CASE put.ok = "export_file"
        <2>1. /\ pc' = "export_file" /\ StrData[0] = "" /\ put.size = SymSize
              /\ put.item = Symbol(0, 0, "NOTYPE", "UNDEF")
            BY <1>1, <1>4 DEF Content, Beginning, Put
        <2>2. /\ put.buf = "symtab" /\ buf["symtab"].cnt = 0 /\ 0 \in DOMAIN StrData
            BY <1>1, <1>4 DEF IInv, PutOK, FilledOK, Put, Begun, Filled, StrData
        <2>3. /\ buf'["symtab"].cnt = SymSize /\ DOMAIN Symbols' = DOMAIN Symbols \cup {0}
              /\ Symbols'[0] = put.item /\ StrData' = StrData
            <3>1. /\ buf'[put.buf].cnt = buf[put.buf].cnt + put.size
                  /\ DOMAIN buf'[put.buf].data = DOMAIN buf[put.buf].data \cup {buf[put.buf].cnt}
                  /\ buf'[put.buf].data[buf[put.buf].cnt] = put.item
                  /\ \A b \in Buffers \ {put.buf} : buf'[b] = buf[b]
                BY CopyFacts
            <3>2. buf'["strtab"] = buf["strtab"]
                BY <2>2, <3>1 DEF Buffers
            <3>3. buf'["symtab"].cnt = SymSize
                <4>1. buf'["symtab"].cnt = 0 + SymSize
                    BY <2>1, <2>2, <3>1
                <4> QED BY <4>1 DEF SymSize
            <3> QED BY <2>2, <3>1, <3>2, <3>3 DEF Symbols, StrData
        <2>4. DOMAIN Symbols' = {0}
            <3>1. \A o \in DOMAIN Symbols : o \in Nat /\ o < 0
                BY <2>2 DEF Content, Inside, Symbols, Buffers
            <3>2. ASSUME NEW o \in DOMAIN Symbols PROVE FALSE
                <4>1. o \in Nat /\ o < 0
                    BY <3>1
                <4> QED BY <4>1
            <3> QED BY <2>3, <3>2
        <2>5. PICK s : /\ s = put.item
                       /\ s = [name |-> 0, value |-> 0 % Word, type |-> "NOTYPE", sect |-> "UNDEF"]
            BY <2>1 DEF Symbol
        <2>6. s \in SymType /\ s.name = 0 /\ s.sect = "UNDEF"
            BY <2>5, NameAssumption DEF SymType
        <2>7. /\ FileOnly' /\ Listing' /\ ~Put("export")' /\ ~Put("add_file")' /\ ~Put("add_symbol")'
            BY <2>1 DEF FileOnly, Listing, Put
        <2>8. Number' = 1 /\ Counted' = 0
            <3>1. Rank(next - 1)' = Rank(next - 1)
                BY <1>1 DEF Rank, Defined, Exported
            <3>2. Rank(next - 1) = 0
                BY <1>1, Numbers DEF ElfPcs
            <3> QED BY <2>7, <3>1, <3>2 DEF Number, Counted
        <2>9. Right(0, s)'
            <3>1. \A i \in Defined(Last) : Rank(i) + 1 # 0
                <4>1. Last \in Nat
                    BY <1>1, Numbers DEF ElfPcs
                <4> QED BY <4>1, RankOrder
            <3>2. Right(0, s)
                BY <2>2, <2>6, <3>1 DEF Right
            <3>3. Kept("strtab")
                BY <2>3 DEF Kept, StrData
            <3> QED BY <1>1, <3>2, <3>3, RightKept
        <2>10. Listed'
            <3>1. \A k \in 0 .. (1 - 1) : k = 0 /\ SymSize * k = 0
                BY DEF SymSize
            <3>2. Sym(Symbols, 0)' = s
                BY <2>3, <2>5, <3>1 DEF Sym
            <3>3. ASSUME NEW k \in 0 .. (Number' - 1)
                  PROVE  SymSize * k \in DOMAIN Symbols' /\ Right(k, Sym(Symbols, k))'
                <4>1. k = 0 /\ SymSize * k = 0
                    BY <2>8, <3>1
                <4> QED BY <2>4, <2>9, <3>2, <4>1 DEF Right
            <3>4. buf'["symtab"].cnt = SymSize * Number'
                BY <2>3, <2>8 DEF SymSize
            <3> QED BY <3>3, <3>4 DEF Listed
        <2>11. Beginning' /\ Writing'
            BY <1>1, <2>1, <2>7 DEF Beginning, Writing, Put, LoadPcs
        <2>12. \A o \in DOMAIN Symbols' : Symbols'[o].sect # "TEXT"
            BY <2>3, <2>4, <2>5, <2>6
        <2>13. Exporting'
            BY <1>1, <2>1, <2>3, <2>7, <2>8, <2>10, <2>12 DEF Exporting, WritePcs
        <2> QED BY <2>11, <2>13
    <1> QED BY <1>2, <1>3, <1>4

\* A name is put behind the others.
LEMMA CopyName ==
    ASSUME IInv, Content, Copy, ~buf[put.buf].null, lost = {},
           put.ok \in {"add_file", "add_symbol"}
    PROVE  Beginning' /\ Exporting' /\ Writing'
    <1>1. /\ UNCHANGED <<file, put, idx, next, shdrs, lost>>
          /\ pc = "put" /\ pc' = put.ok
          /\ DOMAIN buf'[put.buf].data = DOMAIN buf[put.buf].data \cup {buf[put.buf].cnt}
          /\ buf'[put.buf].data[buf[put.buf].cnt] = put.item
          /\ \A b \in Buffers : Kept(b)
          /\ \A b \in Buffers \ {put.buf} : buf'[b] = buf[b]
        BY CopyFacts
    <1>2. /\ Beginning /\ Listing /\ Listed /\ StrData[0] = "" /\ shdrs["symtab"].info = Counted
          /\ \A o \in DOMAIN Symbols : Symbols[o].sect # "TEXT"
          /\ 0 \in DOMAIN StrData
        <2>1. Listing
            BY <1>1 DEF Listing, FileOnly, Put
        <2>2. 0 \in DOMAIN StrData
            BY <1>1 DEF IInv, FilledOK, Put, Filled, StrData, Buffers
        <2> QED BY <1>1, <2>1, <2>2 DEF Content, Exporting
    <1>3. /\ FileOnly <=> put.ok = "add_file"
          /\ FileOnly' <=> put.ok = "add_file"
          /\ ~Put("export") /\ ~Put("export")'
          /\ Listing'
        BY <1>1 DEF FileOnly, Listing, Put, ExportPcs
    <1>4. put.buf = "strtab" /\ idx = buf["strtab"].cnt
        BY <1>1 DEF Content, Exporting, Put, Naming
    <1>5. Named(put.item)' /\ StrData'[0] = "" /\ Symbols' = Symbols
          /\ buf'["symtab"].cnt = buf["symtab"].cnt
        <2>1. buf'["symtab"] = buf["symtab"]
            BY <1>1, <1>4 DEF Buffers
        <2>2. StrData'[0] = ""
            <3>1. Kept("strtab")
                BY <1>1 DEF Buffers
            <3> QED BY <1>2, <3>1 DEF Kept, StrData
        <2> QED BY <1>1, <1>4, <2>1, <2>2 DEF Named, StrData, Symbols
    <1>6. Number' = Number /\ Counted' = Counted
        <2>1. Rank(next - 1)' = Rank(next - 1)
            BY <1>1 DEF Rank, Defined, Exported
        <2> QED BY <1>3, <2>1 DEF Number, Counted
    <1>7. Listed'
        BY <1>1, <1>2, <1>5, <1>6, ListedKept DEF Buffers
    <1>8. /\ put.ok = "add_file" => put.item = file.input
          /\ put.ok = "add_symbol" => put.item = NameIn(next) /\ Exported(file.symbols[next])
        BY <1>1 DEF Content, Exporting, Put, Naming
    <1>9. /\ pc' = "add_file" => Named(file.input)'
          /\ pc' = "add_symbol" => Exported(file.symbols[next])' /\ Named(NameIn(next))'
        BY <1>1, <1>5, <1>8 DEF Named, NameIn, Exported
    <1>10. Beginning' /\ Writing'
        BY <1>1, <1>2, <1>3 DEF Beginning, Writing, Put, LoadPcs
    <1>11. Exporting'
        BY <1>1, <1>2, <1>3, <1>5, <1>6, <1>7, <1>9 DEF Exporting, Put, WritePcs
    <1> QED BY <1>10, <1>11

\* A symbol is put behind the others.
LEMMA CopySymbol ==
    ASSUME IInv, Content, Copy, ~buf[put.buf].null, lost = {}, put.ok = "export"
    PROVE  Beginning' /\ Exporting' /\ Writing'
    <1>1. /\ UNCHANGED <<file, put, idx, next, shdrs, lost>>
          /\ pc = "put" /\ pc' = "export"
          /\ buf'[put.buf].cnt = buf[put.buf].cnt + put.size
          /\ DOMAIN buf'[put.buf].data = DOMAIN buf[put.buf].data \cup {buf[put.buf].cnt}
          /\ buf'[put.buf].data[buf[put.buf].cnt] = put.item
          /\ \A b \in Buffers : Kept(b)
          /\ \A b \in Buffers \ {put.buf} : buf'[b] = buf[b]
        BY CopyFacts
    <1>2. /\ Listed /\ StrData[0] = "" /\ shdrs["symtab"].info = Counted
          /\ \A o \in DOMAIN Symbols : Symbols[o].sect # "TEXT"
          /\ put.buf = "symtab" /\ put.size = SymSize
          /\ Right(Number, put.item) /\ put.item.sect # "TEXT"
        BY <1>1 DEF Content, Exporting, Listing, Put
    <1>3. ~FileOnly /\ ~FileOnly' /\ Put("export") /\ ~Put("export")' /\ Listing'
        BY <1>1 DEF FileOnly, Listing, Put, ExportPcs
    <1>4. PICK n : n = Number
        OBVIOUS
    <1>5. n \in Nat /\ Number' = n + 1 /\ Counted' = Counted
        <2>1. Rank(next - 1)' = Rank(next - 1)
            BY <1>1 DEF Rank, Defined, Exported
        <2>2. Rank(next - 1) \in Nat
            BY <1>1, Numbers DEF ElfPcs
        <2>3. n = Rank(next - 1) + 1 /\ Number' = Rank(next - 1) + 2
            BY <1>3, <1>4, <2>1 DEF Number
        <2>4. Counted' = Counted
            BY <1>3, <2>1 DEF Counted
        <2> QED BY <2>2, <2>3, <2>4
    <1>6. PICK s : s = put.item
        OBVIOUS
    <1>7. /\ buf["symtab"].cnt = SymSize * n
          /\ \A k \in 0 .. (n - 1) : SymSize * k \in DOMAIN Symbols /\ Right(k, Sym(Symbols, k))
        BY <1>2, <1>4 DEF Listed
    <1>8. /\ StrData' = StrData /\ buf'["symtab"].cnt = SymSize * (n + 1)
          /\ SymSize * n \in DOMAIN Symbols' /\ Symbols'[SymSize * n] = s
          /\ DOMAIN Symbols' = DOMAIN Symbols \cup {SymSize * n}
          /\ \A o \in DOMAIN Symbols : Symbols'[o] = Symbols[o]
        <2>1. buf'["strtab"] = buf["strtab"]
            BY <1>1, <1>2 DEF Buffers
        <2>2. /\ buf'["symtab"].cnt = SymSize * n + SymSize
              /\ DOMAIN Symbols' = DOMAIN Symbols \cup {SymSize * n}
              /\ Symbols'[SymSize * n] = s
            BY <1>1, <1>2, <1>6, <1>7 DEF Symbols
        <2>3. SymSize * n + SymSize = SymSize * (n + 1)
            BY <1>5 DEF SymSize
        <2>4. \A o \in DOMAIN Symbols : Symbols'[o] = Symbols[o]
            <3>1. Kept("symtab")
                BY <1>1 DEF Buffers
            <3> QED BY <3>1 DEF Kept, Symbols
        <2> QED BY <2>1, <2>2, <2>3, <2>4 DEF StrData
    <1>9. Listed'
        <2>1. ASSUME NEW k \in 0 .. n PROVE SymSize * k \in DOMAIN Symbols' /\ Right(k, Sym(Symbols, k))'
            <3>1. PICK t : t = Sym(Symbols, k)'
                OBVIOUS
            <3>2. Right(k, t)
                <4>1. CASE k = n
                    BY <1>2, <1>4, <1>6, <1>8, <3>1, <4>1 DEF Sym
                <4>2. CASE k # n
                    <5>1. k \in 0 .. (n - 1)
                        BY <1>5, <4>2
                    <5> QED BY <1>7, <1>8, <3>1, <5>1 DEF Sym
                <4> QED BY <4>1, <4>2
            <3>3. Kept("strtab")
                BY <1>1 DEF Buffers
            <3>4. Right(k, t)'
                BY <1>1, <3>2, <3>3, RightKept
            <3>5. SymSize * k \in DOMAIN Symbols'
                <4>1. k = n \/ k \in 0 .. (n - 1)
                    BY <1>5
                <4> QED BY <1>7, <1>8, <4>1
            <3> QED BY <3>1, <3>4, <3>5 DEF Right
        <2>2. Number' - 1 = n
            BY <1>5
        <2> QED BY <1>5, <1>8, <2>1, <2>2 DEF Listed
    <1>10. \A o \in DOMAIN Symbols' : Symbols'[o].sect # "TEXT"
        BY <1>2, <1>6, <1>8
    <1>11. Beginning' /\ Writing'
        BY <1>1, <1>3 DEF Beginning, Writing, Put, LoadPcs
    <1>12. Exporting'
        BY <1>1, <1>2, <1>3, <1>5, <1>8, <1>9, <1>10 DEF Exporting, Put, WritePcs
    <1> QED BY <1>11, <1>12

\* memcpy.
LEMMA CopyContent == IInv /\ Content /\ Copy => Content'
    <1> SUFFICES ASSUME IInv, Content, Copy PROVE Content'
        OBVIOUS
    <1>1. /\ UNCHANGED <<tool, file, range, put, idx, next, shdrs, shoff, out, outpos, written, lost>>
          /\ pc = "put"
        BY DEF Copy, loading, writing
    <1>2. CASE buf[put.buf].null
        <2>1. pc' = "crash" /\ buf' = buf
            BY <1>2 DEF Copy
        <2>2. Final'
            BY <1>1, <2>1, FinalEarly DEF LoadPcs, ElfPcs, ExportPcs, WritePcs
        <2>3. Beginning' /\ Exporting' /\ Writing'
            BY <2>1, Quiet DEF LoadPcs, ElfPcs, ExportPcs, WritePcs
        <2> QED BY <1>1, <2>1, <2>2, <2>3, InsideKept DEF Content
    <1>3. CASE ~buf[put.buf].null
        <2>1. Inside' /\ Headers' /\ pc' = put.ok
            BY <1>1, <1>3, CopyFacts DEF Content, Headers
        <2>2. \/ put.ok \in {"init_strtab", "init_symtab", "export_file"}
              \/ put.ok \in {"add_file", "export", "add_symbol"}
            BY <1>1, PutFacts
        <2>3. Final'
            BY <1>1, <2>1, <2>2, FinalEarly DEF LoadPcs, ElfPcs, ExportPcs, WritePcs
        <2>4. lost = {} => Beginning' /\ Exporting' /\ Writing'
            BY <1>3, <2>2, CopyBegin, CopyName, CopySymbol
        <2> QED BY <1>1, <2>1, <2>3, <2>4 DEF Content
    <1> QED BY <1>2, <1>3

-----------------------------------------------------------------------------
\* The steps of elf_write leave the symbols where they are.
LEMMA WalkKept ==
    ASSUME IInv, Content, lost = {}, pc \in WritePcs, pc' \in WritePcs,
           UNCHANGED <<file, range, buf, put, idx, next, lost>>,
           pc' \notin {"write", "fclose"} => pc \notin {"write", "fclose"} /\ shdrs' = shdrs
    PROVE  Beginning' /\ Exporting' /\ Listed /\ Number' = Number /\ Counted' = Counted
    <1>1. Exporting /\ Listing
        BY DEF Content, Listing
    <1>2. ~FileOnly /\ ~FileOnly' /\ Listing' /\ \A label : ~Put(label) /\ ~Put(label)'
        BY DEF FileOnly, Listing, Put, WritePcs
    <1>3. Number' = Number /\ Counted' = Counted
        <2>1. Rank(next - 1)' = Rank(next - 1)
            BY DEF Rank, Defined, Exported
        <2> QED BY <1>2, <2>1 DEF Number, Counted
    <1>4. Listed /\ Listed'
        BY <1>1, <1>3, NothingPut, ListedKept DEF Exporting
    <1>5. Beginning'
        BY <1>2 DEF Beginning, LoadPcs, WritePcs
    <1>6. Exporting'
        <2>1. next' = Last' + 1 /\ StrData'[0] = ""
            BY <1>1 DEF Exporting, Last, StrData
        <2>2. pc' \notin {"write", "fclose"} =>
                 /\ shdrs'["symtab"].info = Counted'
                 /\ \A o \in DOMAIN Symbols' : Symbols'[o].sect # "TEXT"
            BY <1>1, <1>3 DEF Exporting, Symbols
        <2> QED BY <1>2, <1>4, <2>1, <2>2 DEF Exporting, WritePcs
    <1> QED BY <1>3, <1>4, <1>5, <1>6

\* The output is opened, and closed.
LEMMA OpenContent ==
    IInv /\ Content /\ (OpenOut \/ OpenOutFails \/ WriteFails \/ CloseOut) => Content'
    <1> SUFFICES ASSUME IInv, Content, OpenOut \/ OpenOutFails \/ WriteFails \/ CloseOut
                 PROVE  Content'
        OBVIOUS
    <1>1. /\ UNCHANGED <<tool, file, range, buf, put, idx, next, shdrs, out, outpos, written, lost>>
          /\ pc \in WritePcs
          /\ \/ /\ pc = "elf_write" /\ pc' = "resolve"
                /\ shoff' = EhdrSize + buf["shstrtab"].cnt + buf["strtab"].cnt + buf["symtab"].cnt
             \/ pc \in {"elf_write", "fclose"} /\ pc' = "elf_cleanup"
             \/ pc = "write" /\ pc' = "fclose"
        BY DEF OpenOut, OpenOutFails, WriteFails, CloseOut, WritePcs, loading, elfVars
    <1>2. Final'
        <2>1. pc # "fclose" => ~written
            BY <1>1 DEF Content, Final, WritePcs
        <2>2. pc' \in LoadPcs \cup (ElfPcs \ {"write", "fclose"}) => outpos = 0
            BY <1>1 DEF Content, Final, LoadPcs, ElfPcs, ExportPcs, WritePcs
        <2> QED BY <1>1, <2>1, <2>2, FinalKept DEF Content
    <1>3. ASSUME lost = {} PROVE Beginning' /\ Exporting' /\ Writing'
        <2>1. CASE pc' = "elf_cleanup"
            BY <2>1, Quiet DEF LoadPcs, ElfPcs, ExportPcs, WritePcs
        <2>2. CASE pc' # "elf_cleanup"
            <3>1. pc' \in {"resolve", "fclose"} /\ pc' \in WritePcs
                BY <1>1, <2>2 DEF WritePcs
            <3>2. Beginning' /\ Exporting'
                BY <1>1, <1>3, <3>1, WalkKept
            <3>3. pc' = "resolve" => shoff' = Starts'[5]
                BY <1>1 DEF Starts
            <3> QED BY <3>1, <3>2, <3>3 DEF Writing
        <2> QED BY <2>1, <2>2
    <1> QED BY <1>1, <1>2, <1>3, InsideKept DEF Content

\* Without -t nothing is looked for, and with it only behind a failed realloc.
LEMMA NoRangeContent == IInv /\ Content /\ (NoRange \/ ResolveGarbage) => Content'
    <1> SUFFICES ASSUME IInv, Content, NoRange \/ ResolveGarbage PROVE Content'
        OBVIOUS
    <1>1. /\ UNCHANGED <<tool, file, range, buf, put, idx, next, shdrs, shoff, out, outpos, written, lost>>
          /\ pc = "resolve" /\ pc' \in {"crash", "write"} /\ step' = 1
          /\ (range = <<>> /\ pc' = "write") \/ ~Whole
        BY DEF NoRange, ResolveGarbage, elfVars
    <1>2. ~written /\ outpos = 0
        BY <1>1 DEF Content, Final, ElfPcs, WritePcs
    <1>3. Final'
        <2>1. pc' \notin LoadPcs \cup (ElfPcs \ {"write", "fclose"}) /\ pc' # "success"
            BY <1>1 DEF LoadPcs, ElfPcs, ExportPcs, WritePcs
        <2> QED BY <1>1, <1>2, <2>1, FinalKept DEF Content
    <1>4. ASSUME lost = {} PROVE Beginning' /\ Exporting' /\ Writing'
        <2>1. range = <<>> /\ pc' = "write"
            BY <1>1, <1>4, AllFilled DEF Whole, WritePcs
        <2>2. Beginning' /\ Exporting' /\ Counted' = Counted
            BY <1>1, <1>4, <2>1, WalkKept DEF WritePcs
        <2>3. shdrs["symtab"].info = Counted /\ shoff = Starts[5]
            BY <1>1, <1>4 DEF Content, Exporting, Writing, Listing, WritePcs
        <2>4. Starts' = Starts /\ Starts[1] = 0
            BY <1>1 DEF Starts
        <2>5. Placed'
            BY <1>1, <2>1 DEF Placed
        <2> QED BY <1>1, <1>2, <2>1, <2>2, <2>3, <2>4, <2>5 DEF Writing
    <1> QED BY <1>1, <1>3, <1>4, InsideKept DEF Content

-----------------------------------------------------------------------------
\* elf_compute_section_offsets, and the null symbol is counted.
LEMMA CompletedFacts ==
    ASSUME Headers
    PROVE  /\ DOMAIN Completed = Buffers \cup {"text"} /\ Completed["text"] = shdrs["text"]
           /\ \A b \in Buffers : Completed[b].offset = Offset(b) /\ Completed[b].size = buf[b].cnt
           /\ Completed["symtab"].info = shdrs["symtab"].info + 1
           /\ shdrs' = Completed => Headers'
    <1>1. DOMAIN Completed = Buffers \cup {"text"} /\ Completed["text"] = shdrs["text"]
        BY DEF Completed, Headers
    <1>2. ASSUME NEW b \in Buffers
          PROVE  Completed[b] = [addr |-> shdrs[b].addr, offset |-> Offset(b), size |-> buf[b].cnt,
                                 info |-> IF b = "symtab" THEN shdrs[b].info + 1 ELSE shdrs[b].info]
        <2>1. b \in DOMAIN shdrs /\ b # "text"
            BY DEF Headers, Buffers
        <2>2. PICK h : /\ h = shdrs[b]
                       /\ h = [addr |-> h.addr, offset |-> h.offset, size |-> h.size, info |-> h.info]
            BY DEF Headers
        <2>3. Completed[b] = [h EXCEPT !.offset = Offset(b), !.size = buf[b].cnt,
                                       !.info = IF b = "symtab" THEN @ + 1 ELSE @]
            BY <2>1, <2>2 DEF Completed
        <2> QED BY <2>2, <2>3
    <1>3. ASSUME NEW b \in Buffers
          PROVE  /\ Completed[b].offset = Offset(b) /\ Completed[b].size = buf[b].cnt
                 /\ b = "symtab" => Completed[b].info = shdrs[b].info + 1
                 /\ Completed[b] = [addr |-> Completed[b].addr, offset |-> Completed[b].offset,
                                    size |-> Completed[b].size, info |-> Completed[b].info]
        <2>1. PICK info : /\ Completed[b] = [addr |-> shdrs[b].addr, offset |-> Offset(b),
                                             size |-> buf[b].cnt, info |-> info]
                          /\ b = "symtab" => info = shdrs[b].info + 1
            BY <1>2
        <2> QED BY <2>1
    <1>4. ASSUME NEW s \in Buffers \cup {"text"}
          PROVE  Completed[s] = [addr |-> Completed[s].addr, offset |-> Completed[s].offset,
                                 size |-> Completed[s].size, info |-> Completed[s].info]
        BY <1>1, <1>3 DEF Headers
    <1>5. ASSUME shdrs' = Completed PROVE Headers'
        <2>1. PICK c : /\ c = Completed /\ DOMAIN c = Buffers \cup {"text"}
                       /\ \A s \in Buffers \cup {"text"} :
                             c[s] = [addr |-> c[s].addr, offset |-> c[s].offset,
                                     size |-> c[s].size, info |-> c[s].info]
            BY <1>1, <1>4
        <2> QED BY <1>5, <2>1 DEF Headers
    <1>6. Completed["symtab"].info = shdrs["symtab"].info + 1
        BY <1>3 DEF Buffers
    <1> QED BY <1>1, <1>3, <1>5, <1>6

\* Without a loss every part has a size.
LEMMA SizeFacts ==
    ASSUME IInv, Content, lost = {}, pc = "write", step <= Len(Parts)
    PROVE  /\ step \in 1 .. 5 /\ PartSize \in Nat \ {0} /\ Starts[step + 1] = Starts[step] + PartSize
           /\ \A b \in Buffers : buf[b].cnt \in Nat
           /\ step = 1 => Part = "ehdr" /\ PartData = shoff
           /\ step = 2 => Part = "shstrtab"
           /\ step = 3 => Part = "strtab"
           /\ step = 4 => Part = "symtab"
           /\ step = 5 => Part = "shdrs" /\ PartData = Completed
           /\ step \in 2 .. 4 => /\ PartSize = buf[Part].cnt /\ PartData = buf[Part].data
                                 /\ Offset(Part) = Starts[step]
    <1>1. /\ step \in 1 .. 5
          /\ \A b \in Buffers : buf[b].cnt \in Nat
        BY ElfFacts DEF ElfPcs, WritePcs, Parts
    <1>2. \A b \in Buffers : ~buf[b].null /\ buf[b].cnt \in Nat \ {0}
        <2> TAKE b \in Buffers
        <2>1. ~buf[b].null /\ 0 \in DOMAIN buf[b].data
            BY AllFilled DEF WritePcs
        <2>2. 0 < buf[b].cnt
            BY <2>1 DEF Content, Inside
        <2> QED BY <1>1, <2>1, <2>2
    <1>3. PICK n1, n2, n3 : /\ n1 = buf["shstrtab"].cnt /\ n2 = buf["strtab"].cnt
                            /\ n3 = buf["symtab"].cnt
                            /\ n1 \in Nat \ {0} /\ n2 \in Nat \ {0} /\ n3 \in Nat \ {0}
        BY <1>2 DEF Buffers
    <1>4. /\ Starts[1] = 0 /\ Starts[2] = 52 /\ Starts[3] = 52 + n1 /\ Starts[4] = 52 + n1 + n2
          /\ Starts[5] = 52 + n1 + n2 + n3 /\ Starts[6] = 52 + n1 + n2 + n3 + 200
        BY <1>3 DEF Starts, EhdrSize, ShdrsSize
    <1>5. CASE step = 1
        <2>1. Part = "ehdr"
            BY <1>5 DEF Part, Parts
        <2>2. PartSize = 52
            BY <2>1 DEF PartSize, EhdrSize, Buffers
        <2>3. PartData = shoff
            BY <2>1 DEF PartData, Buffers
        <2> QED BY <1>1, <1>4, <1>5, <2>1, <2>2, <2>3
    <1>6. CASE step = 2
        <2>1. Part = "shstrtab"
            BY <1>6 DEF Part, Parts
        <2>2. PartSize = n1 /\ PartSize = buf[Part].cnt /\ PartData = buf[Part].data
            BY <1>2, <1>3, <2>1 DEF PartSize, PartData, Buffers
        <2>3. Offset(Part) = 52
            BY <2>1 DEF Offset, EhdrSize
        <2>4. PartSize \in Nat \ {0} /\ Starts[step + 1] = Starts[step] + PartSize
            BY <1>3, <1>4, <1>6, <2>2
        <2> QED BY <1>1, <1>4, <1>6, <2>1, <2>2, <2>3, <2>4
    <1>7. CASE step = 3
        <2>1. Part = "strtab"
            BY <1>7 DEF Part, Parts
        <2>2. PartSize = n2 /\ PartSize = buf[Part].cnt /\ PartData = buf[Part].data
            BY <1>2, <1>3, <2>1 DEF PartSize, PartData, Buffers
        <2>3. Offset(Part) = 52 + n1
            BY <1>3, <2>1 DEF Offset, EhdrSize
        <2>4. PartSize \in Nat \ {0} /\ Starts[step + 1] = Starts[step] + PartSize
            BY <1>3, <1>4, <1>7, <2>2
        <2> QED BY <1>1, <1>4, <1>7, <2>1, <2>2, <2>3, <2>4
    <1>8. CASE step = 4
        <2>1. Part = "symtab"
            BY <1>8 DEF Part, Parts
        <2>2. PartSize = n3 /\ PartSize = buf[Part].cnt /\ PartData = buf[Part].data
            BY <1>2, <1>3, <2>1 DEF PartSize, PartData, Buffers
        <2>3. Offset(Part) = 52 + n1 + n2
            BY <1>3, <2>1 DEF Offset, EhdrSize
        <2>4. PartSize \in Nat \ {0} /\ Starts[step + 1] = Starts[step] + PartSize
            BY <1>3, <1>4, <1>8, <2>2
        <2> QED BY <1>1, <1>4, <1>8, <2>1, <2>2, <2>3, <2>4
    <1>9. CASE step = 5
        <2>1. Part = "shdrs"
            BY <1>9 DEF Part, Parts
        <2>2. PartSize = 200
            BY <2>1 DEF PartSize, ShdrsSize, Buffers
        <2>3. PartData = Completed
            BY <2>1 DEF PartData, Buffers
        <2> QED BY <1>1, <1>3, <1>4, <1>9, <2>1, <2>2, <2>3
    <1> QED BY <1>1, <1>5, <1>6, <1>7, <1>8, <1>9

\* fwrite takes a part.
LEMMA WritePartContent == IInv /\ Content /\ WritePart => Content'
    <1> SUFFICES ASSUME IInv, Content, WritePart PROVE Content'
        OBVIOUS
    <1>1. /\ UNCHANGED <<tool, file, range, buf, put, idx, next, shoff, written, lost>>
          /\ pc = "write" /\ pc' = "write" /\ step <= Len(Parts) /\ step' = step + 1
          /\ outpos' = outpos + PartSize
          /\ shdrs' = IF Part = "shdrs" THEN Completed ELSE shdrs
        BY DEF WritePart
    <1>2. Final'
        <2>1. ~written
            BY <1>1 DEF Content, Final
        <2> QED BY <1>1, <2>1 DEF Final, LoadPcs, ElfPcs, ExportPcs, WritePcs
    <1>3. Inside' /\ Headers'
        <2>1. Headers'
            <3>1. CASE Part = "shdrs"
                BY <1>1, <3>1, CompletedFacts DEF Content
            <3>2. CASE Part # "shdrs"
                BY <1>1, <3>2 DEF Content, Headers
            <3> QED BY <3>1, <3>2
        <2> QED BY <1>1, <2>1 DEF Content, Inside
    <1>4. ASSUME lost = {} PROVE Beginning' /\ Exporting' /\ Writing'
        <2>1. /\ step \in 1 .. 5 /\ PartSize \in Nat \ {0} /\ Starts[step + 1] = Starts[step] + PartSize
              /\ step = 1 => Part = "ehdr" /\ PartData = shoff
              /\ step = 2 => Part = "shstrtab"
              /\ step = 3 => Part = "strtab"
              /\ step = 4 => Part = "symtab"
              /\ step = 5 => Part = "shdrs" /\ PartData = Completed
              /\ step \in 2 .. 4 => /\ PartSize = buf[Part].cnt /\ PartData = buf[Part].data
                                    /\ Offset(Part) = Starts[step]
            BY <1>1, <1>4, SizeFacts
        <2>2. /\ shoff = Starts[5] /\ Placed /\ outpos = Starts[step]
              /\ step > 1 => "ehdr" \in DOMAIN out /\ out["ehdr"].data = shoff
              /\ step > 2 => InFile("shstrtab")
              /\ step > 3 => InFile("strtab")
              /\ step > 4 => InFile("symtab")
              /\ shdrs["symtab"].info = Counted
            BY <1>1, <1>4, <2>1 DEF Content, Writing
        <2>3. Beginning' /\ Exporting' /\ Number' = Number /\ Counted' = Counted
            BY <1>1, <1>4, WalkKept DEF WritePcs
        <2>4. /\ out'[Part].at = outpos /\ out'[Part].size = PartSize /\ out'[Part].data = PartData
              /\ DOMAIN out' = DOMAIN out \cup {Part}
              /\ \A p \in DOMAIN out : p # Part => out'[p] = out[p]
            <3> DEFINE part == [at |-> outpos, size |-> PartSize, data |-> PartData]
            <3>1. part.at = outpos /\ part.size = PartSize /\ part.data = PartData
                OBVIOUS
            <3>2. out' = Stored(out, Part, part)
                BY <2>1 DEF WritePart
            <3> HIDE DEF part
            <3>3. /\ out'[Part] = part /\ DOMAIN out' = DOMAIN out \cup {Part}
                  /\ \A p \in DOMAIN out : p # Part => out'[p] = out[p]
                BY <3>2 DEF Stored
            <3> QED BY <3>1, <3>3
        <2>5. Starts' = Starts /\ \A b : Offset(b)' = Offset(b)
            BY <1>1 DEF Starts, Offset
        <2>6. shdrs'["text"] = shdrs["text"]
            BY <1>1, CompletedFacts DEF Content
        <2>7. Placed'
            <3>1. /\ \A name : Bearers(name)' = Bearers(name) /\ OneValue(name)' = OneValue(name)
                  /\ \A k : Sym(Symbols, k)' = Sym(Symbols, k)
                BY <1>1, <2>3 DEF Bearers, OneValue, NameOf, Sym, Symbols
            <3> QED BY <1>1, <2>2, <2>3, <2>6, <3>1 DEF Placed
        <2>8. \A b \in Buffers : InFile(b) /\ b # Part => InFile(b)'
            BY <1>1, <2>4, <2>5 DEF InFile
        <2>9. /\ step = 2 => InFile("shstrtab")'
              /\ step = 3 => InFile("strtab")'
              /\ step = 4 => InFile("symtab")'
            <3>1. PICK part : /\ part = Part /\ part \in DOMAIN out' /\ out'[part].at = outpos
                              /\ out'[part].size = PartSize /\ out'[part].data = PartData
                BY <2>4
            <3>2. ASSUME step \in 2 .. 4
                  PROVE  /\ out'[part].at = Offset(part)' /\ out'[part].size = buf'[part].cnt
                         /\ out'[part].data = buf'[part].data
                BY <1>1, <2>1, <2>2, <2>5, <3>1, <3>2
            <3>3. ASSUME step \in 2 .. 4 PROVE InFile(part)'
                BY <3>1, <3>2, <3>3 DEF InFile
            <3> QED BY <2>1, <3>1, <3>3
        <2>10. /\ step' > 1 => "ehdr" \in DOMAIN out' /\ out'["ehdr"].data = shoff'
               /\ step' > 2 => InFile("shstrtab")'
               /\ step' > 3 => InFile("strtab")'
               /\ step' > 4 => InFile("symtab")'
            <3>1. CASE step = 1
                BY <1>1, <2>1, <2>4, <3>1
            <3>2. CASE step = 2
                BY <1>1, <2>1, <2>2, <2>4, <2>9, <3>2
            <3>3. CASE step = 3
                BY <1>1, <2>1, <2>2, <2>4, <2>8, <2>9, <3>3 DEF Buffers
            <3>4. CASE step = 4
                BY <1>1, <2>1, <2>2, <2>4, <2>8, <2>9, <3>4 DEF Buffers
            <3>5. CASE step = 5
                BY <1>1, <2>1, <2>2, <2>4, <2>8, <3>5 DEF Buffers
            <3> QED BY <2>1, <3>1, <3>2, <3>3, <3>4, <3>5
        <2>11. outpos' = Starts'[step'] /\ shoff' = Starts'[5]
            BY <1>1, <2>1, <2>2, <2>5
        <2>12. /\ step' > 5 => out'["shdrs"].at = shoff' /\ out'["shdrs"].data = shdrs'
               /\ step' > 5 => \A b \in Buffers : /\ shdrs'[b].offset = Offset(b)'
                                                  /\ shdrs'[b].size = buf'[b].cnt
               /\ shdrs'["symtab"].info = IF step' > 5 THEN Counted' + 1 ELSE Counted'
            <3>1. CASE step = 5
                <4>1. /\ Completed["symtab"].info = shdrs["symtab"].info + 1
                      /\ \A b \in Buffers : Completed[b].offset = Offset(b) /\ Completed[b].size = buf[b].cnt
                    BY CompletedFacts DEF Content
                <4>2. shdrs' = Completed /\ step' > 5
                    BY <1>1, <2>1, <3>1
                <4>3. out'["shdrs"].at = shoff' /\ out'["shdrs"].data = shdrs'
                    BY <1>1, <2>1, <2>2, <2>4, <3>1, <4>2
                <4>4. \A b \in Buffers : shdrs'[b].offset = Offset(b)' /\ shdrs'[b].size = buf'[b].cnt
                    BY <1>1, <2>5, <4>1, <4>2
                <4> QED BY <2>2, <2>3, <4>1, <4>2, <4>3, <4>4
            <3>2. CASE step # 5
                <4>1. ~(step' > 5) /\ Part # "shdrs"
                    BY <1>1, <2>1, <3>2
                <4> QED BY <1>1, <2>2, <2>3, <4>1
            <3> QED BY <3>1, <3>2
        <2> QED BY <1>1, <2>3, <2>7, <2>10, <2>11, <2>12 DEF Writing
    <1> QED BY <1>1, <1>2, <1>3, <1>4 DEF Content

-----------------------------------------------------------------------------
\* The size of a table says how many symbols it has.
LEMMA Entries == \A n \in Nat : (SymSize * n) \div SymSize = n
    BY DEF SymSize

\* When all the parts are there a reader finds the symbols of the input.
LEMMA MatchFacts ==
    ASSUME IInv, Content, lost = {}, pc = "write", step > Len(Parts)
    PROVE  TablesMatch /\ RangeMatches
    <1>1. step = 6 /\ Len(Parts) = 5
        <2>1. step \in 1 .. 13 /\ step <= Len(Parts) + 1 /\ Len(Parts) = 5
            BY ElfFacts DEF IInv, LoadOK, ElfPcs, WritePcs, Parts
        <2> QED BY <2>1
    <1>2. /\ shoff = Starts[5] /\ Placed /\ outpos = Starts[6] /\ out["ehdr"].data = shoff
          /\ InFile("shstrtab") /\ InFile("strtab") /\ InFile("symtab")
          /\ out["shdrs"].at = shoff /\ out["shdrs"].data = shdrs
          /\ \A b \in Buffers : shdrs[b].offset = Offset(b) /\ shdrs[b].size = buf[b].cnt
          /\ shdrs["symtab"].info = Counted + 1
        BY <1>1 DEF Content, Writing
    <1>3. Listed /\ next = Last + 1
        BY DEF Content, Exporting, Listing, WritePcs
    <1>4. PICK n : /\ n = Number /\ n \in Nat /\ n >= 2 /\ Counted + 1 = n
                   /\ n = Rank(Last) + 2 /\ Rank(Last) \in Nat /\ Last \in Nat
        <2>1. ~FileOnly /\ ~Put("export")
            BY DEF FileOnly, Put
        <2>2. Last \in Nat /\ Rank(next - 1) \in Nat
            BY Numbers DEF ElfPcs, WritePcs
        <2>3. next - 1 = Last
            BY <1>3, <2>2
        <2>4. Number = Rank(Last) + 2 /\ Counted = Rank(Last) + 1
            BY <2>1, <2>3 DEF Number, Counted
        <2>5. Rank(Last) \in Nat
            BY <2>2, <2>3
        <2> QED BY <2>2, <2>4, <2>5
    <1>5. /\ OutHeaders = shdrs /\ OutCount = n
          /\ \A k : OutSym(k) = Sym(Symbols, k) /\ OutName(k) = NameOf(k)
        <2>1. out["symtab"].data = Symbols /\ out["strtab"].data = StrData
            BY <1>2 DEF InFile, Symbols, StrData
        <2>2. OutHeaders = shdrs
            BY <1>2 DEF OutHeaders
        <2>3. OutCount = n
            <3>1. shdrs["symtab"].size = SymSize * n
                BY <1>2, <1>3, <1>4 DEF Listed, Buffers
            <3>2. (SymSize * n) \div SymSize = n
                BY <1>4, Entries
            <3> QED BY <2>2, <3>1, <3>2 DEF OutCount
        <2> QED BY <2>1, <2>2, <2>3 DEF OutSym, OutName, NameOf, StrData
    <1>6. ASSUME NEW k \in 0 .. (n - 1)
          PROVE  /\ k = 0 => OutSym(k).name = 0
                 /\ k = 1 => OutName(k) = file.input
                 /\ \A i \in Defined(Last) :
                       Rank(i) + 1 = k =>
                          OutName(k) = NameIn(i) /\ OutSym(k).value = file.symbols[i].value % Word
        <2>1. Right(k, Sym(Symbols, k))
            BY <1>3, <1>4 DEF Listed
        <2>2. PICK s : s = Sym(Symbols, k) /\ OutSym(k) = s /\ OutName(k) = StrData[s.name]
            BY <1>5 DEF NameOf, StrData
        <2>3. Right(k, s)
            BY <2>1, <2>2
        <2> QED BY <2>2, <2>3 DEF Right
    <1>7. TablesMatch
        <2>1. out["ehdr"].data = out["shdrs"].at /\ outpos = out["shdrs"].at + ShdrsSize
            <3>1. Starts[6] = Starts[5] + ShdrsSize
                BY DEF Starts
            <3> QED BY <1>2, <3>1
        <2>2. \A b \in Buffers : OutHeaders[b].offset = out[b].at /\ OutHeaders[b].size = out[b].size
            <3>1. \A b \in Buffers : InFile(b)
                BY <1>2 DEF Buffers
            <3> QED BY <1>2, <1>5, <3>1 DEF InFile
        <2>3. OutCount = Rank(Last) + 2 /\ OutHeaders["symtab"].info = OutCount
            BY <1>2, <1>4, <1>5
        <2>4. OutSym(0).name = 0 /\ OutName(1) = file.input
            <3>1. 0 \in 0 .. (n - 1) /\ 1 \in 0 .. (n - 1)
                BY <1>4
            <3> QED BY <1>6, <3>1
        <2>5. ASSUME NEW i \in Defined(Last)
              PROVE  /\ OutName(Rank(i) + 1) = NameIn(i)
                     /\ OutSym(Rank(i) + 1).value = file.symbols[i].value % Word
            <3>1. PICK k : k = Rank(i) + 1
                OBVIOUS
            <3>2. k \in 0 .. (n - 1)
                <4>1. Rank(i) \in 1 .. Rank(Last)
                    BY <1>4, RankOrder
                <4> QED BY <1>4, <3>1, <4>1
            <3> QED BY <1>6, <3>1, <3>2
        <2> QED BY <2>1, <2>2, <2>3, <2>4, <2>5 DEF TablesMatch, Last
    <1>8. RangeMatches
        <2>1. \A name : ValueOf(name) = OneValue(name)
            BY <1>4, <1>5 DEF ValueOf, OneValue, Bearers
        <2> SUFFICES ASSUME range # <<>>, range[1] # range[2],
                            NEW begin \in ValueOf(range[1]), NEW end \in ValueOf(range[2])
                     PROVE  /\ OutHeaders["text"].addr = begin
                            /\ OutHeaders["text"].size = (end - begin) % Word
                            /\ \A i \in 0 .. (OutCount - 1) :
                                  OutSym(i).sect = "TEXT" <=> OutSym(i).value \in begin .. end
            BY DEF RangeMatches
        <2>2. begin \in OneValue(range[1]) /\ end \in OneValue(range[2])
            BY <2>1
        <2> QED BY <1>2, <1>4, <1>5, <2>2 DEF Placed
    <1> QED BY <1>7, <1>8

\* elf_write answers 0.
LEMMA AllWrittenContent == IInv /\ Content /\ AllWritten => Content'
    <1> SUFFICES ASSUME IInv, Content, AllWritten PROVE Content'
        OBVIOUS
    <1>1. /\ UNCHANGED <<tool, file, range, buf, put, idx, next, shdrs, out, outpos, lost>>
          /\ pc = "write" /\ pc' = "fclose" /\ step > Len(Parts)
        BY DEF AllWritten, loading
    <1>2. Final'
        <2>1. lost' = {} => TablesMatch' /\ RangeMatches'
            BY <1>1, MatchFacts, MatchKept
        <2> QED BY <1>1, <2>1 DEF Final, LoadPcs, ElfPcs, ExportPcs, WritePcs
    <1>3. ASSUME lost = {} PROVE Beginning' /\ Exporting' /\ Writing'
        <2>1. Beginning' /\ Exporting'
            BY <1>1, <1>3, WalkKept DEF WritePcs
        <2> QED BY <1>1, <2>1 DEF Writing
    <1> QED BY <1>1, <1>2, <1>3, InsideKept DEF Content

-----------------------------------------------------------------------------
\* A set of numbers has a smallest.
LEMMA Smallest ==
    ASSUME NEW S, S # {}, S \subseteq Nat
    PROVE  \E n \in S : \A y \in S : n <= y
    <1>1. PICK n \in S : \A y \in S : ~(<<y, n>> \in OpToRel(<, Nat))
        BY WFMin, NatLessThanWellFounded
    <1>2. \A y \in S : ~(y < n)
        BY <1>1 DEF OpToRel
    <1>3. \A y \in S : n <= y
        BY <1>2
    <1> QED BY <1>3

\* A name has been seen in the first n symbols.
Seen(name, n) == \E j \in 0 .. (n - 1) : NameOf(j) = name

LEMMA SeenStep ==
    ASSUME NEW name, NEW n \in Nat
    PROVE  ~Seen(name, 0) /\ (Seen(name, n + 1) <=> Seen(name, n) \/ NameOf(n) = name)
    <1>1. 0 .. (0 - 1) = {} /\ 0 .. ((n + 1) - 1) = (0 .. (n - 1)) \cup {n}
        OBVIOUS
    <1> QED BY <1>1 DEF Seen

\* When every symbol of a name has the same value, what is found is that value from
\* the first symbol of the name on.
Found(b, e, n) == [begin |-> IF Seen(range[1], n) THEN b ELSE 0,
                   end   |-> IF Seen(range[2], n) THEN e ELSE 0]

LEMMA FoundStep ==
    ASSUME NEW b \in Nat \ {0}, NEW e \in Nat \ {0}, NEW n \in Nat, range[1] # range[2],
           NameOf(n) = range[1] => Sym(Symbols, n).value = b,
           NameOf(n) = range[2] => Sym(Symbols, n).value = e
    PROVE  ScanStep(Found(b, e, n), n) = Found(b, e, n + 1)
    <1>0. ASSUME NEW m \in Nat
          PROVE  \E r : /\ r = Found(b, e, m)
                        /\ r = [begin |-> r.begin, end |-> r.end]
                        /\ r.begin = IF Seen(range[1], m) THEN b ELSE 0
                        /\ r.end = IF Seen(range[2], m) THEN e ELSE 0
        <2>1. PICK x, y : /\ x = IF Seen(range[1], m) THEN b ELSE 0
                          /\ y = IF Seen(range[2], m) THEN e ELSE 0
            OBVIOUS
        <2>2. PICK r : r = [begin |-> x, end |-> y]
            OBVIOUS
        <2>3. r = [begin |-> r.begin, end |-> r.end] /\ r.begin = x /\ r.end = y
            BY <2>2
        <2>4. r = Found(b, e, m)
            BY <2>1, <2>2 DEF Found
        <2> QED BY <2>1, <2>3, <2>4
    <1>1. PICK r : /\ r = Found(b, e, n)
                   /\ r = [begin |-> r.begin, end |-> r.end]
                   /\ r.begin = IF Seen(range[1], n) THEN b ELSE 0
                   /\ r.end = IF Seen(range[2], n) THEN e ELSE 0
        BY <1>0
    <1>2. PICK q : /\ q = Found(b, e, n + 1)
                   /\ q = [begin |-> q.begin, end |-> q.end]
                   /\ q.begin = IF Seen(range[1], n + 1) THEN b ELSE 0
                   /\ q.end = IF Seen(range[2], n + 1) THEN e ELSE 0
        <2>1. n + 1 \in Nat
            OBVIOUS
        <2> QED BY <1>0, <2>1
    <1>3. /\ Seen(range[1], n + 1) <=> Seen(range[1], n) \/ NameOf(n) = range[1]
          /\ Seen(range[2], n + 1) <=> Seen(range[2], n) \/ NameOf(n) = range[2]
        BY SeenStep
    <1>4. CASE r.begin # 0 /\ r.end # 0
        <2>1. ScanStep(r, n) = r
            BY <1>4 DEF ScanStep
        <2>2. q.begin = r.begin /\ q.end = r.end
            BY <1>1, <1>2, <1>3, <1>4
        <2> QED BY <1>1, <1>2, <2>1, <2>2
    <1>5. CASE ~(r.begin # 0 /\ r.end # 0) /\ NameOf(n) = range[1]
        <2>1. ScanStep(r, n) = [r EXCEPT !.begin = Sym(Symbols, n).value]
            BY <1>5 DEF ScanStep
        <2>2. q.begin = b /\ q.end = r.end /\ Sym(Symbols, n).value = b
            BY <1>1, <1>2, <1>3, <1>5
        <2> QED BY <1>1, <1>2, <2>1, <2>2
    <1>6. CASE ~(r.begin # 0 /\ r.end # 0) /\ NameOf(n) = range[2] /\ NameOf(n) # range[1]
        <2>1. ScanStep(r, n) = [r EXCEPT !.end = Sym(Symbols, n).value]
            BY <1>6 DEF ScanStep
        <2>2. q.begin = r.begin /\ q.end = e /\ Sym(Symbols, n).value = e
            BY <1>1, <1>2, <1>3, <1>6
        <2> QED BY <1>1, <1>2, <2>1, <2>2
    <1>7. CASE ~(r.begin # 0 /\ r.end # 0) /\ NameOf(n) # range[2] /\ NameOf(n) # range[1]
        <2>1. ScanStep(r, n) = r
            BY <1>7 DEF ScanStep
        <2>2. q.begin = r.begin /\ q.end = r.end
            BY <1>1, <1>2, <1>3, <1>7
        <2> QED BY <1>1, <1>2, <2>1, <2>2
    <1> QED BY <1>4, <1>5, <1>6, <1>7

\* elf_resolve_symbols finds both.
LEMMA ScanFacts ==
    ASSUME NEW b \in Nat \ {0}, NEW e \in Nat \ {0}, NEW n \in Nat, range[1] # range[2],
           \A k \in 0 .. (n - 1) : /\ NameOf(k) = range[1] => Sym(Symbols, k).value = b
                                   /\ NameOf(k) = range[2] => Sym(Symbols, k).value = e,
           Seen(range[1], n), Seen(range[2], n)
    PROVE  Scan(n).begin = b /\ Scan(n).end = e
    <1> DEFINE F(f) == [i \in 0 .. n |-> IF i = 0 THEN [begin |-> 0, end |-> 0]
                                          ELSE ScanStep(f[i - 1], i - 1)]
               s == CHOOSE f : f = F(f)
               t == [i \in 0 .. n |-> Found(b, e, i)]
    <1>1. Scan(n) = s[n]
        BY DEF Scan
    <1>2. Found(b, e, 0) = [begin |-> 0, end |-> 0]
        <2>1. ~Seen(range[1], 0) /\ ~Seen(range[2], 0)
            BY SeenStep
        <2> QED BY <2>1 DEF Found
    <1>3. ASSUME NEW i \in 1 .. n
          PROVE  i - 1 \in 0 .. n /\ i - 1 < i /\ Found(b, e, i) = ScanStep(Found(b, e, i - 1), i - 1)
        <2>1. i - 1 \in Nat /\ i - 1 \in 0 .. (n - 1) /\ (i - 1) + 1 = i /\ i - 1 \in 0 .. n
            OBVIOUS
        <2>2. ScanStep(Found(b, e, i - 1), i - 1) = Found(b, e, (i - 1) + 1)
            BY <2>1, FoundStep
        <2> QED BY <2>1, <2>2
    <1>4. t = F(t)
        <2> SUFFICES ASSUME NEW i \in 0 .. n
                     PROVE  Found(b, e, i) = IF i = 0 THEN [begin |-> 0, end |-> 0]
                                             ELSE ScanStep(t[i - 1], i - 1)
            OBVIOUS
        <2>1. CASE i = 0
            BY <1>2, <2>1
        <2>2. CASE i # 0
            <3>1. i \in 1 .. n
                BY <2>2
            <3>2. t[i - 1] = Found(b, e, i - 1)
                BY <1>3, <3>1
            <3> QED BY <1>3, <2>2, <3>1, <3>2
        <2> QED BY <2>1, <2>2
    <1>5. s = F(s)
        <2> HIDE DEF F, t
        <2> QED BY <1>4
    <1>6. /\ s[0] = [begin |-> 0, end |-> 0]
          /\ \A i \in 1 .. n : s[i] = ScanStep(s[i - 1], i - 1)
        <2> HIDE DEF s
        <2>1. \A i \in 0 .. n : s[i] = IF i = 0 THEN [begin |-> 0, end |-> 0]
                                       ELSE ScanStep(s[i - 1], i - 1)
            BY <1>5
        <2> QED BY <2>1
    <1> HIDE DEF s, F, t
    <1>7. \A i \in 0 .. n : s[i] = Found(b, e, i)
        <2> SUFFICES ASSUME NEW k \in 0 .. n, s[k] # Found(b, e, k) PROVE FALSE
            OBVIOUS
        <2> DEFINE Other == {j \in 0 .. n : s[j] # Found(b, e, j)}
        <2>1. PICK i \in Other : \A j \in Other : i <= j
            <3>1. Other # {} /\ Other \subseteq Nat
                OBVIOUS
            <3> HIDE DEF Other
            <3> QED BY <3>1, Smallest
        <2>2. i # 0
            BY <1>2, <1>6, <2>1
        <2>3. i \in 1 .. n
            BY <2>1, <2>2
        <2>4. s[i - 1] = Found(b, e, i - 1)
            BY <1>3, <2>1, <2>3
        <2> QED BY <1>3, <1>6, <2>1, <2>3, <2>4
    <1>8. s[n] = [begin |-> b, end |-> e]
        BY <1>7 DEF Found
    <1> QED BY <1>1, <1>8

\* elf_resolve_symbols changes the range of .text and the sections of symbols.
LEMMA ResolveSet ==
    ASSUME IInv, Content, Resolve
    PROVE  \E r :
              /\ r = Scan(buf["symtab"].cnt \div SymSize)
              /\ DOMAIN Symbols' = DOMAIN Symbols
              /\ \A o \in DOMAIN Symbols :
                    Symbols'[o] = IF InText(Symbols[o].value, r)
                                    THEN [Symbols[o] EXCEPT !.sect = "TEXT"] ELSE Symbols[o]
              /\ buf'["symtab"].cnt = buf["symtab"].cnt
              /\ \A b \in Buffers \ {"symtab"} : buf'[b] = buf[b]
              /\ shdrs'["text"].addr = r.begin /\ shdrs'["text"].size = (r.end - r.begin) % Word
              /\ \A b \in Buffers : shdrs'[b] = shdrs[b]
              /\ Headers' /\ Inside'
    <1>1. PICK r :
             /\ r = Scan(buf["symtab"].cnt \div SymSize)
             /\ shdrs' = [shdrs EXCEPT !["text"].addr = r.begin,
                             !["text"].size = (r.end - r.begin) % Word]
             /\ buf' = [buf EXCEPT !["symtab"].data = [o \in DOMAIN @ |->
                           IF InText(@[o].value, r) THEN [@[o] EXCEPT !.sect = "TEXT"] ELSE @[o]]]
        BY DEF Resolve
    <1>2. Shape /\ DOMAIN buf = Buffers /\ "symtab" \in Buffers
        BY DEF IInv, Shape, Buffers
    <1>3. PICK d : /\ DOMAIN d = DOMAIN Symbols
                   /\ \A o \in DOMAIN Symbols :
                         d[o] = IF InText(Symbols[o].value, r)
                                  THEN [Symbols[o] EXCEPT !.sect = "TEXT"] ELSE Symbols[o]
                   /\ buf' = [buf EXCEPT !["symtab"].data = d]
        <2> DEFINE e == [o \in DOMAIN buf["symtab"].data |->
                            IF InText(buf["symtab"].data[o].value, r)
                              THEN [buf["symtab"].data[o] EXCEPT !.sect = "TEXT"]
                              ELSE buf["symtab"].data[o]]
        <2>1. buf' = [buf EXCEPT !["symtab"].data = e]
            BY <1>1
        <2>2. /\ DOMAIN e = DOMAIN Symbols
              /\ \A o \in DOMAIN Symbols :
                    e[o] = IF InText(Symbols[o].value, r)
                             THEN [Symbols[o] EXCEPT !.sect = "TEXT"] ELSE Symbols[o]
            BY DEF Symbols
        <2> HIDE DEF e
        <2> QED BY <2>1, <2>2
    <1>4. /\ buf'["symtab"].data = d /\ buf'["symtab"].cnt = buf["symtab"].cnt
          /\ \A b \in Buffers \ {"symtab"} : buf'[b] = buf[b]
        <2>1. PICK h : /\ h = buf["symtab"]
                       /\ h = [cap |-> h.cap, cnt |-> h.cnt, null |-> h.null, data |-> h.data]
            BY <1>2 DEF Shape
        <2>2. buf'["symtab"] = [h EXCEPT !.data = d]
            BY <1>2, <1>3, <2>1
        <2>3. buf'["symtab"].data = d /\ buf'["symtab"].cnt = h.cnt
            BY <2>1, <2>2
        <2> QED BY <1>2, <1>3, <2>1, <2>3
    <1>5. /\ DOMAIN shdrs' = Buffers \cup {"text"}
          /\ shdrs'["text"].addr = r.begin /\ shdrs'["text"].size = (r.end - r.begin) % Word
          /\ \A b \in Buffers : shdrs'[b] = shdrs[b]
          /\ shdrs'["text"] = [addr |-> shdrs'["text"].addr, offset |-> shdrs'["text"].offset,
                               size |-> shdrs'["text"].size, info |-> shdrs'["text"].info]
        <2>1. PICK h : /\ h = shdrs["text"]
                       /\ h = [addr |-> h.addr, offset |-> h.offset, size |-> h.size, info |-> h.info]
            BY DEF Content, Headers
        <2>2. DOMAIN shdrs = Buffers \cup {"text"} /\ "text" \notin Buffers
            BY DEF Content, Headers, Buffers
        <2>3. PICK x, y : x = r.begin /\ y = (r.end - r.begin) % Word
            OBVIOUS
        <2>4. shdrs' = [shdrs EXCEPT !["text"].addr = x, !["text"].size = y]
            BY <1>1, <2>3
        <2>5. shdrs'["text"] = [h EXCEPT !.addr = x, !.size = y]
            BY <2>1, <2>2, <2>4
        <2>6. shdrs'["text"] = [addr |-> x, offset |-> h.offset, size |-> y, info |-> h.info]
            BY <2>1, <2>5
        <2>7. DOMAIN shdrs' = Buffers \cup {"text"} /\ \A b \in Buffers : shdrs'[b] = shdrs[b]
            BY <2>2, <2>4
        <2> QED BY <2>3, <2>6, <2>7
    <1>6. Headers'
        BY <1>5 DEF Content, Headers
    <1>7. Inside'
        BY <1>2, <1>3, <1>4 DEF Content, Inside, Symbols
    <1>8. Symbols' = d
        BY <1>4 DEF Symbols
    <1>9. /\ DOMAIN Symbols' = DOMAIN Symbols
          /\ \A o \in DOMAIN Symbols :
                Symbols'[o] = IF InText(Symbols[o].value, r)
                                THEN [Symbols[o] EXCEPT !.sect = "TEXT"] ELSE Symbols[o]
        BY <1>3, <1>8
    <1> WITNESS r
    <1> QED BY <1>1, <1>4, <1>5, <1>6, <1>7, <1>9

\* elf_resolve_symbols.
LEMMA ResolveContent == IInv /\ Content /\ Resolve => Content'
    <1> SUFFICES ASSUME IInv, Content, Resolve PROVE Content'
        OBVIOUS
    <1>1. /\ UNCHANGED <<tool, file, range, put, idx, next, shoff, out, outpos, written, lost>>
          /\ pc = "resolve" /\ pc' = "write" /\ step' = 1 /\ range # <<>>
        BY DEF Resolve, writing
    <1>2. PICK r :
             /\ r = Scan(buf["symtab"].cnt \div SymSize)
             /\ DOMAIN Symbols' = DOMAIN Symbols
             /\ \A o \in DOMAIN Symbols :
                   Symbols'[o] = IF InText(Symbols[o].value, r)
                                   THEN [Symbols[o] EXCEPT !.sect = "TEXT"] ELSE Symbols[o]
             /\ buf'["symtab"].cnt = buf["symtab"].cnt
             /\ \A b \in Buffers \ {"symtab"} : buf'[b] = buf[b]
             /\ shdrs'["text"].addr = r.begin /\ shdrs'["text"].size = (r.end - r.begin) % Word
             /\ \A b \in Buffers : shdrs'[b] = shdrs[b]
             /\ Headers' /\ Inside'
        BY ResolveSet
    <1>3. Final'
        <2>1. ~written
            BY <1>1 DEF Content, Final
        <2> QED BY <1>1, <2>1 DEF Final, LoadPcs, ElfPcs, ExportPcs, WritePcs
    <1>4. ASSUME lost = {} PROVE Beginning' /\ Exporting' /\ Writing'
        <2>1. /\ Listed /\ StrData[0] = "" /\ next = Last + 1 /\ shdrs["symtab"].info = Counted
              /\ \A o \in DOMAIN Symbols : Symbols[o].sect # "TEXT"
              /\ shoff = Starts[5]
            BY <1>1, <1>4 DEF Content, Exporting, Writing, Listing, WritePcs
        <2>2. ~FileOnly /\ ~FileOnly' /\ Listing' /\ \A label : ~Put(label) /\ ~Put(label)'
            BY <1>1 DEF FileOnly, Listing, Put, WritePcs
        <2>3. Number' = Number /\ Counted' = Counted
            <3>1. Rank(next - 1)' = Rank(next - 1)
                BY <1>1 DEF Rank, Defined, Exported
            <3> QED BY <2>2, <3>1 DEF Number, Counted
        <2>4. PICK n : n = Number /\ n = Number' /\ n \in Nat
            BY <1>1, <2>3, Numbers DEF ElfPcs, WritePcs
        <2>5. /\ StrData' = StrData /\ Kept("strtab")
              /\ buf'["shstrtab"].cnt = buf["shstrtab"].cnt /\ buf'["strtab"].cnt = buf["strtab"].cnt
            <3>1. buf'["strtab"] = buf["strtab"] /\ buf'["shstrtab"] = buf["shstrtab"]
                BY <1>2 DEF Buffers
            <3> QED BY <3>1 DEF StrData, Kept
        <2>6. ASSUME NEW k \in 0 .. (n - 1)
              PROVE  \E s, t :
                        /\ s = Sym(Symbols, k) /\ t = Sym(Symbols, k)' /\ Right(k, s)
                        /\ SymSize * k \in DOMAIN Symbols
                        /\ s \in SymType /\ t \in SymType /\ t.name = s.name /\ t.value = s.value
                        /\ t.sect = "TEXT" <=> InText(s.value, r)
            <3>1. SymSize * k \in DOMAIN Symbols /\ Right(k, Sym(Symbols, k))
                BY <2>1, <2>4 DEF Listed
            <3>2. PICK s : s = Sym(Symbols, k) /\ s = Symbols[SymSize * k] /\ s.sect # "TEXT"
                BY <2>1, <3>1 DEF Sym
            <3>3. PICK t : /\ t = Sym(Symbols, k)'
                           /\ t = IF InText(s.value, r) THEN [s EXCEPT !.sect = "TEXT"] ELSE s
                BY <1>2, <3>1, <3>2 DEF Sym
            <3>4. s \in SymType /\ Right(k, s)
                BY <3>1, <3>2 DEF Right
            <3>5. /\ t \in SymType /\ t.name = s.name /\ t.value = s.value
                  /\ t.sect = "TEXT" <=> InText(s.value, r)
                BY <3>2, <3>3, <3>4 DEF SymType
            <3> WITNESS s, t
            <3> QED BY <3>1, <3>2, <3>3, <3>4, <3>5
        <2>7. Listed'
            <3>1. ASSUME NEW k \in 0 .. (n - 1)
                  PROVE  SymSize * k \in DOMAIN Symbols' /\ Right(k, Sym(Symbols, k))'
                <4>1. PICK s, t :
                        /\ s = Sym(Symbols, k) /\ t = Sym(Symbols, k)' /\ Right(k, s)
                        /\ SymSize * k \in DOMAIN Symbols
                        /\ s \in SymType /\ t \in SymType /\ t.name = s.name /\ t.value = s.value
                    BY <2>6
                <4>2. Right(k, t)
                    BY <4>1 DEF Right
                <4>3. Right(k, t)'
                    BY <1>1, <2>5, <4>2, RightKept
                <4> QED BY <1>2, <4>1, <4>3 DEF Right
            <3> QED BY <1>2, <2>1, <2>4, <3>1 DEF Listed
        <2>8. Beginning'
            BY <1>1, <2>2 DEF Beginning, LoadPcs
        <2>9. Exporting'
            <3>1. next' = Last' + 1 /\ StrData'[0] = ""
                BY <1>1, <2>1, <2>5 DEF Last
            <3> QED BY <1>1, <2>2, <2>7, <3>1 DEF Exporting
        <2>10. ASSUME NEW k \in 0 .. (n - 1)
               PROVE  /\ NameOf(k)' = NameOf(k) /\ Sym(Symbols, k)'.value = Sym(Symbols, k).value
                      /\ Sym(Symbols, k).value \in Nat
                      /\ Sym(Symbols, k)'.sect = "TEXT" <=> InText(Sym(Symbols, k).value, r)
            <3>1. PICK s, t :
                    /\ s = Sym(Symbols, k) /\ t = Sym(Symbols, k)'
                    /\ s \in SymType /\ t \in SymType /\ t.name = s.name /\ t.value = s.value
                    /\ t.sect = "TEXT" <=> InText(s.value, r)
                BY <2>6
            <3>2. s.value \in Nat
                BY <3>1, NameAssumption DEF SymType
            <3>3. NameOf(k) = StrData[s.name] /\ NameOf(k)' = StrData'[t.name]
                BY <3>1 DEF NameOf, StrData
            <3> QED BY <2>5, <3>1, <3>2, <3>3
        <2>11. \A name : OneValue(name)' = OneValue(name)
            <3> TAKE name
            <3>1. Bearers(name)' = Bearers(name)
                BY <2>4, <2>10 DEF Bearers
            <3>2. PICK set : set = Bearers(name) /\ set = Bearers(name)' /\ set \subseteq 0 .. (n - 1)
                BY <2>4, <3>1 DEF Bearers
            <3>3. \A k \in set : Sym(Symbols, k)'.value = Sym(Symbols, k).value
                BY <2>10, <3>2
            <3> QED BY <3>2, <3>3 DEF OneValue
        <2>12. Placed'
            <3> SUFFICES ASSUME range[1] # range[2],
                                NEW begin \in OneValue(range[1]), NEW end \in OneValue(range[2])
                         PROVE  /\ shdrs'["text"].addr = begin
                                /\ shdrs'["text"].size = (end - begin) % Word
                                /\ \A k \in 0 .. (n - 1) :
                                      Sym(Symbols, k)'.sect = "TEXT" <=> Sym(Symbols, k)'.value \in begin .. end
                BY <1>1, <2>4, <2>11 DEF Placed
            <3>1. /\ begin \in Nat \ {0} /\ end \in Nat \ {0}
                  /\ Seen(range[1], n) /\ Seen(range[2], n)
                  /\ \A k \in 0 .. (n - 1) : /\ NameOf(k) = range[1] => Sym(Symbols, k).value = begin
                                             /\ NameOf(k) = range[2] => Sym(Symbols, k).value = end
                <4>1. /\ begin \in 1 .. (Word - 1) /\ Bearers(range[1]) # {}
                      /\ \A k \in Bearers(range[1]) : Sym(Symbols, k).value = begin
                      /\ end \in 1 .. (Word - 1) /\ Bearers(range[2]) # {}
                      /\ \A k \in Bearers(range[2]) : Sym(Symbols, k).value = end
                    BY DEF OneValue
                <4>2. \A name, k : k \in Bearers(name) <=> k \in 0 .. (n - 1) /\ NameOf(k) = name
                    BY <2>4 DEF Bearers
                <4>3. Seen(range[1], n) /\ Seen(range[2], n)
                    BY <4>1, <4>2 DEF Seen
                <4>4. begin \in Nat \ {0} /\ end \in Nat \ {0}
                    BY <4>1, NameAssumption
                <4> QED BY <4>1, <4>2, <4>3, <4>4
            <3>2. buf["symtab"].cnt \div SymSize = n
                <4>1. buf["symtab"].cnt = SymSize * n
                    BY <2>1, <2>4 DEF Listed
                <4>2. (SymSize * n) \div SymSize = n
                    BY <2>4, Entries
                <4> QED BY <4>1, <4>2
            <3>3. r.begin = begin /\ r.end = end
                BY <1>2, <2>4, <3>1, <3>2, ScanFacts
            <3>4. ASSUME NEW k \in 0 .. (n - 1)
                  PROVE  Sym(Symbols, k)'.sect = "TEXT" <=> Sym(Symbols, k)'.value \in begin .. end
                <4>1. PICK v : /\ v = Sym(Symbols, k)'.value /\ v \in Nat
                               /\ Sym(Symbols, k)'.sect = "TEXT" <=> InText(v, r)
                    BY <2>10
                <4>2. InText(v, r) <=> v \in begin .. end
                    BY <3>1, <3>3, <4>1 DEF InText
                <4> QED BY <4>1, <4>2
            <3> QED BY <1>2, <3>3, <3>4
        <2>13. Writing'
            <3>1. Starts' = Starts /\ Starts[1] = 0
                BY <1>2, <2>5 DEF Starts
            <3>2. outpos = 0
                BY <1>1 DEF Content, Final, ElfPcs, WritePcs
            <3>3. shdrs'["symtab"].info = Counted'
                BY <1>2, <2>1, <2>3 DEF Buffers
            <3>4. outpos' = Starts'[step'] /\ shoff' = Starts'[5]
                BY <1>1, <2>1, <3>1, <3>2
            <3>5. /\ ~(step' > 1) /\ ~(step' > 2) /\ ~(step' > 3) /\ ~(step' > 4) /\ ~(step' > 5)
                BY <1>1
            <3> QED BY <1>1, <2>12, <3>3, <3>4, <3>5 DEF Writing
        <2> QED BY <2>8, <2>9, <2>13
    <1> QED BY <1>1, <1>2, <1>3, <1>4 DEF Content

\* Every step.
LEMMA ContentNext == IInv /\ Content /\ [Next]_vars => Content'
    <1> SUFFICES ASSUME IInv, Content, [Next]_vars PROVE Content'
        OBVIOUS
    <1>1. CASE Load /\ UNCHANGED elfVars
        BY <1>1, LoadContent
    <1>2. CASE Export
        BY <1>2, InitBuffersContent, ExportFileNameContent, ExportNameContent, ExportSymbolContent,
           SkipContent, GrowContent, GrowFailsContent, CopyContent DEF Export
    <1>3. CASE Write
        BY <1>3, OpenContent, NoRangeContent, ResolveContent, WritePartContent, AllWrittenContent
           DEF Write
    <1>4. CASE ShowParts \/ ElfCleanup \/ FreeAll
        BY <1>4, EndContent
    <1>5. CASE UNCHANGED vars
        <2>1. /\ UNCHANGED <<tool, file, pc, step, range, put, idx, next, shdrs, shoff, out, outpos,
                             written, lost>>
              /\ buf' = buf
            BY <1>5 DEF vars, loadVars, elfVars
        <2> QED BY <2>1, SameContent
    <1> QED BY <1>1, <1>2, <1>3, <1>4, <1>5 DEF Next, Finished

\* What is in the buffers and in the output is right in every state.
THEOREM ContentIsRight == Spec => []Content
    BY Invariant, InitContent, ContentNext, PTL DEF Spec

\* An output fas2sym has succeeded with holds the tables where its headers say,
\* and in them the symbols of the input, in their order and under their names
\* (fas_export_symbols, elf_add_symbol, elf_compute_section_offsets, elf_write).
THEOREM OutputIsExact == Spec => []OutputExact
    <1>1. Content => OutputExact
        BY DEF Content, Final, Output, OutputExact
    <1> QED BY <1>1, ContentIsRight, PTL

\* The section .text that -t asks for is between the two symbols it names, and so
\* are its symbols, wherever the two are in the table (elf_resolve_symbols).
THEOREM TextIsRange == Spec => []TextRange
    <1>1. Content => TextRange
        BY DEF Content, Final, Output, TextRange
    <1> QED BY <1>1, ContentIsRight, PTL
=============================================================================
