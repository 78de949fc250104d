--------------------------- MODULE MCObjectTools ---------------------------
\* ObjectTools on small files; names long enough that the buffers grow twice.
EXTENDS ObjectTools

MC_Names == {"begin", "end", "other", "input"}
MC_NameLen == [n \in MC_Names |-> IF n = "other" THEN 40 ELSE 5]
MC_Ranges == {<<>>, <<"begin", "end">>, <<"other", "other">>}

Sy(name, place, value) ==
    [name |-> name, place |-> place, def |-> TRUE, asm |-> FALSE, value |-> value]

\* Labels at both ends and between, one beyond the words, one without a name,
\* one that is used but not defined, and one that is not a label.
MC_Symbols ==
    { Sy("begin", "psrc", 1), Sy("begin", "psrc", 2), Sy("end", "strtab", 2), Sy("other", "psrc", 9),
      Sy("other", "none", 3),
      [Sy("end", "psrc", 5) EXCEPT !.def = FALSE], [Sy("begin", "psrc", 5) EXCEPT !.asm = TRUE] }

Fas(symbols) ==
    [kind |-> "fas", short |-> {}, optional |-> "none", input |-> "input", symbols |-> symbols,
     empty |-> (IF symbols = <<>> THEN {"symtab"} ELSE {}) \cup {"sectab"}]

Coff(empty, optional) ==
    [Fas(<<>>) EXCEPT !.kind = "coff", !.empty = empty, !.optional = optional]

One == <<Sy("begin", "psrc", 1)>>

\* Whole files, some with tables of length 0 that are referred to, those cut off
\* in any part, and other kinds of files.
MC_Files ==
    {Fas(s) : s \in UNION {[1 .. n -> MC_Symbols] : n \in 0 .. 2}}
    \cup {Fas(<<Sy("end", "strtab", 2), a, b, Sy("begin", "psrc", 1)>>) :
             a \in MC_Symbols, b \in MC_Symbols}
    \cup {[Fas(One) EXCEPT !.empty = e] : e \in SUBSET {"sectab", "strtab", "psrc"}}
    \cup {[Fas(<<>>) EXCEPT !.empty = FasTables]}
    \cup {[Fas(One) EXCEPT !.short = s, !.empty = {}] : s \in SUBSET {"header", "strtab", "symtab", "psrc", "sectab"}}
    \cup {Coff(e, o) : e \in {{"symtab"}, {"symtab", "scnhdrs"}}, o \in {"none", "good", "bad"}}
    \cup {[Coff({"symtab"}, "good") EXCEPT !.short = s] : s \in SUBSET {"header", "optional", "scnhdrs"}}
    \cup {[Fas(<<>>) EXCEPT !.kind = "other"]}
=============================================================================
