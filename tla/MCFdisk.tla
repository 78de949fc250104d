------------------------------ MODULE MCFdisk ------------------------------
\* Fdisk with a buffer of four characters and commands of two words.
EXTENDS Fdisk, FiniteSetsExt

\* Lines that fill the buffer once, twice and almost; of blanks and of nothing.
MC_Lines ==
    {[words |-> <<c>>, len |-> n, newline |-> TRUE] : c \in {"help", "mklabel", "bogus"}, n \in {2, 3, 6}}
    \cup {[words |-> <<"help", "quit", "set">>, len |-> 5, newline |-> TRUE],
          [words |-> <<"print">>, len |-> 4, newline |-> TRUE],
          [words |-> <<"quit">>, len |-> 3, newline |-> TRUE],
          [words |-> <<>>, len |-> 2, newline |-> TRUE],
          [words |-> <<>>, len |-> 0, newline |-> TRUE]}

\* The last line without its newline.
Cut(lines) ==
    IF lines # <<>> /\ lines[Len(lines)].len > 0
      THEN [lines EXCEPT ![Len(lines)].newline = FALSE] ELSE lines

Whole == UNION {[1 .. n -> MC_Lines] : n \in 0 .. 3}
MC_Inputs == Whole \cup {Cut(lines) : lines \in {w \in Whole : Len(w) <= 2}}
=============================================================================
