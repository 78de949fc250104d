----------------------------- MODULE MCArchive -----------------------------
\* Archive with a magic of two bytes, headers of four and name fields of two.
EXTENDS Archive, FiniteSetsExt

\* Names shorter than the field, of its length, and longer ones behind the header.
MC_Members ==
    {[name |-> "a", len |-> 1, ext |-> FALSE, size |-> s] : s \in 0 .. 1}
    \cup {[name |-> "bb", len |-> 2, ext |-> FALSE, size |-> 1]}
    \cup {[name |-> "cc", len |-> 2, ext |-> TRUE, size |-> s] : s \in 0 .. 1}
    \cup {[name |-> "ddd", len |-> 3, ext |-> TRUE, size |-> 0]}
    \cup {[name |-> "eeee", len |-> 4, ext |-> TRUE, size |-> 1]}

StartOf(members, i) ==
    SARMAG + MapThenSumSet(LAMBDA j : SAR_HDR + Even(ArSize(members[j])), 1 .. (i - 1))

File(members, cut) ==
    LET start == [i \in 1 .. (Len(members) + 1) |-> StartOf(members, i)]
        end   == start[Len(members) + 1]
    IN  [magic |-> TRUE, members |-> members, start |-> start,
         length |-> IF cut < end THEN end - cut ELSE 0]

\* Whole archives of up to three members, and shorter ones cut off anywhere.
MC_Archives ==
    {File(s, 0) : s \in UNION {[1 .. n -> MC_Members] : n \in 0 .. 2}}
    \cup {File(<<[name |-> "eeee", len |-> 4, ext |-> TRUE, size |-> 1]>> \o s, 0) :
             s \in [1 .. 2 -> {m \in MC_Members : m.len = NameField}]}
    \cup {File(s, cut) : s \in [1 .. 1 -> MC_Members], cut \in 1 .. 10}
    \cup {[File(<<>>, 0) EXCEPT !.magic = FALSE]}

\* One archive alone, and after one whose buffer or descriptors may be left.
MC_Args ==
    {<<f>> : f \in MC_Archives}
    \cup {<<File(s, 0), g>> : s \in [1 .. 1 -> MC_Members],
                              g \in {File(t, 0) : t \in [1 .. 1 -> MC_Members]}}
=============================================================================
