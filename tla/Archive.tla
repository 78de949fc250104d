------------------------------ MODULE Archive ------------------------------
(***************************************************************************)
(* ranlib walks over the members of archives: main and ranlib of           *)
(* bin/ranlib/main.c on the reader of bin/ar/archive.c.                    *)
(*                                                                         *)
(* A file is what the reader can tell apart: where its headers are, what   *)
(* they say, and where the file ends.  The reader recognises a header by   *)
(* its last two bytes; no other bytes of a file look like them.            *)
(*                                                                         *)
(* A failed read has the next byte stored one too low.  Below the name of  *)
(* `entry' lies its size, and that is in the model; below the local arrays *)
(* for the magic and for a header lies what the compiler puts there, and   *)
(* that is not.                                                            *)
(***************************************************************************)
EXTENDS Integers, Sequences

CONSTANTS
    Archives,    \* the files ranlib may be given
    Args,        \* the lists of them on its command line
    MaxErrors,   \* how many reads fail in one run
    SARMAG,      \* bytes of the archive's magic, 8 in the program
    SAR_HDR,     \* bytes of a member's header, 60 in the program
    NameField,   \* bytes of a name in the header, 16 in the program
    NameMax      \* bytes of entry.name, 255 in the program

Headers == UNION {{f.members[i] : i \in DOMAIN f.members} : f \in Archives}

\* The size field counts the extended name, which comes before the contents.
ArSize(m) == m.size + (IF m.ext THEN m.len ELSE 0)

Even(n) == n + (n % 2)

\* Where the file with all of its members ends.
EndOf(f) == f.start[Len(f.members) + 1]

ASSUME SizeAssumption ==
    /\ SARMAG \in Nat \ {0} /\ SAR_HDR \in Nat
    /\ NameField \in Nat /\ NameMax \in Nat /\ NameField < NameMax
    /\ MaxErrors \in Nat /\ MaxErrors < SAR_HDR

ASSUME ArchiveAssumption ==
    /\ Args \subseteq Seq(Archives)
    /\ \A f \in Archives :
           /\ f.magic \in BOOLEAN /\ f.length \in Nat
           /\ f.members \in Seq([name : STRING, len : Nat, ext : BOOLEAN, size : Nat])
           \* Names fit entry.name with the 0 behind them: nothing checks it.
           /\ \A i \in 1 .. Len(f.members) : f.members[i].ext => f.members[i].len < NameMax
           \* The members lie one behind the other, each at an even offset.
           /\ f.start \in [1 .. (Len(f.members) + 1) -> Nat]
           /\ f.start[1] = SARMAG /\ f.length <= EndOf(f)
           /\ \A i \in 1 .. Len(f.members) :
                 f.start[i + 1] = f.start[i] + SAR_HDR + Even(ArSize(f.members[i]))
           /\ \A i, j \in 1 .. (Len(f.members) + 1) : i < j => f.start[i] + SAR_HDR <= f.start[j]

VARIABLES
    argv,      \* the archives still to do, the present one first
    pc,
    fds,       \* the open descriptors
    pos,       \* the offset of the archive's descriptor
    from,      \* where the present read_data began
    size,      \* its size argument
    total,     \* its count
    ret,       \* where it returns to
    errors,    \* reads that have failed
    hdr,       \* what the header in `entry' says
    offset,    \* entry.offset, where the read of the header began
    exact,     \* entry.name is the name, with nothing else behind it
    tail,      \* entry.name[NameField] is not 0
    damage,    \* entry.size was written over: "size" until it is used, then "walk"
    reported   \* the names printed for the present archive

vars == <<argv, pc, fds, pos, from, size, total, ret, errors, hdr, offset, exact, tail,
          damage, reported>>
reading == <<from, size, total, ret>>
entry == <<hdr, offset, exact, tail, damage>>

file == argv[1]
NoHeader == [name |-> "", len |-> 0, ext |-> FALSE, size |-> 0]

\* What may be printed for a member.
Printed == {m.name : m \in Headers} \cup {"garbled"}

-----------------------------------------------------------------------------
Init ==
    /\ argv \in Args
    /\ pc = "open"
    /\ fds = {} /\ pos = 0
    /\ from = 0 /\ size = 0 /\ total = 0 /\ ret = "open" /\ errors = 0
    /\ hdr = NoHeader /\ offset = 0 /\ exact = FALSE /\ tail = FALSE /\ damage = "none"
    /\ reported = <<>>

\* Call read_data for n bytes at offset p, and go on at `label'.
ReadData(n, p, label) ==
    /\ from' = p /\ size' = n /\ total' = 0 /\ ret' = label
    /\ pc' = "read"

\* read gives some of what is asked for; with a count below 0 in a name, what
\* comes first goes into the bytes of entry.size, its highest first of all ...
ReadSome ==
    /\ pc = "read"
    /\ \E k \in 1 .. (size - total) :
          /\ pos + k <= file.length
          /\ pos' = pos + k /\ total' = total + k
    /\ pc' = IF total' >= size THEN ret ELSE "read"
    /\ damage' = IF ret = "name" /\ total < 0 THEN "size" ELSE damage
    /\ UNCHANGED <<argv, fds, from, size, ret, errors, hdr, offset, exact, tail, reported>>

\* ... or nothing ...
ReadNothing ==
    /\ pc = "read" /\ (size = total \/ pos >= file.length)
    /\ pc' = ret
    /\ UNCHANGED <<argv, fds, pos, reading, errors, entry, reported>>

\* ... or -1, which is added to the count like any other answer: what comes
\* next is stored one byte too low.
ReadError ==
    /\ pc = "read" /\ errors < MaxErrors
    /\ total' = total - 1 /\ errors' = errors + 1
    /\ UNCHANGED <<argv, pc, fds, pos, from, size, ret, entry, reported>>

\* Fault: one argument too many is taken.
Open_OneMore ==
    /\ pc = "open"
    /\ fds' = fds \cup {"archive"} /\ pos' = 0
    /\ ReadData(SARMAG, 0, "magic")
    /\ tail' \in BOOLEAN /\ damage' = "none" /\ reported' = <<>>
    /\ UNCHANGED <<argv, errors, hdr, offset, exact>>

\* archive_open; the name buffer of `entry' is not initialised.
Open ==
    /\ pc = "open" /\ argv # <<>>
    /\ fds' = fds \cup {"archive"} /\ pos' = 0
    /\ ReadData(SARMAG, 0, "magic")
    /\ tail' \in BOOLEAN /\ damage' = "none" /\ reported' = <<>>
    /\ UNCHANGED <<argv, errors, hdr, offset, exact>>

\* ranlib returns and main turns to the next archive, whatever the answer.
Return ==
    /\ argv' = Tail(argv) /\ pc' = "open"
    /\ UNCHANGED <<pos, reading, errors, entry, reported>>

OpenFails ==
    /\ pc = "open" /\ argv # <<>>
    /\ Return
    /\ UNCHANGED fds

\* The bytes read are those from `from' on.
InPlace == total = size /\ pos = from + size

GoodMagic ==
    /\ pc = "magic" /\ InPlace /\ file.magic
    /\ pc' = "temp"
    /\ UNCHANGED <<argv, fds, pos, reading, errors, entry, reported>>

\* Fault: the descriptor is not closed.
BadMagic_LeftOpen ==
    /\ pc = "magic" /\ ~(InPlace /\ file.magic)
    /\ Return
    /\ UNCHANGED fds

BadMagic ==
    /\ pc = "magic" /\ ~(InPlace /\ file.magic)
    /\ Return
    /\ fds' = fds \ {"archive"}

Temp ==
    /\ pc = "temp"
    /\ fds' = fds \cup {"temp"} /\ pc' = "header"
    /\ UNCHANGED <<argv, pos, reading, errors, entry, reported>>

TempFails ==
    /\ pc = "temp"
    /\ Return
    /\ fds' = fds \ {"archive"}

\* archive_get_entry_hdr
GetHeader ==
    /\ pc = "header"
    /\ offset' = pos
    /\ ReadData(SAR_HDR, pos, "parse")
    /\ UNCHANGED <<argv, fds, pos, errors, hdr, exact, tail, damage, reported>>

\* Fault: ar_fmag is not looked at.
Recognised_AnyBytes == total = SAR_HDR

\* The last two bytes read are the last two of some header.
Recognised ==
    /\ total = SAR_HDR
    /\ \E i \in 1 .. Len(file.members) : pos = file.start[i] + SAR_HDR

\* What the header says: anything when its bytes are not in their place.
Saying ==
    {m \in Headers : pos = from + SAR_HDR =>
        \E i \in 1 .. Len(file.members) : from = file.start[i] /\ m = file.members[i]}

\* A name in the header: cut off at its spaces, but when it fills the field
\* the string goes on with what was in the buffer before.
Plain ==
    /\ pc = "parse" /\ Recognised
    /\ \E m \in Saying :
          /\ ~m.ext
          /\ hdr' = m
          /\ exact' = (m.len = NameField => ~tail)
    /\ pc' = "report"
    /\ UNCHANGED <<argv, fds, pos, reading, errors, offset, tail, damage, reported>>

\* A name behind the header.
Extended ==
    /\ pc = "parse" /\ Recognised
    /\ \E m \in Saying : m.ext /\ hdr' = m /\ ReadData(m.len, pos, "name")
    /\ UNCHANGED <<argv, fds, pos, errors, offset, exact, tail, damage, reported>>

\* It is closed with a 0; how much of it was read is not looked at.
ExtendedName ==
    /\ pc = "name"
    /\ exact' = InPlace
    /\ \/ hdr.len > NameField /\ tail' \in {t \in BOOLEAN : exact' => t}
       \/ hdr.len = NameField /\ tail' = FALSE
       \/ hdr.len < NameField /\ tail' = tail
    /\ pc' = "report"
    /\ UNCHANGED <<argv, fds, pos, reading, errors, hdr, offset, damage, reported>>

\* Fault: the byte that makes a member even is not skipped.
Skipped_Unpadded(n) == n

\* archive_skip_entry: what is left of the member, and the padding.
Skipped(n) == n + (n % 2)

\* Where lseek leaves the descriptor.  By a size that was written over it fails,
\* or goes anywhere, behind the end of the file too.
Landing ==
    {pos + Skipped(hdr.size)} \cup
        (IF damage = "size" THEN {pos} \cup 0 .. (EndOf(file) + 1) ELSE {})

\* Print the name, and go to the next header.
Report ==
    /\ pc = "report"
    /\ reported' = Append(reported, IF exact THEN hdr.name ELSE "garbled")
    /\ pos' \in Landing
    /\ damage' = IF damage = "size" THEN "walk" ELSE damage
    /\ pc' = "header"
    /\ UNCHANGED <<argv, fds, reading, errors, hdr, offset, exact, tail>>

\* Fault: only a negative answer ends the loop.
EndOfMembers_NotAtEof ==
    /\ pc = "parse" /\ ~Recognised
    /\ pc' = IF total = 0 THEN "header" ELSE "close"
    /\ UNCHANGED <<argv, fds, pos, reading, errors, entry, reported>>

\* The end of the file, a header cut short, or one that is not recognised.
EndOfMembers ==
    /\ pc = "parse" /\ ~Recognised
    /\ pc' = "close"
    /\ UNCHANGED <<argv, fds, pos, reading, errors, entry, reported>>

Close ==
    /\ pc = "close"
    /\ Return
    /\ fds' = fds \ {"archive", "temp"}

\* main has no more arguments.
Exit ==
    /\ pc = "open" /\ argv = <<>>
    /\ pc' = "exit"
    /\ UNCHANGED <<argv, fds, pos, reading, errors, entry, reported>>

Finished == pc = "exit" /\ UNCHANGED vars

Walk ==
    \/ Open \/ OpenFails \/ GoodMagic \/ BadMagic \/ Temp \/ TempFails
    \/ ReadSome \/ ReadNothing \/ ReadError
    \/ GetHeader \/ Plain \/ Extended \/ ExtendedName \/ Report \/ EndOfMembers
    \/ Close \/ Exit

Next == Walk \/ Finished

\* The program goes on, and the system answers its calls.
Spec == Init /\ [][Next]_vars /\ WF_vars(Walk)

-----------------------------------------------------------------------------
\* Every variable has its type; a count falls below 0 only by failed reads.
TypeOK ==
    /\ argv \in Seq(Archives)
    /\ pc \in {"open", "read", "magic", "temp", "header", "parse", "name", "report", "close", "exit"}
    /\ pc \notin {"open", "exit"} => argv # <<>>
    /\ fds \subseteq {"archive", "temp"}
    /\ pos \in Nat /\ from \in Nat /\ size \in Nat /\ offset \in Nat
    /\ total \in Int /\ total + errors >= 0 /\ total <= size
    /\ ret \in {"open", "magic", "parse", "name"}
    /\ errors \in 0 .. MaxErrors
    /\ hdr \in Headers \cup {NoHeader}
    /\ exact \in BOOLEAN /\ tail \in BOOLEAN /\ damage \in {"none", "size", "walk"}
    /\ reported \in Seq(Printed)

\* archive_skip_entry makes even what is left of a member behind its extended
\* name, not the member: behind a name of odd length the walk is off by one.
OddName == \E i \in DOMAIN file.members : file.members[i].ext /\ file.members[i].len % 2 = 1

\* Neither that, nor a size written over by a failed read of a name.
OnTrack == ~OddName /\ damage = "none"

\* A header is accepted only where a member begins, and says what that member's
\* header says, whatever reads failed or were short, in the headers or in the
\* names, and wherever the file was cut off: until one fails before any byte of
\* an extended name, and the bytes that follow it take the place of the size.
HeaderTrue ==
    pc \in {"name", "report"} /\ OnTrack =>
        \E i \in 1 .. Len(file.members) : offset = file.start[i] /\ hdr = file.members[i]

\* The i-th name printed is the i-th member's, or a name that fills its field
\* behind a longer one, or a name of which some bytes could not be read; and at
\* the end of a whole archive without a failed read, all have been printed.
MembersReported ==
    pc \notin {"open", "exit"} /\ OnTrack =>
        /\ Len(reported) <= Len(file.members)
        /\ \A i \in DOMAIN reported :
              LET m == file.members[i]
              IN  \/ reported[i] = m.name
                  \/ ~m.ext /\ m.len = NameField
                  \/ m.ext /\ (errors > 0 \/ file.length < EndOf(file))
        /\ pc = "close" /\ errors = 0 /\ file.length = EndOf(file) =>
              Len(reported) = Len(file.members)

\* Between two archives and at the end no descriptor is open, whichever call
\* failed.
NothingOpen == pc \in {"open", "exit"} => fds = {}

\* Every archive's walk ends: failing reads, which move the count backwards,
\* and what they leave in the buffers and in the size by which the walk goes on
\* never make it go round in circles.
WalkEnds == <>(pc = "exit")
=============================================================================
