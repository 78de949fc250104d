--------------------------- MODULE ArchiveProofs ---------------------------
(***************************************************************************)
(* The invariants of Archive for archives of any number of members of any  *)
(* sizes, with names that fit the entry, and any number of failing reads   *)
(* below the size of a header.                                             *)
(*                                                                         *)
(* A failed read makes the reader consume a byte more than it counts, so   *)
(* that it drifts away from where the members begin: never by more than    *)
(* the errors so far, which is too little to take one header for another.  *)
(* This ends with a failed read before any byte of an extended name: the   *)
(* bytes that follow it take the place of the entry's size, by which the   *)
(* walk goes on, and of such a walk only types, descriptors and what       *)
(* read_data counts are claimed.                                           *)
(***************************************************************************)
EXTENDS Archive, SequenceTheorems, TLAPS

\* The number of the member whose header comes next.
Here == Len(reported) + 1
Count == Len(file.members)

\* The whole archive is there, and nothing has failed.
Perfect == errors = 0 /\ file.length = EndOf(file)

Extra(m) == IF m.ext THEN m.len ELSE 0

In(label) == pc = label \/ (pc = "read" /\ ret = label)

FdsOK ==
    /\ pc \in {"open", "exit"} => fds = {}
    /\ In("magic") \/ pc = "temp" => fds \subseteq {"archive"}

\* What a read has consumed is what it counts and the errors in it.
ReadOK ==
    /\ pc = "read" => ret # "open"
    /\ In("magic") \/ In("parse") \/ In("name") =>
          /\ pos - total - from \in 0 .. errors
          /\ from >= file.length => pos = from
    /\ pc \in {"magic", "parse", "name"} => total = size \/ pos >= file.length

MagicOK ==
    /\ In("magic") => from = 0 /\ size = SARMAG /\ reported = <<>>
    /\ pc = "temp" => pos = SARMAG /\ reported = <<>>

HeaderOK ==
    pc = "header" /\ OnTrack =>
        /\ pos >= file.length \/ (Here <= Count /\ pos - file.start[Here] \in 0 .. errors)
        /\ Perfect => pos = file.start[Here]

ParseOK ==
    In("parse") =>
        /\ size = SAR_HDR /\ offset = from
        /\ OnTrack =>
              /\ \/ from >= file.length
                 \/ /\ Here <= Count /\ from >= file.start[Here]
                    /\ pos - total - file.start[Here] \in 0 .. errors
              /\ Perfect => from = file.start[Here]

\* The header in `entry' is the one of that member.
EntryOK ==
    Here <= Count /\ hdr = file.members[Here] /\ offset = file.start[Here]

NameOK ==
    In("name") =>
        /\ size = hdr.len /\ hdr \in Headers
        /\ OnTrack => EntryOK /\ hdr.ext /\ from = file.start[Here] + SAR_HDR

KnownOK == pc = "report" => hdr \in Headers

ReportOK ==
    pc = "report" /\ OnTrack =>
        /\ EntryOK
        /\ \/ pos >= file.length
           \/ pos - (file.start[Here] + SAR_HDR + Extra(hdr)) \in 0 .. errors
        /\ Perfect => pos = file.start[Here] + SAR_HDR + Extra(hdr)
        /\ \/ exact
           \/ ~hdr.ext /\ hdr.len = NameField
           \/ hdr.ext /\ ~Perfect

NamesOK ==
    pc \notin {"open", "exit"} /\ OnTrack =>
        /\ Len(reported) <= Count
        /\ \A i \in DOMAIN reported :
              \/ reported[i] = file.members[i].name
              \/ ~file.members[i].ext /\ file.members[i].len = NameField
              \/ file.members[i].ext /\ ~Perfect

CloseOK == pc = "close" /\ OnTrack /\ Perfect => Len(reported) = Count

IInv ==
    /\ TypeOK /\ FdsOK /\ ReadOK /\ MagicOK /\ HeaderOK /\ ParseOK /\ NameOK
    /\ KnownOK /\ ReportOK /\ NamesOK /\ CloseOK

-----------------------------------------------------------------------------
Member == [name : STRING, len : Nat, ext : BOOLEAN, size : Nat]

\* What is known of an archive.
LEMMA FileFacts ==
    ASSUME NEW f \in Archives
    PROVE  /\ f.length \in Nat /\ f.length <= EndOf(f)
           /\ Len(f.members) \in Nat /\ DOMAIN f.members = 1 .. Len(f.members)
           /\ \A i \in 1 .. Len(f.members) : f.members[i] \in Member /\ f.members[i] \in Headers
           /\ \A i \in 1 .. (Len(f.members) + 1) : f.start[i] \in Nat
           /\ f.start[1] = SARMAG
           /\ \A i \in 1 .. Len(f.members) :
                 f.start[i + 1] = f.start[i] + SAR_HDR + Even(ArSize(f.members[i]))
           /\ \A i, j \in 1 .. (Len(f.members) + 1) : i < j => f.start[i] + SAR_HDR <= f.start[j]
    <1>1. /\ f.length \in Nat /\ f.length <= EndOf(f) /\ f.start[1] = SARMAG
          /\ f.members \in Seq(Member)
          /\ f.start \in [1 .. (Len(f.members) + 1) -> Nat]
          /\ \A i \in 1 .. Len(f.members) :
                f.start[i + 1] = f.start[i] + SAR_HDR + Even(ArSize(f.members[i]))
          /\ \A i, j \in 1 .. (Len(f.members) + 1) : i < j => f.start[i] + SAR_HDR <= f.start[j]
        BY ArchiveAssumption DEF Member
    <1>2. Len(f.members) \in Nat /\ DOMAIN f.members = 1 .. Len(f.members)
        BY <1>1
    <1>3. ASSUME NEW i \in 1 .. Len(f.members)
          PROVE  f.members[i] \in Member /\ f.members[i] \in Headers
        BY <1>1, <1>2, <1>3, ElementOfSeq DEF Headers
    <1>4. \A i \in 1 .. (Len(f.members) + 1) : f.start[i] \in Nat
        BY <1>1
    <1> QED BY <1>1, <1>2, <1>3, <1>4

\* What is known of a header.
LEMMA HeaderType ==
    \A m \in Headers \cup {NoHeader} : m.len \in Nat /\ m.ext \in BOOLEAN /\ m.size \in Nat
    <1>1. NoHeader.len \in Nat /\ NoHeader.ext \in BOOLEAN /\ NoHeader.size \in Nat
        BY DEF NoHeader
    <1>2. ASSUME NEW m \in Headers PROVE m \in Member
        <2>1. PICK f \in Archives : \E i \in DOMAIN f.members : m = f.members[i]
            BY <1>2 DEF Headers
        <2> QED BY <2>1, FileFacts
    <1> QED BY <1>1, <1>2 DEF Member

\* Padding what is left behind an extended name of even length pads the member.
LEMMA EvenSum ==
    ASSUME NEW a \in Nat, NEW b \in Nat, b % 2 = 0
    PROVE  Even(a + b) = Skipped(a) + b
    BY DEF Even, Skipped

\* The file, and what depends on nothing else.
LEMMA SameFile ==
    ASSUME UNCHANGED argv
    PROVE  /\ file' = file /\ Count' = Count
           /\ (UNCHANGED damage => OnTrack' = OnTrack)
           /\ (UNCHANGED errors => Perfect' = Perfect)
    BY DEF file, OddName, OnTrack, Count, Perfect

\* What an archive is being read means.
LEMMA OpenFacts ==
    ASSUME TypeOK, pc \notin {"open", "exit"}
    PROVE  /\ file \in Archives /\ Count \in Nat /\ Len(reported) \in Nat
           /\ Here \in Nat \ {0} /\ file.length \in Nat
           /\ Here <= Count + 1 => file.start[Here] \in Nat
           /\ hdr.len \in Nat /\ hdr.ext \in BOOLEAN /\ hdr.size \in Nat
    <1>1. argv # <<>> /\ argv \in Seq(Archives)
        BY DEF TypeOK
    <1>2. file \in Archives
        BY <1>1 DEF file
    <1>3. Len(reported) \in Nat
        BY DEF TypeOK
    <1> QED BY <1>2, <1>3, FileFacts, HeaderType DEF Here, Count, TypeOK

\* Nothing is open, read or printed yet.
LEMMA InitInv == Init => IInv
    <1> SUFFICES ASSUME Init PROVE IInv
        OBVIOUS
    <1>1. Len(reported) = 0 /\ reported \in Seq(Printed)
        BY DEF Init
    <1>2. argv \in Seq(Archives)
        BY ArchiveAssumption DEF Init
    <1>3. TypeOK
        <2>1. /\ pos \in Nat /\ from \in Nat /\ size \in Nat /\ offset \in Nat
              /\ total \in Int /\ total + errors >= 0 /\ total <= size /\ errors \in 0 .. MaxErrors
            BY SizeAssumption DEF Init
        <2>2. hdr \in Headers \cup {NoHeader}
            BY DEF Init
        <2>3. exact \in BOOLEAN /\ tail \in BOOLEAN /\ damage = "none"
            BY DEF Init
        <2>4. fds \subseteq {"archive", "temp"} /\ pc = "open" /\ ret = "open"
            BY DEF Init
        <2> QED BY <1>1, <1>2, <2>1, <2>2, <2>3, <2>4 DEF TypeOK
    <1>4. FdsOK /\ ReadOK /\ MagicOK /\ HeaderOK /\ ParseOK /\ NameOK /\ KnownOK /\ ReportOK
            /\ NamesOK /\ CloseOK
        BY DEF Init, In, FdsOK, ReadOK, MagicOK, HeaderOK, ParseOK, NameOK, KnownOK, ReportOK,
               NamesOK, CloseOK
    <1> QED BY <1>3, <1>4 DEF IInv

-----------------------------------------------------------------------------
\* A distance of at most the errors grows by no more than the errors.
LEMMA Drift ==
    ASSUME NEW p \in Int, NEW q \in Int, NEW t \in Int, NEW u \in Int, NEW base \in Int,
           NEW e \in Nat, NEW g \in Nat, e <= g, q - u - (p - t) = g - e,
           p - t - base \in 0 .. e
    PROVE  q - u - base \in 0 .. g
    OBVIOUS

\* A step of read_data: the distance between what is consumed and what is
\* counted grows by the errors, and nothing is read behind the end.
LEMMA ReadStep ==
    ASSUME IInv, pc = "read", pc' \in {"read", ret},
           UNCHANGED <<argv, fds, from, size, ret, hdr, offset, exact, tail, reported>>,
           damage' \in {damage, "size"},
           pos' \in Nat, total' \in Int, errors' \in 0 .. MaxErrors, errors <= errors',
           total' + errors' >= 0, total' <= size,
           pos' - total' - (pos - total) = errors' - errors,
           from >= file.length => pos' = pos,
           pc' = ret => total' = size \/ pos' >= file.length
    PROVE  IInv'
    <1>0. /\ TypeOK /\ FdsOK /\ ReadOK /\ MagicOK /\ ParseOK /\ NameOK /\ NamesOK
          /\ ret \in {"magic", "parse", "name"}
        BY DEF IInv, ReadOK, TypeOK
    <1>1. \A l \in {"magic", "parse", "name"} : In(l)' => In(l)
        BY <1>0 DEF In
    <1>2. pc' \notin {"temp", "open", "exit", "header", "report", "close"}
        BY <1>0
    <1>3. /\ file' = file /\ Count' = Count
          /\ (OnTrack' => OnTrack)
        <2>1. damage' = "none" => damage' = damage
            OBVIOUS
        <2> QED BY <2>1, SameFile DEF OnTrack, OddName, file
    <1>4. Perfect' => Perfect
        BY <1>0, <1>3 DEF Perfect, TypeOK
    <1>5. TypeOK'
        BY <1>0 DEF TypeOK
    <1>6. FdsOK'
        BY <1>0, <1>1, <1>2 DEF FdsOK
    <1>7. /\ pos \in Nat /\ total \in Int /\ from \in Nat /\ errors \in Nat /\ errors' \in Nat
          /\ (Here <= Count => file.start[Here] \in Nat)
        <2>1. Here \in Nat /\ Count \in Nat /\ (Here <= Count + 1 => file.start[Here] \in Nat)
            BY <1>0, OpenFacts
        <2> QED BY <1>0, <2>1 DEF TypeOK
    <1>8. ReadOK'
        <2>1. In("magic") \/ In("parse") \/ In("name")
            BY <1>0 DEF In
        <2>2. pos' - total' - from \in 0 .. errors'
            <3>1. pos - total - from \in 0 .. errors
                BY <1>0, <2>1 DEF ReadOK
            <3> QED BY <1>7, <3>1, Drift
        <2>3. from >= file.length => pos' = from
            BY <1>0, <2>1 DEF ReadOK
        <2>4. pc' \in {"magic", "parse", "name"} => pc' = ret
            BY <1>0
        <2> QED BY <1>0, <1>3, <2>2, <2>3, <2>4 DEF ReadOK
    <1>9. MagicOK'
        BY <1>0, <1>1, <1>2 DEF MagicOK
    <1>10. ParseOK'
        <2> SUFFICES ASSUME In("parse")'
                     PROVE  /\ size = SAR_HDR /\ offset = from
                            /\ OnTrack =>
                                  /\ \/ from >= file.length
                                     \/ /\ Here <= Count /\ from >= file.start[Here]
                                        /\ pos' - total' - file.start[Here] \in 0 .. errors'
                                  /\ Perfect => from = file.start[Here]
            BY <1>3, <1>4 DEF ParseOK, Here
        <2>1. In("parse")
            BY <1>1
        <2>2. ASSUME Here <= Count, pos - total - file.start[Here] \in 0 .. errors
              PROVE  pos' - total' - file.start[Here] \in 0 .. errors'
            BY <1>7, <2>2
        <2> QED BY <1>0, <2>1, <2>2 DEF ParseOK
    <1>11. NameOK'
        BY <1>0, <1>1, <1>3 DEF NameOK, EntryOK, Here
    <1>12. HeaderOK' /\ KnownOK' /\ ReportOK' /\ CloseOK'
        BY <1>2 DEF HeaderOK, KnownOK, ReportOK, CloseOK
    <1>13. NamesOK'
        BY <1>0, <1>3, <1>4 DEF NamesOK
    <1> QED BY <1>5, <1>6, <1>8, <1>9, <1>10, <1>11, <1>12, <1>13 DEF IInv

\* Part of what is asked for.
LEMMA ReadSomeInv == IInv /\ ReadSome => IInv'
    <1> SUFFICES ASSUME IInv, ReadSome PROVE IInv'
        OBVIOUS
    <1>1. TypeOK /\ ReadOK /\ pc = "read" /\ ret \in {"magic", "parse", "name"}
        BY DEF IInv, ReadSome, ReadOK, TypeOK
    <1>2. PICK k \in 1 .. (size - total) :
              pos + k <= file.length /\ pos' = pos + k /\ total' = total + k
        BY DEF ReadSome
    <1>3. file.length \in Nat
        BY <1>1, OpenFacts
    <1>4. from >= file.length => pos = from
        BY <1>1 DEF ReadOK, In
    <1>5. ~(from >= file.length)
        BY <1>1, <1>2, <1>3, <1>4 DEF TypeOK
    <1>6. /\ pos' \in Nat /\ total' \in Int /\ total' <= size /\ total' + errors >= 0
          /\ pos' - total' - (pos - total) = 0
        BY <1>1, <1>2 DEF TypeOK
    <1>7. pc' \in {"read", ret} /\ (pc' = ret => total' >= size)
        BY <1>1 DEF ReadSome
    <1>8. /\ UNCHANGED <<argv, fds, from, size, ret, errors, hdr, offset, exact, tail, reported>>
          /\ damage' \in {damage, "size"}
        BY DEF ReadSome
    <1>9. errors \in 0 .. MaxErrors /\ size \in Nat /\ errors - errors = 0 /\ errors <= errors
        BY <1>1 DEF TypeOK
    <1>10. pc' = ret => total' = size
        BY <1>6, <1>7, <1>9
    <1> QED BY <1>1, <1>5, <1>6, <1>7, <1>8, <1>9, <1>10, ReadStep

\* The end of the file, or nothing asked for.
LEMMA ReadNothingInv == IInv /\ ReadNothing => IInv'
    <1> SUFFICES ASSUME IInv, ReadNothing PROVE IInv'
        OBVIOUS
    <1>1. TypeOK /\ pc = "read"
        BY DEF IInv, ReadNothing
    <1>2. /\ size = total \/ pos >= file.length
          /\ pc' = ret /\ UNCHANGED <<argv, fds, pos, from, size, total, ret, errors,
                                  hdr, offset, exact, tail, damage, reported>>
        BY DEF ReadNothing, reading, entry
    <1>3. /\ pos' \in Nat /\ total' \in Int /\ errors' \in 0 .. MaxErrors /\ errors <= errors'
          /\ total' + errors' >= 0 /\ total' <= size
          /\ pos' - total' - (pos - total) = errors' - errors
        BY <1>1, <1>2 DEF TypeOK
    <1> QED BY <1>1, <1>2, <1>3, ReadStep

\* A byte that is not counted.
LEMMA ReadErrorInv == IInv /\ ReadError => IInv'
    <1> SUFFICES ASSUME IInv, ReadError PROVE IInv'
        OBVIOUS
    <1>1. TypeOK /\ ReadOK /\ pc = "read" /\ MaxErrors \in Nat
        BY SizeAssumption DEF IInv, ReadError
    <1>2. /\ errors < MaxErrors /\ total' = total - 1 /\ errors' = errors + 1
          /\ UNCHANGED <<argv, pc, fds, pos, from, size, ret, hdr, offset, exact, tail,
                        damage, reported>>
        BY DEF ReadError, entry
    <1>3. /\ pos' \in Nat /\ total' \in Int /\ errors' \in 0 .. MaxErrors /\ errors <= errors'
          /\ total' + errors' >= 0 /\ total' <= size
          /\ pos' - total' - (pos - total) = errors' - errors
        BY <1>1, <1>2 DEF TypeOK
    <1>4. ret # "read"
        BY <1>1 DEF TypeOK
    <1> QED BY <1>1, <1>2, <1>3, <1>4, ReadStep

-----------------------------------------------------------------------------
\* Back in main, nothing is claimed but that nothing is open.
LEMMA ReturnInv ==
    ASSUME IInv, pc \notin {"open", "exit"}, Return, fds' = {}
    PROVE  IInv'
    <1>0. TypeOK
        BY DEF IInv
    <1>1. argv' = Tail(argv) /\ pc' = "open"
          /\ UNCHANGED <<pos, from, size, total, ret, errors, hdr, offset, exact, tail, damage, reported>>
        BY DEF Return, reading, entry
    <1>2. Tail(argv) \in Seq(Archives)
        BY <1>0 DEF TypeOK
    <1>3. TypeOK'
        BY <1>0, <1>1, <1>2 DEF TypeOK
    <1>4. FdsOK' /\ ReadOK' /\ MagicOK' /\ HeaderOK' /\ ParseOK' /\ NameOK' /\ KnownOK' /\ ReportOK'
            /\ NamesOK' /\ CloseOK'
        BY <1>1 DEF In, FdsOK, ReadOK, MagicOK, HeaderOK, ParseOK, NameOK, KnownOK, ReportOK,
               NamesOK, CloseOK
    <1> QED BY <1>3, <1>4 DEF IInv

\* archive_open with no file.
LEMMA OpenFailsInv == IInv /\ OpenFails => IInv'
    <1> SUFFICES ASSUME IInv, OpenFails PROVE IInv'
        OBVIOUS
    <1>0. TypeOK /\ FdsOK
        BY DEF IInv
    <1>1. argv' = Tail(argv) /\ pc' = "open" /\ pc = "open" /\ argv # <<>>
          /\ UNCHANGED <<fds, pos, from, size, total, ret, errors, hdr, offset, exact, tail, damage, reported>>
        BY DEF OpenFails, Return, reading, entry
    <1>2. Tail(argv) \in Seq(Archives)
        BY <1>0, <1>1 DEF TypeOK
    <1>3. TypeOK'
        BY <1>0, <1>1, <1>2 DEF TypeOK
    <1>4. FdsOK' /\ ReadOK' /\ MagicOK' /\ HeaderOK' /\ ParseOK' /\ NameOK' /\ KnownOK' /\ ReportOK'
            /\ NamesOK' /\ CloseOK'
        BY <1>0, <1>1 DEF In, FdsOK, ReadOK, MagicOK, HeaderOK, ParseOK, NameOK, KnownOK, ReportOK,
               NamesOK, CloseOK
    <1> QED BY <1>3, <1>4 DEF IInv

\* archive_open with a file that is no archive.
LEMMA BadMagicInv == IInv /\ BadMagic => IInv'
    <1> SUFFICES ASSUME IInv, BadMagic PROVE IInv'
        OBVIOUS
    <1>1. pc = "magic" /\ fds \subseteq {"archive"}
        BY DEF IInv, BadMagic, FdsOK, In
    <1> QED BY <1>1, ReturnInv DEF BadMagic

\* archive_open without its temporary file.
LEMMA TempFailsInv == IInv /\ TempFails => IInv'
    <1> SUFFICES ASSUME IInv, TempFails PROVE IInv'
        OBVIOUS
    <1>1. pc = "temp" /\ fds \subseteq {"archive"}
        BY DEF IInv, TempFails, FdsOK, In
    <1> QED BY <1>1, ReturnInv DEF TempFails

\* archive_close.
LEMMA CloseInv == IInv /\ Close => IInv'
    <1> SUFFICES ASSUME IInv, Close PROVE IInv'
        OBVIOUS
    <1>1. pc = "close" /\ fds \subseteq {"archive", "temp"}
        BY DEF IInv, Close, TypeOK
    <1> QED BY <1>1, ReturnInv DEF Close

\* The end of main.
LEMMA ExitInv == IInv /\ Exit => IInv'
    <1> SUFFICES ASSUME IInv, Exit PROVE IInv'
        OBVIOUS
    <1>0. TypeOK /\ FdsOK
        BY DEF IInv
    <1>1. pc = "open" /\ pc' = "exit"
          /\ UNCHANGED <<argv, fds, pos, from, size, total, ret, errors, hdr, offset, exact, tail,
                         damage, reported>>
        BY DEF Exit, reading, entry
    <1>2. TypeOK'
        BY <1>0, <1>1 DEF TypeOK
    <1>3. FdsOK' /\ ReadOK' /\ MagicOK' /\ HeaderOK' /\ ParseOK' /\ NameOK' /\ KnownOK' /\ ReportOK'
            /\ NamesOK' /\ CloseOK'
        BY <1>0, <1>1 DEF In, FdsOK, ReadOK, MagicOK, HeaderOK, ParseOK, NameOK, KnownOK, ReportOK,
               NamesOK, CloseOK
    <1> QED BY <1>2, <1>3 DEF IInv

\* An archive is opened: its magic is read from its start.
LEMMA OpenInv == IInv /\ Open => IInv'
    <1> SUFFICES ASSUME IInv, Open PROVE IInv'
        OBVIOUS
    <1>0. TypeOK /\ FdsOK
        BY DEF IInv
    <1>1. /\ pc = "open" /\ argv # <<>> /\ fds' = fds \cup {"archive"} /\ pos' = 0
          /\ from' = 0 /\ size' = SARMAG /\ total' = 0 /\ ret' = "magic" /\ pc' = "read"
          /\ tail' \in BOOLEAN /\ damage' = "none" /\ reported' = <<>>
          /\ UNCHANGED <<argv, errors, hdr, offset, exact>>
        BY DEF Open, ReadData
    <1>2. fds' = {"archive"}
        BY <1>0, <1>1 DEF FdsOK
    <1>3. SARMAG \in Nat /\ errors \in Nat
        BY <1>0, SizeAssumption DEF TypeOK
    <1>4. reported' \in Seq(Printed) /\ Len(reported') = 0 /\ DOMAIN reported' = {}
        BY <1>1
    <1>5. TypeOK'
        BY <1>0, <1>1, <1>2, <1>3, <1>4 DEF TypeOK
    <1>6. FdsOK' /\ MagicOK' /\ HeaderOK' /\ ParseOK' /\ NameOK' /\ KnownOK' /\ ReportOK' /\ CloseOK'
        BY <1>1, <1>2 DEF In, FdsOK, MagicOK, HeaderOK, ParseOK, NameOK, KnownOK, ReportOK, CloseOK
    <1>7. ReadOK'
        <2>1. pos' - total' - from' \in 0 .. errors'
            BY <1>1, <1>3
        <2> QED BY <1>1, <2>1 DEF ReadOK, In
    <1>8. file' \in Archives
        BY <1>0, <1>1 DEF TypeOK, file
    <1>9. Count' \in Nat
        BY <1>8, FileFacts DEF Count
    <1>10. NamesOK'
        BY <1>4, <1>9 DEF NamesOK
    <1> QED BY <1>5, <1>6, <1>7, <1>10 DEF IInv

\* Behind the magic number comes the first header, or the end.
LEMMA GoodMagicInv == IInv /\ GoodMagic => IInv'
    <1> SUFFICES ASSUME IInv, GoodMagic PROVE IInv'
        OBVIOUS
    <1>0. TypeOK /\ FdsOK /\ MagicOK /\ NamesOK
        BY DEF IInv
    <1>1. /\ pc = "magic" /\ InPlace /\ pc' = "temp"
          /\ UNCHANGED <<argv, fds, pos, from, size, total, ret, errors, hdr, offset, exact, tail,
                         damage, reported>>
        BY DEF GoodMagic, reading, entry
    <1>2. from = 0 /\ size = SARMAG /\ reported = <<>> /\ pos = SARMAG
        BY <1>0, <1>1, SizeAssumption DEF MagicOK, In, InPlace
    <1>3. file' = file /\ OnTrack' = OnTrack /\ Count' = Count /\ Perfect' = Perfect
        BY <1>1, SameFile
    <1>4. TypeOK'
        BY <1>0, <1>1 DEF TypeOK
    <1>5. FdsOK' /\ ReadOK' /\ MagicOK' /\ HeaderOK' /\ ParseOK' /\ NameOK' /\ KnownOK' /\ ReportOK'
            /\ CloseOK'
        BY <1>0, <1>1, <1>2 DEF In, FdsOK, ReadOK, MagicOK, HeaderOK, ParseOK, NameOK, KnownOK,
               ReportOK, CloseOK
    <1>6. NamesOK'
        BY <1>0, <1>1, <1>3 DEF NamesOK
    <1> QED BY <1>4, <1>5, <1>6 DEF IInv

\* The first header follows the magic.
LEMMA TempInv == IInv /\ Temp => IInv'
    <1> SUFFICES ASSUME IInv, Temp PROVE IInv'
        OBVIOUS
    <1>0. TypeOK /\ MagicOK /\ NamesOK
        BY DEF IInv
    <1>1. /\ pc = "temp" /\ pc' = "header" /\ fds' = fds \cup {"temp"}
          /\ UNCHANGED <<argv, pos, from, size, total, ret, errors, hdr, offset, exact, tail, damage, reported>>
        BY DEF Temp, reading, entry
    <1>2. file' = file /\ OnTrack' = OnTrack /\ Count' = Count /\ Perfect' = Perfect
        BY <1>1, SameFile
    <1>3. TypeOK'
        BY <1>0, <1>1 DEF TypeOK
    <1>4. FdsOK' /\ ReadOK' /\ MagicOK' /\ ParseOK' /\ NameOK' /\ KnownOK' /\ ReportOK' /\ CloseOK'
        BY <1>1 DEF In, FdsOK, ReadOK, MagicOK, ParseOK, NameOK, KnownOK, ReportOK, CloseOK
    <1>5. NamesOK'
        BY <1>0, <1>1, <1>2 DEF NamesOK
    <1>6. /\ file \in Archives /\ Count \in Nat /\ Count = Len(file.members) /\ pos = SARMAG
          /\ Here = 1 /\ errors \in Nat
        BY <1>0, <1>1, OpenFacts DEF MagicOK, Here, Count, TypeOK
    <1>7. /\ file.start[1] = SARMAG /\ file.length <= EndOf(file) /\ SARMAG \in Nat
          /\ EndOf(file) = file.start[Count + 1]
        BY <1>6, FileFacts, SizeAssumption DEF EndOf
    <1>8. pos >= file.length \/ (Here <= Count /\ pos - file.start[Here] \in 0 .. errors)
        <2>1. CASE Count = 0
            BY <1>6, <1>7, <2>1
        <2>2. CASE Count >= 1
            BY <1>6, <1>7, <2>2
        <2> QED BY <1>6, <2>1, <2>2
    <1>9. HeaderOK'
        BY <1>1, <1>2, <1>6, <1>7, <1>8 DEF HeaderOK, Here
    <1> QED BY <1>3, <1>4, <1>5, <1>9 DEF IInv

\* A header is asked for where the descriptor stands.
LEMMA GetHeaderInv == IInv /\ GetHeader => IInv'
    <1> SUFFICES ASSUME IInv, GetHeader PROVE IInv'
        OBVIOUS
    <1>0. TypeOK /\ HeaderOK /\ NamesOK
        BY DEF IInv
    <1>1. /\ pc = "header" /\ offset' = pos /\ from' = pos /\ size' = SAR_HDR /\ total' = 0
          /\ ret' = "parse" /\ pc' = "read"
          /\ UNCHANGED <<argv, fds, pos, errors, hdr, exact, tail, damage, reported>>
        BY DEF GetHeader, ReadData
    <1>2. file' = file /\ OnTrack' = OnTrack /\ Count' = Count /\ Perfect' = Perfect
        BY <1>1, SameFile
    <1>3. SAR_HDR \in Nat /\ errors \in Nat /\ pos \in Nat
        BY <1>0, SizeAssumption DEF TypeOK
    <1>4. TypeOK'
        BY <1>0, <1>1, <1>3 DEF TypeOK
    <1>5. FdsOK' /\ MagicOK' /\ HeaderOK' /\ NameOK' /\ KnownOK' /\ ReportOK' /\ CloseOK'
        BY <1>1 DEF In, FdsOK, MagicOK, HeaderOK, NameOK, KnownOK, ReportOK, CloseOK
    <1>6. NamesOK'
        BY <1>0, <1>1, <1>2 DEF NamesOK
    <1>7. pos' - total' - from' \in 0 .. errors'
        BY <1>1, <1>3
    <1>8. ReadOK'
        BY <1>1, <1>7 DEF ReadOK, In
    <1>9. /\ Here \in Nat /\ Count \in Nat /\ (Here <= Count + 1 => file.start[Here] \in Nat)
          /\ Here' = Here
        BY <1>0, <1>1, OpenFacts DEF Here
    <1>10. ParseOK'
        <2> SUFFICES ASSUME OnTrack
                     PROVE  /\ \/ pos >= file.length
                               \/ /\ Here <= Count /\ pos >= file.start[Here]
                                  /\ pos - 0 - file.start[Here] \in 0 .. errors
                            /\ Perfect => pos = file.start[Here]
            BY <1>1, <1>2, <1>9 DEF ParseOK
        <2>1. /\ pos >= file.length \/ (Here <= Count /\ pos - file.start[Here] \in 0 .. errors)
              /\ Perfect => pos = file.start[Here]
            BY <1>0, <1>1 DEF HeaderOK
        <2> QED BY <1>3, <1>9, <2>1
    <1> QED BY <1>4, <1>5, <1>6, <1>8, <1>10 DEF IInv

-----------------------------------------------------------------------------
\* The errors so far are too few to lead from one header to another: what is
\* recognised is the header of the next member, read from its beginning.
LEMMA Recognition ==
    ASSUME IInv, pc = "parse", Recognised, OnTrack
    PROVE  /\ Here <= Count /\ from = file.start[Here] /\ pos = from + SAR_HDR
           /\ \A m \in Saying : m = file.members[Here]
    <1>0. TypeOK /\ ReadOK /\ ParseOK /\ In("parse")
        BY DEF IInv, In
    <1>1. /\ file \in Archives /\ Count \in Nat /\ Here \in Nat \ {0} /\ file.length \in Nat
          /\ Count = Len(file.members)
        BY <1>0, OpenFacts DEF Count
    <1>2. /\ pos \in Nat /\ from \in Nat /\ errors \in Nat /\ SAR_HDR \in Nat /\ errors < SAR_HDR
          /\ total = SAR_HDR
        BY <1>0, SizeAssumption DEF TypeOK, Recognised
    <1>3. PICK j \in 1 .. Count : pos = file.start[j] + SAR_HDR
        BY <1>1 DEF Recognised
    <1>4. pos - SAR_HDR - from \in 0 .. errors /\ (from >= file.length => pos = from)
        BY <1>0, <1>2 DEF ReadOK
    <1>5. from < file.length
        BY <1>1, <1>2, <1>4
    <1>6. /\ Here <= Count /\ from >= file.start[Here]
          /\ pos - SAR_HDR - file.start[Here] \in 0 .. errors
        BY <1>0, <1>1, <1>2, <1>5 DEF ParseOK
    <1>7. \A i \in 1 .. Count : file.start[i] \in Nat
        BY <1>1, FileFacts
    <1>8. \A i, k \in 1 .. Count : i < k => file.start[i] + SAR_HDR <= file.start[k]
        <2> SUFFICES ASSUME NEW i \in 1 .. Count, NEW k \in 1 .. Count, i < k
                     PROVE  file.start[i] + SAR_HDR <= file.start[k]
            OBVIOUS
        <2>1. i \in 1 .. (Count + 1) /\ k \in 1 .. (Count + 1)
            BY <1>1
        <2> QED BY <1>1, <2>1, FileFacts
    <1>9. Here \in 1 .. Count
        BY <1>1, <1>6
    <1>10. file.start[j] - file.start[Here] \in 0 .. errors
        BY <1>2, <1>3, <1>6, <1>7, <1>9
    <1>11. j = Here
        <2>1. ~(j < Here)
            BY <1>2, <1>3, <1>7, <1>8, <1>9, <1>10
        <2>2. ~(Here < j)
            BY <1>2, <1>3, <1>7, <1>8, <1>9, <1>10
        <2> QED BY <1>1, <1>3, <2>1, <2>2
    <1>12. from = file.start[Here]
        BY <1>2, <1>3, <1>4, <1>6, <1>7, <1>9, <1>11
    <1>13. pos = from + SAR_HDR
        BY <1>3, <1>11, <1>12
    <1>14. ASSUME NEW m \in Saying PROVE m = file.members[Here]
        <2>1. PICK i \in 1 .. Count : from = file.start[i] /\ m = file.members[i]
            BY <1>1, <1>13, <1>14 DEF Saying
        <2>2. file.start[i] = file.start[Here] /\ file.start[i] \in Nat /\ SAR_HDR > 0
            BY <1>2, <1>7, <1>12, <2>1
        <2>3. ~(i < Here)
            BY <1>2, <1>8, <1>9, <2>2
        <2>4. ~(Here < i)
            BY <1>2, <1>8, <1>9, <2>2
        <2> QED BY <1>1, <2>1, <2>3, <2>4
    <1> QED BY <1>6, <1>12, <1>13, <1>14

\* What the present state says of the member is what the next one has to say.
LEMMA PlainInv == IInv /\ Plain => IInv'
    <1> SUFFICES ASSUME IInv, Plain PROVE IInv'
        OBVIOUS
    <1>0. TypeOK /\ FdsOK /\ ReadOK /\ ParseOK /\ NamesOK
        BY DEF IInv
    <1>1. /\ pc = "parse" /\ Recognised /\ pc' = "report"
          /\ UNCHANGED <<argv, fds, pos, from, size, total, ret, errors, offset, tail, damage, reported>>
        BY DEF Plain, reading
    <1>2. PICK m \in Saying : ~m.ext /\ hdr' = m /\ exact' = (m.len = NameField => ~tail)
        BY DEF Plain
    <1>3. m \in Headers
        BY DEF Saying
    <1>4. file' = file /\ OnTrack' = OnTrack /\ Count' = Count /\ Perfect' = Perfect
        BY <1>1, SameFile
    <1>5. TypeOK'
        BY <1>0, <1>1, <1>2, <1>3 DEF TypeOK
    <1>6. FdsOK' /\ ReadOK' /\ MagicOK' /\ HeaderOK' /\ ParseOK' /\ NameOK' /\ CloseOK'
        BY <1>1 DEF In, FdsOK, ReadOK, MagicOK, HeaderOK, ParseOK, NameOK, CloseOK
    <1>7. KnownOK'
        BY <1>2, <1>3 DEF KnownOK
    <1>8. NamesOK'
        BY <1>0, <1>1, <1>4 DEF NamesOK
    <1>9. ReportOK'
        <2> SUFFICES ASSUME OnTrack
                     PROVE  /\ EntryOK'
                            /\ pos - (file.start[Here] + SAR_HDR + Extra(m)) \in 0 .. errors
                            /\ pos = file.start[Here] + SAR_HDR + Extra(m)
                            /\ exact' \/ (~m.ext /\ m.len = NameField)
            BY <1>1, <1>2, <1>4 DEF ReportOK, Here
        <2>1. /\ Here <= Count /\ from = file.start[Here] /\ pos = from + SAR_HDR
              /\ m = file.members[Here]
            BY <1>1, Recognition
        <2>2. offset = from
            BY <1>0, <1>1 DEF ParseOK, In
        <2>3. EntryOK'
            BY <1>1, <1>2, <1>4, <2>1, <2>2 DEF EntryOK, Here
        <2>4. Extra(m) = 0 /\ from \in Nat /\ SAR_HDR \in Nat /\ errors \in Nat
            BY <1>0, <1>2, SizeAssumption DEF Extra, TypeOK
        <2>5. pos = file.start[Here] + SAR_HDR + Extra(m)
            BY <2>1, <2>4
        <2>6. pos - (file.start[Here] + SAR_HDR + Extra(m)) \in 0 .. errors
            <3>1. pos \in Nat
                BY <1>0 DEF TypeOK
            <3> QED BY <2>4, <2>5, <3>1
        <2> QED BY <1>2, <2>3, <2>5, <2>6
    <1> QED BY <1>5, <1>6, <1>7, <1>8, <1>9 DEF IInv

\* The name follows the header it belongs to.
LEMMA ExtendedInv == IInv /\ Extended => IInv'
    <1> SUFFICES ASSUME IInv, Extended PROVE IInv'
        OBVIOUS
    <1>0. TypeOK /\ FdsOK /\ ReadOK /\ ParseOK /\ NamesOK
        BY DEF IInv
    <1>1. /\ pc = "parse" /\ Recognised
          /\ UNCHANGED <<argv, fds, pos, errors, offset, exact, tail, damage, reported>>
        BY DEF Extended
    <1>2. PICK m \in Saying :
              /\ m.ext /\ hdr' = m /\ from' = pos /\ size' = m.len /\ total' = 0 /\ ret' = "name"
              /\ pc' = "read"
        BY DEF Extended, ReadData
    <1>3. m \in Headers /\ m.len \in Nat
        BY HeaderType DEF Saying
    <1>4. file' = file /\ OnTrack' = OnTrack /\ Count' = Count /\ Perfect' = Perfect
        BY <1>1, SameFile
    <1>5. TypeOK'
        BY <1>0, <1>1, <1>2, <1>3 DEF TypeOK
    <1>6. FdsOK' /\ MagicOK' /\ HeaderOK' /\ ParseOK' /\ KnownOK' /\ ReportOK' /\ CloseOK'
        BY <1>1, <1>2 DEF In, FdsOK, MagicOK, HeaderOK, ParseOK, KnownOK, ReportOK, CloseOK
    <1>7. pos' - total' - from' \in 0 .. errors'
        BY <1>0, <1>1, <1>2 DEF TypeOK
    <1>8. ReadOK'
        BY <1>1, <1>2, <1>7 DEF ReadOK, In
    <1>9. NamesOK'
        BY <1>0, <1>1, <1>2, <1>4 DEF NamesOK
    <1>10. NameOK'
        <2> SUFFICES ASSUME OnTrack
                     PROVE  EntryOK' /\ pos = file.start[Here] + SAR_HDR
            BY <1>1, <1>2, <1>3, <1>4 DEF NameOK, Here
        <2>1. /\ Here <= Count /\ from = file.start[Here] /\ pos = from + SAR_HDR
              /\ m = file.members[Here]
            BY <1>1, Recognition
        <2>2. offset = from
            BY <1>0, <1>1 DEF ParseOK, In
        <2> QED BY <1>1, <1>2, <1>4, <2>1, <2>2 DEF EntryOK, Here
    <1> QED BY <1>5, <1>6, <1>8, <1>9, <1>10 DEF IInv

\* A name of which nothing is missing is in its place, unless a read failed.
LEMMA ExtendedNameInv == IInv /\ ExtendedName => IInv'
    <1> SUFFICES ASSUME IInv, ExtendedName PROVE IInv'
        OBVIOUS
    <1>0. TypeOK /\ FdsOK /\ ReadOK /\ NameOK /\ NamesOK
        BY DEF IInv
    <1>1. /\ pc = "name" /\ exact' = InPlace /\ pc' = "report"
          /\ UNCHANGED <<argv, fds, pos, from, size, total, ret, errors, hdr, offset, damage, reported>>
        BY DEF ExtendedName, reading
    <1>2. tail' \in BOOLEAN
        BY <1>0 DEF ExtendedName, TypeOK
    <1>3. InPlace \in BOOLEAN
        BY DEF InPlace
    <1>4. file' = file /\ OnTrack' = OnTrack /\ Count' = Count /\ Perfect' = Perfect
        BY <1>1, SameFile
    <1>5. TypeOK'
        BY <1>0, <1>1, <1>2, <1>3 DEF TypeOK
    <1>6. FdsOK' /\ ReadOK' /\ MagicOK' /\ HeaderOK' /\ ParseOK' /\ NameOK' /\ CloseOK'
        BY <1>1 DEF In, FdsOK, ReadOK, MagicOK, HeaderOK, ParseOK, NameOK, CloseOK
    <1>7. KnownOK'
        BY <1>0, <1>1 DEF KnownOK, NameOK, In
    <1>8. NamesOK'
        BY <1>0, <1>1, <1>4 DEF NamesOK
    <1>9. ReportOK'
        <2> SUFFICES ASSUME OnTrack
                     PROVE  /\ EntryOK /\ hdr.ext
                            /\ \/ pos >= file.length
                               \/ pos - (file.start[Here] + SAR_HDR + Extra(hdr)) \in 0 .. errors
                            /\ Perfect => pos = file.start[Here] + SAR_HDR + Extra(hdr)
                            /\ Perfect => InPlace
            BY <1>1, <1>4 DEF ReportOK, EntryOK, Here
        <2>1. size = hdr.len /\ EntryOK /\ hdr.ext /\ from = file.start[Here] + SAR_HDR
            BY <1>0, <1>1 DEF NameOK, In
        <2>2. Extra(hdr) = size
            BY <2>1 DEF Extra
        <2>3. /\ pos - total - from \in 0 .. errors
              /\ total = size \/ pos >= file.length
            BY <1>0, <1>1 DEF ReadOK, In
        <2>4. /\ pos \in Nat /\ from \in Nat /\ size \in Nat /\ total \in Int /\ errors \in Nat
              /\ total <= size
            BY <1>0 DEF TypeOK
        <2>5. /\ file \in Archives /\ Count \in Nat /\ Here \in Nat \ {0} /\ file.length \in Nat
              /\ Count = Len(file.members)
            BY <1>0, <1>1, OpenFacts DEF Count
        <2>6. \/ pos >= file.length
              \/ pos - (from + size) \in 0 .. errors
            BY <2>3, <2>4
        <2>7. ASSUME Perfect PROVE pos = from + size /\ total = size
            <3>1. errors = 0 /\ file.length = file.start[Count + 1]
                BY <2>5, <2>7 DEF Perfect, EndOf
            <3>2. pos = from + total
                BY <2>3, <2>4, <3>1
            <3>3. Here \in 1 .. Count /\ hdr = file.members[Here]
                BY <2>1, <2>5 DEF EntryOK
            <3>4. /\ file.start[Here + 1] = file.start[Here] + SAR_HDR + Even(ArSize(hdr))
                  /\ file.start[Here] \in Nat /\ SAR_HDR \in Nat /\ hdr.size \in Nat /\ hdr.len \in Nat
                BY <1>0, <1>1, <2>5, <3>3, FileFacts, OpenFacts, SizeAssumption
            <3>5. Even(ArSize(hdr)) >= size
                BY <2>1, <3>4 DEF Even, ArSize
            <3>6. file.start[Here + 1] <= file.start[Count + 1]
                <4> DEFINE Behind(i) == file.start[i + 1]
                <4>1. CASE Here = Count
                    <5>1. Behind(Here) = Behind(Count) /\ Behind(Count) \in Nat
                        BY <2>5, <4>1, FileFacts
                    <5> HIDE DEF Behind
                    <5>2. Behind(Here) <= Behind(Count)
                        BY <5>1
                    <5> QED BY <5>2 DEF Behind
                <4>2. CASE Here < Count
                    <5>1. file.start[Here + 1] + SAR_HDR <= file.start[Count + 1]
                        <6>1. Here + 1 \in 1 .. (Count + 1) /\ Count + 1 \in 1 .. (Count + 1)
                            BY <2>5, <3>3
                        <6>2. Here + 1 < Count + 1
                            BY <2>5, <3>3, <4>2
                        <6> QED BY <2>5, <6>1, <6>2, FileFacts
                    <5>2. file.start[Here + 1] \in Nat /\ file.start[Count + 1] \in Nat
                        BY <2>5, <3>3, FileFacts
                    <5> QED BY <3>4, <5>1, <5>2
                <4> QED BY <2>5, <3>3, <4>1, <4>2
            <3>7. total < size => pos < file.length
                <4>1. file.start[Here + 1] \in Nat
                    BY <2>5, <3>3, FileFacts
                <4>2. from + size <= file.start[Here + 1]
                    <5> DEFINE e == Even(ArSize(hdr))
                    <5>1. e \in Nat /\ e >= size
                        <6>1. ArSize(hdr) \in Nat
                            BY <3>4 DEF ArSize
                        <6>2. Even(ArSize(hdr)) \in Nat
                            BY <6>1 DEF Even
                        <6> QED BY <3>5, <6>2
                    <5> HIDE DEF e
                    <5>2. file.start[Here + 1] = file.start[Here] + SAR_HDR + e
                        BY <3>4 DEF e
                    <5> QED BY <2>1, <2>4, <3>4, <5>1, <5>2
                <4> QED BY <2>4, <2>5, <3>1, <3>2, <3>6, <4>1, <4>2
            <3> QED BY <2>3, <2>4, <2>5, <3>2, <3>7
        <2>8. Perfect => InPlace
            BY <2>7 DEF InPlace
        <2> QED BY <2>1, <2>2, <2>6, <2>7, <2>8
    <1> QED BY <1>5, <1>6, <1>7, <1>8, <1>9 DEF IInv

\* The member behind the one that is skipped is the next.
LEMMA NextStart ==
    ASSUME NEW f \in Archives, NEW i \in 1 .. Len(f.members),
           f.members[i].ext => f.members[i].len % 2 = 0
    PROVE  f.start[i + 1] = f.start[i] + SAR_HDR + Extra(f.members[i]) + Skipped(f.members[i].size)
    <1> DEFINE m == f.members[i]
    <1>1. /\ f.start[i + 1] = f.start[i] + SAR_HDR + Even(ArSize(m)) /\ f.start[i] \in Nat
          /\ m \in Member /\ SAR_HDR \in Nat
        BY FileFacts, SizeAssumption
    <1> HIDE DEF m
    <1>2. m.len \in Nat /\ m.size \in Nat /\ Skipped(m.size) \in Nat
        BY <1>1 DEF Member, Skipped
    <1>3. CASE m.ext
        <2>1. Even(ArSize(m)) = Skipped(m.size) + m.len
            <3>1. ArSize(m) = m.size + m.len
                BY <1>3 DEF ArSize
            <3> QED BY <1>2, <1>3, <3>1, EvenSum DEF m
        <2>2. Extra(m) = m.len
            BY <1>3 DEF Extra
        <2> QED BY <1>1, <1>2, <2>1, <2>2 DEF m
    <1>4. CASE ~m.ext
        <2>1. Even(ArSize(m)) = Skipped(m.size)
            <3>1. ArSize(m) = m.size
                BY <1>2, <1>4 DEF ArSize
            <3> QED BY <3>1 DEF Even, Skipped
        <2>2. Extra(m) = 0
            BY <1>4 DEF Extra
        <2> QED BY <1>1, <1>2, <2>1, <2>2 DEF m
    <1> QED BY <1>3, <1>4

\* The name is the member's, and the walk goes on behind the member.
LEMMA ReportInv == IInv /\ Report => IInv'
    <1> SUFFICES ASSUME IInv, Report PROVE IInv'
        OBVIOUS
    <1>0. TypeOK /\ FdsOK /\ KnownOK /\ ReportOK /\ NamesOK
        BY DEF IInv
    <1> DEFINE name == IF exact THEN hdr.name ELSE "garbled"
    <1>1. /\ pc = "report" /\ reported' = Append(reported, name)
          /\ pos' \in Landing /\ pc' = "header"
          /\ damage' = IF damage = "size" THEN "walk" ELSE damage
          /\ UNCHANGED <<argv, fds, from, size, total, ret, errors, hdr, offset, exact, tail>>
        BY DEF Report, reading
    <1>2. name \in Printed /\ hdr \in Headers
        BY <1>0, <1>1 DEF KnownOK, Printed
    <1>3. /\ file' = file /\ Count' = Count /\ Perfect' = Perfect
          /\ OnTrack' => OnTrack /\ pos' = pos + Skipped(hdr.size)
        <2>1. file' = file /\ Count' = Count /\ Perfect' = Perfect
            BY <1>1, SameFile
        <2>2. damage' = "none" => damage = "none"
            BY <1>0, <1>1 DEF TypeOK
        <2>3. damage = "none" => pos' = pos + Skipped(hdr.size)
            BY <1>1 DEF Landing
        <2> QED BY <1>1, <2>1, <2>2, <2>3, SameFile DEF OnTrack
    <1>4. exact => name = hdr.name
        OBVIOUS
    <1> HIDE DEF name
    <1>5. /\ reported' \in Seq(Printed) /\ Len(reported) \in Nat /\ Len(reported') = Here
          /\ DOMAIN reported = 1 .. Len(reported) /\ DOMAIN reported' = 1 .. Here
          /\ \A i \in 1 .. Len(reported) : reported'[i] = reported[i]
          /\ reported'[Here] = name
        BY <1>0, <1>1, <1>2 DEF TypeOK, Here
    <1>6. pos \in Nat /\ Skipped(hdr.size) \in Nat
        <2>1. hdr.size \in Nat
            BY <1>0, <1>1, OpenFacts
        <2>2. hdr.size + (hdr.size % 2) \in Nat
            BY <2>1
        <2> QED BY <1>0, <2>2 DEF TypeOK, Skipped
    <1>7. TypeOK'
        <2>1. file \in Archives
            BY <1>0, <1>1, OpenFacts
        <2>2. EndOf(file) \in Nat
            BY <2>1, FileFacts DEF EndOf
        <2>3. pos' \in Nat
            BY <1>1, <1>6, <2>2 DEF Landing
        <2> QED BY <1>0, <1>1, <1>5, <2>3 DEF TypeOK
    <1>8. FdsOK' /\ ReadOK' /\ MagicOK' /\ ParseOK' /\ NameOK' /\ KnownOK' /\ ReportOK' /\ CloseOK'
        BY <1>1 DEF In, FdsOK, ReadOK, MagicOK, ParseOK, NameOK, KnownOK, ReportOK, CloseOK
    <1>9. /\ file \in Archives /\ Count \in Nat /\ Here \in Nat \ {0} /\ file.length \in Nat
          /\ Count = Len(file.members) /\ errors \in Nat
        BY <1>0, <1>1, OpenFacts DEF Count, TypeOK
    <1>10. Here' = Here + 1
        BY <1>5 DEF Here
    <1>11. ASSUME OnTrack PROVE Here \in 1 .. Count /\ hdr = file.members[Here]
        BY <1>0, <1>1, <1>9, <1>11 DEF ReportOK, EntryOK
    <1>12. NamesOK'
        <2> SUFFICES ASSUME OnTrack, NEW i \in 1 .. Here
                     PROVE  /\ Here <= Count
                            /\ \/ reported'[i] = file.members[i].name
                               \/ ~file.members[i].ext /\ file.members[i].len = NameField
                               \/ file.members[i].ext /\ ~Perfect
            BY <1>3, <1>5, <1>9 DEF NamesOK
        <2>1. Here <= Count
            BY <1>11
        <2>2. CASE i = Here
            <3>1. exact \/ (~hdr.ext /\ hdr.len = NameField) \/ (hdr.ext /\ ~Perfect)
                BY <1>0, <1>1 DEF ReportOK
            <3> QED BY <1>4, <1>5, <1>11, <2>1, <2>2, <3>1
        <2>3. CASE i \in 1 .. Len(reported)
            BY <1>0, <1>1, <1>5, <2>1, <2>3 DEF NamesOK
        <2> QED BY <1>5, <1>9, <2>2, <2>3 DEF Here
    <1>13. HeaderOK'
        <2> SUFFICES ASSUME OnTrack, pos' = pos + Skipped(hdr.size)
                     PROVE  /\ \/ pos' >= file.length
                               \/ Here + 1 <= Count /\ pos' - file.start[Here + 1] \in 0 .. errors
                            /\ Perfect => pos' = file.start[Here + 1]
            BY <1>1, <1>3, <1>10 DEF HeaderOK
        <2> DEFINE behind == file.start[Here] + SAR_HDR + Extra(hdr)
        <2>1. /\ pos >= file.length \/ pos - behind \in 0 .. errors
              /\ Perfect => pos = behind
            BY <1>0, <1>1 DEF ReportOK
        <2>2. hdr.ext => hdr.len % 2 = 0
            <3>1. hdr.len \in Nat
                BY <1>0, <1>1, OpenFacts
            <3>2. hdr.ext => hdr.len % 2 # 1
                BY <1>9, <1>11, FileFacts DEF OnTrack, OddName
            <3> QED BY <3>1, <3>2
        <2>3. file.start[Here + 1] = behind + Skipped(hdr.size)
            BY <1>9, <1>11, <2>2, NextStart
        <2>4. behind \in Nat
            <3>1. file.start[Here] \in Nat /\ SAR_HDR \in Nat /\ Extra(hdr) \in Nat
                BY <1>0, <1>1, <1>9, <1>11, FileFacts, OpenFacts, SizeAssumption DEF Extra
            <3> QED BY <3>1
        <2> HIDE DEF behind
        <2>5. CASE pos >= file.length
            BY <1>1, <1>6, <1>9, <2>1, <2>3, <2>5
        <2>6. CASE pos - behind \in 0 .. errors
            <3>1. pos' - file.start[Here + 1] \in 0 .. errors
                BY <1>1, <1>6, <1>9, <2>3, <2>4, <2>6
            <3>2. Perfect => pos' = file.start[Here + 1]
                BY <1>1, <2>1, <2>3
            <3>3. CASE Here + 1 <= Count
                BY <3>1, <3>2, <3>3
            <3>4. CASE Here = Count
                <4>1. file.start[Here + 1] = EndOf(file) /\ file.length <= EndOf(file)
                    BY <1>9, <3>4, FileFacts DEF EndOf
                <4>2. file.start[Here + 1] \in Nat /\ pos' \in Nat
                    BY <1>1, <1>6, <2>3, <2>4
                <4>3. pos' >= file.length
                    BY <1>9, <3>1, <4>1, <4>2
                <4> QED BY <3>2, <4>3
            <3> QED BY <1>9, <1>11, <3>3, <3>4
        <2> QED BY <2>1, <2>5, <2>6
    <1> QED BY <1>7, <1>8, <1>12, <1>13 DEF IInv

\* The walk stops early only when something failed or is missing: a header that
\* is all there, where the reader expects it, is recognised.
LEMMA EndOfMembersInv == IInv /\ EndOfMembers => IInv'
    <1> SUFFICES ASSUME IInv, EndOfMembers PROVE IInv'
        OBVIOUS
    <1>0. TypeOK /\ FdsOK /\ ReadOK /\ ParseOK /\ NamesOK
        BY DEF IInv
    <1>1. /\ pc = "parse" /\ ~Recognised /\ pc' = "close"
          /\ UNCHANGED <<argv, fds, pos, reading, errors, entry, reported>>
        BY DEF EndOfMembers
    <1>2. UNCHANGED <<from, size, total, ret, hdr, offset, exact, tail, damage>>
        BY <1>1 DEF reading, entry
    <1>3. file' = file /\ OnTrack' = OnTrack /\ Count' = Count /\ Perfect' = Perfect
        BY <1>1, <1>2, SameFile
    <1>4. TypeOK'
        BY <1>0, <1>1, <1>2 DEF TypeOK
    <1>5. /\ FdsOK' /\ ReadOK' /\ MagicOK' /\ HeaderOK' /\ ParseOK' /\ NameOK'
          /\ KnownOK' /\ ReportOK'
        BY <1>1 DEF In, FdsOK, ReadOK, MagicOK, HeaderOK, ParseOK, NameOK, KnownOK, ReportOK
    <1>6. NamesOK'
        BY <1>0, <1>1, <1>3 DEF NamesOK
    <1>7. CloseOK'
        <2> SUFFICES ASSUME OnTrack, Perfect PROVE Len(reported) = Count
            BY <1>1, <1>3 DEF CloseOK
        <2>1. /\ file \in Archives /\ Count \in Nat /\ Len(reported) \in Nat /\ file.length \in Nat
              /\ Count = Len(file.members)
            BY <1>0, <1>1, OpenFacts DEF Count
        <2>2. Len(reported) <= Count
            BY <1>0, <1>1 DEF NamesOK
        <2>3. SUFFICES ASSUME Here \in 1 .. Count PROVE FALSE
            BY <2>1, <2>2 DEF Here
        <2>4. /\ size = SAR_HDR /\ from = file.start[Here]
              /\ pos - total - from \in 0 .. errors
              /\ total = size \/ pos >= file.length
            BY <1>0, <1>1 DEF ParseOK, ReadOK, In
        <2>5. /\ pos \in Nat /\ from \in Nat /\ SAR_HDR \in Nat /\ total \in Int /\ total <= size
            BY <1>0, SizeAssumption DEF TypeOK
        <2>6. errors = 0 /\ file.length = file.start[Count + 1]
            BY <2>1 DEF Perfect, EndOf
        <2>7. pos = from + total
            BY <2>4, <2>5, <2>6
        <2>8. from + SAR_HDR <= file.length
            <3>1. Here \in 1 .. (Count + 1) /\ Count + 1 \in 1 .. (Count + 1) /\ Here < Count + 1
                BY <2>1, <2>3
            <3>2. file.start[Here] + SAR_HDR <= file.start[Count + 1]
                BY <2>1, <3>1, FileFacts
            <3> QED BY <2>4, <2>6, <3>2
        <2>9. total = SAR_HDR
            <3>1. total <= SAR_HDR /\ (total = SAR_HDR \/ from + total >= file.length)
                BY <2>4, <2>5, <2>7
            <3>2. file.length \in Nat
                BY <2>1
            <3> QED BY <2>5, <2>8, <3>1, <3>2
        <2>10. Recognised
            <3>1. pos = file.start[Here] + SAR_HDR
                BY <2>4, <2>7, <2>9
            <3>2. Here \in 1 .. Len(file.members)
                BY <2>1, <2>3
            <3> QED BY <2>9, <3>1, <3>2 DEF Recognised
        <2> QED BY <1>1, <2>10
    <1> QED BY <1>4, <1>5, <1>6, <1>7 DEF IInv

\* Nothing happens after the end.
LEMMA StutterInv == IInv /\ UNCHANGED vars => IInv'
    <1> SUFFICES ASSUME IInv, UNCHANGED vars PROVE IInv'
        OBVIOUS
    <1>1. /\ UNCHANGED <<argv, pc, fds, pos, from, size, total, ret, errors, hdr, offset, exact,
                         tail, damage, reported>>
        BY DEF vars
    <1> QED BY <1>1 DEF IInv, TypeOK, FdsOK, ReadOK, MagicOK, HeaderOK, ParseOK, NameOK, KnownOK,
               ReportOK, NamesOK, CloseOK, In, Here, Count, Perfect, Extra, EntryOK, OddName, OnTrack, file,
               EndOf

\* Every step of the reader keeps the inductive invariant.
LEMMA NextInv == IInv /\ [Next]_vars => IInv'
    <1> SUFFICES ASSUME IInv, [Next]_vars PROVE IInv'
        OBVIOUS
    <1>1. CASE UNCHANGED vars
        BY <1>1, StutterInv
    <1>2. CASE Next
        BY <1>2, OpenInv, OpenFailsInv, GoodMagicInv, BadMagicInv, TempInv, TempFailsInv,
           ReadSomeInv, ReadNothingInv, ReadErrorInv, GetHeaderInv, PlainInv, ExtendedInv,
           ExtendedNameInv, ReportInv, EndOfMembersInv, CloseInv, ExitInv, StutterInv
        DEF Next, Walk, Finished
    <1> QED BY <1>1, <1>2

-----------------------------------------------------------------------------
\* The inductive invariant holds of every run of ranlib.
THEOREM Invariant == Spec => []IInv
    BY InitInv, NextInv, PTL DEF Spec

\* Every variable keeps its type, and read_data's count falls below 0 by no
\* more than the reads that failed.
THEOREM TypeCorrect == Spec => []TypeOK
    <1>1. IInv => TypeOK
        BY DEF IInv
    <1> QED BY <1>1, Invariant, PTL

\* What archive_get_entry_hdr accepts as a header is one, and the next one,
\* whatever reads fail and wherever the file ends, until one fails before any
\* byte of an extended name.
THEOREM HeadersAreTrue == Spec => []HeaderTrue
    <1>1. IInv => HeaderTrue
        <2> SUFFICES ASSUME IInv, pc \in {"name", "report"}, OnTrack
                     PROVE  \E i \in 1 .. Len(file.members) :
                               offset = file.start[i] /\ hdr = file.members[i]
            BY DEF HeaderTrue
        <2>1. TypeOK /\ NameOK /\ ReportOK
            BY DEF IInv
        <2>2. EntryOK
            BY <2>1 DEF NameOK, ReportOK, In
        <2>3. Count \in Nat /\ Here \in Nat \ {0} /\ Count = Len(file.members)
            BY <2>1, OpenFacts DEF Count
        <2> QED BY <2>2, <2>3 DEF EntryOK
    <1> QED BY <1>1, Invariant, PTL

\* Until then the names that ranlib prints are the members', in their order,
\* and of a whole archive that is read without an error none is left out.
THEOREM NamesAreTrue == Spec => []MembersReported
    <1>1. IInv => MembersReported
        <2> SUFFICES ASSUME IInv PROVE MembersReported
            OBVIOUS
        <2>1. TypeOK /\ NamesOK /\ CloseOK
            BY DEF IInv
        <2>2. ASSUME pc \notin {"open", "exit"}, ~Perfect
              PROVE  errors > 0 \/ file.length < EndOf(file)
            <3>1. errors \in Nat /\ file \in Archives
                BY <2>1, <2>2, OpenFacts DEF TypeOK
            <3>2. file.length \in Nat /\ EndOf(file) \in Nat /\ file.length <= EndOf(file)
                BY <3>1, FileFacts DEF EndOf
            <3> QED BY <2>2, <3>1, <3>2 DEF Perfect
        <2> QED BY <2>1, <2>2 DEF MembersReported, NamesOK, CloseOK, Count, Perfect
    <1> QED BY <1>1, Invariant, PTL

\* archive_open and archive_close give back every descriptor they took.
THEOREM NothingStaysOpen == Spec => []NothingOpen
    <1>1. IInv => NothingOpen
        BY DEF IInv, FdsOK, NothingOpen
    <1> QED BY <1>1, Invariant, PTL
=============================================================================
