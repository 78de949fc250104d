---------------------------- MODULE FdiskProofs ----------------------------
(***************************************************************************)
(* The three invariants of Fdisk for every input, every size of the buffer *)
(* and of a command, and any number of failing calls.                      *)
(***************************************************************************)
EXTENDS Fdisk, SequenceTheorems, TLAPS

Seen(i) == \E k \in DOMAIN done : done[k].row = i

\* Where the input is read up to, and what of it is in the string: while a line
\* is read, as many characters of it as its column; behind it, all of them.
ReadingOK ==
    /\ pc \in {"args", "device"} =>
          row = 1 /\ col = 0 /\ blocks = 0 /\ fildev = "null" /\ done = <<>>
    /\ pc = "repl" => col = 0 /\ blocks = 0
    /\ pc = "fgets" =>
          /\ blocks = IF line = None THEN 0 ELSE 1
          /\ More => line = IF col = 0 THEN None ELSE col
    /\ pc = "line" =>
          /\ col = 0 /\ blocks = 1
          /\ input[row - 1].newline /\ line = input[row - 1].len
    /\ pc \in {"close", "success", "failure"} => blocks = 0

DeviceOK ==
    /\ pc # "closed_twice"
    /\ pc \in {"repl", "fgets", "line", "close"} => fildev = "open" /\ status
    /\ pc \in {"success", "failure"} => fildev # "open"

\* The commands carried out are behind none of those still to do.
DoneOK ==
    \A k \in DOMAIN done :
        /\ done[k].row \in Commands
        /\ done[k].chars = input[done[k].row].len
        /\ pc = "line" => done[k].row < row - 1
        /\ \A l \in 1 .. (k - 1) : done[l].row < done[k].row

SeenOK ==
    /\ pc \in {"repl", "fgets"} => \A i \in Commands : Seen(i)
    /\ pc = "line" => \A i \in Commands : i < row - 1 => Seen(i)
    /\ pc \in {"close", "success"} /\ faults = 0 =>
          row > Len(input) /\ \A i \in Commands : Seen(i)

IInv == TypeOK /\ ReadingOK /\ DeviceOK /\ DoneOK /\ SeenOK

-----------------------------------------------------------------------------
\* What is known of an input.
LEMMA InputFacts ==
    ASSUME NEW inp \in Inputs
    PROVE  /\ Len(inp) \in Nat /\ DOMAIN inp = 1 .. Len(inp)
           /\ \A i \in 1 .. Len(inp) :
                 /\ inp[i].words \in Seq(STRING) /\ inp[i].len \in Nat
                 /\ inp[i].newline \in BOOLEAN
                 /\ i < Len(inp) => inp[i].newline
                 /\ Length(inp[i]) \in Nat \ {0}
                 /\ inp[i].newline => Length(inp[i]) = inp[i].len + 1
                 /\ ~inp[i].newline => Length(inp[i]) = inp[i].len
                 /\ inp[i].len = 0 => inp[i].words = <<>>
    <1> DEFINE L == [words : Seq(STRING), len : Nat, newline : BOOLEAN]
    <1>1. inp \in Seq(L)
        BY InputAssumption
    <1>2. Len(inp) \in Nat /\ DOMAIN inp = 1 .. Len(inp)
        BY <1>1
    <1>3. ASSUME NEW i \in 1 .. Len(inp)
          PROVE  /\ inp[i].words \in Seq(STRING) /\ inp[i].len \in Nat
                 /\ inp[i].newline \in BOOLEAN
        <2> HIDE DEF L
        <2>1. inp[i] \in L
            BY <1>1, <1>3, ElementOfSeq
        <2> QED BY <2>1 DEF L
    <1>4. ASSUME NEW i \in 1 .. Len(inp)
          PROVE  /\ i < Len(inp) => inp[i].newline
                 /\ inp[i].len > 0 \/ inp[i].newline
                 /\ inp[i].words # <<>> => inp[i].len > 0
        BY <1>2, <1>4, InputAssumption
    <1>5. ASSUME NEW i \in 1 .. Len(inp)
          PROVE  /\ Length(inp[i]) \in Nat \ {0}
                 /\ inp[i].newline => Length(inp[i]) = inp[i].len + 1
                 /\ ~inp[i].newline => Length(inp[i]) = inp[i].len
        BY <1>3, <1>4, <1>5 DEF Length
    <1>6. ASSUME NEW i \in 1 .. Len(inp)
          PROVE  inp[i].len = 0 => inp[i].words = <<>>
        BY <1>3, <1>4, <1>6
    <1> QED BY <1>2, <1>3, <1>4, <1>5, <1>6

\* What is taken of a line that is not at its end.
LEMMA PieceFacts ==
    ASSUME TypeOK, More
    PROVE  Piece \in Nat \ {0} /\ Piece <= Length(input[row]) - col
    <1>1. row \in 1 .. Len(input) /\ Length(input[row]) \in Nat /\ col \in Nat
            /\ col < Length(input[row])
        BY InputFacts DEF TypeOK, More
    <1>2. BUFFSZ \in Nat /\ BUFFSZ >= 2
        BY InputAssumption
    <1> DEFINE rest == Length(input[row]) - col
    <1>3. rest \in Nat /\ rest > 0
        BY <1>1
    <1>4. Piece = IF rest < BUFFSZ - 1 THEN rest ELSE BUFFSZ - 1
        BY DEF Piece
    <1> HIDE DEF rest
    <1>5. Piece \in Nat \ {0} /\ Piece <= rest
        BY <1>2, <1>3, <1>4
    <1> QED BY <1>5 DEF rest

\* The commands up to a row are the same in every later state.
LEMMA CommandsFacts ==
    ASSUME TypeOK
    PROVE  /\ Commands \subseteq 1 .. (row - 1)
           /\ \A i \in 1 .. (row - 1) : i \in Commands <=>
                 input[i].newline /\ input[i].words # <<>> /\ input[i].words[1] \in Cmds
    BY DEF TypeOK, Commands

\* Before main has looked at its arguments.
LEMMA InitInv == Init => IInv
    <1> SUFFICES ASSUME Init PROVE IInv
        OBVIOUS
    <1>1. Len(input) \in Nat /\ (1 <= Len(input) => Length(input[1]) \in Nat \ {0})
        BY InputFacts DEF Init
    <1>2. MaxFaults \in Nat
        BY InputAssumption
    <1>3. TypeOK
        BY <1>1, <1>2 DEF Init, TypeOK, More, None, Ends
    <1>4. Commands = {}
        BY DEF Init, Commands
    <1>5. ReadingOK /\ DeviceOK /\ DoneOK /\ SeenOK
        BY <1>4 DEF Init, ReadingOK, DeviceOK, DoneOK, SeenOK
    <1> QED BY <1>3, <1>5 DEF IInv

-----------------------------------------------------------------------------
\* The steps that read nothing and carry out nothing.

\* main takes its one argument.
LEMMA ArgsInv == IInv /\ Args => IInv'
    <1> SUFFICES ASSUME IInv, Args PROVE IInv'
        OBVIOUS
    <1> USE DEF IInv
    <1>1. TypeOK'
        BY InputAssumption DEF TypeOK, More, Args, device, Ends
    <1>2. ReadingOK'
        BY DEF ReadingOK, More, Args, device
    <1>3. DeviceOK'
        BY DEF DeviceOK, Args, device
    <1>4. DoneOK'
        BY DEF DoneOK, Commands, Args
    <1>5. SeenOK'
        BY DEF SeenOK, Seen, Commands, Args
    <1> QED BY <1>1, <1>2, <1>3, <1>4, <1>5

\* The device is opened.
LEMMA DeviceOpenInv == IInv /\ DeviceOpen => IInv'
    <1> SUFFICES ASSUME IInv, DeviceOpen PROVE IInv'
        OBVIOUS
    <1> USE DEF IInv
    <1>1. TypeOK'
        BY InputAssumption DEF TypeOK, More, DeviceOpen, device, Ends
    <1>2. ReadingOK'
        BY DEF ReadingOK, More, DeviceOpen, device
    <1>3. DeviceOK'
        BY DEF DeviceOK, DeviceOpen, device
    <1>4. DoneOK'
        BY DEF DoneOK, Commands, DeviceOpen
    <1>5. SeenOK'
        BY DEF ReadingOK, SeenOK, Seen, Commands, DeviceOpen
    <1> QED BY <1>1, <1>2, <1>3, <1>4, <1>5

\* The device cannot be opened: main ends.
LEMMA DeviceOpenFailsInv == IInv /\ DeviceOpenFails => IInv'
    <1> SUFFICES ASSUME IInv, DeviceOpenFails PROVE IInv'
        OBVIOUS
    <1> USE DEF IInv
    <1>1. TypeOK'
        BY InputAssumption DEF TypeOK, More, DeviceOpenFails, device, Ends, Fault
    <1>2. ReadingOK'
        BY DEF ReadingOK, More, DeviceOpenFails, device
    <1>3. DeviceOK'
        BY DEF DeviceOK, DeviceOpenFails, device
    <1>4. DoneOK'
        BY DEF DoneOK, Commands, DeviceOpenFails
    <1>5. SeenOK'
        BY DEF SeenOK, Seen, Commands, DeviceOpenFails
    <1> QED BY <1>1, <1>2, <1>3, <1>4, <1>5

\* A line is there.
LEMMA ReadlineInv == IInv /\ Readline => IInv'
    <1> SUFFICES ASSUME IInv, Readline PROVE IInv'
        OBVIOUS
    <1> USE DEF IInv
    <1>1. TypeOK'
        BY InputAssumption DEF TypeOK, More, Readline, device, Ends, None
    <1>2. ReadingOK'
        BY DEF ReadingOK, More, Readline, device
    <1>3. DeviceOK'
        BY DEF DeviceOK, Readline, device
    <1>4. DoneOK'
        BY DEF DoneOK, Commands, Readline
    <1>5. SeenOK'
        BY DEF SeenOK, Seen, Commands, Readline
    <1> QED BY <1>1, <1>2, <1>3, <1>4, <1>5

\* A line of blanks.
LEMMA BlankInv == IInv /\ Blank => IInv'
    <1> SUFFICES ASSUME IInv, Blank PROVE IInv'
        OBVIOUS
    <1> USE DEF IInv
    <1>1. TypeOK'
        BY InputAssumption DEF TypeOK, More, Blank, device, Ends
    <1>2. ReadingOK'
        BY DEF ReadingOK, More, Blank, device
    <1>3. DeviceOK'
        BY DEF DeviceOK, Blank, device
    <1>4. DoneOK'
        BY DEF DoneOK, Commands, Blank
    <1>5. SeenOK'
        BY DEF SeenOK, Seen, Commands, Blank
    <1> QED BY <1>1, <1>2, <1>3, <1>4, <1>5

\* The p command.
LEMMA CmdPrintInv == IInv /\ CmdPrint => IInv'
    <1> SUFFICES ASSUME IInv, CmdPrint PROVE IInv'
        OBVIOUS
    <1> USE DEF IInv
    <1>1. TypeOK'
        BY InputAssumption DEF TypeOK, More, CmdPrint, device, Ends
    <1>2. ReadingOK'
        BY DEF ReadingOK, More, CmdPrint, device
    <1>3. DeviceOK'
        BY DEF DeviceOK, CmdPrint, device
    <1>4. DoneOK'
        BY DEF DoneOK, Commands, CmdPrint
    <1>5. SeenOK'
        BY DEF SeenOK, Seen, Commands, CmdPrint
    <1> QED BY <1>1, <1>2, <1>3, <1>4, <1>5

\* The device is closed.
LEMMA DeviceCloseInv == IInv /\ DeviceClose => IInv'
    <1> SUFFICES ASSUME IInv, DeviceClose PROVE IInv'
        OBVIOUS
    <1> USE DEF IInv
    <1>1. TypeOK'
        BY InputAssumption DEF TypeOK, More, DeviceClose, device, Ends
    <1>2. ReadingOK'
        BY DEF ReadingOK, More, DeviceClose, device
    <1>3. DeviceOK'
        BY DEF DeviceOK, DeviceClose, device
    <1>4. DoneOK'
        BY DEF DoneOK, Commands, DeviceClose
    <1>5. SeenOK'
        BY DEF SeenOK, Seen, Commands, DeviceClose
    <1> QED BY <1>1, <1>2, <1>3, <1>4, <1>5

-----------------------------------------------------------------------------
\* Where reading a piece leads: further in the line, or to the next one.
LEMMA AdvanceFacts ==
    ASSUME TypeOK, More, Advance, UNCHANGED input
    PROVE  /\ row' \in 1 .. (Len(input) + 1) /\ col' \in Nat
           /\ IF More' THEN col' < Length(input[row']) ELSE col' = 0
           /\ Commands \subseteq Commands'
           /\ col + Piece < Length(input[row]) => row' = row /\ col' = col + Piece
           /\ col + Piece = Length(input[row]) => row' = row + 1 /\ col' = 0
           /\ col + Piece <= Length(input[row]) /\ Piece \in Nat \ {0}
    <1>1. /\ row \in 1 .. Len(input) /\ Len(input) \in Nat /\ col \in Nat
          /\ Length(input[row]) \in Nat /\ input \in Inputs
        BY InputFacts DEF TypeOK, More
    <1>2. Piece \in Nat \ {0} /\ Piece <= Length(input[row]) - col
        BY PieceFacts
    <1>3. CASE col + Piece = Length(input[row])
        <2>1. row' = row + 1 /\ col' = 0
            BY <1>3 DEF Advance
        <2>2. row' <= Len(input) => Length(input[row']) \in Nat \ {0}
            BY <1>1, <2>1, InputFacts
        <2>3. Commands \subseteq Commands'
            BY <1>1, <2>1 DEF Commands
        <2> QED BY <1>1, <1>2, <1>3, <2>1, <2>2, <2>3 DEF More
    <1>4. CASE col + Piece # Length(input[row])
        <2>1. row' = row /\ col' = col + Piece
            BY <1>4 DEF Advance
        <2>2. col + Piece < Length(input[row])
            BY <1>1, <1>2, <1>4
        <2>3. Commands \subseteq Commands'
            BY <2>1 DEF Commands
        <2> QED BY <1>1, <1>2, <1>4, <2>1, <2>2, <2>3 DEF More
    <1> QED BY <1>3, <1>4

\* At the end of the line the string is all of it.
LEMMA AppendPieceInv == IInv /\ AppendPiece => IInv'
    <1> SUFFICES ASSUME IInv, AppendPiece PROVE IInv'
        OBVIOUS
    <1>0. TypeOK /\ ReadingOK /\ DeviceOK /\ DoneOK /\ SeenOK
        BY DEF IInv
    <1>1. pc = "fgets" /\ More /\ Advance /\ UNCHANGED <<input, device, ctxfp, faults, done>>
        BY DEF AppendPiece
    <1>2. /\ row' \in 1 .. (Len(input) + 1) /\ col' \in Nat
          /\ IF More' THEN col' < Length(input[row']) ELSE col' = 0
          /\ Commands \subseteq Commands'
          /\ col + Piece < Length(input[row]) => row' = row /\ col' = col + Piece
          /\ col + Piece = Length(input[row]) => row' = row + 1 /\ col' = 0
          /\ col + Piece <= Length(input[row]) /\ Piece \in Nat \ {0}
        BY <1>0, <1>1, AdvanceFacts
    <1>3. /\ row \in 1 .. Len(input) /\ Len(input) \in Nat /\ col \in Nat
          /\ input \in Inputs
        BY <1>0, <1>1, InputFacts DEF TypeOK, More
    <1>4. /\ Length(input[row]) \in Nat \ {0} /\ input[row].len \in Nat
          /\ input[row].newline => Length(input[row]) = input[row].len + 1
          /\ row < Len(input) => input[row].newline
        BY <1>3, InputFacts
    <1>5. /\ line = IF col = 0 THEN None ELSE col
          /\ blocks = IF line = None THEN 0 ELSE 1
        BY <1>0, <1>1 DEF ReadingOK
    <1>6. Linsz = col + Piece
        BY <1>2, <1>3, <1>5 DEF Linsz, None
    <1>7. blocks' = 1
        BY <1>5 DEF AppendPiece
    <1>8. \A i \in Commands : Seen(i)
        BY <1>0, <1>1 DEF SeenOK
    <1>9. CASE input[row].newline /\ col + Piece = Length(input[row])
        <2>1. line' = input[row].len /\ pc' = "line" /\ row' = row + 1 /\ col' = 0
            BY <1>2, <1>4, <1>6, <1>9 DEF AppendPiece
        <2>2. TypeOK'
            BY <1>0, <1>1, <1>2, <1>3, <1>4, <1>7, <2>1 DEF TypeOK, More, device, Ends, None
        <2>3. ReadingOK'
            BY <1>1, <1>3, <1>7, <1>9, <2>1 DEF ReadingOK
        <2>4. DeviceOK'
            BY <1>0, <1>1, <2>1 DEF DeviceOK, device
        <2>5. DoneOK'
            BY <1>0, <1>1, <1>2, <1>3, <2>1 DEF DoneOK, Commands
        <2>6. SeenOK'
            BY <1>1, <1>3, <1>8, <2>1 DEF SeenOK, Seen, Commands
        <2> QED BY <2>2, <2>3, <2>4, <2>5, <2>6 DEF IInv
    <1>10. CASE ~(input[row].newline /\ col + Piece = Length(input[row]))
        <2>1. line' = col + Piece /\ pc' = "fgets"
            BY <1>6, <1>10 DEF AppendPiece
        <2>2. line' \in Nat /\ line' # None
            BY <1>2, <1>3, <2>1 DEF None
        <2>3. TypeOK'
            BY <1>0, <1>1, <1>2, <1>7, <2>1, <2>2 DEF TypeOK, More, device, Ends
        <2>4. More' => row' = row /\ col' = col + Piece /\ col' # 0
            BY <1>1, <1>2, <1>3, <1>4, <1>10 DEF More
        <2>5. ReadingOK'
            BY <1>7, <2>1, <2>2, <2>4 DEF ReadingOK
        <2>6. DeviceOK'
            BY <1>0, <1>1, <2>1 DEF DeviceOK, device
        <2>7. DoneOK'
            BY <1>0, <1>1, <1>2, <2>1 DEF DoneOK
        <2>8. Commands' = Commands
            <3>1. CASE col + Piece < Length(input[row])
                BY <1>1, <1>2, <3>1 DEF Commands
            <3>2. CASE col + Piece = Length(input[row])
                BY <1>1, <1>2, <1>3, <1>10, <3>2 DEF Commands
            <3> QED BY <1>2, <1>3, <1>4, <3>1, <3>2
        <2>9. SeenOK'
            BY <1>1, <1>8, <2>1, <2>8 DEF SeenOK, Seen
        <2> QED BY <2>3, <2>5, <2>6, <2>7, <2>9 DEF IInv
    <1> QED BY <1>9, <1>10

\* A failed call is counted, so that nothing is claimed of what was not read.
LEMMA ReallocFailsInv == IInv /\ ReallocFails => IInv'
    <1> SUFFICES ASSUME IInv, ReallocFails PROVE IInv'
        OBVIOUS
    <1>0. TypeOK /\ ReadingOK /\ DeviceOK /\ DoneOK /\ SeenOK
        BY DEF IInv
    <1>1. /\ pc = "fgets" /\ More /\ Advance /\ Fault /\ Free /\ pc' = "close"
          /\ UNCHANGED <<input, device, ctxfp, done>>
        BY DEF ReallocFails
    <1>2. /\ row' \in 1 .. (Len(input) + 1) /\ col' \in Nat
          /\ IF More' THEN col' < Length(input[row']) ELSE col' = 0
          /\ Commands \subseteq Commands'
        BY <1>0, <1>1, AdvanceFacts
    <1>3. faults' \in 1 .. MaxFaults
        BY <1>0, <1>1, InputAssumption DEF TypeOK, Fault
    <1>4. blocks' = 0 /\ line' = None
        BY <1>0, <1>1 DEF ReadingOK, Free
    <1>5. TypeOK'
        BY <1>0, <1>1, <1>2, <1>3, <1>4 DEF TypeOK, More, device, Ends
    <1>6. ReadingOK' /\ DeviceOK' /\ SeenOK'
        BY <1>0, <1>1, <1>3, <1>4 DEF ReadingOK, DeviceOK, SeenOK, device
    <1>7. DoneOK'
        BY <1>0, <1>1, <1>2 DEF DoneOK
    <1> QED BY <1>5, <1>6, <1>7 DEF IInv

\* readline returns NULL.
LEMMA EndOfInputInv == IInv /\ EndOfInput => IInv'
    <1> SUFFICES ASSUME IInv, EndOfInput PROVE IInv'
        OBVIOUS
    <1>0. TypeOK /\ ReadingOK /\ DeviceOK /\ DoneOK /\ SeenOK
        BY DEF IInv
    <1>1. /\ pc = "fgets"
          /\ (~More /\ UNCHANGED faults) \/ Fault
          /\ Free /\ pc' = "close" /\ UNCHANGED <<input, row, col, device, ctxfp, done>>
        BY DEF EndOfInput
    <1>2. faults' \in 0 .. MaxFaults /\ (faults' = 0 => ~More)
        BY <1>0, <1>1, InputAssumption DEF TypeOK, Fault
    <1>3. blocks' = 0 /\ line' = None
        BY <1>0, <1>1 DEF ReadingOK, Free
    <1>4. TypeOK'
        BY <1>0, <1>1, <1>2, <1>3 DEF TypeOK, More, device, Ends
    <1>5. ReadingOK' /\ DeviceOK'
        BY <1>0, <1>1, <1>3 DEF ReadingOK, DeviceOK, device
    <1>6. DoneOK'
        BY <1>0, <1>1 DEF DoneOK, Commands
    <1>7. Len(input) \in Nat /\ row \in Nat
        BY <1>0, InputFacts DEF TypeOK
    <1>8. SeenOK'
        BY <1>0, <1>1, <1>2, <1>7 DEF SeenOK, Seen, Commands, More
    <1> QED BY <1>4, <1>5, <1>6, <1>8 DEF IInv

-----------------------------------------------------------------------------
\* The line in the string.
LEMMA LineFacts ==
    ASSUME TypeOK, ReadingOK, pc = "line"
    PROVE  /\ row - 1 \in 1 .. Len(input) /\ row \in Nat
           /\ Words \in Seq(STRING)
           /\ input[row - 1].newline
           /\ line = input[row - 1].len /\ blocks = 1
           /\ line = 0 => Words = <<>>
           /\ row - 1 \in Commands <=> Words # <<>> /\ Words[1] \in Cmds
    <1>1. row - 1 \in 1 .. Len(input) /\ row \in Nat /\ input \in Inputs
        BY InputFacts DEF TypeOK
    <1>2. /\ input[row - 1].words \in Seq(STRING)
          /\ input[row - 1].len = 0 => input[row - 1].words = <<>>
        BY <1>1, InputFacts
    <1>3. input[row - 1].newline /\ line = input[row - 1].len /\ blocks = 1
        BY DEF ReadingOK
    <1>4. row - 1 \in Commands <=> Words # <<>> /\ Words[1] \in Cmds
        BY <1>1, <1>3 DEF Commands, Words
    <1> QED BY <1>1, <1>2, <1>3, <1>4 DEF Words

\* The line is freed and no command carried out, because it is none.
LEMMA NoCommandInv ==
    ASSUME IInv, pc = "line", pc' = "repl", Free, row - 1 \notin Commands,
           UNCHANGED <<input, row, col, device, ctxfp, faults, done>>
    PROVE  IInv'
    <1>0. TypeOK /\ ReadingOK /\ DeviceOK /\ DoneOK /\ SeenOK
        BY DEF IInv
    <1>1. row - 1 \in 1 .. Len(input) /\ row \in Nat /\ line # None /\ blocks = 1
        BY <1>0, LineFacts DEF TypeOK
    <1>2. blocks' = 0 /\ line' = None
        BY <1>1 DEF Free
    <1>3. TypeOK'
        BY <1>0, <1>2 DEF TypeOK, More, device, Ends
    <1>4. ReadingOK' /\ DeviceOK'
        BY <1>0, <1>2 DEF ReadingOK, DeviceOK, device
    <1>5. DoneOK'
        BY <1>0 DEF DoneOK, Commands
    <1>6. \A i \in Commands : i < row - 1
        BY <1>1 DEF Commands
    <1>7. SeenOK'
        BY <1>0, <1>6 DEF SeenOK, Seen, Commands
    <1> QED BY <1>3, <1>4, <1>5, <1>7 DEF IInv

\* An empty line.
LEMMA EmptyInv == IInv /\ Empty => IInv'
    <1> SUFFICES ASSUME IInv, Empty PROVE IInv'
        OBVIOUS
    <1>1. row - 1 \notin Commands
        BY LineFacts DEF Empty, IInv
    <1> QED BY <1>1, NoCommandInv DEF Empty

\* A line that is no command.
LEMMA UnknownInv == IInv /\ Unknown => IInv'
    <1> SUFFICES ASSUME IInv, Unknown PROVE IInv'
        OBVIOUS
    <1>1. row - 1 \notin Commands
        BY LineFacts DEF Unknown, Command, IInv
    <1> QED BY <1>1, NoCommandInv DEF Unknown, Command

\* What carrying out the command of the line adds.
LEMMA DoFacts ==
    ASSUME IInv, Command, Words[1] \in Cmds, Do, UNCHANGED <<input, row>>
    PROVE  /\ done' \in Seq([row : Nat, chars : Int, args : Seq(STRING)])
           /\ DOMAIN done' = 1 .. (Len(done) + 1) /\ Len(done) \in Nat
           /\ \A k \in 1 .. Len(done) : done'[k] = done[k]
           /\ done'[Len(done) + 1].row = row - 1
           /\ done'[Len(done) + 1].chars = input[row - 1].len
    <1>0. TypeOK /\ ReadingOK /\ pc = "line"
        BY DEF IInv, Command
    <1>1. /\ row - 1 \in Nat /\ line \in Int /\ line = input[row - 1].len
          /\ Words \in Seq(STRING)
        BY <1>0, LineFacts DEF TypeOK, None
    <1>2. Argv \in Seq(STRING)
        <2>1. MAXARGS \in Nat
            BY InputAssumption
        <2> DEFINE n == IF Len(Words) < MAXARGS THEN Len(Words) ELSE MAXARGS
        <2>2. n \in 0 .. Len(Words)
            BY <1>1, <2>1
        <2> HIDE DEF n
        <2>3. SubSeq(Words, 1, n) \in Seq(STRING)
            BY <1>1, <2>2
        <2> QED BY <2>3 DEF Argv, n
    <1> DEFINE e == [row |-> row - 1, chars |-> line, args |-> Argv]
               S == [row : Nat, chars : Int, args : Seq(STRING)]
    <1>3. e \in S
        BY <1>1, <1>2
    <1>4. done \in Seq(S) /\ done' = Append(done, e)
        BY <1>0 DEF TypeOK, Do
    <1>5. e.row = row - 1 /\ e.chars = input[row - 1].len
        BY <1>1
    <1> HIDE DEF e, S
    <1>6. /\ done' \in Seq(S) /\ Len(done) \in Nat
          /\ Len(done') = Len(done) + 1
          /\ \A k \in 1 .. Len(done) : done'[k] = done[k]
          /\ done'[Len(done) + 1] = e
        BY <1>3, <1>4, AppendProperties
    <1>7. DOMAIN done' = 1 .. (Len(done) + 1)
        BY <1>6
    <1> QED BY <1>5, <1>6, <1>7 DEF S

\* The line's command is the last one carried out, and none is missing.
LEMMA DoneAfterDo ==
    ASSUME IInv, Command, Words[1] \in Cmds, Do, pc' # "line", UNCHANGED <<input, row>>
    PROVE  DoneOK' /\ (\A i \in Commands : Seen(i))'
    <1>0. TypeOK /\ ReadingOK /\ DoneOK /\ SeenOK /\ pc = "line"
        BY DEF IInv, Command
    <1>1. /\ DOMAIN done' = 1 .. (Len(done) + 1) /\ Len(done) \in Nat
          /\ \A k \in 1 .. Len(done) : done'[k] = done[k]
          /\ done'[Len(done) + 1].row = row - 1
          /\ done'[Len(done) + 1].chars = input[row - 1].len
        BY DoFacts
    <1>2. row - 1 \in 1 .. Len(input) /\ row \in Nat /\ row - 1 \in Commands
        BY <1>0, LineFacts DEF Command
    <1>3. Commands' = Commands
        BY DEF Commands
    <1>4. DOMAIN done = 1 .. Len(done)
        BY <1>0 DEF TypeOK
    <1>5. \A k \in 1 .. Len(done) :
              /\ done[k].row \in Commands /\ done[k].row < row - 1
              /\ done[k].chars = input[done[k].row].len
              /\ \A l \in 1 .. (k - 1) : done[l].row < done[k].row
        BY <1>0, <1>4 DEF DoneOK
    <1>6. DoneOK'
        <2> SUFFICES ASSUME NEW k \in 1 .. (Len(done) + 1)
                     PROVE  /\ done'[k].row \in Commands
                            /\ done'[k].chars = input[done'[k].row].len
                            /\ \A l \in 1 .. (k - 1) : done'[l].row < done'[k].row
            BY <1>1, <1>3 DEF DoneOK
        <2>1. CASE k = Len(done) + 1
            BY <1>1, <1>2, <1>5, <2>1
        <2>2. CASE k \in 1 .. Len(done)
            <3>1. done'[k] = done[k] /\ \A l \in 1 .. (k - 1) : done'[l] = done[l]
                BY <1>1, <2>2
            <3> QED BY <1>5, <2>2, <3>1
        <2> QED BY <1>1, <2>1, <2>2
    <1>7. ASSUME NEW i \in Commands
          PROVE  \E k \in DOMAIN done' : done'[k].row = i
        <2>1. i \in 1 .. (row - 1)
            BY DEF Commands
        <2>2. CASE i = row - 1
            BY <1>1, <2>2
        <2>3. CASE i < row - 1
            <3>1. PICK k \in 1 .. Len(done) : done[k].row = i
                BY <1>0, <1>4, <2>3 DEF SeenOK, Seen
            <3> QED BY <1>1, <3>1
        <2> QED BY <1>2, <2>1, <2>2, <2>3
    <1> QED BY <1>3, <1>6, <1>7 DEF Seen

\* A command that only prints or does nothing yet.
LEMMA PlainInv == IInv /\ Plain => IInv'
    <1> SUFFICES ASSUME IInv, Plain PROVE IInv'
        OBVIOUS
    <1>0. TypeOK /\ ReadingOK /\ DeviceOK /\ DoneOK /\ SeenOK
        BY DEF IInv
    <1>1. /\ Command /\ Words[1] \in Cmds /\ Do /\ Free /\ pc' = "repl" /\ pc = "line"
          /\ UNCHANGED <<input, row, col, device, ctxfp, faults>>
        BY DEF Plain, Command
    <1>2. blocks = 1 /\ line # None
        BY <1>0, <1>1, LineFacts DEF TypeOK
    <1>3. blocks' = 0 /\ line' = None
        BY <1>1, <1>2 DEF Free
    <1>4. done' \in Seq([row : Nat, chars : Int, args : Seq(STRING)])
        BY <1>1, DoFacts
    <1>5. TypeOK'
        BY <1>0, <1>1, <1>3, <1>4 DEF TypeOK, More, device, Ends
    <1>6. ReadingOK' /\ DeviceOK'
        BY <1>0, <1>1, <1>3 DEF ReadingOK, DeviceOK, device
    <1>7. DoneOK' /\ (\A i \in Commands : Seen(i))'
        BY <1>1, DoneAfterDo
    <1>8. SeenOK'
        BY <1>1, <1>7 DEF SeenOK
    <1> QED BY <1>5, <1>6, <1>7, <1>8 DEF IInv

\* The quit command.
LEMMA QuitInv == IInv /\ Quit => IInv'
    <1> SUFFICES ASSUME IInv, Quit PROVE IInv'
        OBVIOUS
    <1>0. TypeOK /\ ReadingOK /\ DeviceOK /\ DoneOK /\ SeenOK
        BY DEF IInv
    <1>1. /\ Command /\ Words[1] \in Cmds /\ pc' \in {"exit", "crash"}
          /\ UNCHANGED <<input, row, col, line, blocks, device, ctxfp, faults>>
        BY DEF Quit, Cmds
    <1>2. ReadingOK' /\ DeviceOK' /\ SeenOK'
        BY <1>1 DEF ReadingOK, DeviceOK, SeenOK
    <1>3. CASE Do
        <2>1. done' \in Seq([row : Nat, chars : Int, args : Seq(STRING)]) /\ DoneOK'
            BY <1>1, <1>3, DoFacts, DoneAfterDo
        <2>2. TypeOK'
            BY <1>0, <1>1, <2>1 DEF TypeOK, More, device, Ends
        <2> QED BY <1>2, <2>1, <2>2 DEF IInv
    <1>4. CASE UNCHANGED done
        <2>1. TypeOK'
            BY <1>0, <1>1, <1>4 DEF TypeOK, More, device, Ends
        <2>2. DoneOK'
            BY <1>0, <1>1, <1>4 DEF DoneOK, Commands
        <2> QED BY <1>2, <2>1, <2>2 DEF IInv
    <1> QED BY <1>3, <1>4 DEF Quit

-----------------------------------------------------------------------------
\* Nothing happens after the end.
LEMMA StutterInv == IInv /\ UNCHANGED vars => IInv'
    BY DEF IInv, TypeOK, ReadingOK, DeviceOK, DoneOK, SeenOK, Seen, Commands, More, vars, device

\* Every step of fdisk keeps the inductive invariant.
LEMMA NextInv == IInv /\ [Next]_vars => IInv'
    BY ArgsInv, DeviceOpenInv, DeviceOpenFailsInv, ReadlineInv, AppendPieceInv, ReallocFailsInv,
       EndOfInputInv, EmptyInv, BlankInv, PlainInv, UnknownInv, CmdPrintInv, QuitInv,
       DeviceCloseInv, StutterInv DEF Next, Finished

\* The inductive invariant: where the input is read up to, what of it is in the
\* string and in use, and which commands have been carried out.
THEOREM Invariant == Spec => []IInv
    BY InitInv, NextInv, PTL DEF Spec

\* Every variable has its type, and the input is read up to a place in it.
THEOREM TypeCorrect == Spec => []TypeOK
    <1>1. IInv => TypeOK
        BY DEF IInv
    <1> QED BY <1>1, Invariant, PTL

\* readline, parse_cmd and repl carry out the commands of the input, each once,
\* in its order and whole, however many pieces a line is read in; without a
\* failed call none is missing.
THEOREM CommandsAreTrue == Spec => []CommandsTrue
    <1>1. IInv => CommandsTrue
        BY DEF IInv, DoneOK, SeenOK, Seen, CommandsTrue
    <1> QED BY <1>1, Invariant, PTL

\* Whatever fails, readline's memory is freed and the device closed, once.
THEOREM NothingIsLeft == Spec => []NothingLeft
    <1>1. IInv => NothingLeft
        BY DEF IInv, ReadingOK, DeviceOK, NothingLeft
    <1> QED BY <1>1, Invariant, PTL
=============================================================================
