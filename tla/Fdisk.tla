------------------------------- MODULE Fdisk -------------------------------
(***************************************************************************)
(* fdisk opens the file of a disk (sbin/fdisk/main.c, fildev.c) and does   *)
(* what the lines of its standard input say, until there are no more       *)
(* (repl.c, cmd.c).  Calls into the system may fail.                       *)
(*                                                                         *)
(* A line of the input is the words in it and its length; a string is how  *)
(* much of which line it holds.  The input is text: the character NUL,     *)
(* behind which readline would lose the rest of a piece and its newline,   *)
(* is not in it.                                                           *)
(***************************************************************************)
EXTENDS Integers, Sequences

CONSTANTS
    Inputs,     \* what may come on the standard input, a sequence of lines
    BUFFSZ,     \* the buffer of readline, 128 in the program
    MAXARGS,    \* words of a command, 6 in the program
    MaxFaults   \* calls that fail in one run

ASSUME InputAssumption ==
    /\ BUFFSZ \in Nat /\ BUFFSZ >= 2 /\ MAXARGS \in Nat \ {0} /\ MaxFaults \in Nat
    /\ \A input \in Inputs :
          /\ input \in Seq([words : Seq(STRING), len : Nat, newline : BOOLEAN])
          \* All but the last line end with a newline; no line is nothing at all.
          /\ \A i \in DOMAIN input :
                /\ i < Len(input) => input[i].newline
                /\ input[i].len > 0 \/ input[i].newline
                /\ input[i].words # <<>> => input[i].len > 0

\* The table of commands, without its end.
Cmds == {"help", "version", "print", "mklabel", "rm", "set", "quit"}

VARIABLES
    input,
    row, col,   \* the line of the input and how much of it has been read
    pc,
    line,       \* the characters in the string of readline, None for NULL
    blocks,     \* blocks of memory in use for it
    fildev,     \* fildev_fp: "null", or its stream "open" or "closed"
    status,     \* the bit DEV_OPEN of dev.status
    ctxfp,      \* ctx.dsk_fp, which nothing sets: NULL or no stream at all
    faults,
    done        \* the commands carried out: the line each came from and its words

vars == <<input, row, col, pc, line, blocks, fildev, status, ctxfp, faults, done>>
device == <<fildev, status>>

None == -1
Fault == faults < MaxFaults /\ faults' = faults + 1

-----------------------------------------------------------------------------
Init ==
    /\ input \in Inputs
    /\ row = 1 /\ col = 0
    /\ pc = "args"
    /\ line = None /\ blocks = 0
    /\ fildev = "null" /\ status \in BOOLEAN
    /\ ctxfp \in {"null", "wild"}
    /\ faults = 0 /\ done = <<>>

\* main: help, the version and mistakes end it, the other options only set
\* flags that nothing reads.  No character is below '0' and above '3', so that
\* a -p with any other one writes far outside partfile, which may be the end.
Args ==
    /\ pc = "args"
    /\ pc' \in {"usage", "device", "crash"}
    /\ UNCHANGED <<input, row, col, line, blocks, device, ctxfp, faults, done>>

\* device_open
DeviceOpen ==
    /\ pc = "device"
    /\ fildev' = "open" /\ status' = TRUE /\ pc' = "repl"
    /\ UNCHANGED <<input, row, col, line, blocks, ctxfp, faults, done>>

\* Fault: parted closes the device though it could not be opened.
DeviceOpenFails_Close ==
    /\ pc = "device" /\ Fault
    /\ fildev' \in {"null", "closed"} /\ pc' = "close"
    /\ UNCHANGED <<input, row, col, line, blocks, status, ctxfp, done>>

\* No stream, or one that cannot be moved to its end: it is closed, and the
\* pointer still names it.
DeviceOpenFails ==
    /\ pc = "device" /\ Fault
    /\ fildev' \in {"null", "closed"} /\ pc' = "failure"
    /\ UNCHANGED <<input, row, col, line, blocks, status, ctxfp, done>>

-----------------------------------------------------------------------------
\* readline begins with no string.
Readline ==
    /\ pc = "repl"
    /\ line' = None /\ pc' = "fgets"
    /\ UNCHANGED <<input, row, col, blocks, device, ctxfp, faults, done>>

Length(l) == l.len + (IF l.newline THEN 1 ELSE 0)

More == row <= Len(input)

\* Fault: the buffer is taken to be full.
Piece_Full == BUFFSZ - 1

\* How much fgets takes: up to the end of the line or of the buffer.
Piece == LET rest == Length(input[row]) - col
         IN  IF rest < BUFFSZ - 1 THEN rest ELSE BUFFSZ - 1

\* Fault: the length of the piece is taken for the length of the line.
Linsz_Piece == Piece

\* The length of the string with the piece behind what was there.
Linsz == (IF line = None THEN 0 ELSE line) + Piece

\* Behind the last character of a line comes the next one.
Advance ==
    IF col + Piece = Length(input[row])
      THEN row' = row + 1 /\ col' = 0
      ELSE row' = row /\ col' = col + Piece

\* The string grows by a piece, all of it because no NUL is in the input, and a
\* newline at its end is cut off.
AppendPiece ==
    /\ pc = "fgets" /\ More
    /\ Advance
    /\ blocks' = IF line = None THEN blocks + 1 ELSE blocks
    /\ IF input[row].newline /\ col + Piece = Length(input[row])
         THEN line' = Linsz - 1 /\ pc' = "line"
         ELSE line' = Linsz /\ pc' = "fgets"
    /\ UNCHANGED <<input, device, ctxfp, faults, done>>

Free == /\ blocks' = IF line = None THEN blocks ELSE blocks - 1
        /\ line' = None

\* realloc fails: what was read of the line is given up, and so is the rest of
\* the input.
ReallocFails ==
    /\ pc = "fgets" /\ More /\ Fault
    /\ Advance
    /\ Free
    /\ pc' = "close"
    /\ UNCHANGED <<input, device, ctxfp, done>>

\* The end of the input, or an error: a line without its newline is given up.
EndOfInput ==
    /\ pc = "fgets"
    /\ (~More /\ UNCHANGED faults) \/ Fault
    /\ Free
    /\ pc' = "close"
    /\ UNCHANGED <<input, row, col, device, ctxfp, done>>

\* The line in the string is the one before `row'.
Words == input[row - 1].words
Argv == SubSeq(Words, 1, IF Len(Words) < MAXARGS THEN Len(Words) ELSE MAXARGS)

\* repl passes over an empty line.
Empty ==
    /\ pc = "line" /\ line = 0
    /\ Free
    /\ pc' = "repl"
    /\ UNCHANGED <<input, row, col, device, ctxfp, faults, done>>

\* A line of blanks has no first word: parse_cmd compares NULL with the names.
Blank ==
    /\ pc = "line" /\ line > 0 /\ Words = <<>>
    /\ pc' = "crash"
    /\ UNCHANGED <<input, row, col, line, blocks, device, ctxfp, faults, done>>

Command == pc = "line" /\ line > 0 /\ Words # <<>>

Do == done' = Append(done, [row |-> row - 1, chars |-> line, args |-> Argv])

\* The commands that only print or do nothing yet; repl looks at no answer and
\* frees the line.
Plain ==
    /\ Command /\ Words[1] \in Cmds \ {"print", "quit"}
    /\ Do /\ Free
    /\ pc' = "repl"
    /\ UNCHANGED <<input, row, col, device, ctxfp, faults>>

Unknown ==
    /\ Command /\ Words[1] \notin Cmds
    /\ Free
    /\ pc' = "repl"
    /\ UNCHANGED <<input, row, col, device, ctxfp, faults, done>>

\* cmd_print moves a stream that nobody opened.
CmdPrint ==
    /\ Command /\ Words[1] = "print"
    /\ pc' = "crash"
    /\ UNCHANGED <<input, row, col, line, blocks, device, ctxfp, faults, done>>

\* cmd_quit ends the program where it stands, unless the pointer happens to be
\* something to close.
Quit ==
    /\ Command /\ Words[1] = "quit"
    /\ IF ctxfp = "null" THEN Do /\ pc' = "exit" ELSE pc' = "crash" /\ UNCHANGED done
    /\ UNCHANGED <<input, row, col, line, blocks, device, ctxfp, faults>>

\* device_close, and main returns; unless the stream it closes was closed
\* before.
DeviceClose ==
    /\ pc = "close"
    /\ IF fildev # "null" /\ status THEN fildev' = "null" /\ status' = FALSE
                                    ELSE UNCHANGED device
    /\ pc' = IF fildev = "closed" /\ status THEN "closed_twice" ELSE "success"
    /\ UNCHANGED <<input, row, col, line, blocks, ctxfp, faults, done>>

Ends == {"usage", "success", "failure", "exit", "crash", "closed_twice"}
Finished == pc \in Ends /\ UNCHANGED vars

Next ==
    \/ Args \/ DeviceOpen \/ DeviceOpenFails
    \/ Readline \/ AppendPiece \/ ReallocFails \/ EndOfInput
    \/ Empty \/ Blank \/ Plain \/ Unknown \/ CmdPrint \/ Quit
    \/ DeviceClose \/ Finished

Spec == Init /\ [][Next]_vars

-----------------------------------------------------------------------------
\* Every variable has its type, and the input is read up to a place in it.
TypeOK ==
    /\ input \in Inputs
    /\ row \in 1 .. (Len(input) + 1) /\ col \in Nat
    /\ IF More THEN col < Length(input[row]) ELSE col = 0
    /\ pc \in Ends \cup {"args", "device", "repl", "fgets", "line", "close"}
    /\ pc = "line" => row > 1 /\ line # None
    /\ line \in Nat \cup {None} /\ blocks \in Nat
    /\ fildev \in {"null", "open", "closed"} /\ status \in BOOLEAN
    /\ ctxfp \in {"null", "wild"} /\ faults \in 0 .. MaxFaults
    /\ done \in Seq([row : Nat, chars : Int, args : Seq(STRING)])

\* The complete lines so far that name a command.
Commands == {i \in 1 .. (row - 1) :
    input[i].newline /\ input[i].words # <<>> /\ input[i].words[1] \in Cmds}

\* The commands carried out are those of the input, each once and in its order,
\* from the whole of its line however many pieces that came in; and when fdisk
\* has come to the end without a failed call, none is missing.
CommandsTrue ==
    /\ \A k \in DOMAIN done :
          /\ done[k].row \in Commands
          /\ done[k].chars = input[done[k].row].len
          /\ \A l \in 1 .. (k - 1) : done[l].row < done[k].row
    /\ pc = "repl" => \A i \in Commands : \E k \in DOMAIN done : done[k].row = i
    /\ pc = "success" /\ faults = 0 =>
          /\ row > Len(input)
          /\ \A i \in Commands : \E k \in DOMAIN done : done[k].row = i

\* Between two lines no memory is in use for one, and when main returns no
\* memory and no stream, whatever failed; and no stream is closed twice, though
\* fildev_fp goes on naming one that is closed and the status is not set before
\* device_open succeeds.
NothingLeft ==
    /\ pc # "closed_twice"
    /\ pc \in {"repl", "success", "failure"} => blocks = 0
    /\ pc \in {"success", "failure"} => fildev # "open"
=============================================================================
