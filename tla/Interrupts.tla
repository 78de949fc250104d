----------------------------- MODULE Interrupts -----------------------------
(***************************************************************************)
(* The hardware interrupts of the kernel: pic_init, idt_setup and the      *)
(* handlers the interrupt gates lead to (kernel/pic.inc, idt.inc, isr.inc  *)
(* and dev/at/), on the two 8259A interrupt controllers and the keyboard   *)
(* controller, which are modelled from their data sheets as far as the     *)
(* kernel's settings go: edge triggered, fully nested, cascaded on line 2, *)
(* ended by a non-specific end-of-interrupt command (EOI).                 *)
(*                                                                         *)
(* Every gate is an interrupt gate, so the processor runs a handler with   *)
(* the interrupt flag off and handlers do not nest.  Lines 0 to 7 are the  *)
(* first controller's and 8 to 15 the second's; a lower number is more     *)
(* urgent, and the second controller speaks through line 2 of the first.   *)
(***************************************************************************)
EXTENDS Integers, FiniteSets

CONSTANT Wired   \* the lines devices pull, the timer and the keyboard apart

Timer == 0  Keyboard == 1  Cascade == 2
Pic1 == 0 .. 7
Pic2 == 8 .. 15
Lines == Pic1 \cup Pic2
NoLine == -1

ASSUME WiredAssumption == Wired \subseteq Lines \ {Timer, Keyboard, Cascade}

VARIABLES
    pc,       \* where kmain is
    iflag,    \* the interrupt flag of the processor
    irr,      \* requests latched and not accepted yet, both controllers
    isr,      \* in-service bits, both controllers
    cpu,      \* the next step of the handler that runs, "main" when none does
    line,     \* the line it was entered for, NoLine when none runs
    obf,      \* the keyboard controller holds a scan code (KBS_DIB in KBD_STATP)
    stale     \* it has held it since before pic_init

vars == <<pc, iflag, irr, isr, cpu, line, obf, stale>>

\* The most urgent line of a set.
Top(S) == CHOOSE l \in S : \A m \in S : l <= m

\* Fault: the loop that fills the unused gates starts one gate early.
Gate_OffByOne(l) ==
    IF l = Timer THEN "pit_irq"
    ELSE IF l \in {4, 9} THEN "klog" ELSE "iret"

\* Fault: that loop stops at the second controller's gates.
Gate_Short(l) ==
    IF l = Timer THEN "pit_irq" ELSE IF l = Keyboard THEN "kbd_irq"
    ELSE IF l \in {4, 9} THEN "klog"
    ELSE IF l \in Pic2 \ {14, 15} THEN "no gate" ELSE "iret"

\* Fault: the unused gates lead to a handler that sends an EOI, too.
Gate_AlwaysEoi(l) ==
    IF l = Keyboard THEN "kbd_irq" ELSE "pit_irq"

\* The gates idt_setup makes: what a handler does first.  com_irq1 (line 4)
\* and ne2k_irq (line 9) call klog; irq_dummy, com_irq2, floppy_irq and the two
\* of ata only return.  None of these says anything to the controllers.
Gate(l) ==
    IF l = Timer THEN "pit_irq" ELSE IF l = Keyboard THEN "kbd_irq"
    ELSE IF l \in {4, 9} THEN "klog" ELSE "iret"

\* The lines a controller's own in-service bits let through.
Unmasked(S, busy) == {l \in S : \A s \in busy : l < s}

Pic2Asks == Unmasked(irr \cap Pic2, isr \cap Pic2)
Pic1Asks == Unmasked((irr \cap Pic1) \cup (IF Pic2Asks = {} THEN {} ELSE {Cascade}),
                     isr \cap Pic1)

-----------------------------------------------------------------------------
\* The loader leaves interrupts off; requests, and a scan code nobody has
\* read, may be waiting.
Init ==
    /\ pc = "pic_init" /\ iflag = FALSE
    /\ irr \in SUBSET (Wired \cup {Timer})
    /\ isr = {}
    /\ cpu = "main" /\ line = NoLine
    /\ obf \in BOOLEAN /\ stale = obf

\* The first command word forgets what was latched; no line is masked.
PicInit ==
    /\ pc = "pic_init"
    /\ irr' = {} /\ isr' = {}
    /\ pc' = "idt_setup"
    /\ UNCHANGED <<iflag, cpu, line, obf, stale>>

\* lidt and sti.
IdtSetup ==
    /\ pc = "idt_setup"
    /\ iflag' = TRUE
    /\ pc' = "pit_init"
    /\ UNCHANGED <<irr, isr, cpu, line, obf, stale>>

\* kmain programs the timer and spins.
PitInit ==
    /\ pc = "pit_init" /\ cpu = "main"
    /\ pc' = "halt"
    /\ UNCHANGED <<iflag, irr, isr, cpu, line, obf, stale>>

-----------------------------------------------------------------------------
\* A device pulls its line.
Raise(l) ==
    /\ l \in Wired \cup {Timer} /\ l \notin irr
    /\ irr' = irr \cup {l}
    /\ UNCHANGED <<pc, iflag, isr, cpu, line, obf, stale>>

\* A key: the controller takes one scan code at a time, and its line rises
\* with the code and falls when the code is read.
Key ==
    /\ ~obf
    /\ obf' = TRUE /\ stale' = (pc = "pic_init")
    /\ irr' = irr \cup {Keyboard}
    /\ UNCHANGED <<pc, iflag, isr, cpu, line>>

\* The processor enters the handler of line l with interrupts off.
Enter(l) ==
    /\ cpu' = Gate(l) /\ line' = l
    /\ iflag' = FALSE
    /\ UNCHANGED <<pc, obf, stale>>

\* The most urgent request is accepted: l is the line whose vector the
\* processor gets, m the line of the first controller it came through.
Accept(m, l) ==
    /\ iflag /\ Pic1Asks # {} /\ m = Top(Pic1Asks)
    /\ l = IF m = Cascade THEN Top(Pic2Asks) ELSE m
    /\ irr' = irr \ {l}
    /\ isr' = isr \cup {m, l}
    /\ Enter(l)

\* A request that is gone when the processor answers is given the vector of
\* the controller's last line, without an in-service bit of its own.
Spurious1 ==
    /\ iflag /\ Pic1Asks = {}
    /\ Enter(7)
    /\ UNCHANGED <<irr, isr>>

Spurious2 ==
    /\ iflag /\ Pic1Asks = {} /\ \A s \in isr \cap Pic1 : Cascade < s
    /\ isr' = isr \cup {Cascade}
    /\ Enter(15)
    /\ UNCHANGED irr

\* The non-specific EOI to the first controller ends its most urgent line.
Eoi == isr' = IF isr \cap Pic1 = {} THEN isr ELSE isr \ {Top(isr \cap Pic1)}

\* Fault: the timer's EOI goes to the second controller.
PitEoi_Pic2 ==
    /\ cpu = "pit_irq"
    /\ isr' = IF isr \cap Pic2 = {} THEN isr ELSE isr \ {Top(isr \cap Pic2)}
    /\ cpu' = "iret"
    /\ UNCHANGED <<pc, iflag, irr, line, obf, stale>>

\* pit_irq.
PitEoi ==
    /\ cpu = "pit_irq"
    /\ Eoi
    /\ cpu' = "iret"
    /\ UNCHANGED <<pc, iflag, irr, line, obf, stale>>

\* Fault: the keyboard's handler goes straight to the keyboard.
KbdEoi_Missing ==
    /\ cpu = "kbd_irq"
    /\ cpu' = "kbd_getc"
    /\ UNCHANGED <<pc, iflag, irr, isr, line, obf, stale>>

\* kbd_irq: the EOI comes first, then the scan code is fetched.
KbdEoi ==
    /\ cpu = "kbd_irq"
    /\ Eoi
    /\ cpu' = "kbd_getc"
    /\ UNCHANGED <<pc, iflag, irr, line, obf, stale>>

\* Fault: some codes are turned away before they are read.
KbdGetc_Unread ==
    /\ cpu = "kbd_getc"
    /\ obf' \in {FALSE, obf}
    /\ stale' = (stale /\ obf')
    /\ cpu' = "iret"
    /\ UNCHANGED <<pc, iflag, irr, isr, line>>

\* kbd_getc: a code that is there is read, a release code too.
KbdGetc ==
    /\ cpu = "kbd_getc"
    /\ obf' = FALSE /\ stale' = FALSE
    /\ cpu' = "iret"
    /\ UNCHANGED <<pc, iflag, irr, isr, line>>

\* com_irq1 and ne2k_irq put their message in ESI, but klog takes it in EAX,
\* where kmain's last value is still: an address in the first 64 KB, whose page
\* table mm_bootstrap leaves as it finds it.  What klog reads there is no
\* string of the kernel's; if the page is not mapped, the read faults.
Klog ==
    /\ cpu = "klog"
    /\ cpu' \in {"iret", "fault"}
    /\ UNCHANGED <<pc, iflag, irr, isr, line, obf, stale>>

\* isr_common, which the exception leads to, leaves with one word too many on
\* the stack: its iret does not go back to the handler, nor anywhere else the
\* kernel has code.
Faulted ==
    /\ cpu = "fault"
    /\ UNCHANGED vars

Iret ==
    /\ cpu = "iret"
    /\ cpu' = "main" /\ line' = NoLine
    /\ iflag' = TRUE
    /\ UNCHANGED <<pc, irr, isr, obf, stale>>

-----------------------------------------------------------------------------
Main    == PicInit \/ IdtSetup \/ PitInit
Handler == PitEoi \/ KbdEoi \/ KbdGetc \/ Klog \/ Iret
Taken   == \E m \in Pic1, l \in Lines : Accept(m, l)
Devices == (\E l \in Wired \cup {Timer} : Raise(l)) \/ Key \/ Spurious1 \/ Spurious2

Next == Main \/ Handler \/ Faulted \/ Taken \/ Devices

Spec == Init /\ [][Next]_vars

\* The processor executes kmain and the handlers and answers a request that
\* stands; it does answer the keyboard's if that is the most urgent one over
\* and over again.  Devices are free to stay silent.
LiveSpec ==
    /\ Spec
    /\ WF_vars(Main) /\ WF_vars(Handler) /\ WF_vars(Taken)
    /\ SF_vars(Accept(Keyboard, Keyboard))

-----------------------------------------------------------------------------
\* Every variable has its type.
TypeOK ==
    /\ pc \in {"pic_init", "idt_setup", "pit_init", "halt"}
    /\ iflag \in BOOLEAN /\ obf \in BOOLEAN /\ stale \in BOOLEAN
    /\ irr \subseteq Lines /\ isr \subseteq Lines
    /\ cpu \in {"main", "pit_irq", "kbd_irq", "kbd_getc", "klog", "iret", "fault"}
    /\ line \in Lines \cup {NoLine}

\* The EOI pit_irq and kbd_irq write names no line: the controller ends
\* whatever is most urgent.  It always ends the very line whose handler runs,
\* whichever lines are in service beside it.
EoiEndsOwnLine ==
    [][cpu' # cpu /\ cpu \in {"pit_irq", "kbd_irq"} =>
          line \in isr /\ isr' = isr \ {line}]_vars

\* pic_eoi is never called and only pit_irq and kbd_irq write an EOI, so the
\* other lines stay in service for ever once they were served.  The timer and
\* the keyboard do not: each is in service only until its handler's EOI.
NeverStuck ==
    \A l \in {Timer, Keyboard} :
        l \in isr => line = l /\ cpu = Gate(l)

\* No key is lost for want of an edge: a code the keyboard controller holds
\* has its interrupt latched or being handled, unless it was there before
\* pic_init threw the latches away.
KeyHasInterrupt ==
    obf /\ ~stale => \/ Keyboard \in irr
                     \/ cpu \in {"kbd_irq", "kbd_getc"}

\* Every tick the timer asks for once the controllers are set up is handled,
\* whatever other lines stay in service, unless the message of com_irq1 or
\* ne2k_irq stops the machine first.
TickServed ==
    (Timer \in irr /\ pc # "pic_init") ~> (cpu = "pit_irq" \/ cpu = "fault")

\* Every key struck after pic_init is read, if the timer leaves the processor
\* a moment without a request again and again; a machine that com_irq1 or
\* ne2k_irq has stopped has no such moment.
KeyRead ==
    []<>(iflag /\ Timer \notin irr) => (obf /\ ~stale ~> ~obf)
=============================================================================
