-------------------------- MODULE InterruptsProofs --------------------------
(***************************************************************************)
(* Proofs about the interrupts, for any set of wired lines.                *)
(*                                                                         *)
(* The argument: handlers run with interrupts off and a handler that sends *)
(* an EOI does so before it returns, so when the next request is accepted  *)
(* neither the timer nor the keyboard is in service.  Whatever else is     *)
(* stuck in service is less urgent than the line just accepted, hence the  *)
(* EOI that names no line ends the right one.                              *)
(***************************************************************************)
EXTENDS Interrupts, TLAPS, WellFoundedInduction

\* Where the processor is says which line it serves and what is in service.
Serving ==
    /\ cpu = "main" => line = NoLine
    /\ cpu = "pit_irq" => line = Timer /\ Timer \in isr
    /\ cpu = "kbd_irq" => line = Keyboard /\ Keyboard \in isr
    /\ iflag => cpu = "main"

\* Before sti no handler runs, and before pic_init nothing has an edge.
Startup ==
    /\ pc \in {"pic_init", "idt_setup"} => ~iflag /\ cpu = "main" /\ isr = {}
    /\ pc = "pic_init" => (obf => stale)

\* Nobody but the second controller pulls the cascade line.
Pulled == irr \subseteq Wired \cup {Timer, Keyboard}

IInv == TypeOK /\ NeverStuck /\ KeyHasInterrupt /\ Serving /\ Startup /\ Pulled

-----------------------------------------------------------------------------
\* A set of lines that is not empty has a most urgent one.
LEMMA TopIsTop ==
    ASSUME NEW S, S \subseteq Lines, S # {}
    PROVE  Top(S) \in S /\ \A m \in S : Top(S) <= m
<1>1. S \subseteq Nat
  BY DEF Lines, Pic1, Pic2
<1>2. PICK x \in S : \A y \in S : ~(<<y, x>> \in OpToRel(<, Nat))
  BY <1>1, WFMin, NatLessThanWellFounded
<1>3. \A y \in S : x <= y
  <2> TAKE y \in S
  <2>1. x \in Nat /\ y \in Nat
    BY <1>1
  <2>2. ~(y < x)
    BY <1>2, <2>1 DEF OpToRel
  <2> QED BY <2>1, <2>2
<1> QED BY <1>3 DEF Top

LEMMA InitInv == Init => IInv
<1> SUFFICES ASSUME Init PROVE IInv
  OBVIOUS
<1>1. irr \subseteq Lines /\ Pulled
  BY WiredAssumption DEF Init, Pulled, Lines, Pic1, Pic2, Timer
<1>2. TypeOK
  BY <1>1 DEF Init, TypeOK
<1>3. NeverStuck /\ KeyHasInterrupt /\ Serving /\ Startup
  BY DEF Init, NeverStuck, KeyHasInterrupt, Serving, Startup
<1> QED BY <1>1, <1>2, <1>3 DEF IInv

\* The steps of kmain.
LEMMA MainInv == IInv /\ Main => IInv'
<1> SUFFICES ASSUME IInv, Main PROVE IInv'
  OBVIOUS
<1> USE DEF IInv, TypeOK, NeverStuck, KeyHasInterrupt, Serving, Startup, Pulled
<1>1. CASE PicInit  BY <1>1 DEF PicInit
<1>2. CASE IdtSetup BY <1>2 DEF IdtSetup
<1>3. CASE PitInit  BY <1>3 DEF PitInit
<1> QED BY <1>1, <1>2, <1>3 DEF Main

\* What a handler's EOI ends: the line it runs for.
LEMMA EoiEndsOwn ==
    ASSUME IInv, cpu \in {"pit_irq", "kbd_irq"}, Eoi
    PROVE  line \in isr /\ line \in {Timer, Keyboard} /\ isr' = isr \ {line}
<1> DEFINE S == isr \cap Pic1
<1>1. line \in S /\ line \in {Timer, Keyboard}
  BY DEF IInv, Serving, Pic1, Timer, Keyboard
<1>2. Top(S) \in S /\ Top(S) <= line
  BY <1>1, TopIsTop DEF IInv, TypeOK
<1>3. Top(S) = line
  <2>1. CASE line = Timer
    BY <2>1, <1>2 DEF Timer, Pic1
  <2>2. CASE line = Keyboard
    <3>1. Timer \notin isr
      BY <2>2 DEF IInv, NeverStuck, Timer, Keyboard
    <3> QED BY <2>2, <1>2, <3>1 DEF Timer, Keyboard, Pic1
  <2> QED BY <1>1, <2>1, <2>2
<1> QED BY <1>1, <1>3 DEF Eoi

\* The steps of the handlers.
LEMMA HandlerInv == IInv /\ Handler => IInv'
<1> SUFFICES ASSUME IInv, Handler PROVE IInv'
  OBVIOUS
<1>1. CASE PitEoi
  <2>1. isr' = isr \ {line} /\ line = Timer
    BY <1>1, EoiEndsOwn DEF PitEoi, IInv, Serving
  <2> QED BY <1>1, <2>1 DEF PitEoi, IInv, TypeOK, NeverStuck, KeyHasInterrupt,
                            Serving, Startup, Pulled, Timer, Keyboard
<1>2. CASE KbdEoi
  <2>1. isr' = isr \ {line} /\ line = Keyboard
    BY <1>2, EoiEndsOwn DEF KbdEoi, IInv, Serving
  <2> QED BY <1>2, <2>1 DEF KbdEoi, IInv, TypeOK, NeverStuck, KeyHasInterrupt,
                            Serving, Startup, Pulled, Timer, Keyboard
<1>3. CASE KbdGetc
  BY <1>3 DEF KbdGetc, IInv, TypeOK, NeverStuck, KeyHasInterrupt, Serving,
              Startup, Pulled, Gate, Timer, Keyboard
<1>4. CASE Klog
  BY <1>4 DEF Klog, IInv, TypeOK, NeverStuck, KeyHasInterrupt, Serving,
              Startup, Pulled, Gate, Timer, Keyboard
<1>5. CASE Iret
  BY <1>5 DEF Iret, IInv, TypeOK, NeverStuck, KeyHasInterrupt, Serving,
              Startup, Pulled, Gate, Timer, Keyboard
<1> QED BY <1>1, <1>2, <1>3, <1>4, <1>5 DEF Handler

\* While no handler runs, neither the timer nor the keyboard is in service.
LEMMA Quiet ==
    ASSUME IInv, iflag
    PROVE  Timer \notin isr /\ Keyboard \notin isr /\ pc \in {"pit_init", "halt"}
BY DEF IInv, TypeOK, NeverStuck, Serving, Startup, NoLine, Timer, Keyboard

\* The line accepted was pending, and is behind the cascade or is itself asked
\* of the first controller.
LEMMA AcceptFacts ==
    ASSUME IInv, NEW m \in Pic1, NEW l \in Lines, Accept(m, l)
    PROVE  /\ l \in irr
           /\ \/ m = l /\ l \in Pic1
              \/ m = Cascade /\ l \in Pic2
<1>1. Pic1Asks # {} /\ Pic1Asks \subseteq Lines /\ m = Top(Pic1Asks)
  BY DEF Accept, Pic1Asks, Unmasked, Lines, Pic1, Cascade
<1>2. m \in Pic1Asks
  BY <1>1, TopIsTop
<1>3. CASE m # Cascade
  BY <1>2, <1>3 DEF Accept, Pic1Asks, Unmasked
<1>4. CASE m = Cascade
  <2>1. Cascade \notin irr
    BY WiredAssumption DEF IInv, Pulled, Timer, Keyboard, Cascade
  <2>2. Pic2Asks # {}
    BY <1>4, <1>2, <2>1 DEF Pic1Asks, Unmasked
  <2>3. Top(Pic2Asks) \in Pic2Asks
    BY <2>2, TopIsTop DEF Pic2Asks, Unmasked, Lines
  <2> QED BY <1>4, <2>3 DEF Accept, Pic2Asks, Unmasked
<1> QED BY <1>3, <1>4

LEMMA TakenInv == IInv /\ Taken => IInv'
<1> SUFFICES ASSUME IInv, NEW m \in Pic1, NEW l \in Lines, Accept(m, l)
             PROVE  IInv'
  BY DEF Taken
<1>1. /\ l \in irr
      /\ \/ m = l /\ l \in Pic1
         \/ m = Cascade /\ l \in Pic2
  BY AcceptFacts
<1>2. Timer \notin isr /\ Keyboard \notin isr /\ pc \in {"pit_init", "halt"}
  BY Quiet DEF Accept
<1>3. l \in {Timer, Keyboard} <=> m \in {Timer, Keyboard}
  BY <1>1 DEF Timer, Keyboard, Cascade, Pic2
<1>4. TypeOK'
  BY DEF IInv, TypeOK, Accept, Enter, Gate, Lines
<1>5. NeverStuck'
  BY <1>1, <1>2, <1>3 DEF NeverStuck, Accept, Enter, Timer, Keyboard, Cascade, Pic2
<1>6. KeyHasInterrupt'
  <2>1. iflag => cpu = "main"
    BY DEF IInv, Serving
  <2> QED BY <2>1 DEF IInv, KeyHasInterrupt, Accept, Enter, Gate, Timer, Keyboard
<1>7. Serving'
  BY DEF Serving, Accept, Enter, Gate, Timer, Keyboard
<1>8. Startup' /\ Pulled'
  BY <1>2 DEF IInv, Startup, Pulled, Accept, Enter
<1> QED BY <1>4, <1>5, <1>6, <1>7, <1>8 DEF IInv

\* What devices do.
LEMMA DevicesInv == IInv /\ Devices => IInv'
<1> SUFFICES ASSUME IInv, Devices PROVE IInv'
  OBVIOUS
<1>1. CASE \E l \in Wired \cup {Timer} : Raise(l)
  <2> PICK l \in Wired \cup {Timer} : Raise(l)
    BY <1>1
  <2>1. irr' \subseteq Lines /\ Pulled'
    BY WiredAssumption DEF Raise, IInv, TypeOK, Pulled, Lines, Pic1, Pic2, Timer
  <2>2. Keyboard \in irr => Keyboard \in irr'
    BY DEF Raise
  <2> QED BY <2>1, <2>2 DEF Raise, IInv, TypeOK, NeverStuck, KeyHasInterrupt,
                            Serving, Startup
<1>2. CASE Key
  <2>1. irr' \subseteq Lines /\ Pulled' /\ Keyboard \in irr'
    BY <1>2 DEF Key, IInv, TypeOK, Pulled, Lines, Pic1, Keyboard
  <2>2. TypeOK' /\ KeyHasInterrupt'
    BY <1>2, <2>1 DEF Key, IInv, TypeOK, KeyHasInterrupt
  <2>3. NeverStuck' /\ Serving' /\ Startup'
    BY <1>2 DEF Key, IInv, NeverStuck, Serving, Startup
  <2> QED BY <2>1, <2>2, <2>3 DEF IInv
<1>3. CASE Spurious1 \/ Spurious2
  <2>1. Timer \notin isr /\ Keyboard \notin isr /\ pc \in {"pit_init", "halt"}
        /\ cpu = "main"
    BY <1>3, Quiet DEF Spurious1, Spurious2, IInv, Serving
  <2>2. /\ isr' \subseteq isr \cup {Cascade} /\ irr' = irr
        /\ line' \in Lines /\ cpu' = "iret" /\ ~iflag'
        /\ UNCHANGED <<pc, obf, stale>>
    BY <1>3 DEF Spurious1, Spurious2, Enter, Gate, Timer, Keyboard, Lines, Pic1, Pic2
  <2>3. isr' \subseteq Lines /\ Timer \notin isr' /\ Keyboard \notin isr'
    BY <2>1, <2>2 DEF IInv, TypeOK, Lines, Pic1, Timer, Keyboard, Cascade
  <2>4. iflag' = FALSE
    BY <1>3 DEF Spurious1, Spurious2, Enter
  <2>5. TypeOK'
    BY <2>2, <2>3, <2>4 DEF IInv, TypeOK
  <2>6. NeverStuck' /\ Serving' /\ Startup' /\ Pulled'
    BY <2>1, <2>2, <2>3 DEF IInv, NeverStuck, Serving, Startup, Pulled
  <2>7. KeyHasInterrupt'
    BY <2>1, <2>2 DEF IInv, KeyHasInterrupt
  <2> QED BY <2>5, <2>6, <2>7 DEF IInv
<1> QED BY <1>1, <1>2, <1>3 DEF Devices

\* The invariant holds throughout.
THEOREM Invariant == Spec => []IInv
<1>1. IInv /\ [Next]_vars => IInv'
  <2>1. IInv /\ UNCHANGED vars => IInv'
    BY DEF vars, IInv, TypeOK, NeverStuck, KeyHasInterrupt, Serving, Startup, Pulled
  <2>2. Faulted => UNCHANGED vars
    BY DEF Faulted
  <2> QED BY <2>1, <2>2, MainInv, HandlerInv, TakenInv, DevicesInv DEF Next
<1> QED BY InitInv, <1>1, PTL DEF Spec

\* Every variable keeps its type, whatever lines are wired: no request is
\* given a vector without a gate.
THEOREM TypeCorrect == Spec => []TypeOK
<1>1. IInv => TypeOK
  BY DEF IInv
<1> QED BY Invariant, <1>1, PTL

\* The timer and the keyboard are never left in service by a handler that
\* has returned, as all other lines are.
THEOREM TimerAndKeyboardFree == Spec => []NeverStuck
<1>1. IInv => NeverStuck
  BY DEF IInv
<1> QED BY Invariant, <1>1, PTL

\* A scan code that arrives after pic_init always has its interrupt coming.
THEOREM NoKeyWithoutInterrupt == Spec => []KeyHasInterrupt
<1>1. IInv => KeyHasInterrupt
  BY DEF IInv
<1> QED BY Invariant, <1>1, PTL

\* The EOI of pit_irq and kbd_irq, which names no line, ends their own.
THEOREM EoiIsOwn == Spec => EoiEndsOwnLine
<1>1. IInv /\ [Next]_vars =>
        [cpu' # cpu /\ cpu \in {"pit_irq", "kbd_irq"} =>
            line \in isr /\ isr' = isr \ {line}]_vars
  <2> SUFFICES ASSUME IInv, Next, cpu' # cpu, cpu \in {"pit_irq", "kbd_irq"}
               PROVE  line \in isr /\ isr' = isr \ {line}
    BY DEF vars
  <2>1. ~iflag /\ ~Main
    BY DEF IInv, Serving, Startup, Main, PicInit, IdtSetup, PitInit
  <2>2. ~Taken /\ ~Devices
    BY <2>1 DEF Taken, Accept, Devices, Raise, Key, Spurious1, Spurious2
  <2>3. PitEoi \/ KbdEoi
    BY <2>1, <2>2 DEF Next, Handler, KbdGetc, Klog, Iret, Faulted
  <2> QED BY <2>3, EoiEndsOwn DEF PitEoi, KbdEoi
<1> QED BY Invariant, <1>1, PTL DEF Spec, EoiEndsOwnLine
=============================================================================
