----------------------------- MODULE ExceptionFrame -----------------------------
(***************************************************************************)
(* The registers of a halted program: where the processor and              *)
(* mriExceptionHandler save them (armv7-m_asm.S), the sections of the      *)
(* context through which g and G reach them (armv7-m.c, context.c,         *)
(* cmd_registers.c), and how mriCortexMExceptionHandler moves the          *)
(* exception frame when gdb has written a stack pointer.                   *)
(*                                                                         *)
(* Addresses count words, so that a stack pointer is aligned to 8 bytes    *)
(* when it is even.  One or two registers stand for each group that is     *)
(* saved in one place: r0 for R0-R3, r4 for R4-R11, pc for LR and PC, psp  *)
(* for what else is pushed with it, s0 and s1 for S0-S15, s16 for S16-S31. *)
(* Frames shrink with them and stay even.                                  *)
(***************************************************************************)
EXTENDS Integers, Sequences, SequencesExt

CONSTANTS
    LastWord,      \* memory is 0 .. LastWord
    MainTops,      \* where MSP and PSP may point when the program first halts
    ProcessTops,
    Values,        \* what gdb writes to a register or to memory
    Moves,         \* by how much it moves a stack pointer
    HandlerWords,  \* what the handler needs below MSP without a stack of its own
    MaxHalts,      \* bounds: how often the program halts,
    MaxWrites      \* and gdb writes

ASSUME FrameAssumption ==
    /\ LastWord \in Nat
    /\ MainTops \subseteq 0 .. LastWord
    /\ ProcessTops \subseteq 0 .. LastWord
    /\ Values \subseteq Nat
    /\ Moves \subseteq Int
    /\ HandlerWords \in Nat
    /\ MaxHalts \in Nat /\ MaxWrites \in Nat

VARIABLES
    ownStack,    \* DebugMon has the highest priority, and mriCortexMDebuggerStack
    fpu,         \* "none": MRI_DEVICE_HAS_FPU is 0; "off" in CPACR; "idle", no
                 \* context in use; "active"
    usesPsp,     \* the program runs in thread mode on the process stack
    phase,       \* "running", "halted", "lost" when the handler's stack is
    register,    \* the processor's registers
    memory,
    frame,       \* pExceptionStack
    frameSize,   \* exceptionStackSize
    stackPointer,\* mriCortexMState.sp
    pushed,      \* what mriExceptionHandler has pushed
    halts, writes,   \* counted for the bounds
    wanted,      \* history: the registers at the halt, and as gdb wrote them;
                 \* sp is Unknown once gdb has moved the frame by itself
    kept         \* history: memory as the program left it, and as gdb wrote it

configuration == <<ownStack, fpu, usesPsp>>
halt == <<frame, frameSize, stackPointer, pushed>>
vars == <<configuration, phase, register, memory, halt, halts, writes, wanted,
          kept>>

Words == 0 .. LastWord
Unknown == -1
Junk == 77

Integer == {"r0", "r4", "r12", "pc", "xpsr", "msp", "psp"}
Floats == {"s0", "s1", "s16", "fpscr"}
Names == Integer \cup Floats

HasFloats == fpu \in {"idle", "active"}

\* Where a name is in a list of names.
Position(names, name) == CHOOSE i \in DOMAIN names : names[i] = name

-----------------------------------------------------------------------------
(* The processor.                                                           *)

Basic == <<"r0", "r12", "pc", "xpsr">>
Extended == <<"r0", "r12", "pc", "xpsr", "s0", "s1", "fpscr", "reserved">>

\* Bit 4 of EXC_RETURN
Layout == IF fpu = "active" THEN Extended ELSE Basic

\* Bit 9 of the stacked xPSR: the stack pointer was not aligned.
WithAlignBit(flags, odd) == 2 * flags + odd
Flags(xpsr) == xpsr \div 2
AlignBit(xpsr) == xpsr % 2

Active == IF usesPsp THEN "psp" ELSE "msp"
Inactive == IF usesPsp THEN "msp" ELSE "psp"

Stacked(r, odd) ==
    [i \in DOMAIN Layout |->
        CASE Layout[i] = "xpsr" -> WithAlignBit(r.xpsr, odd)
          [] Layout[i] = "reserved" -> Junk
          [] OTHER -> r[Layout[i]]]

WithWords(m, base, words) ==
    [a \in Words |->
        IF a - base + 1 \in DOMAIN words THEN words[a - base + 1] ELSE m[a]]

\* The registers that an exception return loads from memory m.
Unstacked(r, m) ==
    LET base == r[Active]
        Word(name) == m[base + Position(Layout, name) - 1]
        end == base + Len(Layout)
        IsStacked(name) == name \in ToSet(Layout)
    IN  [name \in Names |->
            IF name = Active
            THEN IF AlignBit(Word("xpsr")) = 1 /\ end % 2 = 0 THEN end + 1 ELSE end
            ELSE IF name = "xpsr" THEN Flags(Word("xpsr"))
            ELSE IF IsStacked(name) THEN Word(name)
            ELSE r[name]]

-----------------------------------------------------------------------------
(* Halting: the exception, mriExceptionHandler and prepareThreadContext.    *)

AllFloats == <<"s0", "s1", "s16", "fpscr">>

\* Pushing S16-S31 also makes the processor write the S0-S15 for which it
\* had only reserved room in the frame.
PushedFloats ==
    CASE fpu = "active" -> <<"s16">>
      [] fpu = "idle"   -> AllFloats
      [] OTHER          -> <<>>

\* fakeFloats
FakeFloats == IF fpu = "off" THEN ToSet(AllFloats) ELSE {}

PushedNames == {"r4", "msp", "psp"} \cup ToSet(PushedFloats) \cup FakeFloats

\* Mutant: the word that aligned the stack is left out.
AutoStackedWordsUnaligned(xpsr) == Len(Layout)

\* autoStackedRegs
AutoStackedWords(xpsr) == Len(Layout) + AlignBit(xpsr)

Visible(r, sp) ==
    [name \in Integer \cup {"sp"} \cup Floats |->
        IF name = "sp" THEN sp
        ELSE IF name \in Floats /\ ~HasFloats THEN 0
        ELSE r[name]]

Halt ==
    LET sp == register[Active]
        odd == sp % 2
        base == sp - Len(Layout) - odd
        stacked == [register EXCEPT ![Active] = base]
    IN  /\ phase = "running"
        /\ halts < MaxHalts
        /\ base >= HandlerWords
        /\ phase' = "halted"
        /\ memory' = WithWords(memory, base, Stacked(register, odd))
        /\ frame' = base
        /\ LET words == AutoStackedWords(WithAlignBit(register.xpsr, odd))
           IN  /\ frameSize' = words
               /\ stackPointer' = base + words
        /\ pushed' = [name \in PushedNames |->
                        IF name \in FakeFloats THEN 0 ELSE stacked[name]]
        /\ register' = [name \in Names |-> IF name = Active THEN base ELSE Junk]
        /\ halts' = halts + 1
        /\ wanted' = Visible(register, sp)
        /\ kept' = memory
        /\ UNCHANGED <<configuration, writes>>

-----------------------------------------------------------------------------
(* The context: sections of adjacent words, here word by word, in the order *)
(* in which gdb numbers the registers.                                      *)

Numbering ==
    <<"r0", "r4", "r12", "sp", "pc", "xpsr", "msp", "psp">> \o
        IF fpu = "none" THEN <<>> ELSE AllFloats

InFrame(name) == [at |-> "frame", of |-> name]
OnStack(name) == [at |-> "pushed", of |-> name]
InState(name) == [at |-> "state", of |-> name]

FloatSections ==
    CASE fpu = "active" ->
            <<InFrame("s0"), InFrame("s1"), OnStack("s16"), InFrame("fpscr")>>
      [] fpu \in {"idle", "off"} ->
            <<OnStack("s0"), OnStack("s1"), OnStack("s16"), OnStack("fpscr")>>
      [] OTHER -> <<>>

\* Mutant: the frame is taken for one section.
SectionsOfFrameFirst ==
    <<InFrame("r0"), InFrame("r12"), OnStack("r4"), InState("sp"), InFrame("pc"),
      InFrame("xpsr"), OnStack("msp"), OnStack("psp")>> \o FloatSections

\* g_contextEntries
Sections ==
    <<InFrame("r0"), OnStack("r4"), InFrame("r12"), InState("sp"), InFrame("pc"),
      InFrame("xpsr"), OnStack("msp"), OnStack("psp")>> \o FloatSections

\* Context_Get and Context_Set look for the section that holds an index.
Located(name) == Sections[Position(Numbering, name)]

FrameAddress(name) == frame + Position(Layout, name) - 1

ContextGet(name) ==
    LET place == Located(name)
    IN  CASE place.at = "frame"  -> memory[FrameAddress(place.of)]
          [] place.at = "pushed" -> pushed[place.of]
          [] OTHER               -> stackPointer

\* Context_CopyFromBuffer, where only one register has another value.
ContextSet(name, value) ==
    LET place == Located(name)
    IN  CASE place.at = "frame" ->
                /\ memory' = [memory EXCEPT ![FrameAddress(place.of)] = value]
                /\ UNCHANGED <<stackPointer, pushed>>
          [] place.at = "pushed" ->
                /\ pushed' = [pushed EXCEPT ![place.of] = value]
                /\ UNCHANGED <<memory, stackPointer>>
          [] OTHER ->
                /\ stackPointer' = value
                /\ UNCHANGED <<memory, pushed>>

AtHalt == frame + frameSize

\* gdb moves SP, or the banked stack pointer in use, which the handler
\* overrides when SP has changed.
WantedOnce(name, value) ==
    LET sp == IF name = "sp" THEN value ELSE stackPointer
        banked == IF name = Active THEN value ELSE pushed[Active]
        expected == IF sp = AtHalt /\ banked # frame THEN Unknown ELSE sp
    IN  [wanted EXCEPT !["sp"] = expected,
                       ![name] = CASE name = "sp" -> expected
                                   [] name = "xpsr" -> Flags(value)
                                   [] name \in Floats /\ ~HasFloats -> @
                                   [] OTHER -> value]

\* What gdb writes to a register: it keeps the bit that records alignment.
Writable(name) ==
    CASE name = "xpsr" -> {WithAlignBit(v, AlignBit(ContextGet("xpsr"))) : v \in Values}
      [] name \in {"sp", "msp", "psp"} -> {ContextGet(name) + d : d \in Moves}
      [] OTHER -> Values

\* Whatever gdb moves, the frame stays in memory.
Fits(name, value) ==
    name \in {"sp", Active} =>
        /\ value - Len(Extended) - 1 >= HandlerWords
        /\ value + Len(Extended) + 1 <= LastWord

RegisterWriteCommand(name, value) ==
    /\ phase = "halted"
    /\ writes < MaxWrites
    /\ Fits(name, value)
    /\ ContextSet(name, value)
    /\ wanted' = WantedOnce(name, value)
    /\ writes' = writes + 1
    /\ UNCHANGED <<configuration, phase, register, frame, frameSize, halts, kept>>

\* M and X reach the frame as they reach any other memory; gdb writes to the two
\* words of the stack above it.
MemoryWriteCommand(a, value) ==
    /\ phase = "halted"
    /\ writes < MaxWrites
    /\ a \in AtHalt .. AtHalt + 1
    /\ memory' = [memory EXCEPT ![a] = value]
    /\ kept' = [kept EXCEPT ![a] = value]
    /\ writes' = writes + 1
    /\ UNCHANGED <<configuration, phase, register, halt, halts, wanted>>

-----------------------------------------------------------------------------
(* Resuming: the end of mriCortexMExceptionHandler, and the way back.       *)

\* Mutant: the stack pointer is banked as gdb wrote it.
BankedAtStackPointer ==
    IF stackPointer # AtHalt
    THEN [pushed EXCEPT ![Active] = stackPointer]
    ELSE pushed

\* Room for the frame is left below the stack pointer that gdb wrote.
Banked ==
    IF stackPointer # AtHalt
    THEN [pushed EXCEPT ![Active] = stackPointer - frameSize]
    ELSE pushed

Source(to, a) == frame + (a - to)

\* Mutant: words are copied from the lowest on, over the ones still to copy.
MovedAscending(to) ==
    FoldLeft(LAMBDA m, i : [m EXCEPT ![to + i] = m[frame + i]],
             memory, [i \in 1 .. frameSize |-> i - 1])

\* mri_memmove
Moved(to) ==
    [a \in Words |->
        IF a \in to .. to + frameSize - 1 THEN memory[Source(to, a)] ELSE memory[a]]

\* Without a stack of its own the handler's is below MSP, where the frame of a
\* program that runs on MSP may be moved to.
OverwritesHandler(to) ==
    /\ ~ownStack
    /\ ~usesPsp
    /\ to < frame
    /\ to + frameSize > frame - HandlerWords

\* Registers popped by mriExceptionHandler; the processor holds the others.
Popped(saved) ==
    [name \in Names |->
        IF name \in DOMAIN saved \ FakeFloats THEN saved[name] ELSE register[name]]

Resume ==
    LET saved == Banked
        to == saved[Active]
    IN  /\ phase = "halted"
        /\ memory' = Moved(to)
        /\ IF OverwritesHandler(to)
           THEN phase' = "lost" /\ UNCHANGED register
           ELSE /\ phase' = "running"
                /\ register' = Unstacked(Popped(saved), memory')
        /\ UNCHANGED <<configuration, halt, halts, writes, wanted, kept>>

-----------------------------------------------------------------------------

Init ==
    /\ ownStack \in BOOLEAN
    /\ fpu \in {"none", "off", "idle", "active"}
    /\ usesPsp \in BOOLEAN
    /\ phase = "running"
    /\ \E main \in MainTops, process \in ProcessTops :
          register = [name \in Names |->
                        CASE name = "msp"  -> main
                          [] name = "psp"  -> process
                          [] name = "r0"   -> 10
                          [] name = "r4"   -> 11
                          [] name = "r12"  -> 12
                          [] name = "pc"   -> 13
                          [] name = "xpsr" -> 14
                          [] name = "s0"   -> 15
                          [] name = "s1"   -> 16
                          [] name = "s16"  -> 17
                          [] OTHER         -> 18]
    /\ memory = [a \in Words |-> 100 + a]
    /\ frame = 0
    /\ frameSize = 0
    /\ stackPointer = 0
    /\ pushed = [name \in PushedNames |-> 0]
    /\ halts = 0
    /\ writes = 0
    /\ wanted = Visible(register, register[Active])
    /\ kept = memory

Next ==
    \/ Halt
    \/ \E name \in ToSet(Numbering) : \E value \in Writable(name) :
          RegisterWriteCommand(name, value)
    \/ \E a \in Words, value \in Values : MemoryWriteCommand(a, value)
    \/ Resume

Spec == Init /\ [][Next]_vars

-----------------------------------------------------------------------------
(* Properties.                                                              *)

Shown(name) ==
    IF name = "xpsr" THEN Flags(ContextGet(name)) ELSE ContextGet(name)

\* The registers that the program has, but for SP.
Available == Integer \cup IF HasFloats THEN Floats ELSE {}

\* g shows each register as the program had it when it halted or as gdb has
\* written it since, wherever it is saved.  The banked stack pointer in use
\* is shown with the frame on it.
ShowsRegisters ==
    phase = "halted" =>
        /\ \A name \in Available \ {Active} : Shown(name) = wanted[name]
        /\ wanted.sp # Unknown => ContextGet("sp") = wanted.sp

\* The program goes on with the registers that gdb has last seen or written,
\* wherever the frame was moved to.
RestoresRegisters ==
    phase = "running" /\ halts > 0 =>
        \A name \in Available \ {Active} : register[name] = wanted[name]

\* gdb has moved SP to an even word, and the processor will take it for odd.
Misaligns ==
    /\ frameSize > Len(Layout)
    /\ wanted.sp # Unknown
    /\ wanted.sp % 2 = 0

\* The program goes on with the stack pointer that gdb has written, unless
\* it was not aligned to 8 bytes at the halt and is now.
RestoresStackPointer ==
    phase = "running" /\ halts > 0 /\ wanted.sp # Unknown /\ ~Misaligns =>
        register[Active] = wanted.sp

\* The program goes on with the stack pointer that gdb has written.
StackPointerAsWritten ==
    phase = "running" /\ halts > 0 /\ wanted.sp # Unknown =>
        register[Active] = wanted.sp

\* The program finds what it had on its stack and what gdb has written there,
\* whether the frame was moved up or down.  The words of the old frame may
\* have been uncovered by moving it down.
KeepsStack ==
    phase = "running" /\ halts > 0 /\ wanted.sp # Unknown =>
        \A a \in Words :
            a >= wanted.sp /\ a \notin frame .. AtHalt - 1 => memory[a] = kept[a]
=============================================================================
