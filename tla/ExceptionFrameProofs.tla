-------------------------- MODULE ExceptionFrameProofs --------------------------
(***************************************************************************)
(* Proofs about ExceptionFrame, for stacks anywhere in memory, any number  *)
(* of halts, and gdb writing any registers and words any number of times.  *)
(***************************************************************************)
EXTENDS ExceptionFrame, SequenceTheorems, TLAPS

\* What an exception may put below a stack pointer.
MostWords == Len(Extended) + 1

Types ==
    /\ fpu \in {"none", "off", "idle", "active"}
    /\ usesPsp \in BOOLEAN
    /\ phase \in {"running", "halted", "lost"}
    /\ register \in [Names -> Int]
    /\ memory \in [Words -> Int]
    /\ wanted \in [Names \cup {"sp"} -> Int]
    /\ kept \in [Words -> Int]
    /\ halts \in Nat

\* The frame is in memory, and will be where gdb has moved it.  Its xPSR says
\* whether there is a word above it that aligned the stack.
FrameInMemory ==
    /\ frame \in Nat
    /\ frameSize \in Len(Layout) .. Len(Layout) + 1
    /\ AtHalt <= LastWord + 1
    /\ AlignBit(memory[FrameAddress("xpsr")]) = frameSize - Len(Layout)
    /\ pushed \in [PushedNames -> Int]
    /\ pushed[Active] # frame =>
          pushed[Active] >= MostWords /\ pushed[Active] + MostWords <= LastWord
    /\ stackPointer \in Int
    /\ stackPointer # AtHalt =>
          stackPointer >= MostWords /\ stackPointer + MostWords <= LastWord

\* The context is what gdb has seen and written, and memory outside of the frame
\* what the program and gdb have left there.
ContextAsWanted ==
    /\ \A name \in Available \ {Active} : Shown(name) = wanted[name]
    /\ wanted.sp = IF stackPointer = AtHalt /\ pushed[Active] # frame
                   THEN Unknown ELSE stackPointer
    /\ \A a \in Words : a \notin frame .. AtHalt - 1 => memory[a] = kept[a]

\* The program goes on with all of that, and with room for the next frame.
ProgramAsWanted ==
    /\ register[Active] <= LastWord + 1
    /\ RestoresRegisters
    /\ RestoresStackPointer
    /\ KeepsStack

FrameInv ==
    /\ Types
    /\ phase = "halted" => FrameInMemory /\ ContextAsWanted
    /\ phase = "running" => ProgramAsWanted

-----------------------------------------------------------------------------
(* Where the registers are.                                                 *)

\* Where a word of the context is.
Home(name) ==
    CASE name = "sp" -> "state"
      [] name \in {"r0", "r12", "pc", "xpsr"} -> "frame"
      [] name \in {"s0", "s1", "fpscr"} /\ fpu = "active" -> "frame"
      [] OTHER -> "pushed"

\* Lists are joined element by element.
LEMMA JoinedToNothing ==
    ASSUME NEW a, NEW b, NEW c, NEW d, NEW e, NEW f, NEW g, NEW h
    PROVE  <<a, b, c, d, e, f, g, h>> \o <<>> = <<a, b, c, d, e, f, g, h>>
<1>. DEFINE S == {a, b, c, d, e, f, g, h}
<1>1. /\ a \in S /\ b \in S /\ c \in S /\ d \in S
      /\ e \in S /\ f \in S /\ g \in S /\ h \in S
  OBVIOUS
<1>. HIDE DEF S
<1>2. <<a, b, c, d, e, f, g, h>> \in Seq(S)
  BY <1>1
<1>. QED
  BY <1>2, ConcatEmptySeq

\* Lists are joined element by element.
LEMMA Joined ==
    ASSUME NEW a, NEW b, NEW c, NEW d, NEW e, NEW f, NEW g, NEW h,
           NEW w, NEW x, NEW y, NEW z
    PROVE  <<a, b, c, d, e, f, g, h>> \o <<w, x, y, z>>
                = <<a, b, c, d, e, f, g, h, w, x, y, z>>
<1>. DEFINE S == {a, b, c, d, e, f, g, h, w, x, y, z}
            s == <<a, b, c, d, e, f, g, h>>
            t == <<w, x, y, z>>
            j == <<a, b, c, d, e, f, g, h, w, x, y, z>>
<1>1. a \in S /\ b \in S /\ c \in S /\ d \in S /\ e \in S /\ f \in S
         /\ g \in S /\ h \in S /\ w \in S /\ x \in S /\ y \in S /\ z \in S
  OBVIOUS
<1>. HIDE DEF S
<1>2. s \in Seq(S) /\ t \in Seq(S) /\ j \in Seq(S)
  BY <1>1
<1>3. Len(s) = 8 /\ Len(t) = 4 /\ Len(j) = 12
  OBVIOUS
<1>4. s \o t \in Seq(S) /\ Len(s \o t) = 12
  BY <1>2, <1>3
<1>5. \A i \in 1 .. 12 : (s \o t)[i] = IF i <= 8 THEN s[i] ELSE t[i - 8]
  BY <1>2, <1>3, ConcatProperties
<1>6. \A i \in 1 .. 12 : (s \o t)[i] = j[i]
  BY <1>5
<1>. QED
  BY <1>2, <1>3, <1>4, <1>6, SeqEqual

\* The order in which gdb numbers the registers.
LEMMA Numbered ==
    /\ fpu = "none" =>
          Numbering = <<"r0", "r4", "r12", "sp", "pc", "xpsr", "msp", "psp">>
    /\ fpu # "none" =>
          Numbering = <<"r0", "r4", "r12", "sp", "pc", "xpsr", "msp", "psp",
                        "s0", "s1", "s16", "fpscr">>
<1>1. <<"r0", "r4", "r12", "sp", "pc", "xpsr", "msp", "psp">> \o <<>>
        = <<"r0", "r4", "r12", "sp", "pc", "xpsr", "msp", "psp">>
  BY JoinedToNothing, Zenon
<1>2. <<"r0", "r4", "r12", "sp", "pc", "xpsr", "msp", "psp">> \o
            <<"s0", "s1", "s16", "fpscr">>
        = <<"r0", "r4", "r12", "sp", "pc", "xpsr", "msp", "psp",
            "s0", "s1", "s16", "fpscr">>
  BY Joined
<1>3. CASE fpu = "none"
  BY <1>1, <1>3, Zenon DEF Numbering
<1>4. CASE fpu # "none"
  BY <1>2, <1>4, Zenon DEF Numbering, AllFloats
<1>. QED
  BY <1>3, <1>4, Zenon

\* The sections, in that order.
LEMMA Sectioned ==
    ASSUME fpu \in {"none", "off", "idle", "active"}
    PROVE  \A i \in DOMAIN Numbering :
              Sections[i] = [at |-> Home(Numbering[i]), of |-> Numbering[i]]
<1>. DEFINE first == <<InFrame("r0"), OnStack("r4"), InFrame("r12"), InState("sp"),
                       InFrame("pc"), InFrame("xpsr"), OnStack("msp"), OnStack("psp")>>
<1>1. CASE fpu = "none"
  <2>1. Sections = first
    <3>1. first \o <<>> = first
      BY JoinedToNothing, Zenon
    <3>2. FloatSections = <<>>
      BY <1>1 DEF FloatSections
    <3>. QED
      BY <3>1, <3>2, Zenon DEF Sections
  <2>. QED
    BY <1>1, <2>1, Numbered DEF InFrame, OnStack, InState, Home
<1>2. CASE fpu = "active"
  <2>1. Sections = <<InFrame("r0"), OnStack("r4"), InFrame("r12"), InState("sp"),
                     InFrame("pc"), InFrame("xpsr"), OnStack("msp"), OnStack("psp"),
                     InFrame("s0"), InFrame("s1"), OnStack("s16"), InFrame("fpscr")>>
    <3>1. FloatSections =
            <<InFrame("s0"), InFrame("s1"), OnStack("s16"), InFrame("fpscr")>>
      BY <1>2 DEF FloatSections
    <3>. QED
      BY <3>1, Joined DEF Sections
  <2>. QED
    BY <1>2, <2>1, Numbered DEF InFrame, OnStack, InState, Home
<1>3. CASE fpu \in {"idle", "off"}
  <2>1. Sections = <<InFrame("r0"), OnStack("r4"), InFrame("r12"), InState("sp"),
                     InFrame("pc"), InFrame("xpsr"), OnStack("msp"), OnStack("psp"),
                     OnStack("s0"), OnStack("s1"), OnStack("s16"), OnStack("fpscr")>>
    <3>1. FloatSections =
            <<OnStack("s0"), OnStack("s1"), OnStack("s16"), OnStack("fpscr")>>
      BY <1>3 DEF FloatSections
    <3>. QED
      BY <3>1, Joined DEF Sections
  <2>. QED
    BY <1>3, <2>1, Numbered DEF InFrame, OnStack, InState, Home
<1>. QED
  BY <1>1, <1>2, <1>3

\* Context_Get and Context_Set find each register where it has been saved.
LEMMA LocatedAtHome ==
    ASSUME fpu \in {"none", "off", "idle", "active"}, NEW name \in ToSet(Numbering)
    PROVE  Located(name) = [at |-> Home(name), of |-> name]
<1>1. Position(Numbering, name) \in DOMAIN Numbering
      /\ Numbering[Position(Numbering, name)] = name
  BY DEF Position, ToSet
<1>. QED
  BY <1>1, Sectioned DEF Located

\* The frame holds an even number of words, and one may align it.
LEMMA FrameSizes ==
    ASSUME fpu \in {"none", "off", "idle", "active"}
    PROVE  /\ MostWords = 9
           /\ Len(Layout) \in {4, 8}
           /\ DOMAIN Layout = 1 .. Len(Layout)
           /\ LastWord \in Nat /\ HandlerWords \in Nat
<1>1. Len(Basic) = 4 /\ DOMAIN Basic = 1 .. 4
  BY DEF Basic
<1>2. Len(Extended) = 8 /\ DOMAIN Extended = 1 .. 8
  BY DEF Extended
<1>3. MostWords = 9
  BY <1>2 DEF MostWords
<1>4. Layout = Basic \/ Layout = Extended
  BY DEF Layout
<1>5. LastWord \in Nat /\ HandlerWords \in Nat
  BY FrameAssumption
<1>. QED
  BY <1>1, <1>2, <1>3, <1>4, <1>5

\* Each word of a frame has a place of its own.
LEMMA HasPlace ==
    ASSUME fpu \in {"none", "off", "idle", "active"}, NEW name \in ToSet(Layout)
    PROVE  /\ Position(Layout, name) \in 1 .. Len(Layout)
           /\ Layout[Position(Layout, name)] = name
<1>1. \E i \in DOMAIN Layout : Layout[i] = name
  BY DEF ToSet
<1>. QED
  BY <1>1, FrameSizes DEF Position

\* The frame holds the registers whose home it is.
LEMMA FrameHolds ==
    ASSUME fpu \in {"none", "off", "idle", "active"}
    PROVE  ToSet(Layout) =
              {"r0", "r12", "pc", "xpsr"} \cup
                  IF fpu = "active" THEN {"s0", "s1", "fpscr", "reserved"} ELSE {}
<1>1. fpu = "active" => ToSet(Layout) = {"r0", "r12", "pc", "xpsr"} \cup
                                        {"s0", "s1", "fpscr", "reserved"}
  BY DEF ToSet, Layout, Extended
<1>2. fpu # "active" => ToSet(Layout) = {"r0", "r12", "pc", "xpsr"}
  BY DEF ToSet, Layout, Basic
<1>. QED
  BY <1>1, <1>2

\* What mriExceptionHandler pushes.
LEMMA PushHolds ==
    ASSUME fpu \in {"none", "off", "idle", "active"}
    PROVE  /\ ToSet(PushedFloats) =
                CASE fpu = "active" -> {"s16"}
                  [] fpu = "idle" -> {"s0", "s1", "s16", "fpscr"}
                  [] OTHER -> {}
           /\ FakeFloats = IF fpu = "off" THEN {"s0", "s1", "s16", "fpscr"} ELSE {}
<1>1. fpu = "active" => ToSet(PushedFloats) = {"s16"}
  BY DEF ToSet, PushedFloats
<1>2. fpu = "idle" => ToSet(PushedFloats) = {"s0", "s1", "s16", "fpscr"}
  BY DEF ToSet, PushedFloats, AllFloats
<1>3. fpu \notin {"active", "idle"} => ToSet(PushedFloats) = {}
  BY DEF ToSet, PushedFloats
<1>4. ToSet(AllFloats) = {"s0", "s1", "s16", "fpscr"}
  BY DEF ToSet, AllFloats
<1>. QED
  BY <1>1, <1>2, <1>3, <1>4 DEF FakeFloats

\* The names of the registers.
LEMMA NumberedNames ==
    ASSUME fpu \in {"none", "off", "idle", "active"}
    PROVE  ToSet(Numbering) =
              Integer \cup {"sp"} \cup IF fpu = "none" THEN {} ELSE Floats
<1>1. fpu = "none" => ToSet(Numbering) = Integer \cup {"sp"}
  BY Numbered DEF ToSet, Integer
<1>2. fpu # "none" => ToSet(Numbering) = Integer \cup {"sp"} \cup Floats
  BY Numbered DEF ToSet, Integer, Floats
<1>. QED
  BY <1>1, <1>2

\* Each register of the context has one home.
LEMMA Homes ==
    ASSUME fpu \in {"none", "off", "idle", "active"}, NEW name \in ToSet(Numbering)
    PROVE  /\ Home(name) \in {"frame", "pushed", "state"}
           /\ Home(name) = "frame" <=> name \in ToSet(Layout)
           /\ Home(name) = "pushed" => name \in PushedNames
           /\ Home(name) = "pushed" /\ name \in Available => name \notin FakeFloats
           /\ Home(name) = "state" <=> name = "sp"
BY FrameHolds, PushHolds, NumberedNames
   DEF Home, PushedNames, Available, HasFloats, Integer, Floats

\* What the context shows and what of it there is.
LEMMA ContextNames ==
    ASSUME fpu \in {"none", "off", "idle", "active"}
    PROVE  /\ Available \subseteq ToSet(Numbering)
           /\ Available \subseteq Names
           /\ ToSet(Numbering) \subseteq Names \cup {"sp"}
           /\ "sp" \notin Names
           /\ Active \in {"msp", "psp"} /\ Active \in Available
           /\ Active \in PushedNames \ FakeFloats
           /\ Active \notin ToSet(Layout)
           /\ Home(Active) = "pushed"
           /\ "xpsr" \in ToSet(Layout) /\ "xpsr" \in Available
BY FrameHolds, PushHolds, NumberedNames
   DEF Available, HasFloats, Integer, Floats, Names, Active, PushedNames, Home

\* The word of a register of the context.
Saved(name, mem, base, words, sp) ==
    CASE Home(name) = "frame"  -> mem[base + Position(Layout, name) - 1]
      [] Home(name) = "pushed" -> words[name]
      [] OTHER                 -> sp

\* Context_Get reads it, in the state after a step as well.
LEMMA GetsSaved ==
    ASSUME fpu \in {"none", "off", "idle", "active"}, NEW name \in ToSet(Numbering)
    PROVE  /\ ContextGet(name) = Saved(name, memory, frame, pushed, stackPointer)
           /\ configuration' = configuration =>
                 ContextGet(name)' = Saved(name, memory', frame', pushed', stackPointer')
<1>1. Located(name) = [at |-> Home(name), of |-> name]
  BY LocatedAtHome
<1>2. Home(name) \in {"frame", "pushed", "state"}
  BY Homes
<1>3. ContextGet(name) = Saved(name, memory, frame, pushed, stackPointer)
  BY <1>1, <1>2 DEF ContextGet, Saved, FrameAddress
<1>4. ASSUME configuration' = configuration
      PROVE  ContextGet(name)' = Saved(name, memory', frame', pushed', stackPointer')
  <2>1. fpu' = fpu
    BY <1>4 DEF configuration
  <2>2. Located(name)' = Located(name) /\ Layout' = Layout
    BY <2>1 DEF Located, Sections, FloatSections, Numbering, Layout
  <2>3. FrameAddress(name)' = frame' + Position(Layout, name) - 1
    BY <2>2 DEF FrameAddress, Position
  <2>. QED
    BY <1>1, <1>2, <2>2, <2>3 DEF ContextGet, Saved
<1>. QED
  BY <1>3, <1>4

\* A step leaves the configuration alone, and what depends on nothing else.
LEMMA SameConfiguration ==
    ASSUME configuration' = configuration
    PROVE  /\ fpu' = fpu /\ usesPsp' = usesPsp /\ ownStack' = ownStack
           /\ Layout' = Layout
           /\ Active' = Active
           /\ Available' = Available
           /\ FakeFloats' = FakeFloats
           /\ PushedNames' = PushedNames
           /\ FrameAddress("xpsr")' = frame' + Position(Layout, "xpsr") - 1
<1>1. fpu' = fpu /\ usesPsp' = usesPsp /\ ownStack' = ownStack
  BY DEF configuration
<1>2. Layout' = Layout
  BY <1>1 DEF Layout
<1>3. Active' = Active
  BY <1>1 DEF Active
<1>4. Available' = Available
  BY <1>1 DEF Available, HasFloats
<1>5. FakeFloats' = FakeFloats
  BY <1>1 DEF FakeFloats
<1>6. PushedNames' = PushedNames
  BY <1>1, <1>5 DEF PushedNames, PushedFloats
<1>7. FrameAddress("xpsr")' = frame' + Position(Layout, "xpsr") - 1
  BY <1>2 DEF FrameAddress, Position
<1>. QED
  BY <1>1, <1>2, <1>3, <1>4, <1>5, <1>6, <1>7

\* The xPSR of the frame keeps the flags and the bit that records alignment.
LEMMA StackedFlags ==
    ASSUME NEW flags \in Int, NEW odd \in 0 .. 1
    PROVE  /\ WithAlignBit(flags, odd) \in Int
           /\ Flags(WithAlignBit(flags, odd)) = flags
           /\ AlignBit(WithAlignBit(flags, odd)) = odd
BY DEF WithAlignBit, Flags, AlignBit

-----------------------------------------------------------------------------
(* The invariant.                                                           *)

\* Before the first halt nothing is asked.
LEMMA FrameInit == Init => FrameInv
<1>. SUFFICES ASSUME Init PROVE FrameInv
  OBVIOUS
<1>1. fpu \in {"none", "off", "idle", "active"} /\ phase = "running" /\ halts = 0
  BY DEF Init
<1>2. PICK main \in MainTops, process \in ProcessTops :
        register = [name \in Names |->
                        CASE name = "msp"  -> main
                          [] name = "psp"  -> process
                          [] name = "r0"   -> 10
                          [] name = "r4"   -> 11
                          [] name = "r12"  -> 12
                          [] name = "pc"   -> 13
                          [] name = "xpsr" -> 14
                          [] name = "s0"   -> 15
                          [] name = "s1"   -> 16
                          [] name = "s16"  -> 17
                          [] OTHER         -> 18]
  BY DEF Init
<1>3. main \in 0 .. LastWord /\ process \in 0 .. LastWord /\ LastWord \in Nat
  BY FrameAssumption
<1>4. register \in [Names -> Int]
  BY <1>2, <1>3
<1>5. register[Active] \in Int /\ register[Active] <= LastWord + 1
  BY <1>2, <1>3 DEF Active, Names, Integer
<1>6. Visible(register, register[Active]) \in [Names \cup {"sp"} -> Int]
  BY <1>4, <1>5 DEF Visible, Names, Integer, Floats
<1>7. Types
  BY <1>1, <1>3, <1>4, <1>6 DEF Types, Init, Words
<1>. QED
  BY <1>1, <1>5, <1>7
     DEF FrameInv, ProgramAsWanted, RestoresRegisters, RestoresStackPointer, KeepsStack

\* The exception saves every register where the context looks for it.
LEMMA FrameHalt == FrameInv /\ Halt => FrameInv'
<1>. SUFFICES ASSUME FrameInv, Halt PROVE FrameInv'
  OBVIOUS
<1>. DEFINE sp == register[Active]
            odd == sp % 2
            n == Len(Layout)
            base == sp - n - odd
            stacked == [register EXCEPT ![Active] = base]
            place(name) == Position(Layout, name)
<1>0. configuration' = configuration
  BY DEF Halt
<1>1. Types /\ ProgramAsWanted /\ fpu \in {"none", "off", "idle", "active"}
  BY DEF FrameInv, Halt, Types
<1>2. n \in {4, 8} /\ DOMAIN Layout = 1 .. n /\ LastWord \in Nat /\ HandlerWords \in Nat
  BY <1>1, FrameSizes
<1>3. Active \in Names \ {"sp"} /\ Active \in Available
  BY <1>1, ContextNames
<1>4. sp \in Int /\ sp <= LastWord + 1 /\ odd \in 0 .. 1 /\ base \in Nat
  BY <1>1, <1>2, <1>3 DEF Types, ProgramAsWanted, Halt
<1>5. register.xpsr \in Int
  BY <1>1 DEF Types, Names, Integer
<1>6. /\ phase' = "halted"
      /\ memory' = WithWords(memory, base, Stacked(register, odd))
      /\ frame' = base
      /\ frameSize' = n + odd
      /\ stackPointer' = sp
      /\ AtHalt' = sp
      /\ pushed' = [name \in PushedNames |->
                      IF name \in FakeFloats THEN 0 ELSE stacked[name]]
      /\ register' = [name \in Names |-> IF name = Active THEN base ELSE Junk]
      /\ halts' = halts + 1
      /\ wanted' = Visible(register, sp)
      /\ kept' = memory
  <2>1. frameSize' = n + odd /\ stackPointer' = base + (n + odd)
    BY <1>4, <1>5, StackedFlags DEF Halt, AutoStackedWords
  <2>2. frame' = base
    BY DEF Halt
  <2>3. base + (n + odd) = sp
    BY <1>2, <1>4
  <2>. QED
    BY <2>1, <2>2, <2>3 DEF Halt, AtHalt
<1>. HIDE DEF base
<1>7. base + n + odd = sp
  BY <1>2, <1>4 DEF base
<1>8. Stacked(register, odd) \in [1 .. n -> Int]
  <2>1. \A i \in 1 .. n : Layout[i] \in Names \cup {"reserved"}
    <3>1. \A i \in 1 .. n : Layout[i] \in ToSet(Layout)
      BY <1>2 DEF ToSet
    <3>. QED
      BY <3>1, <1>1, FrameHolds DEF Names, Integer, Floats
  <2>2. WithAlignBit(register.xpsr, odd) \in Int
    BY <1>4, <1>5, StackedFlags
  <2>3. \A i \in 1 .. n : register[Layout[i]] \in Int \/ Layout[i] = "reserved"
    BY <1>1, <2>1 DEF Types
  <2>. QED
    BY <1>2, <2>2, <2>3 DEF Stacked, Junk
<1>9. /\ memory' \in [Words -> Int]
      /\ \A a \in Words : a \notin base .. sp - 1 => memory'[a] = memory[a]
      /\ \A i \in 1 .. n : memory'[base + i - 1] = Stacked(register, odd)[i]
  <2>1. memory' = [a \in Words |-> IF a - base + 1 \in 1 .. n
                                   THEN Stacked(register, odd)[a - base + 1]
                                   ELSE memory[a]]
    BY <1>6, <1>8 DEF WithWords
  <2>2. memory' \in [Words -> Int]
    BY <1>1, <1>8, <2>1 DEF Types
  <2>3. \A a \in Words : a \notin base .. sp - 1 => memory'[a] = memory[a]
    BY <1>2, <1>4, <1>7, <2>1 DEF Words
  <2>4. ASSUME NEW i \in 1 .. n
        PROVE  memory'[base + i - 1] = Stacked(register, odd)[i]
    <3>1. base + i - 1 \in Words /\ (base + i - 1) - base + 1 = i
      BY <1>2, <1>4, <1>7 DEF Words
    <3>. HIDE DEF n, odd, sp
    <3>. QED
      BY <2>1, <3>1
  <2>. QED
    BY <2>2, <2>3, <2>4
<1>10. \A name \in ToSet(Layout) :
          /\ name = "xpsr" =>
                memory'[base + place(name) - 1] = WithAlignBit(register.xpsr, odd)
          /\ name \notin {"xpsr", "reserved"} =>
                memory'[base + place(name) - 1] = register[name]
  <2>. TAKE name \in ToSet(Layout)
  <2>1. place(name) \in 1 .. n /\ Layout[place(name)] = name
    BY <1>1, HasPlace
  <2>2. memory'[base + place(name) - 1] = Stacked(register, odd)[place(name)]
    BY <1>9, <2>1
  <2>. QED
    BY <1>2, <2>1, <2>2 DEF Stacked
<1>11. wanted' \in [Names \cup {"sp"} -> Int] /\ wanted'.sp = sp
       /\ \A name \in Available : wanted'[name] = register[name]
  <2>1. wanted' = Visible(register, sp)
    BY <1>6
  <2>2. wanted' \in [Names \cup {"sp"} -> Int] /\ wanted'.sp = sp
    BY <2>1, <1>1, <1>4 DEF Visible, Types, Names, Integer, Floats
  <2>3. \A name \in Available : wanted'[name] = register[name]
    BY <2>1 DEF Visible, Available, Names, Integer, Floats
  <2>. QED
    BY <2>2, <2>3
<1>12. Types'
  <2>1. register' \in [Names -> Int]
    BY <1>4, <1>6 DEF Junk
  <2>2. fpu' = fpu /\ usesPsp' = usesPsp
    BY <1>0, SameConfiguration
  <2>. QED
    BY <1>1, <1>6, <1>9, <1>11, <2>1, <2>2 DEF Types
<1>13. pushed' \in [PushedNames -> Int] /\ pushed'[Active] = base
       /\ \A name \in PushedNames \ (FakeFloats \cup {Active}) :
             pushed'[name] = register[name]
  <2>1. PushedNames \subseteq Names
    BY <1>1, PushHolds DEF PushedNames, Names, Integer, Floats
  <2>2. Active \in PushedNames \ FakeFloats
    BY <1>1, ContextNames
  <2>3. stacked \in [Names -> Int] /\ stacked[Active] = base
        /\ \A name \in Names \ {Active} : stacked[name] = register[name]
    BY <1>1, <1>3, <1>4 DEF Types
  <2>. HIDE DEF stacked
  <2>. QED
    BY <1>6, <2>1, <2>2, <2>3
<1>14. FrameInMemory'
  <2>1. AlignBit(memory'[base + place("xpsr") - 1]) = odd
    BY <1>1, <1>4, <1>5, <1>10, ContextNames, StackedFlags
  <2>2. FrameAddress("xpsr")' = base + place("xpsr") - 1
    BY <1>0, <1>6, SameConfiguration
  <2>3. Layout' = Layout /\ Active' = Active /\ PushedNames' = PushedNames
    BY <1>0, SameConfiguration
  <2>. HIDE DEF place, odd, sp
  <2>. QED
    BY <1>2, <1>4, <1>6, <1>13, <2>1, <2>2, <2>3 DEF FrameInMemory
<1>15. ContextAsWanted'
  <2>1. Available' = Available /\ Active' = Active
    BY <1>0, SameConfiguration
  <2>2. ASSUME NEW name \in Available \ {Active}
        PROVE  Shown(name)' = wanted'[name]
    <3>1. name \in ToSet(Numbering) /\ name # "sp" /\ name # "reserved"
      BY <1>1, ContextNames DEF Names, Integer, Floats
    <3>2. ContextGet(name)' = Saved(name, memory', frame', pushed', stackPointer')
      BY <1>0, <1>1, <3>1, GetsSaved
    <3>3. CASE Home(name) = "frame"
      <4>1. name \in ToSet(Layout)
        BY <1>1, <3>1, <3>3, Homes
      <4>2. ContextGet(name)' = memory'[base + place(name) - 1]
        BY <1>6, <3>2, <3>3 DEF Saved
      <4>. QED
        BY <1>4, <1>5, <1>10, <1>11, <3>1, <4>1, <4>2, StackedFlags DEF Shown
    <3>4. CASE Home(name) # "frame"
      <4>1. Home(name) = "pushed" /\ name \in PushedNames \ (FakeFloats \cup {Active})
        BY <1>1, <3>1, <3>4, Homes
      <4>2. name # "xpsr"
        BY <1>1, <3>1, <3>4, Homes, ContextNames
      <4>. QED
        BY <1>11, <1>13, <3>2, <4>1, <4>2 DEF Shown, Saved
    <3>. QED
      BY <3>3, <3>4
  <2>. QED
    BY <1>6, <1>9, <1>11, <1>13, <2>1, <2>2 DEF ContextAsWanted
<1>. QED
  BY <1>6, <1>12, <1>14, <1>15 DEF FrameInv

\* What gdb may write to a register is a number.
LEMMA WantedType ==
    ASSUME Types, NEW name \in ToSet(Numbering), NEW value \in Int,
           stackPointer \in Int, pushed[Active] \in Int
    PROVE  WantedOnce(name, value) \in [Names \cup {"sp"} -> Int]
<1>. DEFINE sp == IF name = "sp" THEN value ELSE stackPointer
            banked == IF name = Active THEN value ELSE pushed[Active]
            expected == IF sp = AtHalt /\ banked # frame THEN Unknown ELSE sp
            new == CASE name = "sp" -> expected
                     [] name = "xpsr" -> Flags(value)
                     [] name \in Floats /\ ~HasFloats -> wanted[name]
                     [] OTHER -> value
<1>1. name \in Names \cup {"sp"} /\ wanted \in [Names \cup {"sp"} -> Int]
  BY ContextNames DEF Types
<1>2. expected \in Int
  BY DEF Unknown
<1>3. new \in Int
  <2>1. Flags(value) \in Int /\ wanted[name] \in Int
    BY <1>1 DEF Flags
  <2>. HIDE DEF expected
  <2>. QED
    BY <1>2, <2>1 DEF Floats
<1>4. WantedOnce(name, value) = [[wanted EXCEPT !["sp"] = expected] EXCEPT ![name] = new]
  BY Zenon DEF WantedOnce
<1>. HIDE DEF expected, new
<1>. QED
  BY <1>1, <1>2, <1>3, <1>4

\* Only the register that gdb writes changes, and SP as the handler will see it.
LEMMA OneWanted ==
    ASSUME Types, NEW name \in ToSet(Numbering), NEW value \in Int,
           NEW sp \in Int, sp = IF name = "sp" THEN value ELSE stackPointer,
           NEW banked \in Int,
           banked = IF name = Active THEN value ELSE pushed[Active]
    PROVE  /\ WantedOnce(name, value).sp =
                 IF sp = AtHalt /\ banked # frame THEN Unknown ELSE sp
           /\ \A other \in Available :
                 WantedOnce(name, value)[other] =
                    IF other # name THEN wanted[other]
                    ELSE IF name = "xpsr" THEN Flags(value) ELSE value
<1>. DEFINE expected == IF sp = AtHalt /\ banked # frame THEN Unknown ELSE sp
            w == WantedOnce(name, value)
            new == CASE name = "sp" -> expected
                     [] name = "xpsr" -> Flags(value)
                     [] name \in Floats /\ ~HasFloats -> wanted[name]
                     [] OTHER -> value
<1>1. name \in Names \cup {"sp"} /\ "sp" \notin Names /\ Available \subseteq Names
  BY ContextNames DEF Types
<1>2. wanted \in [Names \cup {"sp"} -> Int]
  BY DEF Types
<1>3. expected \in Int
  BY DEF Unknown
<1>4. w = [[wanted EXCEPT !["sp"] = expected] EXCEPT ![name] = new]
  BY <1>1, <1>2, Zenon DEF WantedOnce
<1>5. name = "sp" => w = [[wanted EXCEPT !["sp"] = expected] EXCEPT !["sp"] = expected]
  <2>1. name = "sp" => new = expected
    BY DEF Floats
  <2>. HIDE DEF w, new, expected
  <2>. QED
    BY <1>4, <2>1
<1>6. Flags(value) \in Int
  BY DEF Flags
<1>7. new \in Int
  BY <1>1, <1>2, <1>3, <1>6
<1>. HIDE DEF expected, w
<1>8. CASE name = "sp"
  <2>1. w \in [Names \cup {"sp"} -> Int] /\ w.sp = expected
    BY <1>2, <1>3, <1>5, <1>8
  <2>2. \A other \in Available : w[other] = wanted[other]
    BY <1>1, <1>2, <1>5, <1>8
  <2>. QED
    BY <1>1, <1>8, <2>1, <2>2 DEF w, expected
<1>9. CASE name # "sp"
  <2>1. name \in Available => new = IF name = "xpsr" THEN Flags(value) ELSE value
    BY <1>9 DEF Available, Integer, Floats
  <2>. HIDE DEF new
  <2>2. w \in [Names \cup {"sp"} -> Int] /\ w.sp = expected
    BY <1>1, <1>2, <1>3, <1>4, <1>7, <1>9
  <2>3. \A other \in Available :
           w[other] = IF other # name THEN wanted[other] ELSE new
    BY <1>1, <1>2, <1>4, <1>9
  <2>. QED
    BY <2>1, <2>2, <2>3 DEF w, expected
<1>. QED
  BY <1>8, <1>9

\* The words of the frame are apart, in memory and below AtHalt.
LEMMA FrameWords ==
    ASSUME Types, FrameInMemory, NEW name \in ToSet(Layout)
    PROVE  /\ FrameAddress(name) \in Words
           /\ FrameAddress(name) \in frame .. AtHalt - 1
           /\ \A other \in ToSet(Layout) :
                 FrameAddress(other) = FrameAddress(name) => other = name
<1>1. fpu \in {"none", "off", "idle", "active"}
  BY DEF Types
<1>2. \A other \in ToSet(Layout) :
         /\ Position(Layout, other) \in 1 .. Len(Layout)
         /\ Layout[Position(Layout, other)] = other
  BY <1>1, HasPlace
<1>3. Len(Layout) \in {4, 8} /\ LastWord \in Nat
  BY <1>1, FrameSizes
<1>4. frame \in Nat /\ frameSize \in Len(Layout) .. Len(Layout) + 1
      /\ AtHalt = frame + frameSize /\ AtHalt <= LastWord + 1
  BY DEF FrameInMemory, AtHalt
<1>5. FrameAddress(name) \in Words /\ FrameAddress(name) \in frame .. AtHalt - 1
  BY <1>2, <1>3, <1>4 DEF FrameAddress, Words
<1>6. ASSUME NEW other \in ToSet(Layout), FrameAddress(other) = FrameAddress(name)
      PROVE  other = name
  <2>1. Position(Layout, other) = Position(Layout, name)
    BY <1>2, <1>3, <1>4, <1>6 DEF FrameAddress
  <2>. QED
    BY <1>2, <2>1
<1>. QED
  BY <1>5, <1>6

\* gdb writes above the frame: the context stays as it is.
LEMMA FrameMemoryWrite ==
    ASSUME FrameInv, NEW a \in Words, NEW value \in Values, MemoryWriteCommand(a, value)
    PROVE  FrameInv'
<1>0. configuration' = configuration
  BY DEF MemoryWriteCommand
<1>1. Types /\ FrameInMemory /\ ContextAsWanted
      /\ fpu \in {"none", "off", "idle", "active"}
  BY DEF FrameInv, MemoryWriteCommand, Types
<1>2. /\ Layout' = Layout /\ Active' = Active /\ PushedNames' = PushedNames
      /\ Available' = Available /\ fpu' = fpu /\ usesPsp' = usesPsp
      /\ FrameAddress("xpsr")' = frame' + Position(Layout, "xpsr") - 1
  BY <1>0, SameConfiguration
<1>3. /\ a \in AtHalt .. AtHalt + 1
      /\ phase' = "halted" /\ register' = register
      /\ memory' = [memory EXCEPT ![a] = value]
      /\ kept' = [kept EXCEPT ![a] = value]
      /\ frame' = frame /\ frameSize' = frameSize
      /\ stackPointer' = stackPointer /\ pushed' = pushed
      /\ halts' = halts /\ wanted' = wanted
      /\ AtHalt' = AtHalt
  BY DEF MemoryWriteCommand, halt, AtHalt
<1>4. value \in Int
  BY FrameAssumption
<1>5. Types'
  BY <1>1, <1>2, <1>3, <1>4 DEF Types
<1>6. \A name \in ToSet(Layout) : memory'[FrameAddress(name)] = memory[FrameAddress(name)]
  <2>. TAKE name \in ToSet(Layout)
  <2>1. FrameAddress(name) \in Words /\ FrameAddress(name) \in frame .. AtHalt - 1
    BY <1>1, FrameWords
  <2>2. frame \in Nat /\ AtHalt \in Int
    BY <1>1, FrameSizes DEF FrameInMemory, AtHalt
  <2>3. FrameAddress(name) # a
    BY <1>3, <2>1, <2>2
  <2>. QED
    BY <1>1, <1>3, <2>1, <2>3 DEF Types
<1>7. FrameInMemory'
  <2>1. memory'[FrameAddress("xpsr")'] = memory[FrameAddress("xpsr")]
    BY <1>1, <1>2, <1>3, <1>6, ContextNames DEF FrameAddress
  <2>. QED
    BY <1>1, <1>2, <1>3, <2>1 DEF FrameInMemory
<1>8. ContextAsWanted'
  <2>1. ASSUME NEW name \in Available \ {Active}
        PROVE  Shown(name)' = Shown(name)
    <3>1. name \in ToSet(Numbering)
      BY <1>1, ContextNames
    <3>2. ContextGet(name) = Saved(name, memory, frame, pushed, stackPointer)
          /\ ContextGet(name)' = Saved(name, memory', frame, pushed, stackPointer)
      BY <1>0, <1>1, <1>3, <3>1, GetsSaved
    <3>3. Home(name) = "frame" => name \in ToSet(Layout)
      BY <1>1, <3>1, Homes
    <3>4. Home(name) = "frame" =>
             memory'[frame + Position(Layout, name) - 1]
                = memory[frame + Position(Layout, name) - 1]
      BY <1>6, <3>3 DEF FrameAddress
    <3>5. ContextGet(name)' = ContextGet(name)
      BY <3>2, <3>4 DEF Saved
    <3>. QED
      BY <3>5 DEF Shown
  <2>2. \A b \in Words : b \notin frame .. AtHalt - 1 => memory'[b] = kept'[b]
    BY <1>1, <1>3 DEF ContextAsWanted, Types
  <2>. QED
    BY <1>1, <1>2, <1>3, <2>1, <2>2 DEF ContextAsWanted
<1>. QED
  BY <1>3, <1>5, <1>7, <1>8 DEF FrameInv

\* gdb writes one register where it is saved, and no other with it.
LEMMA FrameRegisterWrite ==
    ASSUME FrameInv, NEW name \in ToSet(Numbering), NEW value \in Writable(name),
           RegisterWriteCommand(name, value)
    PROVE  FrameInv'
<1>. DEFINE sp == IF name = "sp" THEN value ELSE stackPointer
            banked == IF name = Active THEN value ELSE pushed[Active]
<1>0. configuration' = configuration
  BY DEF RegisterWriteCommand
<1>1. Types /\ FrameInMemory /\ ContextAsWanted
      /\ fpu \in {"none", "off", "idle", "active"}
  BY DEF FrameInv, RegisterWriteCommand, Types
<1>2. /\ Layout' = Layout /\ Active' = Active /\ PushedNames' = PushedNames
      /\ Available' = Available /\ fpu' = fpu /\ usesPsp' = usesPsp
      /\ FrameAddress("xpsr")' = frame' + Position(Layout, "xpsr") - 1
  BY <1>0, SameConfiguration
<1>3. /\ phase' = "halted" /\ register' = register /\ kept' = kept
      /\ frame' = frame /\ frameSize' = frameSize
      /\ halts' = halts /\ AtHalt' = AtHalt
      /\ wanted' = WantedOnce(name, value)
      /\ ContextSet(name, value)
      /\ Fits(name, value)
  BY DEF RegisterWriteCommand, AtHalt
<1>4. Located(name) = [at |-> Home(name), of |-> name]
      /\ Home(name) \in {"frame", "pushed", "state"}
      /\ (Home(name) = "frame" <=> name \in ToSet(Layout))
      /\ (Home(name) = "pushed" => name \in PushedNames)
      /\ (Home(name) = "state" <=> name = "sp")
  BY <1>1, LocatedAtHome, Homes
<1>5. /\ Active \in Names \ {"sp"} /\ Active \in Available /\ Active \in PushedNames
      /\ Active \notin ToSet(Layout) /\ Home(Active) = "pushed"
      /\ "xpsr" \in ToSet(Layout) /\ "xpsr" \in Available
  BY <1>1, ContextNames
<1>6. /\ MostWords = 9 /\ Len(Extended) = 8 /\ HandlerWords \in Nat /\ LastWord \in Nat
      /\ Len(Layout) \in {4, 8}
  <2>1. Len(Extended) = 8
    BY DEF Extended
  <2>. QED
    BY <1>1, <2>1, FrameSizes
<1>7. /\ frame \in Nat /\ frameSize \in Nat /\ AtHalt \in Int
      /\ pushed \in [PushedNames -> Int] /\ stackPointer \in Int
  BY <1>1, <1>6 DEF FrameInMemory, AtHalt
<1>8. \A other \in ToSet(Layout) : FrameAddress(other) \in Words
  BY <1>1, FrameWords
<1>9. ContextGet("xpsr") = memory[FrameAddress("xpsr")]
  <2>1. "xpsr" \in ToSet(Numbering) /\ Home("xpsr") = "frame"
    BY <1>1, <1>5, ContextNames, Homes
  <2>. QED
    BY <1>1, <2>1, GetsSaved DEF Saved, FrameAddress
<1>10. memory[FrameAddress("xpsr")] \in Int
  BY <1>1, <1>5, <1>8 DEF Types
<1>11. value \in Int /\ (name = "xpsr" => AlignBit(value) = frameSize - Len(Layout))
  <2>1. CASE name = "xpsr"
    <3>1. PICK v \in Values : value = WithAlignBit(v, AlignBit(ContextGet("xpsr")))
      BY <2>1 DEF Writable
    <3>2. v \in Int /\ AlignBit(ContextGet("xpsr")) \in 0 .. 1
      BY <1>9, <1>10, FrameAssumption DEF AlignBit
    <3>. QED
      BY <1>1, <1>9, <3>1, <3>2, StackedFlags DEF FrameInMemory
  <2>2. CASE name \in {"sp", "msp", "psp"}
    <3>1. PICK d \in Moves : value = ContextGet(name) + d
      BY <2>2 DEF Writable
    <3>2. Home(name) # "frame"
      BY <2>2 DEF Home
    <3>3. ContextGet(name) \in Int
      BY <1>1, <1>4, <1>7, <3>2, GetsSaved DEF Saved
    <3>. QED
      BY <2>2, <3>1, <3>3, FrameAssumption
  <2>3. CASE name \notin {"xpsr", "sp", "msp", "psp"}
    BY <2>3, FrameAssumption DEF Writable
  <2>. QED
    BY <2>1, <2>2, <2>3
<1>12. name \in {"sp", Active} => value >= MostWords /\ value + MostWords <= LastWord
  BY <1>3, <1>6, <1>11 DEF Fits
<1>13. /\ memory' = IF Home(name) = "frame"
                    THEN [memory EXCEPT ![FrameAddress(name)] = value] ELSE memory
       /\ pushed' = IF Home(name) = "pushed"
                    THEN [pushed EXCEPT ![name] = value] ELSE pushed
       /\ stackPointer' = sp
  BY <1>3, <1>4 DEF ContextSet
<1>14. memory' \in [Words -> Int] /\ pushed' \in [PushedNames -> Int]
       /\ pushed'[Active] = banked
  BY <1>1, <1>4, <1>5, <1>7, <1>8, <1>11, <1>13 DEF Types
<1>15. /\ wanted' \in [Names \cup {"sp"} -> Int]
       /\ wanted'.sp = IF sp = AtHalt /\ banked # frame THEN Unknown ELSE sp
       /\ \A other \in Available :
             wanted'[other] = IF other # name THEN wanted[other]
                              ELSE IF name = "xpsr" THEN Flags(value) ELSE value
  <2>1. sp \in Int /\ banked \in Int
    BY <1>5, <1>7, <1>11
  <2>2. /\ WantedOnce(name, value) \in [Names \cup {"sp"} -> Int]
        /\ WantedOnce(name, value).sp =
              IF sp = AtHalt /\ banked # frame THEN Unknown ELSE sp
        /\ \A other \in Available :
              WantedOnce(name, value)[other] =
                 IF other # name THEN wanted[other]
                 ELSE IF name = "xpsr" THEN Flags(value) ELSE value
    <3>1. sp = (IF name = "sp" THEN value ELSE stackPointer)
          /\ banked = (IF name = Active THEN value ELSE pushed[Active])
      OBVIOUS
    <3>. HIDE DEF sp, banked
    <3>. QED
      <4>1. Types /\ name \in ToSet(Numbering) /\ value \in Int
        BY <1>1, <1>11
      <4>2. WantedOnce(name, value) \in [Names \cup {"sp"} -> Int]
        BY <4>1, <1>5, <1>7, WantedType
      <4>3. WantedOnce(name, value).sp =
              IF sp = AtHalt /\ banked # frame THEN Unknown ELSE sp
        BY <4>1, <2>1, <3>1, OneWanted
      <4>4. \A other \in Available :
              WantedOnce(name, value)[other] =
                 IF other # name THEN wanted[other]
                 ELSE IF name = "xpsr" THEN Flags(value) ELSE value
        BY <4>1, <2>1, <3>1, OneWanted
      <4>. QED
        BY <4>2, <4>3, <4>4
  <2>. QED
    BY <1>3, <2>2
<1>16. Types'
  BY <1>1, <1>2, <1>3, <1>14, <1>15 DEF Types
<1>17. \A other \in ToSet(Layout) :
          memory'[FrameAddress(other)] =
             IF other = name THEN value ELSE memory[FrameAddress(other)]
  <2>. TAKE other \in ToSet(Layout)
  <2>1. name \in ToSet(Layout) /\ other # name => FrameAddress(other) # FrameAddress(name)
    BY <1>1, FrameWords
  <2>. QED
    BY <1>1, <1>4, <1>8, <1>13, <2>1 DEF Types
<1>18. FrameInMemory'
  <2>1. AlignBit(memory'[FrameAddress("xpsr")]) = frameSize - Len(Layout)
    BY <1>1, <1>5, <1>11, <1>17 DEF FrameInMemory
  <2>2. FrameAddress("xpsr")' = FrameAddress("xpsr")
    BY <1>2, <1>3 DEF FrameAddress
  <2>3. MostWords' = MostWords
    BY DEF MostWords
  <2>4. banked # frame => banked >= MostWords /\ banked + MostWords <= LastWord
    BY <1>1, <1>12 DEF FrameInMemory
  <2>5. sp \in Int /\ (sp # AtHalt => sp >= MostWords /\ sp + MostWords <= LastWord)
    BY <1>1, <1>7, <1>11, <1>12 DEF FrameInMemory
  <2>. HIDE DEF sp, banked
  <2>. QED
    BY <1>1, <1>2, <1>3, <1>13, <1>14, <2>1, <2>2, <2>3, <2>4, <2>5 DEF FrameInMemory
<1>19. ContextAsWanted'
  <2>1. ASSUME NEW other \in Available \ {Active}
        PROVE  Shown(other)' = wanted'[other]
    <3>1. other \in ToSet(Numbering) /\ other # "sp"
      BY <1>1, ContextNames
    <3>2. ContextGet(other) = Saved(other, memory, frame, pushed, stackPointer)
          /\ ContextGet(other)' = Saved(other, memory', frame, pushed', stackPointer')
      BY <1>0, <1>1, <1>3, <3>1, GetsSaved
    <3>3. /\ Home(other) \in {"frame", "pushed"}
          /\ Home(other) = "frame" => other \in ToSet(Layout)
          /\ Home(other) = "pushed" => other \in PushedNames
      BY <1>1, <3>1, Homes
    <3>4. ContextGet(other)' = IF other = name THEN value ELSE ContextGet(other)
      <4>1. CASE Home(other) = "frame"
        <5>1. ContextGet(other) = memory[FrameAddress(other)]
              /\ ContextGet(other)' = memory'[FrameAddress(other)]
          BY <3>2, <4>1 DEF Saved, FrameAddress
        <5>. QED
          BY <1>17, <3>3, <4>1, <5>1
      <4>2. CASE Home(other) = "pushed"
        <5>1. ContextGet(other) = pushed[other] /\ ContextGet(other)' = pushed'[other]
          BY <3>2, <4>2 DEF Saved
        <5>2. other \in PushedNames
          BY <3>3, <4>2
        <5>. QED
          BY <1>4, <1>7, <1>13, <4>2, <5>1, <5>2
      <4>. QED
        BY <3>3, <4>1, <4>2
    <3>5. Shown(other) = wanted[other]
      BY <1>1 DEF ContextAsWanted
    <3>. QED
      BY <1>15, <3>4, <3>5 DEF Shown
  <2>2. wanted'.sp = IF stackPointer' = AtHalt' /\ pushed'[Active] # frame'
                     THEN Unknown ELSE stackPointer'
    BY <1>3, <1>13, <1>14, <1>15
  <2>3. ASSUME NEW a \in Words, a \notin frame .. AtHalt - 1
        PROVE  memory'[a] = kept[a]
    <3>1. name \in ToSet(Layout) => FrameAddress(name) # a
      BY <1>1, <2>3, FrameWords
    <3>. QED
      BY <1>1, <1>4, <1>13, <2>3, <3>1 DEF ContextAsWanted, Types
  <2>. HIDE DEF sp, banked
  <2>. QED
    BY <1>2, <1>3, <2>1, <2>2, <2>3 DEF ContextAsWanted
<1>. QED
  BY <1>3, <1>16, <1>18, <1>19 DEF FrameInv

\* mri_memmove keeps the frame, and the exception return takes every register from
\* where the context had it.
LEMMA FrameResume == FrameInv /\ Resume => FrameInv'
<1>. SUFFICES ASSUME FrameInv, Resume PROVE FrameInv'
  OBVIOUS
<1>. DEFINE to == Banked[Active]
            n == Len(Layout)
            r == Popped(Banked)
            word(name) == memory'[to + Position(Layout, name) - 1]
            end == to + n
<1>0. configuration' = configuration
  BY DEF Resume
<1>1. Types /\ FrameInMemory /\ ContextAsWanted
      /\ fpu \in {"none", "off", "idle", "active"}
  BY DEF FrameInv, Resume, Types
<1>2. /\ Layout' = Layout /\ Active' = Active /\ Available' = Available
      /\ fpu' = fpu /\ usesPsp' = usesPsp
  BY <1>0, SameConfiguration
<1>3. /\ phase' \in {"running", "lost"}
      /\ memory' = Moved(to)
      /\ phase' = "running" => register' = Unstacked(r, memory')
      /\ phase' # "running" => register' = register
      /\ frame' = frame /\ frameSize' = frameSize /\ AtHalt' = AtHalt
      /\ halts' = halts /\ wanted' = wanted /\ kept' = kept
  <2>. USE DEF Resume, halt, AtHalt
  <2>1. CASE OverwritesHandler(to)
    BY <2>1
  <2>2. CASE ~OverwritesHandler(to)
    BY <2>2
  <2>. QED
    BY <2>1, <2>2
<1>4. /\ n \in {4, 8} /\ MostWords = 9 /\ LastWord \in Nat
      /\ frame \in Nat /\ frameSize \in n .. n + 1
      /\ AtHalt = frame + frameSize /\ AtHalt <= LastWord + 1
  BY <1>1, FrameSizes DEF FrameInMemory, AtHalt
<1>5. /\ Active \in Names \ {"sp"} /\ Active \in Available
      /\ Active \in PushedNames \ FakeFloats /\ Active \notin ToSet(Layout)
      /\ "xpsr" \in ToSet(Layout) /\ "xpsr" \in Available
  BY <1>1, ContextNames
<1>6. /\ pushed \in [PushedNames -> Int] /\ stackPointer \in Int
      /\ pushed[Active] \in Int
      /\ pushed[Active] # frame =>
            pushed[Active] >= MostWords /\ pushed[Active] + MostWords <= LastWord
      /\ stackPointer # AtHalt =>
            stackPointer >= MostWords /\ stackPointer + MostWords <= LastWord
      /\ wanted.sp = IF stackPointer = AtHalt /\ pushed[Active] # frame
                     THEN Unknown ELSE stackPointer
  BY <1>1, <1>5 DEF FrameInMemory, ContextAsWanted
<1>7. /\ Banked \in [PushedNames -> Int]
      /\ to = IF stackPointer # AtHalt THEN stackPointer - frameSize ELSE pushed[Active]
      /\ \A name \in PushedNames \ {Active} : Banked[name] = pushed[name]
  BY <1>4, <1>5, <1>6 DEF Banked
<1>8. /\ to \in Nat /\ to + frameSize <= LastWord + 1
      /\ wanted.sp # Unknown => to + frameSize = wanted.sp
  <2>1. CASE stackPointer # AtHalt
    <3>1. to = stackPointer - frameSize /\ wanted.sp = stackPointer
      BY <1>6, <1>7, <2>1
    <3>2. stackPointer >= 9 /\ stackPointer + 9 <= LastWord
      BY <1>4, <1>6, <2>1
    <3>. HIDE DEF to, n
    <3>. QED
      BY <1>4, <1>6, <3>1, <3>2
  <2>2. CASE stackPointer = AtHalt /\ pushed[Active] # frame
    <3>1. to = pushed[Active] /\ wanted.sp = Unknown
      BY <1>6, <1>7, <2>2
    <3>2. pushed[Active] >= 9 /\ pushed[Active] + 9 <= LastWord
      BY <1>4, <1>6, <2>2
    <3>. HIDE DEF to, n
    <3>. QED
      BY <1>4, <1>6, <3>1, <3>2
  <2>3. CASE stackPointer = AtHalt /\ pushed[Active] = frame
    <3>1. to = frame /\ wanted.sp = AtHalt
      BY <1>6, <1>7, <2>3
    <3>. HIDE DEF to, n
    <3>. QED
      BY <1>4, <3>1
  <2>. QED
    BY <2>1, <2>2, <2>3
<1>. HIDE DEF to, n
<1>9. /\ memory' \in [Words -> Int]
      /\ \A a \in Words : a \notin to .. to + frameSize - 1 => memory'[a] = memory[a]
      /\ \A k \in 0 .. frameSize - 1 : memory'[to + k] = memory[frame + k]
  <2>1. memory' = [a \in Words |-> IF a \in to .. to + frameSize - 1
                                   THEN memory[frame + (a - to)] ELSE memory[a]]
    BY <1>3 DEF Moved, Source
  <2>2. \A a \in Words : a \in to .. to + frameSize - 1 => frame + (a - to) \in Words
    BY <1>4, <1>8 DEF Words
  <2>3. memory' \in [Words -> Int]
    BY <1>1, <2>1, <2>2 DEF Types
  <2>4. ASSUME NEW k \in 0 .. frameSize - 1
        PROVE  memory'[to + k] = memory[frame + k]
    <3>1. to + k \in Words /\ to + k \in to .. to + frameSize - 1 /\ (to + k) - to = k
      BY <1>4, <1>8 DEF Words
    <3>. QED
      BY <2>1, <3>1
  <2>. QED
    BY <2>1, <2>3, <2>4
<1>10. ASSUME NEW name \in ToSet(Layout)
       PROVE  word(name) = memory[FrameAddress(name)] /\ word(name) \in Int
  <2>1. Position(Layout, name) \in 1 .. n
    BY <1>1, HasPlace DEF n
  <2>2. word(name) = memory[FrameAddress(name)]
    <3>. DEFINE k == Position(Layout, name) - 1
    <3>1. k \in 0 .. frameSize - 1 /\ to + Position(Layout, name) - 1 = to + k
          /\ FrameAddress(name) = frame + k
      BY <1>4, <1>8, <2>1 DEF FrameAddress
    <3>. HIDE DEF k
    <3>. QED
      BY <1>9, <3>1
  <2>3. FrameAddress(name) \in Words
    BY <1>1, FrameWords
  <2>. QED
    BY <1>1, <2>2, <2>3 DEF Types
<1>11. r \in [Names -> Int] /\ r[Active] = to
       /\ \A name \in PushedNames \ (FakeFloats \cup {Active}) :
             r[name] = pushed[name]
  <2>1. PushedNames \subseteq Names
    BY <1>1, PushHolds DEF PushedNames, Names, Integer, Floats
  <2>2. DOMAIN Banked = PushedNames
    BY <1>7
  <2>. QED
    BY <1>1, <1>5, <1>7, <2>1, <2>2 DEF Popped, Types, to
<1>. HIDE DEF r
<1>12. ASSUME phase' = "running"
       PROVE  register' =
                 [name \in Names |->
                    IF name = Active
                    THEN IF AlignBit(word("xpsr")) = 1 /\ end % 2 = 0
                         THEN end + 1 ELSE end
                    ELSE IF name = "xpsr" THEN Flags(word("xpsr"))
                    ELSE IF name \in ToSet(Layout) THEN word(name)
                    ELSE r[name]]
  BY <1>3, <1>11, <1>12 DEF Unstacked, n
<1>13. AlignBit(word("xpsr")) = frameSize - n
  BY <1>1, <1>5, <1>10 DEF FrameInMemory, n
<1>14. end \in Nat /\ end + (frameSize - n) = to + frameSize
  BY <1>4, <1>8
<1>. HIDE DEF end, word
<1>15. Types'
  <2>1. register' \in [Names -> Int]
    <3>1. CASE phase' = "running"
      <4>1. Flags(word("xpsr")) \in Int
        BY <1>5, <1>10 DEF Flags
      <4>. QED
        BY <1>10, <1>11, <1>12, <1>14, <3>1, <4>1
    <3>2. CASE phase' # "running"
      BY <1>1, <1>3, <3>2 DEF Types
    <3>. QED
      BY <3>1, <3>2
  <2>. QED
    BY <1>1, <1>2, <1>3, <1>9, <2>1 DEF Types
<1>16. ASSUME phase' = "running"
       PROVE  ProgramAsWanted'
  <2>1. register'[Active] = IF AlignBit(word("xpsr")) = 1 /\ end % 2 = 0
                            THEN end + 1 ELSE end
    BY <1>5, <1>12, <1>16
  <2>2. register'[Active] <= LastWord + 1
    BY <1>4, <1>8, <1>13, <1>14, <2>1
  <2>3. ASSUME NEW name \in Available \ {Active}
        PROVE  register'[name] = wanted[name]
    <3>1. name \in ToSet(Numbering) /\ name \in Names /\ name # "sp"
      BY <1>1, ContextNames
    <3>2. ContextGet(name) = Saved(name, memory, frame, pushed, stackPointer)
      BY <1>1, <3>1, GetsSaved
    <3>3. Shown(name) = wanted[name]
      BY <1>1 DEF ContextAsWanted
    <3>4. CASE Home(name) = "frame"
      <4>1. name \in ToSet(Layout)
        BY <1>1, <3>1, <3>4, Homes
      <4>2. ContextGet(name) = word(name)
        BY <1>10, <3>2, <3>4, <4>1 DEF Saved, FrameAddress
      <4>. QED
        BY <1>12, <1>16, <3>1, <3>3, <4>1, <4>2 DEF Shown
    <3>5. CASE Home(name) # "frame"
      <4>1. name \notin ToSet(Layout) /\ name # "xpsr" /\ Home(name) = "pushed"
            /\ name \in PushedNames \ (FakeFloats \cup {Active})
        BY <1>1, <1>5, <3>1, <3>5, Homes
      <4>2. ContextGet(name) = pushed[name]
        BY <3>2, <4>1 DEF Saved
      <4>3. register'[name] = r[name]
        BY <1>12, <1>16, <3>1, <4>1
      <4>. QED
        BY <1>11, <3>3, <4>1, <4>2, <4>3 DEF Shown
    <3>. QED
      BY <3>4, <3>5
  <2>4. RestoresStackPointer'
    <3>. SUFFICES ASSUME wanted.sp # Unknown, ~Misaligns'
                  PROVE  register'[Active] = wanted.sp
      BY <1>2, <1>3 DEF RestoresStackPointer
    <3>1. wanted.sp = to + frameSize
      BY <1>8
    <3>2. frameSize = n \/ wanted.sp % 2 # 0
      BY <1>2, <1>3, <1>4 DEF Misaligns, n
    <3>. QED
      BY <1>4, <1>8, <1>13, <1>14, <2>1, <3>1, <3>2
  <2>5. KeepsStack'
    <3>. SUFFICES ASSUME wanted.sp # Unknown,
                         NEW a \in Words, a >= wanted.sp, a \notin frame .. AtHalt - 1
                  PROVE  memory'[a] = kept[a]
      BY <1>3 DEF KeepsStack
    <3>1. a \notin to .. to + frameSize - 1
      BY <1>4, <1>8 DEF Words
    <3>. QED
      BY <1>1, <1>9, <3>1 DEF ContextAsWanted
  <2>. QED
    BY <1>2, <1>3, <2>2, <2>3, <2>4, <2>5 DEF ProgramAsWanted, RestoresRegisters
<1>. QED
  BY <1>3, <1>15, <1>16 DEF FrameInv

\* The invariant of the handler, of gdb's writes and of the way back.
THEOREM FrameInvariant == Spec => []FrameInv
<1>1. FrameInv /\ [Next]_vars => FrameInv'
  <2>. SUFFICES ASSUME FrameInv, [Next]_vars PROVE FrameInv'
    OBVIOUS
  <2>1. CASE Halt
    BY <2>1, FrameHalt
  <2>2. ASSUME NEW name \in ToSet(Numbering), NEW value \in Writable(name),
               RegisterWriteCommand(name, value)
        PROVE  FrameInv'
    BY <2>2, FrameRegisterWrite
  <2>3. ASSUME NEW a \in Words, NEW value \in Values, MemoryWriteCommand(a, value)
        PROVE  FrameInv'
    BY <2>3, FrameMemoryWrite
  <2>4. CASE Resume
    BY <2>4, FrameResume
  <2>5. CASE UNCHANGED vars
    <3>1. UNCHANGED <<fpu, usesPsp, phase, register, memory, frame, frameSize,
                      stackPointer, pushed, halts, wanted, kept>>
      BY <2>5 DEF vars, configuration, halt
    <3>2. Active' = Active /\ Layout' = Layout /\ Numbering' = Numbering
          /\ PushedNames' = PushedNames /\ Available' = Available
      BY <3>1 DEF Active, Layout, Numbering, PushedNames, PushedFloats, FakeFloats,
                  Available, HasFloats
    <3>3. Types' = Types
      BY <3>1 DEF Types
    <3>4. FrameInMemory' = FrameInMemory
      BY <3>1, <3>2 DEF FrameInMemory, AtHalt, FrameAddress, Position
    <3>5. ContextAsWanted' = ContextAsWanted
      BY <3>1, <3>2 DEF ContextAsWanted, AtHalt, Shown, ContextGet, FrameAddress,
                        Position, Located, Sections, FloatSections
    <3>6. ProgramAsWanted' = ProgramAsWanted
      BY <3>1, <3>2 DEF ProgramAsWanted, RestoresRegisters, RestoresStackPointer,
                        Misaligns, KeepsStack, AtHalt
    <3>. QED
      BY <3>1, <3>3, <3>4, <3>5, <3>6 DEF FrameInv
  <2>. QED
    BY <2>1, <2>2, <2>3, <2>4, <2>5 DEF Next
<1>. QED
  BY <1>1, FrameInit, PTL DEF Spec

-----------------------------------------------------------------------------
(* What a user of the monitor may rely on.                                  *)

\* g shows each register as the program had it or as gdb has written it since,
\* in the frame, on the handler's stack or in the state of the monitor.
THEOREM ShowsRegistersHolds == Spec => []ShowsRegisters
<1>1. FrameInv => ShowsRegisters
  <2>. SUFFICES ASSUME FrameInv, phase = "halted", wanted.sp # Unknown
                PROVE  ContextGet("sp") = wanted.sp
    BY DEF FrameInv, ContextAsWanted, ShowsRegisters
  <2>1. fpu \in {"none", "off", "idle", "active"} /\ ContextAsWanted
    BY DEF FrameInv, Types
  <2>2. "sp" \in ToSet(Numbering)
    BY <2>1, NumberedNames
  <2>3. ContextGet("sp") = stackPointer
    BY <2>1, <2>2, GetsSaved DEF Saved, Home
  <2>. QED
    BY <2>1, <2>3 DEF ContextAsWanted
<1>. QED
  BY <1>1, FrameInvariant, PTL

\* The program goes on with the registers that gdb has last seen or written,
\* wherever mriCortexMExceptionHandler has moved the frame.
THEOREM RestoresRegistersHolds == Spec => []RestoresRegisters
<1>1. FrameInv => RestoresRegisters
  BY DEF FrameInv, ProgramAsWanted, RestoresRegisters
<1>. QED
  BY <1>1, FrameInvariant, PTL

\* The program goes on with the stack pointer that gdb has written, unless it was
\* not aligned to 8 bytes at the halt and is now.
THEOREM RestoresStackPointerHolds == Spec => []RestoresStackPointer
<1>1. FrameInv => RestoresStackPointer
  BY DEF FrameInv, ProgramAsWanted, RestoresStackPointer
<1>. QED
  BY <1>1, FrameInvariant, PTL

\* Moving the frame leaves the stack above it as the program and gdb left it.
THEOREM KeepsStackHolds == Spec => []KeepsStack
<1>1. FrameInv => KeepsStack
  BY DEF FrameInv, ProgramAsWanted, KeepsStack
<1>. QED
  BY <1>1, FrameInvariant, PTL
=============================================================================
