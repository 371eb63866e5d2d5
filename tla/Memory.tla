--------------------------------- MODULE Memory ---------------------------------
(***************************************************************************)
(* The memory commands m, M and X (cmd_memory.c, memory.c) on a device     *)
(* where some accesses fault and where instructions are fetched through a  *)
(* cache of their own (armv7-m.c).                                         *)
(*                                                                         *)
(* A fault does not end an access of the monitor: its handler sets         *)
(* CORTEXM_FLAGS_FAULT_DURING_DEBUG and goes on after the instruction, and *)
(* whoever asks Platform_WasMemoryFaultEncountered next takes the flag.    *)
(* Between two steps of the monitor the caches write back or load any      *)
(* line.  The commands are those that gdb sends while it serves a          *)
(* semihost call, which ends by advancing the program counter.             *)
(***************************************************************************)
EXTENDS Integers, Sequences, SequencesExt, FiniteSets, FiniteSetsExt

CONSTANTS
    LastAddress,   \* memory is 0 .. LastAddress
    Readable,      \* where a load does not fault
    Writable,      \* where a store does not fault
    DLine, ILine,  \* bytes in a line of the data and of the instruction cache
    Capacity,      \* how many bytes of memory an answer can hold
    Starts, Lengths, \* the ranges that gdb asks for
    Blocks,        \* where a call may have its parameters: 4 bytes each
    Breakpoints,   \* where the program may make a call
    MaxCommands    \* a bound: how many commands gdb sends

ASSUME MemoryAssumption ==
    /\ LastAddress \in Nat /\ Capacity \in Nat /\ MaxCommands \in Nat
    /\ DLine \in Nat \ {0} /\ ILine \in Nat \ {0}
    /\ Readable \subseteq 0 .. LastAddress
    /\ Writable \subseteq Readable
    /\ Starts \subseteq 0 .. LastAddress
    /\ Blocks \subseteq 0 .. LastAddress
    /\ Breakpoints \subseteq Readable
    /\ Lengths \subseteq Nat

VARIABLES
    cached,    \* the level of unification is not 0: there are caches to keep
    memory,    \* what loads and stores see
    unified,   \* what the instruction cache loads its lines from
    copy,      \* the lines that it holds; Absent where it holds none
    fault,     \* CORTEXM_FLAGS_FAULT_DURING_DEBUG
    pc,        \* the program counter
    phase,     \* "running", "called", "halted", "transfer", "clean",
               \* "invalidate", "responded"
    command,   \* the memory command, its data included
    done,      \* the bytes transferred so far
    lines,     \* the lines still to be cleaned or invalidated
    answer,
    commands,  \* counted for the bound
    before,    \* history: memory when the command arrived
    synced     \* history: where gdb last wrote with X, and got OK

transfer == <<command, done, answer, before>>
caches == <<unified, copy>>
vars == <<cached, memory, caches, fault, pc, phase, transfer, lines, commands,
          synced>>

Addresses == 0 .. LastAddress
Absent == -1

Span(start, length) == start .. (start + length - 1)

-----------------------------------------------------------------------------
(* Faults.                                                                  *)

\* Mutants: the flag stays set after it was seen; it is looked at before the
\* access has ended, for want of the __DSB.
FaultLeft(faults) == fault' = (fault \/ faults)
SeesEarlierFault(faults) == fault

\* Platform_WasMemoryFaultEncountered after an access that faults or does not
SeesFault(faults) == fault \/ faults

\* It clears the flag.
TakesFault(faults) == fault' = FALSE

\* Platform_ReadMemory does not ask.
Copies(where) == fault' = (fault \/ ~(where \subseteq Readable))

-----------------------------------------------------------------------------
(* The caches.                                                              *)

LineOf(address, size) == Span((address \div size) * size, size) \cap Addresses
DLines == {LineOf(a, DLine) : a \in Addresses}
ILines == {LineOf(a, ILine) : a \in Addresses}

WriteBack(line) ==
    /\ \E a \in line : unified[a] # memory[a]
    /\ unified' = [a \in Addresses |-> IF a \in line THEN memory[a] ELSE unified[a]]
    /\ UNCHANGED <<cached, memory, copy, fault, pc, phase, transfer, lines,
                   commands, synced>>

Load(line) ==
    /\ cached
    /\ line \subseteq Readable
    /\ \A a \in line : copy[a] = Absent
    /\ copy' = [a \in Addresses |-> IF a \in line THEN unified[a] ELSE copy[a]]
    /\ UNCHANGED <<cached, memory, unified, fault, pc, phase, transfer, lines,
                   commands, synced>>

\* The instruction bytes that the program would execute
Fetched(address) == IF copy[address] = Absent THEN unified[address] ELSE copy[address]

Stored(start, bytes) ==
    [a \in Addresses |->
        IF a - start + 1 \in DOMAIN bytes THEN bytes[a - start + 1] ELSE memory[a]]

Store(start, bytes) ==
    /\ memory' = Stored(start, bytes)
    /\ unified' = IF cached THEN unified ELSE memory'

-----------------------------------------------------------------------------
(* Reading and writing, an access at a time.                                *)

Reply(code) == [code |-> code, bytes |-> <<>>]

Finish(reply) ==
    /\ answer' = reply
    /\ phase' = "halted"

\* A packet that overran its buffer is replaced by an error when it is sent.
DataReply(bytes) ==
    CASE bytes = <<>> -> Reply("E03")
      [] Len(bytes) > Capacity -> Reply("E04")
      [] OTHER -> [code |-> "data", bytes |-> bytes]

\* Two and four bytes are one access when they are aligned to it.
Width == IF command.length \in {2, 4} /\ command.start % command.length = 0
         THEN command.length ELSE 1
NextAddress == command.start + done
AccessRange == Span(NextAddress, Width)

ReadAccess ==
    /\ phase = "transfer" /\ command.name = "m"
    /\ done < command.length
    /\ TakesFault(~(AccessRange \subseteq Readable))
    /\ IF SeesFault(~(AccessRange \subseteq Readable))
       THEN Finish(DataReply(command.data)) /\ UNCHANGED <<command, done>>
       ELSE /\ command' = [command EXCEPT !.data =
                               @ \o [i \in 1 .. Width |-> memory[NextAddress + i - 1]]]
            /\ done' = done + Width
            /\ UNCHANGED <<phase, answer>>
    /\ UNCHANGED <<cached, memory, caches, pc, lines, commands, before, synced>>

ReadDone ==
    /\ phase = "transfer" /\ command.name = "m"
    /\ done = command.length
    /\ Finish(DataReply(command.data))
    /\ UNCHANGED <<cached, memory, caches, fault, pc, command, done, lines,
                   commands, before, synced>>

\* The data of the packet end before its length does.
WriteOverrun ==
    /\ phase = "transfer" /\ command.name # "m"
    /\ done < command.length
    /\ done + Width > Len(command.data)
    /\ Finish(Reply("E04"))
    /\ UNCHANGED <<cached, memory, caches, fault, pc, command, done, lines,
                   commands, before, synced>>

WriteAccess ==
    /\ phase = "transfer" /\ command.name # "m"
    /\ done < command.length
    /\ done + Width <= Len(command.data)
    /\ LET faults == ~(AccessRange \subseteq Writable)
       IN  /\ TakesFault(faults)
           /\ IF faults
              THEN UNCHANGED <<memory, unified>>
              ELSE Store(NextAddress, SubSeq(command.data, done + 1, done + Width))
           /\ IF SeesFault(faults)
              THEN Finish(Reply("E03")) /\ UNCHANGED done
              ELSE done' = done + Width /\ UNCHANGED <<phase, answer>>
    /\ UNCHANGED <<cached, copy, pc, command, lines, commands, before, synced>>

-----------------------------------------------------------------------------
(* Platform_SyncICacheToDCache after X.                                     *)

\* A mutant: what precedes address in its line is forgotten.
LinesOfSize(address, size, line) ==
    {LineOf(address + k * line, line) : k \in 0 .. ((size - 1) \div line)}

\* The lines that the loops reach from address: as many as lie in size bytes
\* and in what precedes address in its line.
LinesFrom(address, size, line) ==
    LET count == (size + (address % line) + line - 1) \div line
    IN  {LineOf(address + k * line, line) : k \in 0 .. (count - 1)}

DataLinesOf(c) == LinesFrom(c.start, c.length, DLine)
InstructionLinesOf(c) == LinesFrom(c.start, c.length, ILine)

\* The loops run in the order of the addresses.
FirstOf(set) == CHOOSE l \in set : \A o \in set : \A a \in o : \E b \in l : b <= a

WriteDone ==
    /\ phase = "transfer" /\ command.name # "m"
    /\ done = command.length
    /\ IF command.name = "X" /\ command.length # 0 /\ cached
       THEN /\ phase' = "clean"
            /\ lines' = DataLinesOf(command)
            /\ UNCHANGED <<answer, synced>>
       ELSE /\ Finish(Reply("OK"))
            /\ synced' = IF command.name = "X"
                         THEN synced \cup Span(command.start, command.length)
                         ELSE synced
            /\ UNCHANGED lines
    /\ UNCHANGED <<cached, memory, caches, fault, pc, command, done, commands, before>>

CleanLine ==
    /\ phase = "clean" /\ lines # {}
    /\ LET line == FirstOf(lines)
       IN  /\ unified' = [a \in Addresses |->
                             IF a \in line THEN memory[a] ELSE unified[a]]
           /\ lines' = lines \ {line}
    /\ UNCHANGED <<cached, memory, copy, fault, pc, phase, transfer, commands, synced>>

Cleaned ==
    /\ phase = "clean" /\ lines = {}
    /\ phase' = "invalidate"
    /\ lines' = InstructionLinesOf(command)
    /\ UNCHANGED <<cached, memory, caches, fault, pc, transfer, commands, synced>>

InvalidateLine ==
    /\ phase = "invalidate" /\ lines # {}
    /\ LET line == FirstOf(lines)
       IN  /\ copy' = [a \in Addresses |-> IF a \in line THEN Absent ELSE copy[a]]
           /\ lines' = lines \ {line}
    /\ UNCHANGED <<cached, memory, unified, fault, pc, phase, transfer, commands, synced>>

Invalidated ==
    /\ phase = "invalidate" /\ lines = {}
    /\ Finish(Reply("OK"))
    /\ synced' = synced \cup Span(command.start, command.length)
    /\ UNCHANGED <<cached, memory, caches, fault, pc, command, done, lines, commands, before>>

-----------------------------------------------------------------------------
(* The call that the commands belong to.                                    *)

\* Platform_EnteringDebugger
Call ==
    /\ phase = "running"
    /\ phase' = "called"
    /\ fault' = FALSE
    /\ UNCHANGED <<cached, memory, caches, pc, transfer, lines, commands, synced>>

\* The call copies its parameters and sends the request to gdb.
Request(block) ==
    /\ phase = "called"
    /\ Copies(Span(block, 4))
    /\ phase' = "halted"
    /\ UNCHANGED <<cached, memory, caches, pc, transfer, lines, commands, synced>>

NoCommand == [name |-> "m", start |-> 0, length |-> 0, data |-> <<>>]

Data(length) == [i \in 1 .. length |-> 10 * (commands + 1) + i]

\* ReadAddressAndLengthArguments and the buffers made ready for the answer
Receive(name, start, length, data) ==
    /\ phase = "halted"
    /\ commands < MaxCommands
    /\ command' = [name |-> name, start |-> start, length |-> length, data |-> data]
    /\ phase' = "transfer"
    /\ done' = 0
    /\ commands' = commands + 1
    /\ before' = memory
    /\ synced' = IF name = "m" THEN synced ELSE synced \ Span(start, length)
    /\ UNCHANGED <<cached, memory, caches, fault, pc, lines, answer>>

\* gdb's F answer: Platform_AdvanceProgramCounterToNextInstruction looks at the
\* instruction, a BKPT of two bytes, and stays where it cannot be read.
Respond ==
    /\ phase = "halted"
    /\ TakesFault(pc \notin Readable)
    /\ pc' = IF SeesFault(pc \notin Readable) THEN pc ELSE pc + 2
    /\ phase' = "responded"
    /\ UNCHANGED <<cached, memory, caches, transfer, lines, commands, synced>>

\* The program goes on, to its next call.
Run ==
    /\ phase = "responded"
    /\ phase' = "running"
    /\ pc' \in (IF pc \in Breakpoints THEN {pc} ELSE Breakpoints)
    /\ command' = NoCommand
    /\ done' = 0
    /\ answer' = Reply("none")
    /\ before' = memory
    /\ UNCHANGED <<cached, memory, caches, fault, lines, commands, synced>>

Init ==
    /\ cached \in BOOLEAN
    /\ memory = [a \in Addresses |-> 0]
    /\ unified = memory
    /\ copy = [a \in Addresses |-> Absent]
    /\ fault = FALSE
    /\ pc \in Breakpoints
    /\ phase = "running"
    /\ command = NoCommand
    /\ done = 0
    /\ lines = {}
    /\ answer = Reply("none")
    /\ commands = 0
    /\ before = memory
    /\ synced = {}

Next ==
    \/ Call
    \/ \E block \in Blocks : Request(block)
    \/ \E start \in Starts, length \in Lengths : Receive("m", start, length, <<>>)
    \/ \E name \in {"M", "X"}, start \in Starts, length \in Lengths :
           \E given \in {length, Max({length - 1, 0})} :
               Receive(name, start, length, Data(given))
    \/ ReadAccess \/ ReadDone \/ WriteOverrun \/ WriteAccess \/ WriteDone
    \/ CleanLine \/ Cleaned \/ InvalidateLine \/ Invalidated
    \/ Respond \/ Run
    \/ \E line \in DLines : WriteBack(line)
    \/ \E line \in ILines : Load(line)

Spec == Init /\ [][Next]_vars

-----------------------------------------------------------------------------
(* Properties.                                                              *)

Answered == phase = "halted" /\ answer.code # "none"

\* The first so many bytes of the command's range are in set, and no more.
Reach(set) ==
    Max({n \in 0 .. command.length : Span(command.start, n) \subseteq set})

\* m answers with the memory from its address on up to the first byte that
\* cannot be read, with an error only when that is the very first or when it
\* does not fit: no fault of another access is taken for one of its own.
ReadsWhatIsThere ==
    Answered /\ command.name = "m" =>
        LET n == Reach(Readable)
        IN  answer = DataReply([i \in 1 .. n |-> memory[command.start + i - 1]])

\* OK means that every byte is written, in order; an error leaves written at
\* most the first bytes of the range, and nothing else is ever touched.
WritesAllOrAPrefix ==
    Answered /\ command.name # "m" =>
        \E n \in 0 .. Min({command.length, Len(command.data)}) :
            /\ \A a \in Addresses :
                   memory[a] = IF a \in Span(command.start, n)
                               THEN command.data[a - command.start + 1]
                               ELSE before[a]
            /\ answer.code = "OK" <=> n = command.length

\* Once X is answered OK the program executes what was written, whatever the
\* caches write back and load meanwhile.
ExecutesWhatWasWritten ==
    phase \in {"running", "halted"} => \A a \in synced : Fetched(a) = memory[a]

\* The answer to a call moves the program counter past its breakpoint, which
\* the program has executed and can therefore be read.
AdvancesPastCall ==
    [][phase = "halted" /\ phase' = "responded" => pc' # pc]_vars

=============================================================================
