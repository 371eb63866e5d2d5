# TLA+ models of MRI, the monitor for remote inspection

MRI is gdb's counterpart on a Cortex-M device: it takes the debug exceptions of
the processor, and while the program is halted it executes the commands that gdb
sends over a serial line. These modules model the parts of it where the order of
events decides whether it is right. TLC checks them on small instances, TLAPS
proves the main theorems for every value of the constants.

`PROJECT.json` lists the runs, the lines of code behind each definition, the
mutants that show a property can fail, the hazards and the theorems.

## 1. The system

### Components, their state and operations

| Component | State | Operations | Modelled |
|---|---|---|---|
| Flash Patch unit, `debug_cm3.h` 410-690 | registers of the code comparators | look up, enable, disable, clear all | `FlashPatch` |
| Breakpoint commands, `cmd_break_watch.c`; temporary breakpoint, `mri.c` 120-156 and 246-267; breakpoint on the SVC handler, `armv7-m.c` 311-434 | `tempBreakpointAddress` and its flag, `CORTEXM_FLAGS_SVC_STEP`, the comparators | Z1, z1, `mriCore_SetTempBreakpoint`, clearing on a hit, arming and disarming a step | `Breakpoints` |
| Watchpoints, `debug_cm3.h` 169-408, `armv7-m.c` 676-743 | registers of the DWT comparators, the trap reason | Z2-Z4, z2-z4, find what matched | `Dwt`, `Watchpoints` |
| Exceptions and stepping, `armv7-m.c`, `armv7-m_asm.S`, `mri.c` 160-340 | `mriCortexMFlags`, `mriCortexMState` (fault status, PRIMASK and BASEPRI put aside, `originalPC`), `g_mri.flags`, the signal, the processor's MON_STEP and mask registers | exception entry, pending DebugMon from a fault, step, Ctrl-C, resume | `DebugMonitor` with `Cortex` and `Processor` |
| Commands that resume, `cmd_step.c`, `cmd_continue.c` | none of their own | s, S, c, C, D | s, S, c in `DebugMonitor`, with threads in `Threads`; D and C differ from c by text |
| vCont and threads, `cmd_vcont.c`, `cmd_thread.c`, `rtos_weak.c` | the actions of a packet, the range, the states of threads in the RTOS | choose among actions, freeze, thaw, step, list the threads | `Threads` |
| File I/O and semihosting, `cmd_file.c`, `semihost/`, `gdb_console.c` | return code, errno, Ctrl-C flag, the program's hooks | text for the console, F requests with a command loop inside the handler of the call, calls answered on the target | `Semihost`, `SemihostCall`, `HostCalls` |
| Registers and contexts, `cmd_registers.c`, `context.c`, `armv7-m.c` 1763-1921, `armv7-m_asm.S` | the sections of the context, the exception frame | g, G, moving the frame to where gdb puts the stack pointer | `ExceptionFrame` |
| Memory, `memory.c`, `cmd_memory.c`, `native-mem.c`, `armv7-m.c` 1383-1456 | the fault flag, the caches | m, M, X, keeping the instruction cache | `Memory` |
| Packets, `packet.c` | `lastChar`, data buffer, the two checksums | `Packet_GetFromGDB`, `Packet_SendToGDB` | `PacketLink`, `RemoteCall` |
| Command loop, `mri.c` 341-426 | packet buffer | receive, dispatch, reply or resume | a step of the modules above |
| Queries, `cmd_query.c` | `RESET_ON_CONTINUE`, the RTOS's list of threads | thread lists, qXfer windows, qRcmd | the lists in `Threads`, monitor reset in `DebugMonitor` |
| Buffers, numbers, copies, `buffer.c`, `hex_convert.h`, `libc.c`, `try_catch.*` | cursor and end | read and write characters and numbers | the end of a buffer in `PacketLink` and `Memory`, `mri_memmove` in `ExceptionFrame` |
| Initialisation string, `token.c` | none | split it once at the start | no |
| UARTs, start-up, boards, CMSIS | registers of one chip | - | no: `PacketLink` has what the core sees, a receiver that it polls |

### How they interact

A debug event raises DebugMon, or HardFault when DebugMon is masked; the fault
handler pends DebugMon and removes the masking when it can. A character from gdb
raises the UART's interrupt. All of them end in `mriCortexMExceptionHandler`,
which records the fault status, builds the context of the registers from the
exception frame and calls `mriDebugException`. That may resume at once (a
temporary breakpoint's callback, a step inside the range of `vCont;r`, a
semihosting call that was served) or send a T packet and enter the command loop.
A semihosting call that needs gdb sends an F packet and enters the same loop
inside of its handler. The loop polls the UART through `packet.c`, so while the
program is halted the same interrupt is not taken. Commands change the registers
and the memory of the halted program, the comparators, the states of threads and
the flags, and one that resumes makes `mriDebugException` return. The three users
of hardware breakpoints (gdb, the program, the step over an SVC) share one bank of
comparators and keep no count of users.

### What is hard in it

* The monitor runs inside the program's own exceptions: it raises BASEPRI and
  clears PRIMASK for a step and must put back what the *program* wrote, also when
  the instruction stepped is one that reads or writes these registers, when
  an exception comes first, or when the command loop is left through another path.
* An event in a critical section is handled in two exceptions, and something
  else may happen between them.
* A comparator can be set and cleared by different parts of the monitor, and
  once lost it does not come back. A MATCHED bit is lost by looking at it.
* A call to the host is in the hands of four: the program may make it again, gdb
  may answer, cancel or die, the host may have acted or not, and the user may
  press Ctrl-C before, with or after the answer.
* A vCont packet mixes actions for one, for all and for the other threads, some of
  which have taken effect when the next one is looked at; the exceptions that the
  monitor handles by itself must not disturb what they arranged.
* The registers live in a frame on the program's stack, which gdb may move, over
  itself and over the stack of the handler that moves it.
* A fault does not end an access of the monitor, but leaves a flag for whoever
  looks next; the caches write back and load lines at any time.
* A line that loses characters, a gdb that sends packets again, and a stub that
  waits for one character at a time and forgets which was the last.

The `hazards` of `PROJECT.json` name each at its line, with the properties for it.

## 2. The modules

| Module | Content |
|---|---|
| `FlashPatch` | a bank of code comparators as a function; the routines of `debug_cm3.h` as operators from banks to banks |
| `Breakpoints` | extends it with the three users of breakpoints |
| `Dwt` | the same for the data comparators, with their masks and MATCHED bits |
| `Watchpoints` | extends it with the commands, the program's accesses and what the monitor makes of a match |
| `Cortex` | a program and the instructions of a processor, as far as a monitor can disturb them |
| `Processor` | that processor without a monitor: the abstract specification |
| `DebugMonitor` | the monitor around that program |
| `Threads` | the threads of an RTOS and the commands that resume them |
| `HostCalls` | the calls of a program to its host: what each asks for and how it wants its answer |
| `SemihostCall` | what a program may expect of them: the abstract specification |
| `Semihost` | the monitor, gdb, the host and the user that serve them |
| `ExceptionFrame` | where each register is saved, and the frame that follows the stack pointer |
| `Memory` | m, M and X with faults and caches, inside a semihosting call |
| `RemoteCall` | what gdb may expect of its commands: the abstract specification |
| `PacketLink` | the stub's side of the packets, with gdb and the line |
| `MC*` | the constants of the runs of the module of that name |
| `WatchpointsFresh` | `Watchpoints` with one more history variable, for the configuration `watchpoints_stale` |
| `*Proofs` | the theorems about it |

Definitions keep the names of the functions that they model. Operators named in a
comment as `Mutant:` are what a mistake would look like. Nothing uses them.

### Breakpoints

`fpb` is the bank; `temp`, `svcStep` and `ranged` are the flags of the monitor;
`requested`, a history variable, what gdb has been answered OK for. Each command
and each path through `mriDebugException` is an action. Reading an instruction to
learn its width throws for the addresses in `Unreadable`. Addresses are scaled
down: `LastWord` stands for the end of the lowest 0.5GB.

* `OneComparatorEach`, `NoComparatorLeaked`: no breakpoint takes two comparators,
  and each comparator in use is for one that somebody still wants.
* `GdbBreakpointsKept`, `InternalBreakpointsKept`: nobody disarms a breakpoint of
  somebody else at an address that is his alone. At a shared address the code
  does, and the properties say so: the first to clear it clears it for all.
* `OkMeansArmed`, `RemovedMeansCleared`: OK to Z1 means that the processor stops
  there, OK to z1 that no comparator is left.

### Watchpoints

`bank` is the bank of `Dwt`, a function from comparators to records of COMP, MASK,
FUNCTION and the MATCHED bit. An access of the program (`Execute`) sets MATCHED
in every comparator that covers it and DWTTRAP in `dfsr`; the handler starts later,
with a breakpoint, a call or Ctrl-C by then as well. Looking for a comparator
reads FUNCTION and so clears MATCHED (`Scanned`), for Z and z as for the search
of what matched (`AllRead`). A MASK field that does not hold what was written
leaves the comparator as it was left by that write. `requested` and `touched`
are history: what gdb was told is set, and what of that was accessed since it was
set and since a handler last read the MATCHED bits (`LooksForMatch`).

* `WatchesWhatIsRequested`: an access matches exactly when gdb asked for it.
* `RefusesOnlyWhenFull`: nothing leaks; a refusal has its reason.
* `ReportsWhatWasTouched`: every report has an access of its own; none is reported
  twice, and no MATCHED bit outlives the watchpoint that it was for. The access may
  be an old one: m, M, code that DebugMon cannot interrupt and a hit behind a
  breakpoint leave MATCHED for a later halt. `WatchpointsFresh` adds what the
  program accessed since it resumed, to show that.
* `HitsHalt`: a hit is not lost, except to a semihosting call or a temporary
  breakpoint at the PC, which the code handles first.

`isPowerOf2` accepts 0, and gdb sends no watchpoint of no bytes; sizes are positive.

### DebugMonitor

`m` is one record with the program's registers, MON_STEP, the armed breakpoints,
`mriCortexMFlags` and what the monitor put aside; `exc` is the exception that the
processor reports and `recorded` the monitor's copy of it. `phase` separates the
running program, the fault handler, the handler proper and the command loop. A
handler is one action, because DebugMon preempts everything that the program and
its devices do; between the fault handler and DebugMon there is a state, because
there the code itself returns. What the processor does (`RunInstruction`,
`HitBreakpoint`, `Fault`, `DeviceInterrupt`, `ControlC`) is external.

* `Transparent` (refinement of `Processor`): with `ProgramRegisters(m)`, the
  registers as the program left them, every step of the system is a step of the
  bare processor or none. An instruction takes effect once, whether it was
  executed, stepped, simulated or skipped; no interrupt enters a critical section.
* `StepExecutesOne`, `RangeStepExecutesOne`: a step ends after one instruction,
  whatever that instruction is.
* `NoInterruptDuringStep`: no device gets in between a step and its instruction.
* `SignalMatchesCause`: the signal is that of the event which halted the program.
* `ControlCHalts`, `StepEnds`: liveness.

### Threads

`state` has the state of each thread and `previous` what it was before the RTOS
stopped them all; `wanted`, `asked` and `listed` are history: what gdb asked for
and was sent. A vCont packet is one action, as nothing runs while it is handled,
with the passes of the code inside: the parse of all actions (`IsRejected`), then
either a state for each thread (`StatesAfter`) or, where the RTOS cannot set one,
the one action that is for the halted thread (`MostSpecific` by `Priority`).
`supported` and `style` are fixed for a behaviour. The RTOS is external, by the
comments of `core/platforms.h`; so are the packets that gdb sends, which name no
thread twice.

* `RunsAsAsked`: each thread runs in the state that gdb last asked for.
* `StepsAsAsked`: a step is armed exactly when gdb asked for one, also after the
  steps of a range, temporary breakpoints and calls handled meanwhile.
* `RejectedChangesNothing`, `ListsEveryThread`, `FrozenForVCont`.

### Semihost

`call` is the call whose BKPT the PC is at, `core` what `mri.c` keeps for it,
`sent` the request that gdb holds, `host` what the host has done. The state
"request" is the command loop inside of `IssueGdbFile...Request`. `Reply` is
`HandleFileIOCommand` together with what follows up the stack, the conversion of
the answer and the advance of the PC (`EndRequest`): nothing comes between. Ctrl-C
is `rx` while it waits in the receiver and `pressed` once gdb has it. Every packet of
the monitor's, a T response as an F or O packet, waits for its `+`, and what waits in
`rx` is read by then.

* `ServesCalls` (refinement of `SemihostCall`): the host acts once for a call,
  the call returns once with that outcome in the form of its interface, and one
  that Ctrl-C cancelled is made again. Where the code does otherwise the abstract
  specification says so: an answer that comes with Ctrl-C may be the host's own,
  and gdb may go away, or send c or s instead of F.
* `HaltsWhenAsked`: Ctrl-C and steps are honoured behind a call, and only they.
* `RequestMeansCall`: the flags of an open request are those of fopen.
* `RunsUnpaused`: the hooks come in pairs.
* `CallsReturn`: liveness.

### ExceptionFrame

Addresses are words and a register stands for each group saved in one place. `Halt`
is the exception entry with `mriExceptionHandler` and `prepareThreadContext`;
`Sections` are those of the context; `Resume` is the end of
`mriCortexMExceptionHandler`, which moves the frame with `mri_memmove`
(`Moved`, which overlapping does not spoil), and the return.
The monitor has `g` and `G` and no `p` or `P`: a write of one register is a `G` with
one value changed, which is how gdb writes one.
`wanted` and `kept` are history: what the registers and the stack should be.

* `ShowsRegisters`, `RestoresRegisters`: each register is read and written where
  it is, before and after the frame moves, with and without a floating point unit
  whose context may be lazy or not allocated.
* `RestoresStackPointer`, `KeepsStack`: where the program goes on, and with what.
  `Unknown` stands for the stack pointer of a program whose banked one gdb has moved
  while SP is as it was at the halt; the properties say nothing of it.

The banked stack pointer in use is shown with the frame on it, as the code does.
A write of gdb below the SP of the halted program hits the frame, which is then no
longer what the program had, and the properties leave it out.

### Memory

`m`, `M` and `X` transfer by the width that the alignment allows; each access is a
step, between which the caches may write back or load any line. `fault` is
`CORTEXM_FLAGS_FAULT_DURING_DEBUG`. The commands are sent while gdb serves a call,
between the copy of the call's parameters and the advance of the PC, as both look
at, or leave, the same flag. Memory is readable and writable by whole words, as
of a device.

* `ReadsWhatIsThere`, `WritesAllOrAPrefix`: what a fault in the middle leaves.
* `ExecutesWhatWasWritten`: X keeps the caches, for every range and line size.
* `AdvancesPastCall`: no fault of another access is taken for one of the PC.

M never keeps the instruction cache; gdb uses it only where X is not supported.

### PacketLink

The stub reads one character per step; `pc` names the place in `packet.c` where it
waits. Handling a command is one step, which answers or resumes. gdb waits for
`+`, sends again after `-` or a timeout, answers packets with `+`, and may send
Ctrl-C; `LoseCharacter` and `LoseReply` are the line. gdb is external, modelled by
the protocol that `packet.c` expects. A timeout when nothing is on its way any
more (`Quiet`) is always possible. One that comes too early counts against
`Impatience`.

* `Delivery` (refinement of `RemoteCall`): a command is executed once while
  nothing is lost, then at least once; no reply is taken for that to another.
* `ExecutesWhatWasSent`: what passes the checksum is the command that gdb waits
  for, not a part of it nor two run together.
* `DataFits`: the data buffer is never overrun.
* `CallsReturn`, `InterruptReturns`: liveness.

## 3. The runs

| Run | Shows |
|---|---|
| `breakpoints_rev1` | all properties of `Breakpoints`, revision 1: three comparators for six wanted breakpoints, narrow and wide instructions, an unreadable one, a shared address |
| `watchpoints_kept` | those of `Watchpoints`: two comparators for seven requests that overlap, are misaligned, of odd size or too large for the unit |
| `monitor_transparent` | DebugMon at the highest priority: a critical section in PRIMASK, an SVC, a console call, a hard coded breakpoint and a temporary one, with every command at every halt |
| `monitor_liveness` | a program that never stops by itself is halted by Ctrl-C and by every step; DebugMon is not at the highest priority, and gdb may send the program into a critical section in BASEPRI |
| `threads_resumed` | three threads and every vCont packet of at most two actions, with and without an RTOS that knows states of threads; lists of which one thread fits into a packet |
| `semihost_calls` | eleven calls of both interfaces, answered, refused, cancelled by Ctrl-C before, with or after the answer, and given up by a gdb that dies; with hooks or without, stepped or not |
| `frame_registers` | main and process stack, each aligned or not, every kind of floating point context; gdb writes registers and moves the stack up and down, by less and by more than a frame |
| `frame_misaligned` | *violation*: a stack pointer that was not aligned at the halt and is written aligned arrives one word too low |
| `memory_commands` | any two of m, M and X over ranges that begin and end in flash, in RAM, inside lines of the caches and where nothing is |
| `memory_stale_fault` | *violation*: a call whose parameters cannot be read is made again for ever |
| `packet_line` | safety of the packets with two losses and one early timeout |
| `packet_returns` | their liveness with two losses |

Both violations are findings in `PROJECT.json`, with the line of the repository that
says otherwise.

These configurations are not in `PROJECT.json`. The first two are variants of runs
and pass; each of the others ends with a violation, which shows a case that a
property of the runs excludes, or that a proof assumes not to occur.

| Configuration | Shows |
|---|---|
| `breakpoints_rev2` | the properties of `Breakpoints` on revision 2 of the unit, with breakpoints beyond the reach of revision 1 and gdb and the program both at the SVC handler |
| `monitor_basepri` | a critical section in BASEPRI that masks DebugMon, with a fault inside |
| `breakpoints_beyond` | `OkMeansArmed`: Z1 above the lowest 0.5GB on revision 1 is answered OK, takes a comparator and arms nothing (`debug_cm3.h` 635) |
| `watchpoints_missed` | `EveryHitHalts`: a watchpoint hit by the instruction before a semihosting call is not reported (`mri.c` 222) |
| `watchpoints_stale` | `NamesHitOfThisRun` of `WatchpointsFresh`: a T response names a watchpoint that the monitor accessed in the halt before, not the one that the program has hit since it resumed (`armv7-m.c` 713) |
| `monitor_signal_step` | `SignalStepExecutesOne`: S at an instruction that is simulated lets the program run (`cmd_step.c` 90) |
| `monitor_callback` | `Transparent`: a callback that resumes within a critical section leaves PRIMASK cleared (`mri.c` 199) |
| `monitor_basepri_max` | `Transparent`: a stepped MSR BASEPRI_MAX of 0 clears BASEPRI (`armv7-m.c` 520) |
| `monitor_reset_on_step` | `ResetOnlyOnContinue`: a step over an SVC performs a pending monitor reset (`mri.c` 311) |
| `monitor_range_kept` | `EveryStepExecutesOne`: a range of vCont;r that only advanced over a breakpoint is still there for the next s (`cmd_vcont.c` 401) |
| `monitor_svc_console` | `StepExecutesOne`: an s over an SVC whose handler begins with a call to the console serves the call and lets the program run, as a step over an SVC is not marked as one (`mri.c` 222) |
| `semihost_control_c` | `ControlCHalts`: Ctrl-C that arrives while an F packet waits for its `+` is read and forgotten, and the program goes on (`packet.c`, the wait for the acknowledgement) |
| `semihost_interrupted` | `AnswersInForm`: a write of ARM's interface that was done when Ctrl-C was pressed returns the number of bytes written, not of those left, as the handler returns before it converts |
| `threads_let_go` | `FrozenWhileHalted`: s at a hard coded breakpoint thaws the threads of a program that stays halted (`cmd_continue.c` 28) |

Five more cases need no file of their own: each is a change to a configuration above,
with which TLC finds the violation.

| Configuration | Change | Shows |
|---|---|---|
| `breakpoints_rev2` | `INVARIANT EveryBreakpointKept` | the end of a step over an SVC disarms gdb's breakpoint at the SVC handler (`armv7-m.c` 332) |
| `monitor_liveness` | `Range <- Priority` | `RangeStepExecutesOne`: like `monitor_signal_step`, in a range that holds such an instruction (`mri.c` 211) |
| `packet_line` | `Impatience = 2` | `Delivery`: the stub executes a command twice over a line that lost nothing (`packet.c` 77) |
| `packet_returns` | `Impatience = 1` | `CallsReturn`: a lost reply is taken for sent when a second copy of the command arrives, and gdb's `-` is ignored for ever (`packet.c` 215) |
| `packet_returns` | `PROPERTY EveryStopIsReported` | the report of a stop is lost; the Ctrl-C that follows is read while its `+` is waited for, and nothing is sent again (`packet.c` 266) |

### Bounds

* `Breakpoints`, `Watchpoints`, `DebugMonitor` and `Threads` count nothing but the
  history `steps`, which stops at 2, more than one being all that is asked. Their
  state spaces are complete for the layout, the program or the packets given. There
  are fewer comparators than breakpoints and watchpoints, so that every operation
  meets a full bank; each kind of conflict between addresses is there once. The
  programs are loops of 11 or 14 instructions, with each kind that the monitor
  treats differently; one device with a state of one bit is enough to see that it
  ran. A vCont packet of two actions has each order of a default action, one for
  the halted thread and one for another; a third is never looked at differently
  (`MaxActions`; the theorem about the packets is for any number).
* `Semihost`: Ctrl-C twice (`MaxPresses`), to come before and with one answer, one
  death of gdb, an O packet of one character, two error codes.
* `ExceptionFrame`: two halts, so that a moved frame is the stack of the next one,
  and two writes of gdb. It stops after these, hence `CHECK_DEADLOCK FALSE`. The
  moves are by less than a frame, by one word and by more than a frame.
* `Memory`: two commands, the second with what the first left in the caches and the
  flag; four lines of the data cache and two longer ones of the instruction cache;
  flash, RAM and a hole, so that each range of four bytes ends in each of them.
* `PacketLink`: three commands, so that what is left of one can meet the next but
  one; two losses, so that damage can hit a packet and its retransmission; a
  checksum of two digits to the base 4 in which no two characters weigh as much as
  the modulus, as with ASCII and 256 (three losses do collide, with 256 as well); a
  buffer of two characters and a command of three; one early timeout in
  `packet_line`. Two early timeouts make the stub execute a command
  again, and one, with one loss, makes gdb wait for ever, which is why
  `packet_returns` has none. When gdb has sent its
  `MaxCalls` commands the system stops, hence `CHECK_DEADLOCK FALSE`.

Every other run checks for deadlocks.

### Fairness

* `DebugMonitor`: weak fairness of the processor (it executes instructions and
  takes pending exceptions), of the UART's interrupt when it can be taken, and of
  the handlers, which have no loops that wait. None for the user: no command is
  ever obliged to come, and no device to interrupt.
* `Semihost`: of the monitor's handlers and of the UART's interrupt, for the same
  reason; of gdb, which serves the request that it has; and of the user, who
  resumes the program or answers some time. None for Ctrl-C, deaths and calls.
* `PacketLink`: of the stub, which polls its receiver; of a gdb that reads what it
  gets; of its timeouts when nothing is on its way; of the interrupt by a character
  that waits for a running program. None for losses, early timeouts, new commands,
  or for a program to stop by itself.

The properties of the other modules are safety properties.

## 4. The proofs

All theorems hold for every value of the constants that satisfies the `ASSUME` of
their module, and under the premises that they state. A premise names a case that
the code gets wrong or that a run shows to break the property.

| Module | Theorems | Premises |
|---|---|---|
| `BreakpointsProofs` | all seven properties of `Breakpoints` | `AllComparable`: the unit can compare with every address of code (`breakpoints_beyond`) |
| `WatchpointsProofs` | all properties of `Watchpoints` | - |
| `DebugMonitorProofs` | `TypeCorrectness`; `Transparency`, the refinement of `Processor` | `Transparency`: `NoCallbackResumes`, `NoBasepriMax` (`monitor_callback`, `monitor_basepri_max`) |
| the same, on steps | `StepExecutesOne`, `RangeStepExecutesOne`, `NoInterruptDuringStep`, `SignalMatchesCause` | `NoCallInSvcHandler` (`monitor_svc_console`); for ranges `NoPriorityInRange`; for the signal `NoCallbackResumes` |
| `SemihostProofs` | types, `RunsUnpaused`, `RequestMeansCall`, `HaltsWhenAsked`, and `ServesCalls`, the refinement of `SemihostCall` | - |
| `ThreadsProofs` | all five properties of `Threads` | - |
| `ExceptionFrameProofs` | all four properties of `ExceptionFrame` | - |
| `MemoryProofs` | all four properties of `Memory` | but for the caches `ParametersReadable` (`memory_stale_fault`) and `ReadableByWords` |
| `PacketLinkProofs` | `DataFits`; `ExecutesWhatWasSent`; `Delivery`, the refinement of `RemoteCall` | but for `DataFits` `Lossless`: no losses and no early timeouts, or for `ExecutesWhatWasSent` none so far (`Undisturbed`) |

The arguments, each an inductive invariant:

* `Breakpoints`. The scans of the bank are `CHOOSE`s of least indices:
  `LeastComparator` and `FirstIsMember` say what they return, from the well-ordering
  of finite sets. The invariant is the conjunction of the types,
  `OneComparatorEach` and a statement of what each comparator in use holds. Only
  when a breakpoint is in one comparator does clearing one clear it.
* `Watchpoints`. `BankFor` says that the enabled comparators hold exactly the
  watchpoints that gdb was told are set, one each, and that a MATCHED bit stands for
  one that was touched since the bits were last read: when a handler has looked for
  what was hit none is left, and `touched` is empty. The scans go up and down, and what they read changes the
  bank: `ScannedRegisters` says that only MATCHED bits are lost, and which. No
  event is left in the command loop, so that none is lost by what gdb does there.
* `DebugMonitor`, `Transparency`. `TypeOK` is not inductive: the signal of DebugMon
  is defined only if DFSR names the event, hence `DebugEventsAreNamed`. The
  invariant `KeptWhileArmed` says when PRIMASK and BASEPRI are put aside: never in
  the command loop; while the program runs only with MON_STEP armed, PRIMASK clear
  and BASEPRI at the priority below DebugMon, at an instruction that neither reads
  nor writes them and is no SVC; or between a fault handler and DebugMon. With it,
  each action maps to the same instruction of `Processor` on the registers that the
  program knows, or to a stutter.
* `DebugMonitor`, a step. `OneInstruction` follows it from the command to the halt:
  before its instruction the processor stops behind it (`StopsBehind`), by MON_STEP
  with the priority raised, or at an SVC by MON_STEP or the breakpoint on its handler;
  behind it the program is at that breakpoint or on its way into the monitor, and
  not at a call that the monitor would serve. Where the priority is raised no device
  can interrupt. The signal needs `SignalsMatch`: what a fault handler recorded is
  there only from the fault to the end of the exception that it pended, and is never
  what a step within a range looks like.
* `Semihost`. The invariant ties the four together: what gdb was sent is what the call
  at the PC asks for (`RequestIsServed`), the host has acted only for it, and the
  hooks are paired. Every step then maps to a step of `SemihostCall` or a stutter.
* `Threads`. Invariants of one property each: a step stays armed as it was asked for
  until the command loop is entered; the threads stay stopped from the exception to
  the command that resumes; a list that was sent is a beginning of the list of all.
  `RunsAsAsked` says of the pass over a packet, for every number of actions, that
  it comes to what the packet means: `MeansTo` says what each thread's state is after
  the first n actions, in whatever order they stand, and `ActionMeans` adds one.
* `ExceptionFrame`. `FrameInv` says, while the program is halted, that the frame is in
  memory and its xPSR tells its size, that every register of the context is as `wanted`,
  and memory outside of the frame as `kept`; while it runs, that it has got all that
  back. `Home` says for each kind of floating point context where a register is,
  which is what makes the table of sections, a list of pairs, a function of names. The
  frame may be moved over itself: `Moved` is compared with the old frame word by word.
  `RestoresStackPointer` needs `WantedOnce` to follow two cases: gdb writes SP and then
  writes it back, or moves the banked pointer in use, which the handler overrides
  only when SP has changed.
* `Memory`. `SyncInv` says for each phase of X which addresses may still differ
  between the two caches and memory: what is not in the rest of the range is written
  back, then what is not in the rest is not loaded. `LinesCover` says, with integer
  division, that the lines visited cover the range, wherever it begins and ends.
  `TransferInv` says what the first `done` bytes of a range hold.
* `PacketLink`. A character behind an escape is stored without looking at the end of
  the buffer, so the invariant says that there was room when the escape came. For the
  theorems about a line without losses, or before the first one (`LinkInv`), `LosslessInv` lists the situations of the two
  ends: idle, a command on its way, or executed and its answer on its way. A command
  on its way is a part of it in the buffer, the checksum of what has come, and
  `Rest`: what gdb still sends, by the number of characters left and that checksum.
  Each character that the stub reads takes `Rest` one step down, and at its end are
  the digits of the sum that the stub has. A command that does not fit is passed
  over to the next `$`, of which there is none before gdb sends again. The alphabet,
  the base and the weights of the checksum, the escapes, the commands and the size
  of the buffer are arbitrary, and `Ctrl-C` may come at any time.

The functions that a definition computes step by step (`StatesAfter`, `Rest`) are
recursive functions over numbers. The library's theorem of induction takes an
operator as a parameter, which the provers cannot instantiate; the lemma `Induction`
says the same of a set of numbers, from the least element of its complement, and
each use gives the set of the numbers for which its statement holds.

Only model-checked: all liveness, as fairness and ENABLED are beyond the proof
system; and `ExecutesWhatWasSent` and `Delivery` after something was lost. These
depend on bounds: a checksum of a byte does not tell everything that more than two
losses can do, and with two early timeouts a command may be executed again after it
was answered (`packet_line` has two losses and one early timeout, which do no harm).

## 5. What is not modelled, and why

* Faults while the processor stacks the frame of an exception, and `g_fakeStack` to
  which the handler then turns: there is no frame, and the assembly code that looks
  for one is written for each case.
* The MPU, which the monitor switches off while the program is halted.
* Conditional instructions and code without privilege: the simulation of MSR, MRS
  and CPS ignores both; the programs of the models have neither.
* Changes to the code at breakpoints, or to the vector table, while they are set.
* The search for baud rate divisors, `token.c`, hexadecimal numbers and the windows
  of qXfer: sequential functions of their arguments, with unit tests of their own.
* A G packet that is too short (it zeroes the registers behind the end of its data).
* UART drivers, start-up, boards, CMSIS headers: registers of one chip each. The
  CMSIS headers are four fifths of the lines of the implementation and are not
  code of this project, so that the models stand for a small share of all lines.
* Formatting of replies and of text for the console.

In `ExceptionFrame` the handler that moved a frame over its own stack ends the
behaviour (`phase = "lost"`): without a stack of its own, and with gdb moving MSP down
by less than the handler needs.

## 6. What could be done next

1. `ExceptionFrame` with faults during stacking.
2. `Breakpoints` in place of the set of armed addresses of `DebugMonitor`.
3. `Threads` with the instructions that the monitor simulates: with an RTOS, vCont;s
   at one of them resumes with no step armed (`cmd_vcont.c` 458).
4. `Delivery` proved for a line without losses and a gdb with one early timeout.
