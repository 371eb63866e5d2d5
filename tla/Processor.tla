------------------------------ MODULE Processor ------------------------------
(***************************************************************************)
(* The program and the processor that it runs on, as if no debug monitor   *)
(* were there: what the registers hold after each instruction, and when a  *)
(* device may interrupt.  DebugMonitor runs the same program on the same   *)
(* processor with the monitor in between, and implements this              *)
(* specification: apart from where gdb sends it, the program cannot tell   *)
(* that it was halted, stepped and resumed.                                *)
(***************************************************************************)
EXTENDS Cortex

VARIABLES
    cpu,   \* the registers
    isr    \* which of its two states the interrupt handler of a device left

Init == cpu = AtReset /\ isr = 0

Execute ==
    /\ cpu' \in Executed(cpu) \cup PastBreak(cpu)
    /\ UNCHANGED isr

DeviceInterrupt ==
    /\ CanTakeLower(cpu)
    /\ isr' = 1 - isr
    /\ UNCHANGED cpu

\* gdb moves the program somewhere else, and may step there at once.
Jump ==
    /\ \E a \in JumpTargets :
          LET there == [cpu EXCEPT !.pc = a]
          IN  cpu' \in {there} \cup Executed(there)
    /\ UNCHANGED isr

Reset == cpu' = AtReset /\ isr' = 0

Next == Execute \/ DeviceInterrupt \/ Jump \/ Reset

Spec == Init /\ [][Next]_<<cpu, isr>>
=============================================================================
