--------------------------- MODULE ContextSwitch ---------------------------
(***************************************************************************)
(* process_switch_context, the assembly of syncos/process_switch.S, and    *)
(* the contexts it saves to and loads from (process.h, process.c).         *)
(*                                                                         *)
(* Only the registers that decide where execution continues are kept: the  *)
(* base register %rsi, the stack pointer and the flags.  The assembly      *)
(* stores and loads the flags at offset 128, which is the `rip' field of   *)
(* the context; `rflags' is at 136.  An address is the context of a        *)
(* process, the stack of a process, or 0.  Interrupts are off throughout.  *)
(***************************************************************************)
CONSTANTS
  Procs,         \* the processes
  Boot           \* the one that runs first: the kernel, registered as idle

VARIABLES
  context,       \* process_table[p].context: rsi, rsp, rip
  resume,        \* where the word at the top of p's stack returns to
  current,       \* the process the scheduler switched to last
  previous,      \* the one it switched from
  pc,            \* where in the assembly the CPU is
  rsi, rsp,      \* the CPU's registers
  flags,         \* what was last loaded into the flags register
  at             \* where execution goes on when pc = "running"

vars == <<context, resume, current, previous, pc, rsi, rsp, flags, at>>

\* Addresses, each named after the process it belongs to.
Zero == <<"address 0", Boot>>

ContextOf(p) == <<"context", p>>

StackOf(p) == <<"stack", p>>

EntryOf(p) == <<"entry", p>>

CallOf(p) == <<"after call", p>>

Nowhere == <<"not a return address", Boot>>

SavedFlags == <<"flags", Boot>>

\* init_process_context, and the cleared context of the idle process.  The stack
\* of a new process is empty: nothing pushes its entry point.
Init ==
  /\ context = [p \in Procs |->
       IF p = Boot THEN [rsi |-> Zero, rsp |-> Zero, rip |-> Zero]
                   ELSE [rsi |-> Zero, rsp |-> StackOf(p), rip |-> EntryOf(p)]]
  /\ resume = [p \in Procs |-> Nowhere]
  /\ current = Boot
  /\ previous = Boot
  /\ pc = "running"
  /\ rsi = Zero
  /\ rsp = StackOf(Boot)
  /\ flags = SavedFlags
  /\ at = CallOf(Boot)

\* context_switch calls the assembly: the return address is on the caller's stack.
Call(next) ==
  /\ pc = "running"
  /\ next # current
  /\ previous' = current
  /\ current' = next
  /\ resume' = [resume EXCEPT ![current] = CallOf(current)]
  /\ rsi' = ContextOf(next)
  /\ pc' = "save"
  /\ UNCHANGED <<context, rsp, flags, at>>

Save ==
  /\ pc = "save"
  /\ context' = [context EXCEPT ![previous] = [rsi |-> rsi, rsp |-> rsp, rip |-> SavedFlags]]
  /\ pc' = "load"
  /\ UNCHANGED <<resume, current, previous, rsi, rsp, flags, at>>

\* The first loads end with the new process's %rsi replacing the base.
LoadBase ==
  /\ pc = "load"
  /\ rsi' = context[current].rsi
  /\ pc' = "rest"
  /\ UNCHANGED <<context, resume, current, previous, rsp, flags, at>>

\* The remaining loads go through the new base.
LoadRest ==
  /\ pc = "rest"
  /\ \E p \in Procs :
       /\ rsi = ContextOf(p)
       /\ rsp' = context[p].rsp
       /\ flags' = context[p].rip
  /\ pc' = "return"
  /\ UNCHANGED <<context, resume, current, previous, rsi, at>>

\* The base is no context: 48(%rsi) is not mapped.
LoadFaults ==
  /\ pc = "rest"
  /\ \A p \in Procs : rsi # ContextOf(p)
  /\ pc' = "fault"
  /\ UNCHANGED <<context, resume, current, previous, rsi, rsp, flags, at>>

Return ==
  /\ pc = "return"
  /\ \E p \in Procs : rsp = StackOf(p) /\ at' = resume[p]
  /\ pc' = "running"
  /\ UNCHANGED <<context, resume, current, previous, rsi, rsp, flags>>

Next ==
  \/ \E next \in Procs : Call(next)
  \/ Save \/ LoadBase \/ LoadRest \/ LoadFaults \/ Return

Spec == Init /\ [][Next]_vars

-----------------------------------------------------------------------------
(* Properties *)

\* "Return to new context": after the switch the CPU goes on in the process the
\* scheduler chose, where that process was switched out or at its entry point.
SwitchReachesNext ==
  /\ pc # "fault"
  /\ pc = "running" => at \in {CallOf(current), EntryOf(current)}

=============================================================================
