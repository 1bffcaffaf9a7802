------------------------------ MODULE Process ------------------------------
(***************************************************************************)
(* The process manager, syncos/process.c: the process table, the round     *)
(* robin scheduler, process creation with each of its failure paths,       *)
(* termination, blocking and the interrupt flag across context switches.   *)
(*                                                                         *)
(* The kernel runs on one CPU.  Whatever runs is the `current' entry; it   *)
(* calls the functions of this module and a call runs to its end, because  *)
(* the only asynchronous code, the timer callback, never reaches the       *)
(* scheduler (see TimerInterrupt).  process_switch_context is taken to do  *)
(* what process.c relies on: save the caller's registers and flags and     *)
(* continue the next process with the flags saved for it; the assembly     *)
(* itself is the subject of ContextSwitch.tla.                             *)
(***************************************************************************)
EXTENDS ProcessQueues

CONSTANTS
  Spaces,        \* page tables vmm_create_address_space can return
  KernelSpace,   \* the address space the kernel booted with
  MaxPid         \* bound: the last process ID handed out

NoSpace == 0     \* page_table = 0

ASSUME SpacesAssumption ==
  /\ NoSpace \notin Spaces
  /\ KernelSpace \notin Spaces \cup {NoSpace}

ASSUME BoundsAssumption == MaxPid \in Nat

VARIABLES
  pid, state,    \* process_table[s].pid, .state
  page_table,    \* process_table[s].page_table
  saved_if,      \* the interrupt flag saved in process_table[s].context
  q,             \* the queue links
  current,       \* current_process
  next_pid,
  spaces,        \* page tables allocated by the virtual memory manager
  cr3,           \* current_pml4_phys
  interrupts,    \* the CPU's interrupt flag
  user,          \* the entry process_execute jumped to, NULL in the kernel
  tick           \* parity of the timer interrupts taken

vars == <<pid, state, page_table, saved_if, q, current, next_pid, spaces, cr3,
          interrupts, user, tick>>

idle == 0        \* process_table[0]

-----------------------------------------------------------------------------
(* Virtual memory manager calls *)

\* Mutant: vmm_delete_address_space frees the page tables in use.
DeletedEvenIfCurrent(space, allocated) == allocated \ {space}

\* The page tables left after vmm_delete_address_space: it refuses the current one.
Deleted(space, allocated) ==
  IF space = NoSpace \/ space = cr3 THEN allocated ELSE allocated \ {space}

\* cr3 after vmm_switch_address_space, which ignores address space 0.
Switched(space) == IF space = NoSpace THEN cr3 ELSE space

-----------------------------------------------------------------------------
(* Scheduling *)

\* The states after context_switch: a previous process still marked running
\* goes back to ready.
SwitchStates(st, cur, nxt) ==
  [s \in Slots |->
     IF s = nxt THEN "RUNNING"
     ELSE IF s = cur /\ st[s] = "RUNNING" THEN "READY"
     ELSE st[s]]

\* schedule_next and context_switch, from links `l', states `st', current process
\* `cur' and page table fields `pt'.  Interrupts are disabled; the flags of the
\* process switched to come back, and without a switch nothing restores them.
schedule_next(l, st, cur, pt) ==
  LET empty == l.ready_head = NULL
      nxt   == IF empty THEN idle ELSE l.ready_head
      same  == nxt = cur
  IN  /\ q' = IF empty THEN l ELSE PopReady(l)
      /\ current' = nxt
      /\ state' = IF same THEN st ELSE SwitchStates(st, cur, nxt)
      /\ interrupts' = (~same /\ saved_if[nxt])
      /\ saved_if' = IF same \/ cur = NULL THEN saved_if
                     ELSE [saved_if EXCEPT ![cur] = FALSE]
      /\ cr3' = IF same THEN cr3 ELSE Switched(pt[nxt])

InKernel == user = NULL

\* Mutant: the yielding process is not put back into the ready queue.
YieldForgets ==
  /\ InKernel
  /\ schedule_next(q, [state EXCEPT ![current] = "READY"], current, page_table)
  /\ UNCHANGED <<pid, page_table, next_pid, spaces, user, tick>>

process_yield ==
  /\ InKernel
  /\ schedule_next(add_to_ready_queue(q, current),
                   [state EXCEPT ![current] = "READY"], current, page_table)
  /\ UNCHANGED <<pid, page_table, next_pid, spaces, user, tick>>

\* Whatever state is asked for (except RUNNING, which returns at once), the
\* blocked queue stores BLOCKED.  The kernel thread, which runs the idle loop of
\* kmain, never blocks.
process_block ==
  /\ InKernel
  /\ current # idle
  /\ schedule_next(add_to_blocked_queue(q, current),
                   [state EXCEPT ![current] = "BLOCKED"], current, page_table)
  /\ UNCHANGED <<pid, page_table, next_pid, spaces, user, tick>>

\* The entry at index p, if it still carries the ID p.
process_get_by_id(p) ==
  IF p < MaxCount /\ pid[p] = p THEN p ELSE NULL

process_unblock(p) ==
  LET s == process_get_by_id(p)
  IN  /\ InKernel
      /\ s # NULL
      /\ state[s] = "BLOCKED"
      /\ q' = add_to_ready_queue(remove_from_blocked_queue(q, s), s)
      /\ state' = [state EXCEPT ![s] = "READY"]
      /\ UNCHANGED <<pid, page_table, saved_if, current, next_pid, spaces, cr3,
                     interrupts, user, tick>>

-----------------------------------------------------------------------------
(* Creation *)

FreeEntries == {s \in Slots \ {idle} : state[s] = "TERMINATED" \/ pid[s] = 0}

\* The first free entry after the idle process's.
FreeEntry == CHOOSE s \in FreeEntries : \A t \in FreeEntries : s <= t

\* process_create up to the failure or the success it ends in: the entry found,
\* its ID, state and page table, the page tables still allocated, and the links.
\* The frames of stacks and segments are left out.
CreateEntry(newpid, newstate, space, left, links) ==
  /\ InKernel
  /\ FreeEntries # {}
  /\ next_pid <= MaxPid
  /\ next_pid' = next_pid + 1
  /\ pid' = [pid EXCEPT ![FreeEntry] = newpid]
  /\ state' = [state EXCEPT ![FreeEntry] = newstate]
  /\ page_table' = [page_table EXCEPT ![FreeEntry] = space]
  /\ spaces' = left
  /\ q' = links
  /\ UNCHANGED <<current, cr3, interrupts, user, tick>>

\* memset clears the links of the entry.
Cleared(l) == Unlinked(l, FreeEntry)

\* No page for the page table: the entry keeps its ID and stays NEW.
CreateNoSpace ==
  /\ CreateEntry(next_pid, "NEW", NoSpace, spaces, Cleared(q))
  /\ saved_if' = [saved_if EXCEPT ![FreeEntry] = FALSE]

\* create_process_stack, elf_init or elf_load fails: the address space is deleted
\* and the entry is marked free.
CreateFails ==
  \E space \in Spaces \ spaces :
    /\ CreateEntry(0, "NEW", space, Deleted(space, spaces \cup {space}), Cleared(q))
    /\ saved_if' = [saved_if EXCEPT ![FreeEntry] = FALSE]

\* Everything succeeds.  The flags restored for a process that never ran are
\* read from its entry point (see ContextSwitch.tla), so either value is possible.
CreateSucceeds ==
  \E space \in Spaces \ spaces, flag \in BOOLEAN :
    /\ CreateEntry(next_pid, "READY", space, spaces \cup {space},
                   add_to_ready_queue(Cleared(q), FreeEntry))
    /\ saved_if' = [saved_if EXCEPT ![FreeEntry] = flag]

process_create == CreateNoSpace \/ CreateFails \/ CreateSucceeds

-----------------------------------------------------------------------------
(* Termination *)

\* Mutant: a blocked process is terminated without leaving its queue.
DequeuedReadyOnly(s) ==
  IF state[s] = "READY" THEN remove_from_ready_queue(q, s) ELSE q

\* The queue the process is in is chosen by its state.
Dequeued(s) ==
  CASE state[s] = "READY"   -> remove_from_ready_queue(q, s)
    [] state[s] = "BLOCKED" -> remove_from_blocked_queue(q, s)
    [] OTHER                -> q

\* free_process_resources: the page tables go, unless they are in use.
process_terminate(p) ==
  LET s  == process_get_by_id(p)
      st == [state EXCEPT ![s] = "TERMINATED"]
      pt == [page_table EXCEPT ![s] = NoSpace]
  IN  /\ InKernel
      /\ p # 0
      /\ s # NULL
      /\ page_table' = pt
      /\ spaces' = Deleted(page_table[s], spaces)
      /\ IF current = s
           THEN schedule_next(Dequeued(s), st, NULL, pt)
           ELSE /\ q' = Dequeued(s)
                /\ state' = st
                /\ UNCHANGED <<current, saved_if, interrupts, cr3>>
      /\ UNCHANGED <<pid, next_pid, user, tick>>

-----------------------------------------------------------------------------
(* User mode and the timer *)

\* process_enter_usermode (external) never returns: the process lock stays held,
\* the entry stays in the ready queue and `current' keeps its old value.
process_execute(p) ==
  LET s == process_get_by_id(p)
  IN  /\ InKernel
      /\ s # NULL
      /\ state[s] = "READY"
      /\ cr3' = Switched(page_table[s])
      /\ user' = s
      /\ interrupts' \in BOOLEAN
      /\ UNCHANGED <<pid, state, page_table, saved_if, q, current, next_pid, spaces,
                     tick>>

\* The timer callback with the interrupt flag it sees.  Time accounting is left
\* out: the quantum may or may not be used up.
timer_callback(flag) ==
  IF ~flag
    THEN UNCHANGED <<q, state, current, saved_if, interrupts, cr3>>
    ELSE IF state[current] = "RUNNING" /\ current # idle
           THEN schedule_next(add_to_ready_queue(q, current),
                              [state EXCEPT ![current] = "READY"], current, page_table)
           ELSE schedule_next(q, state, current, page_table)

\* An interrupt gate clears the flag and the IRQ_HANDLER stub executes cli before
\* irq_dispatch: the callback always sees interrupts disabled.
TimerInterrupt ==
  /\ interrupts
  /\ timer_callback(FALSE)
  /\ tick' = 1 - tick
  /\ UNCHANGED <<pid, page_table, next_pid, spaces, user>>

-----------------------------------------------------------------------------

\* The state after process_init and process_register_kernel_idle.
Init ==
  /\ pid = [s \in Slots |-> 0]
  /\ state = [s \in Slots |-> IF s = idle THEN "READY" ELSE "NEW"]
  /\ page_table = [s \in Slots |-> NoSpace]
  /\ saved_if = [s \in Slots |-> FALSE]
  /\ q = NoLinks
  /\ current = idle
  /\ next_pid = 1
  /\ spaces = {}
  /\ cr3 = KernelSpace
  /\ interrupts = TRUE
  /\ user = NULL
  /\ tick = 0

Next ==
  \/ process_yield
  \/ process_block
  \/ process_create
  \/ \E p \in 0 .. MaxPid : \/ process_unblock(p)
                            \/ process_terminate(p)
                            \/ process_execute(p)
  \/ TimerInterrupt

Spec == Init /\ [][Next]_vars

-----------------------------------------------------------------------------
(* Properties *)

Ready == Walk(q, q.ready_head)

ReadySet == Elements(q, q.ready_head)

BlockedSet == Elements(q, q.blocked_head)

\* The entries that stand for a process that was created and not terminated.
Live == {s \in Slots \ {idle} : state[s] \in {"READY", "RUNNING", "BLOCKED"} /\ pid[s] # 0}

\* After any sequence of calls both queues are lists that end, the back links of
\* the ready queue mirror its forward links, its tail is its last entry, and no
\* entry is in two queues, although both queues share the links.
QueuesWellFormed ==
  /\ Ends(q, q.ready_head) /\ Ends(q, q.blocked_head)
  /\ ReadySet \cap BlockedSet = {}
  /\ q.ready_tail = (IF Ready = <<>> THEN NULL ELSE Ready[Len(Ready)])
  /\ \A k \in DOMAIN Ready :
       q.prev[Ready[k]] = (IF k = 1 THEN NULL ELSE Ready[k - 1])

\* No process is lost: what the table says a process waits for is the queue it
\* is in, and only the current process is in neither.  A process marked ready
\* outside of the ready queue would never run again.
NoLostProcess ==
  /\ current \notin ReadySet \cup BlockedSet
  /\ \A s \in Live \ {current} :
       /\ state[s] = "READY" <=> s \in ReadySet
       /\ state[s] = "BLOCKED" <=> s \in BlockedSet
       /\ state[s] # "RUNNING"
  /\ ReadySet \cup BlockedSet \subseteq Live \cup {idle}

\* The CPU never runs on page tables that have been given back, whichever
\* process is terminated while its address space is still loaded.
CurrentSpaceAlive == cr3 \in spaces \cup {KernelSpace}

\* The linked lists and states implement a first-in first-out scheduler.
Scheduler == INSTANCE RoundRobin WITH
  Tasks <- Slots, Idle <- idle,
  ready <- Ready, blocked <- BlockedSet, running <- current

ImplementsRoundRobin == Scheduler!Spec

\* If the CPU is given up again and again, every process in the ready queue gets
\* it or leaves the queue: the queue starves nobody.
EveryReadyProcessRuns ==
  []<><<process_yield>>_vars =>
    \A s \in Slots : (s \in ReadySet) ~> (s \notin ReadySet)

=============================================================================
