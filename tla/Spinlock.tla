------------------------------ MODULE Spinlock ------------------------------
(***************************************************************************)
(* The spinlock of syncos/spinlock.c, one shared access per step, used by  *)
(* a thread and by an interrupt handler on each CPU.                       *)
(*                                                                         *)
(* A lock is made interrupt-safe by spinlock_init_flags, but the flags are *)
(* only stored in the debugging table; acquire and release test the flag   *)
(* bit in `owner', which holds 0 or the return address of the holder's     *)
(* call.  So the lock modelled here may have been created with any flags.  *)
(* The names and counters of the debugging table are left out.             *)
(***************************************************************************)
EXTENDS Naturals

CONSTANTS
  Cpus,          \* the CPUs
  NoCpu          \* no CPU: lock->owner = 0

ASSUME NoCpuAssumption == NoCpu \notin Cpus

VARIABLES
  value,         \* bit 0 of lock->value
  owner,         \* lock->owner: NoOwner, or who stored it and its flag bit
  pc,            \* where each context is
  interrupts     \* the interrupt flag of each CPU's thread

lock_vars == <<value, owner, pc, interrupts>>

\* A context: the thread or the interrupt handler of a CPU.
Contexts == Cpus \X {"thread", "handler"}

Cpu(x) == x[1]

Thread(c) == <<c, "thread">>

Handler(c) == <<c, "handler">>

NoOwner == [by |-> Thread(NoCpu), bit |-> FALSE]

\* A handler runs once its interrupt is taken; until it ends its thread does not.
CanStep(x) == x = Thread(Cpu(x)) => pc[Handler(Cpu(x))] = "idle"

At(x, label) == CanStep(x) /\ pc[x] = label

Goto(x, label) == pc' = [pc EXCEPT ![x] = label]

-----------------------------------------------------------------------------
(* spinlock_acquire and spinlock_try_acquire *)

\* A handler starts when the thread has interrupts on.  The flag bit is looked
\* for in `owner', whoever stored it.
AcquireStart(x) ==
  /\ At(x, "idle")
  /\ x = Handler(Cpu(x)) => interrupts[Cpu(x)]
  /\ interrupts' = IF owner.bit /\ x = Thread(Cpu(x))
                     THEN [interrupts EXCEPT ![Cpu(x)] = FALSE] ELSE interrupts
  /\ Goto(x, "spin")
  /\ UNCHANGED <<value, owner>>

\* Mutant: the old value of the bit is not looked at.
SetWithoutTest(x) ==
  /\ At(x, "spin")
  /\ value' = 1
  /\ Goto(x, "owned")
  /\ UNCHANGED <<owner, interrupts>>

\* atomic_test_and_set finds the bit clear; otherwise the loop goes on.
TestAndSet(x) ==
  /\ At(x, "spin")
  /\ value = 0
  /\ value' = 1
  /\ Goto(x, "owned")
  /\ UNCHANGED <<owner, interrupts>>

spinlock_try_acquire(x) ==
  /\ At(x, "idle")
  /\ x = Handler(Cpu(x)) => interrupts[Cpu(x)]
  /\ value = 0
  /\ value' = 1
  /\ Goto(x, "owned")
  /\ UNCHANGED <<owner, interrupts>>

\* The return address may have the flag bit set.
SetOwner(x) ==
  /\ At(x, "owned")
  /\ \E bit \in BOOLEAN : owner' = [by |-> x, bit |-> bit]
  /\ Goto(x, "held")
  /\ UNCHANGED <<value, interrupts>>

-----------------------------------------------------------------------------
(* spinlock_release *)

ClearOwner(x) ==
  /\ At(x, "held")
  /\ owner' = NoOwner
  /\ Goto(x, "clear")
  /\ UNCHANGED <<value, interrupts>>

ClearValue(x) ==
  /\ At(x, "clear")
  /\ value' = 0
  /\ Goto(x, "test")
  /\ UNCHANGED <<owner, interrupts>>

\* Mutant: the owner is cleared when the lock is free already.
ClearsOwnerLate(x) ==
  /\ At(x, "test")
  /\ owner' = NoOwner
  /\ Goto(x, "idle")
  /\ UNCHANGED <<value, interrupts>>

\* The flag bit is tested once the lock is free: it is clear, or the next owner's.
TestFlag(x) ==
  /\ At(x, "test")
  /\ interrupts' = IF owner.bit THEN [interrupts EXCEPT ![Cpu(x)] = TRUE] ELSE interrupts
  /\ Goto(x, "idle")
  /\ UNCHANGED <<value, owner>>

-----------------------------------------------------------------------------

\* After spinlock_init_flags, with interrupts on.
LockInit ==
  /\ value = 0
  /\ owner = NoOwner
  /\ pc = [x \in Contexts |-> "idle"]
  /\ interrupts = [c \in Cpus |-> TRUE]

LockNext ==
  \E x \in Contexts :
    \/ AcquireStart(x) \/ spinlock_try_acquire(x) \/ TestAndSet(x) \/ SetOwner(x)
    \/ ClearOwner(x) \/ ClearValue(x) \/ TestFlag(x)

LockSpec == LockInit /\ [][LockNext]_lock_vars

-----------------------------------------------------------------------------
(* Properties *)

LockTypeOK ==
  /\ value \in {0, 1}
  /\ owner \in {NoOwner} \cup [by : Contexts, bit : BOOLEAN]
  /\ pc \in [Contexts -> {"idle", "spin", "owned", "held", "clear", "test"}]
  /\ interrupts \in [Cpus -> BOOLEAN]

\* Between the test-and-set and the release.
Holds(x) == pc[x] \in {"owned", "held", "clear"}

\* At most one thread or handler of any CPU holds the lock.
MutualExclusion == \A x, y \in Contexts : Holds(x) /\ Holds(y) => x = y

\* While a context is inside its critical section, lock->owner is its own: the
\* release of the previous holder does not wipe it out.
OwnerIsHolder == \A x \in Contexts : pc[x] = "held" => owner.by = x

=============================================================================
