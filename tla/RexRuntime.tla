----------------------------- MODULE RexRuntime -----------------------------
(***************************************************************************)
(* The in-kernel runtime of Rex: extension programs run on several CPUs,   *)
(* obtain kernel resources through the kernel crate (spinlocks, task       *)
(* references, ring buffer reservations), may panic at any point of their  *)
(* own code, and may be stopped by a per-CPU watchdog.                     *)
(*                                                                         *)
(* Per CPU the crate shares two things with the kernel: the tristate       *)
(* rex_termination_state (here flag) and the array rex_cleanup_entries     *)
(* (here table).  The order in which the crate and the watchdog touch the  *)
(* two is what this module is about, so every store to either is a step of *)
(* its own and the watchdog may fire between any two of them.              *)
(*                                                                         *)
(* The extension is the most general one the crate's API allows.  The      *)
(* dispatcher, the watchdog and the bodies of the kernel's helpers are not *)
(* in the repository; they are modelled from how the crate uses them.      *)
(***************************************************************************)
EXTENDS Integers, FiniteSets

CONSTANTS
  CPUs,           \* the CPUs; at most one program runs on each
  Locks,          \* bpf_spin_lock objects, shared by all CPUs
  Tasks,          \* references bpf_task_from_pid may hand out
  Records,        \* records the ring buffer has room for
  NoCPU,          \* holder of an object that nobody holds
  NoObj,          \* content of an invalid cleanup entry, null pointer
  ENTRIES_SIZE,   \* capacity of rex_cleanup_entries
  MaxGuards,      \* bound: lock guards a program keeps alive at a time
  DisplayRunsExtension  \* may formatting the panic message run extension code?

Objects    == Locks \cup Tasks \cup Records
Registered == Locks \cup Tasks   \* the objects that get a cleanup entry

ASSUME ConstantsAssumption ==
  /\ ENTRIES_SIZE \in Nat \ {0}
  /\ MaxGuards \in Nat
  /\ DisplayRunsExtension \in BOOLEAN
  /\ NoCPU \notin CPUs
  /\ NoObj \notin Objects

ASSUME DisjointObjects ==
  /\ Locks \cap Tasks = {}
  /\ Locks \cap Records = {}
  /\ Tasks \cap Records = {}

Slots == 0 .. (ENTRIES_SIZE - 1)
NoIdx == -1

VARIABLES
  pc,        \* where the CPU is: see Locations
  ctx,       \* "prog": the program proper; "fmt": formatting a panic message
  flag,      \* rex_termination_state: 0 extension, 1 helper or handler, 2 stop
  op,        \* locals of the crate function being executed
  ci,        \* loop index of cleanup_all
  table,     \* rex_cleanup_entries: the cleanup_arg of a valid entry, or NoObj
  idx,       \* cleanup_idx of each live guard or owned task, or NoIdx
  rb,        \* live RexRingBufEntry values
  holder,    \* kernel: the CPU on whose behalf the object is held, or NoCPU
  late,      \* kernel: CPUs whose program has run longer than the threshold
  exceeded   \* kernel log: CPUs that reported "Object count exceeded"

vars == <<pc, ctx, flag, op, ci, table, idx, rb, holder, late, exceeded>>

HelperLocations == {"register", "lock", "acquire", "deregister", "release",
                    "reserve", "consume", "helper", "check", "reset"}
CleanupLocations == {"cleanup", "invalidate"}
HandlerLocations == CleanupLocations \cup {"format", "landing"}
Locations == {"idle", "user", "panic"} \cup HelperLocations \cup HandlerLocations

Kinds == {"none", "guard", "from_pid", "drop", "reserve", "consume", "helper"}
Ops   == [kind: Kinds, obj: Objects \cup {NoObj}, idx: Slots \cup {NoIdx}]
Op(k, o, i) == [kind |-> k, obj |-> o, idx |-> i]
NoOp  == Op("none", NoObj, NoIdx)

NoLiveIdx == [o \in Registered |-> NoIdx]

TypeOK ==
  /\ pc \in [CPUs -> Locations]
  /\ ctx \in [CPUs -> {"prog", "fmt"}]
  /\ flag \in [CPUs -> 0 .. 2]
  /\ op \in [CPUs -> Ops]
  /\ ci \in [CPUs -> 0 .. ENTRIES_SIZE]
  /\ table \in [CPUs -> [Slots -> Registered \cup {NoObj}]]
  /\ idx \in [CPUs -> [Registered -> Slots \cup {NoIdx}]]
  /\ rb \in [CPUs -> SUBSET Records]
  /\ holder \in [Objects -> CPUs \cup {NoCPU}]
  /\ late \subseteq CPUs
  /\ exceeded \subseteq CPUs

Init ==
  /\ pc = [c \in CPUs |-> "idle"]
  /\ ctx = [c \in CPUs |-> "prog"]
  /\ flag = [c \in CPUs |-> 0]
  /\ op = [c \in CPUs |-> NoOp]
  /\ ci = [c \in CPUs |-> 0]
  /\ table = [c \in CPUs |-> [i \in Slots |-> NoObj]]
  /\ idx = [c \in CPUs |-> NoLiveIdx]
  /\ rb = [c \in CPUs |-> {}]
  /\ holder = [o \in Objects |-> NoCPU]
  /\ late = {}
  /\ exceeded = {}

Goto(c, from, to) ==
  /\ pc[c] = from
  /\ pc' = [pc EXCEPT ![c] = to]

-----------------------------------------------------------------------------
(***************************************************************************)
(* The kernel's dispatcher: sets the termination state, calls the program, *)
(* and clears the state when the program is left.                          *)
(***************************************************************************)
Dispatch(c) ==
  /\ Goto(c, "idle", "user")
  /\ flag' = [flag EXCEPT ![c] = 0]
  /\ late' = late \ {c}
  /\ UNCHANGED <<ctx, op, ci, table, idx, rb, holder, exceeded>>

\* The program leaves through rex_exit, by returning or by the landing pad.
RexExit(c, from) ==
  /\ Goto(c, from, "idle")
  /\ flag' = [flag EXCEPT ![c] = 0]
  /\ late' = late \ {c}
  /\ ctx' = [ctx EXCEPT ![c] = "prog"]
  /\ UNCHANGED <<op, ci, table, idx, rb, holder, exceeded>>

\* Rust drops every live value before a scope is left, and core::mem::forget
\* is outside the Rex subset of Rust.
NothingLive(c) == idx[c] = NoLiveIdx /\ rb[c] = {}

Return(c) ==
  /\ ctx[c] = "prog"
  /\ NothingLive(c)
  /\ RexExit(c, "user")

\* Extension code called back while a panic message is formatted returns to
\* the panic handler.
DisplayReturn(c) ==
  /\ ctx[c] = "fmt"
  /\ NothingLive(c)
  /\ Goto(c, "user", "landing")
  /\ UNCHANGED <<ctx, flag, op, ci, table, idx, rb, holder, late, exceeded>>

-----------------------------------------------------------------------------
(***************************************************************************)
(* termination_check!: the prologue stores 1 in the flag and enters the    *)
(* body of operation o; the epilogue reads the flag, and either panics or  *)
(* stores 0.  Between the read and the store the flag can become 2.        *)
(***************************************************************************)
\* Faulty variant: the prologue forgets the store to the flag.
EnterHelperNoFlag(c, body, o) ==
  /\ Goto(c, "user", body)
  /\ op' = [op EXCEPT ![c] = o]
  /\ UNCHANGED <<ctx, flag, ci, table, holder, late, exceeded>>

EnterHelper(c, body, o) ==
  /\ Goto(c, "user", body)
  /\ flag' = [flag EXCEPT ![c] = 1]
  /\ op' = [op EXCEPT ![c] = o]
  /\ UNCHANGED <<ctx, ci, table, holder, late, exceeded>>

\* Faulty variant: the epilogue does not look at the flag.
CheckFlagNever(c) ==
  /\ Goto(c, "check", "reset")
  /\ UNCHANGED <<ctx, flag, op, ci, table, idx, rb, holder, late, exceeded>>

CheckFlag(c) ==
  /\ pc[c] = "check"
  /\ \/ flag[c] = 2 /\ pc' = [pc EXCEPT ![c] = "panic"]
     \/ flag[c] # 2 /\ pc' = [pc EXCEPT ![c] = "reset"]
  /\ UNCHANGED <<ctx, flag, op, ci, table, idx, rb, holder, late, exceeded>>

\* The result of the body becomes a live Rust value of the extension.
ResetFlag(c) ==
  LET o == op[c] IN
  /\ Goto(c, "reset", "user")
  /\ flag' = [flag EXCEPT ![c] = 0]
  /\ op' = [op EXCEPT ![c] = NoOp]
  /\ idx' = IF o.kind \in {"guard", "from_pid"} /\ o.obj # NoObj
            THEN [idx EXCEPT ![c][o.obj] = o.idx] ELSE idx
  /\ rb' = IF o.kind = "reserve" /\ o.obj # NoObj
           THEN [rb EXCEPT ![c] = @ \cup {o.obj}] ELSE rb
  /\ UNCHANGED <<ctx, ci, table, holder, late, exceeded>>

\* A helper that neither takes nor gives back a resource.
CallHelper(c) ==
  /\ EnterHelper(c, "helper", Op("helper", NoObj, NoIdx))
  /\ UNCHANGED <<idx, rb>>

HelperBody(c) ==
  /\ Goto(c, "helper", "check")
  /\ UNCHANGED <<ctx, flag, op, ci, table, idx, rb, holder, late, exceeded>>

-----------------------------------------------------------------------------
(***************************************************************************)
(* The cleanup table.  cleanup_fn and cleanup_arg of an entry are read     *)
(* only while valid is 1, so an invalid entry is NoObj, and cleanup_fn is  *)
(* the panic_cleanup of the type of cleanup_arg.                           *)
(***************************************************************************)
\* Faulty variant: takes the first slot, valid or not.
FindFirstEntry(c, i) == i = 0

find_next_emtpy_entry(c, i) ==
  /\ i \in Slots
  /\ table[c][i] = NoObj
  /\ \A j \in Slots : j < i => table[c][j] # NoObj

TableFull(c) == \A i \in Slots : table[c][i] # NoObj

register_cleanup(c) ==
  /\ pc[c] = "register"
  /\ \E i \in Slots :
       /\ find_next_emtpy_entry(c, i)
       /\ table' = [table EXCEPT ![c][i] = op[c].obj]
       /\ op' = [op EXCEPT ![c] = Op(@.kind, @.obj, i)]
  /\ pc' = [pc EXCEPT ![c] = IF op[c].kind = "guard" THEN "lock" ELSE "check"]
  /\ UNCHANGED <<ctx, flag, ci, idx, rb, holder, late, exceeded>>

\* panic!("Object count exceeded")
register_cleanup_full(c) ==
  /\ Goto(c, "register", "panic")
  /\ TableFull(c)
  /\ exceeded' = exceeded \cup {c}
  /\ UNCHANGED <<ctx, flag, op, ci, table, idx, rb, holder, late>>

\* Faulty variant: the entry stays valid.
DeregisterNothing(c) ==
  /\ Goto(c, "deregister", "release")
  /\ UNCHANGED <<ctx, flag, op, ci, table, idx, rb, holder, late, exceeded>>

deregister_cleanup(c) ==
  /\ Goto(c, "deregister", "release")
  /\ table' = [table EXCEPT ![c][op[c].idx] = NoObj]
  /\ UNCHANGED <<ctx, flag, op, ci, idx, rb, holder, late, exceeded>>

-----------------------------------------------------------------------------
(***************************************************************************)
(* rex_spinlock_guard: new registers and then locks, drop deregisters and  *)
(* then unlocks.                                                           *)
(***************************************************************************)
LiveGuards(c) == {l \in Locks : idx[c][l] # NoIdx}

NewGuard(c, l) ==
  /\ Cardinality(LiveGuards(c)) < MaxGuards
  /\ EnterHelper(c, "register", Op("guard", l, NoIdx))
  /\ UNCHANGED <<idx, rb>>

\* The kernel helper spins until the lock is free.
bpf_spin_lock(c) ==
  /\ Goto(c, "lock", "check")
  /\ holder[op[c].obj] = NoCPU
  /\ holder' = [holder EXCEPT ![op[c].obj] = c]
  /\ UNCHANGED <<ctx, flag, op, ci, table, idx, rb, late, exceeded>>

\* Faulty variant: the value stays usable after it has been dropped.
DropOwnedKeepsValue(c, o) ==
  /\ idx[c][o] # NoIdx
  /\ EnterHelper(c, "deregister", Op("drop", o, idx[c][o]))
  /\ UNCHANGED <<idx, rb>>

\* Dropping consumes the Rust value; its cleanup_idx moves to the drop handler.
DropOwned(c, o) ==
  /\ idx[c][o] # NoIdx
  /\ EnterHelper(c, "deregister", Op("drop", o, idx[c][o]))
  /\ idx' = [idx EXCEPT ![c][o] = NoIdx]
  /\ UNCHANGED rb

DropGuard(c, l) == l \in Locks /\ DropOwned(c, l)

\* bpf_spin_unlock and bpf_task_release do not check who calls them.
KernelRelease(c) ==
  /\ Goto(c, "release", "check")
  /\ holder' = [holder EXCEPT ![op[c].obj] = NoCPU]
  /\ UNCHANGED <<ctx, flag, op, ci, table, idx, rb, late, exceeded>>

-----------------------------------------------------------------------------
(***************************************************************************)
(* OwnedTaskStruct: from_pid takes the reference and then registers it.    *)
(***************************************************************************)
FromPid(c) ==
  /\ EnterHelper(c, "acquire", Op("from_pid", NoObj, NoIdx))
  /\ UNCHANGED <<idx, rb>>

\* The kernel helper finds no task and returns null, or takes a reference.
bpf_task_from_pid(c) ==
  /\ pc[c] = "acquire"
  /\ \/ /\ pc' = [pc EXCEPT ![c] = "check"]
        /\ UNCHANGED <<op, holder>>
     \/ \E t \in Tasks :
          /\ holder[t] = NoCPU
          /\ holder' = [holder EXCEPT ![t] = c]
          /\ op' = [op EXCEPT ![c] = Op(@.kind, t, @.idx)]
          /\ pc' = [pc EXCEPT ![c] = "register"]
  /\ UNCHANGED <<ctx, flag, ci, table, idx, rb, late, exceeded>>

DropTask(c, t) == t \in Tasks /\ DropOwned(c, t)

-----------------------------------------------------------------------------
(***************************************************************************)
(* RexRingBuf: reserve hands out a RexRingBufEntry, which submit, discard  *)
(* and drop consume.  The entry has no slot in the cleanup table.          *)
(***************************************************************************)
Reserve(c) ==
  /\ EnterHelper(c, "reserve", Op("reserve", NoObj, NoIdx))
  /\ UNCHANGED <<idx, rb>>

bpf_ringbuf_reserve(c) ==
  /\ Goto(c, "reserve", "check")
  /\ \/ UNCHANGED <<op, holder>>
     \/ \E r \in Records :
          /\ holder[r] = NoCPU
          /\ holder' = [holder EXCEPT ![r] = c]
          /\ op' = [op EXCEPT ![c] = Op(@.kind, r, @.idx)]
  /\ UNCHANGED <<ctx, flag, ci, table, idx, rb, late, exceeded>>

ConsumeEntry(c, r) ==
  /\ r \in rb[c]
  /\ EnterHelper(c, "consume", Op("consume", r, NoIdx))
  /\ rb' = [rb EXCEPT ![c] = @ \ {r}]
  /\ UNCHANGED idx

bpf_ringbuf_consume(c) ==
  /\ Goto(c, "consume", "check")
  /\ holder' = [holder EXCEPT ![op[c].obj] = NoCPU]
  /\ UNCHANGED <<ctx, flag, op, ci, table, idx, rb, late, exceeded>>

-----------------------------------------------------------------------------
(***************************************************************************)
(* Panics.  A panic never returns to the code that raised it: the values   *)
(* alive on the program's stack are abandoned without being dropped.       *)
(***************************************************************************)

\* A Rust panic in extension code, or __rex_check_stack finding the stack used up.
ExtensionPanic(c) ==
  /\ Goto(c, "user", "panic")
  /\ UNCHANGED <<ctx, flag, op, ci, table, idx, rb, holder, late, exceeded>>

\* Faulty variant: the handler does not claim the flag.
PanicNoFlag(c) ==
  /\ Goto(c, "panic", "cleanup")
  /\ ci' = [ci EXCEPT ![c] = 0]
  /\ op' = [op EXCEPT ![c] = NoOp]
  /\ idx' = [idx EXCEPT ![c] = NoLiveIdx]
  /\ rb' = [rb EXCEPT ![c] = {}]
  /\ UNCHANGED <<ctx, flag, table, holder, late, exceeded>>

\* The panic handler stores 1 in the flag and calls cleanup_all.
panic(c) ==
  /\ Goto(c, "panic", "cleanup")
  /\ flag' = [flag EXCEPT ![c] = 1]
  /\ ci' = [ci EXCEPT ![c] = 0]
  /\ op' = [op EXCEPT ![c] = NoOp]
  /\ idx' = [idx EXCEPT ![c] = NoLiveIdx]
  /\ rb' = [rb EXCEPT ![c] = {}]
  /\ UNCHANGED <<ctx, table, holder, late, exceeded>>

\* Faulty variant: cleanup_fn is not called.
CleanupEntrySkipped(c) ==
  /\ Goto(c, "cleanup", "invalidate")
  /\ ci[c] < ENTRIES_SIZE
  /\ UNCHANGED <<ctx, flag, op, ci, table, idx, rb, holder, late, exceeded>>

\* entry.cleanup(): run cleanup_fn(cleanup_arg) if the entry is valid ...
cleanup_entry(c) ==
  /\ Goto(c, "cleanup", "invalidate")
  /\ ci[c] < ENTRIES_SIZE
  /\ LET o == table[c][ci[c]] IN
       holder' = IF o = NoObj THEN holder ELSE [holder EXCEPT ![o] = NoCPU]
  /\ UNCHANGED <<ctx, flag, op, ci, table, idx, rb, late, exceeded>>

\* ... entry.valid = 0
invalidate_entry(c) ==
  /\ Goto(c, "invalidate", "cleanup")
  /\ table' = [table EXCEPT ![c][ci[c]] = NoObj]
  /\ ci' = [ci EXCEPT ![c] = @ + 1]
  /\ UNCHANGED <<ctx, flag, op, idx, rb, holder, late, exceeded>>

\* Faulty variant: the loop stops one entry early.
CleanupAllShort(c) ==
  /\ Goto(c, "cleanup", "format")
  /\ ci[c] = ENTRIES_SIZE - 1
  /\ UNCHANGED <<ctx, flag, op, ci, table, idx, rb, holder, late, exceeded>>

cleanup_all_done(c) ==
  /\ Goto(c, "cleanup", "format")
  /\ ci[c] = ENTRIES_SIZE
  /\ UNCHANGED <<ctx, flag, op, ci, table, idx, rb, holder, late, exceeded>>

\* write!(&mut buf, "{}", info): the arguments of the panic may have Display
\* implementations of the extension, which run here, inside the handler.
format_message(c) ==
  /\ pc[c] = "format"
  /\ \/ /\ pc' = [pc EXCEPT ![c] = "landing"]
        /\ UNCHANGED ctx
     \/ /\ DisplayRunsExtension
        /\ pc' = [pc EXCEPT ![c] = "user"]
        /\ ctx' = [ctx EXCEPT ![c] = "fmt"]
  /\ UNCHANGED <<flag, op, ci, table, idx, rb, holder, late, exceeded>>

rex_landingpad(c) == RexExit(c, "landing")

-----------------------------------------------------------------------------
(***************************************************************************)
(* The kernel's watchdog, a hard-interrupt timer of the CPU.               *)
(***************************************************************************)
Expire(c) ==
  /\ pc[c] # "idle"
  /\ c \notin late
  /\ late' = late \cup {c}
  /\ UNCHANGED <<pc, ctx, flag, op, ci, table, idx, rb, holder, exceeded>>

\* In extension code: the interrupt returns to __rex_handle_timeout, a panic.
TimerRedirect(c) ==
  /\ pc[c] # "idle"
  /\ c \in late
  /\ flag[c] = 0
  /\ pc' = [pc EXCEPT ![c] = "panic"]
  /\ UNCHANGED <<ctx, flag, op, ci, table, idx, rb, holder, late, exceeded>>

\* Faulty variant: every tick counts up.
TimerCounts(c) ==
  /\ pc[c] # "idle"
  /\ c \in late
  /\ flag[c] # 0
  /\ flag' = [flag EXCEPT ![c] = @ + 1]
  /\ UNCHANGED <<pc, ctx, op, ci, table, idx, rb, holder, late, exceeded>>

\* In a helper or the handler: only leave a request behind.
TimerRequest(c) ==
  /\ pc[c] # "idle"
  /\ c \in late
  /\ flag[c] = 1
  /\ flag' = [flag EXCEPT ![c] = 2]
  /\ UNCHANGED <<pc, ctx, op, ci, table, idx, rb, holder, late, exceeded>>

Timer(c) == TimerRedirect(c) \/ TimerRequest(c)

-----------------------------------------------------------------------------
ExtensionStep(c) ==
  \/ Return(c)
  \/ DisplayReturn(c)
  \/ CallHelper(c)
  \/ \E l \in Locks : NewGuard(c, l) \/ DropGuard(c, l)
  \/ FromPid(c)
  \/ \E t \in Tasks : DropTask(c, t)
  \/ Reserve(c)
  \/ \E r \in Records : ConsumeEntry(c, r)
  \/ ExtensionPanic(c)

\* Steps of the crate and of the kernel helpers it calls; none of them waits.
RuntimeStep(c) ==
  \/ HelperBody(c)
  \/ CheckFlag(c)
  \/ ResetFlag(c)
  \/ register_cleanup(c)
  \/ register_cleanup_full(c)
  \/ deregister_cleanup(c)
  \/ KernelRelease(c)
  \/ bpf_task_from_pid(c)
  \/ bpf_ringbuf_reserve(c)
  \/ bpf_ringbuf_consume(c)
  \/ panic(c)
  \/ cleanup_entry(c)
  \/ invalidate_entry(c)
  \/ cleanup_all_done(c)
  \/ format_message(c)
  \/ rex_landingpad(c)

CPUStep(c) ==
  \/ Dispatch(c)
  \/ ExtensionStep(c)
  \/ RuntimeStep(c)
  \/ bpf_spin_lock(c)
  \/ Expire(c)
  \/ Timer(c)

Next == \E c \in CPUs : CPUStep(c)

Spec == Init /\ [][Next]_vars

(***************************************************************************)
(* Fairness.  The crate and the helpers run on; a spinning CPU gets a lock *)
(* that is released again and again (the kernel's spinlocks are queued);   *)
(* time passes; and the periodic timer does not hit the two instructions   *)
(* between the read and the reset of the flag every single time.           *)
(***************************************************************************)
Fairness ==
  \A c \in CPUs :
    /\ WF_vars(RuntimeStep(c))
    /\ SF_vars(bpf_spin_lock(c))
    /\ WF_vars(Expire(c))
    /\ SF_vars(pc[c] # "reset" /\ Timer(c))

FairSpec == Spec /\ Fairness

-----------------------------------------------------------------------------
(***************************************************************************)
(* Safety.                                                                 *)
(***************************************************************************)

\* While a CPU is in a helper or in the panic handler proper the flag is not
\* 0, so the watchdog never moves the instruction pointer out of a half-done
\* lock, unlock, table update or cleanup (base_helper.rs termination_check!,
\* panic.rs panic).
WatchdogDefers ==
  \A c \in CPUs :
    pc[c] \in HelperLocations \cup CleanupLocations => flag[c] # 0

\* What is about to be released - by a drop handler after its deregister, or
\* by cleanup_all on a valid entry - is held by this CPU: no lock is unlocked
\* twice or taken from another CPU, no reference is dropped twice
\* (spinlock.rs drop, task_struct.rs drop, panic.rs cleanup_all).
ReleasesOnlyHeld ==
  \A c \in CPUs :
    /\ pc[c] = "release" => holder[op[c].obj] = c
    /\ pc[c] = "cleanup" =>
         \A i \in Slots : table[c][i] # NoObj => holder[table[c][i]] = c

\* The cleanup_idx kept in a live guard or owned task is the slot that holds
\* that very object, and the kernel agrees that this CPU holds it
\* (spinlock.rs new, task_struct.rs from_pid, panic.rs register_cleanup).
LiveHandlesBacked ==
  \A c \in CPUs : \A o \in Registered :
    idx[c][o] # NoIdx => table[c][idx[c][o]] = o /\ holder[o] = c

\* Whichever way a program ends, it leaves no lock behind and no valid entry
\* that a later program on the CPU would clean up (docs/exception-handling.md).
LocksReleasedAtExit ==
  \A c \in CPUs :
    pc[c] = "idle" =>
      /\ \A l \in Locks : holder[l] # c
      /\ \A i \in Slots : table[c][i] = NoObj

\* A task reference outlives its program only on a CPU that has reported
\* "Object count exceeded" (task_struct.rs from_pid registers after taking
\* the reference).
TasksReleasedUnlessExceeded ==
  \A c \in CPUs :
    pc[c] = "idle" /\ c \notin exceeded => \A t \in Tasks : holder[t] # c

\* "When termination is needed, the destructors of allocated resources are
\* invoked" (docs/exception-handling.md:181), read for ring buffer
\* reservations (map.rs RexRingBufEntry): none outlives its program.
RecordsReleasedAtExit ==
  \A c \in CPUs : pc[c] = "idle" => \A r \in Records : holder[r] # c

\* Once cleanup_all runs it is carried through to its end: no step starts the
\* handler over in the middle of it (panic.rs cleanup_all must not cause
\* another panic).
CleanupNotRestarted ==
  [][\A c \in CPUs : pc[c] \in CleanupLocations => pc'[c] # "panic"]_vars

-----------------------------------------------------------------------------
(***************************************************************************)
(* Liveness.                                                               *)
(***************************************************************************)

\* A program that runs for too long is stopped (README.md, termination safety).
OverdueProgramsEnd ==
  \A c \in CPUs : c \in late ~> pc[c] = "idle"

-----------------------------------------------------------------------------
(***************************************************************************)
(* The contract the runtime implements for spinlocks.                      *)
(***************************************************************************)
Contract == INSTANCE RexContract
              WITH Resources <- Locks,
                   running   <- {c \in CPUs : pc[c] # "idle"},
                   owner     <- [l \in Locks |-> holder[l]]

\* Every step of the runtime is a step of the contract for locks, or invisible
\* in it: only free locks are taken, only by running programs, only held
\* locks are given back, and no program ends while it has one
\* (spinlock.rs, panic.rs, and the dispatcher).
ImplementsContract == Contract!Spec

-----------------------------------------------------------------------------
(***************************************************************************)
(* The inductive invariant.  It relates, CPU by CPU, the position in the   *)
(* crate's code, the cleanup table, the live Rust values and the kernel's  *)
(* own record of who holds what.                                           *)
(***************************************************************************)

\* The operation in progress still refers to what its earlier steps obtained.
OpInv(c) ==
  LET o == op[c].obj
      i == op[c].idx
      NotInTable == \A j \in Slots : table[c][j] # o
      InTable    == i \in Slots /\ table[c][i] = o
  IN
  /\ pc[c] = "register" =>
       \/ op[c].kind = "guard" /\ o \in Locks
       \/ op[c].kind = "from_pid" /\ o \in Tasks /\ holder[o] = c /\ NotInTable
  /\ pc[c] = "lock" => op[c].kind = "guard" /\ o \in Locks /\ InTable
  /\ pc[c] = "acquire" => op[c].kind = "from_pid" /\ o = NoObj
  /\ pc[c] = "reserve" => op[c].kind = "reserve" /\ o = NoObj
  /\ pc[c] = "consume" => op[c].kind = "consume" /\ o \in Records
  /\ pc[c] = "helper" => op[c].kind = "helper"
  /\ pc[c] = "deregister" =>
       /\ op[c].kind = "drop" /\ o \in Registered /\ InTable
       /\ holder[o] = c /\ idx[c][o] = NoIdx
  /\ pc[c] = "release" =>
       op[c].kind = "drop" /\ o \in Registered /\ holder[o] = c /\ NotInTable
  /\ pc[c] \in {"check", "reset"} =>
       /\ op[c].kind = "guard" => o \in Locks
       /\ op[c].kind = "from_pid" => o \in Tasks \cup {NoObj}
       /\ op[c].kind = "reserve" => o \in Records \cup {NoObj}
       /\ op[c].kind \in {"guard", "from_pid"} /\ o # NoObj =>
            InTable /\ holder[o] = c

\* The operation in progress is using slot op[c].idx: it has filled it and not
\* yet handed the value out, or is about to clear it.
OpOwnsSlot(c) ==
  \/ pc[c] \in {"lock", "deregister"}
  \/ /\ pc[c] \in {"check", "reset"}
     /\ op[c].kind \in {"guard", "from_pid"} /\ op[c].obj # NoObj

\* A valid entry stands for an object this CPU holds, except between the two
\* steps of new and the two steps of a turn of cleanup_all; no object has two
\* entries unless the CPU spins on a lock it already has; and as long as the
\* program is not being aborted, every entry belongs to a live value or to
\* the operation in progress.
EntryInv(c) ==
  \A i \in Slots : table[c][i] # NoObj =>
    /\ \/ holder[table[c][i]] = c
       \/ pc[c] = "lock" /\ op[c].idx = i
       \/ pc[c] = "invalidate" /\ ci[c] = i
    /\ \A j \in Slots : j # i /\ table[c][j] = table[c][i] =>
         pc[c] = "lock" /\ op[c].idx \in {i, j}
    /\ \/ idx[c][table[c][i]] = i
       \/ OpOwnsSlot(c) /\ op[c].idx = i
       \/ pc[c] \in CleanupLocations \cup {"panic"}

\* Live values are backed, and there are none once the handler has begun.
LiveInv(c) ==
  \A o \in Registered : idx[c][o] # NoIdx =>
    /\ table[c][idx[c][o]] = o
    /\ holder[o] = c
    /\ pc[c] \notin HandlerLocations \cup {"idle"}

\* cleanup_all leaves invalid entries behind it.
SweepInv(c) ==
  /\ pc[c] = "invalidate" => ci[c] \in Slots
  /\ pc[c] \in CleanupLocations =>
       \A i \in Slots : i < ci[c] => table[c][i] = NoObj
  /\ pc[c] \in {"format", "landing", "idle"} =>
       \A i \in Slots : table[c][i] = NoObj

\* Entry i is valid and its object has not just been cleaned up.
Covers(c, i, o) ==
  table[c][i] = o /\ ~(pc[c] = "invalidate" /\ ci[c] = i)

\* What a CPU holds it can still find its way back to.
HeldInv(c) ==
  /\ \A l \in Locks : holder[l] = c =>
       \/ \E i \in Slots : Covers(c, i, l)
       \/ pc[c] = "release" /\ op[c].obj = l
  /\ \A t \in Tasks : holder[t] = c =>
       \/ \E i \in Slots : Covers(c, i, t)
       \/ pc[c] \in {"register", "release"} /\ op[c].obj = t
       \/ c \in exceeded

FlagInv(c) ==
  pc[c] \in HelperLocations \cup CleanupLocations => flag[c] # 0

CPUInv(c) ==
  /\ FlagInv(c)
  /\ OpInv(c)
  /\ EntryInv(c)
  /\ LiveInv(c)
  /\ SweepInv(c)
  /\ HeldInv(c)

\* The inductive invariant behind the theorems of RexRuntimeProofs: table,
\* live values and the kernel's ownership agree at every step of the crate.
IInv == TypeOK /\ \A c \in CPUs : CPUInv(c)

=============================================================================
