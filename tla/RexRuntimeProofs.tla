-------------------------- MODULE RexRuntimeProofs --------------------------
(***************************************************************************)
(* Proofs about RexRuntime, for any number of CPUs, locks, references and  *)
(* records and any capacity of the cleanup table.                          *)
(***************************************************************************)
EXTENDS RexRuntime, TLAPS

USE ConstantsAssumption

(***************************************************************************)
(* Every step keeps the variables in their types.                          *)
(***************************************************************************)
LEMMA LocationFacts ==
  /\ {"idle", "user", "panic", "register", "lock", "acquire", "deregister",
      "release", "reserve", "consume", "helper", "check", "reset", "cleanup",
      "invalidate", "format", "landing"} \subseteq Locations
BY DEF Locations, HelperLocations, HandlerLocations, CleanupLocations

LEMMA ObjectFacts ==
  /\ Locks \subseteq Registered /\ Tasks \subseteq Registered
  /\ Registered \subseteq Objects /\ Records \subseteq Objects
  /\ NoObj \notin Registered
  /\ \A o \in Registered : o \notin Records
BY DisjointObjects DEF Registered, Objects

LEMMA OpFacts ==
  /\ \A k \in Kinds, o \in Objects \cup {NoObj}, i \in Slots \cup {NoIdx} :
       Op(k, o, i) \in Ops
  /\ NoOp \in Ops
  /\ NoLiveIdx \in [Registered -> Slots \cup {NoIdx}]
BY DEF Ops, Op, NoOp, Kinds, NoLiveIdx

LEMMA TypeStep ==
  ASSUME IInv, [Next]_vars
  PROVE  TypeOK'
<1> USE LocationFacts, ObjectFacts, OpFacts DEF TypeOK, Goto
<1> TypeOK  BY DEF IInv
<1>u. CASE UNCHANGED vars  BY <1>u DEF vars
<1>n. ASSUME NEW c \in CPUs, CPUStep(c)  PROVE TypeOK'
  <2> CPUInv(c)  BY DEF IInv
  <2> OpInv(c)  BY DEF CPUInv
  <2>1. CASE Dispatch(c)  BY <2>1 DEF Dispatch
  <2>2. CASE ExtensionStep(c)
    <3>1. CASE Return(c)  BY <3>1 DEF Return, RexExit
    <3>2. CASE DisplayReturn(c)  BY <3>2 DEF DisplayReturn
    <3>3. CASE CallHelper(c)
      BY <3>3 DEF CallHelper, EnterHelper, Kinds
    <3>4. ASSUME NEW l \in Locks, NewGuard(c, l)  PROVE TypeOK'
      BY <3>4 DEF NewGuard, EnterHelper, Kinds
    <3>5. ASSUME NEW o \in Registered, DropOwned(c, o)  PROVE TypeOK'
      BY <3>5 DEF DropOwned, EnterHelper, Kinds
    <3>6. CASE FromPid(c)
      BY <3>6 DEF FromPid, EnterHelper, Kinds
    <3>7. CASE Reserve(c)
      BY <3>7 DEF Reserve, EnterHelper, Kinds
    <3>8. ASSUME NEW r \in Records, ConsumeEntry(c, r)  PROVE TypeOK'
      BY <3>8 DEF ConsumeEntry, EnterHelper, Kinds
    <3>9. CASE ExtensionPanic(c)  BY <3>9 DEF ExtensionPanic
    <3>q. QED
      BY <2>2, <3>1, <3>2, <3>3, <3>4, <3>5, <3>6, <3>7, <3>8, <3>9
         DEF ExtensionStep, DropGuard, DropTask
  <2>3. CASE RuntimeStep(c)
    <3>1. CASE HelperBody(c)  BY <3>1 DEF HelperBody
    <3>2. CASE CheckFlag(c)
      <4>1. pc' \in [CPUs -> Locations]  BY <3>2 DEF CheckFlag
      <4>q. QED  BY <3>2, <4>1 DEF CheckFlag
    <3>3. CASE ResetFlag(c)
      BY <3>3 DEF ResetFlag, OpInv, Ops, Kinds
    <3>4. CASE register_cleanup(c)
      BY <3>4 DEF register_cleanup, OpInv, Ops
    <3>5. CASE register_cleanup_full(c)  BY <3>5 DEF register_cleanup_full
    <3>6. CASE deregister_cleanup(c)  BY <3>6 DEF deregister_cleanup
    <3>7. CASE KernelRelease(c)  BY <3>7 DEF KernelRelease
    <3>8. CASE bpf_task_from_pid(c)
      <4>1. op[c].kind \in Kinds /\ op[c].idx \in Slots \cup {NoIdx}  BY DEF Ops
      <4>2. UNCHANGED <<ctx, flag, ci, table, idx, rb, late, exceeded>>
        BY <3>8 DEF bpf_task_from_pid
      <4>3. CASE /\ pc' = [pc EXCEPT ![c] = "check"]
                 /\ UNCHANGED <<op, holder>>
        BY <4>2, <4>3
      <4>4. ASSUME NEW t \in Tasks,
                   holder' = [holder EXCEPT ![t] = c],
                   op' = [op EXCEPT ![c] = Op(@.kind, t, @.idx)],
                   pc' = [pc EXCEPT ![c] = "register"]
            PROVE  TypeOK'
        BY <4>1, <4>2, <4>4
      <4>q. QED  BY <3>8, <4>3, <4>4 DEF bpf_task_from_pid
    <3>9. CASE bpf_ringbuf_reserve(c)
      <4>1. op[c].kind \in Kinds /\ op[c].idx \in Slots \cup {NoIdx}  BY DEF Ops
      <4>2. op' \in [CPUs -> Ops]
        <5>1. CASE UNCHANGED op  BY <5>1
        <5>2. ASSUME NEW r \in Records, op' = [op EXCEPT ![c] = Op(@.kind, r, @.idx)]
              PROVE  op' \in [CPUs -> Ops]
          BY <5>2, <4>1
        <5>q. QED  BY <3>9, <5>1, <5>2 DEF bpf_ringbuf_reserve
      <4>3. holder' \in [Objects -> CPUs \cup {NoCPU}]
        BY <3>9 DEF bpf_ringbuf_reserve
      <4>q. QED  BY <3>9, <4>2, <4>3 DEF bpf_ringbuf_reserve
    <3>10. CASE bpf_ringbuf_consume(c)  BY <3>10 DEF bpf_ringbuf_consume
    <3>11. CASE panic(c)  BY <3>11 DEF panic
    <3>12. CASE cleanup_entry(c)
      <4>1. ci[c] \in Slots  BY <3>12 DEF cleanup_entry, Slots
      <4>2. holder' \in [Objects -> CPUs \cup {NoCPU}]
        BY <3>12, <4>1 DEF cleanup_entry
      <4>q. QED  BY <3>12, <4>2 DEF cleanup_entry
    <3>13. CASE invalidate_entry(c)
      <4>1. ci[c] \in Slots  BY <3>13 DEF invalidate_entry, CPUInv, SweepInv
      <4>2. ci' \in [CPUs -> 0 .. ENTRIES_SIZE]
        BY <3>13, <4>1 DEF invalidate_entry, Slots
      <4>q. QED  BY <3>13, <4>2 DEF invalidate_entry
    <3>14. CASE cleanup_all_done(c)  BY <3>14 DEF cleanup_all_done
    <3>15. CASE format_message(c)
      <4>1. pc' \in [CPUs -> Locations]
        <5>1. \/ pc' = [pc EXCEPT ![c] = "landing"]
              \/ pc' = [pc EXCEPT ![c] = "user"]
          BY <3>15 DEF format_message
        <5>q. QED  BY <5>1
      <4>2. ctx' \in [CPUs -> {"prog", "fmt"}]  BY <3>15 DEF format_message
      <4>3. UNCHANGED <<flag, op, ci, table, idx, rb, holder, late, exceeded>>
        BY <3>15 DEF format_message
      <4>q. QED  BY <4>1, <4>2, <4>3
    <3>16. CASE rex_landingpad(c)  BY <3>16 DEF rex_landingpad, RexExit
    <3>q. QED
      BY <2>3, <3>1, <3>2, <3>3, <3>4, <3>5, <3>6, <3>7, <3>8, <3>9, <3>10,
         <3>11, <3>12, <3>13, <3>14, <3>15, <3>16 DEF RuntimeStep
  <2>4. CASE bpf_spin_lock(c)  BY <2>4 DEF bpf_spin_lock
  <2>5. CASE Expire(c)  BY <2>5 DEF Expire
  <2>6. CASE TimerRedirect(c)  BY <2>6 DEF TimerRedirect
  <2>7. CASE TimerRequest(c)  BY <2>7 DEF TimerRequest
  <2>q. QED
    BY <1>n, <2>1, <2>2, <2>3, <2>4, <2>5, <2>6, <2>7 DEF CPUStep, Timer
<1>q. QED
  BY <1>u, <1>n DEF Next

(***************************************************************************)
(* A step of one CPU does not disturb the invariant of another: all it can *)
(* change there is who holds what, and never what the other CPU holds.     *)
(***************************************************************************)
LEMMA Frame ==
  ASSUME TypeOK, NEW d \in CPUs, CPUInv(d),
         pc'[d] = pc[d], flag'[d] # 0 \/ flag'[d] = flag[d], op'[d] = op[d],
         ci'[d] = ci[d], table'[d] = table[d], idx'[d] = idx[d],
         d \in exceeded => d \in exceeded',
         \A o \in Registered : holder'[o] = d <=> holder[o] = d
  PROVE  CPUInv(d)'
<1> USE ObjectFacts
<1> SUFFICES /\ FlagInv(d)' /\ OpInv(d)' /\ EntryInv(d)'
             /\ LiveInv(d)' /\ SweepInv(d)' /\ HeldInv(d)'
  BY DEF CPUInv
<1>1. FlagInv(d)'  BY DEF CPUInv, FlagInv
<1>2. OpInv(d)'  BY DEF CPUInv, OpInv
<1>3. EntryInv(d)'  BY DEF CPUInv, EntryInv, OpOwnsSlot, TypeOK
<1>4. LiveInv(d)'  BY DEF CPUInv, LiveInv
<1>5. SweepInv(d)'  BY DEF CPUInv, SweepInv
<1>6. HeldInv(d)'  BY DEF CPUInv, HeldInv, Covers
<1>q. QED  BY <1>1, <1>2, <1>3, <1>4, <1>5, <1>6

LEMMA OtherCPUs ==
  ASSUME IInv, NEW c \in CPUs, CPUStep(c), NEW d \in CPUs, d # c
  PROVE  CPUInv(d)'
<1> USE ObjectFacts DEF Goto, TypeOK
<1> TypeOK /\ CPUInv(c) /\ CPUInv(d)  BY DEF IInv
<1>1. CASE UNCHANGED holder
  <2>1. /\ pc'[d] = pc[d] /\ flag'[d] = flag[d] /\ op'[d] = op[d]
        /\ ci'[d] = ci[d] /\ table'[d] = table[d] /\ idx'[d] = idx[d]
        /\ d \in exceeded => d \in exceeded'
    <3>1. CASE Dispatch(c)  BY <3>1 DEF Dispatch
    <3>2. CASE ExtensionStep(c)
      BY <3>2 DEF ExtensionStep, Return, DisplayReturn, RexExit, CallHelper,
                  EnterHelper, NewGuard, DropGuard, DropOwned, FromPid, DropTask,
                  Reserve, ConsumeEntry, ExtensionPanic
    <3>3. CASE RuntimeStep(c)
      BY <3>3 DEF RuntimeStep, HelperBody, CheckFlag, ResetFlag,
                  register_cleanup, register_cleanup_full, deregister_cleanup,
                  KernelRelease, bpf_task_from_pid, bpf_ringbuf_reserve,
                  bpf_ringbuf_consume, panic, cleanup_entry, invalidate_entry,
                  cleanup_all_done, format_message, rex_landingpad, RexExit
    <3>4. CASE bpf_spin_lock(c)  BY <3>4 DEF bpf_spin_lock
    <3>5. CASE Expire(c)  BY <3>5 DEF Expire
    <3>6. CASE Timer(c)  BY <3>6 DEF Timer, TimerRedirect, TimerRequest
    <3>q. QED  BY <3>1, <3>2, <3>3, <3>4, <3>5, <3>6 DEF CPUStep
  <2>q. QED  BY <1>1, <2>1, Frame
<1> SUFFICES ASSUME ~UNCHANGED holder  PROVE CPUInv(d)'
  BY <1>1
<1>2. CASE bpf_spin_lock(c)
  <2>1. op[c].obj \in Locks  BY <1>2 DEF bpf_spin_lock, CPUInv, OpInv
  <2>q. QED  BY <1>2, <2>1, Frame DEF bpf_spin_lock
<1>3. CASE KernelRelease(c)
  <2>1. op[c].obj \in Registered /\ holder[op[c].obj] = c
    BY <1>3 DEF KernelRelease, CPUInv, OpInv
  <2>q. QED  BY <1>3, <2>1, Frame DEF KernelRelease
<1>4. CASE bpf_task_from_pid(c)
  BY <1>4, Frame DEF bpf_task_from_pid
<1>5. CASE bpf_ringbuf_reserve(c)
  BY <1>5, Frame DEF bpf_ringbuf_reserve
<1>6. CASE bpf_ringbuf_consume(c)
  <2>1. op[c].obj \in Records
    BY <1>6 DEF bpf_ringbuf_consume, CPUInv, OpInv
  <2>q. QED  BY <1>6, <2>1, Frame DEF bpf_ringbuf_consume
<1>7. CASE cleanup_entry(c)
  <2>1. ci[c] \in Slots  BY <1>7 DEF cleanup_entry, Slots
  <2>2. table[c][ci[c]] # NoObj =>
          table[c][ci[c]] \in Registered /\ holder[table[c][ci[c]]] = c
    BY <1>7, <2>1 DEF cleanup_entry, CPUInv, EntryInv
  <2>q. QED  BY <1>7, <2>2, Frame DEF cleanup_entry
<1>q. QED
  <2>1. CASE ExtensionStep(c)
    BY <2>1 DEF ExtensionStep, Return, DisplayReturn, RexExit, CallHelper,
                EnterHelper, NewGuard, DropGuard, DropOwned, FromPid, DropTask,
                Reserve, ConsumeEntry, ExtensionPanic
  <2>2. CASE RuntimeStep(c)
    BY <2>2, <1>3, <1>4, <1>5, <1>6, <1>7
       DEF RuntimeStep, HelperBody, CheckFlag, ResetFlag, register_cleanup,
           register_cleanup_full, deregister_cleanup, panic, invalidate_entry,
           cleanup_all_done, format_message, rex_landingpad, RexExit
  <2>q. QED
    BY <1>2, <2>1, <2>2
       DEF CPUStep, Dispatch, Expire, Timer, TimerRedirect, TimerRequest

(***************************************************************************)
(* A step of a CPU preserves that CPU's own invariant: one step per        *)
(* action, and under it one per part of the invariant.                     *)
(***************************************************************************)
LEMMA OwnCPU ==
  ASSUME IInv, TypeOK', NEW c \in CPUs, CPUStep(c)
  PROVE  CPUInv(c)'
<1> USE ObjectFacts DEF Goto, HelperLocations, HandlerLocations, CleanupLocations
<1> TypeOK /\ CPUInv(c)  BY DEF IInv
<1> /\ FlagInv(c) /\ OpInv(c) /\ EntryInv(c)
    /\ LiveInv(c) /\ SweepInv(c) /\ HeldInv(c)
  BY DEF CPUInv
<1>1. CASE Dispatch(c)
  <2>1. FlagInv(c)'  BY <1>1 DEF Dispatch, TypeOK, FlagInv
  <2>2. OpInv(c)'  BY <1>1 DEF Dispatch, TypeOK, OpInv, NoIdx, Slots
  <2>3. EntryInv(c)'  BY <1>1 DEF Dispatch, TypeOK, EntryInv, OpOwnsSlot, OpInv, LiveInv, SweepInv, NoLiveIdx, NoIdx, Slots
  <2>4. LiveInv(c)'  BY <1>1 DEF Dispatch, TypeOK, LiveInv, OpInv, NoLiveIdx, NoIdx, Slots
  <2>5. SweepInv(c)'  BY <1>1 DEF Dispatch, TypeOK, SweepInv, EntryInv, NoLiveIdx, NoIdx, Slots
  <2>6. HeldInv(c)'  BY <1>1 DEF Dispatch, TypeOK, HeldInv, Covers, OpInv, EntryInv, SweepInv, NoIdx, Slots
  <2>q. QED  BY <2>1, <2>2, <2>3, <2>4, <2>5, <2>6 DEF CPUInv
<1>2. CASE Return(c)
  <2>1. FlagInv(c)'  BY <1>2 DEF Return, RexExit, NothingLive, TypeOK, FlagInv
  <2>2. OpInv(c)'  BY <1>2 DEF Return, RexExit, NothingLive, TypeOK, OpInv, NoIdx, Slots
  <2>3. EntryInv(c)'  BY <1>2 DEF Return, RexExit, NothingLive, TypeOK, EntryInv, OpOwnsSlot, OpInv, LiveInv, SweepInv, NoLiveIdx, NoIdx, Slots
  <2>4. LiveInv(c)'  BY <1>2 DEF Return, RexExit, NothingLive, TypeOK, LiveInv, OpInv, NoLiveIdx, NoIdx, Slots
  <2>5. SweepInv(c)'  BY <1>2 DEF Return, RexExit, NothingLive, TypeOK, SweepInv, EntryInv, OpOwnsSlot, NoLiveIdx, NoIdx, Slots
  <2>6. HeldInv(c)'  BY <1>2 DEF Return, RexExit, NothingLive, TypeOK, HeldInv, Covers, OpInv, EntryInv, SweepInv, NoIdx, Slots
  <2>q. QED  BY <2>1, <2>2, <2>3, <2>4, <2>5, <2>6 DEF CPUInv
<1>3. CASE DisplayReturn(c)
  <2>1. FlagInv(c)'  BY <1>3 DEF DisplayReturn, NothingLive, TypeOK, FlagInv
  <2>2. OpInv(c)'  BY <1>3 DEF DisplayReturn, NothingLive, TypeOK, OpInv, NoIdx, Slots
  <2>3. EntryInv(c)'  BY <1>3 DEF DisplayReturn, NothingLive, TypeOK, EntryInv, OpOwnsSlot, OpInv, LiveInv, SweepInv, NoLiveIdx, NoIdx, Slots
  <2>4. LiveInv(c)'  BY <1>3 DEF DisplayReturn, NothingLive, TypeOK, LiveInv, OpInv, NoLiveIdx, NoIdx, Slots
  <2>5. SweepInv(c)'  BY <1>3 DEF DisplayReturn, NothingLive, TypeOK, SweepInv, EntryInv, OpOwnsSlot, NoLiveIdx, NoIdx, Slots
  <2>6. HeldInv(c)'  BY <1>3 DEF DisplayReturn, NothingLive, TypeOK, HeldInv, Covers, OpInv, EntryInv, SweepInv, NoIdx, Slots
  <2>q. QED  BY <2>1, <2>2, <2>3, <2>4, <2>5, <2>6 DEF CPUInv
<1>4. CASE CallHelper(c)
  <2>1. FlagInv(c)'  BY <1>4 DEF CallHelper, EnterHelper, Op, TypeOK, FlagInv
  <2>2. OpInv(c)'  BY <1>4 DEF CallHelper, EnterHelper, Op, TypeOK, OpInv, NoIdx, Slots
  <2>3. EntryInv(c)'  BY <1>4 DEF CallHelper, EnterHelper, Op, TypeOK, EntryInv, OpOwnsSlot, OpInv, LiveInv, SweepInv, NoLiveIdx, NoIdx, Slots
  <2>4. LiveInv(c)'  BY <1>4 DEF CallHelper, EnterHelper, Op, TypeOK, LiveInv, OpInv, NoLiveIdx, NoIdx, Slots
  <2>5. SweepInv(c)'  BY <1>4 DEF CallHelper, EnterHelper, Op, TypeOK, SweepInv, EntryInv, NoLiveIdx, NoIdx, Slots
  <2>6. HeldInv(c)'  BY <1>4 DEF CallHelper, EnterHelper, Op, TypeOK, HeldInv, Covers, OpInv, EntryInv, SweepInv, NoIdx, Slots
  <2>q. QED  BY <2>1, <2>2, <2>3, <2>4, <2>5, <2>6 DEF CPUInv
<1>5. ASSUME NEW l \in Locks, NewGuard(c, l)  PROVE CPUInv(c)'
  <2>1. FlagInv(c)'  BY <1>5 DEF NewGuard, EnterHelper, Op, TypeOK, FlagInv
  <2>2. OpInv(c)'  BY <1>5 DEF NewGuard, EnterHelper, Op, TypeOK, OpInv, NoIdx, Slots
  <2>3. EntryInv(c)'  BY <1>5 DEF NewGuard, EnterHelper, Op, TypeOK, EntryInv, OpOwnsSlot, OpInv, LiveInv, SweepInv, NoLiveIdx, NoIdx, Slots
  <2>4. LiveInv(c)'  BY <1>5 DEF NewGuard, EnterHelper, Op, TypeOK, LiveInv, OpInv, NoLiveIdx, NoIdx, Slots
  <2>5. SweepInv(c)'  BY <1>5 DEF NewGuard, EnterHelper, Op, TypeOK, SweepInv, EntryInv, NoLiveIdx, NoIdx, Slots
  <2>6. HeldInv(c)'  BY <1>5 DEF NewGuard, EnterHelper, Op, TypeOK, HeldInv, Covers, OpInv, EntryInv, SweepInv, NoIdx, Slots
  <2>q. QED  BY <2>1, <2>2, <2>3, <2>4, <2>5, <2>6 DEF CPUInv
<1>6. ASSUME NEW o \in Registered, DropOwned(c, o)  PROVE CPUInv(c)'
  <2>1. FlagInv(c)'  BY <1>6 DEF DropOwned, EnterHelper, Op, TypeOK, FlagInv
  <2>2. OpInv(c)'  BY <1>6 DEF DropOwned, EnterHelper, Op, TypeOK, OpInv, LiveInv
  <2>3. EntryInv(c)'  BY <1>6 DEF DropOwned, EnterHelper, Op, TypeOK, EntryInv, OpOwnsSlot, OpInv, LiveInv, SweepInv, NoLiveIdx, NoIdx, Slots
  <2>4. LiveInv(c)'  BY <1>6 DEF DropOwned, EnterHelper, Op, TypeOK, LiveInv, OpInv, NoLiveIdx, NoIdx, Slots
  <2>5. SweepInv(c)'  BY <1>6 DEF DropOwned, EnterHelper, Op, TypeOK, SweepInv, EntryInv, NoLiveIdx, NoIdx, Slots
  <2>6. HeldInv(c)'  BY <1>6 DEF DropOwned, EnterHelper, Op, TypeOK, HeldInv, Covers, OpInv, EntryInv, SweepInv, NoIdx, Slots
  <2>q. QED  BY <2>1, <2>2, <2>3, <2>4, <2>5, <2>6 DEF CPUInv
<1>7. CASE FromPid(c)
  <2>1. FlagInv(c)'  BY <1>7 DEF FromPid, EnterHelper, Op, TypeOK, FlagInv
  <2>2. OpInv(c)'  BY <1>7 DEF FromPid, EnterHelper, Op, TypeOK, OpInv, NoIdx, Slots
  <2>3. EntryInv(c)'  BY <1>7 DEF FromPid, EnterHelper, Op, TypeOK, EntryInv, OpOwnsSlot, OpInv, LiveInv, SweepInv, NoLiveIdx, NoIdx, Slots
  <2>4. LiveInv(c)'  BY <1>7 DEF FromPid, EnterHelper, Op, TypeOK, LiveInv, OpInv, NoLiveIdx, NoIdx, Slots
  <2>5. SweepInv(c)'  BY <1>7 DEF FromPid, EnterHelper, Op, TypeOK, SweepInv, EntryInv, NoLiveIdx, NoIdx, Slots
  <2>6. HeldInv(c)'  BY <1>7 DEF FromPid, EnterHelper, Op, TypeOK, HeldInv, Covers, OpInv, EntryInv, SweepInv, NoIdx, Slots
  <2>q. QED  BY <2>1, <2>2, <2>3, <2>4, <2>5, <2>6 DEF CPUInv
<1>8. CASE Reserve(c)
  <2>1. FlagInv(c)'  BY <1>8 DEF Reserve, EnterHelper, Op, TypeOK, FlagInv
  <2>2. OpInv(c)'  BY <1>8 DEF Reserve, EnterHelper, Op, TypeOK, OpInv, NoIdx, Slots
  <2>3. EntryInv(c)'  BY <1>8 DEF Reserve, EnterHelper, Op, TypeOK, EntryInv, OpOwnsSlot, OpInv, LiveInv, SweepInv, NoLiveIdx, NoIdx, Slots
  <2>4. LiveInv(c)'  BY <1>8 DEF Reserve, EnterHelper, Op, TypeOK, LiveInv, OpInv, NoLiveIdx, NoIdx, Slots
  <2>5. SweepInv(c)'  BY <1>8 DEF Reserve, EnterHelper, Op, TypeOK, SweepInv, EntryInv, NoLiveIdx, NoIdx, Slots
  <2>6. HeldInv(c)'  BY <1>8 DEF Reserve, EnterHelper, Op, TypeOK, HeldInv, Covers, OpInv, EntryInv, SweepInv, NoIdx, Slots
  <2>q. QED  BY <2>1, <2>2, <2>3, <2>4, <2>5, <2>6 DEF CPUInv
<1>9. ASSUME NEW r \in Records, ConsumeEntry(c, r)  PROVE CPUInv(c)'
  <2>1. FlagInv(c)'  BY <1>9 DEF ConsumeEntry, EnterHelper, Op, TypeOK, FlagInv
  <2>2. OpInv(c)'  BY <1>9 DEF ConsumeEntry, EnterHelper, Op, TypeOK, OpInv, NoIdx, Slots
  <2>3. EntryInv(c)'  BY <1>9 DEF ConsumeEntry, EnterHelper, Op, TypeOK, EntryInv, OpOwnsSlot, OpInv, LiveInv, SweepInv, NoLiveIdx, NoIdx, Slots
  <2>4. LiveInv(c)'  BY <1>9 DEF ConsumeEntry, EnterHelper, Op, TypeOK, LiveInv, OpInv, NoLiveIdx, NoIdx, Slots
  <2>5. SweepInv(c)'  BY <1>9 DEF ConsumeEntry, EnterHelper, Op, TypeOK, SweepInv, EntryInv, NoLiveIdx, NoIdx, Slots
  <2>6. HeldInv(c)'  BY <1>9 DEF ConsumeEntry, EnterHelper, Op, TypeOK, HeldInv, Covers, OpInv, EntryInv, SweepInv, NoIdx, Slots
  <2>q. QED  BY <2>1, <2>2, <2>3, <2>4, <2>5, <2>6 DEF CPUInv
<1>10. CASE ExtensionPanic(c)
  <2>1. FlagInv(c)'  BY <1>10 DEF ExtensionPanic, TypeOK, FlagInv
  <2>2. OpInv(c)'  BY <1>10 DEF ExtensionPanic, TypeOK, OpInv, NoIdx, Slots
  <2>3. EntryInv(c)'  BY <1>10 DEF ExtensionPanic, TypeOK, EntryInv, OpOwnsSlot, OpInv, LiveInv, SweepInv, NoLiveIdx, NoIdx, Slots
  <2>4. LiveInv(c)'  BY <1>10 DEF ExtensionPanic, TypeOK, LiveInv, OpInv, NoLiveIdx, NoIdx, Slots
  <2>5. SweepInv(c)'  BY <1>10 DEF ExtensionPanic, TypeOK, SweepInv, EntryInv, NoLiveIdx, NoIdx, Slots
  <2>6. HeldInv(c)'  BY <1>10 DEF ExtensionPanic, TypeOK, HeldInv, Covers, OpInv, EntryInv, SweepInv, NoIdx, Slots
  <2>q. QED  BY <2>1, <2>2, <2>3, <2>4, <2>5, <2>6 DEF CPUInv
<1>11. CASE HelperBody(c)
  <2>1. FlagInv(c)'  BY <1>11 DEF HelperBody, TypeOK, FlagInv
  <2>2. OpInv(c)'  BY <1>11 DEF HelperBody, TypeOK, OpInv, NoIdx, Slots
  <2>3. EntryInv(c)'  BY <1>11 DEF HelperBody, TypeOK, EntryInv, OpOwnsSlot, OpInv, LiveInv, SweepInv, NoLiveIdx, NoIdx, Slots
  <2>4. LiveInv(c)'  BY <1>11 DEF HelperBody, TypeOK, LiveInv, OpInv, NoLiveIdx, NoIdx, Slots
  <2>5. SweepInv(c)'  BY <1>11 DEF HelperBody, TypeOK, SweepInv, EntryInv, NoLiveIdx, NoIdx, Slots
  <2>6. HeldInv(c)'  BY <1>11 DEF HelperBody, TypeOK, HeldInv, Covers, OpInv, EntryInv, SweepInv, NoIdx, Slots
  <2>q. QED  BY <2>1, <2>2, <2>3, <2>4, <2>5, <2>6 DEF CPUInv
<1>12. CASE CheckFlag(c)
  <2>1. FlagInv(c)'  BY <1>12 DEF CheckFlag, TypeOK, FlagInv
  <2>2. OpInv(c)'  BY <1>12 DEF CheckFlag, TypeOK, OpInv, NoIdx, Slots
  <2>3. EntryInv(c)'  BY <1>12 DEF CheckFlag, TypeOK, EntryInv, OpOwnsSlot, OpInv, LiveInv, SweepInv, NoLiveIdx, NoIdx, Slots
  <2>4. LiveInv(c)'  BY <1>12 DEF CheckFlag, TypeOK, LiveInv, OpInv, NoLiveIdx, NoIdx, Slots
  <2>5. SweepInv(c)'  BY <1>12 DEF CheckFlag, TypeOK, SweepInv, EntryInv, NoLiveIdx, NoIdx, Slots
  <2>6. HeldInv(c)'  BY <1>12 DEF CheckFlag, TypeOK, HeldInv, Covers, OpInv, EntryInv, SweepInv, NoIdx, Slots
  <2>q. QED  BY <2>1, <2>2, <2>3, <2>4, <2>5, <2>6 DEF CPUInv
<1>13. CASE ResetFlag(c)
  <2>1. FlagInv(c)'  BY <1>13 DEF ResetFlag, NoOp, Op, TypeOK, FlagInv
  <2>2. OpInv(c)'  BY <1>13 DEF ResetFlag, NoOp, Op, TypeOK, OpInv, NoIdx, Slots
  <2>3. EntryInv(c)'
    <3>1. CASE op[c].kind \in {"guard", "from_pid"} /\ op[c].obj # NoObj
      <4>1. /\ op[c].obj \in Registered /\ op[c].idx \in Slots
            /\ table[c][op[c].idx] = op[c].obj /\ holder[op[c].obj] = c
        BY <1>13, <3>1 DEF ResetFlag, OpInv
      <4>2. idx' = [idx EXCEPT ![c][op[c].obj] = op[c].idx]
        BY <1>13, <3>1 DEF ResetFlag
      <4>q. QED
        BY <1>13, <4>1, <4>2 DEF ResetFlag, EntryInv, OpOwnsSlot, TypeOK
    <3>2. CASE ~(op[c].kind \in {"guard", "from_pid"} /\ op[c].obj # NoObj)
      <4>1. \A i \in Slots : table[c][i] # NoObj => ~(OpOwnsSlot(c) /\ op[c].idx = i)
        BY <1>13, <3>2 DEF ResetFlag, OpOwnsSlot, OpInv
      <4>2. UNCHANGED idx  BY <1>13, <3>2 DEF ResetFlag
      <4>q. QED
        BY <1>13, <4>1, <4>2 DEF ResetFlag, EntryInv, TypeOK
    <3>q. QED  BY <3>1, <3>2
  <2>4. LiveInv(c)'  BY <1>13 DEF ResetFlag, NoOp, Op, TypeOK, LiveInv, OpInv, NoLiveIdx, NoIdx, Slots
  <2>5. SweepInv(c)'  BY <1>13 DEF ResetFlag, NoOp, Op, TypeOK, SweepInv, EntryInv, NoLiveIdx, NoIdx, Slots
  <2>6. HeldInv(c)'  BY <1>13 DEF ResetFlag, NoOp, Op, TypeOK, HeldInv, Covers, OpInv, EntryInv, SweepInv, NoIdx, Slots
  <2>q. QED  BY <2>1, <2>2, <2>3, <2>4, <2>5, <2>6 DEF CPUInv
<1>14. CASE register_cleanup(c)
  <2>1. FlagInv(c)'  BY <1>14 DEF register_cleanup, find_next_emtpy_entry, Op, TypeOK, FlagInv
  <2>2. OpInv(c)'  BY <1>14 DEF register_cleanup, find_next_emtpy_entry, Op, TypeOK, OpInv, NoIdx, Slots
  <2>3. EntryInv(c)'  BY <1>14 DEF register_cleanup, find_next_emtpy_entry, Op, TypeOK, EntryInv, OpOwnsSlot, OpInv, LiveInv, SweepInv, NoLiveIdx, NoIdx, Slots
  <2>4. LiveInv(c)'  BY <1>14 DEF register_cleanup, find_next_emtpy_entry, Op, TypeOK, LiveInv, OpInv, NoLiveIdx, NoIdx, Slots
  <2>5. SweepInv(c)'  BY <1>14 DEF register_cleanup, find_next_emtpy_entry, Op, TypeOK, SweepInv, EntryInv, NoLiveIdx, NoIdx, Slots
  <2>6. HeldInv(c)'  BY <1>14 DEF register_cleanup, find_next_emtpy_entry, Op, TypeOK, HeldInv, Covers, OpInv, EntryInv, SweepInv, NoIdx, Slots
  <2>q. QED  BY <2>1, <2>2, <2>3, <2>4, <2>5, <2>6 DEF CPUInv
<1>15. CASE register_cleanup_full(c)
  <2>1. FlagInv(c)'  BY <1>15 DEF register_cleanup_full, TypeOK, FlagInv
  <2>2. OpInv(c)'  BY <1>15 DEF register_cleanup_full, TypeOK, OpInv, NoIdx, Slots
  <2>3. EntryInv(c)'  BY <1>15 DEF register_cleanup_full, TypeOK, EntryInv, OpOwnsSlot, OpInv, LiveInv, SweepInv, NoLiveIdx, NoIdx, Slots
  <2>4. LiveInv(c)'  BY <1>15 DEF register_cleanup_full, TypeOK, LiveInv, OpInv, NoLiveIdx, NoIdx, Slots
  <2>5. SweepInv(c)'  BY <1>15 DEF register_cleanup_full, TypeOK, SweepInv, EntryInv, NoLiveIdx, NoIdx, Slots
  <2>6. HeldInv(c)'  BY <1>15 DEF register_cleanup_full, TypeOK, HeldInv, Covers, OpInv, EntryInv, SweepInv, NoIdx, Slots
  <2>q. QED  BY <2>1, <2>2, <2>3, <2>4, <2>5, <2>6 DEF CPUInv
<1>16. CASE deregister_cleanup(c)
  <2>1. FlagInv(c)'  BY <1>16 DEF deregister_cleanup, TypeOK, FlagInv
  <2>2. OpInv(c)'  BY <1>16 DEF deregister_cleanup, TypeOK, OpInv, EntryInv, OpOwnsSlot
  <2>3. EntryInv(c)'  BY <1>16 DEF deregister_cleanup, TypeOK, EntryInv, OpOwnsSlot, OpInv, LiveInv, SweepInv, NoLiveIdx, NoIdx, Slots
  <2>4. LiveInv(c)'  BY <1>16 DEF deregister_cleanup, TypeOK, LiveInv, OpInv, NoLiveIdx, NoIdx, Slots
  <2>5. SweepInv(c)'  BY <1>16 DEF deregister_cleanup, TypeOK, SweepInv, EntryInv, NoLiveIdx, NoIdx, Slots
  <2>6. HeldInv(c)'  BY <1>16 DEF deregister_cleanup, TypeOK, HeldInv, Covers, OpInv, EntryInv, SweepInv, NoIdx, Slots
  <2>q. QED  BY <2>1, <2>2, <2>3, <2>4, <2>5, <2>6 DEF CPUInv
<1>17. CASE KernelRelease(c)
  <2>1. FlagInv(c)'  BY <1>17 DEF KernelRelease, TypeOK, FlagInv
  <2>2. OpInv(c)'  BY <1>17 DEF KernelRelease, TypeOK, OpInv, NoIdx, Slots
  <2>3. EntryInv(c)'  BY <1>17 DEF KernelRelease, TypeOK, EntryInv, OpOwnsSlot, OpInv, LiveInv, SweepInv, NoLiveIdx, NoIdx, Slots
  <2>4. LiveInv(c)'  BY <1>17 DEF KernelRelease, TypeOK, LiveInv, OpInv, NoLiveIdx, NoIdx, Slots
  <2>5. SweepInv(c)'  BY <1>17 DEF KernelRelease, TypeOK, SweepInv, EntryInv, NoLiveIdx, NoIdx, Slots
  <2>6. HeldInv(c)'  BY <1>17 DEF KernelRelease, TypeOK, HeldInv, Covers, OpInv, EntryInv, SweepInv, NoIdx, Slots
  <2>q. QED  BY <2>1, <2>2, <2>3, <2>4, <2>5, <2>6 DEF CPUInv
<1>18. CASE bpf_task_from_pid(c)
  <2>1. FlagInv(c)'  BY <1>18 DEF bpf_task_from_pid, Op, TypeOK, FlagInv
  <2>2. OpInv(c)'  BY <1>18 DEF bpf_task_from_pid, Op, TypeOK, OpInv, EntryInv, OpOwnsSlot
  <2>3. EntryInv(c)'  BY <1>18 DEF bpf_task_from_pid, Op, TypeOK, EntryInv, OpOwnsSlot, OpInv, LiveInv, SweepInv, NoLiveIdx, NoIdx, Slots
  <2>4. LiveInv(c)'  BY <1>18 DEF bpf_task_from_pid, Op, TypeOK, LiveInv, OpInv, NoLiveIdx, NoIdx, Slots
  <2>5. SweepInv(c)'  BY <1>18 DEF bpf_task_from_pid, Op, TypeOK, SweepInv, EntryInv, NoLiveIdx, NoIdx, Slots
  <2>6. HeldInv(c)'
    <3>1. CASE UNCHANGED <<op, holder>>
      BY <1>18, <3>1 DEF bpf_task_from_pid, HeldInv, Covers, TypeOK
    <3>2. ASSUME NEW t \in Tasks,
                 holder' = [holder EXCEPT ![t] = c],
                 op' = [op EXCEPT ![c] = Op(@.kind, t, @.idx)],
                 pc' = [pc EXCEPT ![c] = "register"]
          PROVE  HeldInv(c)'
      BY <1>18, <3>2, DisjointObjects
         DEF bpf_task_from_pid, HeldInv, Covers, TypeOK, Op
    <3>q. QED  BY <1>18, <3>1, <3>2 DEF bpf_task_from_pid
  <2>q. QED  BY <2>1, <2>2, <2>3, <2>4, <2>5, <2>6 DEF CPUInv
<1>19. CASE bpf_ringbuf_reserve(c)
  <2>1. FlagInv(c)'  BY <1>19 DEF bpf_ringbuf_reserve, Op, TypeOK, FlagInv
  <2>2. OpInv(c)'  BY <1>19 DEF bpf_ringbuf_reserve, Op, TypeOK, OpInv, NoIdx, Slots
  <2>3. EntryInv(c)'  BY <1>19 DEF bpf_ringbuf_reserve, Op, TypeOK, EntryInv, OpOwnsSlot, OpInv, LiveInv, SweepInv, NoLiveIdx, NoIdx, Slots
  <2>4. LiveInv(c)'  BY <1>19 DEF bpf_ringbuf_reserve, Op, TypeOK, LiveInv, OpInv, NoLiveIdx, NoIdx, Slots
  <2>5. SweepInv(c)'  BY <1>19 DEF bpf_ringbuf_reserve, Op, TypeOK, SweepInv, EntryInv, NoLiveIdx, NoIdx, Slots
  <2>6. HeldInv(c)'  BY <1>19 DEF bpf_ringbuf_reserve, Op, TypeOK, HeldInv, Covers, OpInv, EntryInv, SweepInv, NoIdx, Slots
  <2>q. QED  BY <2>1, <2>2, <2>3, <2>4, <2>5, <2>6 DEF CPUInv
<1>20. CASE bpf_ringbuf_consume(c)
  <2>1. FlagInv(c)'  BY <1>20 DEF bpf_ringbuf_consume, TypeOK, FlagInv
  <2>2. OpInv(c)'  BY <1>20 DEF bpf_ringbuf_consume, TypeOK, OpInv, NoIdx, Slots
  <2>3. EntryInv(c)'  BY <1>20 DEF bpf_ringbuf_consume, TypeOK, EntryInv, OpOwnsSlot, OpInv, LiveInv, SweepInv, NoLiveIdx, NoIdx, Slots
  <2>4. LiveInv(c)'  BY <1>20 DEF bpf_ringbuf_consume, TypeOK, LiveInv, OpInv, NoLiveIdx, NoIdx, Slots
  <2>5. SweepInv(c)'  BY <1>20 DEF bpf_ringbuf_consume, TypeOK, SweepInv, EntryInv, NoLiveIdx, NoIdx, Slots
  <2>6. HeldInv(c)'  BY <1>20 DEF bpf_ringbuf_consume, TypeOK, HeldInv, Covers, OpInv, EntryInv, SweepInv, NoIdx, Slots
  <2>q. QED  BY <2>1, <2>2, <2>3, <2>4, <2>5, <2>6 DEF CPUInv
<1>21. CASE panic(c)
  <2>1. FlagInv(c)'  BY <1>21 DEF panic, NoOp, Op, TypeOK, FlagInv
  <2>2. OpInv(c)'  BY <1>21 DEF panic, NoOp, Op, TypeOK, OpInv, NoIdx, Slots
  <2>3. EntryInv(c)'  BY <1>21 DEF panic, NoOp, Op, TypeOK, EntryInv, OpOwnsSlot, OpInv, LiveInv, SweepInv, NoLiveIdx, NoIdx, Slots
  <2>4. LiveInv(c)'  BY <1>21 DEF panic, NoOp, Op, TypeOK, LiveInv, OpInv, NoLiveIdx, NoIdx, Slots
  <2>5. SweepInv(c)'  BY <1>21 DEF panic, NoOp, Op, TypeOK, SweepInv, EntryInv, NoLiveIdx, NoIdx, Slots
  <2>6. HeldInv(c)'  BY <1>21 DEF panic, NoOp, Op, TypeOK, HeldInv, Covers, OpInv, EntryInv, SweepInv, NoIdx, Slots
  <2>q. QED  BY <2>1, <2>2, <2>3, <2>4, <2>5, <2>6 DEF CPUInv
<1>22. CASE cleanup_entry(c)
  <2>1. FlagInv(c)'  BY <1>22 DEF cleanup_entry, TypeOK, FlagInv
  <2>2. OpInv(c)'  BY <1>22 DEF cleanup_entry, TypeOK, OpInv, NoIdx, Slots
  <2>3. EntryInv(c)'  BY <1>22 DEF cleanup_entry, TypeOK, EntryInv, OpOwnsSlot, OpInv, LiveInv, SweepInv, NoLiveIdx, NoIdx, Slots
  <2>4. LiveInv(c)'  BY <1>22 DEF cleanup_entry, TypeOK, LiveInv, OpInv, NoLiveIdx, NoIdx, Slots
  <2>5. SweepInv(c)'  BY <1>22 DEF cleanup_entry, TypeOK, SweepInv, EntryInv, NoLiveIdx, NoIdx, Slots
  <2>6. HeldInv(c)'  BY <1>22 DEF cleanup_entry, TypeOK, HeldInv, Covers, OpInv, EntryInv, SweepInv, NoIdx, Slots
  <2>q. QED  BY <2>1, <2>2, <2>3, <2>4, <2>5, <2>6 DEF CPUInv
<1>23. CASE invalidate_entry(c)
  <2>1. FlagInv(c)'  BY <1>23 DEF invalidate_entry, TypeOK, FlagInv
  <2>2. OpInv(c)'  BY <1>23 DEF invalidate_entry, TypeOK, OpInv, NoIdx, Slots
  <2>3. EntryInv(c)'  BY <1>23 DEF invalidate_entry, TypeOK, EntryInv, OpOwnsSlot, OpInv, LiveInv, SweepInv, NoLiveIdx, NoIdx, Slots
  <2>4. LiveInv(c)'  BY <1>23 DEF invalidate_entry, TypeOK, LiveInv, OpInv, NoLiveIdx, NoIdx, Slots
  <2>5. SweepInv(c)'  BY <1>23 DEF invalidate_entry, TypeOK, SweepInv, EntryInv, NoLiveIdx, NoIdx, Slots
  <2>6. HeldInv(c)'  BY <1>23 DEF invalidate_entry, TypeOK, HeldInv, Covers, OpInv, EntryInv, SweepInv, NoIdx, Slots
  <2>q. QED  BY <2>1, <2>2, <2>3, <2>4, <2>5, <2>6 DEF CPUInv
<1>24. CASE cleanup_all_done(c)
  <2>1. FlagInv(c)'  BY <1>24 DEF cleanup_all_done, TypeOK, FlagInv
  <2>2. OpInv(c)'  BY <1>24 DEF cleanup_all_done, TypeOK, OpInv, NoIdx, Slots
  <2>3. EntryInv(c)'  BY <1>24 DEF cleanup_all_done, TypeOK, EntryInv, OpOwnsSlot, OpInv, LiveInv, SweepInv, NoLiveIdx, NoIdx, Slots
  <2>4. LiveInv(c)'  BY <1>24 DEF cleanup_all_done, TypeOK, LiveInv, OpInv, NoLiveIdx, NoIdx, Slots
  <2>5. SweepInv(c)'  BY <1>24 DEF cleanup_all_done, TypeOK, SweepInv, EntryInv, NoLiveIdx, NoIdx, Slots
  <2>6. HeldInv(c)'  BY <1>24 DEF cleanup_all_done, TypeOK, HeldInv, Covers, OpInv, EntryInv, SweepInv, NoIdx, Slots
  <2>q. QED  BY <2>1, <2>2, <2>3, <2>4, <2>5, <2>6 DEF CPUInv
<1>25. CASE format_message(c)
  <2>1. FlagInv(c)'  BY <1>25 DEF format_message, TypeOK, FlagInv
  <2>2. OpInv(c)'  BY <1>25 DEF format_message, TypeOK, OpInv, NoIdx, Slots
  <2>3. EntryInv(c)'  BY <1>25 DEF format_message, TypeOK, EntryInv, OpOwnsSlot, OpInv, LiveInv, SweepInv, NoLiveIdx, NoIdx, Slots
  <2>4. LiveInv(c)'  BY <1>25 DEF format_message, TypeOK, LiveInv, OpInv, NoLiveIdx, NoIdx, Slots
  <2>5. SweepInv(c)'  BY <1>25 DEF format_message, TypeOK, SweepInv, EntryInv, NoLiveIdx, NoIdx, Slots
  <2>6. HeldInv(c)'  BY <1>25 DEF format_message, TypeOK, HeldInv, Covers, OpInv, EntryInv, SweepInv, NoIdx, Slots
  <2>q. QED  BY <2>1, <2>2, <2>3, <2>4, <2>5, <2>6 DEF CPUInv
<1>26. CASE rex_landingpad(c)
  <2>1. FlagInv(c)'  BY <1>26 DEF rex_landingpad, RexExit, TypeOK, FlagInv
  <2>2. OpInv(c)'  BY <1>26 DEF rex_landingpad, RexExit, TypeOK, OpInv, NoIdx, Slots
  <2>3. EntryInv(c)'  BY <1>26 DEF rex_landingpad, RexExit, TypeOK, EntryInv, OpOwnsSlot, OpInv, LiveInv, SweepInv, NoLiveIdx, NoIdx, Slots
  <2>4. LiveInv(c)'  BY <1>26 DEF rex_landingpad, RexExit, TypeOK, LiveInv, OpInv, NoLiveIdx, NoIdx, Slots
  <2>5. SweepInv(c)'  BY <1>26 DEF rex_landingpad, RexExit, TypeOK, SweepInv, EntryInv, NoLiveIdx, NoIdx, Slots
  <2>6. HeldInv(c)'  BY <1>26 DEF rex_landingpad, RexExit, TypeOK, HeldInv, Covers, OpInv, EntryInv, SweepInv, NoIdx, Slots
  <2>q. QED  BY <2>1, <2>2, <2>3, <2>4, <2>5, <2>6 DEF CPUInv
<1>27. CASE bpf_spin_lock(c)
  <2>1. FlagInv(c)'  BY <1>27 DEF bpf_spin_lock, TypeOK, FlagInv
  <2>2. OpInv(c)'  BY <1>27 DEF bpf_spin_lock, TypeOK, OpInv, NoIdx, Slots
  <2>3. EntryInv(c)'  BY <1>27 DEF bpf_spin_lock, TypeOK, EntryInv, OpOwnsSlot, OpInv, LiveInv, SweepInv, NoLiveIdx, NoIdx, Slots
  <2>4. LiveInv(c)'  BY <1>27 DEF bpf_spin_lock, TypeOK, LiveInv, OpInv, NoLiveIdx, NoIdx, Slots
  <2>5. SweepInv(c)'  BY <1>27 DEF bpf_spin_lock, TypeOK, SweepInv, EntryInv, NoLiveIdx, NoIdx, Slots
  <2>6. HeldInv(c)'  BY <1>27 DEF bpf_spin_lock, TypeOK, HeldInv, Covers, OpInv, EntryInv, SweepInv, NoIdx, Slots
  <2>q. QED  BY <2>1, <2>2, <2>3, <2>4, <2>5, <2>6 DEF CPUInv
<1>28. CASE Expire(c)
  <2>1. FlagInv(c)'  BY <1>28 DEF Expire, TypeOK, FlagInv
  <2>2. OpInv(c)'  BY <1>28 DEF Expire, TypeOK, OpInv, NoIdx, Slots
  <2>3. EntryInv(c)'  BY <1>28 DEF Expire, TypeOK, EntryInv, OpOwnsSlot, OpInv, LiveInv, SweepInv, NoLiveIdx, NoIdx, Slots
  <2>4. LiveInv(c)'  BY <1>28 DEF Expire, TypeOK, LiveInv, OpInv, NoLiveIdx, NoIdx, Slots
  <2>5. SweepInv(c)'  BY <1>28 DEF Expire, TypeOK, SweepInv, EntryInv, NoLiveIdx, NoIdx, Slots
  <2>6. HeldInv(c)'  BY <1>28 DEF Expire, TypeOK, HeldInv, Covers, OpInv, EntryInv, SweepInv, NoIdx, Slots
  <2>q. QED  BY <2>1, <2>2, <2>3, <2>4, <2>5, <2>6 DEF CPUInv
<1>29. CASE TimerRedirect(c)
  <2>1. FlagInv(c)'  BY <1>29 DEF TimerRedirect, TypeOK, FlagInv
  <2>2. OpInv(c)'  BY <1>29 DEF TimerRedirect, TypeOK, OpInv, NoIdx, Slots
  <2>3. EntryInv(c)'  BY <1>29 DEF TimerRedirect, TypeOK, FlagInv, EntryInv, OpOwnsSlot
  <2>4. LiveInv(c)'  BY <1>29 DEF TimerRedirect, TypeOK, LiveInv, OpInv, NoLiveIdx, NoIdx, Slots
  <2>5. SweepInv(c)'  BY <1>29 DEF TimerRedirect, TypeOK, SweepInv, EntryInv, NoLiveIdx, NoIdx, Slots
  <2>6. HeldInv(c)'  BY <1>29 DEF TimerRedirect, TypeOK, FlagInv, HeldInv, Covers
  <2>q. QED  BY <2>1, <2>2, <2>3, <2>4, <2>5, <2>6 DEF CPUInv
<1>30. CASE TimerRequest(c)
  <2>1. FlagInv(c)'  BY <1>30 DEF TimerRequest, TypeOK, FlagInv
  <2>2. OpInv(c)'  BY <1>30 DEF TimerRequest, TypeOK, OpInv, NoIdx, Slots
  <2>3. EntryInv(c)'  BY <1>30 DEF TimerRequest, TypeOK, EntryInv, OpOwnsSlot, OpInv, LiveInv, SweepInv, NoLiveIdx, NoIdx, Slots
  <2>4. LiveInv(c)'  BY <1>30 DEF TimerRequest, TypeOK, LiveInv, OpInv, NoLiveIdx, NoIdx, Slots
  <2>5. SweepInv(c)'  BY <1>30 DEF TimerRequest, TypeOK, SweepInv, EntryInv, NoLiveIdx, NoIdx, Slots
  <2>6. HeldInv(c)'  BY <1>30 DEF TimerRequest, TypeOK, HeldInv, Covers, OpInv, EntryInv, SweepInv, NoIdx, Slots
  <2>q. QED  BY <2>1, <2>2, <2>3, <2>4, <2>5, <2>6 DEF CPUInv
<1>q. QED
  BY <1>1, <1>2, <1>3, <1>4, <1>5, <1>6, <1>7, <1>8, <1>9, <1>10, <1>11, <1>12, <1>13, <1>14, <1>15, <1>16, <1>17, <1>18, <1>19, <1>20, <1>21, <1>22, <1>23, <1>24, <1>25, <1>26, <1>27, <1>28, <1>29, <1>30
     DEF CPUStep, ExtensionStep, RuntimeStep, Timer, DropGuard, DropTask

LEMMA InitInv == Init => IInv
<1> SUFFICES ASSUME Init  PROVE IInv
  OBVIOUS
<1> USE LocationFacts, ObjectFacts, OpFacts DEF Init
<1>1. TypeOK  BY DEF TypeOK, Slots
<1>2. ASSUME NEW c \in CPUs  PROVE CPUInv(c)
  <2>1. FlagInv(c)
    BY DEF FlagInv, HelperLocations, CleanupLocations
  <2>2. OpInv(c)  BY DEF OpInv
  <2>3. EntryInv(c)  BY DEF EntryInv
  <2>4. LiveInv(c)  BY DEF LiveInv, NoLiveIdx
  <2>5. SweepInv(c)  BY DEF SweepInv, CleanupLocations
  <2>6. HeldInv(c)  BY DEF HeldInv, Objects
  <2>q. QED  BY <2>1, <2>2, <2>3, <2>4, <2>5, <2>6 DEF CPUInv
<1>q. QED  BY <1>1, <1>2 DEF IInv

LEMMA NextInv == IInv /\ [Next]_vars => IInv'
<1> SUFFICES ASSUME IInv, [Next]_vars  PROVE IInv'
  OBVIOUS
<1>1. TypeOK'  BY TypeStep
<1>2. ASSUME NEW d \in CPUs  PROVE CPUInv(d)'
  <2>1. CASE UNCHANGED vars
    <3> TypeOK /\ CPUInv(d)  BY DEF IInv
    <3>q. QED  BY <2>1, Frame DEF vars
  <2>2. CASE Next
    <3> PICK c \in CPUs : CPUStep(c)  BY <2>2 DEF Next
    <3>1. CASE d = c  BY <1>1, <3>1, OwnCPU
    <3>2. CASE d # c  BY <3>2, OtherCPUs
    <3>q. QED  BY <3>1, <3>2
  <2>q. QED  BY <2>1, <2>2
<1>q. QED  BY <1>1, <1>2 DEF IInv

(***************************************************************************)
(* The invariant: at every step of the crate (panic.rs, spinlock.rs,       *)
(* task_struct.rs, termination_check!) the cleanup table, the live Rust    *)
(* values and the kernel's ownership agree.                                *)
(***************************************************************************)
THEOREM Invariance == Spec => []IInv
<1>1. Init => IInv  BY InitInv
<1>2. IInv /\ [Next]_vars => IInv'  BY NextInv
<1>q. QED  BY <1>1, <1>2, PTL DEF Spec

(***************************************************************************)
(* The variables keep their types; in particular cleanup_all never indexes *)
(* rex_cleanup_entries out of bounds (panic.rs).                           *)
(***************************************************************************)
THEOREM TypeCorrect == Spec => []TypeOK
<1>1. IInv => TypeOK  BY DEF IInv
<1>q. QED  BY <1>1, Invariance, PTL

(***************************************************************************)
(* The watchdog never redirects a CPU out of a helper or out of            *)
(* cleanup_all (base_helper.rs termination_check!, panic.rs panic).        *)
(***************************************************************************)
THEOREM WatchdogSafety == Spec => []WatchdogDefers
<1>1. IInv => WatchdogDefers  BY DEF IInv, CPUInv, FlagInv, WatchdogDefers
<1>q. QED  BY <1>1, Invariance, PTL

(***************************************************************************)
(* Drop handlers and cleanup_all release only what this CPU holds: never   *)
(* twice, never another CPU's (spinlock.rs drop, task_struct.rs drop).     *)
(***************************************************************************)
THEOREM ReleaseSafety == Spec => []ReleasesOnlyHeld
<1>1. IInv => ReleasesOnlyHeld
  <2> SUFFICES ASSUME IInv, NEW c \in CPUs
               PROVE  /\ pc[c] = "release" => holder[op[c].obj] = c
                      /\ pc[c] = "cleanup" =>
                           \A i \in Slots : table[c][i] # NoObj =>
                                            holder[table[c][i]] = c
    BY DEF ReleasesOnlyHeld
  <2> OpInv(c) /\ EntryInv(c)  BY DEF IInv, CPUInv
  <2>1. pc[c] = "release" => holder[op[c].obj] = c  BY DEF OpInv
  <2>2. pc[c] = "cleanup" =>
          \A i \in Slots : table[c][i] # NoObj => holder[table[c][i]] = c
    BY DEF EntryInv
  <2>q. QED  BY <2>1, <2>2
<1>q. QED  BY <1>1, Invariance, PTL

(***************************************************************************)
(* A live guard or owned task names its own slot and is held by its CPU    *)
(* (spinlock.rs new, task_struct.rs from_pid, panic.rs register_cleanup).  *)
(***************************************************************************)
THEOREM HandleSafety == Spec => []LiveHandlesBacked
<1>1. IInv => LiveHandlesBacked
  BY DEF IInv, CPUInv, LiveInv, LiveHandlesBacked
<1>q. QED  BY <1>1, Invariance, PTL

(***************************************************************************)
(* However a program ends - return, panic, stack overflow, watchdog - it   *)
(* leaves no lock and no valid cleanup entry behind (panic.rs).            *)
(***************************************************************************)
THEOREM LockSafety == Spec => []LocksReleasedAtExit
<1>1. IInv => LocksReleasedAtExit
  <2> SUFFICES ASSUME IInv, NEW c \in CPUs, pc[c] = "idle"
               PROVE  /\ \A l \in Locks : holder[l] # c
                      /\ \A i \in Slots : table[c][i] = NoObj
    BY DEF LocksReleasedAtExit
  <2> SweepInv(c) /\ HeldInv(c)  BY DEF IInv, CPUInv
  <2>1. \A i \in Slots : table[c][i] = NoObj  BY DEF SweepInv
  <2>2. \A l \in Locks : holder[l] # c
    BY <2>1, ObjectFacts DEF HeldInv, Covers
  <2>q. QED  BY <2>1, <2>2
<1>q. QED  BY <1>1, Invariance, PTL

(***************************************************************************)
(* A task reference outlives its program only where the cleanup table was  *)
(* once full (task_struct.rs from_pid, panic.rs find_next_emtpy_entry).    *)
(***************************************************************************)
THEOREM TaskSafety == Spec => []TasksReleasedUnlessExceeded
<1>1. IInv => TasksReleasedUnlessExceeded
  <2> SUFFICES ASSUME IInv, NEW c \in CPUs, pc[c] = "idle", c \notin exceeded,
                      NEW t \in Tasks
               PROVE  holder[t] # c
    BY DEF TasksReleasedUnlessExceeded
  <2> SweepInv(c) /\ HeldInv(c)  BY DEF IInv, CPUInv
  <2>1. \A i \in Slots : table[c][i] = NoObj  BY DEF SweepInv
  <2>q. QED  BY <2>1, ObjectFacts DEF HeldInv, Covers
<1>q. QED  BY <1>1, Invariance, PTL

LEMMA CleanupStep ==
  ASSUME IInv, [Next]_vars, NEW d \in CPUs, pc[d] \in CleanupLocations
  PROVE  pc'[d] # "panic"
<1> USE DEF CleanupLocations, Goto, TypeOK
<1> TypeOK /\ FlagInv(d)  BY DEF IInv, CPUInv
<1>1. CASE UNCHANGED vars  BY <1>1 DEF vars
<1>2. ASSUME NEW c \in CPUs, CPUStep(c)  PROVE pc'[d] # "panic"
  <2>1. CASE d # c
    <3>1. CASE ExtensionStep(c)
      BY <2>1, <3>1
         DEF ExtensionStep, Return, DisplayReturn, RexExit, CallHelper,
             EnterHelper, NewGuard, DropGuard, DropOwned, FromPid, DropTask,
             Reserve, ConsumeEntry, ExtensionPanic
    <3>2. CASE RuntimeStep(c)
      BY <2>1, <3>2
         DEF RuntimeStep, HelperBody, CheckFlag, ResetFlag, register_cleanup,
             register_cleanup_full, deregister_cleanup, KernelRelease,
             bpf_task_from_pid, bpf_ringbuf_reserve, bpf_ringbuf_consume, panic,
             cleanup_entry, invalidate_entry, cleanup_all_done, format_message,
             rex_landingpad, RexExit
    <3>q. QED
      BY <1>2, <2>1, <3>1, <3>2
         DEF CPUStep, Dispatch, bpf_spin_lock, Expire, Timer, TimerRedirect,
             TimerRequest
  <2>2. CASE d = c
    <3>1. ~ExtensionStep(c)
      BY <2>2 DEF ExtensionStep, Return, DisplayReturn, RexExit, CallHelper,
                  EnterHelper, NewGuard, DropGuard, DropOwned, FromPid, DropTask,
                  Reserve, ConsumeEntry, ExtensionPanic
    <3>2. CASE RuntimeStep(c)
      <4>1. cleanup_entry(c) \/ invalidate_entry(c) \/ cleanup_all_done(c)
        BY <2>2, <3>2
           DEF RuntimeStep, HelperBody, CheckFlag, ResetFlag, register_cleanup,
               register_cleanup_full, deregister_cleanup, KernelRelease,
               bpf_task_from_pid, bpf_ringbuf_reserve, bpf_ringbuf_consume,
               panic, format_message, rex_landingpad, RexExit
      <4>q. QED
        BY <2>2, <4>1 DEF cleanup_entry, invalidate_entry, cleanup_all_done
    <3>3. ~TimerRedirect(c)
      BY <2>2 DEF TimerRedirect, FlagInv
    <3>q. QED
      BY <1>2, <2>2, <3>1, <3>2, <3>3
         DEF CPUStep, Dispatch, bpf_spin_lock, Expire, Timer, TimerRequest
  <2>q. QED  BY <2>1, <2>2
<1>q. QED  BY <1>1, <1>2 DEF Next

(***************************************************************************)
(* cleanup_all is never started over in the middle: neither the watchdog   *)
(* nor the cleanup functions raise a panic there (panic.rs cleanup_all).   *)
(***************************************************************************)
THEOREM CleanupOnce == Spec => CleanupNotRestarted
<1>1. IInv /\ [Next]_vars =>
        [\A c \in CPUs : pc[c] \in CleanupLocations => pc'[c] # "panic"]_vars
  BY CleanupStep
<1>q. QED  BY <1>1, Invariance, PTL DEF Spec, CleanupNotRestarted

LEMMA ContractStep ==
  ASSUME IInv, IInv', [Next]_vars
  PROVE  [Contract!Next]_(Contract!contractVars)
<1> USE ObjectFacts DEF TypeOK, Goto
<1> TypeOK /\ TypeOK'  BY DEF IInv
<1>1. CASE UNCHANGED vars
  BY <1>1 DEF vars, Contract!contractVars
<1>2. ASSUME NEW c \in CPUs, CPUStep(c)
      PROVE  Contract!Next \/ UNCHANGED Contract!contractVars
  <2> OpInv(c) /\ EntryInv(c)  BY DEF IInv, CPUInv
  <2>1. CASE Dispatch(c)
    <3>1. Contract!Start(c)  BY <2>1 DEF Dispatch, Contract!Start
    <3>q. QED  BY <3>1 DEF Contract!Next
  <2>2. CASE Return(c) \/ rex_landingpad(c)
    <3>1. pc'[c] = "idle" /\ pc[c] # "idle" /\ UNCHANGED holder
      BY <2>2 DEF Return, rex_landingpad, RexExit
    <3>2. \A l \in Locks : holder[l] # c
      <4>1. SweepInv(c)' /\ HeldInv(c)'  BY DEF IInv, CPUInv
      <4>q. QED  BY <3>1, <4>1 DEF SweepInv, HeldInv, Covers
    <3>3. {d \in CPUs : pc'[d] # "idle"} = {d \in CPUs : pc[d] # "idle"} \ {c}
      BY <2>2 DEF Return, rex_landingpad, RexExit
    <3>4. Contract!Finish(c)
      BY <3>1, <3>2, <3>3 DEF Contract!Finish
    <3>q. QED  BY <3>4 DEF Contract!Next
  \* Every other step leaves the set of running programs alone ...
  <2> SUFFICES ASSUME ~Dispatch(c), ~Return(c), ~rex_landingpad(c)
               PROVE  Contract!Next \/ UNCHANGED Contract!contractVars
    BY <2>1, <2>2
  <2>3. \A d \in CPUs : pc'[d] = "idle" <=> pc[d] = "idle"
    <3>1. CASE ExtensionStep(c)
      BY <3>1
         DEF ExtensionStep, DisplayReturn, CallHelper, EnterHelper, NewGuard,
             DropGuard, DropOwned, FromPid, DropTask, Reserve, ConsumeEntry,
             ExtensionPanic
    <3>2. CASE RuntimeStep(c)
      BY <3>2
         DEF RuntimeStep, HelperBody, CheckFlag, ResetFlag, register_cleanup,
             register_cleanup_full, deregister_cleanup, KernelRelease,
             bpf_task_from_pid, bpf_ringbuf_reserve, bpf_ringbuf_consume, panic,
             cleanup_entry, invalidate_entry, cleanup_all_done, format_message
    <3>q. QED
      BY <1>2, <3>1, <3>2
         DEF CPUStep, bpf_spin_lock, Expire, Timer, TimerRedirect, TimerRequest
  <2>4. {d \in CPUs : pc'[d] # "idle"} = {d \in CPUs : pc[d] # "idle"}
    BY <2>3
  \* ... and either no lock changes hands, or one does.
  <2>5. ASSUME \A l \in Locks : holder'[l] = holder[l]
        PROVE  UNCHANGED Contract!contractVars
    BY <2>4, <2>5 DEF Contract!contractVars
  <2>6. CASE bpf_spin_lock(c)
    <3>1. op[c].obj \in Locks  BY <2>6 DEF bpf_spin_lock, OpInv
    <3>2. PICK l \in Locks : l = op[c].obj  BY <3>1
    <3>3. Contract!Take(c, l)
      BY <2>4, <2>6, <3>2 DEF bpf_spin_lock, Contract!Take
    <3>q. QED  BY <3>3 DEF Contract!Next
  <2>7. ASSUME NEW o \in Registered, holder[o] = c, pc[c] # "idle",
               holder' = [holder EXCEPT ![o] = NoCPU]
        PROVE  Contract!Next \/ UNCHANGED Contract!contractVars
    <3>1. CASE o \in Locks
      <4>1. Contract!Give(c, o)
        BY <2>4, <2>7, <3>1 DEF Contract!Give
      <4>q. QED  BY <3>1, <4>1 DEF Contract!Next
    <3>2. CASE o \notin Locks
      BY <2>5, <2>7, <3>2
    <3>q. QED  BY <3>1, <3>2
  <2>8. CASE KernelRelease(c)
    BY <2>7, <2>8 DEF KernelRelease, OpInv
  <2>9. CASE cleanup_entry(c)
    <3>1. ci[c] \in Slots  BY <2>9 DEF cleanup_entry, Slots
    <3>2. CASE table[c][ci[c]] = NoObj
      BY <2>5, <2>9, <3>2 DEF cleanup_entry
    <3>3. CASE table[c][ci[c]] # NoObj
      <4> DEFINE o == table[c][ci[c]]
      <4>1. o \in Registered /\ holder[o] = c
        BY <2>9, <3>1, <3>3 DEF cleanup_entry, EntryInv
      <4>2. pc[c] # "idle" /\ holder' = [holder EXCEPT ![o] = NoCPU]
        BY <2>9, <3>3 DEF cleanup_entry
      <4>q. QED  BY <2>7, <4>1, <4>2
    <3>q. QED  BY <3>2, <3>3
  <2>10. CASE bpf_task_from_pid(c)
    BY <2>5, <2>10, DisjointObjects DEF bpf_task_from_pid
  <2>11. CASE bpf_ringbuf_reserve(c)
    BY <2>5, <2>11 DEF bpf_ringbuf_reserve
  <2>12. CASE bpf_ringbuf_consume(c)
    BY <2>5, <2>12 DEF bpf_ringbuf_consume, OpInv
  <2>13. CASE UNCHANGED holder
    BY <2>5, <2>13
  <2>14. CASE ExtensionStep(c)
    BY <2>13, <2>14
       DEF ExtensionStep, DisplayReturn, CallHelper, EnterHelper, NewGuard,
           DropGuard, DropOwned, FromPid, DropTask, Reserve, ConsumeEntry,
           ExtensionPanic
  <2>15. CASE RuntimeStep(c)
    BY <2>8, <2>9, <2>10, <2>11, <2>12, <2>13, <2>15
       DEF RuntimeStep, HelperBody, CheckFlag, ResetFlag, register_cleanup,
           register_cleanup_full, deregister_cleanup, panic, invalidate_entry,
           cleanup_all_done, format_message
  <2>q. QED
    BY <1>2, <2>6, <2>13, <2>14, <2>15
       DEF CPUStep, Expire, Timer, TimerRedirect, TimerRequest
<1>q. QED  BY <1>1, <1>2 DEF Next

(***************************************************************************)
(* The runtime implements the contract for spinlocks, the dispatcher's     *)
(* enter and exit being the contract's Start and Finish.                   *)
(***************************************************************************)
THEOREM Refinement == Spec => ImplementsContract
<1>1. Init => Contract!Init
  BY ObjectFacts DEF Init, Contract!Init
<1>2. IInv /\ IInv' /\ [Next]_vars => [Contract!Next]_(Contract!contractVars)
  BY ContractStep
<1>q. QED
  BY <1>1, <1>2, Invariance, PTL DEF Spec, ImplementsContract, Contract!Spec

=============================================================================
