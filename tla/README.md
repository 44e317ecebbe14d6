# Verification of Rex

Rex lets kernel extensions be written in safe Rust.  The repository holds the
*kernel crate* that extensions are linked with (`rex/`), the procedural macros
(`rex-macros/`), the loader library (`librex/`), sample extensions with their
user-space loaders (`samples/`) and a memcached benchmark (`tools/`).  The
matching kernel (dispatcher, watchdog timer, helper bodies, BPF maps) is a
separate repository; here it appears only through the symbols the crate uses,
and every definition that stands for it is marked external in `PROJECT.json`.

The project consists of TLA+ modules, TLC configurations and TLAPS proofs.
`tlc -config X.cfg M` repeats a run, `tlapm XProofs.tla` the proofs about `X`.

## 1. Inventory

| Part | State it keeps | Operations | What makes it correct |
|---|---|---|---|
| Panic, cleanup, termination (`rex/src/panic.rs`, `base_helper.rs`, `ffi.rs`) | per CPU: `rex_termination_state`, `rex_cleanup_entries[64]`, stack pointer | `termination_check!`, `register_cleanup`, `deregister_cleanup`, `cleanup_all`, panic handler, `__rex_handle_timeout`, `__rex_check_stack` | every kernel resource is released exactly once however the program ends; the watchdog never interrupts a half-done helper; a program that runs too long ends |
| Spinlock guard (`spinlock.rs`), owned task (`task_struct.rs`) | the slot number kept in the Rust value, the kernel object | constructor, `drop`, `panic_cleanup` | the value always names the slot of its own object |
| Maps and ring buffer (`map.rs`, the map helpers of `base_helper.rs`) | map handle (`kptr` null until the loader fixes it up), ring buffer reservations | lookup, update, delete, push, pop, peek, reserve, submit, discard, `write_str`, positions | an operation acts on the element of its own key; a record that is submitted arrives once, in order and whole; no reservation outlives its program |
| Formatting (`log.rs`) | `LogBuf` of fixed size | `write_str`, `rex_trace_printk` | what is printed is the text that was written last into the buffer, and all of it |
| Per-CPU access (`per_cpu.rs`), utilities (`utils.rs`) | pointer of the current CPU's copy; `Aligned` copies of packed fields | read, write, write-back on drop, slice-to-struct conversion | behind copies and write-backs the program edits the packet in place |
| Program types (`xdp/`, `sched_cls/`, `kprobe/`, `perf_event/`, `tracepoint/`) | context slices rebuilt after helpers that move packet data | `convert_ctx`, header accessors, `bpf_xdp_adjust_tail`, `bpf_clone_redirect`, `override_return`, `output_event` | the slice lies in the packet after every helper; a stored checksum is accepted by the receiver |
| Macros (`rex-macros/`) | none (code generation) | one attribute macro per program type, `rex_map` | generated entry has the expected signature |
| Loader (`librex/`) | file descriptors, temporary file, `objs`, the `bpf_object` handed out | `rex_obj_load` (open, parse, create maps, load base program, load programs), `rex_obj_get_bpf` | after a failure nothing of the attempt stays in the kernel; descriptors are closed once and only by their owner; the kernel reads the object's own image |
| Electrode (`samples/electrode`) | `map_ctr_state`, `map_quorum`, `map_prepare_buffer` | `handle_prepare`, `write_buffer`, `prepare_fast_reply`, `handle_prepare_ok`, broadcast chain | a replica answers only Prepares whose operations it has buffered or handed to user space; a reported quorum is real |
| BMC (`samples/bmc`) | `map_kcache` (one lock per entry), `map_keys`, `map_stats` | GET path (`hash_key`, `write_pkt_reply`), `bmc_invalidate_cache`, `bmc_update_cache` | a reply served from the cache is one of the server's responses, for a key that begins with the key asked for and has its hash, and no older than the last SET of the entry |
| Counting samples (`syscount`, `syscall_tp`, `trace_event`) | counters and start times in maps | look-up-or-insert from several CPUs | a counter is exact unless programs overlapped; a latency is measured from its own call |
| Test samples (`map_test_2` and others) | one map of each type | map tests, error injection | a run alone prints exactly what follows from the maps it found |
| memcached benchmark (`tools/memcached_benchmark`) | requests in flight, statistics | set up the server's contents, GET tasks with time-outs | every request is counted once; a worker's GETs follow its SETs |

Interactions.  The kernel calls the generated entry of an extension; the
extension calls crate functions, which bracket every kernel helper with
`termination_check!`; the watchdog timer of a CPU interrupts extension code
and returns into `__rex_handle_timeout`; the panic handler releases what the
cleanup table names and leaves through `rex_landingpad`.  Extensions on
different CPUs and user space share maps and locks.  librex prepares the maps
and hands the kernel the ELF file; `libbpf` does the rest.

Hard behaviours: the watchdog fires between any two instructions; panics
abandon live Rust values without running destructors, so the table is the only
record of what is held; the flag is read and reset in two steps; constructors
can fail halfway; programs on several CPUs contend for locks that the helper
takes by spinning, out of the watchdog's reach; packets are lost, duplicated
and reordered; a loader step may fail after earlier steps have put objects in
the kernel.

## 2. Modules

| Module | Part | Uses |
|---|---|---|
| `RexRuntime` | termination flag, cleanup table, panic handler, guards, owned tasks, ring buffer records | `RexContract` (refinement) |
| `RexContract` | what the runtime promises about a class of resources | |
| `ElectrodeReplica`, `ElectrodeLeader` | Electrode's follower and leader | |
| `Electrode` | a replica in one of the two roles | `ElectrodeReplica`, `ElectrodeLeader` |
| `Bmc` | the look-aside cache | |
| `Librex` | the loader | |
| `Benchmark` | the memcached benchmark | |
| `RexPacket` | packet slice, header accessors, checksum, helpers that change the packet | `PlainPacket` (refinement) |
| `PlainPacket` | what the accessors promise: a packet edited in place | |
| `RexMaps` | results and effects of the map wrappers | |
| `Counting` | the counting samples | `RexMaps` |
| `MapTest` | `map_test_2` | `RexMaps` |
| `RexRingBuf` | the ring buffer, its entries and a consumer | |
| `RexLog` | the log buffer, `rex_trace_printk` and the panic message | |
| `Samples` | a kernel with one object loaded that uses one of these | `Counting`, `MapTest`, `RexRingBuf`, `RexLog` |
| `RexRuntimeProofs`, `RexPacketProofs`, `ElectrodeReplicaProofs`, `ElectrodeLeaderProofs`, `BmcProofs`, `LibrexProofs`, `BenchmarkProofs`, `SamplesProofs` | theorems, each module about the one it is named after | TLAPS |
| `MCRexRuntime`, `MCBmc`, `MCLibrex`, `MCBenchmark`, `MCRexPacket` | definitions for the configurations | |

### RexRuntime

`flag` is `rex_termination_state`, `table[c]` the cleanup entries of CPU `c`
(an invalid entry is `NoObj`; the cleanup function follows from the kind of
object), `idx[c][o]` the `cleanup_idx` inside a live Rust value, `rb[c]` the
live ring buffer entries, `holder` the kernel's own record of who has what.
`pc` walks through the crate's code with one step for each store that the
watchdog could see: `EnterHelper` is the prologue of `termination_check!`,
`CheckFlag` and `ResetFlag` its epilogue, `register_cleanup`, `bpf_spin_lock`
and so on the body in between, in the order of the source (a guard registers
and then locks, `from_pid` acquires and then registers).  A panic abandons the
live values without dropping them (`panic` clears `idx` and `rb`, not
`holder`), and `cleanup_entry`/`invalidate_entry` are the two halves of a turn
of `cleanup_all`.  With `DisplayRunsExtension` the panic message may contain a
`Display` implementation of the extension, which then runs inside the handler
and may call helpers and panic again.

The extension is the most general program over the API.  External are the
dispatcher (`Dispatch`, `RexExit`), the watchdog (`Expire`, `Timer*`) and the
bodies of kernel helpers.

Two behaviours of the code that the model shows and no property forbids: a
helper called from `Display` inside the handler sets the flag back to 0, so
the rest of the handler can be interrupted and started again (the table is
empty by then); and a program that already spins in `bpf_spin_lock` is out of
the watchdog's reach.

### ElectrodeReplica, ElectrodeLeader, Electrode

One packet is one step, as the source limits the programs to one core.  A
message is reduced to view, range of operations and length; the lengths decide
which of the code's slices and checks succeed.  The replica's `last_op` is
advanced before the record is written, as in the source.  User space is
external.  In the leader, each run of the egress program is a frame of
`stack`, because `bpf_clone_redirect` sends the clone through the same program
before it returns.  `CloneFails` is that call failing, before the clone ran or
after it.  `Electrode` puts the two behind a `role` that does not change, so that
one instance checks both.

A reply is an answer to one PrepareMessage and carries a number.  `answered` is
the highest operation of a message that was answered, whatever number the reply
carries; `opnums` are the numbers written into the replies, which are
`payload_index` (87: headers, magic, length and type string) and not `last_op`.
`AnsweredKeptUnlessAborted` is about the first, the finding `ReplyNamesLastOp`
about the second.  `BufferInOrder` says that every record ends behind the records
before it and that its operations follow without a gap; it does not say that an
operation is there once, because `main.rs:361` lets a batch in that begins with
operations already buffered.

One detail of the byte layout is abstracted: `handle_prepare_ok` reads the vote
from the bytes of the type string (the model is of the code on packets with the
right bytes there).

### Bmc

`cache[i]` is an entry of `map_kcache`; `head` and `tail` are the two halves
of its data, so that a torn update can be seen.  Sections that only read under
the entry's lock are one step that waits for the lock; the update is several.
`bmc_invalidate_look` reads `valid` without the lock.  `Terminate` is what the
Rex runtime may do to a program at any point: unlock, and nothing else.  `nsets`,
`stamp`, `served`, `spoiled` and `raced` only record history.

The code hashes keys in three ways, and so does the model: a GET hashes the key of
at most 230 bytes, and ends in a panic behind a longer one, where `hash_key` reads
outside its slice; a SET hashes the whole key;
`bmc_update_cache` hashes what follows the six bytes of "VALUE " within the first
230 of the packet, `Cut[k]`, at most 224 bytes of the key.  `HashOf` is the hash of
all bytes of a key, `KeyLen` their number.  Hence a response for a key longer than
224 bytes is stored under the hash of its beginning: a GET for that beginning is
served the longer key's value, and a SET of the longer key invalidates whatever
entry the whole key hashes to, not the one its response went into.
A key of 230 bytes passes `hash_key` and is always a miss in `write_pkt_reply`.

The model also has, without a property against it: a multi-key GET that parses
its first key again in every turn until `map_keys` is exhausted; a hit in the
first check that is gone at the second one, after which the request is sent
back to the client; keys compared only up to the length asked for
(`ReplyForKey` therefore admits the response for a longer key); an update
that does not finish and leaves `valid` and `hash` of the previous response.

### Librex

`fdtab` is the process's descriptor table with the purpose each descriptor was
opened for; `Alloc` gives out the lowest free number, as the kernel does, so
that a number closed by one thread is immediately reused by another.  Every
system call of `rex_obj_load` is a step and may fail, parsing too.  The stream that
writes the temporary file is never looked at in the source, so in `write_tmp` the
load goes on whether the file was written, written in part, or not opened and left
as it was; `torn` records the last two.  `close_fds_*`,
`rex_obj_dtor` and `dtor_members` are the two layers that close descriptors.
An image is the sequence of symbols and relocations; `parse_maps`,
`parse_progs`, `timeout_handler_found` and `parse_rela_dyn` compute from it
what is created and loaded.  Calls that use `objs` or one object's cached
pointer at the same time are excluded, see the hazards.

The comment at `librex.cpp:656` says of the temporary file "Will have race
condition if multiple objs loaded at same time".  Its name contains the id of the
thread (653), and within a process that is enough: `OwnImageLoaded` says that no
load gets the image of another one that is under way or kept, at whatever point the
threads are.  What can be read by mistake is the file that a failed load of the
same thread left behind, by a load whose own file could not be written; the
property names this case.  The directory is shared with other processes, which may
have a thread of the same number; their files are not modelled.

### Benchmark

`setter[k]` is the task that stores key `k` in `set_memcached_value` (permit,
connection, SET, GET); `JoinAll` waits for all of them and looks at no result.
Of a worker the model has the loop over `send_commands`, in which a SET is done
and of a GET only the send future is made (`handles`), the second loop that
awaits these futures (`AwaitSend`, when the bounded `channel` has room), and the
wait for the task tracker.  `SpawnTask` is a turn of `socket_task`.  `SocketOf`
says which tasks share a socket: `Receive` takes whatever answer is there,
another task's or a late one too.  With `validate`, a miss makes the task panic.
`aborts` says which build runs: in the release profile (`panic = "abort"`,
`Cargo.toml:39`; `bench.py:40` builds it) a panic ends the process, otherwise it
ends its task, which join handle and tracker count as an end.  A failing SET of a
worker ends the program.  Server and network are external: `ServeSet` is the server
carrying out a SET of a worker (`served`), and no answer is owed, neither over UDP,
where the task times out, nor over TCP, where it waits without end (`AwaitsSet`).
Left out: connection failures at the start,
which end the program before any of this, and the statistics that are printed.

### RexPacket

The packet is counted in 16-bit words, the unit of the checksum, and a word has
`Base` values instead of 65536, so that sums carry twice.  `buf`, `addr`,
`head`, `lin` and `paged` are the kernel's side: contents, address modulo 4,
how often the head was moved, linear and non-linear length.  `slice` is
`data_slice`.  `header` is any of the accessors: where the address is aligned
for the header it holds a reference (no `copy`), else a copy that `drop_header`
writes back.  The borrow checker lets a program hold one header at a time, and
call no helper meanwhile.  `panic` ends the program without a drop handler, so a
copy is lost: in `PlainPacket`, `Abort`.

`bpf_xdp_adjust_tail` makes the slice anew.  `bpf_clone_redirect` does so only on
success, and then with `len()`, which counts the non-linear part; what the
kernel may have done to the head before it failed is left open
(`MayMoveHead`).  `SliceInPacket` names these two cases and excludes all others;
the model does not follow a program that goes on to use such a slice.
`ChecksumAccepted` says that the checksum with its single fold is accepted by a
receiver that adds every carry, exactly when the fold does not carry again.

### RexMaps, Counting, MapTest

A hash or array map is a function on the keys it holds, a stack or queue a
sequence; an update returns the map and the result.  `kptr` is set when a
program runs, since the loader fixes it up before.

In `Counting` every access to a map is a step of a task, and `+= 1` is a load
and a store.  `gone` marks programs whose reference is to an element that a
`BPF_ANY` update has replaced: their store changes nothing a look-up can see.
(The kernel may give a replaced element of a preallocated map to another key while
a program still refers to it; a store that reaches such a key is not modelled.)
`clock` counts calls, so that a start time tells whose call wrote it.  A task
may die inside its call and its pid be used again, and the runtime may end a
program anywhere (`terminate`).  `CountsExplained` states how far the code's
unprotected counters can be trusted; `StartIsOwn` holds although a failed exit
leaves its start time behind, because the next enter of the same key either
writes its own or fails as the first one did.  Of `trace_event` the steps
before the counting, which only read, are left out.

`MapTest` steps through the operations of `map_test_2` (`Script`) for several
tasks; a failing operation ends its test and not the program.  `stack0` and
`queue0` are the maps as a run found them.  `RunAloneExact` says of a run that no
other one overlapped what each operation prints, as a function of these.  The
script `runtest.py` looks for the pid and pid + 1 from the queue (lines 70 and 71):
that is what a run prints that found the queue empty.  Every run leaves a value in
the queue, so the next run on the same maps prints the older values, and the
script would fail; when two values no longer fit, the test of that map fails.

### RexRingBuf, RexLog

The kernel's ring and the consumer are external.  A record takes one place
whatever its length; its bytes are the number of the `write_str` call that
wrote them, `Stale` before that.  `abandon` is a panic while an entry is alive.
`SubmittedDelivered` is the liveness counterpart of the finding about
reservations: one abandoned record holds up every later one.

`RexLog` is one CPU.  `writers` is the stack of messages being formatted: a
`Display` implementation may print, and then inner and outer message share the
buffer.  `left` is the text that was written last, and `PrintedAsWritten` says that
`rex_trace_printk` prints the text its own message wrote, or, if the message is
empty and wrote nothing, the one left in the buffer before.  Only texts marked as
mixed, where one message was written while another was being formatted, are
excluded; messages that do not fit, messages interrupted by a panic and the
handler's second attempt after `reset` are not.

`Samples` loads one object at a time: the four parts share no state, and one
instance checks them all with the programs of the loaded object on every CPU.

## 3. Runs

| Run | Instance | Shows |
|---|---|---|
| `runtime_objects` | 1 CPU, locks, tasks and a record, table of 2 slots | the inductive invariant and the safety properties about flag, live values, locks and references, with a table that fills up; cleanup not restarted |
| `runtime_progress` | 2 CPUs, 1 lock, one guard at a time | releases are exact, `RexContract` is implemented, every overdue program ends |
| `ringbuf_leak` | 1 CPU, 1 record | *violated*: a reservation survives a panic |
| `electrode` | follower: 2 views, 3 operations, buffer of 2; leader: cluster of 5, entries shared by operations | what is answered is kept, in order and without a gap; one copy per follower, real quorums, broadcasts end |
| `electrode_reply_number` | follower, small bounds | *violated*: the reply carries the offset of the payload, not `last_op` |
| `electrode_full_buffer` | follower, small bounds | *violated*: a full buffer loses an operation already counted |
| `bmc` | 2 CPUs, 1 entry, a key of 224 bytes, one of 225 that begins with it, a short one with the hash of the latter, 2 SETs | entries and replies intact, invalidation effective |
| `bmc_up_to_date` | same module, 2 keys, 1 SET | *violated*: an entry with an old value is kept as up to date |
| `librex` | 2 threads, 2 objects, 1 map, 2 programs, 7 descriptors | descriptors closed once, failures give back maps and programs, each object from its own image |
| `benchmark` | 2 workers, 7 entries of which one is left over, one socket each, channel of 1, both builds | it ends or waits for a TCP answer; what it reports accounts for every request once; a worker's GETs follow its SETs |
| `packet` | headers of 1, 4 and 1 or 2 words, 3 values, 2 lengths, one move of the head, 3 edits | slice within the packet, checksum accepted, refinement of `PlainPacket` |
| `samples` | 2 tasks or CPUs, 2 keys, maps of 1, stack and queue of 3, ring of 2, log buffer of 4 | counters, start times, records and messages belong to their own event; submitted records arrive |

Bounds.  Two CPUs are enough for every interleaving the runtime's properties
speak of, since CPUs interact only through locks.  The table is smaller than 64
so that it fills up; the proofs cover every size. Electrode needs two views, an
operation that shares its map entry with another one, and a buffer that
fills.  The BMC instance has one entry, so all keys meet in it, two by their hash
and two because one is the beginning of the other; that the SET of a long key
goes to another entry than its response takes more than one entry, which only
the proofs cover.  In Librex the table of 7 is large enough for one object that
is kept and another one up to its last program, with a descriptor of the
application or without; it also runs full.  The longest runs take between one and
three minutes: `bmc` (4.2 million states), `librex` (2.5), `samples` (1.3),
`benchmark` (0.9), `electrode` (0.7).  The benchmark has two GETs and a SET per
worker, so that the channel is full, a socket is shared and an answer can come
late. In `packet` every header is aligned for some addresses and not for others,
one length is too short for the later headers, and three words with three values
make folds that carry and folds that do not.  In `samples` the maps have room for
one of two keys, three runs of the map test overfill stack and queue, the ring
wraps around, and messages and records exceed their buffers.

Where `CHECK_DEADLOCK FALSE` is set the system may stop: two programs that wait
for each other's lock, all loads done, the benchmark over, a program returned,
the bound on calls, runs, records or messages reached.

Fairness.  Steps of the crate and of helpers that do not wait are weakly fair: a
CPU in the kernel runs on.  `bpf_spin_lock` is strongly fair, since the kernel's
spinlocks queue their waiters.  Time passes (`Expire`), and the periodic timer is
strongly fair outside the two instructions between reading and resetting the
flag, which it cannot hit at every single period.  In the leader the egress
program runs on.  In the benchmark the executor polls every task that can go on
and timers fire.  Server and network owe nothing: what the source awaits over TCP
has no time-out, so the steps that take such an answer are not fair, and
`BenchmarkEnds` names a call that is never answered as the one reason not to
end.  A program does not keep a ring buffer record for ever, since the watchdog
ends it if nothing else does, and the consumer polls (`RingFairness`).

Assumed of extensions.  They may loop for ever, and call the crate in any order that
Rust's rules on ownership and borrowing allow.  Beyond that, `runtime_progress` has
programs that hold one guard at a time and whose panic message runs no code of
theirs (`MaxGuards`, `DisplayRunsExtension`): `OverdueProgramsEnd` is claimed for
these only, and says nothing of two guards or of a `Display` that does not return.
In `RexPacket` a program does not use a slice that `bpf_clone_redirect` has left
outside the packet (`Backed`, a guard of `header` and `slice_write` that the code
does not have).  In `RexLog` a panic message is not empty, since it starts with the
text of `PanicInfo`.

Each property has a mutant, a faulty variant of one definition marked as such
in the modules, under which the same run fails.

## 4. Proofs

Every theorem holds for all values of the constants that satisfy the named
assumptions of its module; the assumptions say what the sets and sizes are and
no more, but for the three that are named below (`IpLen`, `CLUSTER_SIZE`,
`BufLen`).  Each proof module has an inductive invariant `IInv`, shown to hold
initially and to be kept by every action; the properties follow from it.  The
theorems about Electrode are about `ReplicaSpec` and `LeaderSpec`, the behaviours of
`Electrode` in one role or the other.

| Module | Proved | Inductive invariant |
|---|---|---|
| `RexRuntimeProofs` | `TypeOK`, `WatchdogDefers`, `ReleasesOnlyHeld`, `LiveHandlesBacked`, `LocksReleasedAtExit`, `TasksReleasedUnlessExceeded`, `CleanupNotRestarted`, `ImplementsContract` | `FlagInv`, `OpInv`, `EntryInv`, `LiveInv`, `SweepInv`, `HeldInv` |
| `RexPacketProofs` | `SliceInPacket`, `ChecksumAccepted`, `ImplementsPlainPacket` | `HeldInv`, `CheckInv` |
| `ElectrodeReplicaProofs` | `ReplicaTypeOK`, `BufferInOrder`, `ViewsInOrder`, `AnsweredKeptUnlessAborted` | `BufferBehind`, `ViewBound`, `ReceivedKept`, `NoGap` |
| `ElectrodeLeaderProofs` | `LeaderTypeOK`, `AtMostOneCopy`, `EveryFollowerServed`, `VotesOfOwner`, `ReportedHasQuorum`, `CountedIsReported` | `QuorumInv`, `ChainInv` |
| `BmcProofs` | `TypeOK`, `EntriesIntact`, `ReplyForKey`, `InvalidationHolds` | `RequestInv`, `LockInv`, `DataInv`, `StampInv` |
| `LibrexProofs` | `TypeOK`, `NoStrayClose`, `FailedLoadGivesBack`, `OwnImageLoaded`, `KeptObjectComplete`, `HandlesStayValid` | `SlotInv`, `FateInv`, `HandleInv`, `Stage`, `TmpInv`, `OneThreadEach`, `ImageInv` |
| `BenchmarkProofs` | `TypeOK`, `SetsBeforeGets`, `AccountedAtReport` | `QueueOrder`, `Taken`, `WorkerStage` |
| `SamplesProofs` | `DeliveredInOrder`, `TextIntact`, `PrintedAsWritten`, `CountsExplained`, `StartIsOwn`, `RunAloneExact` | `RingInv`, `LogInv`, `CountingInv`, `MapTestInv` |

### The runtime

None of the properties is inductive.  That an unlock releases a lock held by this CPU
depends on the slot number kept in the guard, which is right because nobody
else cleared or took the slot, which depends on the flag.  `IInv` states per
CPU: the flag is not 0 in a helper or in cleanup (`FlagInv`); the operation in
progress still refers to what its earlier steps obtained (`OpInv`); a valid
entry stands for a held object, is the only one for it and belongs to a live
value or to the operation in progress (`EntryInv`); live values are backed
(`LiveInv`); cleanup leaves invalid entries behind it (`SweepInv`); and what is
held can still be found, in the table or in the operation (`HeldInv`).  The
last part is what makes `LocksReleasedAtExit` provable: at exit there is no
entry and no operation, hence nothing held.

The step lemma is split in two.  `Frame` and `OtherCPUs` show that a step of
CPU `d` leaves the invariant of `c` alone: it changes only `d`'s variables and
the holder of objects that are free or `d`'s own.  `OwnCPU` goes through the
actions of `c`.  `ContractStep` shows that every step is a step of
`RexContract` or leaves its variables unchanged.

### Packets

`HeldInv` says that a header in use belongs to a running program, to the current
head and to the packet, so a write-back puts the copy where the header was
read.  `ImplementsPlainPacket` maps the packet to `buf` with the copy laid over
it: a write to a copy is then a write to the packet, and the write-back a
stutter.

`ChecksumAccepted` is about the sum of a header of any length.  `SumOf` is a
recursive function; an induction theorem with an operator as parameter cannot
be used, so the induction is over a *set*: the set of counter-examples is a set
of natural numbers and would have a least element (`LeastNumber`, from the
library's well-foundedness of `<`).  From it follow that clearing the checksum
word lowers the sum by that word and that the sum has the bound under which two
folds are enough (`IpLen * (Base - 1) < Base * Base` in `LayoutAssumption`: ten
words of 16 bits in the source).  `CheckInv` carries the sum from the moment it
is stored to the return.

### Electrode

Replica: no record in the buffer is of a later view than the replica, nor, in
the current view, ahead of `last_op` (`BufferBehind`); `ReceivedKept` extends
`AnsweredKeptUnlessAborted` from what was answered to all that was counted in
`last_op`, because only messages up to `last_op` are answered.  `NoGap`, the
second half of `BufferInOrder`, is inductive with these: a record is let in only
if it starts at most one behind `last_op`.  `ViewBound` keeps the view within the
model's bound.

Leader: `QuorumInv` has the two properties of the quorum map as its parts, with
the types; they are inductive together.  For the broadcast, `ChainInv` describes
the stack of nested runs of the egress program: the runs address the followers
one after the other and all but the innermost wait in `bpf_clone_redirect`
(`StackInv`); the copies go out from the last follower to the first, so those
behind the innermost run have theirs, unless a clone failed, and the others
have none (`DeliveredInv`).
`CountedIsReported` is proved for `CLUSTER_SIZE > 2` only (3 in the source):
the code reports when the number of votes *equals* the number needed, and with
two replicas that number is zero, which is passed over by the first vote.

### BMC

`LockInv` says that an entry is updated under its lock and by the only CPU that
has it.  `DataInv` says that the head of an entry being written is the writer's
response, and that a valid entry nobody writes is whole, and under the hash of
what an update sees of its key, unless an update of it was cut off.  `StampInv`
says that a valid entry, and one being written, has seen every SET since its
response was let in, with the race of `bmc_invalidate_look` as the only
exception.  `RequestInv`: a program at work has a packet.  What was served follows
from the state of the entry at the step that served it.

### librex

`SlotInv` relates one object's fields and the descriptor table in both
directions: a field that is set names a descriptor open for exactly this object
and purpose, and a map, program or base descriptor open for this object is in
the field for it.  `Stage` says which fields are set at each position of the
object's thread, and which file is open.  With the second direction, `FateInv`
gives `FailedLoadGivesBack` (all fields closed, nothing left) and
`KeptObjectComplete`; with the first, a close cannot be stray although the
number may have been given out again.  `TmpInv` says which object a temporary
file holds, also after a load that failed.  `ImageInv` adds that a thread about
to load has its own image in the file unless the file could not be written
(`torn`), and that a wrong image is then one of a load that failed.  The argument
is per object and thread: frame lemmas show that a step of one thread, or of the
application, changes neither the fields nor the descriptors of another thread's
object, and `OneThreadEach` that no object is loaded by two threads.

### Benchmark

`Queue(w)` is what is in the channel and in the list of handles of worker `w`.
`QueueOrder` says that these are its own GETs, in order, once each and not yet
spawned; `Taken` that every command taken so far is a SET that the server carried
out or a GET
that was spawned or is in the queue; `WorkerStage` that nothing is spawned before
the loop over the commands has ended and nothing is left when the worker is done.
The counter is the number of GETs that
timed out, and the report is only written when all workers are done.  That no
entry belongs to two workers is arithmetic (`SharesApart`).

### Ring buffer, log, counting, map test

`Samples` loads one object at a time, so its invariant is the conjunction of four
that never meet: for each there are lemmas that it holds initially, that the
steps of its part keep it, and that it does not depend on anything else.

Ring buffer.  Records between `cons` and `prod` are in different places
(`PlaceFacts`: fewer than `Places` numbers apart have different remainders), and
a record is ready exactly when it was submitted (`PlacesInv`).  A live entry owns
a busy record that no other entry has, and its cursor is at the end of the text
(`EntriesInv`); the bytes of a text record are its text and a NUL (`IsText`),
which is why nothing an earlier record left in the place is read.

Log.  Only the innermost message has to be in the buffer (`TopInv`), the messages
below it are marked `nested` when it is printed.  `LeftInv` says that the buffer
shows the text written last, up to a NUL, which is what an empty message
prints.  `LogAssumption` asks for `BufLen > 1`, so that the text `panic_unknown`
falls back to fits; the comment at `panic.rs:184` states the same of the real
sizes.

Counting.  Two tasks that work on the same key have raced for it (`PairInv`); what
a task has loaded is still the number of events unless its key was raced for
(`RefInv`); a reference is to a replaced element only after a race (`GoneInv`);
and without an entry there were no events (`CounterInv`).  For the start times:
a system call that has one was counted (`StartInv`), hence the enter program that
finds the counter writes a start time of its own, and a start time that is there
during a call is that call's (`CallInv`).

map_test_2.  A run that is not disturbed is alone (`RunInv`), so the maps are those
it found with its own changes; `Facts` says per operation what these are.

Two definitions were changed because of the proofs: in `bpf_map_push_elem` and
`sys_exit` the guards of a `CASE` overlapped, which TLC resolves by order and the
logic does not; they are conditionals now.

### Only model-checked

Liveness (`OverdueProgramsEnd`, `BroadcastEnds`, `BenchmarkEnds`,
`SubmittedDelivered`): fairness is not in the prover's reach.  The runs that
exhibit a violation are TLC's by nature.  Every other property of a run is stated
by a theorem.

## 5. Findings

* Ring buffer reservations have no cleanup entry (`map.rs:195`), although the
  documentation promises destructors for allocated resources on termination.
* Electrode: when the ring buffer is full, the operation is neither buffered
  nor passed on, and its retransmission is acknowledged.
* Electrode: the fast reply carries `payload_index` (87) where the comments at
  `main.rs:438` and `450` have `last_op` (`ReplyNamesLastOp`); the leader's
  `handle_prepare_ok` would take it for the operation number.
* BMC: "cache is up-to-date" compares keys only; a stale value that entered
  after its SET stays until the next SET.

Observations that the passing properties state rather than contradict:
`from_pid` acquires before it registers (`task_struct.rs:86`), while a comment
in `spinlock.rs` explains why the order should be the opposite, so a full table
leaks the reference just taken (`TasksReleasedUnlessExceeded`);
`bpf_clone_redirect` can leave a slice that is not in the packet
(`SliceInPacket`); the IP checksum is wrong when its fold carries
(`ChecksumAccepted`); `write_str` panics on a record of length zero
(`TextIntact`); counters lose events of overlapping programs
(`CountsExplained`); an empty message prints the previous one (`PrintedAsWritten`);
`map_test_2` prints what `runtest.py:70-71` looks for only with a fresh queue
(`RunAloneExact`); a GET may be served the value of a longer key, and for keys
beyond 224 bytes `bmc_update_cache` makes it likely by hashing the beginning only
(`ReplyForKey`); librex goes on when it could not write the temporary file
(`OwnImageLoaded`); the benchmark waits without end for a TCP answer
(`BenchmarkEnds`).

A limit rather than a finding: a program may nest guards, and two programs that
take two locks in opposite order wait for each other inside the helper, out of
the watchdog's reach.  `runtime_progress` therefore has one guard at a time.

## 6. Not modelled, and the plan

Not modelled: macros, bindings and build (no run-time behaviour); loaders of
the samples (command lines, calls of libbpf); samples that only call the crate;
per-CPU access and the accessors of context fields, which read what the kernel
owns; the byte layout of packets.  Of `map.rs`: `insert_new`, `update` and
`force_push`, which no sample uses, the queries of the ring buffer and the perf
event array.  Of `utils.rs`: the read-only `Aligned`.  Of `tracex5` and
`trace_event`: what only reads and prints.

No property of a run is left that could be proved and is not.  Open: theorems
about operations that no run uses yet (`insert_new`, `force_push`, the queries of
the ring buffer), which need the operations in the model first.
