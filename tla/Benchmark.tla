----------------------------- MODULE Benchmark -----------------------------
(***************************************************************************)
(* tools/memcached_benchmark: the contents of a dictionary are stored in   *)
(* the server through a pool of connections, then worker threads send GETs *)
(* over UDP and, in between, SETs over TCP, and at the end the throughput  *)
(* is computed from the number of commands and of time-outs.               *)
(*                                                                         *)
(* In a worker the send futures of all GETs are made first and awaited     *)
(* afterwards; socket_task takes the commands out of a bounded channel and *)
(* spawns a task for each; tasks share the sockets of a pool.  Server and  *)
(* network are external: packets are lost and late, and nothing obliges    *)
(* the server to answer over TCP, where the program waits without end.     *)
(***************************************************************************)
EXTENDS Naturals, Sequences, FiniteSets

CONSTANTS
  threads,            \* number of workers
  nums,               \* number of entries generated
  pipeline,           \* capacity of the channel
  TcpPeriod,          \* every TcpPeriod-th entry is a SET (31 in the source)
  PoolSize,           \* UDP sockets of a worker (32)
  ConcurrencyLimit,   \* permits, and TCP connections (64)
  Keys,               \* keys of test_dict
  KeyOf,              \* key of each entry
  CountOf             \* position of each key in the iteration of test_dict

ASSUME BenchmarkAssumption ==
  /\ threads \in Nat \ {0} /\ nums \in Nat /\ pipeline \in Nat \ {0}
  /\ TcpPeriod \in Nat \ {0} /\ PoolSize \in Nat \ {0} /\ ConcurrencyLimit \in Nat \ {0}
  /\ KeyOf \in [0 .. (nums - 1) -> Keys]
  /\ CountOf \in [Keys -> Nat]

Workers == 0 .. (threads - 1)
Entries == 0 .. (nums - 1)

VARIABLES
  phase,            \* main: "set", "bench", "report" or "failed"
  validate,         \* command line
  aborts,           \* build: a panic ends the process (the release profile)
  setter,           \* per key: state of its task in set_memcached_value
  stored,           \* keys the server has
  served,           \* entries whose SET the server has carried out
  wpc, pos,         \* per worker: position, commands taken from send_commands
  handles,          \* per worker: send futures not yet awaited
  channel,          \* per worker: the mpsc channel
  open,             \* workers whose tx has not been dropped
  task,             \* per entry: state of its GET
  requests,         \* entries whose GET is on its way to the server
  inbox,            \* entries whose answer is at the socket; with hit or miss
  TIMEOUT_COUNTER

vars == <<phase, validate, aborts, setter, stored, served, wpc, pos, handles, channel,
          open, task, requests, inbox, TIMEOUT_COUNTER>>
workerVars == <<wpc, pos, handles, channel, open>>
taskVars   == <<task, requests, inbox, TIMEOUT_COUNTER>>

\* The commands of a worker; those behind the last full share are never sent.
Share == nums \div threads
Command(w, n) == ((w * nums) \div threads) + n
Commands == [w \in Workers |-> {Command(w, n) : n \in 0 .. (Share - 1)}]

IsTcp(i) == i % TcpPeriod = TcpPeriod - 1
Gets == [w \in Workers |-> {i \in Commands[w] : ~IsTcp(i)}]
AllGets == UNION {Gets[w] : w \in Workers}

\* counter counts the GETs of the worker from 1.
SocketOf == [i \in AllGets |->
  LET w == CHOOSE w \in Workers : i \in Gets[w] IN
  <<w, Cardinality({j \in Gets[w] : j <= i}) % PoolSize>>]

TypeOK ==
  /\ phase \in {"set", "bench", "report", "failed"}
  /\ validate \in BOOLEAN /\ aborts \in BOOLEAN
  /\ setter \in [Keys -> {"spawned", "permit", "locked", "written", "done", "failed",
                       "skipped"}]
  /\ stored \subseteq Keys /\ served \subseteq Entries
  /\ wpc \in [Workers -> {"loop", "await", "wait", "done"}]
  /\ pos \in [Workers -> 0 .. Share]
  /\ handles \in [Workers -> Seq(AllGets)]
  /\ channel \in [Workers -> Seq(AllGets)]
  /\ \A w \in Workers : Len(channel[w]) <= pipeline
  /\ open \subseteq Workers
  /\ task \in [Entries -> {"none", "send", "receive", "done", "timeout", "panicked"}]
  /\ requests \subseteq Entries
  /\ inbox \subseteq Entries \X {"hit", "miss"}
  /\ TIMEOUT_COUNTER \in Nat

\* With skip_set the server has what an earlier run left, everything or nothing.
Init ==
  /\ validate \in BOOLEAN /\ aborts \in BOOLEAN
  /\ \/ phase = "set" /\ stored = {} /\ setter = [k \in Keys |-> "spawned"]
     \/ phase = "bench" /\ stored \in {{}, Keys} /\ setter = [k \in Keys |-> "skipped"]
  /\ served = {}
  /\ wpc = [w \in Workers |-> "loop"]
  /\ pos = [w \in Workers |-> 0]
  /\ handles = [w \in Workers |-> <<>>]
  /\ channel = [w \in Workers |-> <<>>]
  /\ open = Workers
  /\ task = [i \in Entries |-> "none"]
  /\ requests = {}
  /\ inbox = {}
  /\ TIMEOUT_COUNTER = 0

-----------------------------------------------------------------------------
(***************************************************************************)
(* set_memcached_value.                                                    *)
(***************************************************************************)
SetterGoto(k, from, to) ==
  /\ phase = "set"
  /\ setter[k] = from
  /\ setter' = [setter EXCEPT ![k] = to]
  /\ phase' = IF to = "failed" /\ aborts THEN "failed" ELSE phase
  /\ UNCHANGED <<validate, aborts, served, workerVars, taskVars>>

Conn(k) == CountOf[k] % ConcurrencyLimit
HavePermit == {k \in Keys : setter[k] \in {"permit", "locked", "written"}}

AcquirePermit(k) ==
  /\ Cardinality(HavePermit) < ConcurrencyLimit
  /\ SetterGoto(k, "spawned", "permit")
  /\ UNCHANGED stored

LockConn(k) ==
  /\ \A l \in Keys : Conn(l) = Conn(k) => setter[l] \notin {"locked", "written"}
  /\ SetterGoto(k, "permit", "locked")
  /\ UNCHANGED stored

SetValue(k) ==
  /\ SetterGoto(k, "locked", "written")
  /\ stored' = stored \cup {k}

\* The value read back is the one that was written: keys are distinct.
GetBack(k) ==
  /\ SetterGoto(k, "written", "done")
  /\ UNCHANGED stored

\* expect panics; unless that ends the process, the task gives back connection
\* and permit.
SetterPanics(k) ==
  /\ SetterGoto(k, "locked", "failed") \/ SetterGoto(k, "written", "failed")
  /\ UNCHANGED stored

\* while set.join_next().await.is_some() {}: panics are not looked at.
JoinAll ==
  /\ phase = "set"
  /\ \A k \in Keys : setter[k] \in {"done", "failed"}
  /\ phase' = "bench"
  /\ UNCHANGED <<validate, aborts, setter, stored, served, workerVars, taskVars>>

-----------------------------------------------------------------------------
(***************************************************************************)
(* get_command_benchmark: the worker.                                      *)
(***************************************************************************)
Running(w, at) == phase = "bench" /\ wpc[w] = at

\* Faulty variant: each command is sent when its turn comes.
SendEagerly(w) ==
  LET i == Command(w, pos[w]) IN
  /\ Running(w, "loop")
  /\ pos[w] < Share
  /\ pos' = [pos EXCEPT ![w] = @ + 1]
  /\ IF IsTcp(i)
     THEN i \in served /\ UNCHANGED channel
     ELSE /\ Len(channel[w]) < pipeline
          /\ channel' = [channel EXCEPT ![w] = Append(@, i)]
  /\ UNCHANGED <<phase, validate, aborts, setter, stored, served, wpc, handles, open, taskVars>>

\* client.set(..).await: the server has yet to answer the SET.
AwaitsSet(w) ==
  /\ Running(w, "loop")
  /\ pos[w] < Share /\ IsTcp(Command(w, pos[w]))
  /\ Command(w, pos[w]) \notin served

\* One turn of the loop over send_commands: a SET is waited for, of a GET only
\* the future is made.
NextCommand(w) ==
  LET i == Command(w, pos[w]) IN
  /\ Running(w, "loop")
  /\ pos[w] < Share
  /\ pos' = [pos EXCEPT ![w] = @ + 1]
  /\ IF IsTcp(i)
     THEN i \in served /\ UNCHANGED handles
     ELSE handles' = [handles EXCEPT ![w] = Append(@, i)]
  /\ UNCHANGED <<phase, validate, aborts, setter, stored, served, wpc, channel, open, taskVars>>

\* client.set(..).expect: the worker panics, and so does main when it joins it.
TcpSetFails(w) ==
  /\ Running(w, "loop")
  /\ pos[w] < Share /\ IsTcp(Command(w, pos[w]))
  /\ phase' = "failed"
  /\ UNCHANGED <<validate, aborts, setter, stored, served, workerVars, taskVars>>

LoopDone(w) ==
  /\ Running(w, "loop")
  /\ pos[w] = Share
  /\ wpc' = [wpc EXCEPT ![w] = "await"]
  /\ UNCHANGED <<phase, validate, aborts, setter, stored, served,
                 pos, handles, channel, open, taskVars>>

\* handle.await: waits for room in the channel.
AwaitSend(w) ==
  /\ Running(w, "await")
  /\ handles[w] # <<>>
  /\ Len(channel[w]) < pipeline
  /\ channel' = [channel EXCEPT ![w] = Append(@, Head(handles[w]))]
  /\ handles' = [handles EXCEPT ![w] = Tail(@)]
  /\ UNCHANGED <<phase, validate, aborts, setter, stored, served, wpc, pos, open, taskVars>>

\* drop(tx); tracker.close()
DropTx(w) ==
  /\ Running(w, "await")
  /\ handles[w] = <<>>
  /\ open' = open \ {w}
  /\ wpc' = [wpc EXCEPT ![w] = "wait"]
  /\ UNCHANGED <<phase, validate, aborts, setter, stored, served,
                 pos, handles, channel, taskVars>>

\* Faulty variant: only socket_task is waited for.
WaitForReceiver(w) ==
  /\ Running(w, "wait")
  /\ channel[w] = <<>> /\ w \notin open
  /\ wpc' = [wpc EXCEPT ![w] = "done"]
  /\ UNCHANGED <<phase, validate, aborts, setter, stored, served,
                 pos, handles, channel, open, taskVars>>

\* tracker.wait(): socket_task has ended, and every task that it spawned.
TrackerWait(w) ==
  /\ Running(w, "wait")
  /\ channel[w] = <<>> /\ w \notin open
  /\ \A i \in Gets[w] : task[i] \notin {"send", "receive"}
  /\ wpc' = [wpc EXCEPT ![w] = "done"]
  /\ UNCHANGED <<phase, validate, aborts, setter, stored, served,
                 pos, handles, channel, open, taskVars>>

\* Main joins the workers and computes nums - TIMEOUT_COUNTER.
Report ==
  /\ phase = "bench"
  /\ \A w \in Workers : wpc[w] = "done"
  /\ phase' = "report"
  /\ UNCHANGED <<validate, aborts, setter, stored, served, workerVars, taskVars>>

-----------------------------------------------------------------------------
(***************************************************************************)
(* socket_task and the tasks it spawns.                                    *)
(***************************************************************************)
\* rx.recv().await, tracker.spawn
SpawnTask(w) ==
  /\ phase = "bench"
  /\ channel[w] # <<>>
  /\ task' = [task EXCEPT ![Head(channel[w])] = "send"]
  /\ channel' = [channel EXCEPT ![w] = Tail(@)]
  /\ UNCHANGED <<phase, validate, aborts, setter, stored, served,
                 wpc, pos, handles, open, requests,
                 inbox, TIMEOUT_COUNTER>>

TaskGoto(i, from, to) ==
  /\ phase = "bench"
  /\ task[i] = from
  /\ task' = [task EXCEPT ![i] = to]
  /\ phase' = IF to = "panicked" /\ aborts THEN "failed" ELSE phase
  /\ UNCHANGED <<validate, aborts, setter, stored, served, workerVars>>

\* An error of send_to is not looked at: nothing is sent, and the task waits.
SendGet(i) ==
  /\ TaskGoto(i, "send", "receive")
  /\ \/ requests' = requests \cup {i}
     \/ UNCHANGED requests
  /\ UNCHANGED <<inbox, TIMEOUT_COUNTER>>

SendTimeout(i) ==
  /\ TaskGoto(i, "send", "timeout")
  /\ TIMEOUT_COUNTER' = TIMEOUT_COUNTER + 1
  /\ UNCHANGED <<requests, inbox>>

\* recv_from takes whatever answer is at the socket, another task's too.  With
\* validate, aborts, an answer without "VALUE " makes the slice panic.
Receive(i) ==
  \E j \in AllGets, r \in {"hit", "miss"} :
    /\ <<j, r>> \in inbox
    /\ SocketOf[j] = SocketOf[i]
    /\ TaskGoto(i, "receive", IF validate /\ r = "miss" THEN "panicked" ELSE "done")
    /\ inbox' = inbox \ {<<j, r>>}
    /\ UNCHANGED <<requests, TIMEOUT_COUNTER>>

\* Faulty variant: recv_from without a time-out.
ReceiveForever(i) == FALSE /\ UNCHANGED vars

ReceiveTimeout(i) ==
  /\ TaskGoto(i, "receive", "timeout")
  /\ TIMEOUT_COUNTER' = TIMEOUT_COUNTER + 1
  /\ UNCHANGED <<requests, inbox>>

-----------------------------------------------------------------------------
\* The server carries out the SET a worker waits for, and answers.
ServeSet(w) ==
  LET i == Command(w, pos[w]) IN
  /\ AwaitsSet(w)
  /\ stored' = stored \cup {KeyOf[i]}
  /\ served' = served \cup {i}
  /\ UNCHANGED <<phase, validate, aborts, setter, workerVars, taskVars>>

\* The server answers a request.
Answer(i) ==
  /\ phase = "bench"
  /\ i \in requests
  /\ requests' = requests \ {i}
  /\ inbox' = inbox \cup {<<i, IF KeyOf[i] \in stored THEN "hit" ELSE "miss">>}
  /\ UNCHANGED <<phase, validate, aborts, setter, stored, served,
                 workerVars, task, TIMEOUT_COUNTER>>

\* A request or its answer is lost.
Lose(i) ==
  /\ phase = "bench"
  /\ i \in requests
  /\ requests' = requests \ {i}
  /\ UNCHANGED <<phase, validate, aborts, setter, stored, served,
                 workerVars, task, inbox, TIMEOUT_COUNTER>>

\* The answers of the server over TCP, right or wrong, and their absence.
SetterAnswer(k) == SetValue(k) \/ GetBack(k) \/ SetterPanics(k)
SetAnswer(w)    == ServeSet(w) \/ TcpSetFails(w)

SetterStep(k) == AcquirePermit(k) \/ LockConn(k)

WorkerStep(w) ==
  \/ NextCommand(w) \/ LoopDone(w)
  \/ AwaitSend(w) \/ DropTx(w) \/ TrackerWait(w)
  \/ SpawnTask(w)

TaskStep(i) == SendGet(i) \/ SendTimeout(i) \/ Receive(i) \/ ReceiveTimeout(i)

Next ==
  \/ \E k \in Keys : SetterStep(k) \/ SetterAnswer(k)
  \/ JoinAll \/ Report
  \/ \E w \in Workers : WorkerStep(w) \/ SetAnswer(w)
  \/ \E i \in AllGets : TaskStep(i) \/ Answer(i) \/ Lose(i)

\* The executor polls every task that can go on, and timers fire.  The server
\* owes no answer, neither over UDP nor over TCP.
Fairness ==
  /\ \A k \in Keys : WF_vars(SetterStep(k))
  /\ WF_vars(JoinAll) /\ WF_vars(Report)
  /\ \A w \in Workers : WF_vars(WorkerStep(w))
  /\ \A i \in AllGets : WF_vars(TaskStep(i))

Spec == Init /\ [][Next]_vars /\ Fairness

-----------------------------------------------------------------------------
(***************************************************************************)
(* Properties.                                                             *)
(***************************************************************************)

\* When the throughput is computed every GET has been spawned and has ended,
\* and all that did not get an answer are in the counter, except those that
\* panicked (get_values.rs get_command_benchmark waits for the tracker).
AccountedAtReport ==
  phase = "report" =>
    /\ \A i \in AllGets : task[i] \in {"done", "timeout", "panicked"}
    /\ TIMEOUT_COUNTER = Cardinality({i \in AllGets : task[i] = "timeout"})

\* No GET of a worker is under way before the server has carried out all of
\* that worker's own SETs, although the two are mixed in send_commands: the
\* send futures are only awaited behind the loop (get_values.rs
\* get_command_benchmark).
SetsBeforeGets ==
  \A w \in Workers : (\E i \in Gets[w] : task[i] # "none") =>
    \A i \in Commands[w] : IsTcp(i) => i \in served

\* The benchmark ends, with a report or because something failed, however many
\* UDP packets are lost; only a call over TCP that the server never answers can
\* keep it from ending, for these have no time-out (set_values.rs
\* set_memcached_value, get_values.rs get_command_benchmark, main.rs run_bench).
BenchmarkEnds ==
  \/ <>(phase \in {"report", "failed"})
  \/ \E k \in Keys : <>[](setter[k] \in {"locked", "written"})
  \/ \E w \in Workers : <>[]AwaitsSet(w)

=============================================================================
