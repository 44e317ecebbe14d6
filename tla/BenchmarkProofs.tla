-------------------------- MODULE BenchmarkProofs --------------------------
(***************************************************************************)
(* Proofs about the memcached benchmark, for every number of workers,      *)
(* entries, channel places and sockets: no GET goes out before the SETs of *)
(* its worker, and what is reported accounts for every request once.       *)
(*                                                                         *)
(* A worker's GETs pass through its send futures and its channel in the    *)
(* order of send_commands.  The two together are one queue (Queue), which  *)
(* awaiting a future does not change.                                      *)
(***************************************************************************)
EXTENDS Benchmark, FiniteSetTheorems, SequenceTheorems, TLAPS

-----------------------------------------------------------------------------
(***************************************************************************)
(* The inductive invariant.                                                *)
(***************************************************************************)
Queue(w) == channel[w] \o handles[w]

\* The GETs in the queue of a worker are its own, taken from send_commands
\* and not spawned, in order and once.
QueueOrder(w) ==
  /\ \A a \in 1 .. Len(Queue(w)) :
       /\ Queue(w)[a] \in Gets[w] /\ Queue(w)[a] < Command(w, pos[w])
       /\ task[Queue(w)[a]] = "none"
  /\ \A a, b \in 1 .. Len(Queue(w)) : a < b => Queue(w)[a] < Queue(w)[b]

\* What was taken from send_commands is done, spawned or in the queue.
Taken(w) ==
  \A n \in 0 .. pos[w] - 1 :
    LET i == Command(w, n) IN
    IF IsTcp(i) THEN i \in served
    ELSE task[i] # "none" \/ \E a \in 1 .. Len(Queue(w)) : Queue(w)[a] = i

\* Nothing leaves the worker before its loop has ended, and it does not end
\* before everything has left.
WorkerStage(w) ==
  /\ wpc[w] = "loop" => channel[w] = <<>> /\ \A i \in Gets[w] : task[i] = "none"
  /\ wpc[w] # "loop" => pos[w] = Share
  /\ wpc[w] \in {"wait", "done"} => handles[w] = <<>>
  /\ wpc[w] = "done" => /\ channel[w] = <<>>
                        /\ \A i \in Gets[w] : task[i] \notin {"send", "receive"}

WorkerInv(w) == QueueOrder(w) /\ Taken(w) /\ WorkerStage(w)

TimedOut == {i \in AllGets : task[i] = "timeout"}

IInv ==
  /\ TypeOK
  /\ \A w \in Workers : WorkerInv(w)
  /\ TIMEOUT_COUNTER = Cardinality(TimedOut)
  /\ phase = "report" => \A w \in Workers : wpc[w] = "done"

-----------------------------------------------------------------------------
(***************************************************************************)
(* The shares of the workers.                                              *)
(***************************************************************************)
LEMMA DivFacts ==
  ASSUME NEW t \in Nat \ {0}, NEW a \in Nat
  PROVE  a \div t \in Nat /\ t * (a \div t) <= a /\ a < t * (a \div t) + t
OBVIOUS

LEMMA TimesMonotone ==
  ASSUME NEW t \in Nat, NEW x \in Int, NEW y \in Int, x <= y
  PROVE  t * x <= t * y
OBVIOUS

LEMMA TimesCancel ==
  ASSUME NEW t \in Nat, NEW x \in Int, NEW y \in Int, t * x < t * y
  PROVE  x < y
<1> SUFFICES ASSUME y <= x  PROVE FALSE  OBVIOUS
<1>1. t * y <= t * x  BY TimesMonotone
<1>2. t * y \in Int /\ t * x \in Int  OBVIOUS
<1>q. QED  BY <1>1, <1>2

LEMMA TimesPlus ==
  ASSUME NEW t \in Int, NEW x \in Int, NEW y \in Int
  PROVE  t * (x + y) = t * x + t * y /\ t * x \in Int /\ t * y \in Int
OBVIOUS

\* The share of a worker ends before that of the next one begins.
LEMMA SharesApart ==
  ASSUME NEW v \in Nat, NEW w \in Nat, v < w
  PROVE  /\ (v * nums) \div threads \in Nat /\ (w * nums) \div threads \in Nat
         /\ Share \in Nat
         /\ (v * nums) \div threads + Share <= (w * nums) \div threads
<1> DEFINE x == (v * nums) \div threads
           z == (w * nums) \div threads
<1>0. threads \in Nat \ {0} /\ nums \in Nat  BY BenchmarkAssumption
<1>1. v * nums \in Nat /\ w * nums \in Nat  BY <1>0
<1>2. /\ x \in Nat /\ threads * x <= v * nums
      /\ Share \in Nat /\ threads * Share <= nums
      /\ z \in Nat /\ w * nums < threads * z + threads
  BY <1>0, <1>1, DivFacts DEF Share
<1>3. v * nums + nums <= w * nums
  <2>1. nums * (v + 1) <= nums * w  BY <1>0, TimesMonotone
  <2>2. nums * (v + 1) = nums * v + nums * 1  BY <1>0, TimesPlus
  <2>q. QED  BY <1>0, <2>1, <2>2
<1> HIDE DEF x, z
<1>4. threads * (x + Share) = threads * x + threads * Share
      /\ threads * x \in Int /\ threads * Share \in Int
  BY <1>0, <1>2, TimesPlus
<1>5. threads * (z + 1) = threads * z + threads /\ threads * z \in Int
  BY <1>0, <1>2, TimesPlus
<1>6. threads * (x + Share) < threads * (z + 1)
  BY <1>0, <1>1, <1>2, <1>3, <1>4, <1>5
<1>7. x + Share < z + 1  BY <1>0, <1>2, <1>6, TimesCancel
<1>q. QED  BY <1>2, <1>7 DEF x, z

LEMMA AllShares == (threads * nums) \div threads = nums
<1>0. threads \in Nat \ {0} /\ nums \in Nat  BY BenchmarkAssumption
<1> DEFINE z == (threads * nums) \div threads
<1>1. threads * nums \in Nat  BY <1>0
<1>2. z \in Nat /\ threads * z <= threads * nums /\ threads * nums < threads * z + threads
  BY <1>0, <1>1, DivFacts
<1> HIDE DEF z
<1>3. threads * (z + 1) = threads * z + threads  BY <1>0, <1>2, TimesPlus
<1>4. nums < z + 1  BY <1>0, <1>2, <1>3, TimesCancel
<1>5. threads * (nums + 1) = threads * nums + threads  BY <1>0, TimesPlus
<1>6. threads * z < threads * (nums + 1)  BY <1>0, <1>1, <1>2, <1>5
<1>7. z < nums + 1  BY <1>0, <1>2, <1>6, TimesCancel
<1>q. QED  BY <1>0, <1>2, <1>4, <1>7 DEF z

\* The commands of a worker are entries, one for each number.
LEMMA CommandFacts ==
  /\ Share \in Nat
  /\ \A w \in Workers, n \in 0 .. Share :
       Command(w, n) \in Nat /\ (n < Share => Command(w, n) \in Entries)
  /\ \A w \in Workers, n, k \in 0 .. Share :
       /\ Command(w, n) = Command(w, k) => n = k
       /\ n < k => Command(w, n) < Command(w, k)
<1>0. threads \in Nat \ {0} /\ nums \in Nat  BY BenchmarkAssumption
<1>1. ASSUME NEW w \in Workers
      PROVE  /\ Share \in Nat /\ (w * nums) \div threads \in Nat
             /\ (w * nums) \div threads + Share <= nums
  <2>1. w \in Nat /\ w < threads  BY <1>0 DEF Workers
  <2>q. QED  BY <1>0, <2>1, SharesApart, AllShares
<1>2. Share \in Nat  BY <1>0, DivFacts DEF Share
<1>3. ASSUME NEW w \in Workers, NEW n \in 0 .. Share
      PROVE  Command(w, n) \in Nat /\ (n < Share => Command(w, n) \in Entries)
  BY <1>0, <1>1, <1>2 DEF Command, Entries
<1>4. ASSUME NEW w \in Workers, NEW n \in 0 .. Share, NEW k \in 0 .. Share
      PROVE  /\ Command(w, n) = Command(w, k) => n = k
             /\ n < k => Command(w, n) < Command(w, k)
  <2>1. (w * nums) \div threads \in Nat  BY <1>1
  <2>q. QED  BY <1>2, <2>1 DEF Command
<1>q. QED  BY <1>2, <1>3, <1>4

\* No entry is in two shares.
LEMMA CommandOwner ==
  ASSUME NEW v \in Workers, NEW w \in Workers, v # w,
         NEW n \in 0 .. Share - 1, NEW k \in 0 .. Share - 1
  PROVE  Command(v, n) # Command(w, k)
<1>0. threads \in Nat \ {0} /\ nums \in Nat  BY BenchmarkAssumption
<1>1. v \in Nat /\ w \in Nat  BY <1>0 DEF Workers
<1>2. CASE v < w
  <2>1. /\ (v * nums) \div threads \in Nat /\ (w * nums) \div threads \in Nat /\ Share \in Nat
        /\ (v * nums) \div threads + Share <= (w * nums) \div threads
    BY <1>1, <1>2, SharesApart
  <2>q. QED  BY <2>1 DEF Command
<1>3. CASE w < v
  <2>1. /\ (v * nums) \div threads \in Nat /\ (w * nums) \div threads \in Nat /\ Share \in Nat
        /\ (w * nums) \div threads + Share <= (v * nums) \div threads
    BY <1>1, <1>3, SharesApart
  <2>q. QED  BY <2>1 DEF Command
<1>q. QED  BY <1>1, <1>2, <1>3

LEMMA GetsFacts ==
  /\ \A w \in Workers : \A i : i \in Gets[w] <=>
       ~IsTcp(i) /\ \E n \in 0 .. Share - 1 : i = Command(w, n)
  /\ \A w \in Workers : \A i : i \in Commands[w] <=> \E n \in 0 .. Share - 1 : i = Command(w, n)
  /\ \A w \in Workers : Gets[w] \subseteq AllGets
  /\ AllGets \subseteq Entries
  /\ \A i \in AllGets : \E w \in Workers : i \in Gets[w]
  /\ \A v, w \in Workers : v # w => \A i \in Gets[v] : i \notin Gets[w]
<1>1. \A w \in Workers : \A i : i \in Commands[w] <=> \E n \in 0 .. Share - 1 : i = Command(w, n)
  BY DEF Commands
<1>2. \A w \in Workers : \A i : i \in Gets[w] <=> ~IsTcp(i) /\ i \in Commands[w]
  BY DEF Gets
<1>3. \A w \in Workers : Gets[w] \subseteq AllGets  BY DEF AllGets
<1>4. \A i \in AllGets : \E w \in Workers : i \in Gets[w]  BY DEF AllGets
<1>5. AllGets \subseteq Entries
  <2> SUFFICES ASSUME NEW i \in AllGets  PROVE i \in Entries  OBVIOUS
  <2>1. PICK w \in Workers : i \in Gets[w]  BY <1>4
  <2>2. PICK n \in 0 .. Share - 1 : i = Command(w, n)  BY <1>1, <1>2, <2>1
  <2>q. QED  BY <2>2, CommandFacts
<1>6. ASSUME NEW v \in Workers, NEW w \in Workers, v # w, NEW i \in Gets[v], i \in Gets[w]
      PROVE  FALSE
  <2>1. PICK n \in 0 .. Share - 1 : i = Command(v, n)  BY <1>1, <1>2
  <2>2. PICK k \in 0 .. Share - 1 : i = Command(w, k)  BY <1>1, <1>2, <1>6
  <2>q. QED  BY <1>6, <2>1, <2>2, CommandOwner
<1>q. QED  BY <1>1, <1>2, <1>3, <1>4, <1>5, <1>6

LEMMA GetsFinite == \A S : S \subseteq AllGets => IsFiniteSet(S)
<1>1. nums - 1 \in Int /\ 0 \in Int  BY BenchmarkAssumption
<1>2. IsFiniteSet(Entries)  BY <1>1, FS_Interval, Zenon DEF Entries
<1>q. QED  BY <1>2, GetsFacts, FS_Subset

-----------------------------------------------------------------------------
(***************************************************************************)
(* Steps that leave a worker as it is.                                     *)
(***************************************************************************)

\* What the invariant of a worker sees of its GETs.
TasksKept(w) ==
  \A i \in Gets[w] : /\ task'[i] = "none" <=> task[i] = "none"
                     /\ task'[i] \in {"send", "receive"} => task[i] \in {"send", "receive"}

LEMMA QueueIndex ==
  ASSUME TypeOK, NEW w \in Workers
  PROVE  /\ Queue(w) \in Seq(AllGets) /\ Len(Queue(w)) \in Nat
         /\ pos[w] \in Nat /\ pos[w] <= Share /\ Share \in Nat
BY CommandFacts DEF TypeOK, Queue

LEMMA TakenIsGet ==
  ASSUME TypeOK, NEW w \in Workers, NEW n \in 0 .. pos[w] - 1, ~IsTcp(Command(w, n))
  PROVE  Command(w, n) \in Gets[w]
<1>1. n \in 0 .. Share - 1  BY QueueIndex
<1>q. QED  BY <1>1, GetsFacts

LEMMA WorkerFrame ==
  ASSUME TypeOK, NEW w \in Workers, WorkerInv(w),
         channel'[w] = channel[w], handles'[w] = handles[w], pos'[w] = pos[w],
         wpc'[w] = wpc[w], served \subseteq served', TasksKept(w)
  PROVE  WorkerInv(w)'
<1>1. Queue(w)' = Queue(w)  BY DEF Queue
<1>2. Command(w, pos[w])' = Command(w, pos[w])  BY DEF Command
<1>3. QueueOrder(w)'  BY <1>1, <1>2 DEF WorkerInv, QueueOrder, TasksKept
<1>4. Taken(w)'
  <2> SUFFICES ASSUME NEW n \in 0 .. pos[w] - 1
               PROVE  IF IsTcp(Command(w, n)) THEN Command(w, n) \in served'
                      ELSE \/ task'[Command(w, n)] # "none"
                           \/ \E a \in 1 .. Len(Queue(w)) : Queue(w)[a] = Command(w, n)
    BY <1>1 DEF Taken
  <2>1. CASE IsTcp(Command(w, n))  BY <2>1 DEF WorkerInv, Taken
  <2>2. CASE ~IsTcp(Command(w, n))
    BY <2>2, TakenIsGet DEF WorkerInv, Taken, TasksKept
  <2>q. QED  BY <2>1, <2>2
<1>5. WorkerStage(w)'  BY DEF WorkerInv, WorkerStage, TasksKept
<1>q. QED  BY <1>3, <1>4, <1>5 DEF WorkerInv

LEMMA WorkersFrame ==
  ASSUME IInv, UNCHANGED workerVars, served \subseteq served',
         \A w \in Workers : TasksKept(w)
  PROVE  \A w \in Workers : WorkerInv(w)'
BY WorkerFrame DEF IInv, workerVars

LEMMA TasksUnchanged ==
  ASSUME task' = task
  PROVE  (\A w \in Workers : TasksKept(w)) /\ TimedOut' = TimedOut
BY DEF TasksKept, TimedOut

-----------------------------------------------------------------------------
(***************************************************************************)
(* The set phase, main, server and network.                                *)
(***************************************************************************)
LEMMA SetterSteps ==
  ASSUME IInv, NEW k \in Keys, SetterStep(k) \/ SetterAnswer(k)
  PROVE  IInv'
<1>1. /\ phase = "set" /\ phase' \in {"set", "failed"}
      /\ UNCHANGED <<validate, aborts, served, workerVars, taskVars>>
      /\ \E s \in {"permit", "locked", "written", "done", "failed"} :
            setter' = [setter EXCEPT ![k] = s]
  BY DEF SetterStep, SetterAnswer, AcquirePermit, LockConn, SetValue, GetBack, SetterPanics,
         SetterGoto
<1>2. stored' = stored \/ stored' = stored \cup {k}
  BY DEF SetterStep, SetterAnswer, AcquirePermit, LockConn, SetValue, GetBack, SetterPanics
<1>3. task' = task /\ TIMEOUT_COUNTER' = TIMEOUT_COUNTER  BY <1>1 DEF taskVars
<1>4. TypeOK'
  <2>1. setter' \in [Keys -> {"spawned", "permit", "locked", "written", "done", "failed",
                              "skipped"}]
    BY <1>1 DEF IInv, TypeOK
  <2>2. stored' \subseteq Keys  BY <1>2 DEF IInv, TypeOK
  <2>q. QED  BY <1>1, <2>1, <2>2 DEF IInv, TypeOK, workerVars, taskVars
<1>5. \A w \in Workers : WorkerInv(w)'  BY <1>1, <1>2, <1>3, TasksUnchanged, WorkersFrame
<1>q. QED  BY <1>1, <1>3, <1>4, <1>5, TasksUnchanged DEF IInv

LEMMA MainSteps ==
  ASSUME IInv, JoinAll \/ Report \/ \E w \in Workers : TcpSetFails(w)
  PROVE  IInv'
<1>1. /\ UNCHANGED <<validate, aborts, setter, stored, served, workerVars, taskVars>>
      /\ phase' \in {"bench", "report", "failed"}
      /\ phase' = "report" => \A w \in Workers : wpc[w] = "done"
  BY DEF JoinAll, Report, TcpSetFails
<1>2. task' = task /\ TIMEOUT_COUNTER' = TIMEOUT_COUNTER  BY <1>1 DEF taskVars
<1>3. TypeOK'  BY <1>1 DEF IInv, TypeOK, workerVars, taskVars
<1>4. \A w \in Workers : WorkerInv(w)'  BY <1>1, <1>2, TasksUnchanged, WorkersFrame
<1>5. phase' = "report" => \A w \in Workers : wpc'[w] = "done"  BY <1>1 DEF workerVars
<1>q. QED  BY <1>2, <1>3, <1>4, <1>5, TasksUnchanged DEF IInv

LEMMA ServeSetStep ==
  ASSUME IInv, NEW w \in Workers, ServeSet(w)
  PROVE  IInv'
<1>1. /\ UNCHANGED <<phase, validate, aborts, setter, workerVars, taskVars>>
      /\ stored' = stored \cup {KeyOf[Command(w, pos[w])]}
      /\ served' = served \cup {Command(w, pos[w])}
      /\ pos[w] < Share
  BY DEF ServeSet, AwaitsSet
<1>2. Command(w, pos[w]) \in Entries
  <2>1. pos[w] \in 0 .. Share  BY DEF IInv, TypeOK
  <2>q. QED  BY <1>1, <2>1, CommandFacts
<1>3. KeyOf[Command(w, pos[w])] \in Keys  BY <1>2, BenchmarkAssumption DEF Entries
<1>4. task' = task /\ TIMEOUT_COUNTER' = TIMEOUT_COUNTER  BY <1>1 DEF taskVars
<1>5. TypeOK'
  <2>1. stored' \subseteq Keys /\ served' \subseteq Entries
    BY <1>1, <1>2, <1>3 DEF IInv, TypeOK
  <2>q. QED  BY <1>1, <2>1 DEF IInv, TypeOK, workerVars, taskVars
<1>6. \A v \in Workers : WorkerInv(v)'  BY <1>1, <1>4, TasksUnchanged, WorkersFrame
<1>q. QED  BY <1>1, <1>4, <1>5, <1>6, TasksUnchanged DEF IInv, workerVars

LEMMA NetworkSteps ==
  ASSUME IInv, NEW i \in AllGets, Answer(i) \/ Lose(i)
  PROVE  IInv'
<1>1. /\ UNCHANGED <<phase, validate, aborts, setter, stored, served,
                     workerVars, task, TIMEOUT_COUNTER>>
      /\ requests' = requests \ {i}
      /\ inbox' = inbox \/ \E r \in {"hit", "miss"} : inbox' = inbox \cup {<<i, r>>}
  BY DEF Answer, Lose
<1>2. i \in Entries  BY GetsFacts
<1>3. TypeOK'
  <2>1. requests' \subseteq Entries /\ inbox' \subseteq Entries \X {"hit", "miss"}
    BY <1>1, <1>2 DEF IInv, TypeOK
  <2>q. QED  BY <1>1, <2>1 DEF IInv, TypeOK, workerVars
<1>4. \A w \in Workers : WorkerInv(w)'  BY <1>1, TasksUnchanged, WorkersFrame
<1>q. QED  BY <1>1, <1>3, <1>4, TasksUnchanged DEF IInv, workerVars

-----------------------------------------------------------------------------
(***************************************************************************)
(* The tasks of the GETs.                                                  *)
(***************************************************************************)
Under == {"send", "receive"}

LEMMA TaskEffect ==
  ASSUME NEW i \in AllGets, TaskStep(i)
  PROVE  /\ UNCHANGED <<validate, aborts, setter, stored, served, workerVars>>
         /\ phase = "bench" /\ phase' \in {"bench", "failed"} /\ task[i] \in Under
         /\ \E s \in {"receive", "timeout", "done", "panicked"} :
              /\ task' = [task EXCEPT ![i] = s]
              /\ TIMEOUT_COUNTER' = IF s = "timeout" THEN TIMEOUT_COUNTER + 1
                                    ELSE TIMEOUT_COUNTER
         /\ requests' \in {requests, requests \cup {i}}
         /\ inbox' \subseteq inbox
<1>1. CASE SendGet(i)  BY <1>1 DEF SendGet, TaskGoto, Under
<1>2. CASE SendTimeout(i)  BY <1>2 DEF SendTimeout, TaskGoto, Under
<1>3. CASE Receive(i)  BY <1>3 DEF Receive, TaskGoto, Under
<1>4. CASE ReceiveTimeout(i)  BY <1>4 DEF ReceiveTimeout, TaskGoto, Under
<1>q. QED  BY <1>1, <1>2, <1>3, <1>4 DEF TaskStep

LEMMA TaskSteps ==
  ASSUME IInv, NEW i \in AllGets, TaskStep(i)
  PROVE  IInv'
<1>0. /\ UNCHANGED <<validate, aborts, setter, stored, served, workerVars>>
      /\ phase = "bench" /\ phase' \in {"bench", "failed"} /\ task[i] \in Under
      /\ requests' \in {requests, requests \cup {i}} /\ inbox' \subseteq inbox
  BY TaskEffect
<1>1. PICK s \in {"receive", "timeout", "done", "panicked"} :
         /\ task' = [task EXCEPT ![i] = s]
         /\ TIMEOUT_COUNTER' = IF s = "timeout" THEN TIMEOUT_COUNTER + 1
                               ELSE TIMEOUT_COUNTER
  BY TaskEffect
<1>2. i \in Entries /\ AllGets \subseteq Entries  BY GetsFacts
<1>3. task \in [Entries -> {"none", "send", "receive", "done", "timeout", "panicked"}]
      /\ TIMEOUT_COUNTER \in Nat
  BY DEF IInv, TypeOK
<1>4. TypeOK'
  <2>1. task' \in [Entries -> {"none", "send", "receive", "done", "timeout", "panicked"}]
    BY <1>1, <1>2, <1>3
  <2>2. TIMEOUT_COUNTER' \in Nat  BY <1>1, <1>3
  <2>3. requests' \subseteq Entries  BY <1>0, <1>2 DEF IInv, TypeOK
  <2>4. inbox' \subseteq Entries \X {"hit", "miss"}  BY <1>0 DEF IInv, TypeOK
  <2>q. QED  BY <1>0, <2>1, <2>2, <2>3, <2>4 DEF IInv, TypeOK, workerVars
<1>5. \A w \in Workers : WorkerInv(w)'
  <2>1. ASSUME NEW w \in Workers  PROVE TasksKept(w)
    <3> SUFFICES ASSUME NEW j \in Gets[w]
                 PROVE  /\ task'[j] = "none" <=> task[j] = "none"
                        /\ task'[j] \in Under => task[j] \in Under
      BY DEF TasksKept, Under
    <3>1. j \in Entries  BY GetsFacts
    <3>2. CASE j = i  BY <1>0, <1>1, <1>2, <1>3, <3>2 DEF Under
    <3>3. CASE j # i  BY <1>1, <1>3, <3>1, <3>3
    <3>q. QED  BY <3>2, <3>3
  <2>q. QED  BY <1>0, <2>1, WorkersFrame
<1>6. TIMEOUT_COUNTER' = Cardinality(TimedOut')
  <2>1. TIMEOUT_COUNTER = Cardinality(TimedOut)  BY DEF IInv
  <2>2. i \notin TimedOut  BY <1>0 DEF TimedOut, Under
  <2>3. CASE s = "timeout"
    <3>1. TimedOut' = TimedOut \cup {i}
      BY <1>1, <1>2, <1>3, <2>3 DEF TimedOut
    <3>2. IsFiniteSet(TimedOut)  BY GetsFinite DEF TimedOut
    <3>3. Cardinality(TimedOut') = Cardinality(TimedOut) + 1
      BY <2>2, <3>1, <3>2, FS_AddElement
    <3>q. QED  BY <1>1, <2>1, <2>3, <3>3
  <2>4. CASE s # "timeout"
    <3>1. TimedOut' = TimedOut
      BY <1>0, <1>1, <1>2, <1>3, <2>4 DEF TimedOut, Under
    <3>q. QED  BY <1>1, <2>1, <2>4, <3>1
  <2>q. QED  BY <2>3, <2>4
<1>7. phase' # "report"  BY <1>0
<1>q. QED  BY <1>4, <1>5, <1>6, <1>7 DEF IInv

-----------------------------------------------------------------------------
(***************************************************************************)
(* The steps of a worker.                                                  *)
(***************************************************************************)

\* A step of worker w that touches no other worker.
LEMMA OwnWorker ==
  ASSUME IInv, NEW w \in Workers, TypeOK', WorkerInv(w)',
         phase' = "bench", TIMEOUT_COUNTER' = TIMEOUT_COUNTER, TimedOut' = TimedOut,
         served \subseteq served',
         \A v \in Workers : v # w =>
           /\ channel'[v] = channel[v] /\ handles'[v] = handles[v]
           /\ pos'[v] = pos[v] /\ wpc'[v] = wpc[v] /\ TasksKept(v)
  PROVE  IInv'
<1>1. ASSUME NEW v \in Workers  PROVE WorkerInv(v)'
  <2>1. CASE v = w  BY <2>1
  <2>2. CASE v # w  BY <2>2, WorkerFrame DEF IInv
  <2>q. QED  BY <2>1, <2>2
<1>q. QED  BY <1>1 DEF IInv

\* The variables that the steps of a worker change, typed.
LEMMA WorkerTypes ==
  ASSUME TypeOK
  PROVE  /\ wpc \in [Workers -> {"loop", "await", "wait", "done"}]
         /\ pos \in [Workers -> 0 .. Share]
         /\ handles \in [Workers -> Seq(AllGets)]
         /\ channel \in [Workers -> Seq(AllGets)]
         /\ task \in [Entries -> {"none", "send", "receive", "done", "timeout", "panicked"}]
BY DEF TypeOK

LEMMA QueueAppend ==
  ASSUME NEW S, NEW c \in Seq(S), NEW h \in Seq(S), NEW i \in S
  PROVE  /\ c \o Append(h, i) = Append(c \o h, i)
         /\ Append(h, i) \in Seq(S)
         /\ Len(Append(c \o h, i)) = Len(c \o h) + 1
         /\ \A a \in 1 .. Len(c \o h) : Append(c \o h, i)[a] = (c \o h)[a]
         /\ Append(c \o h, i)[Len(c \o h) + 1] = i
OBVIOUS

LEMMA QueueMove ==
  ASSUME NEW S, NEW c \in Seq(S), NEW h \in Seq(S), h # <<>>
  PROVE  /\ Head(h) \in S /\ Tail(h) \in Seq(S)
         /\ Append(c, Head(h)) \in Seq(S) /\ Len(Append(c, Head(h))) = Len(c) + 1
         /\ Append(c, Head(h)) \o Tail(h) = c \o h
OBVIOUS

LEMMA QueueTail ==
  ASSUME NEW S, NEW c \in Seq(S), NEW h \in Seq(S), c # <<>>
  PROVE  /\ Head(c) \in S /\ Tail(c) \in Seq(S) /\ Len(Tail(c)) = Len(c) - 1
         /\ Len(c \o h) \in Nat /\ Len(c \o h) > 0
         /\ Len(Tail(c) \o h) = Len(c \o h) - 1
         /\ (c \o h)[1] = Head(c)
         /\ \A a \in 1 .. Len(c \o h) - 1 : (Tail(c) \o h)[a] = (c \o h)[a + 1]
OBVIOUS

\* A SET has been answered before the next command is taken; a GET joins the queue
\* behind all earlier ones.
LEMMA NextCommandStep ==
  ASSUME IInv, NEW w \in Workers, NextCommand(w)
  PROVE  IInv'
<1> DEFINE i == Command(w, pos[w])
<1>0. TypeOK /\ WorkerInv(w)  BY DEF IInv
<1>1. /\ phase = "bench" /\ wpc[w] = "loop" /\ pos[w] < Share
      /\ pos' = [pos EXCEPT ![w] = @ + 1]
      /\ UNCHANGED <<phase, validate, aborts, setter, stored, served, wpc, channel, open,
                     taskVars>>
  BY DEF NextCommand, Running
<1>2. task' = task /\ TIMEOUT_COUNTER' = TIMEOUT_COUNTER /\ wpc' = wpc /\ channel' = channel
  BY <1>1 DEF taskVars
<1>3. /\ pos[w] \in 0 .. Share - 1 /\ Share \in Nat
      /\ pos' \in [Workers -> 0 .. Share] /\ pos'[w] = pos[w] + 1
      /\ \A v \in Workers : v # w => pos'[v] = pos[v]
  BY <1>0, <1>1, WorkerTypes, CommandFacts
<1>4. i \in Entries /\ i \in Nat  BY <1>3, CommandFacts
<1>6. \A v \in Workers : TasksKept(v)  BY <1>2, TasksUnchanged
<1>7. Command(w, pos'[w]) \in Nat /\ i < Command(w, pos'[w])
  <2>1. pos[w] \in 0 .. Share /\ pos'[w] \in 0 .. Share /\ pos[w] < pos'[w]  BY <1>3
  <2>q. QED  BY <2>1, CommandFacts
<1>8. WorkerStage(w)'
  BY <1>0, <1>1, <1>2, <1>3 DEF WorkerInv, WorkerStage, Gets, Commands
<1>9. CASE IsTcp(i)
  <2>1. i \in served /\ handles' = handles
    BY <1>9 DEF NextCommand
  <2>2. Queue(w)' = Queue(w)  BY <1>2, <2>1 DEF Queue
  <2>3. QueueOrder(w)'
    <3>1. \A a \in 1 .. Len(Queue(w)) : Queue(w)[a] \in Gets[w] /\ Queue(w)[a] < i
      BY <1>0 DEF WorkerInv, QueueOrder
    <3>2. \A a \in 1 .. Len(Queue(w)) : Queue(w)[a] < Command(w, pos'[w])
      <4> SUFFICES ASSUME NEW a \in 1 .. Len(Queue(w))
                   PROVE  Queue(w)[a] < Command(w, pos'[w])
        OBVIOUS
      <4>1. Queue(w)[a] \in Entries  BY <3>1, GetsFacts
      <4>2. Queue(w)[a] \in Int  BY <4>1 DEF Entries
      <4>q. QED  BY <1>4, <1>7, <3>1, <4>2
    <3>q. QED  BY <1>0, <1>2, <2>2, <3>2 DEF WorkerInv, QueueOrder, Command
  <2>4. Taken(w)'
    <3> SUFFICES ASSUME NEW n \in 0 .. pos'[w] - 1
                 PROVE  IF IsTcp(Command(w, n)) THEN Command(w, n) \in served'
                        ELSE \/ task[Command(w, n)] # "none"
                             \/ \E a \in 1 .. Len(Queue(w)) : Queue(w)[a] = Command(w, n)
      BY <1>2, <2>2 DEF Taken
    <3>1. CASE n = pos[w]  BY <1>1, <1>9, <2>1, <3>1
    <3>2. CASE n \in 0 .. pos[w] - 1  BY <1>0, <1>1, <2>1, <3>2 DEF WorkerInv, Taken
    <3>q. QED  BY <1>3, <3>1, <3>2
  <2>5. TypeOK'
    <3>q. QED  BY <1>0, <1>1, <1>2, <1>3, <2>1 DEF TypeOK, taskVars
  <2>6. WorkerInv(w)'  BY <1>8, <2>3, <2>4 DEF WorkerInv
  <2>q. QED  BY <1>1, <1>2, <1>3, <1>6, <2>1, <2>5, <2>6, OwnWorker, TasksUnchanged
<1>10. CASE ~IsTcp(i)
  <2>1. handles' = [handles EXCEPT ![w] = Append(@, i)]
    BY <1>10 DEF NextCommand
  <2>2. i \in Gets[w] /\ i \in AllGets  BY <1>3, <1>10, GetsFacts
  <2>3. /\ handles \in [Workers -> Seq(AllGets)] /\ channel \in [Workers -> Seq(AllGets)]
    BY <1>0, WorkerTypes
  <2>4. /\ handles' \in [Workers -> Seq(AllGets)] /\ handles'[w] = Append(handles[w], i)
        /\ \A v \in Workers : v # w => handles'[v] = handles[v]
    BY <2>1, <2>2, <2>3
  <2>5. /\ Queue(w)' = Append(Queue(w), i) /\ Len(Queue(w)) \in Nat
        /\ Len(Append(Queue(w), i)) = Len(Queue(w)) + 1
        /\ \A a \in 1 .. Len(Queue(w)) : Append(Queue(w), i)[a] = Queue(w)[a]
        /\ Append(Queue(w), i)[Len(Queue(w)) + 1] = i
    BY <1>0, <1>2, <2>2, <2>3, <2>4, QueueAppend, QueueIndex DEF Queue
  <2>6. PICK q : q = Append(Queue(w), i)  OBVIOUS
  <2>7. PICK p : p = Queue(w)  OBVIOUS
  <2>8. /\ Len(p) \in Nat /\ Len(q) = Len(p) + 1 /\ q[Len(p) + 1] = i
        /\ \A a \in 1 .. Len(p) : q[a] = p[a]
        /\ Queue(w)' = q
    BY <2>5, <2>6, <2>7
  <2>9. /\ \A a \in 1 .. Len(p) : p[a] \in Gets[w] /\ p[a] < i /\ task[p[a]] = "none"
        /\ \A a, b \in 1 .. Len(p) : a < b => p[a] < p[b]
    BY <1>0, <2>7 DEF WorkerInv, QueueOrder
  <2>10. \A a \in 1 .. Len(p) : p[a] \in Int
    <3>1. \A a \in 1 .. Len(p) : p[a] \in Entries  BY <2>9, GetsFacts
    <3>q. QED  BY <3>1 DEF Entries
  <2>11. task[i] = "none"  BY <1>0, <1>1, <2>2 DEF WorkerInv, WorkerStage
  <2>12. QueueOrder(w)'
    <3>1. ASSUME NEW a \in 1 .. Len(q)
          PROVE  q[a] \in Gets[w] /\ q[a] < Command(w, pos'[w]) /\ task[q[a]] = "none"
      <4>1. CASE a = Len(p) + 1  BY <1>7, <2>2, <2>8, <2>11, <4>1
      <4>2. CASE a \in 1 .. Len(p)
        BY <1>4, <1>7, <2>8, <2>9, <2>10, <4>2
      <4>q. QED  BY <2>8, <4>1, <4>2
    <3>2. ASSUME NEW a \in 1 .. Len(q), NEW b \in 1 .. Len(q), a < b  PROVE q[a] < q[b]
      <4>1. a \in 1 .. Len(p)  BY <2>8, <3>2
      <4>2. CASE b = Len(p) + 1  BY <2>8, <2>9, <4>1, <4>2
      <4>3. CASE b \in 1 .. Len(p)  BY <2>8, <2>9, <3>2, <4>1, <4>3
      <4>q. QED  BY <2>8, <4>2, <4>3
    <3>3. Command(w, pos[w])' = Command(w, pos'[w])  BY DEF Command
    <3>q. QED  BY <1>2, <2>8, <3>1, <3>2, <3>3 DEF QueueOrder
  <2>13. Taken(w)'
    <3> SUFFICES ASSUME NEW n \in 0 .. pos'[w] - 1
                 PROVE  IF IsTcp(Command(w, n)) THEN Command(w, n) \in served
                        ELSE \/ task[Command(w, n)] # "none"
                             \/ \E a \in 1 .. Len(q) : q[a] = Command(w, n)
      BY <1>1, <1>2, <2>1, <2>8 DEF Taken
    <3>1. CASE n = pos[w]
      <4>1. Len(p) + 1 \in 1 .. Len(q) /\ q[Len(p) + 1] = Command(w, n)  BY <2>8, <3>1
      <4>q. QED  BY <1>10, <3>1, <4>1
    <3>2. CASE n \in 0 .. pos[w] - 1
      <4>1. IF IsTcp(Command(w, n)) THEN Command(w, n) \in served
            ELSE \/ task[Command(w, n)] # "none"
                 \/ \E a \in 1 .. Len(p) : p[a] = Command(w, n)
        BY <1>0, <2>7, <3>2 DEF WorkerInv, Taken
      <4>2. \A a \in 1 .. Len(p) : a \in 1 .. Len(q) /\ q[a] = p[a]  BY <2>8
      <4>q. QED  BY <4>1, <4>2
    <3>q. QED  BY <1>3, <3>1, <3>2
  <2>14. TypeOK'  BY <1>0, <1>1, <1>2, <1>3, <2>1, <2>4 DEF TypeOK, taskVars
  <2>15. WorkerInv(w)'  BY <1>8, <2>12, <2>13 DEF WorkerInv
  <2>q. QED  BY <1>1, <1>2, <1>3, <1>6, <2>1, <2>4, <2>14, <2>15, OwnWorker, TasksUnchanged
<1>q. QED  BY <1>9, <1>10

\* The positions of a worker: loop ended, sender dropped, tracker waited for.
LEMMA PositionSteps ==
  ASSUME IInv, NEW w \in Workers, LoopDone(w) \/ DropTx(w) \/ TrackerWait(w)
  PROVE  IInv'
<1>0. TypeOK /\ WorkerInv(w)  BY DEF IInv
<1>1. /\ phase = "bench"
      /\ UNCHANGED <<phase, validate, aborts, setter, stored, served,
                     pos, handles, channel, taskVars>>
      /\ open' \subseteq open
      /\ \E l \in {"await", "wait", "done"} : wpc' = [wpc EXCEPT ![w] = l]
  BY DEF LoopDone, DropTx, TrackerWait, Running
<1>2. task' = task /\ TIMEOUT_COUNTER' = TIMEOUT_COUNTER  BY <1>1 DEF taskVars
<1>3. /\ wpc' \in [Workers -> {"loop", "await", "wait", "done"}]
      /\ \A v \in Workers : v # w => wpc'[v] = wpc[v]
  BY <1>0, <1>1, WorkerTypes
<1>4. TypeOK'  BY <1>0, <1>1, <1>3 DEF TypeOK, taskVars
<1>5. QueueOrder(w)' /\ Taken(w)'
  <2>1. Queue(w)' = Queue(w) /\ Command(w, pos[w])' = Command(w, pos[w])
    BY <1>1 DEF Queue, Command
  <2>2. QueueOrder(w)'  BY <1>0, <1>2, <2>1 DEF WorkerInv, QueueOrder
  <2>3. Taken(w)'  BY <1>0, <1>1, <1>2, <2>1 DEF WorkerInv, Taken, Command
  <2>q. QED  BY <2>2, <2>3
<1>6. WorkerStage(w)'
  <2>0. wpc \in [Workers -> {"loop", "await", "wait", "done"}]  BY <1>0, WorkerTypes
  <2>1. CASE LoopDone(w)
    <3>1. wpc'[w] = "await" /\ pos[w] = Share  BY <2>0, <2>1 DEF LoopDone
    <3>q. QED  BY <1>1, <3>1 DEF WorkerStage
  <2>2. CASE DropTx(w)
    <3>1. wpc'[w] = "wait" /\ wpc[w] = "await" /\ handles[w] = <<>>
      BY <2>0, <2>2 DEF DropTx, Running
    <3>q. QED  BY <1>0, <1>1, <3>1 DEF WorkerInv, WorkerStage
  <2>3. CASE TrackerWait(w)
    <3>1. /\ wpc'[w] = "done" /\ wpc[w] = "wait" /\ channel[w] = <<>>
          /\ \A i \in Gets[w] : task[i] \notin {"send", "receive"}
      BY <2>0, <2>3 DEF TrackerWait, Running
    <3>q. QED  BY <1>0, <1>1, <1>2, <3>1 DEF WorkerInv, WorkerStage
  <2>q. QED  BY <2>1, <2>2, <2>3
<1>7. \A v \in Workers : TasksKept(v)  BY <1>2, TasksUnchanged
<1>q. QED
  BY <1>1, <1>2, <1>3, <1>4, <1>5, <1>6, <1>7, OwnWorker, TasksUnchanged DEF WorkerInv

\* Awaiting a send future moves the first GET into the channel; the queue as a
\* whole stays as it is.
LEMMA AwaitSendStep ==
  ASSUME IInv, NEW w \in Workers, AwaitSend(w)
  PROVE  IInv'
<1>0. TypeOK /\ WorkerInv(w)  BY DEF IInv
<1>1. /\ phase = "bench" /\ wpc[w] = "await" /\ handles[w] # <<>>
      /\ Len(channel[w]) < pipeline
      /\ channel' = [channel EXCEPT ![w] = Append(@, Head(handles[w]))]
      /\ handles' = [handles EXCEPT ![w] = Tail(@)]
      /\ UNCHANGED <<phase, validate, aborts, setter, stored, served, wpc, pos, open, taskVars>>
  BY DEF AwaitSend, Running
<1>2. task' = task /\ TIMEOUT_COUNTER' = TIMEOUT_COUNTER  BY <1>1 DEF taskVars
<1>3. handles \in [Workers -> Seq(AllGets)] /\ channel \in [Workers -> Seq(AllGets)]
  BY <1>0, WorkerTypes
<1>4. /\ channel'[w] = Append(channel[w], Head(handles[w])) /\ handles'[w] = Tail(handles[w])
      /\ \A v \in Workers : v # w => channel'[v] = channel[v] /\ handles'[v] = handles[v]
  BY <1>1, <1>3
<1>5. /\ Head(handles[w]) \in AllGets /\ Tail(handles[w]) \in Seq(AllGets)
      /\ Append(channel[w], Head(handles[w])) \in Seq(AllGets)
      /\ Len(Append(channel[w], Head(handles[w]))) = Len(channel[w]) + 1
      /\ Append(channel[w], Head(handles[w])) \o Tail(handles[w]) = channel[w] \o handles[w]
  BY <1>1, <1>3, QueueMove
<1>6. TypeOK'
  <2>1. handles' \in [Workers -> Seq(AllGets)]  BY <1>1, <1>3, <1>5
  <2>2. channel' \in [Workers -> Seq(AllGets)]  BY <1>1, <1>3, <1>5
  <2>3. \A v \in Workers : Len(channel'[v]) <= pipeline
    <3> SUFFICES ASSUME NEW v \in Workers  PROVE Len(channel'[v]) <= pipeline  OBVIOUS
    <3>1. CASE v = w
      <4>1. Len(channel[w]) \in Nat /\ pipeline \in Nat  BY <1>3, BenchmarkAssumption
      <4>2. Len(channel'[w]) = Len(channel[w]) + 1  BY <1>4, <1>5
      <4>q. QED  BY <1>1, <3>1, <4>1, <4>2
    <3>2. CASE v # w  BY <1>0, <1>4, <3>2 DEF TypeOK
    <3>q. QED  BY <3>1, <3>2
  <2>q. QED  BY <1>0, <1>1, <2>1, <2>2, <2>3 DEF TypeOK, taskVars
<1>7. QueueOrder(w)' /\ Taken(w)'
  <2>1. Queue(w)' = Queue(w)  BY <1>4, <1>5 DEF Queue
  <2>2. Command(w, pos[w])' = Command(w, pos[w])  BY <1>1 DEF Command
  <2>3. QueueOrder(w)'  BY <1>0, <1>2, <2>1, <2>2 DEF WorkerInv, QueueOrder
  <2>4. Taken(w)'  BY <1>0, <1>1, <1>2, <2>1 DEF WorkerInv, Taken, Command
  <2>q. QED  BY <2>3, <2>4
<1>8. WorkerStage(w)'
  <2>1. wpc'[w] = "await" /\ pos' = pos  BY <1>1
  <2>2. pos[w] = Share  BY <1>0, <1>1 DEF WorkerInv, WorkerStage
  <2>q. QED  BY <2>1, <2>2 DEF WorkerStage
<1>9. \A v \in Workers : TasksKept(v)  BY <1>2, TasksUnchanged
<1>q. QED
  BY <1>1, <1>2, <1>4, <1>6, <1>7, <1>8, <1>9, OwnWorker, TasksUnchanged DEF WorkerInv

\* socket_task takes the first GET of the queue; its task is new.
LEMMA SpawnTaskStep ==
  ASSUME IInv, NEW w \in Workers, SpawnTask(w)
  PROVE  IInv'
<1>0. TypeOK /\ WorkerInv(w)  BY DEF IInv
<1>1. /\ phase = "bench" /\ channel[w] # <<>>
      /\ task' = [task EXCEPT ![Head(channel[w])] = "send"]
      /\ channel' = [channel EXCEPT ![w] = Tail(@)]
      /\ UNCHANGED <<phase, validate, aborts, setter, stored, served,
                     wpc, pos, handles, open, requests,
                     inbox, TIMEOUT_COUNTER>>
  BY DEF SpawnTask
<1>2. /\ handles \in [Workers -> Seq(AllGets)] /\ channel \in [Workers -> Seq(AllGets)]
      /\ task \in [Entries -> {"none", "send", "receive", "done", "timeout", "panicked"}]
  BY <1>0, WorkerTypes
<1>3. /\ channel'[w] = Tail(channel[w])
      /\ \A v \in Workers : v # w => channel'[v] = channel[v]
  BY <1>1, <1>2
<1>4. PICK p : p = Queue(w)  OBVIOUS
<1>5. PICK q : q = Tail(channel[w]) \o handles[w]  OBVIOUS
<1>6. PICK i : i = Head(channel[w])  OBVIOUS
<1>7. /\ i \in AllGets /\ Tail(channel[w]) \in Seq(AllGets)
      /\ Len(Tail(channel[w])) = Len(channel[w]) - 1
      /\ Len(p) \in Nat /\ Len(p) > 0 /\ Len(q) = Len(p) - 1 /\ p[1] = i
      /\ \A a \in 1 .. Len(p) - 1 : q[a] = p[a + 1]
  BY <1>1, <1>2, <1>4, <1>5, <1>6, QueueTail DEF Queue
<1>8. Queue(w)' = q  BY <1>1, <1>3, <1>5 DEF Queue
<1>9. /\ \A a \in 1 .. Len(p) :
           p[a] \in Gets[w] /\ p[a] < Command(w, pos[w]) /\ task[p[a]] = "none"
      /\ \A a, b \in 1 .. Len(p) : a < b => p[a] < p[b]
  BY <1>0, <1>4 DEF WorkerInv, QueueOrder
<1>10. i \in Gets[w] /\ task[i] = "none"
  <2>1. 1 \in 1 .. Len(p)  BY <1>7
  <2>q. QED  BY <1>7, <1>9, <2>1
<1>11. /\ i \in Entries /\ \A j \in Entries : task'[j] = IF j = i THEN "send" ELSE task[j]
       /\ task' \in [Entries -> {"none", "send", "receive", "done", "timeout", "panicked"}]
  BY <1>1, <1>2, <1>6, <1>7, GetsFacts
<1>12. \A a \in 1 .. Len(p) : p[a] \in Entries /\ p[a] \in Int
  <2>1. \A a \in 1 .. Len(p) : p[a] \in Entries  BY <1>9, GetsFacts
  <2>q. QED  BY <2>1 DEF Entries
<1>13. TypeOK'
  <2>1. channel' \in [Workers -> Seq(AllGets)]  BY <1>1, <1>2, <1>7
  <2>2. \A v \in Workers : Len(channel'[v]) <= pipeline
    <3> SUFFICES ASSUME NEW v \in Workers  PROVE Len(channel'[v]) <= pipeline  OBVIOUS
    <3>1. CASE v = w
      <4>1. Len(channel[w]) \in Nat /\ pipeline \in Nat  BY <1>2, BenchmarkAssumption
      <4>2. Len(channel[w]) <= pipeline  BY <1>0 DEF TypeOK
      <4>3. Len(channel'[w]) = Len(channel[w]) - 1  BY <1>3, <1>7
      <4>q. QED  BY <3>1, <4>1, <4>2, <4>3
    <3>2. CASE v # w  BY <1>0, <1>3, <3>2 DEF TypeOK
    <3>q. QED  BY <3>1, <3>2
  <2>q. QED  BY <1>0, <1>1, <1>11, <2>1, <2>2 DEF TypeOK
<1>14. QueueOrder(w)'
  <2>1. ASSUME NEW a \in 1 .. Len(q)
        PROVE  q[a] \in Gets[w] /\ q[a] < Command(w, pos[w]) /\ task'[q[a]] = "none"
    <3>1. a + 1 \in 1 .. Len(p) /\ 1 \in 1 .. Len(p) /\ 1 < a + 1 /\ q[a] = p[a + 1]
      BY <1>7
    <3>2. p[a + 1] # i  BY <1>7, <1>9, <1>12, <3>1
    <3>q. QED  BY <1>9, <1>11, <1>12, <3>1, <3>2
  <2>2. ASSUME NEW a \in 1 .. Len(q), NEW b \in 1 .. Len(q), a < b  PROVE q[a] < q[b]
    <3>1. /\ a + 1 \in 1 .. Len(p) /\ b + 1 \in 1 .. Len(p) /\ a + 1 < b + 1
          /\ q[a] = p[a + 1] /\ q[b] = p[b + 1]
      BY <1>7, <2>2
    <3>q. QED  BY <1>9, <3>1
  <2>3. Command(w, pos[w])' = Command(w, pos[w])  BY <1>1 DEF Command
  <2>q. QED  BY <1>8, <2>1, <2>2, <2>3 DEF QueueOrder
<1>15. Taken(w)'
  <2> SUFFICES ASSUME NEW n \in 0 .. pos[w] - 1
               PROVE  IF IsTcp(Command(w, n)) THEN Command(w, n) \in served
                      ELSE \/ task'[Command(w, n)] # "none"
                           \/ \E a \in 1 .. Len(q) : q[a] = Command(w, n)
    BY <1>1, <1>8 DEF Taken
  <2>1. CASE IsTcp(Command(w, n))  BY <1>0, <2>1 DEF WorkerInv, Taken
  <2>2. CASE ~IsTcp(Command(w, n))
    <3>1. Command(w, n) \in Entries  BY <1>0, <2>2, TakenIsGet, GetsFacts
    <3>2. \/ task[Command(w, n)] # "none"
          \/ \E a \in 1 .. Len(p) : p[a] = Command(w, n)
      BY <1>0, <1>4, <2>2 DEF WorkerInv, Taken
    <3>3. CASE task[Command(w, n)] # "none"  BY <1>11, <2>2, <3>1, <3>3
    <3>4. ASSUME NEW a \in 1 .. Len(p), p[a] = Command(w, n)
          PROVE  \/ task'[Command(w, n)] # "none"
                 \/ \E b \in 1 .. Len(q) : q[b] = Command(w, n)
      <4>1. CASE a = 1  BY <1>7, <1>11, <3>1, <3>4, <4>1
      <4>2. CASE a # 1
        <5>1. a - 1 \in 1 .. Len(q) /\ a - 1 \in 1 .. Len(p) - 1 /\ (a - 1) + 1 = a
          BY <1>7, <4>2
        <5>2. q[a - 1] = p[a]  BY <1>7, <5>1
        <5>q. QED  BY <3>4, <5>1, <5>2
      <4>q. QED  BY <4>1, <4>2
    <3>q. QED  BY <2>2, <3>2, <3>3, <3>4
  <2>q. QED  BY <2>1, <2>2
<1>16. WorkerStage(w)'
  <2>1. wpc[w] \notin {"loop", "done"}  BY <1>0, <1>1 DEF WorkerInv, WorkerStage
  <2>q. QED  BY <1>0, <1>1, <2>1 DEF WorkerInv, WorkerStage
<1>17. ASSUME NEW v \in Workers, v # w  PROVE TasksKept(v)
  <2>1. \A j \in Gets[v] : j \in Entries /\ j # i  BY <1>10, <1>17, GetsFacts
  <2>2. \A j \in Gets[v] : task'[j] = task[j]  BY <1>11, <2>1
  <2>q. QED  BY <2>2 DEF TasksKept
<1>18. TimedOut' = TimedOut  BY <1>10, <1>11, GetsFacts DEF TimedOut
<1>q. QED
  BY <1>1, <1>3, <1>13, <1>14, <1>15, <1>16, <1>17, <1>18, OwnWorker DEF WorkerInv

-----------------------------------------------------------------------------
(***************************************************************************)
(* Theorems.                                                               *)
(***************************************************************************)
LEMMA InitInv == Init => IInv
<1> SUFFICES ASSUME Init  PROVE IInv  OBVIOUS
<1>0. Share \in Nat /\ pipeline \in Nat  BY CommandFacts, BenchmarkAssumption
<1>1. TypeOK
  <2>1. /\ stored \subseteq Keys /\ served \subseteq Entries
        /\ phase \in {"set", "bench", "report", "failed"}
    BY DEF Init
  <2>2. setter \in [Keys -> {"spawned", "permit", "locked", "written", "done", "failed",
                             "skipped"}]
    BY DEF Init
  <2>3. validate \in BOOLEAN /\ aborts \in BOOLEAN  BY DEF Init
  <2>4. /\ handles \in [Workers -> Seq(AllGets)] /\ channel \in [Workers -> Seq(AllGets)]
        /\ \A w \in Workers : Len(channel[w]) <= pipeline
    BY <1>0 DEF Init
  <2>5. /\ wpc \in [Workers -> {"loop", "await", "wait", "done"}]
        /\ pos \in [Workers -> 0 .. Share]
        /\ task \in [Entries -> {"none", "send", "receive", "done", "timeout", "panicked"}]
    BY <1>0 DEF Init
  <2>6. /\ open \subseteq Workers /\ requests \subseteq Entries
        /\ inbox \subseteq Entries \X {"hit", "miss"} /\ TIMEOUT_COUNTER \in Nat
    BY DEF Init
  <2>q. QED  BY <2>1, <2>2, <2>3, <2>4, <2>5, <2>6 DEF TypeOK
<1>2. ASSUME NEW w \in Workers  PROVE WorkerInv(w)
  <2>1. channel[w] = <<>> /\ handles[w] = <<>> /\ pos[w] = 0 /\ wpc[w] = "loop"
    BY DEF Init
  <2>2. Len(Queue(w)) = 0  BY <2>1 DEF Queue
  <2>3. \A i \in Gets[w] : task[i] = "none"  BY GetsFacts DEF Init
  <2>4. QueueOrder(w)  BY <2>2 DEF QueueOrder
  <2>5. Taken(w)  BY <2>1 DEF Taken
  <2>6. WorkerStage(w)  BY <2>1, <2>3 DEF WorkerStage
  <2>q. QED  BY <2>4, <2>5, <2>6 DEF WorkerInv
<1>3. TIMEOUT_COUNTER = Cardinality(TimedOut)
  <2>1. TimedOut = {}  BY GetsFacts DEF Init, TimedOut
  <2>q. QED  BY <2>1, FS_EmptySet DEF Init
<1>4. phase # "report"  BY DEF Init
<1>q. QED  BY <1>1, <1>2, <1>3, <1>4 DEF IInv

LEMMA NextInv == IInv /\ [Next]_vars => IInv'
<1> SUFFICES ASSUME IInv, [Next]_vars  PROVE IInv'  OBVIOUS
<1>1. ASSUME NEW k \in Keys, SetterStep(k) \/ SetterAnswer(k)  PROVE IInv'
  BY <1>1, SetterSteps
<1>2. CASE JoinAll \/ Report  BY <1>2, MainSteps
<1>3. ASSUME NEW w \in Workers, WorkerStep(w) \/ SetAnswer(w)  PROVE IInv'
  BY <1>3, NextCommandStep, MainSteps, PositionSteps, AwaitSendStep, SpawnTaskStep,
     ServeSetStep DEF WorkerStep, SetAnswer
<1>4. ASSUME NEW i \in AllGets, TaskStep(i) \/ Answer(i) \/ Lose(i)  PROVE IInv'
  BY <1>4, TaskSteps, NetworkSteps
<1>5. CASE UNCHANGED vars
  <2>1. /\ UNCHANGED workerVars /\ served' = served /\ task' = task /\ phase' = phase
        /\ TIMEOUT_COUNTER' = TIMEOUT_COUNTER
    BY <1>5 DEF vars, workerVars
  <2>2. \A w \in Workers : WorkerInv(w)'  BY <2>1, TasksUnchanged, WorkersFrame
  <2>3. TypeOK'  BY <1>5 DEF IInv, TypeOK, vars
  <2>q. QED  BY <2>1, <2>2, <2>3, TasksUnchanged DEF IInv, workerVars
<1>q. QED  BY <1>1, <1>2, <1>3, <1>4, <1>5 DEF Next

\* The strengthened invariant holds in every state (get_values.rs
\* get_command_benchmark and socket_task, set_values.rs, main.rs run_bench).
THEOREM Invariance == Spec => []IInv
<1>q. QED  BY InitInv, NextInv, PTL DEF Spec

\* All variables keep their types; the channel of a worker never holds more
\* than pipeline commands (get_values.rs get_command_benchmark).
THEOREM TypeCorrect == Spec => []TypeOK
<1>1. IInv => TypeOK  BY DEF IInv
<1>q. QED  BY <1>1, Invariance, PTL

\* No GET of a worker is under way before the server has carried out each SET of
\* the same worker (get_values.rs get_command_benchmark: the futures are awaited
\* behind the loop).
THEOREM SetsComeFirst == Spec => []SetsBeforeGets
<1>1. IInv => SetsBeforeGets
  <2> SUFFICES ASSUME IInv, NEW w \in Workers, NEW j \in Gets[w], task[j] # "none",
                      NEW i \in Commands[w], IsTcp(i)
               PROVE  i \in served
    BY DEF SetsBeforeGets
  <2>0. WorkerInv(w) /\ TypeOK  BY DEF IInv
  <2>1. pos[w] = Share  BY <2>0 DEF WorkerInv, WorkerStage
  <2>2. PICK n \in 0 .. Share - 1 : i = Command(w, n)  BY GetsFacts
  <2>q. QED  BY <2>0, <2>1, <2>2 DEF WorkerInv, Taken
<1>q. QED  BY <1>1, Invariance, PTL

\* At the report every GET was spawned and has ended, and each time-out was
\* counted once (get_values.rs get_command_benchmark, main.rs run_bench).
THEOREM EveryGetAccounted == Spec => []AccountedAtReport
<1>1. IInv => AccountedAtReport
  <2> SUFFICES ASSUME IInv, phase = "report"
               PROVE  /\ \A i \in AllGets : task[i] \in {"done", "timeout", "panicked"}
                      /\ TIMEOUT_COUNTER = Cardinality({i \in AllGets : task[i] = "timeout"})
    BY DEF AccountedAtReport
  <2>1. ASSUME NEW i \in AllGets  PROVE task[i] \in {"done", "timeout", "panicked"}
    <3>1. PICK w \in Workers : i \in Gets[w]  BY GetsFacts
    <3>2. WorkerInv(w) /\ TypeOK /\ wpc[w] = "done"  BY DEF IInv
    <3>3. pos[w] = Share /\ channel[w] = <<>> /\ handles[w] = <<>>
          /\ task[i] \notin {"send", "receive"}
      BY <3>1, <3>2 DEF WorkerInv, WorkerStage
    <3>4. Len(Queue(w)) = 0  BY <3>3 DEF Queue
    <3>5. ~IsTcp(i) /\ \E n \in 0 .. Share - 1 : i = Command(w, n)  BY <3>1, GetsFacts
    <3>6. task[i] # "none"  BY <3>2, <3>3, <3>4, <3>5 DEF WorkerInv, Taken
    <3>7. task[i] \in {"none", "send", "receive", "done", "timeout", "panicked"}
      BY <3>2, WorkerTypes, GetsFacts
    <3>q. QED  BY <3>3, <3>6, <3>7
  <2>2. TIMEOUT_COUNTER = Cardinality({i \in AllGets : task[i] = "timeout"})
    BY DEF IInv, TimedOut
  <2>q. QED  BY <2>1, <2>2
<1>q. QED  BY <1>1, Invariance, PTL

=============================================================================
