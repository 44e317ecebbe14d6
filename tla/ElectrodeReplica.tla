-------------------------- MODULE ElectrodeReplica --------------------------
(***************************************************************************)
(* The fast path of a follower in samples/electrode: the XDP program       *)
(* answers PrepareMessages of the leader before the replica's user-space   *)
(* process sees them, and hands the operations to that process through the *)
(* ring buffer map_prepare_buffer.                                         *)
(*                                                                         *)
(* The program is meant for one core ("we limit our to one-core, then no   *)
(* lock is needed"), so each packet is handled in one step.  The network   *)
(* loses, repeats and reorders packets: any PrepareMessage a leader can    *)
(* have sent may arrive at any time.  The user-space process is not in the *)
(* repository; it shares map_ctr_state and the ring buffer with the        *)
(* program and receives the packets the program passes on.                 *)
(***************************************************************************)
EXTENDS Naturals, Sequences, FiniteSets

CONSTANTS
  MaxView,    \* bound: highest view number
  MaxOp,      \* bound: highest operation number
  Sizes,      \* lengths of a PrepareMessage, counted behind its type string
  Capacity,   \* records map_prepare_buffer has room for
  MaxPassed   \* bound: packets passed on and not yet read

ASSUME BoundsAssumption ==
  /\ MaxView \in Nat \ {0}
  /\ MaxOp \in Nat \ {0}
  /\ Sizes \subseteq Nat
  /\ Capacity \in Nat
  /\ MaxPassed \in Nat

\* Lengths in bytes.
FAST_PAXOS_DATA_LEN  == 12
MAX_DATA_LEN         == 64
MYPREPAREOK_TYPE_LEN == 24
PREPARE_TYPE_LEN     == 33

\* Where the data of a PrepareMessage begins: behind the Ethernet, IP and UDP
\* headers, MAGIC_LEN, a length and the type string.
payload_index == 14 + 20 + 8 + 4 + 8 + PREPARE_TYPE_LEN

Messages ==
  {m \in [view: 0 .. MaxView, batch_start: 1 .. MaxOp, last_op: 1 .. MaxOp,
          len: Sizes] : m.batch_start <= m.last_op}

VARIABLES
  state,     \* map_ctr_state: ReplicaStatus
  view,      \* map_ctr_state: view
  last_op,   \* map_ctr_state: last_op
  buffer,    \* map_prepare_buffer: the submitted records
  passed,    \* packets returned with XDP_PASS, not yet read in user space
  known,     \* operations of the view that the user-space process has
  answered,  \* highest last_op of a PrepareMessage of the view that was answered
  opnums,    \* operation numbers in the MyPrepareOKs sent in the view
  aborted    \* was a packet of the view discarded because the buffer was full?

answers == <<answered, opnums>>
replicaVars == <<state, view, last_op, buffer, passed, known, answers, aborted>>

Statuses == {"STATUS_NORMAL", "STATUS_VIEW_CHANGE", "STATUS_RECOVERING"}
Record(m) == [view |-> m.view, first |-> m.batch_start, last |-> m.last_op]
RecordsType == [view: 0 .. MaxView, first: 1 .. MaxOp, last: 1 .. MaxOp]

ReplicaTypeOK ==
  /\ state \in Statuses
  /\ view \in 0 .. MaxView
  /\ last_op \in 0 .. MaxOp
  /\ buffer \in Seq(RecordsType) /\ Len(buffer) <= Capacity
  /\ passed \subseteq Messages
  /\ known \subseteq 1 .. MaxOp
  /\ answered \in 0 .. MaxOp
  /\ opnums \subseteq {payload_index}
  /\ aborted \in BOOLEAN

ReplicaInit ==
  /\ state = "STATUS_NORMAL"
  /\ view = 0
  /\ last_op = 0
  /\ buffer = <<>>
  /\ passed = {}
  /\ known = {}
  /\ answered = 0
  /\ opnums = {}
  /\ aborted = FALSE

PassOn(m) ==
  /\ Cardinality(passed) < MaxPassed
  /\ passed' = passed \cup {m}

XDP_PASS(m) ==
  /\ PassOn(m)
  /\ UNCHANGED <<state, view, last_op, buffer, known, answers, aborted>>

XDP_DROP == UNCHANGED replicaVars

-----------------------------------------------------------------------------
(***************************************************************************)
(* prepare_fast_reply rewrites the packet in place into a MyPrepareOK and  *)
(* sends it back.  Outcomes by length: passed on untouched; a slice index  *)
(* out of range, which ends the program; passed on after it has been       *)
(* overwritten, so that user space cannot read it; sent.  The reply        *)
(* carries the view, my_idx and, where the comments say last_op,           *)
(* payload_index as its operation number.                                  *)
(***************************************************************************)
RewrittenLen == 4 + 8 + MYPREPAREOK_TYPE_LEN + FAST_PAXOS_DATA_LEN

MaxOf(a, b) == IF a < b THEN b ELSE a

TooShort(m)   == m.len <= FAST_PAXOS_DATA_LEN + 8
ReplySent(m)  == m.len >= RewrittenLen + 3 * 8 + 4

prepare_fast_reply(m) ==
  \/ TooShort(m) /\ PassOn(m) /\ UNCHANGED <<answers>>
  \/ ~TooShort(m) /\ ~ReplySent(m) /\ UNCHANGED <<passed, answers>>
  \/ /\ ReplySent(m)
     /\ answered' = MaxOf(answered, m.last_op)
     /\ opnums' = opnums \cup {payload_index}
     /\ UNCHANGED passed
  \* bpf_xdp_adjust_tail failed
  \/ ReplySent(m) /\ UNCHANGED <<passed, answers>>

\* write_buffer: hand the operations to user space, then answer.
write_buffer(m) ==
  \/ /\ m.len < FAST_PAXOS_DATA_LEN + MAX_DATA_LEN
     /\ PassOn(m)
     /\ UNCHANGED <<buffer, answers, aborted>>
  \/ /\ m.len >= FAST_PAXOS_DATA_LEN + MAX_DATA_LEN
     /\ Len(buffer) < Capacity
     /\ buffer' = Append(buffer, Record(m))
     /\ prepare_fast_reply(m)
     /\ UNCHANGED aborted
  \* reserve failed: .ok_or(0)? makes the program return 0, XDP_ABORTED
  \/ /\ m.len >= FAST_PAXOS_DATA_LEN + MAX_DATA_LEN
     /\ Len(buffer) = Capacity
     /\ aborted' = TRUE
     /\ UNCHANGED <<buffer, passed, answers>>

\* Faulty variant: the view of the message is not compared.
PrepareAnyView(m) == m.len >= FAST_PAXOS_DATA_LEN /\ state = "STATUS_NORMAL"

\* The message gets through the checks of length, state and view.
PrepareInView(m) ==
  /\ m.len >= FAST_PAXOS_DATA_LEN
  /\ state = "STATUS_NORMAL"
  /\ m.view = view

\* The three ways out before the operation number is looked at.
PrepareRejected(m) ==
  \/ m.len < FAST_PAXOS_DATA_LEN /\ XDP_PASS(m)
  \/ /\ m.len >= FAST_PAXOS_DATA_LEN
     /\ state # "STATUS_NORMAL" \/ m.view < view
     /\ XDP_DROP
  \/ /\ m.len >= FAST_PAXOS_DATA_LEN
     /\ state = "STATUS_NORMAL" /\ m.view > view
     /\ XDP_PASS(m)

\* Faulty variant: an operation the replica already has is not answered but
\* written to the buffer once more.
PrepareAgainNot(m) == FALSE

\* Resend the PrepareOK.
PrepareAgain(m) == m.last_op <= last_op

\* Faulty variant: batches that leave a gap are accepted.
PrepareNeverGaps(m) == FALSE

PrepareLeavesGap(m) == m.batch_start > last_op + 1

handle_prepare(m) ==
  \/ PrepareRejected(m)
  \/ /\ PrepareInView(m)
     /\ PrepareAgain(m)
     /\ prepare_fast_reply(m)
     /\ UNCHANGED <<state, view, last_op, buffer, known, aborted>>
  \/ PrepareInView(m) /\ ~PrepareAgain(m) /\ PrepareLeavesGap(m) /\ XDP_PASS(m)
  \/ /\ PrepareInView(m)
     /\ ~PrepareAgain(m)
     /\ ~PrepareLeavesGap(m)
     /\ last_op' = m.last_op
     /\ write_buffer(m)
     /\ UNCHANGED <<state, view, known>>

-----------------------------------------------------------------------------
(***************************************************************************)
(* The user-space process.                                                 *)
(***************************************************************************)
\* Takes a record out of the ring buffer.
UserRead ==
  /\ buffer # <<>>
  /\ buffer' = Tail(buffer)
  /\ LET r == Head(buffer) IN
       known' = IF r.view = view THEN known \cup (r.first .. r.last) ELSE known
  /\ UNCHANGED <<state, view, last_op, passed, answers, aborted>>

\* Handles a packet that was passed on; a batch that leaves a gap is preceded
\* by a state transfer.
UserReceive(m) ==
  /\ m \in passed
  /\ passed' = passed \ {m}
  /\ state = "STATUS_NORMAL"
  /\ IF m.view = view
     THEN /\ known' = known \cup
                       ((IF PrepareLeavesGap(m) THEN 1 ELSE m.batch_start) .. m.last_op)
          /\ last_op' = MaxOf(last_op, m.last_op)
     ELSE UNCHANGED <<known, last_op>>
  /\ UNCHANGED <<state, view, buffer, answers, aborted>>

ViewChange ==
  /\ state = "STATUS_NORMAL" /\ view < MaxView
  /\ state' \in {"STATUS_VIEW_CHANGE", "STATUS_RECOVERING"}
  /\ UNCHANGED <<view, last_op, buffer, passed, known, answers, aborted>>

\* The new view starts from a log that the process has in full.
EnterView ==
  /\ state # "STATUS_NORMAL"
  /\ state' = "STATUS_NORMAL"
  /\ view' = view + 1
  /\ last_op' \in 0 .. MaxOp
  /\ known' = 1 .. last_op'
  /\ answered' = 0
  /\ opnums' = {}
  /\ aborted' = FALSE
  /\ UNCHANGED <<buffer, passed>>

-----------------------------------------------------------------------------
ReplicaNext ==
  \/ \E m \in Messages : handle_prepare(m)
  \/ UserRead
  \/ \E m \in passed : UserReceive(m)
  \/ ViewChange
  \/ EnterView

ReplicaSpec == ReplicaInit /\ [][ReplicaNext]_replicaVars

-----------------------------------------------------------------------------
(***************************************************************************)
(* Properties.                                                             *)
(***************************************************************************)

\* Operation o of the current view is in record i of the buffer, or in a packet
\* that was passed on.
InRecord(i, o) == buffer[i].view = view /\ o \in buffer[i].first .. buffer[i].last
PassedOn(o) ==
  \E m \in passed : /\ m.view = view /\ m.len >= FAST_PAXOS_DATA_LEN
                    /\ o \in m.batch_start .. m.last_op

\* It is not lost: user space has it or can still read it.
Kept(o) == o \in known \/ PassedOn(o) \/ \E i \in DOMAIN buffer : InRecord(i, o)

\* A PrepareMessage is answered, at once or as a repetition, only if its
\* operations and all before them are kept for user space, or a packet of the view
\* was thrown away for want of buffer space.  It is about which messages are
\* answered, not about the number the answer carries (handle_prepare,
\* write_buffer).
AnsweredKeptUnlessAborted ==
  \A o \in 1 .. answered : Kept(o) \/ aborted

\* "Write the view number, last_op and my_idx to the payload"
\* (samples/electrode/src/main.rs prepare_fast_reply): a MyPrepareOK names
\* an operation that the replica has received.
ReplyNamesLastOp == opnums \subseteq 1 .. last_op

\* "buffer not enough, offload to user-space" (samples/electrode/src/main.rs
\* write_buffer): every operation the replica counts as received reaches user
\* space.
FullBufferOffloads == \A o \in 1 .. last_op : Kept(o)

\* Each record of a view ends with a later operation than those before it.
RecordsAdvance ==
  \A i, j \in DOMAIN buffer :
    i < j /\ buffer[i].view = buffer[j].view => buffer[i].last < buffer[j].last

\* User space has operation o, finds it in the buffer before record j, or in a
\* packet that was passed on.
Before(j, o) == o \in known \/ PassedOn(o) \/ \E i \in 1 .. (j - 1) : InRecord(i, o)

\* However packets are repeated and reordered, user space reads the operations
\* of the view in order and without a gap: every record brings a later operation
\* than those before it, and what precedes its first operation is there already,
\* unless a packet was thrown away.  Batches may overlap, and then an operation
\* comes again (handle_prepare).
BufferInOrder ==
  /\ RecordsAdvance
  /\ \A j \in DOMAIN buffer : buffer[j].view = view =>
       \A o \in 1 .. (buffer[j].first - 1) : Before(j, o) \/ aborted

\* Views pass in order through the buffer: once a view has been left no packet
\* of it is accepted any more, however late it arrives (handle_prepare).
ViewsInOrder ==
  \A i, j \in DOMAIN buffer : i < j => buffer[i].view <= buffer[j].view

=============================================================================
