----------------------- MODULE ElectrodeReplicaProofs -----------------------
(***************************************************************************)
(* Proofs about ElectrodeReplica, for any number of views and operations,  *)
(* any packet lengths and any size of the ring buffer.                     *)
(***************************************************************************)
EXTENDS ElectrodeReplica, TLAPS

USE BoundsAssumption

-----------------------------------------------------------------------------
(***************************************************************************)
(* The inductive invariant.                                                *)
(***************************************************************************)

\* No record is ahead of what map_ctr_state says the replica has received.
BufferBehind ==
  \A i \in DOMAIN buffer :
    /\ buffer[i].view <= view
    /\ buffer[i].view = view => buffer[i].last <= last_op

\* Only messages with operations received are answered, and every operation received in
\* the view is kept unless one was thrown away.
ReceivedKept ==
  /\ answered <= last_op
  /\ \A o \in 1 .. last_op : Kept(o) \/ aborted

\* A view change is begun only if there is a view to enter.
ViewBound == state # "STATUS_NORMAL" => view < MaxView

\* The second half of BufferInOrder.
NoGap ==
  \A j \in DOMAIN buffer : buffer[j].view = view =>
    \A o \in 1 .. (buffer[j].first - 1) : Before(j, o) \/ aborted

OrderInv == BufferBehind /\ RecordsAdvance /\ ViewsInOrder
IInv == ReplicaTypeOK /\ ViewBound /\ OrderInv /\ ReceivedKept /\ NoGap

-----------------------------------------------------------------------------
LEMMA MessageFacts ==
  \A m \in Messages :
    /\ m.view \in 0 .. MaxView /\ m.batch_start \in 1 .. MaxOp
    /\ m.last_op \in 1 .. MaxOp /\ m.batch_start <= m.last_op
    /\ Record(m) \in RecordsType
    /\ Record(m).view = m.view /\ Record(m).first = m.batch_start
    /\ Record(m).last = m.last_op
BY DEF Messages, Record, RecordsType

LEMMA RecordFacts ==
  \A r \in RecordsType : r.view \in Nat /\ r.first \in Nat /\ r.last \in Nat
BY DEF RecordsType

\* The records of a sequence that has lost its first one or gained a last one.
LEMMA BufferFacts ==
  ASSUME NEW s \in Seq(RecordsType)
  PROVE  /\ DOMAIN s = 1 .. Len(s) /\ Len(s) \in Nat
         /\ \A i \in DOMAIN s : s[i] \in RecordsType
         /\ \A r \in RecordsType :
              /\ Append(s, r) \in Seq(RecordsType) /\ Len(Append(s, r)) = Len(s) + 1
              /\ Append(s, r)[Len(s) + 1] = r
              /\ \A i \in 1 .. Len(s) : Append(s, r)[i] = s[i]
         /\ s # <<>> => /\ Tail(s) \in Seq(RecordsType) /\ Len(Tail(s)) = Len(s) - 1
                        /\ Head(s) = s[1] /\ Len(s) > 0
                        /\ \A i \in 1 .. Len(s) - 1 : Tail(s)[i] = s[i + 1]
OBVIOUS

\* A packet is handled in one of four ways: it changes nothing but passed; it
\* is answered again; its operations are written to the buffer; or they are
\* received, and passed on or thrown away.
LEMMA PrepareOutcome ==
  ASSUME ReplicaTypeOK, NEW m \in Messages, handle_prepare(m)
  PROVE  /\ UNCHANGED <<state, view, known>>
         /\ passed \subseteq passed' /\ passed' \subseteq passed \cup {m}
         /\ answered' \in {answered, MaxOf(answered, m.last_op)}
         /\ opnums' \subseteq opnums \cup {payload_index}
         /\ \/ UNCHANGED <<last_op, buffer, aborted>>
               /\ (answered' = answered \/ m.last_op <= last_op)
            \/ /\ m.view = view /\ m.last_op > last_op /\ m.batch_start <= last_op + 1
               /\ last_op' = m.last_op
               /\ \/ /\ buffer' = Append(buffer, Record(m)) /\ Len(buffer) < Capacity
                     /\ UNCHANGED aborted
                  \/ /\ UNCHANGED <<buffer, answers>>
                     /\ \/ m \in passed' /\ m.len >= FAST_PAXOS_DATA_LEN /\ UNCHANGED aborted
                        \/ aborted' = TRUE
<1> USE DEF ReplicaTypeOK
<1>0. m.last_op \in Nat /\ m.batch_start \in Nat /\ last_op \in Nat  BY MessageFacts
<1>1. CASE PrepareRejected(m)
  BY <1>1 DEF PrepareRejected, XDP_PASS, XDP_DROP, PassOn, replicaVars, answers
<1>2. CASE /\ PrepareInView(m) /\ PrepareAgain(m) /\ prepare_fast_reply(m)
           /\ UNCHANGED <<state, view, last_op, buffer, known, aborted>>
  BY <1>2 DEF PrepareAgain, prepare_fast_reply, PassOn, answers
<1>3. CASE XDP_PASS(m)
  BY <1>3 DEF XDP_PASS, PassOn, answers
<1>4. CASE /\ PrepareInView(m) /\ ~PrepareAgain(m) /\ ~PrepareLeavesGap(m)
           /\ last_op' = m.last_op
           /\ write_buffer(m)
           /\ UNCHANGED <<state, view, known>>
  <2>1. m.view = view /\ m.last_op > last_op /\ m.batch_start <= last_op + 1
    BY <1>0, <1>4 DEF PrepareInView, PrepareAgain, PrepareLeavesGap
  <2>2. CASE m.len < FAST_PAXOS_DATA_LEN + MAX_DATA_LEN /\ PassOn(m) /\ UNCHANGED <<buffer, answers, aborted>>
    BY <1>4, <2>1, <2>2 DEF PassOn, PrepareInView, answers
  <2>3. CASE /\ Len(buffer) < Capacity /\ buffer' = Append(buffer, Record(m))
             /\ prepare_fast_reply(m) /\ UNCHANGED aborted
    BY <1>4, <2>1, <2>3 DEF prepare_fast_reply, PassOn, answers
  <2>4. CASE aborted' = TRUE /\ UNCHANGED <<buffer, passed, answers>>
    BY <1>4, <2>1, <2>4 DEF answers
  <2>q. QED  BY <1>4, <2>2, <2>3, <2>4 DEF write_buffer
<1>q. QED  BY <1>1, <1>2, <1>3, <1>4 DEF handle_prepare

\* Every step keeps the variables in their types.
LEMMA TypeStep ==
  ASSUME ReplicaTypeOK, ViewBound, ReplicaNext
  PROVE  ReplicaTypeOK' /\ ViewBound'
<1> SUFFICES ReplicaTypeOK'
  <2>1. ASSUME NEW m \in Messages, handle_prepare(m)  PROVE ViewBound'
    BY <2>1, PrepareOutcome DEF ViewBound
  <2>2. CASE UserRead  BY <2>2 DEF UserRead, ViewBound
  <2>3. ASSUME NEW m \in passed, UserReceive(m)  PROVE ViewBound'
    BY <2>3 DEF UserReceive, ViewBound
  <2>4. CASE ViewChange  BY <2>4 DEF ViewChange, ViewBound
  <2>5. CASE EnterView  BY <2>5 DEF EnterView, ViewBound
  <2>q. QED  BY <2>1, <2>2, <2>3, <2>4, <2>5 DEF ReplicaNext
<1> USE DEF ReplicaTypeOK
<1>1. ASSUME NEW m \in Messages, handle_prepare(m)  PROVE ReplicaTypeOK'
  <2>1. /\ UNCHANGED <<state, view, known>> /\ passed' \subseteq passed \cup {m}
        /\ answered' \in {answered, MaxOf(answered, m.last_op)}
    BY <1>1, PrepareOutcome
  <2>2. m.last_op \in 0 .. MaxOp /\ Record(m) \in RecordsType  BY MessageFacts
  <2>3. answered' \in 0 .. MaxOp  BY <2>1, <2>2 DEF MaxOf
  <2>4. last_op' \in 0 .. MaxOp  BY <1>1, <2>2, PrepareOutcome
  <2>5. buffer' \in Seq(RecordsType) /\ Len(buffer') <= Capacity
    <3>1. CASE UNCHANGED buffer  BY <3>1
    <3>2. CASE buffer' = Append(buffer, Record(m)) /\ Len(buffer) < Capacity
      BY <2>2, <3>2, BufferFacts
    <3>q. QED  BY <1>1, <3>1, <3>2, PrepareOutcome
  <2>6. aborted' \in BOOLEAN  BY <1>1, PrepareOutcome
  <2>7. opnums' \subseteq {payload_index}  BY <1>1, PrepareOutcome
  <2>q. QED  BY <2>7, <2>1, <2>3, <2>4, <2>5, <2>6
<1>2. CASE UserRead
  <2>1. buffer' \in Seq(RecordsType) /\ Len(buffer') <= Capacity
    BY <1>2, BufferFacts DEF UserRead
  <2>2. Head(buffer) \in RecordsType  BY <1>2, BufferFacts DEF UserRead
  <2>3. Head(buffer).first .. Head(buffer).last \subseteq 1 .. MaxOp
    BY <2>2 DEF RecordsType
  <2>4. known' \subseteq 1 .. MaxOp  BY <1>2, <2>3 DEF UserRead
  <2>q. QED  BY <1>2, <2>1, <2>4 DEF UserRead, answers
<1>3. ASSUME NEW m \in passed, UserReceive(m)  PROVE ReplicaTypeOK'
  <2>1. m.last_op \in 1 .. MaxOp /\ m.batch_start \in 1 .. MaxOp  BY MessageFacts
  <2>2. (IF PrepareLeavesGap(m) THEN 1 ELSE m.batch_start) .. m.last_op \subseteq 1 .. MaxOp
    BY <2>1
  <2>3. MaxOf(last_op, m.last_op) \in 0 .. MaxOp  BY <2>1 DEF MaxOf
  <2>4. known' \subseteq 1 .. MaxOp /\ last_op' \in 0 .. MaxOp
    BY <1>3, <2>2, <2>3 DEF UserReceive
  <2>q. QED  BY <1>3, <2>4 DEF UserReceive, answers
<1>4. CASE ViewChange  BY <1>4 DEF ViewChange, Statuses, answers
<1>5. CASE EnterView
  <2>1. view' \in 0 .. MaxView  BY <1>5 DEF EnterView, ViewBound
  <2>2. last_op' \in 0 .. MaxOp /\ known' = 1 .. last_op'  BY <1>5 DEF EnterView
  <2>3. known' \subseteq 1 .. MaxOp  BY <2>2
  <2>4. state' \in Statuses /\ answered' \in 0 .. MaxOp /\ opnums' \subseteq {payload_index}
      /\ UNCHANGED <<buffer, passed>>
    BY <1>5 DEF EnterView, Statuses
  <2>5. aborted' \in BOOLEAN  BY <1>5 DEF EnterView
  <2>q. QED  BY <2>1, <2>2, <2>3, <2>4, <2>5
<1>q. QED  BY <1>1, <1>2, <1>3, <1>4, <1>5 DEF ReplicaNext

\* A record that is appended is newer than those before it, and reading the
\* first one leaves the others in order.
LEMMA OrderStep ==
  ASSUME ReplicaTypeOK, OrderInv, ReplicaNext
  PROVE  OrderInv'
<1> USE DEF ReplicaTypeOK
<1>0. /\ DOMAIN buffer = 1 .. Len(buffer) /\ Len(buffer) \in Nat
      /\ \A i \in DOMAIN buffer : buffer[i].view \in Nat /\ buffer[i].last \in Nat
      /\ view \in Nat /\ last_op \in Nat
  BY BufferFacts, RecordFacts
<1>1. ASSUME UNCHANGED buffer, view' \in Nat, last_op' \in Nat,
             view' >= view, view' = view => last_op' >= last_op
      PROVE  OrderInv'
  <2>1. \A i \in DOMAIN buffer' : buffer'[i].view <= view'
    BY <1>0, <1>1 DEF OrderInv, BufferBehind
  <2>2. ASSUME NEW i \in DOMAIN buffer', buffer'[i].view = view'
        PROVE  buffer'[i].last <= last_op'
    <3>1. buffer[i].view <= view /\ buffer[i].view \in Nat /\ buffer[i].last \in Nat
      BY <1>0, <1>1 DEF OrderInv, BufferBehind
    <3>2. view' = view /\ buffer[i].view = view  BY <1>0, <1>1, <2>2, <3>1
    <3>3. buffer[i].last <= last_op  BY <1>1, <3>2 DEF OrderInv, BufferBehind
    <3>q. QED  BY <1>0, <1>1, <3>1, <3>2, <3>3
  <2>3. BufferBehind'  BY <2>1, <2>2 DEF BufferBehind
  <2>4. RecordsAdvance' /\ ViewsInOrder'
    BY <1>1 DEF OrderInv, RecordsAdvance, ViewsInOrder
  <2>q. QED  BY <2>3, <2>4 DEF OrderInv
<1>2. ASSUME NEW m \in Messages, m.view = view, m.last_op > last_op, last_op' = m.last_op,
             buffer' = Append(buffer, Record(m)), UNCHANGED view
      PROVE  OrderInv'
  <2>1. /\ DOMAIN buffer' = 1 .. Len(buffer) + 1
        /\ \A i \in 1 .. Len(buffer) : buffer'[i] = buffer[i]
        /\ buffer'[Len(buffer) + 1].view = view
        /\ buffer'[Len(buffer) + 1].last = m.last_op /\ m.last_op \in Nat
    BY <1>2, BufferFacts, MessageFacts
  <2>2. \A i \in 1 .. Len(buffer) :
          /\ buffer[i].view <= view
          /\ buffer[i].view = view => buffer[i].last < m.last_op
    BY <1>0, <1>2, <2>1 DEF OrderInv, BufferBehind
  <2>3. BufferBehind'
    <3> SUFFICES ASSUME NEW i \in DOMAIN buffer'
                 PROVE  /\ buffer'[i].view <= view'
                        /\ buffer'[i].view = view' => buffer'[i].last <= last_op'
      BY DEF BufferBehind
    <3>1. CASE i \in 1 .. Len(buffer)
      <4>1. buffer'[i] = buffer[i] /\ buffer[i].last \in Nat  BY <1>0, <2>1, <3>1
      <4>q. QED  BY <1>2, <2>1, <2>2, <3>1, <4>1
    <3>2. CASE i = Len(buffer) + 1  BY <1>0, <1>2, <2>1, <3>2
    <3>q. QED  BY <1>0, <2>1, <3>1, <3>2
  <2>4. ASSUME NEW i \in DOMAIN buffer', NEW j \in DOMAIN buffer', i < j
        PROVE  /\ buffer'[i].view <= buffer'[j].view
               /\ buffer'[i].view = buffer'[j].view => buffer'[i].last < buffer'[j].last
    <3>1. i \in 1 .. Len(buffer) /\ buffer'[i] = buffer[i]  BY <1>0, <2>1, <2>4
    <3>2. CASE j \in 1 .. Len(buffer)
      BY <1>0, <2>1, <2>4, <3>1, <3>2 DEF OrderInv, RecordsAdvance, ViewsInOrder
    <3>3. CASE j = Len(buffer) + 1
      BY <2>1, <2>2, <3>1, <3>3
    <3>q. QED  BY <1>0, <2>1, <3>2, <3>3
  <2>5. RecordsAdvance' /\ ViewsInOrder'  BY <2>4 DEF RecordsAdvance, ViewsInOrder
  <2>q. QED  BY <2>3, <2>5 DEF OrderInv
<1>3. ASSUME NEW m \in Messages, handle_prepare(m)  PROVE OrderInv'
  <2>0. m.last_op \in Nat  BY MessageFacts
  <2>1. m.last_op \in Nat /\ UNCHANGED view  BY <1>3, <2>0, PrepareOutcome
  <2>2. CASE UNCHANGED buffer /\ (UNCHANGED last_op \/ (last_op' = m.last_op /\ m.last_op > last_op))
    <3>1. last_op' \in Nat /\ last_op' >= last_op /\ view' >= view /\ view' \in Nat
      BY <1>0, <2>1, <2>2
    <3>q. QED  BY <1>1, <2>2, <3>1
  <2>3. CASE /\ m.view = view /\ m.last_op > last_op /\ last_op' = m.last_op
             /\ buffer' = Append(buffer, Record(m))
    BY <1>2, <2>1, <2>3
  <2>q. QED  BY <1>3, <2>2, <2>3, PrepareOutcome
<1>4. CASE UserRead
  <2>1. /\ buffer # <<>> /\ buffer' = Tail(buffer) /\ UNCHANGED <<view, last_op>>
    BY <1>4 DEF UserRead
  <2>2. /\ DOMAIN buffer' = 1 .. Len(buffer) - 1
        /\ \A i \in 1 .. Len(buffer) - 1 : buffer'[i] = buffer[i + 1]
    BY <2>1, BufferFacts
  <2>3. \A i \in DOMAIN buffer' : i + 1 \in DOMAIN buffer /\ buffer'[i] = buffer[i + 1]
    BY <1>0, <2>2
  <2>4. BufferBehind'  BY <2>1, <2>3 DEF OrderInv, BufferBehind
  <2>5. ASSUME NEW i \in DOMAIN buffer', NEW j \in DOMAIN buffer', i < j
        PROVE  /\ buffer'[i].view <= buffer'[j].view
               /\ buffer'[i].view = buffer'[j].view => buffer'[i].last < buffer'[j].last
    <3>1. i + 1 < j + 1  BY <2>2, <2>5
    <3>q. QED  BY <2>3, <3>1 DEF OrderInv, RecordsAdvance, ViewsInOrder
  <2>6. RecordsAdvance' /\ ViewsInOrder'  BY <2>5 DEF RecordsAdvance, ViewsInOrder
  <2>q. QED  BY <2>4, <2>6 DEF OrderInv
<1>5. ASSUME NEW m \in passed, UserReceive(m)  PROVE OrderInv'
  <2>1. m.last_op \in Nat  BY MessageFacts
  <2>2. last_op' \in Nat /\ last_op' >= last_op /\ UNCHANGED <<buffer, view>>
    BY <1>0, <1>5, <2>1 DEF UserReceive, MaxOf
  <2>q. QED  BY <1>0, <1>1, <2>2
<1>6. CASE ViewChange
  <2>1. UNCHANGED <<buffer, view, last_op>>  BY <1>6 DEF ViewChange
  <2>2. last_op' >= last_op /\ view' >= view  BY <1>0, <2>1
  <2>q. QED  BY <1>0, <1>1, <2>1, <2>2
<1>7. CASE EnterView
  <2>1. UNCHANGED buffer /\ view' = view + 1 /\ last_op' \in Nat  BY <1>7 DEF EnterView
  <2>2. view' \in Nat /\ view' >= view /\ view' # view  BY <1>0, <2>1
  <2>q. QED  BY <1>1, <2>1, <2>2
<1>q. QED  BY <1>3, <1>4, <1>5, <1>6, <1>7 DEF ReplicaNext

\* What is kept stays kept within a view as long as buffer, passed and known
\* lose nothing.
LEMMA KeptMonotone ==
  ASSUME ReplicaTypeOK, UNCHANGED view, known \subseteq known', passed \subseteq passed',
         \A i \in DOMAIN buffer : i \in DOMAIN buffer' /\ buffer'[i] = buffer[i],
         NEW o, Kept(o)
  PROVE  Kept(o)'
BY DEF Kept, PassedOn, InRecord

LEMMA KeptStep ==
  ASSUME ReplicaTypeOK, ViewBound, ReceivedKept, ReplicaNext
  PROVE  ReceivedKept'
<1> USE DEF ReplicaTypeOK
<1>0. /\ DOMAIN buffer = 1 .. Len(buffer) /\ Len(buffer) \in Nat
      /\ last_op \in Nat /\ answered \in Nat /\ answered <= last_op
  BY BufferFacts DEF ReceivedKept
<1>t. ReplicaTypeOK'  BY TypeStep
<1>1. ASSUME NEW m \in Messages, handle_prepare(m)  PROVE ReceivedKept'
  <2>0. m.last_op \in Nat /\ m.batch_start \in Nat /\ Record(m) \in RecordsType
    BY MessageFacts
  <2>1. /\ UNCHANGED <<view, known>> /\ passed \subseteq passed'
        /\ answered' \in {answered, MaxOf(answered, m.last_op)}
    BY <1>1, PrepareOutcome
  <2>2. \A i \in DOMAIN buffer : i \in DOMAIN buffer' /\ buffer'[i] = buffer[i]
    <3>1. CASE UNCHANGED buffer  BY <3>1
    <3>2. CASE buffer' = Append(buffer, Record(m))
      BY <1>0, <2>0, <3>2, BufferFacts
    <3>q. QED  BY <1>1, <3>1, <3>2, PrepareOutcome
  <2>3. \A o : Kept(o) => Kept(o)'  BY <2>1, <2>2, KeptMonotone
  <2>4. aborted => aborted'  BY <1>1, PrepareOutcome
  <2>5. CASE UNCHANGED last_op /\ (answered' = answered \/ m.last_op <= last_op)
    <3>1. answered' <= last_op'  BY <1>0, <2>0, <2>1, <2>5 DEF MaxOf
    <3>2. \A o \in 1 .. last_op' : Kept(o)' \/ aborted'
      BY <2>3, <2>4, <2>5 DEF ReceivedKept
    <3>q. QED  BY <3>1, <3>2 DEF ReceivedKept
  <2>6. CASE /\ m.view = view /\ m.last_op > last_op /\ m.batch_start <= last_op + 1
             /\ last_op' = m.last_op
             /\ \/ buffer' = Append(buffer, Record(m))
                \/ m \in passed' /\ m.len >= FAST_PAXOS_DATA_LEN
                \/ aborted' = TRUE
    <3>1. answered' <= last_op'  BY <1>0, <2>0, <2>1, <2>6 DEF MaxOf
    <3>2. ASSUME NEW o \in 1 .. last_op'  PROVE Kept(o)' \/ aborted'
      <4>1. CASE o <= last_op
        <5>1. o \in 1 .. last_op  BY <1>0, <2>0, <2>6, <4>1
        <5>q. QED  BY <2>3, <2>4, <5>1 DEF ReceivedKept
      <4>2. CASE o > last_op
        <5>1. o \in m.batch_start .. m.last_op  BY <1>0, <2>0, <2>6, <4>2
        <5>2. CASE buffer' = Append(buffer, Record(m))
          <6>1. /\ Len(buffer) + 1 \in DOMAIN buffer'
                /\ buffer'[Len(buffer) + 1] = Record(m)
            BY <1>0, <2>0, <5>2, BufferFacts
          <6>2. /\ Record(m).view = view' /\ Record(m).first = m.batch_start
                /\ Record(m).last = m.last_op
            BY <2>1, <2>6, MessageFacts
          <6>q. QED  BY <5>1, <6>1, <6>2 DEF Kept, PassedOn, InRecord
        <5>3. CASE m \in passed' /\ m.len >= FAST_PAXOS_DATA_LEN
          BY <2>1, <2>6, <5>1, <5>3 DEF Kept, PassedOn, InRecord
        <5>q. QED  BY <2>6, <5>2, <5>3
      <4>q. QED  BY <1>0, <2>0, <2>6, <4>1, <4>2
    <3>q. QED  BY <3>1, <3>2 DEF ReceivedKept
  <2>q. QED  BY <1>1, <2>5, <2>6, PrepareOutcome
<1>2. CASE UserRead
  <2>1. /\ buffer # <<>> /\ buffer' = Tail(buffer)
        /\ UNCHANGED <<view, last_op, passed, answered, aborted>>
        /\ known' = IF Head(buffer).view = view
                    THEN known \cup (Head(buffer).first .. Head(buffer).last)
                    ELSE known
    BY <1>2 DEF UserRead, answers
  <2>2. ASSUME NEW o, Kept(o)  PROVE Kept(o)'
    <3>1. CASE o \in known  BY <2>1, <3>1 DEF Kept, PassedOn, InRecord
    <3>2. CASE \E m \in passed : /\ m.view = view /\ m.len >= FAST_PAXOS_DATA_LEN
                                 /\ o \in m.batch_start .. m.last_op
      BY <2>1, <3>2 DEF Kept, PassedOn, InRecord
    <3>3. ASSUME NEW i \in DOMAIN buffer, buffer[i].view = view,
                 o \in buffer[i].first .. buffer[i].last
          PROVE  Kept(o)'
      <4>1. CASE i = 1
        <5>1. Head(buffer) = buffer[i]  BY <2>1, <4>1, BufferFacts
        <5>2. o \in known'  BY <2>1, <3>3, <5>1
        <5>q. QED  BY <5>2 DEF Kept, PassedOn, InRecord
      <4>2. CASE i # 1
        <5>1. i - 1 \in DOMAIN buffer' /\ buffer'[i - 1] = buffer[i]
          BY <1>0, <2>1, <3>3, <4>2, BufferFacts
        <5>q. QED  BY <2>1, <3>3, <5>1 DEF Kept, PassedOn, InRecord
      <4>q. QED  BY <4>1, <4>2
    <3>q. QED  BY <2>2, <3>1, <3>2, <3>3 DEF Kept, PassedOn, InRecord
  <2>q. QED  BY <2>1, <2>2 DEF ReceivedKept
<1>3. ASSUME NEW m \in passed, UserReceive(m)  PROVE ReceivedKept'
  <2>0. m.last_op \in Nat /\ m.batch_start \in Nat  BY MessageFacts
  <2>1. /\ passed' = passed \ {m} /\ UNCHANGED <<view, buffer, answered, aborted>>
    BY <1>3 DEF UserReceive, answers
  <2>2. CASE m.view # view
    <3>1. UNCHANGED <<known, last_op>>  BY <1>3, <2>2 DEF UserReceive
    <3>2. ASSUME NEW o, Kept(o)  PROVE Kept(o)'  BY <2>1, <2>2, <3>1, <3>2 DEF Kept, PassedOn, InRecord
    <3>q. QED  BY <2>1, <3>1, <3>2 DEF ReceivedKept
  <2>3. CASE m.view = view
    <3> DEFINE first == IF PrepareLeavesGap(m) THEN 1 ELSE m.batch_start
    <3>1. known' = known \cup (first .. m.last_op) /\ last_op' = MaxOf(last_op, m.last_op)
      BY <1>3, <2>3 DEF UserReceive
    <3>2. first \in Nat /\ first <= m.batch_start /\ first <= last_op + 1
      <4>1. m.batch_start \in 1 .. MaxOp  BY MessageFacts
      <4>q. QED  BY <1>0, <2>0, <4>1 DEF PrepareLeavesGap
    <3> HIDE DEF first
    <3>3. ASSUME NEW o, Kept(o)  PROVE Kept(o)'
      <4>1. CASE o \in known  BY <3>1, <4>1 DEF Kept, PassedOn, InRecord
      <4>2. CASE \E i \in DOMAIN buffer :
                   buffer[i].view = view /\ o \in buffer[i].first .. buffer[i].last
        BY <2>1, <4>2 DEF Kept, PassedOn, InRecord
      <4>3. ASSUME NEW n \in passed, n.view = view, n.len >= FAST_PAXOS_DATA_LEN,
                   o \in n.batch_start .. n.last_op
            PROVE  Kept(o)'
        <5>1. CASE n = m
          <6>1. o \in first .. m.last_op  BY <2>0, <3>2, <4>3, <5>1
          <6>q. QED  BY <3>1, <6>1 DEF Kept, PassedOn, InRecord
        <5>2. CASE n # m  BY <2>1, <4>3, <5>2 DEF Kept, PassedOn, InRecord
        <5>q. QED  BY <5>1, <5>2
      <4>q. QED  BY <3>3, <4>1, <4>2, <4>3 DEF Kept, PassedOn, InRecord
    <3>4. answered' <= last_op'  BY <1>0, <2>0, <2>1, <3>1 DEF MaxOf
    <3>5. ASSUME NEW o \in 1 .. last_op'  PROVE Kept(o)' \/ aborted'
      <4>0. last_op' \in Nat  BY <1>0, <2>0, <3>1 DEF MaxOf
      <4>1. CASE o <= last_op
        <5>1. o \in 1 .. last_op  BY <1>0, <4>0, <4>1
        <5>q. QED  BY <2>1, <3>3, <5>1 DEF ReceivedKept
      <4>2. CASE o > last_op
        <5>1. o \in first .. m.last_op  BY <1>0, <2>0, <3>1, <3>2, <4>2 DEF MaxOf
        <5>q. QED  BY <3>1, <5>1 DEF Kept, PassedOn, InRecord
      <4>q. QED  BY <1>0, <4>0, <4>1, <4>2
    <3>q. QED  BY <3>4, <3>5 DEF ReceivedKept
  <2>q. QED  BY <2>2, <2>3
<1>4. CASE ViewChange
  <2>1. UNCHANGED <<view, last_op, buffer, passed, known, answered, aborted>>
    BY <1>4 DEF ViewChange, answers
  <2>q. QED  BY <2>1 DEF ReceivedKept, Kept, PassedOn, InRecord
<1>5. CASE EnterView
  <2>1. known' = 1 .. last_op' /\ answered' = 0 /\ last_op' \in Nat  BY <1>5 DEF EnterView
  <2>2. answered' <= last_op'  BY <2>1
  <2>3. \A o \in 1 .. last_op' : Kept(o)'  BY <2>1 DEF Kept, PassedOn, InRecord
  <2>q. QED  BY <2>2, <2>3 DEF ReceivedKept
<1>q. QED  BY <1>1, <1>2, <1>3, <1>4, <1>5 DEF ReplicaNext

\* Within a view what is before a record stays before it.
LEMMA BeforeMonotone ==
  ASSUME ReplicaTypeOK, UNCHANGED view, known \subseteq known', passed \subseteq passed',
         NEW j \in Nat, NEW o, Before(j, o),
         \A i \in 1 .. (j - 1) : buffer'[i] = buffer[i]
  PROVE  Before(j, o)'
BY DEF Before, PassedOn, InRecord

\* A record is appended only behind everything received so far, and reading
\* takes nothing away.
LEMMA GapStep ==
  ASSUME ReplicaTypeOK, OrderInv, ReceivedKept, NoGap, ReplicaNext
  PROVE  NoGap'
<1> USE DEF ReplicaTypeOK
<1>0. /\ DOMAIN buffer = 1 .. Len(buffer) /\ Len(buffer) \in Nat
      /\ last_op \in Nat /\ view \in Nat
      /\ \A i \in DOMAIN buffer : buffer[i] \in RecordsType /\ buffer[i].first \in Nat
  BY BufferFacts, RecordFacts
<1>1. ASSUME NEW m \in Messages, handle_prepare(m)  PROVE NoGap'
  <2>0. m.batch_start \in Nat /\ Record(m) \in RecordsType /\ Record(m).first = m.batch_start
    BY MessageFacts
  <2>1. UNCHANGED <<view, known>> /\ passed \subseteq passed'  BY <1>1, PrepareOutcome
  <2>2. aborted => aborted'  BY <1>1, PrepareOutcome
  <2>3. ASSUME NEW j \in DOMAIN buffer, buffer[j].view = view,
               \A i \in 1 .. j : buffer'[i] = buffer[i],
               NEW o \in 1 .. (buffer[j].first - 1)
        PROVE  Before(j, o)' \/ aborted'
    <3>1. j \in Nat /\ \A i \in 1 .. (j - 1) : buffer'[i] = buffer[i]  BY <1>0, <2>3
    <3>2. Before(j, o) \/ aborted  BY <2>3 DEF NoGap
    <3>3. CASE aborted  BY <2>2, <3>3
    <3>4. CASE Before(j, o)  BY <2>1, <3>1, <3>4, BeforeMonotone
    <3>q. QED  BY <3>2, <3>3, <3>4
  <2>4. CASE UNCHANGED buffer
    <3> SUFFICES ASSUME NEW j \in DOMAIN buffer', buffer'[j].view = view',
                        NEW o \in 1 .. (buffer'[j].first - 1)
                 PROVE  Before(j, o)' \/ aborted'
      BY DEF NoGap
    <3>q. QED  BY <2>1, <2>3, <2>4
  <2>5. CASE buffer' = Append(buffer, Record(m)) /\ m.batch_start <= last_op + 1
    <3>1. /\ DOMAIN buffer' = 1 .. Len(buffer) + 1
          /\ \A i \in 1 .. Len(buffer) : buffer'[i] = buffer[i]
          /\ buffer'[Len(buffer) + 1] = Record(m)
      BY <2>0, <2>5, BufferFacts
    <3> SUFFICES ASSUME NEW j \in DOMAIN buffer', buffer'[j].view = view',
                        NEW o \in 1 .. (buffer'[j].first - 1)
                 PROVE  Before(j, o)' \/ aborted'
      BY DEF NoGap
    <3>2. CASE j \in 1 .. Len(buffer)
      <4>1. \A i \in 1 .. j : buffer'[i] = buffer[i]  BY <1>0, <3>1, <3>2
      <4>2. buffer'[j] = buffer[j] /\ j \in DOMAIN buffer  BY <1>0, <3>1, <3>2
      <4>q. QED  BY <2>1, <2>3, <4>1, <4>2
    <3>3. CASE j = Len(buffer) + 1
      <4>1. o \in 1 .. last_op  BY <1>0, <2>0, <2>5, <3>1, <3>3
      <4>2. Kept(o) \/ aborted  BY <4>1 DEF ReceivedKept
      <4>3. CASE aborted  BY <2>2, <4>3
      <4>4. CASE Kept(o)
        <5>1. Before(j, o)  BY <1>0, <3>3, <4>4 DEF Kept, Before
        <5>2. j \in Nat /\ \A i \in 1 .. (j - 1) : buffer'[i] = buffer[i]
          BY <1>0, <3>1, <3>3
        <5>q. QED  BY <2>1, <5>1, <5>2, BeforeMonotone
      <4>q. QED  BY <4>2, <4>3, <4>4
    <3>q. QED  BY <1>0, <3>1, <3>2, <3>3
  <2>q. QED  BY <1>1, <2>4, <2>5, PrepareOutcome
<1>2. CASE UserRead
  <2>1. /\ buffer # <<>> /\ buffer' = Tail(buffer) /\ UNCHANGED <<view, passed, aborted>>
        /\ known' = IF Head(buffer).view = view
                    THEN known \cup (Head(buffer).first .. Head(buffer).last)
                    ELSE known
    BY <1>2 DEF UserRead
  <2>2. /\ DOMAIN buffer' = 1 .. Len(buffer) - 1 /\ Head(buffer) = buffer[1]
        /\ \A i \in 1 .. Len(buffer) - 1 : buffer'[i] = buffer[i + 1]
    BY <2>1, BufferFacts
  <2> SUFFICES ASSUME NEW j \in DOMAIN buffer', buffer'[j].view = view',
                      NEW o \in 1 .. (buffer'[j].first - 1)
               PROVE  Before(j, o)' \/ aborted'
    BY DEF NoGap
  <2>3. j \in 1 .. Len(buffer) - 1 /\ j + 1 \in DOMAIN buffer /\ buffer'[j] = buffer[j + 1]
    BY <1>0, <2>2
  <2>4. Before(j + 1, o) \/ aborted  BY <2>1, <2>3 DEF NoGap
  <2>5. CASE aborted  BY <2>1, <2>5
  <2>6. CASE o \in known  BY <2>1, <2>6 DEF Before
  <2>7. CASE PassedOn(o)  BY <2>1, <2>7 DEF Before, PassedOn
  <2>8. ASSUME NEW i \in 1 .. j, InRecord(i, o)  PROVE Before(j, o)'
    <3>1. CASE i = 1  BY <2>1, <2>2, <2>8, <3>1 DEF Before, InRecord
    <3>2. CASE i # 1
      <4>1. i - 1 \in 1 .. (j - 1) /\ i - 1 \in 1 .. Len(buffer) - 1
        BY <1>0, <2>3, <2>8, <3>2
      <4>2. buffer'[i - 1] = buffer[i]  BY <1>0, <2>2, <4>1
      <4>q. QED  BY <2>1, <2>8, <4>1, <4>2 DEF Before, InRecord
    <3>q. QED  BY <3>1, <3>2
  <2>9. Before(j + 1, o) => o \in known \/ PassedOn(o) \/ \E i \in 1 .. j : InRecord(i, o)
    BY <1>0, <2>3 DEF Before
  <2>q. QED  BY <2>4, <2>5, <2>6, <2>7, <2>8, <2>9
<1>3. ASSUME NEW m \in passed, UserReceive(m)  PROVE NoGap'
  <2>0. m.last_op \in Nat /\ m.batch_start \in Nat /\ m.batch_start >= 1  BY MessageFacts
  <2>1. /\ passed' = passed \ {m} /\ UNCHANGED <<view, buffer, aborted>>
        /\ known \subseteq known'
    BY <1>3 DEF UserReceive
  <2>2. m.view = view => m.batch_start .. m.last_op \subseteq known'
    BY <1>3, <2>0 DEF UserReceive
  <2>3. ASSUME NEW j \in Nat, NEW o, Before(j, o)  PROVE Before(j, o)'
    <3>1. CASE o \in known  BY <2>1, <3>1 DEF Before
    <3>2. CASE \E i \in 1 .. (j - 1) : InRecord(i, o)  BY <2>1, <3>2 DEF Before, InRecord
    <3>3. ASSUME NEW n \in passed, n.view = view, n.len >= FAST_PAXOS_DATA_LEN,
                 o \in n.batch_start .. n.last_op
          PROVE  Before(j, o)'
      <4>1. CASE n = m  BY <2>2, <3>3, <4>1 DEF Before
      <4>2. CASE n # m  BY <2>1, <3>3, <4>2 DEF Before, PassedOn
      <4>q. QED  BY <4>1, <4>2
    <3>q. QED  BY <2>3, <3>1, <3>2, <3>3 DEF Before, PassedOn
  <2>q. QED  BY <1>0, <2>1, <2>3 DEF NoGap
<1>4. CASE ViewChange
  BY <1>4 DEF ViewChange, NoGap, Before, PassedOn, InRecord
<1>5. CASE EnterView
  <2>1. UNCHANGED buffer /\ view' = view + 1  BY <1>5 DEF EnterView
  <2>2. \A i \in DOMAIN buffer : buffer[i].view <= view /\ buffer[i].view \in Nat
    BY <1>0, RecordFacts DEF OrderInv, BufferBehind
  <2>3. \A i \in DOMAIN buffer' : buffer'[i].view # view'  BY <1>0, <2>1, <2>2
  <2>q. QED  BY <2>3 DEF NoGap
<1>q. QED  BY <1>1, <1>2, <1>3, <1>4, <1>5 DEF ReplicaNext

-----------------------------------------------------------------------------
\* The strengthened invariant holds in every state (main.rs handle_prepare).
THEOREM Invariance == ReplicaSpec => []IInv
<1>1. ReplicaInit => IInv
  <2> SUFFICES ASSUME ReplicaInit  PROVE IInv  OBVIOUS
  <2>0. buffer = <<>> /\ DOMAIN buffer = {} /\ last_op = 0 /\ answered = 0  BY DEF ReplicaInit
  <2>1. ReplicaTypeOK
    <3>1. buffer \in Seq(RecordsType) /\ Len(buffer) <= Capacity  BY <2>0
    <3>2. aborted \in BOOLEAN  BY DEF ReplicaInit
    <3>q. QED  BY <3>1, <3>2 DEF ReplicaInit, ReplicaTypeOK, Statuses
  <2>2. ViewBound  BY DEF ReplicaInit, ViewBound
  <2>3. OrderInv
    BY <2>0 DEF OrderInv, BufferBehind, RecordsAdvance, ViewsInOrder
  <2>4. ReceivedKept  BY <2>0 DEF ReceivedKept
  <2>5. NoGap  BY <2>0 DEF NoGap
  <2>q. QED  BY <2>1, <2>2, <2>3, <2>4, <2>5 DEF IInv
<1>2. IInv /\ [ReplicaNext]_replicaVars => IInv'
  <2>1. CASE IInv /\ ReplicaNext  BY <2>1, TypeStep, OrderStep, KeptStep, GapStep DEF IInv
  <2>2. CASE IInv /\ UNCHANGED replicaVars
    <3>1. ReplicaTypeOK' <=> ReplicaTypeOK  BY <2>2 DEF replicaVars, answers, ReplicaTypeOK
    <3>2. OrderInv' <=> OrderInv
      BY <2>2 DEF replicaVars, OrderInv, BufferBehind, RecordsAdvance, ViewsInOrder
    <3>3. ReceivedKept' <=> ReceivedKept  BY <2>2 DEF replicaVars, answers, ReceivedKept, Kept, PassedOn, InRecord
    <3>4. ViewBound' <=> ViewBound  BY <2>2 DEF replicaVars, ViewBound
    <3>5. NoGap' <=> NoGap
      BY <2>2 DEF replicaVars, answers, NoGap, Before, PassedOn, InRecord
    <3>q. QED  BY <2>2, <3>1, <3>2, <3>3, <3>4, <3>5 DEF IInv
  <2>q. QED  BY <2>1, <2>2
<1>q. QED  BY <1>1, <1>2, PTL DEF ReplicaSpec

\* Every variable keeps its type, and the buffer its capacity.
THEOREM TypeCorrect == ReplicaSpec => []ReplicaTypeOK
<1>1. IInv => ReplicaTypeOK  BY DEF IInv
<1>q. QED  BY <1>1, Invariance, PTL

\* User space reads the operations of a view in order and without a gap, unless
\* a packet was thrown away (main.rs handle_prepare).
THEOREM BufferStaysInOrder == ReplicaSpec => []BufferInOrder
<1>1. IInv => BufferInOrder  BY DEF IInv, OrderInv, NoGap, BufferInOrder
<1>q. QED  BY <1>1, Invariance, PTL

\* Views pass through the buffer in order (main.rs handle_prepare).
THEOREM ViewsStayInOrder == ReplicaSpec => []ViewsInOrder
<1>1. IInv => ViewsInOrder  BY DEF IInv, OrderInv
<1>q. QED  BY <1>1, Invariance, PTL

\* A PrepareMessage is answered only if its operations and those before them are
\* kept, or a packet of the view was thrown away (main.rs handle_prepare,
\* write_buffer).
THEOREM AnsweredStaysKept == ReplicaSpec => []AnsweredKeptUnlessAborted
<1>1. IInv => AnsweredKeptUnlessAborted
  <2> SUFFICES ASSUME IInv, NEW o \in 1 .. answered  PROVE Kept(o) \/ aborted
    BY DEF AnsweredKeptUnlessAborted
  <2>1. o \in 1 .. last_op  BY DEF IInv, ReceivedKept, ReplicaTypeOK
  <2>q. QED  BY <2>1 DEF IInv, ReceivedKept
<1>q. QED  BY <1>1, Invariance, PTL

=============================================================================
