------------------------ MODULE ElectrodeLeaderProofs ------------------------
(***************************************************************************)
(* Proofs about ElectrodeLeader, for any size of the cluster and of        *)
(* map_quorum and any views, operations and voters.                        *)
(***************************************************************************)
EXTENDS ElectrodeLeader, FiniteSetTheorems, SequenceTheorems, TLAPS

USE LeaderAssumption

-----------------------------------------------------------------------------
(***************************************************************************)
(* Vote counting.                                                          *)
(***************************************************************************)
Slots   == 0 .. (QUORUM_BITSET_ENTRY - 1)
Entries == [view: ViewFields, opnum: Ops, bitset: SUBSET (0 .. 31)]

\* The part of the type invariant that is about the votes.
QuorumTypeOK ==
  /\ quorum \in [Slots -> Entries]
  /\ votes \subseteq ViewFields \X Ops \X (0 .. 31)
  /\ reported \subseteq ViewFields \X Ops
  /\ clipped \subseteq ViewFields \X Ops

QuorumInv == QuorumTypeOK /\ VotesOfOwner /\ ReportedHasQuorum

LEMMA SlotInRange == \A op \in Ops : Slot(op) \in Slots
BY DEF Slot, Slots

LEMMA EntryFacts ==
  /\ \A v \in ViewFields, op \in Ops, B \in SUBSET (0 .. 31) :
       QuorumEntry(v, op, B) \in Entries
  /\ \A v, op, B : /\ QuorumEntry(v, op, B).view = v
                   /\ QuorumEntry(v, op, B).opnum = op
                   /\ QuorumEntry(v, op, B).bitset = B
  /\ \A e \in Entries : /\ e.view \in ViewFields /\ e.opnum \in Ops
                        /\ e.bitset \subseteq 0 .. 31
BY DEF QuorumEntry, Entries

\* Sets of votes are finite.
LEMMA BitsFinite ==
  \A B \in SUBSET (0 .. 31) : IsFiniteSet(B) /\ Cardinality(B) \in Nat
<1>0. 0 \in Int /\ 31 \in Int  OBVIOUS
<1>1. IsFiniteSet(0 .. 31)  BY <1>0, FS_Interval, Zenon
<1>q. QED  BY <1>1, FS_Subset, FS_CardinalityType

LEMMA QuorumSizeFacts == QUORUM_SIZE \in Nat /\ QUORUM_SIZE >= 1
BY DEF QUORUM_SIZE

\* x ^ BROADCAST_SIGN_BIT is a view field again.
LEMMA ToggleFacts == \A x \in ViewFields : ToggleBroadcast(x) \in ViewFields
BY DEF ViewFields, ToggleBroadcast

\* Taking an entry over drops the votes of the operation that had it.
LEMMA OpenEntryStep ==
  ASSUME QuorumInv, NEW v \in ViewFields, NEW op \in Ops, OpenEntry(v, op)
  PROVE  QuorumInv'
<1> USE DEF QuorumTypeOK
<1>0. QuorumTypeOK /\ VotesOfOwner /\ ReportedHasQuorum  BY DEF QuorumInv
<1>1. UNCHANGED <<votes, reported, clipped>>  BY DEF OpenEntry
<1>2. CASE UNCHANGED quorum
  BY <1>0, <1>1, <1>2 DEF QuorumInv, VotesOfOwner, ReportedHasQuorum
<1>3. CASE quorum' = [quorum EXCEPT ![Slot(op)] = NewEntry(v, op)]
  <2>1. NewEntry(v, op) \in Entries /\ NewEntry(v, op).bitset = {}
    BY EntryFacts DEF NewEntry
  <2>2. quorum' \in [Slots -> Entries]  BY <1>0, <1>3, <2>1
  <2>3. VotesOfOwner'
    <3> SUFFICES ASSUME NEW i \in Slots, NEW b \in quorum'[i].bitset
                 PROVE  <<quorum'[i].view, quorum'[i].opnum, b>> \in votes
      BY <1>1, <2>2 DEF VotesOfOwner
    <3>1. i # Slot(op)  BY <1>0, <1>3, <2>1
    <3>2. quorum'[i] = quorum[i]  BY <1>0, <1>3, <3>1
    <3>q. QED  BY <1>0, <3>2 DEF VotesOfOwner
  <2>4. ReportedHasQuorum'  BY <1>0, <1>1 DEF ReportedHasQuorum
  <2>q. QED  BY <1>0, <1>1, <2>2, <2>3, <2>4 DEF QuorumInv
<1>q. QED  BY <1>2, <1>3 DEF OpenEntry

\* A vote that is counted is a vote for the entry's operation, and the one
\* that completes the quorum completes it.
LEMMA PrepareOkStep ==
  ASSUME QuorumInv, NEW v \in ViewFields, NEW op \in Ops, NEW r \in Voters,
         handle_prepare_ok(v, op, r)
  PROVE  QuorumInv'
<1> USE DEF QuorumTypeOK
<1>0. QuorumTypeOK /\ VotesOfOwner /\ ReportedHasQuorum  BY DEF QuorumInv
<1>1. CASE UNCHANGED leaderVars
  BY <1>0, <1>1 DEF leaderVars, quorumVars, QuorumInv, VotesOfOwner, ReportedHasQuorum
<1>2. CASE ~UNCHANGED leaderVars
  <2> DEFINE e == quorum[Slot(op)]
             B == e.bitset \cup {Bit(r)}
  <2>1. /\ e.view = v /\ e.opnum = op
        /\ quorum' = [quorum EXCEPT ![Slot(op)] = QuorumEntry(v, op, B)]
        /\ votes' = votes \cup {<<v, op, Bit(r)>>}
        /\ \/ UNCHANGED reported
           \/ Completes(B) /\ reported' = reported \cup {<<v, op>>}
        /\ \/ UNCHANGED clipped
           \/ clipped' = clipped \cup {<<v, op>>}
    BY <1>2 DEF handle_prepare_ok
  <2>2. Bit(r) \in 0 .. 31  BY DEF Bit
  <2>3. e \in Entries /\ Slot(op) \in Slots  BY <1>0, SlotInRange
  <2>4. B \in SUBSET (0 .. 31)  BY <2>2, <2>3, EntryFacts
  <2>5. QuorumEntry(v, op, B) \in Entries  BY <2>4, EntryFacts
  <2> HIDE DEF B
  <2>6. quorum' \in [Slots -> Entries]  BY <1>0, <2>1, <2>5
  <2>7. votes' \subseteq ViewFields \X Ops \X (0 .. 31)  BY <1>0, <2>1, <2>2
  <2>8. reported' \subseteq ViewFields \X Ops /\ clipped' \subseteq ViewFields \X Ops
    BY <1>0, <2>1
  <2>9. VotesOfOwner'
    <3> SUFFICES ASSUME NEW i \in Slots, NEW b \in quorum'[i].bitset
                 PROVE  <<quorum'[i].view, quorum'[i].opnum, b>> \in votes'
      BY <2>6 DEF VotesOfOwner
    <3>1. CASE i = Slot(op)
      <4>1. quorum'[i] = QuorumEntry(v, op, B)  BY <1>0, <2>1, <2>3, <3>1
      <4>2. quorum'[i].view = v /\ quorum'[i].opnum = op /\ b \in B  BY <4>1, EntryFacts
      <4>3. CASE b \in e.bitset  BY <1>0, <2>1, <2>3, <4>2, <4>3 DEF VotesOfOwner
      <4>4. CASE b = Bit(r)  BY <2>1, <4>2, <4>4
      <4>q. QED  BY <4>2, <4>3, <4>4 DEF B
    <3>2. CASE i # Slot(op)
      <4>1. quorum'[i] = quorum[i]  BY <1>0, <2>1, <3>2
      <4>q. QED  BY <1>0, <2>1, <4>1 DEF VotesOfOwner
    <3>q. QED  BY <3>1, <3>2
  <2>10. ReportedHasQuorum'
    <3> SUFFICES ASSUME NEW q \in reported'
                 PROVE  Cardinality({b \in 0 .. 31 : <<q[1], q[2], b>> \in votes'})
                          >= QUORUM_SIZE - 1
      BY DEF ReportedHasQuorum
    <3> DEFINE after == {b \in 0 .. 31 : <<q[1], q[2], b>> \in votes'}
    <3>1. after \in SUBSET (0 .. 31)  OBVIOUS
    <3>2. CASE q \in reported
      <4> DEFINE before == {b \in 0 .. 31 : <<q[1], q[2], b>> \in votes}
      <4>1. before \in SUBSET after  BY <2>1
      <4>2. Cardinality(before) >= QUORUM_SIZE - 1
        BY <1>0, <3>2 DEF ReportedHasQuorum
      <4>3. before \in SUBSET (0 .. 31)  OBVIOUS
      <4> HIDE DEF before, after
      <4>4. Cardinality(before) <= Cardinality(after)  BY <3>1, <4>1, BitsFinite, FS_Subset
      <4>5. Cardinality(after) >= QUORUM_SIZE - 1
        BY <3>1, <4>2, <4>3, <4>4, BitsFinite, QuorumSizeFacts
      <4>q. QED  BY <4>5 DEF after
    <3>3. CASE q = <<v, op>> /\ Completes(B)
      <4>1. B \in SUBSET after
        <5> SUFFICES ASSUME NEW b \in B  PROVE <<v, op, b>> \in votes' /\ b \in 0 .. 31
          BY <3>3
        <5>1. CASE b \in e.bitset  BY <1>0, <2>1, <2>3, <2>4, <5>1 DEF VotesOfOwner
        <5>2. CASE b = Bit(r)  BY <2>1, <2>2, <5>2
        <5>q. QED  BY <5>1, <5>2 DEF B
      <4> HIDE DEF after
      <4>2. Cardinality(B) <= Cardinality(after)  BY <3>1, <4>1, BitsFinite, FS_Subset
      <4>3. Cardinality(B) = QUORUM_SIZE - 1  BY <3>3 DEF Completes
      <4>4. Cardinality(after) >= QUORUM_SIZE - 1
        BY <2>4, <3>1, <4>2, <4>3, BitsFinite, QuorumSizeFacts
      <4>q. QED  BY <4>4 DEF after
    <3>q. QED  BY <2>1, <3>2, <3>3
  <2>q. QED  BY <2>6, <2>7, <2>8, <2>9, <2>10 DEF QuorumInv
<1>q. QED  BY <1>1, <1>2

\* With more than two replicas an entry just opened is short of a quorum.
LEMMA OpenEntryCounted ==
  ASSUME CLUSTER_SIZE > 2, QuorumInv, CountedIsReported,
         NEW v \in ViewFields, NEW op \in Ops, OpenEntry(v, op)
  PROVE  CountedIsReported'
<1>0. quorum \in [Slots -> Entries] /\ quorum' \in [Slots -> Entries]
  BY OpenEntryStep DEF QuorumInv, QuorumTypeOK
<1>1. UNCHANGED <<votes, reported, clipped>>  BY DEF OpenEntry
<1>2. CASE UNCHANGED quorum  BY <1>1, <1>2 DEF CountedIsReported
<1>3. CASE quorum' = [quorum EXCEPT ![Slot(op)] = NewEntry(v, op)]
  <2> SUFFICES ASSUME NEW i \in Slots,
                      Cardinality(quorum'[i].bitset) >= QUORUM_SIZE - 1
               PROVE  <<quorum'[i].view, quorum'[i].opnum>> \in reported \cup clipped
    BY <1>0, <1>1 DEF CountedIsReported
  <2>1. CASE i = Slot(op)
    <3>1. quorum'[i].bitset = {}
      BY <1>0, <1>3, <2>1, EntryFacts DEF NewEntry
    <3>2. Cardinality(quorum'[i].bitset) = 0  BY <3>1, FS_EmptySet
    <3>3. QUORUM_SIZE - 1 >= 1  BY DEF QUORUM_SIZE
    <3>q. QED  BY <3>2, <3>3, QuorumSizeFacts
  <2>2. CASE i # Slot(op)
    <3>1. quorum'[i] = quorum[i]  BY <1>0, <1>3, <2>2
    <3>q. QED  BY <1>0, <3>1 DEF CountedIsReported
  <2>q. QED  BY <2>1, <2>2
<1>q. QED  BY <1>2, <1>3 DEF OpenEntry

\* Votes come one at a time: the test for equality does not miss the quorum.
LEMMA PrepareOkCounted ==
  ASSUME QuorumInv, CountedIsReported,
         NEW v \in ViewFields, NEW op \in Ops, NEW r \in Voters,
         handle_prepare_ok(v, op, r)
  PROVE  CountedIsReported'
<1>0. quorum \in [Slots -> Entries] /\ quorum' \in [Slots -> Entries]
  BY PrepareOkStep DEF QuorumInv, QuorumTypeOK
<1>1. CASE UNCHANGED leaderVars
  BY <1>1 DEF leaderVars, quorumVars, CountedIsReported
<1>2. CASE ~UNCHANGED leaderVars
  <2> DEFINE e == quorum[Slot(op)]
             B == e.bitset \cup {Bit(r)}
  <2>1. /\ e.view = v /\ e.opnum = op
        /\ quorum' = [quorum EXCEPT ![Slot(op)] = QuorumEntry(v, op, B)]
        /\ \/ ~Completes(B) /\ UNCHANGED <<reported, clipped>>
           \/ reported' = reported \cup {<<v, op>>} /\ UNCHANGED clipped
           \/ clipped' = clipped \cup {<<v, op>>} /\ UNCHANGED reported
    BY <1>2 DEF handle_prepare_ok
  <2>2. Bit(r) \in 0 .. 31  BY DEF Bit
  <2>3. e \in Entries /\ Slot(op) \in Slots  BY <1>0, SlotInRange
  <2>4. e.bitset \in SUBSET (0 .. 31) /\ B \in SUBSET (0 .. 31)  BY <2>2, <2>3, EntryFacts
  <2>5. Cardinality(B) <= Cardinality(e.bitset) + 1
    <3>1. IsFiniteSet(e.bitset) /\ Cardinality(e.bitset) \in Nat  BY <2>4, BitsFinite
    <3>2. Cardinality(B) = IF Bit(r) \in e.bitset THEN Cardinality(e.bitset)
                           ELSE Cardinality(e.bitset) + 1
      BY <3>1, FS_AddElement
    <3>q. QED  BY <3>1, <3>2
  <2> HIDE DEF B
  <2> SUFFICES ASSUME NEW i \in Slots,
                      Cardinality(quorum'[i].bitset) >= QUORUM_SIZE - 1
               PROVE  <<quorum'[i].view, quorum'[i].opnum>> \in reported' \cup clipped'
    BY <1>0 DEF CountedIsReported
  <2>6. CASE i = Slot(op)
    <3>1. /\ quorum'[i].view = v /\ quorum'[i].opnum = op /\ quorum'[i].bitset = B
      BY <1>0, <2>1, <2>6, EntryFacts
    <3>2. CASE ~Completes(B) /\ UNCHANGED <<reported, clipped>>
      <4>1. Cardinality(B) # QUORUM_SIZE - 1 /\ Cardinality(B) >= QUORUM_SIZE - 1
        BY <3>1, <3>2 DEF Completes
      <4>2. Cardinality(B) \in Nat /\ Cardinality(e.bitset) \in Nat  BY <2>4, BitsFinite
      <4>3. Cardinality(e.bitset) >= QUORUM_SIZE - 1
        BY <2>5, <4>1, <4>2, QuorumSizeFacts
      <4>4. <<e.view, e.opnum>> \in reported \cup clipped
        BY <1>0, <2>3, <4>3 DEF CountedIsReported
      <4>q. QED  BY <2>1, <3>1, <3>2, <4>4
    <3>q. QED  BY <2>1, <3>1, <3>2
  <2>7. CASE i # Slot(op)
    <3>1. quorum'[i] = quorum[i]  BY <1>0, <2>1, <2>7
    <3>2. <<quorum[i].view, quorum[i].opnum>> \in reported \cup clipped
      BY <1>0, <3>1 DEF CountedIsReported
    <3>q. QED  BY <2>1, <3>1, <3>2
  <2>q. QED  BY <2>6, <2>7
<1>q. QED  BY <1>1, <1>2

-----------------------------------------------------------------------------
(***************************************************************************)
(* The chain of clones.                                                    *)
(***************************************************************************)
Followers == Replicas \ {leader_idx}

\* The replica a run addresses its copy to, known from its tag on.
Target(f) ==
  IF f.pc = "cloned" THEN f.id ELSE IF f.tag = Sp THEN FirstId ELSE f.tag

ChainTypeOK ==
  /\ leader_idx \in Replicas
  /\ msg \in ViewFields \X Ops
  /\ stack \in Seq(Frames)
  /\ delivered \in [0 .. CLUSTER_SIZE -> Nat]
  /\ failed \in BOOLEAN

\* The runs address the followers one after the other; all but the innermost
\* wait in bpf_clone_redirect.
StackInv ==
  /\ \A i \in 1 .. Len(stack) : Target(stack[i]) \in Followers
  /\ \A i \in 1 .. Len(stack) - 1 :
       /\ stack[i].pc = "cloned"
       /\ NextId(Target(stack[i])) = Target(stack[i + 1])
  /\ stack # <<>> => Target(stack[1]) = FirstId

\* Copies go out from the last follower to the first: those at the innermost
\* run or before it have none; those behind it have theirs unless a clone failed.
DeliveredInv ==
  /\ AtMostOneCopy
  /\ stack # <<>> =>
       /\ \A r \in 0 .. CLUSTER_SIZE : r <= Target(Top) => delivered[r] = 0
       /\ Top.pc = "start" => delivered = Nobody /\ ~failed
       /\ Top.pc = "cloned" /\ ~failed =>
            \A r \in Followers : r > Target(Top) => delivered[r] = 1

ChainInv == ChainTypeOK /\ StackInv /\ DeliveredInv /\ EveryFollowerServed

\* The followers in order.
LEMMA FollowerOrder ==
  ASSUME leader_idx \in Replicas
  PROVE  /\ FirstId \in Followers /\ \A r \in Followers : r >= FirstId
         /\ \A id \in Followers :
              /\ NextId(id) \in Nat /\ NextId(id) > id
              /\ NextId(id) < CLUSTER_SIZE => NextId(id) \in Followers
              /\ \A r \in Followers : r > id => r >= NextId(id)
BY DEF FirstId, NextId, Followers, Replicas

\* What popping and pushing a run does to the stack.
LEMMA StackFacts ==
  ASSUME NEW s \in Seq(Frames), s # <<>>
  PROVE  /\ Len(s) \in Nat /\ Len(s) >= 1 /\ \A i \in 1 .. Len(s) : s[i] \in Frames
         /\ SubSeq(s, 1, Len(s) - 1) \in Seq(Frames)
         /\ Len(SubSeq(s, 1, Len(s) - 1)) = Len(s) - 1
         /\ \A i \in 1 .. Len(s) - 1 : SubSeq(s, 1, Len(s) - 1)[i] = s[i]
<1>1. Len(s) \in Nat /\ Len(s) >= 1 /\ \A i \in 1 .. Len(s) : s[i] \in Frames
  OBVIOUS
<1> DEFINE n == Len(s) - 1
<1>2. 1 \in Int /\ n \in Int /\ n >= 0 /\ \A i \in 1 .. n : s[i] \in Frames  BY <1>1
<1> HIDE DEF n
<1>3. /\ SubSeq(s, 1, n) \in Seq(Frames)
      /\ Len(SubSeq(s, 1, n)) = IF 1 <= n THEN n - 1 + 1 ELSE 0
      /\ \A i \in 1 .. n - 1 + 1 : SubSeq(s, 1, n)[i] = s[1 + i - 1]
  BY <1>2, SubSeqProperties
<1>4. Len(SubSeq(s, 1, n)) = n  BY <1>2, <1>3
<1>5. \A i \in 1 .. n : SubSeq(s, 1, n)[i] = s[i]
  <2> SUFFICES ASSUME NEW i \in 1 .. n  PROVE SubSeq(s, 1, n)[i] = s[i]  OBVIOUS
  <2>1. i \in 1 .. n - 1 + 1 /\ 1 + i - 1 = i  BY <1>2
  <2>q. QED  BY <1>3, <2>1
<1>q. QED  BY <1>1, <1>3, <1>4, <1>5 DEF n

LEMMA PushFacts ==
  ASSUME NEW s \in Seq(Frames), NEW f \in Frames
  PROVE  /\ Append(s, f) \in Seq(Frames) /\ Len(Append(s, f)) = Len(s) + 1
         /\ Append(s, f) # <<>>
         /\ Append(s, f)[Len(s) + 1] = f
         /\ \A i \in 1 .. Len(s) : Append(s, f)[i] = s[i]
OBVIOUS

\* A run that is over leaves the run that waits for it on top.
LEMMA PopStep ==
  ASSUME ChainTypeOK, StackInv, stack # <<>>, stack' = Popped, UNCHANGED leader_idx
  PROVE  /\ stack' \in Seq(Frames) /\ StackInv'
         /\ stack' = <<>> => Target(Top) = FirstId
         /\ stack' # <<>> => /\ Top' = stack[Len(stack) - 1] /\ Top'.pc = "cloned"
                             /\ Target(Top)' \in Followers
                             /\ Target(Top)' = stack[Len(stack) - 1].id
                             /\ NextId(Target(Top)') = Target(Top)
<1> USE DEF ChainTypeOK
<1> DEFINE n == Len(stack)
<1>1. /\ n \in Nat /\ n >= 1 /\ \A i \in 1 .. n : stack[i] \in Frames
      /\ stack' \in Seq(Frames) /\ Len(stack') = n - 1
      /\ \A i \in 1 .. n - 1 : stack'[i] = stack[i]
  BY StackFacts DEF Popped
<1> HIDE DEF n
<1>2. \A i \in 1 .. n - 1 : Target(stack[i])' = Target(stack[i])
  BY <1>1 DEF Target, FirstId
<1>3. Followers' = Followers /\ FirstId' = FirstId  BY DEF Followers, FirstId
<1>4. \A id : NextId(id)' = NextId(id)  BY DEF NextId
<1>5. StackInv'
  <2>1. \A i \in 1 .. n - 1 : Target(stack[i])' \in Followers'
    BY <1>1, <1>2, <1>3 DEF StackInv, n
  <2>2. ASSUME NEW i \in 1 .. n - 2
        PROVE  /\ stack'[i].pc = "cloned"
               /\ NextId(Target(stack[i]))' = Target(stack[i + 1])'
    <3>1. i \in 1 .. n - 1 /\ i + 1 \in 1 .. n - 1  BY <1>1
    <3>2. stack[i].pc = "cloned" /\ NextId(Target(stack[i])) = Target(stack[i + 1])
      BY <3>1 DEF StackInv, n
    <3>3. Target(stack[i])' = Target(stack[i]) /\ Target(stack[i + 1])' = Target(stack[i + 1])
      BY <1>2, <3>1
    <3>q. QED  BY <1>1, <3>1, <3>2, <3>3 DEF NextId
  <2>3. ASSUME stack' # <<>>  PROVE Target(stack[1])' = FirstId'
    <3>1. 1 \in 1 .. n - 1  BY <1>1, <2>3
    <3>q. QED  BY <1>2, <1>3, <3>1 DEF StackInv
  <2>4. Len(stack') - 1 = n - 2  BY <1>1
  <2>q. QED  BY <1>1, <2>1, <2>2, <2>3, <2>4 DEF StackInv
<1>6. ASSUME stack' = <<>>  PROVE Target(Top) = FirstId
  <2>1. n = 1  BY <1>1, <1>6
  <2>q. QED  BY <2>1 DEF StackInv, Top, n
<1>7. ASSUME stack' # <<>>
      PROVE  /\ Top' = stack[n - 1] /\ Top'.pc = "cloned"
             /\ Target(Top)' \in Followers
             /\ Target(Top)' = stack[n - 1].id
             /\ NextId(Target(Top)') = Target(Top)
  <2>1. n - 1 \in 1 .. n - 1 /\ n - 1 \in 1 .. n /\ (n - 1) + 1 = n  BY <1>1, <1>7
  <2>2. Top' = stack[n - 1]  BY <1>1, <2>1 DEF Top
  <2>3. stack[n - 1].pc = "cloned" /\ NextId(Target(stack[n - 1])) = Target(stack[n])
    BY <2>1 DEF StackInv, n
  <2>4. Target(stack[n - 1]) = stack[n - 1].id  BY <2>3 DEF Target
  <2>5. Target(Top)' = stack[n - 1].id  BY <2>2, <2>3 DEF Target
  <2>6. Target(stack[n - 1]) \in Followers  BY <2>1 DEF StackInv, n
  <2>q. QED  BY <2>2, <2>3, <2>4, <2>5, <2>6 DEF Top, n
<1>q. QED  BY <1>1, <1>5, <1>6, <1>7 DEF n

LEMMA FrameFacts ==
  /\ \A t \in 1 .. Sp, i \in 0 .. CLUSTER_SIZE :
       Frame("start", t, i) \in Frames /\ Frame("cloned", t, i) \in Frames
  /\ \A p, t, i : /\ Frame(p, t, i).pc = p /\ Frame(p, t, i).tag = t
                  /\ Frame(p, t, i).id = i
BY DEF Frame, Frames, Sp

\* User space sends: nobody has a copy, and the first follower comes first.
LEMMA SendStep ==
  ASSUME ChainInv, NEW v \in Views, NEW op \in Ops, Send(v, op)
  PROVE  ChainInv'
<1> DEFINE f == Frame("start", Sp, 0)
<1>1. /\ stack' = <<f>> /\ msg' = <<<<1, v>>, op>> /\ delivered' = Nobody
      /\ ~failed' /\ failed' \in BOOLEAN /\ leader_idx' = leader_idx
      /\ leader_idx \in Replicas
  BY DEF Send, ChainInv, ChainTypeOK
<1>2. f \in Frames /\ f.pc = "start" /\ f.tag = Sp  BY FrameFacts DEF Sp
<1> HIDE DEF f
<1>3. /\ Len(stack') = 1 /\ stack'[1] = f /\ stack' # <<>> /\ Top' = f
      /\ stack' \in Seq(Frames)
  BY <1>1, <1>2 DEF Top
<1>4. Target(Top)' = FirstId /\ Target(stack[1])' = FirstId
  BY <1>1, <1>2, <1>3 DEF Target, FirstId
<1>5. FirstId \in Followers /\ Followers' = Followers /\ FirstId' = FirstId
  BY <1>1, FollowerOrder DEF Followers, FirstId
<1>6. ChainTypeOK'
  <2>1. msg' \in ViewFields \X Ops  BY <1>1 DEF ViewFields
  <2>2. delivered' \in [0 .. CLUSTER_SIZE -> Nat]  BY <1>1 DEF Nobody
  <2>q. QED  BY <1>1, <1>3, <2>1, <2>2 DEF ChainTypeOK
<1>7. StackInv'
  <2>1. \A i \in 1 .. Len(stack') : Target(stack[i])' \in Followers'
    BY <1>3, <1>4, <1>5
  <2>2. 1 .. Len(stack') - 1 = {}  BY <1>3
  <2>q. QED  BY <1>4, <1>5, <2>1, <2>2 DEF StackInv
<1>8. AtMostOneCopy'  BY <1>1 DEF AtMostOneCopy, Nobody, Replicas
<1>9. DeliveredInv'
  <2>1. \A r \in 0 .. CLUSTER_SIZE : delivered'[r] = 0  BY <1>1 DEF Nobody
  <2>2. Top'.pc = "start"  BY <1>2, <1>3
  <2>q. QED  BY <1>1, <1>8, <2>1, <2>2 DEF DeliveredInv, Nobody
<1>10. EveryFollowerServed'  BY <1>3 DEF EveryFollowerServed
<1>q. QED  BY <1>6, <1>7, <1>9, <1>10 DEF ChainInv

\* A run names the follower after its own and waits, or is the last.
LEMMA CloneStep ==
  ASSUME ChainInv, CloneNext
  PROVE  ChainInv'
<1>0. ChainTypeOK /\ StackInv /\ DeliveredInv /\ AtMostOneCopy
  BY DEF ChainInv, DeliveredInv
<1> DEFINE n   == Len(stack)
           id  == Target(Top)
           nxt == NextId(id)
           own == Frame("cloned", Top.tag, id)
           run == Append(Popped, own)
           new == Frame("start", nxt, 0)
<1>1. /\ stack # <<>> /\ Top.pc = "start" /\ UNCHANGED <<leader_idx, msg, delivered, failed>>
      /\ stack' = IF nxt < CLUSTER_SIZE THEN Append(run, new) ELSE run
  BY DEF CloneNext, Target
<1>2. /\ n \in Nat /\ n >= 1 /\ \A i \in 1 .. n : stack[i] \in Frames
      /\ Popped \in Seq(Frames) /\ Len(Popped) = n - 1
      /\ \A i \in 1 .. n - 1 : Popped[i] = stack[i]
  BY <1>0, <1>1, StackFacts DEF Popped, ChainTypeOK
<1>3. Top \in Frames /\ Top = stack[n]  BY <1>2 DEF Top
<1>4. id \in Followers  BY <1>0, <1>2, <1>3 DEF StackInv
<1>5. leader_idx \in Replicas /\ id \in 0 .. CLUSTER_SIZE - 1
  BY <1>0, <1>4 DEF ChainTypeOK, Followers, Replicas
<1>6. /\ nxt \in Nat /\ nxt > id /\ (nxt < CLUSTER_SIZE => nxt \in Followers)
      /\ \A r \in Followers : r > id => r >= nxt
  BY <1>4, <1>5, FollowerOrder
<1>7. own \in Frames /\ own.pc = "cloned" /\ own.id = id
  <2>1. Top.tag \in 1 .. Sp /\ id \in 0 .. CLUSTER_SIZE  BY <1>3, <1>5 DEF Frames
  <2>q. QED  BY <2>1, FrameFacts
<1>8. /\ run \in Seq(Frames) /\ Len(run) = n /\ run # <<>> /\ run[n] = own
      /\ \A i \in 1 .. n - 1 : run[i] = stack[i]
  <2>1. (n - 1) + 1 = n  BY <1>2
  <2> HIDE DEF own, n
  <2>q. QED  BY <1>2, <1>7, <2>1, PushFacts
<1>9. Followers' = Followers /\ FirstId' = FirstId  BY <1>1 DEF Followers, FirstId
<1>10. \A r \in 0 .. CLUSTER_SIZE : delivered'[r] = 0
  BY <1>0, <1>1 DEF DeliveredInv, Nobody
<1>11. delivered' = Nobody /\ ~failed'  BY <1>0, <1>1 DEF DeliveredInv
<1>12. AtMostOneCopy'  BY <1>0, <1>1 DEF AtMostOneCopy
<1>13. Target(stack[1]) = FirstId  BY <1>0, <1>1 DEF StackInv
<1> HIDE DEF id, nxt, own, run, new, n
<1>14. \A i \in 1 .. n - 1 : /\ stack[i].pc = "cloned" /\ stack[i].id = Target(stack[i])
                             /\ NextId(Target(stack[i])) = Target(stack[i + 1])
                             /\ Target(stack[i]) \in Followers
  <2> SUFFICES ASSUME NEW i \in 1 .. n - 1
               PROVE  /\ stack[i].pc = "cloned" /\ stack[i].id = Target(stack[i])
                      /\ NextId(Target(stack[i])) = Target(stack[i + 1])
                      /\ Target(stack[i]) \in Followers
    OBVIOUS
  <2>1. i \in 1 .. n  BY <1>2
  <2>q. QED  BY <1>0, <2>1 DEF StackInv, Target, n
<1>15. \A i \in 1 .. n : /\ run[i].pc = "cloned" /\ run[i].id = Target(stack[i])
                         /\ Target(stack[i]) \in Followers
  <2> SUFFICES ASSUME NEW i \in 1 .. n
               PROVE  /\ run[i].pc = "cloned" /\ run[i].id = Target(stack[i])
                      /\ Target(stack[i]) \in Followers
    OBVIOUS
  <2>1. CASE i = n  BY <1>3, <1>4, <1>7, <1>8, <2>1 DEF id
  <2>2. CASE i \in 1 .. n - 1  BY <1>8, <1>14, <2>2
  <2>q. QED  BY <1>2, <2>1, <2>2
<1>16. ASSUME stack' = run  PROVE StackInv'
  <2>1. \A i \in 1 .. n : Target(stack[i])' = Target(stack[i])
    BY <1>15, <1>16 DEF Target
  <2>2. \A i \in 1 .. n - 1 : NextId(Target(stack[i]))' = Target(stack[i + 1])'
    <3> SUFFICES ASSUME NEW i \in 1 .. n - 1
                 PROVE  NextId(Target(stack[i]))' = Target(stack[i + 1])'
      OBVIOUS
    <3>1. i \in 1 .. n /\ i + 1 \in 1 .. n  BY <1>2
    <3>2. NextId(Target(stack[i])) = Target(stack[i + 1])  BY <1>14
    <3>q. QED  BY <1>1, <2>1, <3>1, <3>2 DEF NextId
  <2>3. 1 \in 1 .. n  BY <1>2
  <2>4. Target(stack[1])' = FirstId'  BY <1>9, <1>13, <2>1, <2>3
  <2>5. \A i \in 1 .. n : Target(stack[i])' \in Followers'  BY <1>9, <1>15, <2>1
  <2>6. \A i \in 1 .. n - 1 : run[i].pc = "cloned"  BY <1>8, <1>14
  <2>q. QED  BY <1>8, <1>16, <2>2, <2>4, <2>5, <2>6 DEF StackInv
<1>17. CASE ~(nxt < CLUSTER_SIZE)
  <2>1. stack' = run  BY <1>1, <1>17
  <2>2. Top' = own  BY <1>8, <2>1 DEF Top
  <2>3. Target(Top)' = id  BY <1>7, <2>2 DEF Target
  <2>4. ASSUME NEW r \in Followers, r > id  PROVE FALSE
    <3>1. r >= nxt /\ r < CLUSTER_SIZE /\ r \in Nat
      BY <1>6, <2>4 DEF Followers, Replicas
    <3>q. QED  BY <1>6, <1>17, <3>1
  <2>5. DeliveredInv'
    BY <1>7, <1>9, <1>10, <1>12, <2>2, <2>3, <2>4 DEF DeliveredInv
  <2>6. ChainTypeOK'  BY <1>0, <1>1, <1>8, <2>1 DEF ChainTypeOK
  <2>7. EveryFollowerServed'  BY <1>8, <2>1 DEF EveryFollowerServed
  <2>q. QED  BY <1>16, <2>1, <2>5, <2>6, <2>7 DEF ChainInv
<1>18. CASE nxt < CLUSTER_SIZE
  <2>1. stack' = Append(run, new)  BY <1>1, <1>18
  <2>2. new \in Frames /\ new.pc = "start" /\ new.tag = nxt /\ new.tag # Sp
    <3>1. nxt \in 1 .. Sp /\ 0 \in 0 .. CLUSTER_SIZE /\ nxt # Sp
      BY <1>5, <1>6, <1>18 DEF Sp
    <3>q. QED  BY <3>1, FrameFacts DEF new
  <2>3. /\ stack' \in Seq(Frames) /\ Len(stack') = n + 1 /\ stack' # <<>>
        /\ stack'[n + 1] = new /\ \A i \in 1 .. n : stack'[i] = run[i]
    BY <1>8, <2>1, <2>2, PushFacts
  <2>4. \A i : i = n + 1 => Target(stack[i])' = nxt  BY <2>2, <2>3 DEF Target
  <2>5. \A i \in 1 .. n : Target(stack[i])' = Target(stack[i])
    BY <1>15, <2>3 DEF Target
  <2>6. StackInv'
    <3>1. ASSUME NEW i \in 1 .. n + 1  PROVE Target(stack[i])' \in Followers'
      <4>1. CASE i = n + 1  BY <1>6, <1>9, <1>18, <2>4, <4>1
      <4>2. CASE i \in 1 .. n  BY <1>9, <1>15, <2>5, <4>2
      <4>q. QED  BY <1>2, <4>1, <4>2
    <3>2. ASSUME NEW i \in 1 .. n
          PROVE  stack'[i].pc = "cloned" /\ NextId(Target(stack[i]))' = Target(stack[i + 1])'
      <4>1. stack'[i].pc = "cloned"  BY <1>15, <2>3
      <4>2. CASE i = n
        <5>1. Target(stack[i]) = id  BY <1>3, <4>2 DEF id
        <5>2. Target(stack[i])' = id  BY <2>5, <5>1
        <5>3. NextId(Target(stack[i]))' = NextId(id)  BY <1>1, <5>2 DEF NextId
        <5>4. NextId(id) = nxt  BY DEF nxt
        <5>5. Target(stack[i + 1])' = nxt  BY <2>4, <4>2
        <5>q. QED  BY <4>1, <5>3, <5>4, <5>5
      <4>3. CASE i \in 1 .. n - 1
        <5>1. i + 1 \in 1 .. n  BY <1>2, <4>3
        <5>2. NextId(Target(stack[i])) = Target(stack[i + 1])  BY <1>14, <4>3
        <5>3. NextId(Target(stack[i]))' = Target(stack[i + 1])'
          BY <1>1, <2>5, <5>1, <5>2 DEF NextId
        <5>q. QED  BY <4>1, <5>3
      <4>q. QED  BY <1>2, <4>2, <4>3
    <3>3. 1 \in 1 .. n  BY <1>2
    <3>4. Target(stack[1])' = FirstId'  BY <1>9, <1>13, <2>5, <3>3
    <3>5. Len(stack') - 1 = n  BY <1>2, <2>3
    <3>q. QED  BY <2>3, <3>1, <3>2, <3>4, <3>5 DEF StackInv
  <2>7. Top' = new  BY <2>3 DEF Top
  <2>8. DeliveredInv'  BY <1>10, <1>11, <1>12, <2>2, <2>7 DEF DeliveredInv
  <2>9. ChainTypeOK'  BY <1>0, <1>1, <2>3 DEF ChainTypeOK
  <2>10. EveryFollowerServed'  BY <2>3 DEF EveryFollowerServed
  <2>q. QED  BY <2>6, <2>8, <2>9, <2>10 DEF ChainInv
<1>q. QED  BY <1>17, <1>18

\* Of two runs next to each other the outer one addresses the earlier follower.
LEMMA OuterIsEarlier ==
  ASSUME ChainInv, stack # <<>>, Top.pc = "cloned", stack' = Popped, UNCHANGED leader_idx
  PROVE  /\ stack' \in Seq(Frames) /\ StackInv'
         /\ Target(Top) = Top.id /\ Top.id \in Followers /\ Top.id \in 0 .. CLUSTER_SIZE - 1
         /\ stack' = <<>> => \A r \in Followers : r >= Top.id
         /\ stack' # <<>> =>
              /\ Top'.pc = "cloned" /\ Target(Top)' \in Nat /\ Target(Top)' < Top.id
              /\ \A r \in Followers : r > Target(Top)' => r >= Top.id
<1>0. ChainTypeOK /\ StackInv  BY DEF ChainInv
<1>1. Target(Top) = Top.id  BY DEF Target
<1>2. Top.id \in Followers
  <2>1. Len(stack) \in 1 .. Len(stack)  BY <1>0, StackFacts DEF ChainTypeOK
  <2>q. QED  BY <1>0, <1>1, <2>1 DEF StackInv, Top
<1>3. leader_idx \in Replicas  BY <1>0 DEF ChainTypeOK
<1>4. Top.id \in 0 .. CLUSTER_SIZE - 1  BY <1>2 DEF Followers, Replicas
<1>5. /\ stack' \in Seq(Frames) /\ StackInv'
      /\ stack' = <<>> => Target(Top) = FirstId
      /\ stack' # <<>> => /\ Top'.pc = "cloned" /\ Target(Top)' \in Followers
                          /\ NextId(Target(Top)') = Target(Top)
  BY <1>0, PopStep
<1>6. ASSUME stack' = <<>>  PROVE \A r \in Followers : r >= Top.id
  BY <1>1, <1>3, <1>5, <1>6, FollowerOrder
<1>7. ASSUME stack' # <<>>
      PROVE  /\ Top'.pc = "cloned" /\ Target(Top)' \in Nat /\ Target(Top)' < Top.id
             /\ \A r \in Followers : r > Target(Top)' => r >= Top.id
  <2>1. /\ Top'.pc = "cloned" /\ Target(Top)' \in Followers
        /\ NextId(Target(Top)') = Top.id
    BY <1>1, <1>5, <1>7
  <2>2. PICK u \in Followers : u = Target(Top)'  BY <2>1
  <2>3. NextId(u) = Top.id /\ NextId(u) > u /\ \A r \in Followers : r > u => r >= NextId(u)
    BY <1>3, <2>1, <2>2, FollowerOrder
  <2>4. u \in Nat  BY DEF Followers, Replicas
  <2>q. QED  BY <1>4, <2>1, <2>2, <2>3, <2>4
<1>q. QED  BY <1>1, <1>2, <1>4, <1>5, <1>6, <1>7

\* Without the two innermost runs the others are in order as before.
LEMMA DropTwo ==
  ASSUME ChainTypeOK, StackInv, Len(stack) > 1,
         stack' = SubSeq(stack, 1, Len(stack) - 2), UNCHANGED leader_idx
  PROVE  /\ stack' \in Seq(Frames) /\ StackInv'
         /\ stack' # <<>> => Top'.pc = "cloned"
<1> USE DEF ChainTypeOK
<1> DEFINE n == Len(stack)
           k == n - 2
<1>1. /\ n \in Nat /\ k \in Nat /\ k = n - 2 /\ \A i \in 1 .. k : stack[i] \in Frames
      /\ 1 \in Int /\ k \in Int
  OBVIOUS
<1>2. stack' = SubSeq(stack, 1, k)  OBVIOUS
<1> HIDE DEF k
<1>3. /\ stack' \in Seq(Frames)
      /\ Len(stack') = IF 1 <= k THEN k - 1 + 1 ELSE 0
      /\ \A i \in 1 .. k - 1 + 1 : stack'[i] = stack[1 + i - 1]
  BY <1>1, <1>2, SubSeqProperties
<1>4. Len(stack') = k  BY <1>1, <1>3
<1>5. ASSUME NEW i \in 1 .. k  PROVE stack'[i] = stack[i]
  <2>1. i \in 1 .. k - 1 + 1 /\ 1 + i - 1 = i  BY <1>1
  <2>q. QED  BY <1>3, <2>1
<1>6. \A i \in 1 .. k : /\ Target(stack[i])' = Target(stack[i])
                        /\ i \in 1 .. Len(stack) /\ i \in 1 .. Len(stack) - 1
  BY <1>1, <1>5 DEF Target, FirstId
<1> HIDE DEF n
<1>7. Followers' = Followers /\ FirstId' = FirstId  BY DEF Followers, FirstId
<1>8. \A i \in 1 .. k : stack'[i].pc = "cloned" /\ Target(stack[i])' \in Followers'
  BY <1>5, <1>6, <1>7 DEF StackInv
<1>9. ASSUME NEW i \in 1 .. k - 1  PROVE NextId(Target(stack[i]))' = Target(stack[i + 1])'
  <2>1. i \in 1 .. k /\ i + 1 \in 1 .. k  BY <1>1
  <2>2. NextId(Target(stack[i])) = Target(stack[i + 1])  BY <1>6, <2>1 DEF StackInv
  <2>q. QED  BY <1>6, <2>1, <2>2 DEF NextId
<1>10. ASSUME stack' # <<>>  PROVE Target(stack[1])' = FirstId' /\ Top'.pc = "cloned"
  <2>1. k >= 1  BY <1>1, <1>3, <1>4, <1>10
  <2>2. 1 \in 1 .. k /\ k \in 1 .. k /\ stack # <<>>  BY <1>1, <2>1
  <2>3. Target(stack[1])' = FirstId'  BY <1>6, <1>7, <2>2 DEF StackInv
  <2>q. QED  BY <1>4, <1>8, <2>2, <2>3 DEF Top
<1>11. \A i \in 1 .. k - 1 : i \in 1 .. k  BY <1>1
<1>12. StackInv'  BY <1>4, <1>8, <1>9, <1>10, <1>11 DEF StackInv
<1>q. QED  BY <1>3, <1>10, <1>12

\* A clone that is not made costs its run's copy; nothing has gone out yet.
LEMMA NoCloneStep ==
  ASSUME ChainInv, Len(stack) > 1, Top.pc = "start",
         stack' = SubSeq(stack, 1, Len(stack) - 2), failed' = TRUE,
         UNCHANGED <<leader_idx, msg, delivered>>
  PROVE  ChainInv'
<1>0. ChainTypeOK /\ StackInv /\ DeliveredInv /\ AtMostOneCopy
  BY DEF ChainInv, DeliveredInv
<1>1. stack' \in Seq(Frames) /\ StackInv' /\ (stack' # <<>> => Top'.pc = "cloned")
  BY <1>0, DropTwo
<1>2. ChainTypeOK'  BY <1>0, <1>1 DEF ChainTypeOK
<1>3. stack # <<>>  BY <1>0 DEF ChainTypeOK
<1>4. delivered = Nobody  BY <1>0, <1>3 DEF DeliveredInv
<1>5. AtMostOneCopy'  BY <1>0 DEF AtMostOneCopy
<1>6. \A r \in 0 .. CLUSTER_SIZE : delivered'[r] = 0  BY <1>4 DEF Nobody
<1>7. DeliveredInv'  BY <1>1, <1>5, <1>6 DEF DeliveredInv
<1>8. EveryFollowerServed'  BY DEF EveryFollowerServed
<1>q. QED  BY <1>1, <1>2, <1>7, <1>8 DEF ChainInv

\* A clone that fails costs its run's copy; the runs outside it go on.
LEMMA CloneFailsStep ==
  ASSUME ChainInv, CloneFails
  PROVE  ChainInv'
<1>a. CASE Len(stack) > 1 /\ Top.pc = "start" /\ stack' = SubSeq(stack, 1, Len(stack) - 2)
  BY <1>a, NoCloneStep DEF CloneFails
<1> SUFFICES ASSUME stack # <<>>, Top.pc = "cloned", stack' = Popped  PROVE ChainInv'
  BY <1>a DEF CloneFails
<1>0. /\ ChainTypeOK /\ DeliveredInv /\ AtMostOneCopy
      /\ stack # <<>> /\ Top.pc = "cloned" /\ stack' = Popped /\ failed' = TRUE
      /\ UNCHANGED <<leader_idx, msg, delivered>>
  BY DEF ChainInv, DeliveredInv, CloneFails
<1>1. /\ stack' \in Seq(Frames) /\ StackInv' /\ Target(Top) = Top.id
      /\ Top.id \in 0 .. CLUSTER_SIZE - 1
      /\ stack' # <<>> => Top'.pc = "cloned" /\ Target(Top)' \in Nat /\ Target(Top)' < Top.id
  BY <1>0, OuterIsEarlier
<1>2. ChainTypeOK'  BY <1>0, <1>1 DEF ChainTypeOK
<1>3. \A r \in 0 .. CLUSTER_SIZE : r <= Top.id => delivered[r] = 0
  BY <1>0, <1>1 DEF DeliveredInv
<1>4. AtMostOneCopy'  BY <1>0 DEF AtMostOneCopy
<1>5. DeliveredInv'
  <2>1. ASSUME stack' # <<>>, NEW r \in 0 .. CLUSTER_SIZE, r <= Target(Top)'
        PROVE  delivered'[r] = 0
    <3>1. r <= Top.id  BY <1>1, <2>1
    <3>q. QED  BY <1>0, <1>3, <3>1
  <2>q. QED  BY <1>0, <1>1, <1>4, <2>1 DEF DeliveredInv
<1>6. EveryFollowerServed'  BY <1>0 DEF EveryFollowerServed
<1>q. QED  BY <1>1, <1>2, <1>5, <1>6 DEF ChainInv

\* A copy goes out, and it is the only one its follower gets.
LEMMA AddressStep ==
  ASSUME ChainInv, Address
  PROVE  ChainInv'
<1>0. /\ ChainTypeOK /\ DeliveredInv /\ AtMostOneCopy
      /\ stack # <<>> /\ Top.pc = "cloned" /\ stack' = Popped
      /\ delivered' = [delivered EXCEPT ![Top.id] = delivered[Top.id] + 1]
      /\ UNCHANGED <<leader_idx, msg, failed>>
  BY DEF ChainInv, DeliveredInv, Address
<1>1. /\ stack' \in Seq(Frames) /\ StackInv' /\ Target(Top) = Top.id
      /\ Top.id \in Followers /\ Top.id \in 0 .. CLUSTER_SIZE - 1
      /\ stack' = <<>> => \A r \in Followers : r >= Top.id
      /\ stack' # <<>> =>
           /\ Top'.pc = "cloned" /\ Target(Top)' \in Nat /\ Target(Top)' < Top.id
           /\ \A r \in Followers : r > Target(Top)' => r >= Top.id
  BY <1>0, OuterIsEarlier
<1> DEFINE to == Top.id
<1>2. /\ \A r \in 0 .. CLUSTER_SIZE : r <= to => delivered[r] = 0
      /\ ~failed => \A r \in Followers : r > to => delivered[r] = 1
  BY <1>0, <1>1 DEF DeliveredInv
<1>3. /\ delivered \in [0 .. CLUSTER_SIZE -> Nat] /\ to \in 0 .. CLUSTER_SIZE
      /\ leader_idx \in 0 .. CLUSTER_SIZE - 1 /\ to # leader_idx
      /\ \A r \in Followers : r \in 0 .. CLUSTER_SIZE - 1
  <2>1. delivered \in [0 .. CLUSTER_SIZE -> Nat] /\ leader_idx \in 0 .. CLUSTER_SIZE - 1
    BY <1>0 DEF ChainTypeOK, Replicas
  <2>2. to \in 0 .. CLUSTER_SIZE  BY <1>1
  <2>3. to # leader_idx  BY <1>1 DEF Followers
  <2>4. \A r \in Followers : r \in 0 .. CLUSTER_SIZE - 1  BY DEF Followers, Replicas
  <2>q. QED  BY <2>1, <2>2, <2>3, <2>4
<1> HIDE DEF to
<1>4. /\ delivered' \in [0 .. CLUSTER_SIZE -> Nat] /\ delivered'[to] = 1
      /\ \A r \in 0 .. CLUSTER_SIZE : r # to => delivered'[r] = delivered[r]
  <2>1. delivered[to] = 0  BY <1>2, <1>3
  <2>2. delivered' = [delivered EXCEPT ![to] = 1]  BY <1>0, <2>1 DEF to
  <2>q. QED  BY <1>3, <2>2
<1>5. ChainTypeOK'  BY <1>0, <1>1, <1>4 DEF ChainTypeOK
<1>6. AtMostOneCopy'
  <2>1. ASSUME NEW r \in Replicas \ {leader_idx}  PROVE delivered'[r] <= 1
    <3>1. r \in 0 .. CLUSTER_SIZE  BY DEF Replicas
    <3>2. delivered[r] <= 1  BY <1>0 DEF AtMostOneCopy
    <3>q. QED  BY <1>4, <3>1, <3>2
  <2>2. delivered'[leader_idx] = 0 /\ delivered'[CLUSTER_SIZE] = 0
    <3>1. /\ leader_idx \in 0 .. CLUSTER_SIZE /\ CLUSTER_SIZE \in 0 .. CLUSTER_SIZE
          /\ CLUSTER_SIZE # to
      BY <1>1, <1>3 DEF to
    <3>q. QED  BY <1>0, <1>3, <1>4, <3>1 DEF AtMostOneCopy
  <2>q. QED  BY <1>0, <2>1, <2>2 DEF AtMostOneCopy
<1>7. ASSUME ~failed, NEW r \in Followers, r >= to  PROVE delivered'[r] = 1
  <2>1. CASE r = to  BY <1>4, <2>1
  <2>2. CASE r > to  BY <1>2, <1>3, <1>4, <1>7, <2>2
  <2>q. QED  BY <1>3, <1>7, <2>1, <2>2
<1>8. Followers' = Followers  BY <1>0 DEF Followers
<1>9. DeliveredInv'
  <2>1. ASSUME stack' # <<>>, NEW r \in 0 .. CLUSTER_SIZE, r <= Target(Top)'
        PROVE  delivered'[r] = 0
    <3>1. r <= to /\ r # to  BY <1>1, <1>3, <2>1 DEF to
    <3>q. QED  BY <1>2, <1>4, <3>1
  <2>2. ASSUME stack' # <<>>, ~failed', NEW r \in Followers, r > Target(Top)'
        PROVE  delivered'[r] = 1
    <3>1. r >= to /\ ~failed  BY <1>0, <1>1, <2>2 DEF to
    <3>q. QED  BY <1>7, <3>1
  <2>q. QED  BY <1>1, <1>6, <1>8, <2>1, <2>2 DEF DeliveredInv
<1>10. EveryFollowerServed'
  <2>1. ASSUME stack' = <<>>, ~failed', NEW r \in Followers  PROVE delivered'[r] = 1
    <3>1. r >= to /\ ~failed  BY <1>0, <1>1, <2>1 DEF to
    <3>q. QED  BY <1>7, <3>1
  <2>q. QED  BY <1>8, <2>1 DEF EveryFollowerServed, Followers
<1>q. QED  BY <1>1, <1>5, <1>9, <1>10 DEF ChainInv

-----------------------------------------------------------------------------
(***************************************************************************)
(* The theorems.                                                           *)
(***************************************************************************)
IInv == QuorumInv /\ ChainInv

LEMMA InitInv == LeaderInit => IInv
<1> SUFFICES ASSUME LeaderInit  PROVE IInv  OBVIOUS
<1> USE DEF LeaderInit
<1> DEFINE first == NewEntry(<<0, 0>>, 0)
<1>1. first \in Entries /\ first.bitset = {}
  <2>1. <<0, 0>> \in ViewFields /\ 0 \in Ops  BY DEF ViewFields
  <2>q. QED  BY <2>1, EntryFacts DEF NewEntry
<1>2. \A i \in Slots : quorum[i] = first  BY DEF Slots
<1>3. quorum \in [Slots -> Entries]  BY <1>1 DEF Slots
<1>4. QuorumTypeOK  BY <1>3 DEF QuorumTypeOK
<1>5. VotesOfOwner  BY <1>1, <1>2, <1>3 DEF VotesOfOwner
<1>6. ReportedHasQuorum  BY DEF ReportedHasQuorum
<1>7. ChainTypeOK
  <2>1. msg \in ViewFields \X Ops  BY DEF ViewFields
  <2>2a. <<>> \in Seq(Frames)  OBVIOUS
  <2>2b. failed \in BOOLEAN  OBVIOUS
  <2>2. stack \in Seq(Frames) /\ failed \in BOOLEAN  BY <2>2a, <2>2b
  <2>3. delivered \in [0 .. CLUSTER_SIZE -> Nat]  BY DEF Nobody
  <2>q. QED  BY <2>1, <2>2, <2>3 DEF ChainTypeOK
<1>8. StackInv  BY DEF StackInv
<1>9. AtMostOneCopy  BY DEF AtMostOneCopy, Nobody, Replicas
<1>10. DeliveredInv /\ EveryFollowerServed  BY <1>9 DEF DeliveredInv, EveryFollowerServed
<1>q. QED  BY <1>4, <1>5, <1>6, <1>7, <1>8, <1>10 DEF IInv, QuorumInv, ChainInv

\* A step that leaves the broadcast, or the votes, alone.
LEMMA ChainUnchanged == ChainInv /\ UNCHANGED chainVars => ChainInv'
BY DEF ChainInv, chainVars, ChainTypeOK, StackInv, DeliveredInv, AtMostOneCopy,
       EveryFollowerServed, Followers, Target, FirstId, NextId, Top

LEMMA QuorumUnchanged ==
  /\ QuorumInv /\ UNCHANGED quorumVars => QuorumInv'
  /\ CountedIsReported /\ UNCHANGED quorumVars => CountedIsReported'
BY DEF QuorumInv, quorumVars, QuorumTypeOK, VotesOfOwner, ReportedHasQuorum,
       CountedIsReported

\* The view fields that packets bring.
LEMMA FieldFacts == \A v \in Views : <<0, v>> \in ViewFields
BY DEF ViewFields

\* In a broadcast too the entry is opened for a view field of a packet.
LEMMA BroadcastFields ==
  ChainInv => ToggleBroadcast(msg[1]) \in ViewFields /\ msg[2] \in Ops
<1> SUFFICES ASSUME ChainInv
             PROVE  ToggleBroadcast(msg[1]) \in ViewFields /\ msg[2] \in Ops
  OBVIOUS
<1>1. msg \in ViewFields \X Ops  BY DEF ChainInv, ChainTypeOK
<1>2. msg[1] \in ViewFields /\ msg[2] \in Ops  BY <1>1
<1>q. QED  BY <1>2, ToggleFacts

LEMMA NextInv == IInv /\ [LeaderNext]_leaderVars => IInv'
<1> SUFFICES ASSUME QuorumInv, ChainInv, [LeaderNext]_leaderVars  PROVE QuorumInv' /\ ChainInv'
  BY DEF IInv
<1>1. ASSUME NEW v \in Views, NEW op \in Ops, Send(v, op)  PROVE QuorumInv' /\ ChainInv'
  BY <1>1, SendStep, QuorumUnchanged DEF Send
<1>2. ASSUME NEW v \in Views, NEW op \in Ops, SendToOne(v, op)
      PROVE  QuorumInv' /\ ChainInv'
  <2>1. ToggleBroadcast(<<0, v>>) \in ViewFields  BY FieldFacts, ToggleFacts
  <2>2. QuorumInv'  BY <1>2, <2>1, OpenEntryStep DEF SendToOne
  <2>q. QED  BY <1>2, <2>2, ChainUnchanged DEF SendToOne
<1>3. CASE CloneNext
  <2>1. QuorumInv'  BY <1>3, BroadcastFields, OpenEntryStep DEF CloneNext
  <2>q. QED  BY <1>3, <2>1, CloneStep
<1>4. CASE CloneFails  BY <1>4, CloneFailsStep, QuorumUnchanged DEF CloneFails
<1>5. CASE Address  BY <1>5, AddressStep, QuorumUnchanged DEF Address
<1>6. ASSUME NEW v \in Views, NEW op \in Ops, NEW r \in Voters,
             handle_prepare_ok(<<0, v>>, op, r)
      PROVE  QuorumInv' /\ ChainInv'
  <2>1. QuorumInv'  BY <1>6, FieldFacts, PrepareOkStep
  <2>2. UNCHANGED chainVars  BY <1>6 DEF handle_prepare_ok, leaderVars
  <2>q. QED  BY <2>1, <2>2, ChainUnchanged
<1>7. CASE UNCHANGED leaderVars  BY <1>7, ChainUnchanged, QuorumUnchanged DEF leaderVars
<1>q. QED  BY <1>1, <1>2, <1>3, <1>4, <1>5, <1>6, <1>7 DEF LeaderNext

\* The inductive invariant holds throughout: the entries of map_quorum hold
\* votes of their own operation, and the runs of the egress program stand for
\* consecutive followers, of which those behind the innermost have their copy.
THEOREM Invariance == LeaderSpec => []IInv
<1>1. LeaderInit => IInv  BY InitInv
<1>2. IInv /\ [LeaderNext]_leaderVars => IInv'  BY NextInv
<1>q. QED  BY <1>1, <1>2, PTL DEF LeaderSpec

\* Every variable keeps its type; in particular the slot of an operation is in
\* map_quorum, and the run that clones never names a replica past the cluster.
THEOREM TypeCorrect == LeaderSpec => []LeaderTypeOK
<1>1. IInv => LeaderTypeOK
  BY DEF IInv, QuorumInv, ChainInv, ChainTypeOK, QuorumTypeOK, LeaderTypeOK, Slots, Entries
<1>q. QED  BY <1>1, Invariance, PTL

\* Whatever happens to the clones, no replica gets a second copy and the
\* leader none (main.rs handle_udp_fast_broad_cast).
THEOREM NoSecondCopy == LeaderSpec => []AtMostOneCopy
<1>1. IInv => AtMostOneCopy  BY DEF IInv, ChainInv, DeliveredInv
<1>q. QED  BY <1>1, Invariance, PTL

\* A broadcast in which no clone failed has reached every follower when the
\* outermost run returns, for any size of the cluster.
THEOREM FollowersServed == LeaderSpec => []EveryFollowerServed
<1>1. IInv => EveryFollowerServed  BY DEF IInv, ChainInv
<1>q. QED  BY <1>1, Invariance, PTL

\* An entry of map_quorum never holds a vote for another operation or view,
\* however operations share the slots.
THEOREM VotesStayWithOwner == LeaderSpec => []VotesOfOwner
<1>1. IInv => VotesOfOwner  BY DEF IInv, QuorumInv
<1>q. QED  BY <1>1, Invariance, PTL

\* User space is told of a quorum only when enough different replicas voted
\* (main.rs handle_prepare_ok).
THEOREM ReportsAreBacked == LeaderSpec => []ReportedHasQuorum
<1>1. IInv => ReportedHasQuorum  BY DEF IInv, QuorumInv
<1>q. QED  BY <1>1, Invariance, PTL

\* With more than two replicas no counted quorum goes unreported, except by a
\* packet that could not be trimmed.  With two the quorum needs no PrepareOK,
\* and the equality test of handle_prepare_ok is never met.
THEOREM QuorumsAreReported ==
  ASSUME CLUSTER_SIZE > 2
  PROVE  LeaderSpec => []CountedIsReported
<1>1. LeaderInit => CountedIsReported
  <2> SUFFICES ASSUME LeaderInit  PROVE CountedIsReported  OBVIOUS
  <2>1. \A i \in DOMAIN quorum : quorum[i].bitset = {}
    BY EntryFacts DEF LeaderInit, NewEntry
  <2>2. Cardinality({}) = 0  BY FS_EmptySet
  <2>3. QUORUM_SIZE - 1 >= 1  BY DEF QUORUM_SIZE
  <2>4. ASSUME NEW i \in DOMAIN quorum  PROVE ~(Cardinality(quorum[i].bitset) >= QUORUM_SIZE - 1)
    <3>1. Cardinality(quorum[i].bitset) = 0  BY <2>1, <2>2
    <3>q. QED  BY <2>3, <3>1, QuorumSizeFacts
  <2>q. QED  BY <2>4 DEF CountedIsReported
<1>2. IInv /\ CountedIsReported /\ [LeaderNext]_leaderVars => CountedIsReported'
  <2> SUFFICES ASSUME QuorumInv, ChainInv, CountedIsReported, [LeaderNext]_leaderVars
               PROVE  CountedIsReported'
    BY DEF IInv
  <2>1. ASSUME NEW v \in Views, NEW op \in Ops, Send(v, op)  PROVE CountedIsReported'
    BY <2>1, QuorumUnchanged DEF Send
  <2>2. ASSUME NEW v \in Views, NEW op \in Ops, SendToOne(v, op)
        PROVE  CountedIsReported'
    <3>1. ToggleBroadcast(<<0, v>>) \in ViewFields  BY FieldFacts, ToggleFacts
    <3>q. QED  BY <2>2, <3>1, OpenEntryCounted DEF SendToOne
  <2>3. CASE CloneNext  BY <2>3, BroadcastFields, OpenEntryCounted DEF CloneNext
  <2>4. CASE CloneFails  BY <2>4, QuorumUnchanged DEF CloneFails
  <2>5. CASE Address  BY <2>5, QuorumUnchanged DEF Address
  <2>6. ASSUME NEW v \in Views, NEW op \in Ops, NEW r \in Voters,
               handle_prepare_ok(<<0, v>>, op, r)
        PROVE  CountedIsReported'
    BY <2>6, FieldFacts, PrepareOkCounted
  <2>7. CASE UNCHANGED leaderVars  BY <2>7, QuorumUnchanged DEF leaderVars
  <2>q. QED  BY <2>1, <2>2, <2>3, <2>4, <2>5, <2>6, <2>7 DEF LeaderNext
<1>q. QED  BY <1>1, <1>2, Invariance, PTL DEF LeaderSpec

=============================================================================
