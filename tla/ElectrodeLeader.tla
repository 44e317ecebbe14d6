-------------------------- MODULE ElectrodeLeader --------------------------
(***************************************************************************)
(* The leader's side of samples/electrode: broadcast and vote counting.    *)
(*                                                                         *)
(* The leader's user-space process sends one packet, and the TC egress     *)
(* program turns it into one packet for every other replica.  Each run of  *)
(* the program names the next replica in the packet, clones it with        *)
(* bpf_clone_redirect - the clone goes through the egress program before   *)
(* the call returns - and then addresses its own copy; the runs form a     *)
(* stack.  Each run first opens the entry of map_quorum for the operation. *)
(* The XDP program counts PrepareOKs in the entry and lets only the one    *)
(* that completes the quorum through to user space.                        *)
(*                                                                         *)
(* view, op and replica are the values the code reads from a packet.  It   *)
(* looks for the message type behind the type string and for the vote      *)
(* inside it, so only packets that happen to have the right bytes there    *)
(* get to the counting; the model is of the code on those packets.         *)
(***************************************************************************)
EXTENDS Naturals, Sequences, FiniteSets

CONSTANTS
  CLUSTER_SIZE,          \* number of replicas
  QUORUM_BITSET_ENTRY,   \* entries of map_quorum
  Views, Ops,            \* bounds: views and operation numbers in packets
  Voters                 \* bound: replica indices in PrepareOKs

ASSUME LeaderAssumption ==
  /\ CLUSTER_SIZE \in Nat \ {0, 1}
  /\ QUORUM_BITSET_ENTRY \in Nat \ {0}
  /\ \E t \in 0 .. 10 : QUORUM_BITSET_ENTRY = 2^t   \* so that & is %
  /\ Views \subseteq Nat /\ Ops \subseteq Nat /\ Voters \subseteq Nat
  /\ 0 \in Views /\ 0 \in Ops

QUORUM_SIZE == (CLUSTER_SIZE + 1) \div 2
Replicas == 0 .. (CLUSTER_SIZE - 1)

\* A view field is its BROADCAST_SIGN_BIT and the other 31 bits.
ViewFields == (0 .. 1) \X Views

\* x ^ BROADCAST_SIGN_BIT
ToggleBroadcast(x) == <<1 - x[1], x[2]>>

VARIABLES
  leader_idx,   \* map_ctr_state: leader_idx
  msg,          \* view field and operation of the packet being sent
  stack,        \* runs of the egress program, the innermost one last
  delivered,    \* copies addressed to each replica in this broadcast
  failed,       \* did bpf_clone_redirect fail in this broadcast?
  quorum,       \* map_quorum
  votes,        \* PrepareOKs counted, as <<view, op, bit>>
  reported,     \* <<view, op>> whose completing PrepareOK was passed on
  clipped       \* <<view, op>> whose completing PrepareOK was dropped
                \* because bpf_xdp_adjust_tail failed

chainVars  == <<leader_idx, msg, stack, delivered, failed>>
quorumVars == <<quorum, votes, reported, clipped>>
leaderVars == <<chainVars, quorumVars>>

\* tag: what type_str[0] says on entry; id: whom the run addresses its copy to.
Sp     == CLUSTER_SIZE + 1    \* the tag "sp" of a packet not yet cloned
Frames == [pc: {"start", "cloned"}, tag: 1 .. Sp, id: 0 .. CLUSTER_SIZE]
Frame(p, t, i) == [pc |-> p, tag |-> t, id |-> i]
Nobody == [r \in 0 .. CLUSTER_SIZE |-> 0]

Slot(op) == op % QUORUM_BITSET_ENTRY
QuorumEntry(v, op, bits) == [view |-> v, opnum |-> op, bitset |-> bits]
NewEntry(v, op) == QuorumEntry(v, op, {})

LeaderTypeOK ==
  /\ leader_idx \in Replicas
  /\ msg \in ViewFields \X Ops
  /\ stack \in Seq(Frames)
  /\ delivered \in [0 .. CLUSTER_SIZE -> Nat]
  /\ failed \in BOOLEAN
  /\ quorum \in [0 .. (QUORUM_BITSET_ENTRY - 1) ->
                   [view: ViewFields, opnum: Ops, bitset: SUBSET (0 .. 31)]]
  /\ votes \subseteq ViewFields \X Ops \X (0 .. 31)
  /\ reported \subseteq ViewFields \X Ops
  /\ clipped \subseteq ViewFields \X Ops

LeaderInit ==
  /\ leader_idx \in Replicas
  /\ msg = <<<<0, 0>>, 0>>
  /\ stack = <<>>
  /\ delivered = Nobody
  /\ failed = FALSE
  /\ quorum = [i \in 0 .. (QUORUM_BITSET_ENTRY - 1) |-> NewEntry(<<0, 0>>, 0)]
  /\ votes = {}
  /\ reported = {}
  /\ clipped = {}

-----------------------------------------------------------------------------
(***************************************************************************)
(* Egress.                                                                 *)
(***************************************************************************)
\* Faulty variant: the bits of the operation that had the entry are kept.
OpenEntryKeepsBits(v, op) ==
  /\ quorum' = [quorum EXCEPT ![Slot(op)] = QuorumEntry(v, op, @.bitset)]
  /\ UNCHANGED <<votes, reported, clipped>>

\* The entry is taken over unless it is this operation's already.
OpenEntry(v, op) ==
  /\ LET e == quorum[Slot(op)] IN
       quorum' = IF e.view # v \/ e.opnum # op
                 THEN [quorum EXCEPT ![Slot(op)] = NewEntry(v, op)]
                 ELSE quorum
  /\ UNCHANGED <<votes, reported, clipped>>

\* User space sends a packet, the broadcast bit set in its view field.
Send(v, op) ==
  /\ stack = <<>>
  /\ msg' = <<<<1, v>>, op>>
  /\ stack' = <<Frame("start", Sp, 0)>>
  /\ delivered' = Nobody
  /\ failed' = FALSE
  /\ UNCHANGED <<leader_idx, quorumVars>>

\* A packet without the bit only opens the entry and goes out as it is.
SendToOne(v, op) ==
  /\ stack = <<>>
  /\ OpenEntry(ToggleBroadcast(<<0, v>>), op)
  /\ UNCHANGED chainVars

Top == stack[Len(stack)]
Popped == SubSeq(stack, 1, Len(stack) - 1)

\* Faulty variant: the first packet always starts at replica 0.
FirstIdZero == 0

FirstId == IF leader_idx = 0 THEN 1 ELSE 0

\* Faulty variant: a replica that is not the leader is left out as well.
NextIdSkips(id) == IF leader_idx >= id + 1 THEN id + 2 ELSE id + 1

\* nxt = id + 1, and once more if that is the leader.
NextId(id) == IF leader_idx = id + 1 THEN id + 2 ELSE id + 1

\* Faulty variant: the clone is tagged "sp" too, so it starts over.
CloneStartsOver ==
  /\ stack # <<>> /\ Top.pc = "start"
  /\ stack' = Append(Popped, Frame("start", Sp, 0))
  /\ OpenEntry(ToggleBroadcast(msg[1]), msg[2])
  /\ UNCHANGED <<leader_idx, msg, delivered, failed>>

\* The run up to bpf_clone_redirect, which puts the clone's run on the stack.
CloneNext ==
  /\ stack # <<>> /\ Top.pc = "start"
  /\ OpenEntry(ToggleBroadcast(msg[1]), msg[2])
  /\ LET id  == IF Top.tag = Sp THEN FirstId ELSE Top.tag
         nxt == NextId(id)
         run == Append(Popped, Frame("cloned", Top.tag, id))
     IN stack' = IF nxt < CLUSTER_SIZE THEN Append(run, Frame("start", nxt, 0)) ELSE run
  /\ UNCHANGED <<leader_idx, msg, delivered, failed>>

\* bpf_clone_redirect(..).unwrap() panics, after the clone has run or without
\* a clone having been made: the packet of this run is lost.
CloneFails ==
  /\ \/ /\ stack # <<>> /\ Top.pc = "cloned" /\ NextId(Top.id) < CLUSTER_SIZE
        /\ stack' = Popped
     \/ /\ Len(stack) > 1 /\ Top.pc = "start"
        /\ stack' = SubSeq(stack, 1, Len(stack) - 2)
  /\ failed' = TRUE
  /\ UNCHANGED <<leader_idx, msg, delivered, quorumVars>>

\* The rest of the run: the tag becomes "sp" again, the packet is addressed
\* to replica id and goes out.
Address ==
  /\ stack # <<>> /\ Top.pc = "cloned"
  /\ stack' = Popped
  /\ delivered' = [delivered EXCEPT ![Top.id] = @ + 1]
  /\ UNCHANGED <<leader_idx, msg, failed, quorumVars>>

-----------------------------------------------------------------------------
(***************************************************************************)
(* Ingress.                                                                *)
(***************************************************************************)
\* 1 << replica keeps the low five bits of the shift amount.
Bit(replica) == replica % 32

\* Faulty variant: one vote too few.
CompletesEarly(bitset) == Cardinality(bitset) >= QUORUM_SIZE - 2

\* Faulty variant: forgets that the leader's own vote counts.
CompletesLate(bitset) == Cardinality(bitset) = QUORUM_SIZE

Completes(bitset) == Cardinality(bitset) = QUORUM_SIZE - 1

handle_prepare_ok(v, op, replica) ==
  LET e      == quorum[Slot(op)]
      bitset == e.bitset \cup {Bit(replica)}
      forMe  == e.view = v /\ e.opnum = op
  IN
  \* not the operation the entry is for: XDP_PASS
  \/ ~forMe /\ UNCHANGED leaderVars
  \/ /\ forMe
     /\ quorum' = [quorum EXCEPT ![Slot(op)] = QuorumEntry(v, op, bitset)]
     /\ votes' = votes \cup {<<v, op, Bit(replica)>>}
     /\ \/ ~Completes(bitset) /\ UNCHANGED <<reported, clipped>>
        \/ Completes(bitset) /\ reported' = reported \cup {<<v, op>>} /\ UNCHANGED clipped
        \/ Completes(bitset) /\ clipped' = clipped \cup {<<v, op>>} /\ UNCHANGED reported
     /\ UNCHANGED chainVars

-----------------------------------------------------------------------------
LeaderNext ==
  \/ \E v \in Views, op \in Ops : Send(v, op) \/ SendToOne(v, op)
  \/ CloneNext
  \/ CloneFails
  \/ Address
  \/ \E v \in Views, op \in Ops, r \in Voters :
       handle_prepare_ok(<<0, v>>, op, r)   \* views stay below 2^31

\* The egress program runs on until the packet is out.
LeaderFairness == WF_leaderVars(CloneNext) /\ WF_leaderVars(Address)

LeaderSpec == LeaderInit /\ [][LeaderNext]_leaderVars /\ LeaderFairness

-----------------------------------------------------------------------------
(***************************************************************************)
(* Properties.                                                             *)
(***************************************************************************)

\* No replica gets two copies, and the leader none, at whatever point the
\* chain of clones breaks (main.rs handle_udp_fast_broad_cast).
AtMostOneCopy ==
  /\ \A r \in Replicas \ {leader_idx} : delivered[r] <= 1
  /\ delivered[leader_idx] = 0 /\ delivered[CLUSTER_SIZE] = 0

\* If no clone failed, every replica but the leader has its copy when the
\* outermost run returns.
EveryFollowerServed ==
  stack = <<>> /\ ~failed /\ delivered # Nobody =>
    \A r \in Replicas \ {leader_idx} : delivered[r] = 1

\* The clones do not go on cloning: each broadcast comes to an end.
BroadcastEnds == stack # <<>> ~> stack = <<>>

\* User space is told of a quorum only if that many different replicas have
\* voted for this operation in this view, whichever operations have shared
\* the entry in between and however often votes are repeated
\* (main.rs handle_prepare_ok).
ReportedHasQuorum ==
  \A q \in reported :
    Cardinality({b \in 0 .. 31 : <<q[1], q[2], b>> \in votes}) >= QUORUM_SIZE - 1

\* An entry holds votes of its own operation only (main.rs
\* handle_udp_fast_broad_cast resets the bits when it takes an entry over).
VotesOfOwner ==
  \A i \in DOMAIN quorum : \A b \in quorum[i].bitset :
    <<quorum[i].view, quorum[i].opnum, b>> \in votes

\* A quorum that has been counted has been reported, unless the packet that
\* completed it could not be trimmed: the test is for equality, so no later
\* vote makes up for a lost one (main.rs handle_prepare_ok).
CountedIsReported ==
  \A i \in DOMAIN quorum :
    Cardinality(quorum[i].bitset) >= QUORUM_SIZE - 1 =>
      <<quorum[i].view, quorum[i].opnum>> \in reported \cup clipped

=============================================================================
