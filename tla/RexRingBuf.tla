----------------------------- MODULE RexRingBuf -----------------------------
(***************************************************************************)
(* The ring buffer of Rex programs: RexRingBuf and RexRingBufEntry, over   *)
(* the kernel's ring, which is modelled from how they use it.  Programs on *)
(* several CPUs reserve records, write into them as text or as bytes,      *)
(* submit or discard them, or panic and abandon them; a consumer in user   *)
(* space takes the records in the order they were reserved.                *)
(*                                                                         *)
(* A record takes one place of the ring whatever its length.  The string   *)
(* of the nth call of write_str consists of bytes n.                       *)
(***************************************************************************)
EXTENDS Integers, Sequences, FiniteSets

CONSTANTS Producers,   \* CPUs that run a program
          Places,      \* number of records the ring has room for
          Lengths,     \* lengths in bytes a program asks for
          MaxWrite,    \* bound: length of a string
          MaxWrites,   \* bound: calls of write_str for a record
          MaxRecords   \* bound: records reserved

ASSUME RingAssumption ==
  /\ Places \in Nat \ {0} /\ Lengths \subseteq Nat
  /\ MaxWrite \in Nat /\ MaxWrites \in Nat /\ MaxRecords \in Nat

VARIABLES
  prod, cons,   \* records reserved, records consumed
  ring,         \* per place: state, bytes and, as history, who wrote what
  entry,        \* the RexRingBufEntry of each program, or NoEntry
  sent,         \* history: numbers of the records submitted
  abandoned,    \* history: numbers of the records no one will finish
  got,          \* history: what the consumer has received, in order
  overruns      \* history: lengths of records write_str panicked on

rvars == <<prod, cons, ring, entry, sent, abandoned, got, overruns>>

NoEntry == [place |-> -1]
NUL     == 0
Stale   == -1          \* a byte left over from an earlier record
PlaceOf(n) == n % Places
Record(n, st, data, text) == [num |-> n, st |-> st, data |-> data, text |-> text]
Bytes(size) == [i \in 0 .. size - 1 |-> Stale]

RingInit ==
  /\ prod = 0 /\ cons = 0
  /\ ring = [p \in 0 .. Places - 1 |-> Record(-1, "free", Bytes(0), << >>)]
  /\ entry = [c \in Producers |-> NoEntry]
  /\ sent = {} /\ abandoned = {} /\ got = << >> /\ overruns = {}

(* bpf_ringbuf_reserve; None when there is no room.  The text of a record  *)
(* is what the program wrote with write_str; it starts without any.        *)
reserve(c, size) ==
  /\ entry[c] = NoEntry
  /\ prod < MaxRecords /\ prod - cons < Places
  /\ ring' = [ring EXCEPT ![PlaceOf(prod)] = Record(prod, "busy", Bytes(size), << >>)]
  /\ entry' = [entry EXCEPT ![c] = [place |-> PlaceOf(prod), off |-> 0, calls |-> 0]]
  /\ prod' = prod + 1
  /\ UNCHANGED <<cons, sent, abandoned, got, overruns>>

(* write_str: the bytes after off and a NUL behind them, or fmt::Error     *)
(* when there is no room for both.                                         *)
Avail(size, off) == IF size > off + 1 THEN size - (off + 1) ELSE 0
\* Faulty variant: the NUL is not written.
WriteNoNul(data, off, n, byte) ==
  [i \in DOMAIN data |-> IF i \in off .. off + n - 1 THEN byte ELSE data[i]]
WriteStr(data, off, n, byte) ==
  [i \in DOMAIN data |-> CASE i \in off .. off + n - 1 -> byte
                           [] i = off + n -> NUL
                           [] OTHER -> data[i]]

write_str(c, n) ==
  /\ entry[c] # NoEntry /\ entry[c].calls < MaxWrites
  /\ LET e == entry[c]
         r == ring[e.place]
         size == Cardinality(DOMAIN r.data)
         end == e.off + n
     IN /\ n <= Avail(size, e.off)
        /\ end < size
        /\ ring' = [ring EXCEPT ![e.place] =
                      Record(r.num, r.st, WriteStr(r.data, e.off, n, e.calls + 1),
                             r.text \o [i \in 1 .. n |-> e.calls + 1])]
        /\ entry' = [entry EXCEPT ![c] = [place |-> e.place, off |-> end,
                                          calls |-> e.calls + 1]]
  /\ UNCHANGED <<prod, cons, sent, abandoned, got, overruns>>

(* A value stored over the bytes of the record through deref_mut, as       *)
(* map_test_ringbuf does: the record is no text any more.                  *)
deref_mut(c) ==
  /\ entry[c] # NoEntry
  /\ LET e == entry[c]
         r == ring[e.place]
     IN /\ ring' = [ring EXCEPT ![e.place] =
                      Record(r.num, r.st, [i \in DOMAIN r.data |-> 1], << >>)]
        /\ entry' = [entry EXCEPT ![c] = [place |-> e.place, off |-> e.off,
                                          calls |-> MaxWrites]]
  /\ UNCHANGED <<prod, cons, sent, abandoned, got, overruns>>

(* data[end] = 0 is outside of the slice: the program panics. *)
write_str_overrun(c, n) ==
  /\ entry[c] # NoEntry
  /\ LET e == entry[c]
         r == ring[e.place]
         size == Cardinality(DOMAIN r.data)
     IN /\ n <= Avail(size, e.off)
        /\ e.off + n >= size
        /\ overruns' = overruns \cup {size}
        /\ abandoned' = abandoned \cup {r.num}
  /\ entry' = [entry EXCEPT ![c] = NoEntry]
  /\ UNCHANGED <<prod, cons, ring, sent, got>>

(* The kernel works on the record that is at the address now. *)
Finish(p, st) == ring' = [ring EXCEPT ![p] = Record(@.num, st, @.data, @.text)]

\* Faulty variant: without mem::forget the drop handler discards as well.
SubmitNoForget(c) ==
  /\ entry[c] # NoEntry
  /\ LET p == entry[c].place IN
       /\ sent' = sent \cup {ring[p].num}
       /\ Finish(p, "discarded")
  /\ entry' = [entry EXCEPT ![c] = NoEntry]
  /\ UNCHANGED <<prod, cons, abandoned, got, overruns>>

submit(c) ==
  /\ entry[c] # NoEntry
  /\ LET p == entry[c].place IN
       /\ sent' = sent \cup {ring[p].num}
       /\ Finish(p, "ready")
  /\ entry' = [entry EXCEPT ![c] = NoEntry]     \* mem::forget: no drop
  /\ UNCHANGED <<prod, cons, abandoned, got, overruns>>

\* Faulty variant: an entry that goes out of scope is forgotten.
DropNothing(c) ==
  /\ entry[c] # NoEntry
  /\ entry' = [entry EXCEPT ![c] = NoEntry]
  /\ UNCHANGED <<prod, cons, ring, sent, abandoned, got, overruns>>

(* discard, or the entry goes out of scope. *)
discard(c) ==
  /\ entry[c] # NoEntry
  /\ Finish(entry[c].place, "discarded")
  /\ entry' = [entry EXCEPT ![c] = NoEntry]
  /\ UNCHANGED <<prod, cons, sent, abandoned, got, overruns>>

(* A panic or the watchdog: no drop handler runs, and the runtime keeps no *)
(* cleanup entry for a record.                                             *)
abandon(c) ==
  /\ entry[c] # NoEntry
  /\ abandoned' = abandoned \cup {ring[entry[c].place].num}
  /\ entry' = [entry EXCEPT ![c] = NoEntry]
  /\ UNCHANGED <<prod, cons, ring, sent, got, overruns>>

(* output: reserve, copy and submit in one call; Err when there is no room. *)
output(c) ==
  /\ entry[c] = NoEntry
  /\ prod < MaxRecords /\ prod - cons < Places
  /\ ring' = [ring EXCEPT ![PlaceOf(prod)] = Record(prod, "ready", WriteStr(Bytes(2), 0, 1, 1), <<1>>)]
  /\ sent' = sent \cup {prod}
  /\ prod' = prod + 1
  /\ UNCHANGED <<cons, entry, abandoned, got, overruns>>

(* The bytes before the first NUL; a record without one is no string. *)
CString(data) ==
  LET ends == {i \in DOMAIN data : data[i] = NUL /\ \A j \in 0 .. i - 1 : data[j] # NUL}
  IN IF ends = {} THEN <<Stale>>
     ELSE LET e == CHOOSE i \in ends : TRUE IN [i \in 1 .. e |-> data[i - 1]]

(* The consumer takes the next record unless it is still being written. *)
consume ==
  /\ cons < prod /\ ring[PlaceOf(cons)].st # "busy"
  /\ LET r == ring[PlaceOf(cons)] IN
       got' = IF r.st = "discarded" THEN got
              ELSE Append(got, [num |-> r.num, text |-> r.text, read |-> CString(r.data)])
  /\ cons' = cons + 1
  /\ UNCHANGED <<prod, ring, entry, sent, abandoned, overruns>>

RingNext ==
  \/ \E c \in Producers :
       \/ \E size \in Lengths : reserve(c, size)
       \/ \E n \in 0 .. MaxWrite : write_str(c, n) \/ write_str_overrun(c, n)
       \/ deref_mut(c) \/ submit(c) \/ discard(c) \/ abandon(c) \/ output(c)
  \/ consume

(* A program does not keep a record for ever: it finishes it, or the       *)
(* watchdog ends the program.  The consumer polls.                         *)
RingFairness ==
  /\ \A c \in Producers : WF_rvars(submit(c) \/ discard(c) \/ abandon(c))
  /\ WF_rvars(consume)
-----------------------------------------------------------------------------
(* The consumer gets exactly the records that were submitted, once each    *)
(* and in the order of their reservation, although programs on several     *)
(* CPUs submit, discard and abandon theirs in any order.                   *)
DeliveredInOrder ==
  /\ \A i \in 1 .. Len(got) : got[i].num \in sent /\ got[i].num < cons
  /\ \A i, j \in 1 .. Len(got) : i < j => got[i].num < got[j].num
  /\ \A n \in sent : n < cons => \E i \in 1 .. Len(got) : got[i].num = n

(* What the consumer reads of a text record is what the calls of write_str that *)
(* returned Ok wrote, none of it cut off and nothing of an earlier record  *)
(* behind it; and write_str panics only on a record of length zero.        *)
TextIntact ==
  /\ \A i \in 1 .. Len(got) : got[i].text # << >> => got[i].read = got[i].text
  /\ overruns \subseteq {0}

(* A submitted record reaches the consumer, unless an earlier record was   *)
(* abandoned.                                                              *)
SubmittedDelivered ==
  \A n \in 0 .. MaxRecords - 1 :
    n \in sent ~> (n < cons \/ \E a \in abandoned : a < n)
=============================================================================
