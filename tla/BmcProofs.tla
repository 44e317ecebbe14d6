----------------------------- MODULE BmcProofs -----------------------------
(***************************************************************************)
(* Proofs about Bmc, for any number of CPUs, keys and entries, any hash    *)
(* and any number of SETs.                                                 *)
(***************************************************************************)
EXTENDS Bmc, TLAPS

USE BmcAssumption, NoDataAssumption

-----------------------------------------------------------------------------
(***************************************************************************)
(* The inductive invariant.                                                *)
(***************************************************************************)

\* c is in bmc_update_cache and has the lock.
Updating(c) == pc[c] \in {"compare", "current", "copy", "finish"}

\* c has copied the beginning of its response into entry i, and not the rest.
Writing(c, i) == pc[c] = "finish" /\ Idx(c) = i

\* The positions of the egress program.
Egress(p) == p \in {"lock", "compare", "current", "copy", "finish"}

\* r is a packet for a program at position p.
Fits(p, r) == r \in Requests /\ (r.op = "response" <=> Egress(p))

\* A program at work has a packet of its kind.
RequestInv == \A c \in CPUs : pc[c] # "idle" => Fits(pc[c], req[c])

\* An entry is updated under its lock, and by the only CPU that has it.
LockInv ==
  /\ \A c \in CPUs : Updating(c) => lock[Idx(c)] = c
  /\ \A c \in CPUs, i \in Indices : lock[i] = c => Updating(c) /\ Idx(c) = i

\* While an entry is written its head is the response of the writer, and a
\* valid entry that nobody writes is whole, unless an update of it was cut off.
DataInv(i) ==
  /\ \A c \in CPUs : Writing(c, i) => cache[i].head = Response(c)
  /\ cache[i].valid = 1 => cache[i].head \in Responses
  /\ cache[i].valid = 1 /\ i \notin spoiled /\ (\A c \in CPUs : ~Writing(c, i)) =>
       /\ cache[i].tail = cache[i].head
       /\ cache[i].hash = HashOf[Cut[cache[i].head.key]]

\* A valid entry, and one being written, has seen every SET since its
\* response was let in, unless a SET found it invalid during the update.
StampInv(i) ==
  cache[i].valid = 1 \/ (\E c \in CPUs : Writing(c, i)) =>
    cache[i].stamp = nsets[i] \/ i \in raced

EntryInv == \A i \in Indices : DataInv(i) /\ StampInv(i)

CoreInv == TypeOK /\ RequestInv /\ LockInv /\ EntryInv
IInv == CoreInv /\ ReplyForKey /\ InvalidationHolds

-----------------------------------------------------------------------------
\* The index of an entry is within the table, for every key.
LEMMA IndexInRange == \A h \in Nat : cache_idx(h) \in Indices
BY DEF cache_idx, Indices

\* A response is filed under the hash of what is read of its key, another
\* packet under the hash of its key.
LEMMA HashFacts ==
  ASSUME NEW r \in Requests
  PROVE  /\ KeyHash(r) \in Nat
         /\ r.op = "response" => KeyHash(r) = HashOf[Cut[r.key]]
         /\ r.op # "response" => KeyHash(r) = HashOf[r.key]
<1>1. r.key \in Keys  BY DEF Requests
<1>q. QED  BY <1>1 DEF KeyHash

\* What the constructors of entries and requests build.
LEMMA RecordFacts ==
  /\ \A v \in 0 .. 1, h \in Nat, a, b \in Responses \cup {NoData}, s \in Nat :
       /\ CacheEntry(v, h, a, b, s) \in Entries
       /\ CacheEntry(v, h, a, b, s).valid = v
       /\ CacheEntry(v, h, a, b, s).hash = h
       /\ CacheEntry(v, h, a, b, s).head = a
       /\ CacheEntry(v, h, a, b, s).tail = b
       /\ CacheEntry(v, h, a, b, s).stamp = s
  /\ \A o \in {"get", "getmore", "set", "response"}, k \in Keys, v \in Nat :
       /\ Request(o, k, v) \in Requests
       /\ Request(o, k, v).key = k /\ Request(o, k, v).op = o
  /\ \A r \in Requests : r.key \in Keys /\ r.ver \in Nat
  /\ \A e \in Entries : /\ e.valid \in 0 .. 1 /\ e.hash \in Nat
                        /\ e.head \in Responses \cup {NoData}
                        /\ e.tail \in Responses \cup {NoData} /\ e.stamp \in Nat
BY DEF CacheEntry, Entries, Request, Requests

\* A program that works on a packet has an entry and a response in range.
LEMMA WorkFacts ==
  ASSUME TypeOK, RequestInv, NEW c \in CPUs, pc[c] # "idle"
  PROVE  /\ req[c] \in Requests /\ req[c].key \in Keys
         /\ Idx(c) \in Indices
         /\ Response(c) \in Responses
         /\ Entry(c) \in Entries
         /\ KeyHash(req[c]) \in Nat
<1>1. req[c] \in Requests  BY DEF RequestInv, Fits
<1>2. req[c].key \in Keys /\ req[c].ver \in Nat  BY <1>1, RecordFacts
<1>6. KeyHash(req[c]) \in Nat  BY <1>1, HashFacts
<1>3. Idx(c) \in Indices  BY <1>6, IndexInRange DEF Idx
<1>4. Response(c) \in Responses  BY <1>2 DEF Response, Responses
<1>5. Entry(c) \in Entries  BY <1>3 DEF Entry, TypeOK
<1>q. QED  BY <1>1, <1>2, <1>3, <1>4, <1>5, <1>6

\* A free entry is not being written.
LEMMA FreeNotWritten ==
  ASSUME LockInv, NEW i \in Indices, lock[i] = NoCPU, NEW c \in CPUs
  PROVE  ~Writing(c, i)
BY DEF LockInv, Writing, Updating

\* A step of a program that has no lock and takes none, and that changes only
\* its own packet and position, leaves locks and updates as they are.
LEMMA QuietMove ==
  ASSUME TypeOK, RequestInv, LockInv, NEW c \in CPUs,
         NEW to, NEW r,
         ~Updating(c), to \notin {"compare", "current", "copy", "finish"},
         to # "idle" => Fits(to, r),
         pc' = [pc EXCEPT ![c] = to], req' = [req EXCEPT ![c] = r],
         UNCHANGED lock
  PROVE  /\ RequestInv' /\ LockInv'
         /\ \A d \in CPUs, i \in Indices : Writing(d, i)' <=> Writing(d, i)
         /\ \A d \in CPUs, i \in Indices : Writing(d, i) => Response(d)' = Response(d)
<1> USE DEF TypeOK
<1>1. \A d \in CPUs : d # c => /\ pc'[d] = pc[d] /\ req'[d] = req[d]
                               /\ Updating(d)' = Updating(d)
                               /\ Idx(d)' = Idx(d) /\ Response(d)' = Response(d)
  BY DEF Updating, Idx, Response
<1>2. ~Updating(c)' /\ pc'[c] # "finish" /\ pc[c] # "finish"  BY DEF Updating
<1>3. RequestInv'  BY DEF RequestInv
<1>4. LockInv'
  <2>1. ASSUME NEW d \in CPUs, Updating(d)'  PROVE lock'[Idx(d)'] = d
    BY <1>1, <1>2, <2>1 DEF LockInv
  <2>2. ASSUME NEW d \in CPUs, NEW i \in Indices, lock'[i] = d
        PROVE  Updating(d)' /\ Idx(d)' = i
    BY <1>1, <2>2 DEF LockInv
  <2>q. QED  BY <2>1, <2>2 DEF LockInv
<1>5. \A d \in CPUs, i \in Indices : Writing(d, i)' <=> Writing(d, i)
  BY <1>1, <1>2 DEF Writing
<1>6. \A d \in CPUs, i \in Indices : Writing(d, i) => Response(d)' = Response(d)
  BY <1>1, <1>2 DEF Writing
<1>q. QED  BY <1>3, <1>4, <1>5, <1>6

\* Such a step that also leaves the entries alone keeps the invariant.
LEMMA QuietStep ==
  ASSUME TypeOK, RequestInv, LockInv, EntryInv, NEW c \in CPUs,
         NEW to, NEW r,
         ~Updating(c), to \notin {"compare", "current", "copy", "finish"},
         to # "idle" => Fits(to, r),
         pc' = [pc EXCEPT ![c] = to], req' = [req EXCEPT ![c] = r],
         UNCHANGED <<cache, lock, nsets, spoiled, raced>>
  PROVE  RequestInv' /\ LockInv' /\ EntryInv'
<1>1. /\ RequestInv' /\ LockInv'
      /\ \A d \in CPUs, i \in Indices : Writing(d, i)' <=> Writing(d, i)
      /\ \A d \in CPUs, i \in Indices : Writing(d, i) => Response(d)' = Response(d)
  BY QuietMove
<1>2. ASSUME NEW i \in Indices  PROVE DataInv(i)' /\ StampInv(i)'
  BY <1>1 DEF EntryInv, DataInv, StampInv
<1>q. QED  BY <1>1, <1>2 DEF EntryInv

\* The end of a turn of bmc_invalidate_cache: the SET is counted, and the entry
\* is invalid or nobody could have let a response in before.
LEMMA NextSetStep ==
  ASSUME TypeOK, RequestInv, LockInv, EntryInv, NEW c \in CPUs,
         pc[c] \in {"look", "invalidate"}, NextSet(c),
         \A i \in Indices \ {Idx(c)} : cache'[i] = cache[i],
         cache'[Idx(c)].valid = 0,
         cache'[Idx(c)].head = cache[Idx(c)].head,
         raced \subseteq raced', Free(c) \/ Idx(c) \in raced'
  PROVE  RequestInv' /\ LockInv' /\ EntryInv'
<1> USE DEF TypeOK
<1>0. Idx(c) \in Indices /\ req[c].key \in Keys  BY WorkFacts
<1>3. ~Updating(c) /\ UNCHANGED <<lock, spoiled>>  BY DEF Updating, NextSet
<1>4. /\ RequestInv' /\ LockInv'
      /\ \A d \in CPUs, i \in Indices : Writing(d, i)' <=> Writing(d, i)
      /\ \A d \in CPUs, i \in Indices : Writing(d, i) => Response(d)' = Response(d)
  <2>1. CASE Done(c)
    BY <1>3, <2>1, QuietMove DEF Done
  <2>2. ASSUME NEW k \in Keys, pc' = [pc EXCEPT ![c] = "look"],
               req' = [req EXCEPT ![c] = Request("set", k, 0)]
        PROVE  /\ RequestInv' /\ LockInv'
               /\ \A d \in CPUs, i \in Indices : Writing(d, i)' <=> Writing(d, i)
               /\ \A d \in CPUs, i \in Indices : Writing(d, i) => Response(d)' = Response(d)
    <3>1. Fits("look", Request("set", k, 0))  BY RecordFacts DEF Fits, Egress
    <3>q. QED  BY <1>3, <2>2, <3>1, QuietMove
  <2>q. QED  BY <2>1, <2>2 DEF NextSet
<1>5. \A i \in Indices \ {Idx(c)} : nsets'[i] = nsets[i]  BY DEF NextSet
<1>6. ASSUME NEW i \in Indices  PROVE DataInv(i)' /\ StampInv(i)'
  <2>1. CASE i # Idx(c)
    BY <1>3, <1>4, <1>5, <2>1 DEF EntryInv, DataInv, StampInv
  <2>2. CASE i = Idx(c)
    <3>1. DataInv(i)'  BY <1>4, <2>2, 0 # 1 DEF EntryInv, DataInv
    <3>2. CASE Free(c)
      <4>1. \A d \in CPUs : ~Writing(d, i)'  BY <1>4, <2>2, <3>2, FreeNotWritten DEF Free
      <4>q. QED  BY <2>2, <3>1, <4>1, 0 # 1 DEF StampInv
    <3>3. CASE Idx(c) \in raced'  BY <2>2, <3>1, <3>3 DEF StampInv
    <3>q. QED  BY <3>2, <3>3
  <2>q. QED  BY <2>1, <2>2
<1>q. QED  BY <1>4, <1>6 DEF EntryInv

\* Every step keeps the variables in their types.
LEMMA TypeStep ==
  ASSUME TypeOK, RequestInv, Next
  PROVE  TypeOK'
<1> USE DEF TypeOK
<1>1. ASSUME NEW c \in CPUs, Step(c)  PROVE TypeOK'
  <2>d. ASSUME Done(c)
        PROVE  /\ pc' \in [CPUs -> {"idle", "hash", "reply", "look", "invalidate",
                          "lock", "compare", "current", "copy", "finish"}]
               /\ req' \in [CPUs -> Requests \cup {NoData}]
               /\ key_count' \in [CPUs -> 0 .. BMC_MAX_KEY_IN_PACKET]
               /\ handled' \in [CPUs -> SUBSET Keys]
    BY <2>d DEF Done
  <2>n. ASSUME NextSet(c), pc[c] # "idle"
        PROVE  /\ pc' \in [CPUs -> {"idle", "hash", "reply", "look", "invalidate",
                          "lock", "compare", "current", "copy", "finish"}]
               /\ req' \in [CPUs -> Requests \cup {NoData}]
               /\ key_count' \in [CPUs -> 0 .. BMC_MAX_KEY_IN_PACKET]
               /\ handled' \in [CPUs -> SUBSET Keys]
               /\ sets' \subseteq Keys
               /\ nsets' \in [Indices -> Nat]
               /\ UNCHANGED <<lock, server, gets, responses, spoiled>>
    <3>1. req[c].key \in Keys /\ Idx(c) \in Indices  BY <2>n, WorkFacts
    <3>2. nsets' \in [Indices -> Nat] /\ UNCHANGED <<lock, server, gets, responses, spoiled>>
      BY <2>n, <3>1 DEF NextSet
    <3>3. CASE Done(c) /\ sets' = sets \cup handled[c] \cup {req[c].key}
      BY <2>d, <3>1, <3>2, <3>3
    <3>4. ASSUME NEW k \in Keys,
                 pc' = [pc EXCEPT ![c] = "look"],
                 req' = [req EXCEPT ![c] = Request("set", k, 0)],
                 handled' = [handled EXCEPT ![c] = @ \cup {req[c].key}],
                 UNCHANGED <<key_count, sets>>
          PROVE  /\ pc' \in [CPUs -> {"idle", "hash", "reply", "look", "invalidate",
                            "lock", "compare", "current", "copy", "finish"}]
                 /\ req' \in [CPUs -> Requests \cup {NoData}]
                 /\ key_count' \in [CPUs -> 0 .. BMC_MAX_KEY_IN_PACKET]
                 /\ handled' \in [CPUs -> SUBSET Keys]
                 /\ sets' \subseteq Keys
      <4>1. pc' \in [CPUs -> {"idle", "hash", "reply", "look", "invalidate",
                            "lock", "compare", "current", "copy", "finish"}]
        BY <3>4
      <4>2. PICK r : r = Request("set", k, 0)  OBVIOUS
      <4>3. r \in Requests  BY <3>4, <4>2, RecordFacts
      <4>4. req' \in [CPUs -> Requests \cup {NoData}]  BY <3>4, <4>2, <4>3
      <4>5. key_count' \in [CPUs -> 0 .. BMC_MAX_KEY_IN_PACKET] /\ sets' \subseteq Keys
        BY <3>4
      <4>6. handled' \in [CPUs -> SUBSET Keys]  BY <3>1, <3>4
      <4>q. QED  BY <4>1, <4>4, <4>5, <4>6
    <3>q. QED  BY <2>n, <3>2, <3>3, <3>4 DEF NextSet
  <2>1. ASSUME NEW k \in Keys, NEW o \in {"get", "getmore"}, xdp_rx_filter_get(c, k, o)
        PROVE  TypeOK'
    BY <2>1, RecordFacts DEF xdp_rx_filter_get, Receive, Goto, outside, history
  <2>2. CASE hash_key(c)
    <3>1. req[c].key \in Keys  BY <2>2, WorkFacts DEF hash_key
    <3>2. UNCHANGED <<cache, lock, server, sets, responses, nsets, spoiled, raced>>
      BY <2>2 DEF hash_key, history
    <3>3. CASE pc' = [pc EXCEPT ![c] = "reply"] /\ UNCHANGED <<req, key_count, handled, gets>>
      BY <3>2, <3>3
    <3>4. CASE Done(c) /\ gets' = gets \cup {req[c].key}
      BY <2>d, <3>1, <3>2, <3>4
    <3>5. CASE /\ key_count' = [key_count EXCEPT ![c] = IF HashHit(c) THEN @ + 1 ELSE @]
               /\ UNCHANGED <<pc, req, handled, gets>>
      <4>1. key_count' \in [CPUs -> 0 .. BMC_MAX_KEY_IN_PACKET]
        BY <2>2, <3>5 DEF hash_key
      <4>q. QED  BY <3>2, <3>5, <4>1
    <3>q. QED  BY <2>2, <3>3, <3>4, <3>5 DEF hash_key
  <2>3. CASE hash_key_aborts(c)
    BY <2>3, <2>d DEF hash_key_aborts, outside, history
  <2>4. CASE write_pkt_reply_fails(c)
    BY <2>4, <2>d DEF write_pkt_reply_fails, outside, history
  <2>5. ASSUME NEW k \in Keys, xdp_rx_filter_set(c, k)  PROVE TypeOK'
    BY <2>5, RecordFacts DEF xdp_rx_filter_set, Receive, Goto, outside, history
  <2>6. CASE bmc_invalidate_look(c)
    <3>1. CASE Entry(c).valid = 1
      BY <2>6, <3>1, 0 # 1 DEF bmc_invalidate_look, Goto, outside, history
    <3>2. CASE Entry(c).valid = 0
      <4>1. NextSet(c) /\ pc[c] # "idle" /\ UNCHANGED cache /\ Idx(c) \in Indices
        BY <2>6, <3>2, WorkFacts DEF bmc_invalidate_look
      <4>2. raced' \subseteq Indices
        BY <2>6, <3>2, <4>1 DEF bmc_invalidate_look
      <4>q. QED  BY <2>n, <4>1, <4>2
    <3>q. QED  BY <2>6, <3>1, <3>2 DEF bmc_invalidate_look
  <2>7. CASE bmc_invalidate_cache(c)
    <3>1. pc[c] # "idle" /\ NextSet(c) /\ UNCHANGED raced
      BY <2>7 DEF bmc_invalidate_cache
    <3>2. Idx(c) \in Indices /\ Entry(c) \in Entries  BY <3>1, WorkFacts
    <3>3. CacheEntry(0, Entry(c).hash, Entry(c).head, Entry(c).tail, Entry(c).stamp)
            \in Entries
      BY <3>2 DEF CacheEntry, Entries
    <3>4. cache' \in [Indices -> Entries]
      BY <2>7, <3>2, <3>3 DEF bmc_invalidate_cache, SetEntry
    <3>q. QED  BY <2>n, <3>1, <3>4
  <2>8. ASSUME NEW r \in responses, xdp_tx_filter(c, r)  PROVE TypeOK'
    <3>1. r.key \in Keys /\ r.ver \in Nat  BY DEF Responses
    <3>q. QED  BY <2>8, <3>1, RecordFacts DEF xdp_tx_filter, Receive, Goto, history
  <2>9. CASE UpdateLock(c)
    BY <2>9, WorkFacts DEF UpdateLock, Goto, outside, history
  <2>10. CASE UpdateCompare(c)
    BY <2>10 DEF UpdateCompare, Goto, outside, history
  <2>11. CASE UpdateCurrent(c)
    BY <2>11, <2>d, WorkFacts DEF UpdateCurrent, Unlock, outside, history
  <2>12. CASE UpdateCopy(c)
    <3>1. pc[c] # "idle"  BY <2>12 DEF UpdateCopy, Goto
    <3>2. Idx(c) \in Indices /\ nsets[Idx(c)] \in Nat  BY <3>1, WorkFacts
    <3>3. cache' \in [Indices -> Entries]
      BY <2>12, <3>1, <3>2, WorkFacts, RecordFacts DEF UpdateCopy, SetEntry
    <3>q. QED  BY <2>12, <3>3 DEF UpdateCopy, Goto, outside
  <2>13. CASE UpdateFinish(c)
    <3>1. pc[c] # "idle"  BY <2>13 DEF UpdateFinish
    <3>2. Idx(c) \in Indices /\ KeyHash(req[c]) \in Nat  BY <3>1, WorkFacts
    <3>3. CacheEntry(1, KeyHash(req[c]), Entry(c).head, Response(c), Entry(c).stamp)
            \in Entries
      <4>1. Entry(c) \in Entries /\ Response(c) \in Responses  BY <3>1, WorkFacts
      <4>q. QED  BY <3>2, <4>1 DEF CacheEntry, Entries
    <3>4. cache' \in [Indices -> Entries]
      BY <2>13, <3>2, <3>3 DEF UpdateFinish, SetEntry
    <3>5. spoiled' \subseteq Indices  BY <2>13, <3>2 DEF UpdateFinish
    <3>q. QED  BY <2>13, <2>d, <3>2, <3>4, <3>5 DEF UpdateFinish, Unlock, outside
  <2>14. CASE Terminate(c)
    BY <2>14, <2>d, WorkFacts DEF Terminate, outside
  <2>q. QED
    BY <1>1, <2>1, <2>2, <2>3, <2>4, <2>5, <2>6, <2>7, <2>8, <2>9, <2>10, <2>11,
       <2>12, <2>13, <2>14 DEF Step
<1>2. ASSUME NEW k \in Keys, ServerSet(k)  PROVE TypeOK'
  BY <1>2 DEF ServerSet, history
<1>3. ASSUME NEW k \in Keys, ServerGet(k)  PROVE TypeOK'
  BY <1>3 DEF ServerGet, Responses, history
<1>4. ASSUME NEW c \in CPUs, write_pkt_reply(c)  PROVE TypeOK'
  BY <1>4 DEF write_pkt_reply, Done, outside
<1>q. QED  BY <1>1, <1>2, <1>3, <1>4 DEF Next

\* Every step keeps locks and entries as the invariant has them.
LEMMA CoreStep ==
  ASSUME CoreInv, Next
  PROVE  CoreInv'
<1>0. TypeOK /\ RequestInv /\ LockInv /\ EntryInv  BY DEF CoreInv
<1>t. TypeOK'  BY <1>0, TypeStep
<1> SUFFICES RequestInv' /\ LockInv' /\ EntryInv'  BY <1>t DEF CoreInv
<1> USE <1>0 DEF TypeOK
<1>s. ASSUME UNCHANGED <<cache, lock, pc, req, nsets, spoiled, raced>>
      PROVE  RequestInv' /\ LockInv' /\ EntryInv'
  BY <1>s DEF RequestInv, LockInv, EntryInv, DataInv, StampInv, Updating, Writing,
              Idx, Response
<1>1. ASSUME NEW c \in CPUs, Step(c)  PROVE RequestInv' /\ LockInv' /\ EntryInv'
  <2>1. ASSUME NEW k \in Keys, NEW o \in {"get", "getmore"}, xdp_rx_filter_get(c, k, o)
        PROVE  RequestInv' /\ LockInv' /\ EntryInv'
    <3>1. Fits("hash", Request(o, k, 0))  BY RecordFacts DEF Fits, Egress
    <3>2. ~Updating(c)  BY <2>1 DEF xdp_rx_filter_get, Receive, Goto, Updating
    <3>q. QED
      BY <2>1, <3>1, <3>2, QuietStep DEF xdp_rx_filter_get, Receive, Goto, history
  <2>2. CASE hash_key(c)
    <3>1. ~Updating(c) /\ UNCHANGED <<cache, lock, nsets, spoiled, raced>>
      BY <2>2 DEF hash_key, history, Updating
    <3>2. CASE pc' = [pc EXCEPT ![c] = "reply"] /\ UNCHANGED req
      <4>1. Fits("reply", req[c])  BY <2>2 DEF hash_key, RequestInv, Fits, Egress
      <4>2. req' = [req EXCEPT ![c] = req[c]]  BY <3>2
      <4>q. QED  BY <3>1, <3>2, <4>1, <4>2, QuietStep
    <3>3. CASE Done(c)  BY <3>1, <3>3, QuietStep DEF Done
    <3>4. CASE UNCHANGED <<pc, req>>  BY <3>1, <3>4, <1>s
    <3>q. QED  BY <2>2, <3>2, <3>3, <3>4 DEF hash_key
  <2>3. CASE hash_key_aborts(c)
    <3>1. ~Updating(c) /\ UNCHANGED <<cache, lock, nsets, spoiled, raced>>
      BY <2>3 DEF hash_key_aborts, history, Updating
    <3>q. QED  BY <2>3, <3>1, QuietStep DEF hash_key_aborts, Done
  <2>4. CASE write_pkt_reply_fails(c)
    <3>1. ~Updating(c) /\ UNCHANGED <<cache, lock, nsets, spoiled, raced>>
      BY <2>4 DEF write_pkt_reply_fails, history, Updating
    <3>q. QED  BY <2>4, <3>1, QuietStep DEF write_pkt_reply_fails, Done
  <2>5. ASSUME NEW k \in Keys, xdp_rx_filter_set(c, k)
        PROVE  RequestInv' /\ LockInv' /\ EntryInv'
    <3>1. Fits("look", Request("set", k, 0))  BY RecordFacts DEF Fits, Egress
    <3>2. ~Updating(c)  BY <2>5 DEF xdp_rx_filter_set, Receive, Goto, Updating
    <3>q. QED
      BY <2>5, <3>1, <3>2, QuietStep DEF xdp_rx_filter_set, Receive, Goto, history
  <2>6. CASE bmc_invalidate_look(c)
    <3>0. pc[c] = "look" /\ ~Updating(c)  BY <2>6 DEF bmc_invalidate_look, Updating
    <3>1. CASE /\ Goto(c, "look", "invalidate")
               /\ UNCHANGED <<cache, lock, req, nsets, spoiled, raced>>
      <4>1. Fits("invalidate", req[c])  BY <3>0 DEF RequestInv, Fits, Egress
      <4>2. req' = [req EXCEPT ![c] = req[c]]  BY <3>1
      <4>q. QED  BY <3>0, <3>1, <4>1, <4>2, QuietStep DEF Goto
    <3>2. CASE /\ Entry(c).valid = 0 /\ NextSet(c) /\ UNCHANGED cache
               /\ raced' = IF Free(c) THEN raced ELSE raced \cup {Idx(c)}
      <4>1. raced \subseteq raced' /\ (Free(c) \/ Idx(c) \in raced')  BY <3>2
      <4>q. QED  BY <3>0, <3>2, <4>1, NextSetStep DEF Entry
    <3>q. QED  BY <2>6, <3>1, <3>2 DEF bmc_invalidate_look, history
  <2>7. CASE bmc_invalidate_cache(c)
    <3>0. /\ pc[c] = "invalidate" /\ NextSet(c) /\ Free(c) /\ UNCHANGED raced
          /\ SetEntry(c, CacheEntry(0, Entry(c).hash, Entry(c).head, Entry(c).tail,
                                    Entry(c).stamp))
      BY <2>7 DEF bmc_invalidate_cache
    <3>1. Idx(c) \in Indices  BY <3>0, WorkFacts
    <3>2. /\ cache'[Idx(c)].valid = 0
          /\ cache'[Idx(c)].head = cache[Idx(c)].head
      BY <3>0, <3>1 DEF SetEntry, CacheEntry, Entry
    <3>3. \A i \in Indices \ {Idx(c)} : cache'[i] = cache[i]
      BY <3>0, <3>1 DEF SetEntry
    <3>q. QED  BY <3>0, <3>2, <3>3, NextSetStep
  <2>8. ASSUME NEW r \in responses, xdp_tx_filter(c, r)
        PROVE  RequestInv' /\ LockInv' /\ EntryInv'
    <3>1. Fits("lock", Request("response", r.key, r.ver))
      <4>1. r.key \in Keys /\ r.ver \in Nat  BY DEF Responses
      <4>2. PICK q : q = Request("response", r.key, r.ver)  OBVIOUS
      <4>3. q \in Requests /\ q.op = "response"  BY <4>1, <4>2 DEF Request, Requests
      <4>q. QED  BY <4>2, <4>3 DEF Fits, Egress
    <3>2. ~Updating(c)  BY <2>8 DEF xdp_tx_filter, Receive, Goto, Updating
    <3>q. QED
      BY <2>8, <3>1, <3>2, QuietStep DEF xdp_tx_filter, Receive, Goto, history
  <2>9. CASE UpdateLock(c) \/ UpdateCompare(c)
    <3>0. pc[c] # "idle"  BY <2>9 DEF UpdateLock, UpdateCompare, Goto
    <3>1. Idx(c) \in Indices  BY <3>0, WorkFacts
    <3>2. UNCHANGED <<cache, req, nsets, spoiled, raced>>
      BY <2>9 DEF UpdateLock, UpdateCompare, history
    <3>3. /\ pc'[c] \in {"compare", "current", "copy"}
          /\ pc[c] \in {"lock", "compare"}
          /\ \A d \in CPUs \ {c} : pc'[d] = pc[d]
      BY <2>9 DEF UpdateLock, UpdateCompare, Goto
    <3>4. /\ lock'[Idx(c)] = c
          /\ \A i \in Indices \ {Idx(c)} : lock'[i] = lock[i]
          /\ lock[Idx(c)] \in {c, NoCPU}
      <4>1. CASE UpdateLock(c)  BY <3>1, <4>1 DEF UpdateLock, Free
      <4>2. CASE UpdateCompare(c)
        BY <3>1, <4>2 DEF UpdateCompare, Goto, LockInv, Updating
      <4>q. QED  BY <2>9, <4>1, <4>2
    <3>5. RequestInv'  BY <3>0, <3>2, <3>3 DEF RequestInv, Fits, Egress
    <3>6. LockInv'
      <4>1. ASSUME NEW d \in CPUs, Updating(d)'  PROVE lock'[Idx(d)'] = d
        <5>1. CASE d = c  BY <3>2, <3>4, <5>1 DEF Idx
        <5>2. CASE d # c
          <6>1. Updating(d) /\ Idx(d)' = Idx(d)  BY <3>2, <3>3, <4>1, <5>2 DEF Updating, Idx
          <6>2. lock[Idx(d)] = d /\ Idx(d) \in Indices
            BY <6>1, WorkFacts DEF LockInv, Updating
          <6>q. QED  BY <3>4, <5>2, <6>1, <6>2
        <5>q. QED  BY <5>1, <5>2
      <4>2. ASSUME NEW d \in CPUs, NEW i \in Indices, lock'[i] = d
            PROVE  Updating(d)' /\ Idx(d)' = i
        <5>1. CASE i = Idx(c)  BY <3>2, <3>3, <3>4, <4>2, <5>1 DEF Updating, Idx
        <5>2. CASE i # Idx(c)
          <6>1. Updating(d) /\ Idx(d) = i  BY <3>4, <4>2, <5>2 DEF LockInv
          <6>q. QED  BY <3>2, <3>3, <5>2, <6>1 DEF Updating, Idx
        <5>q. QED  BY <5>1, <5>2
      <4>q. QED  BY <4>1, <4>2 DEF LockInv
    <3>7. \A d \in CPUs, i \in Indices : /\ Writing(d, i)' <=> Writing(d, i)
                                        /\ Response(d)' = Response(d)
      BY <3>2, <3>3 DEF Writing, Idx, Response
    <3>8. EntryInv'  BY <3>2, <3>7 DEF EntryInv, DataInv, StampInv
    <3>q. QED  BY <3>5, <3>6, <3>8
  <2>10. CASE UpdateCopy(c)
    <3>0. pc[c] = "copy" /\ pc' = [pc EXCEPT ![c] = "finish"] /\ UNCHANGED <<req, lock, nsets, spoiled>>
      BY <2>10 DEF UpdateCopy, Goto
    <3>1. Idx(c) \in Indices /\ Response(c) \in Responses  BY <3>0, WorkFacts
    <3>2. \A d \in CPUs : /\ Updating(d)' = Updating(d) /\ Idx(d)' = Idx(d)
                          /\ Response(d)' = Response(d)
      BY <3>0 DEF Updating, Idx, Response
    <3>3. RequestInv'  BY <3>0 DEF RequestInv, Fits, Egress
    <3>4. LockInv'  BY <3>0, <3>2 DEF LockInv
    <3>5. /\ cache'[Idx(c)].head = Response(c)
          /\ cache'[Idx(c)].stamp = nsets[Idx(c)]
      BY <2>10, <3>1 DEF UpdateCopy, SetEntry, CacheEntry
    <3>6. /\ \A i \in Indices \ {Idx(c)} : cache'[i] = cache[i]
          /\ raced' = raced \ {Idx(c)}
      BY <2>10, <3>1 DEF UpdateCopy, SetEntry
    <3>7. \A d \in CPUs, i \in Indices \ {Idx(c)} : Writing(d, i)' <=> Writing(d, i)
      BY <3>0, <3>2 DEF Writing
    <3>8. \A d \in CPUs : Writing(d, Idx(c))' => d = c
      BY <3>0, <3>2, <3>4 DEF Writing, LockInv, Updating
    <3>9. Writing(c, Idx(c))'  BY <3>0, <3>2 DEF Writing
    <3>10. ASSUME NEW i \in Indices  PROVE DataInv(i)' /\ StampInv(i)'
      <4>1. CASE i = Idx(c)
        <5>1. DataInv(i)'  BY <3>1, <3>2, <3>5, <3>8, <3>9, <4>1 DEF DataInv
        <5>q. QED  BY <3>0, <3>5, <4>1, <5>1 DEF StampInv
      <4>2. CASE i # Idx(c)
        BY <3>0, <3>2, <3>6, <3>7, <4>2 DEF EntryInv, DataInv, StampInv
      <4>q. QED  BY <4>1, <4>2
    <3>q. QED  BY <3>3, <3>4, <3>10 DEF EntryInv
  <2>11. ASSUME Done(c), UNCHANGED nsets, UNCHANGED raced, pc[c] # "idle",
                \A i \in Indices : lock'[i] = IF lock[i] = c THEN NoCPU ELSE lock[i],
                \A i \in Indices : ~Writing(c, i) => cache'[i] = cache[i] /\ (i \in spoiled' <=> i \in spoiled),
                \A i \in Indices : Writing(c, i) =>
                  \/ i \in spoiled' /\ cache'[i] = cache[i]
                  \/ cache'[i] = CacheEntry(1, KeyHash(req[c]), Entry(c).head,
                                            Response(c), Entry(c).stamp)
         PROVE  RequestInv' /\ LockInv' /\ EntryInv'
    <3>1. \A d \in CPUs \ {c} : /\ pc'[d] = pc[d] /\ req'[d] = req[d]
                                /\ Updating(d)' = Updating(d) /\ Idx(d)' = Idx(d)
                                /\ Response(d)' = Response(d)
      BY <2>11 DEF Done, Updating, Idx, Response
    <3>2. pc'[c] = "idle" /\ ~Updating(c)'  BY <2>11 DEF Done, Updating
    <3>3. RequestInv'  BY <3>1, <3>2 DEF RequestInv
    <3>4. LockInv'
      <4>1. ASSUME NEW d \in CPUs, Updating(d)'  PROVE lock'[Idx(d)'] = d
        <5>1. d # c /\ Updating(d) /\ Idx(d)' = Idx(d)  BY <3>1, <3>2, <4>1
        <5>2. lock[Idx(d)] = d /\ Idx(d) \in Indices
          BY <5>1, WorkFacts DEF LockInv, Updating
        <5>q. QED  BY <2>11, <5>1, <5>2
      <4>2. ASSUME NEW d \in CPUs, NEW i \in Indices, lock'[i] = d
            PROVE  Updating(d)' /\ Idx(d)' = i
        <5>1. lock[i] = d /\ d # c  BY <2>11, <4>2
        <5>q. QED  BY <3>1, <5>1 DEF LockInv
      <4>q. QED  BY <4>1, <4>2 DEF LockInv
    <3>5. \A d \in CPUs \ {c}, i \in Indices : Writing(d, i)' <=> Writing(d, i)
      BY <3>1 DEF Writing
    <3>6. \A i \in Indices : ~Writing(c, i)'  BY <3>2 DEF Writing
    <3>7. ASSUME NEW i \in Indices  PROVE DataInv(i)' /\ StampInv(i)'
      <4>1. CASE ~Writing(c, i)
        BY <2>11, <3>1, <3>5, <3>6, <4>1 DEF EntryInv, DataInv, StampInv
      <4>2. CASE Writing(c, i)
        <5>1. \A d \in CPUs : ~Writing(d, i)'
          BY <3>5, <3>6, <4>2 DEF Writing, LockInv, Updating
        <5>2. i = Idx(c) /\ cache[i].head = Response(c) /\ Response(c) \in Responses
          BY <4>2, WorkFacts DEF EntryInv, DataInv, Writing
        <5>3. CASE i \in spoiled' /\ cache'[i] = cache[i]
          BY <2>11, <4>2, <5>1, <5>3 DEF EntryInv, DataInv, StampInv
        <5>4. CASE cache'[i] = CacheEntry(1, KeyHash(req[c]), Entry(c).head,
                                          Response(c), Entry(c).stamp)
          <6>1. /\ cache'[i].valid = 1 /\ cache'[i].hash = KeyHash(req[c])
                /\ cache'[i].head = Response(c) /\ cache'[i].tail = Response(c)
                /\ cache'[i].stamp = cache[i].stamp
            BY <5>2, <5>4 DEF CacheEntry, Entry
          <6>2. KeyHash(req[c]) = HashOf[Cut[Response(c).key]]
            <7>1. Fits("finish", req[c])  BY <4>2 DEF Writing, RequestInv
            <7>q. QED  BY <7>1, HashFacts DEF Fits, Egress, Response
          <6>3. DataInv(i)'  BY <5>1, <5>2, <6>1, <6>2 DEF DataInv
          <6>4. StampInv(i)'  BY <2>11, <4>2, <6>1 DEF EntryInv, StampInv
          <6>q. QED  BY <6>3, <6>4
        <5>q. QED  BY <2>11, <4>2, <5>3, <5>4
      <4>q. QED  BY <4>1, <4>2
    <3>q. QED  BY <3>3, <3>4, <3>7 DEF EntryInv
  <2>12. CASE UpdateCurrent(c)
    <3>1. pc[c] = "current" /\ Idx(c) \in Indices /\ lock[Idx(c)] = c
      BY <2>12, WorkFacts DEF UpdateCurrent, LockInv, Updating
    <3>2. \A i \in Indices : lock'[i] = IF lock[i] = c THEN NoCPU ELSE lock[i]
      BY <2>12, <3>1 DEF UpdateCurrent, Unlock, LockInv
    <3>3. \A i \in Indices : ~Writing(c, i)  BY <3>1 DEF Writing
    <3>q. QED  BY <2>11, <2>12, <3>1, <3>2, <3>3 DEF UpdateCurrent, history
  <2>13. CASE UpdateFinish(c)
    <3>1. pc[c] = "finish" /\ Idx(c) \in Indices /\ lock[Idx(c)] = c
      BY <2>13, WorkFacts DEF UpdateFinish, LockInv, Updating
    <3>2. \A i \in Indices : lock'[i] = IF lock[i] = c THEN NoCPU ELSE lock[i]
      BY <2>13, <3>1 DEF UpdateFinish, Unlock, LockInv
    <3>3. \A i \in Indices : Writing(c, i) <=> i = Idx(c)  BY <3>1 DEF Writing
    <3>4. \A i \in Indices \ {Idx(c)} : cache'[i] = cache[i] /\ (i \in spoiled' <=> i \in spoiled)
      BY <2>13, <3>1 DEF UpdateFinish, SetEntry
    <3>5. \/ Idx(c) \in spoiled' /\ cache'[Idx(c)] = cache[Idx(c)]
          \/ cache'[Idx(c)] = CacheEntry(1, KeyHash(req[c]), Entry(c).head,
                                         Response(c), Entry(c).stamp)
      BY <2>13, <3>1 DEF UpdateFinish, SetEntry
    <3>6. UNCHANGED nsets /\ UNCHANGED raced /\ Done(c)  BY <2>13 DEF UpdateFinish
    <3>q. QED  BY <2>11, <3>1, <3>2, <3>3, <3>4, <3>5, <3>6
  <2>14. CASE Terminate(c)
    <3>1. pc[c] # "idle" /\ Idx(c) \in Indices  BY <2>14, WorkFacts DEF Terminate
    <3>2. \A i \in Indices : Writing(c, i) <=> pc[c] = "finish" /\ i = Idx(c)
      BY DEF Writing
    <3>3. \A i \in Indices : lock'[i] = IF lock[i] = c THEN NoCPU ELSE lock[i]
      BY <2>14 DEF Terminate
    <3>4. \A i \in Indices : /\ ~Writing(c, i) => (i \in spoiled' <=> i \in spoiled)
                             /\ Writing(c, i) => i \in spoiled'
      BY <2>14, <3>2 DEF Terminate
    <3>5. UNCHANGED nsets /\ UNCHANGED raced /\ UNCHANGED cache /\ Done(c)  BY <2>14 DEF Terminate
    <3>q. QED  BY <2>11, <3>1, <3>3, <3>4, <3>5
  <2>q. QED
    BY <1>1, <2>1, <2>2, <2>3, <2>4, <2>5, <2>6, <2>7, <2>8, <2>9, <2>10,
       <2>12, <2>13, <2>14 DEF Step
<1>2. ASSUME NEW k \in Keys, ServerSet(k) \/ ServerGet(k)
      PROVE  RequestInv' /\ LockInv' /\ EntryInv'
  BY <1>2, <1>s DEF ServerSet, ServerGet, history
<1>3. ASSUME NEW c \in CPUs, write_pkt_reply(c)  PROVE RequestInv' /\ LockInv' /\ EntryInv'
  <2>1. ~Updating(c) /\ UNCHANGED <<cache, lock, nsets, spoiled, raced>>
    BY <1>3 DEF write_pkt_reply, Updating
  <2>q. QED  BY <1>3, <2>1, QuietStep DEF write_pkt_reply, Done
<1>q. QED  BY <1>1, <1>2, <1>3 DEF Next

\* What is sent from the cache is what the entry holds when nobody writes it.
LEMMA ReplyStep ==
  ASSUME CoreInv, Next
  PROVE  ReplyForKey' /\ InvalidationHolds'
<1>1. CASE served' = NoServed
  BY <1>1 DEF ReplyForKey, InvalidationHolds, NoServed
<1>2. ASSUME NEW c \in CPUs, write_pkt_reply(c), Hit(c)
      PROVE  ReplyForKey' /\ InvalidationHolds'
  <2>0. TypeOK /\ RequestInv /\ LockInv /\ EntryInv  BY DEF CoreInv
  <2>1. /\ served'.key = req[c].key
        /\ served'.head = Entry(c).head /\ served'.tail = Entry(c).tail
        /\ served'.stamp = Entry(c).stamp /\ served'.now = nsets[Idx(c)]
        /\ served'.spoiled = (Idx(c) \in spoiled)
        /\ served'.raced = (Idx(c) \in raced)
    BY <1>2 DEF write_pkt_reply
  <2>2. Idx(c) \in Indices /\ req[c].key \in Keys
    BY <1>2, <2>0, WorkFacts DEF write_pkt_reply
  <2>3. \A d \in CPUs : ~Writing(d, Idx(c))
    BY <1>2, <2>0, <2>2, FreeNotWritten DEF write_pkt_reply, Free
  <2>4. /\ cache[Idx(c)].valid = 1 /\ cache[Idx(c)].hash = KeyHash(req[c])
        /\ <<req[c].key, cache[Idx(c)].head.key>> \in PrefixOf
    BY <1>2 DEF Hit, HashHit, KeyMatches, Entry
  <2>5. Idx(c) \notin spoiled =>
          /\ cache[Idx(c)].tail = cache[Idx(c)].head
          /\ cache[Idx(c)].hash = HashOf[Cut[cache[Idx(c)].head.key]]
    BY <2>0, <2>2, <2>3, <2>4 DEF EntryInv, DataInv
  <2>6. cache[Idx(c)].stamp = nsets[Idx(c)] \/ Idx(c) \in raced
    BY <2>0, <2>2, <2>4 DEF EntryInv, StampInv
  <2>9. KeyHash(req[c]) = HashOf[req[c].key]
    <3>1. Fits("reply", req[c])  BY <1>2, <2>0 DEF write_pkt_reply, RequestInv
    <3>q. QED  BY <3>1, HashFacts DEF Fits, Egress
  <2>7. ReplyForKey'  BY <2>1, <2>4, <2>5, <2>9 DEF ReplyForKey, Entry
  <2>8. InvalidationHolds'  BY <2>1, <2>6 DEF InvalidationHolds, Entry
  <2>q. QED  BY <2>7, <2>8
<1>q. QED  BY <1>1, <1>2 DEF Next, write_pkt_reply

-----------------------------------------------------------------------------
\* The strengthened invariant holds in every state (main.rs, all handlers).
THEOREM Invariance == Spec => []IInv
<1>1. Init => IInv
  <2> SUFFICES ASSUME Init  PROVE IInv  OBVIOUS
  <2>1. TypeOK  BY RecordFacts DEF Init, TypeOK
  <2>2. RequestInv /\ LockInv
    BY DEF Init, RequestInv, LockInv, Updating
  <2>3. EntryInv
    BY 0 # 1, RecordFacts DEF Init, EntryInv, DataInv, StampInv, Writing, CacheEntry
  <2>4. ReplyForKey /\ InvalidationHolds
    BY DEF Init, NoServed, ReplyForKey, InvalidationHolds
  <2>q. QED  BY <2>1, <2>2, <2>3, <2>4 DEF IInv, CoreInv
<1>2. IInv /\ [Next]_vars => IInv'
  <2>1. CASE Next  BY <2>1, CoreStep, ReplyStep DEF IInv
  <2>2. CASE UNCHANGED vars
    BY <2>2 DEF vars, IInv, CoreInv, TypeOK, RequestInv, LockInv, EntryInv, DataInv,
       StampInv, Updating, Writing, Idx, Response, ReplyForKey, InvalidationHolds
  <2>q. QED  BY <2>1, <2>2
<1>q. QED  BY <1>1, <1>2, PTL DEF Spec

\* Every variable keeps its type (main.rs, all handlers).
THEOREM TypeCorrect == Spec => []TypeOK
<1>1. IInv => TypeOK  BY DEF IInv, CoreInv
<1>q. QED  BY <1>1, Invariance, PTL

\* A valid entry that nobody is writing is one whole response under the hash of
\* the first bytes of its key, unless the last update was cut off (main.rs
\* bmc_update_cache).
THEOREM EntriesStayIntact == Spec => []EntriesIntact
<1>1. IInv => EntriesIntact
  <2> SUFFICES ASSUME IInv, NEW i \in Indices, lock[i] = NoCPU, cache[i].valid = 1,
                      i \notin spoiled
               PROVE  /\ cache[i].head # NoData /\ cache[i].tail = cache[i].head
                      /\ cache[i].hash = HashOf[Cut[cache[i].head.key]]
    BY DEF EntriesIntact
  <2>1. \A c \in CPUs : ~Writing(c, i)  BY FreeNotWritten DEF IInv, CoreInv
  <2>q. QED  BY <2>1 DEF IInv, CoreInv, EntryInv, DataInv
<1>q. QED  BY <1>1, Invariance, PTL

\* A reply from an intact entry is one response of the server for the key asked
\* for, or for a longer one that begins with it and whose first bytes have its
\* hash (main.rs write_pkt_reply).
THEOREM RepliesMatchKey == Spec => []ReplyForKey
<1>1. IInv => ReplyForKey  BY DEF IInv
<1>q. QED  BY <1>1, Invariance, PTL

\* No reply is older than the last SET handled for its entry, unless that SET
\* met the entry invalid during an update (main.rs bmc_invalidate_cache).
THEOREM SetsInvalidate == Spec => []InvalidationHolds
<1>1. IInv => InvalidationHolds  BY DEF IInv
<1>q. QED  BY <1>1, Invariance, PTL

=============================================================================
