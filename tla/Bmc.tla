-------------------------------- MODULE Bmc --------------------------------
(***************************************************************************)
(* samples/bmc, a look-aside cache for memcached in the network path.  On  *)
(* ingress the XDP program answers GETs from map_kcache and invalidates    *)
(* the entry of a key for which a SET passes; on egress the TC program     *)
(* stores the server's responses.  The programs run on several CPUs; each  *)
(* entry has a spinlock.                                                   *)
(*                                                                         *)
(* A section that only reads the entry under its lock is one step, which   *)
(* waits until the lock is free; the section that writes it is several.    *)
(* The Rex runtime may end a program at any point, which gives back its    *)
(* lock and nothing else.  Server and network are external: responses may  *)
(* overtake each other.                                                    *)
(***************************************************************************)
EXTENDS Naturals, FiniteSets

CONSTANTS
  CPUs, Keys,
  HashOf,          \* the FNV hash of a whole key
  KeyLen,          \* the number of its bytes
  BMC_CACHE_ENTRY_COUNT, BMC_MAX_KEY_LENGTH,
  PrefixOf,        \* <<k, l>>: k is l or the beginning of l
  Cut,             \* what bmc_update_cache sees of a key: its first bytes
  ShortKeys,       \* keys whose responses are too short for the comparison
  NoCPU, NoData,
  BMC_MAX_KEY_IN_PACKET,
  MaxGets,         \* bound: GETs waiting at the server when another one arrives
  MaxSets,         \* bound: SETs in a behaviour
  MaxResponses     \* bound: responses on their way out

ASSUME BmcAssumption ==
  /\ HashOf \in [Keys -> Nat] /\ KeyLen \in [Keys -> Nat]
  /\ BMC_CACHE_ENTRY_COUNT \in Nat \ {0} /\ BMC_MAX_KEY_LENGTH \in Nat
  /\ PrefixOf \subseteq Keys \X Keys /\ \A k \in Keys : <<k, k>> \in PrefixOf
  /\ Cut \in [Keys -> Keys]
  /\ \A k \in Keys : IF KeyLen[k] + 6 <= BMC_MAX_KEY_LENGTH THEN Cut[k] = k
                     ELSE /\ KeyLen[Cut[k]] + 6 = BMC_MAX_KEY_LENGTH
                          /\ <<Cut[k], k>> \in PrefixOf
  /\ ShortKeys \subseteq Keys
  /\ NoCPU \notin CPUs
  /\ BMC_MAX_KEY_IN_PACKET \in Nat /\ MaxGets \in Nat /\ MaxSets \in Nat /\ MaxResponses \in Nat

Responses == [key: Keys, ver: Nat]
Indices   == 0 .. (BMC_CACHE_ENTRY_COUNT - 1)
cache_idx(hash) == hash % BMC_CACHE_ENTRY_COUNT

ASSUME NoDataAssumption == NoData \notin Responses

VARIABLES
  cache,      \* map_kcache; head and tail are the two halves of data
  lock,       \* the CPU that holds the entry's lock
  pc, req,    \* per CPU: position, and the packet it works on
  key_count,  \* per CPU: pctx.key_count
  handled,    \* per CPU: keys of earlier SETs in the packet it works on
  server,     \* version of each key's value at the server
  gets, sets, \* keys of the requests passed on and not yet handled there
  responses,  \* responses sent by the server and not yet seen by the filter
  nsets,      \* SETs that the filter has handled, for each entry
  served,     \* the reply sent from the cache in the last step, if one was
  spoiled,    \* entries whose last update did not finish
  raced       \* entries found invalid by a SET while being updated

vars == <<cache, lock, pc, req, key_count, handled, server, gets, sets, responses,
          nsets, served, spoiled, raced>>

\* What passed through the cache, for the properties only.
history == <<nsets, spoiled, raced>>
outside == <<server, gets, sets, responses>>

Requests == [op: {"get", "getmore", "set", "response"}, key: Keys, ver: Nat]
Request(o, k, v) == [op |-> o, key |-> k, ver |-> v]

\* A GET and a SET are found under the hash of the whole key.  The offset at
\* which a response is read counts its "VALUE " too, so the last bytes of a
\* long key are left out of the hash.
KeyHash(r) == HashOf[IF r.op = "response" THEN Cut[r.key] ELSE r.key]

NoServed == [key |-> NoData, head |-> NoData, tail |-> NoData, stamp |-> 0,
             now |-> 0, spoiled |-> FALSE, raced |-> FALSE]

\* stamp: the SETs that had been handled when the response in the entry was let in.
Entries == [valid: 0 .. 1, hash: Nat, head: Responses \cup {NoData},
            tail: Responses \cup {NoData}, stamp: Nat]
CacheEntry(valid, hash, head, tail, stamp) ==
  [valid |-> valid, hash |-> hash, head |-> head, tail |-> tail, stamp |-> stamp]

TypeOK ==
  /\ cache \in [Indices -> Entries]
  /\ lock \in [Indices -> CPUs \cup {NoCPU}]
  /\ pc \in [CPUs -> {"idle", "hash", "reply", "look", "invalidate", "lock",
                      "compare", "current", "copy", "finish"}]
  /\ req \in [CPUs -> Requests \cup {NoData}]
  /\ key_count \in [CPUs -> 0 .. BMC_MAX_KEY_IN_PACKET]
  /\ handled \in [CPUs -> SUBSET Keys]
  /\ server \in [Keys -> Nat]
  /\ gets \subseteq Keys /\ sets \subseteq Keys
  /\ responses \subseteq Responses
  /\ nsets \in [Indices -> Nat]
  /\ spoiled \subseteq Indices /\ raced \subseteq Indices

Init ==
  /\ cache = [i \in Indices |-> CacheEntry(0, 0, NoData, NoData, 0)]
  /\ lock = [i \in Indices |-> NoCPU]
  /\ pc = [c \in CPUs |-> "idle"]
  /\ req = [c \in CPUs |-> NoData]
  /\ key_count = [c \in CPUs |-> 0]
  /\ handled = [c \in CPUs |-> {}]
  /\ server = [k \in Keys |-> 0]
  /\ gets = {} /\ sets = {} /\ responses = {}
  /\ nsets = [i \in Indices |-> 0]
  /\ served = NoServed
  /\ spoiled = {} /\ raced = {}

Goto(c, from, to) == pc[c] = from /\ pc' = [pc EXCEPT ![c] = to]
Done(c) ==
  /\ pc' = [pc EXCEPT ![c] = "idle"]
  /\ req' = [req EXCEPT ![c] = NoData]
  /\ key_count' = [key_count EXCEPT ![c] = 0]
  /\ handled' = [handled EXCEPT ![c] = {}]
Idx(c)  == cache_idx(KeyHash(req[c]))
Entry(c) == cache[Idx(c)]
SetEntry(c, e) == cache' = [cache EXCEPT ![Idx(c)] = e]
Free(c) == lock[Idx(c)] = NoCPU

Receive(c, r, at) ==
  /\ Goto(c, "idle", at)
  /\ req' = [req EXCEPT ![c] = r]
  /\ UNCHANGED <<key_count, handled>>

-----------------------------------------------------------------------------
(***************************************************************************)
(* GET.                                                                    *)
(***************************************************************************)
\* A GET arrives, for one key or more.
xdp_rx_filter_get(c, k, o) ==
  /\ Cardinality(gets) < MaxGets
  /\ Receive(c, Request(o, k, 0), "hash")
  /\ UNCHANGED <<cache, lock, outside, history>>

\* valid and hash are read under the lock.
HashHit(c) == Entry(c).valid = 1 /\ Entry(c).hash = KeyHash(req[c])

\* One turn of hash_key.  The slice it parses never moves on, so with more
\* than one key in the packet every turn sees the first key again.  Behind a
\* key that is too long it reads outside the slice, and panics (Terminate).
hash_key(c) ==
  /\ pc[c] = "hash" /\ Free(c)
  /\ KeyLen[req[c].key] <= BMC_MAX_KEY_LENGTH
  /\ key_count[c] < BMC_MAX_KEY_IN_PACKET
  /\ \/ /\ req[c].op = "get" /\ HashHit(c)
        /\ pc' = [pc EXCEPT ![c] = "reply"]
        /\ UNCHANGED <<req, key_count, handled, gets>>
     \/ /\ req[c].op = "get" /\ ~HashHit(c)      \* XDP_PASS
        /\ Done(c)
        /\ gets' = gets \cup {req[c].key}
     \/ /\ req[c].op = "getmore"
        /\ key_count' = [key_count EXCEPT ![c] = IF HashHit(c) THEN @ + 1 ELSE @]
        /\ UNCHANGED <<pc, req, handled, gets>>
  /\ UNCHANGED <<cache, lock, server, sets, responses, history>>

\* The lookup in map_keys fails: XDP_ABORTED.
hash_key_aborts(c) ==
  /\ pc[c] = "hash"
  /\ key_count[c] = BMC_MAX_KEY_IN_PACKET
  /\ Done(c)
  /\ UNCHANGED <<cache, lock, outside, history>>

\* Faulty variant: trusts the hash.
KeyMatchesHash(c) == TRUE

\* The key is compared with as many bytes of the entry as it has itself.
KeyMatches(c) == <<req[c].key, Entry(c).head.key>> \in PrefixOf

Hit(c) ==
  HashHit(c) /\ KeyLen[req[c].key] < BMC_MAX_KEY_LENGTH /\ KeyMatches(c)

\* The reply is written under the lock.  Without a hit the request is sent
\* back as it is, and so it is lost.
write_pkt_reply(c) ==
  /\ pc[c] = "reply" /\ Free(c)
  /\ served' = IF Hit(c)
               THEN [key |-> req[c].key, head |-> Entry(c).head,
                     tail |-> Entry(c).tail, stamp |-> Entry(c).stamp,
                     now |-> nsets[Idx(c)], spoiled |-> Idx(c) \in spoiled,
                     raced |-> Idx(c) \in raced]
               ELSE NoServed
  /\ Done(c)
  /\ UNCHANGED <<cache, lock, outside, nsets, spoiled, raced>>

\* bpf_xdp_adjust_tail failed: XDP_DROP.
write_pkt_reply_fails(c) ==
  /\ pc[c] = "reply" /\ Free(c) /\ Hit(c)
  /\ Done(c)
  /\ UNCHANGED <<cache, lock, outside, history>>

-----------------------------------------------------------------------------
(***************************************************************************)
(* SET.                                                                    *)
(***************************************************************************)
\* The bound on SETs.
SetsUnderWay == {d \in CPUs : pc[d] \in {"look", "invalidate"}}
RoomForSet(k) == nsets[cache_idx(HashOf[k])] + Cardinality(SetsUnderWay) < MaxSets

xdp_rx_filter_set(c, k) ==
  /\ k \notin sets /\ RoomForSet(k)
  /\ Receive(c, Request("set", k, 0), "look")
  /\ UNCHANGED <<cache, lock, outside, history>>

\* The end of a turn: the next "set " in the packet, if there is one, or
\* XDP_PASS, and the packet with its SETs goes on to the server.
NextSet(c) ==
  /\ \/ /\ Done(c)
        /\ sets' = sets \cup handled[c] \cup {req[c].key}
     \/ \E k \in Keys \ (sets \cup handled[c] \cup {req[c].key}) :
          /\ RoomForSet(k)
          /\ pc' = [pc EXCEPT ![c] = "look"]
          /\ req' = [req EXCEPT ![c] = Request("set", k, 0)]
          /\ handled' = [handled EXCEPT ![c] = @ \cup {req[c].key}]
          /\ UNCHANGED <<key_count, sets>>
  /\ nsets' = [nsets EXCEPT ![Idx(c)] = @ + 1]
  /\ UNCHANGED <<lock, server, gets, responses, spoiled>>

\* entry.valid is read without the lock.
bmc_invalidate_look(c) ==
  /\ pc[c] = "look"
  /\ \/ /\ Entry(c).valid = 1
        /\ Goto(c, "look", "invalidate")
        /\ UNCHANGED <<cache, lock, req, key_count, handled, outside, history>>
     \/ /\ Entry(c).valid = 0
        /\ NextSet(c)
        /\ raced' = IF Free(c) THEN raced ELSE raced \cup {Idx(c)}
        /\ UNCHANGED cache

\* Faulty variant: the flag is not cleared.
InvalidateNothing(c) ==
  /\ pc[c] = "invalidate" /\ Free(c)
  /\ NextSet(c)
  /\ UNCHANGED <<cache, raced>>

bmc_invalidate_cache(c) ==
  /\ pc[c] = "invalidate" /\ Free(c)
  /\ LET e == Entry(c) IN SetEntry(c, CacheEntry(0, e.hash, e.head, e.tail, e.stamp))
  /\ NextSet(c)
  /\ UNCHANGED raced

-----------------------------------------------------------------------------
(***************************************************************************)
(* A response of the server.                                               *)
(***************************************************************************)
xdp_tx_filter(c, r) ==
  /\ r \in responses
  /\ responses' = responses \ {r}
  /\ Receive(c, Request("response", r.key, r.ver), "lock")
  /\ UNCHANGED <<cache, lock, server, gets, sets, history>>

\* Faulty variant: the guard is not created.
UpdateUnlocked(c) ==
  /\ Goto(c, "lock", "compare")
  /\ UNCHANGED <<cache, lock, req, key_count, handled, outside, history>>

UpdateLock(c) ==
  /\ Goto(c, "lock", "compare")
  /\ Free(c)
  /\ lock' = [lock EXCEPT ![Idx(c)] = c]
  /\ UNCHANGED <<cache, req, key_count, handled, outside, history>>

Unlock(c) == lock' = [lock EXCEPT ![Idx(c)] = NoCPU]

\* The loop compares what was hashed of the keys, and nothing if the payload is
\* shorter than the headers; the values are not compared.
SameKey(c) == req[c].key \in ShortKeys \/ Cut[Entry(c).head.key] = Cut[req[c].key]

UpdateCompare(c) ==
  /\ Goto(c, "compare", IF HashHit(c) /\ SameKey(c) THEN "current" ELSE "copy")
  /\ UNCHANGED <<cache, lock, req, key_count, handled, outside, history>>

\* cache is up-to-date, no need to update
UpdateCurrent(c) ==
  /\ pc[c] = "current"
  /\ Unlock(c)
  /\ Done(c)
  /\ UNCHANGED <<cache, outside, history>>

Response(c) == [key |-> req[c].key, ver |-> req[c].ver]

\* entry.len = 0, and the first bytes are copied.
UpdateCopy(c) ==
  /\ Goto(c, "copy", "finish")
  /\ SetEntry(c, CacheEntry(Entry(c).valid, Entry(c).hash, Response(c), NoData,
                            nsets[Idx(c)]))
  /\ raced' = raced \ {Idx(c)}
  /\ UNCHANGED <<lock, req, key_count, handled, outside, nsets, spoiled>>

\* The rest is copied.  Only after the second newline is the entry valid; it is
\* not reached when the response is larger than BMC_MAX_CACHE_DATA_SIZE.
UpdateFinish(c) ==
  /\ pc[c] = "finish"
  /\ \/ /\ SetEntry(c, CacheEntry(1, KeyHash(req[c]), Entry(c).head, Response(c),
                                  Entry(c).stamp))
        /\ spoiled' = spoiled \ {Idx(c)}
     \/ /\ spoiled' = spoiled \cup {Idx(c)}
        /\ UNCHANGED cache
  /\ Unlock(c)
  /\ Done(c)
  /\ UNCHANGED <<outside, nsets, raced>>

-----------------------------------------------------------------------------
\* A panic or a timeout: cleanup_all unlocks, the packet is gone.
Terminate(c) ==
  /\ pc[c] # "idle"
  /\ lock' = [i \in Indices |-> IF lock[i] = c THEN NoCPU ELSE lock[i]]
  /\ spoiled' = IF pc[c] = "finish" THEN spoiled \cup {Idx(c)} ELSE spoiled
  /\ Done(c)
  /\ UNCHANGED <<cache, outside, nsets, raced>>

\* The server.
ServerSet(k) ==
  /\ k \in sets
  /\ sets' = sets \ {k}
  /\ server' = [server EXCEPT ![k] = @ + 1]
  /\ UNCHANGED <<cache, lock, pc, req, key_count, handled, gets, responses, history>>

ServerGet(k) ==
  /\ k \in gets
  /\ Cardinality(responses) < MaxResponses
  /\ gets' = gets \ {k}
  /\ responses' = responses \cup {[key |-> k, ver |-> server[k]]}
  /\ UNCHANGED <<cache, lock, pc, req, key_count, handled, server, sets, history>>

Step(c) ==
  \/ \E k \in Keys : \E o \in {"get", "getmore"} : xdp_rx_filter_get(c, k, o)
  \/ hash_key(c)
  \/ hash_key_aborts(c)
  \/ write_pkt_reply_fails(c)
  \/ \E k \in Keys : xdp_rx_filter_set(c, k)
  \/ bmc_invalidate_look(c)
  \/ bmc_invalidate_cache(c)
  \/ \E r \in responses : xdp_tx_filter(c, r)
  \/ UpdateLock(c)
  \/ UpdateCompare(c)
  \/ UpdateCurrent(c)
  \/ UpdateCopy(c)
  \/ UpdateFinish(c)
  \/ Terminate(c)

Next ==
  \/ /\ \/ \E c \in CPUs : Step(c)
        \/ \E k \in Keys : ServerSet(k) \/ ServerGet(k)
     /\ served' = NoServed
  \/ \E c \in CPUs : write_pkt_reply(c)

Spec == Init /\ [][Next]_vars

-----------------------------------------------------------------------------
(***************************************************************************)
(* Properties.                                                             *)
(***************************************************************************)

\* A valid entry that nobody is writing holds one response, complete and under
\* the hash of the first BMC_MAX_KEY_LENGTH - 6 bytes of its key, unless the last
\* update of it did not finish (main.rs bmc_update_cache).
EntriesIntact ==
  \A i \in Indices :
    lock[i] = NoCPU /\ cache[i].valid = 1 /\ i \notin spoiled =>
      /\ cache[i].head # NoData /\ cache[i].tail = cache[i].head
      /\ cache[i].hash = HashOf[Cut[cache[i].head.key]]

\* A reply from an intact entry is one response of the server, for the key asked
\* for or for a longer key that begins with it, and the hash of what
\* bmc_update_cache reads of that key is the hash of the whole key asked for
\* (main.rs write_pkt_reply).
ReplyForKey ==
  served.key # NoData /\ ~served.spoiled =>
    /\ served.tail = served.head
    /\ <<served.key, served.head.key>> \in PrefixOf
    /\ HashOf[served.key] = HashOf[Cut[served.head.key]]

\* No reply comes from a response that was stored before the latest SET for
\* the entry was handled, unless that SET found the entry invalid in the middle of
\* an update (main.rs bmc_invalidate_cache reads valid without the lock).
InvalidationHolds ==
  served.key # NoData => served.stamp = served.now \/ served.raced

\* "cache is up-to-date, no need to update" (main.rs bmc_update_cache): the
\* entry that is kept has the value of the response.
KeptEntryUpToDate ==
  \A c \in CPUs : pc[c] = "current" => Entry(c).head.ver = req[c].ver

=============================================================================
