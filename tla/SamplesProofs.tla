--------------------------- MODULE SamplesProofs ---------------------------
(***************************************************************************)
(* Proofs about the maps, the ring buffer and the log as the samples use   *)
(* them, for every number of tasks, CPUs and keys and every size.  One     *)
(* object is loaded at a time, so each part has an invariant of its own,   *)
(* which the steps of the other parts leave alone.                         *)
(***************************************************************************)
EXTENDS Samples, FiniteSetTheorems, SequenceTheorems, TLAPS

-----------------------------------------------------------------------------
(***************************************************************************)
(* The ring buffer: the invariant.                                         *)
(***************************************************************************)
ByteStrings == UNION {[0 .. s - 1 -> Int] : s \in Nat}
RecordSet   == [num: Int, st: {"free", "busy", "ready", "discarded"},
                data: ByteStrings, text: Seq(Int)]
EntrySet    == [place: 0 .. Places - 1, off: Nat, calls: Nat]
GotSet      == [num: Int, text: Seq(Int), read: Seq(Int)]

RingType ==
  /\ prod \in Nat /\ cons \in Nat /\ cons <= prod /\ prod - cons <= Places
  /\ ring \in [0 .. Places - 1 -> RecordSet]
  /\ entry \in [Producers -> EntrySet \cup {NoEntry}]
  /\ sent \subseteq 0 .. prod - 1
  /\ got \in Seq(GotSet)

\* A place holds the record it was last reserved for, and a record that is
\* still in the ring is ready exactly if it was submitted.
PlacesInv ==
  \A n \in cons .. prod - 1 :
    /\ ring[PlaceOf(n)].num = n
    /\ ring[PlaceOf(n)].st \in {"busy", "ready", "discarded"}
    /\ n \in sent <=> ring[PlaceOf(n)].st = "ready"

\* The bytes of a text record are its text and a NUL.
TextOf(data, text) ==
  text # << >> =>
    /\ Len(text) \in DOMAIN data /\ data[Len(text)] = NUL
    /\ \A i \in 1 .. Len(text) : data[i - 1] = text[i] /\ text[i] # NUL
IsText(r) == TextOf(r.data, r.text)

\* The cursor of an entry is in its record, at the end of the text.
Cursor(e, r) ==
  /\ e.off = 0 \/ e.off \in DOMAIN r.data
  /\ e.calls < MaxWrites => e.off = Len(r.text)

\* An entry refers to a record that is being written, and is the only one.
EntriesInv ==
  /\ \A c \in Producers : entry[c] # NoEntry =>
       /\ \E n \in cons .. prod - 1 : entry[c].place = PlaceOf(n)
       /\ ring[entry[c].place].st = "busy"
       /\ Cursor(entry[c], ring[entry[c].place])
  /\ \A c, d \in Producers : entry[c] # NoEntry /\ entry[c].place = entry[d].place => c = d

RingInv ==
  /\ RingType /\ PlacesInv /\ EntriesInv
  /\ \A p \in 0 .. Places - 1 : IsText(ring[p])
  /\ DeliveredInOrder /\ TextIntact

-----------------------------------------------------------------------------
(***************************************************************************)
(* Places, records and bytes.                                              *)
(***************************************************************************)
LEMMA ModFacts ==
  ASSUME NEW P \in Nat \ {0}, NEW a \in Nat
  PROVE  a % P \in 0 .. P - 1 /\ a \div P \in Nat /\ a = P * (a \div P) + (a % P)
OBVIOUS

LEMMA TimesPositive ==
  ASSUME NEW P \in Nat \ {0}, NEW x \in Int
  PROVE  (x >= 1 => P * x >= P) /\ (x <= 0 => P * x <= 0)
OBVIOUS

LEMMA ModApart ==
  ASSUME NEW P \in Nat \ {0}, NEW a \in Nat, NEW b \in Nat, a < b, b - a < P
  PROVE  a % P # b % P
<1> SUFFICES ASSUME a % P = b % P  PROVE FALSE  OBVIOUS
<1> DEFINE x == a \div P
           y == b \div P
<1>a. a % P \in 0 .. P - 1 /\ x \in Nat /\ a = P * x + (a % P)  BY ModFacts
<1>b. y \in Nat /\ b = P * y + (b % P)  BY ModFacts
<1>1. /\ x \in Nat /\ y \in Nat /\ a % P \in Int
      /\ a = P * x + (a % P) /\ b = P * y + (b % P)
  BY <1>a, <1>b
<1> HIDE DEF x, y
<1>2. P * (y - x) = P * y - P * x /\ P * y \in Int /\ P * x \in Int  BY <1>1
<1>3. b - a = P * (y - x)  BY <1>1, <1>2
<1>4. y - x \in Int  BY <1>1
<1>5. (y - x >= 1 => P * (y - x) >= P) /\ (y - x <= 0 => P * (y - x) <= 0)
  BY <1>4, TimesPositive
<1>q. QED  BY <1>3, <1>4, <1>5

LEMMA PlaceFacts ==
  /\ \A n \in Nat : PlaceOf(n) \in 0 .. Places - 1
  /\ \A a, b \in Nat : a # b /\ a - b < Places /\ b - a < Places => PlaceOf(a) # PlaceOf(b)
<1>0. Places \in Nat \ {0}  BY RingAssumption
<1>1. \A n \in Nat : PlaceOf(n) \in 0 .. Places - 1  BY <1>0, ModFacts DEF PlaceOf
<1>2. ASSUME NEW a \in Nat, NEW b \in Nat, a # b, a - b < Places, b - a < Places
      PROVE  PlaceOf(a) # PlaceOf(b)
  <2>1. CASE a < b  BY <1>0, <1>2, <2>1, ModApart DEF PlaceOf
  <2>2. CASE b < a  BY <1>0, <1>2, <2>2, ModApart DEF PlaceOf
  <2>q. QED  BY <1>2, <2>1, <2>2
<1>q. QED  BY <1>1, <1>2

LEMMA RecordFacts ==
  \A n, st, data, text :
    /\ Record(n, st, data, text).num = n /\ Record(n, st, data, text).st = st
    /\ Record(n, st, data, text).data = data /\ Record(n, st, data, text).text = text
    /\ n \in Int /\ st \in {"free", "busy", "ready", "discarded"} /\ data \in ByteStrings
       /\ text \in Seq(Int) => Record(n, st, data, text) \in RecordSet
BY DEF Record, RecordSet

LEMMA RecordType ==
  ASSUME NEW r \in RecordSet
  PROVE  /\ r.num \in Int /\ r.st \in {"free", "busy", "ready", "discarded"}
         /\ r.data \in ByteStrings /\ r.text \in Seq(Int)
BY DEF RecordSet

LEMMA EntryFacts ==
  /\ \A e \in EntrySet : /\ e # NoEntry /\ e.place \in 0 .. Places - 1
                         /\ e.off \in Nat /\ e.calls \in Nat
  /\ NoEntry.place = -1
<1>1. NoEntry.place = -1  BY DEF NoEntry
<1>2. \A e \in EntrySet : e.place \in 0 .. Places - 1 /\ e.off \in Nat /\ e.calls \in Nat
  BY DEF EntrySet
<1>3. Places \in Nat  BY RingAssumption
<1>q. QED  BY <1>1, <1>2, <1>3

LEMMA BytesFacts ==
  ASSUME NEW d \in ByteStrings
  PROVE  \E s \in Nat : /\ d \in [0 .. s - 1 -> Int] /\ DOMAIN d = 0 .. s - 1
                        /\ Cardinality(DOMAIN d) = s
<1>1. PICK s \in Nat : d \in [0 .. s - 1 -> Int]  BY DEF ByteStrings
<1>2. DOMAIN d = 0 .. s - 1  BY <1>1
<1>3. 0 \in Int /\ s - 1 \in Int  OBVIOUS
<1>4. Cardinality(0 .. s - 1) = IF 0 > s - 1 THEN 0 ELSE (s - 1) - 0 + 1
  BY <1>3, FS_Interval, Zenon
<1>5. Cardinality(0 .. s - 1) = s  BY <1>4
<1>q. QED  BY <1>1, <1>2, <1>5

LEMMA BytesTyped == \A s \in Nat : [0 .. s - 1 -> Int] \subseteq ByteStrings
BY DEF ByteStrings

\* What the consumer reads of a text record is the text.
LEMMA ReadText ==
  ASSUME NEW r \in RecordSet, IsText(r), r.text # << >>
  PROVE  CString(r.data) = r.text
<1> DEFINE L == Len(r.text)
           ends == {i \in DOMAIN r.data : r.data[i] = NUL /\ \A j \in 0 .. i - 1 : r.data[j] # NUL}
<1>1. /\ L \in Nat /\ L \in DOMAIN r.data /\ r.data[L] = NUL
      /\ \A i \in 1 .. L : r.data[i - 1] = r.text[i] /\ r.text[i] # NUL
  BY RecordType DEF IsText, TextOf
<1>2. \A j \in 0 .. L - 1 : r.data[j] # NUL
  <2> SUFFICES ASSUME NEW j \in 0 .. L - 1  PROVE r.data[j] # NUL  OBVIOUS
  <2>1. j + 1 \in 1 .. L /\ (j + 1) - 1 = j  BY <1>1
  <2>q. QED  BY <1>1, <2>1
<1>3. \A i \in DOMAIN r.data : i \in Int
  <2>1. PICK s \in Nat : DOMAIN r.data = 0 .. s - 1  BY RecordType, BytesFacts
  <2>q. QED  BY <2>1
<1>4. ends = {L}
  <2>1. L \in ends  BY <1>1, <1>2
  <2>2. ASSUME NEW i \in ends  PROVE i = L
    <3>1. i \in Int /\ r.data[i] = NUL /\ (\A j \in 0 .. i - 1 : r.data[j] # NUL) /\ i \in DOMAIN r.data
      BY <1>3
    <3>2. i >= 0
      <4>1. PICK s \in Nat : DOMAIN r.data = 0 .. s - 1  BY RecordType, BytesFacts
      <4>q. QED  BY <3>1, <4>1
    <3>3. CASE i < L  BY <1>1, <1>2, <3>1, <3>2, <3>3
    <3>4. CASE L < i  BY <1>1, <3>1, <3>4
    <3>q. QED  BY <1>1, <3>1, <3>3, <3>4
  <2>q. QED  BY <2>1, <2>2
<1>5. (CHOOSE i \in ends : TRUE) = L  BY <1>4
<1>6. CString(r.data) = [i \in 1 .. L |-> r.data[i - 1]]
  BY <1>4, <1>5 DEF CString
<1>7. r.text = [i \in 1 .. L |-> r.text[i]]  BY RecordType
<1>q. QED  BY <1>1, <1>6, <1>7

LEMMA ReadType ==
  ASSUME NEW r \in RecordSet
  PROVE  CString(r.data) \in Seq(Int)
<1> DEFINE ends == {i \in DOMAIN r.data : r.data[i] = NUL /\ \A j \in 0 .. i - 1 : r.data[j] # NUL}
<1>1. PICK s \in Nat : r.data \in [0 .. s - 1 -> Int]  BY RecordType, BytesFacts
<1>2. CASE ends = {}  BY <1>2 DEF CString, Stale
<1>3. CASE ends # {}
  <2>1. PICK e : e = CHOOSE i \in ends : TRUE  OBVIOUS
  <2>2. e \in ends  BY <1>3, <2>1
  <2>3. e \in 0 .. s - 1  BY <1>1, <2>2
  <2>4. CString(r.data) = [i \in 1 .. e |-> r.data[i - 1]]  BY <1>3, <2>1 DEF CString
  <2>5. \A i \in 1 .. e : r.data[i - 1] \in Int  BY <1>1, <2>3
  <2>6. e \in Nat /\ [i \in 1 .. e |-> r.data[i - 1]] \in [1 .. e -> Int]  BY <2>3, <2>5
  <2>q. QED  BY <2>4, <2>6
<1>q. QED  BY <1>2, <1>3

-----------------------------------------------------------------------------
(***************************************************************************)
(* Steps of the ring buffer.                                               *)
(***************************************************************************)

\* What an entry refers to.
LEMMA EntryRecord ==
  ASSUME RingInv, NEW c \in Producers, entry[c] # NoEntry
  PROVE  /\ entry[c] \in EntrySet /\ entry[c].place \in 0 .. Places - 1
         /\ ring[entry[c].place] \in RecordSet
         /\ ring[entry[c].place].st = "busy"
         /\ ring[entry[c].place].num \in cons .. prod - 1
         /\ ring[entry[c].place].num \notin sent
         /\ entry[c].place = PlaceOf(ring[entry[c].place].num)
         /\ Cursor(entry[c], ring[entry[c].place])
         /\ IsText(ring[entry[c].place])
<1>1. entry[c] \in EntrySet  BY DEF RingInv, RingType
<1>2. entry[c].place \in 0 .. Places - 1  BY <1>1, EntryFacts
<1>3. ring[entry[c].place] \in RecordSet  BY <1>2 DEF RingInv, RingType
<1>4. PICK n \in cons .. prod - 1 : entry[c].place = PlaceOf(n)
  BY DEF RingInv, EntriesInv
<1>5. ring[entry[c].place].st = "busy" /\ Cursor(entry[c], ring[entry[c].place])
  BY DEF RingInv, EntriesInv
<1>6. ring[entry[c].place].num = n /\ n \notin sent
  BY <1>4, <1>5 DEF RingInv, PlacesInv
<1>q. QED  BY <1>1, <1>2, <1>3, <1>4, <1>5, <1>6 DEF RingInv

\* A program changes the record of its entry, or finishes it.
LEMMA RecordStep ==
  ASSUME RingInv, NEW c \in Producers, entry[c] # NoEntry,
         NEW x \in RecordSet, NEW f,
         x.num = ring[entry[c].place].num, x.st \in {"busy", "ready", "discarded"}, IsText(x),
         ring' = [ring EXCEPT ![entry[c].place] = x],
         entry' = [entry EXCEPT ![c] = f],
         \/ f = NoEntry
         \/ f \in EntrySet /\ f.place = entry[c].place /\ x.st = "busy" /\ Cursor(f, x),
         sent' = IF x.st = "ready" THEN sent \cup {x.num} ELSE sent,
         prod' = prod, cons' = cons, got' = got, overruns' \subseteq {0}
  PROVE  RingInv'
<1>1. PICK p : p = entry[c].place  OBVIOUS
<1>2. PICK k : k = x.num  OBVIOUS
<1>3. /\ p \in 0 .. Places - 1 /\ k \in cons .. prod - 1 /\ k \notin sent /\ p = PlaceOf(k)
  BY <1>1, <1>2, EntryRecord
<1>4. /\ prod \in Nat /\ cons \in Nat /\ cons <= prod /\ prod - cons <= Places
      /\ ring \in [0 .. Places - 1 -> RecordSet]
      /\ entry \in [Producers -> EntrySet \cup {NoEntry}]
      /\ sent \subseteq 0 .. prod - 1 /\ got \in Seq(GotSet)
  BY DEF RingInv, RingType
<1>5. /\ ring' \in [0 .. Places - 1 -> RecordSet] /\ ring'[p] = x
      /\ \A q \in 0 .. Places - 1 : q # p => ring'[q] = ring[q]
  BY <1>1, <1>3, <1>4
<1>6. /\ entry' \in [Producers -> EntrySet \cup {NoEntry}] /\ entry'[c] = f
      /\ \A d \in Producers : d # c => entry'[d] = entry[d]
  BY <1>4
<1>7. RingType'
  <2>a. k \in 0 .. prod - 1  BY <1>3, <1>4
  <2>b. sent' \subseteq sent \cup {k}  BY <1>2
  <2>1. sent' \subseteq 0 .. prod - 1  BY <1>4, <2>a, <2>b
  <2>q. QED  BY <1>4, <1>5, <1>6, <2>1 DEF RingType
<1>8. PlacesInv'
  <2> SUFFICES ASSUME NEW n \in cons .. prod - 1
               PROVE  /\ ring'[PlaceOf(n)].num = n
                      /\ ring'[PlaceOf(n)].st \in {"busy", "ready", "discarded"}
                      /\ n \in sent' <=> ring'[PlaceOf(n)].st = "ready"
    BY DEF PlacesInv, PlaceOf
  <2>1. CASE n = k  BY <1>2, <1>3, <1>5, <2>1
  <2>2. CASE n # k
    <3>1. PlaceOf(n) # p /\ PlaceOf(n) \in 0 .. Places - 1
      <4>1. n \in Nat /\ k \in Nat /\ n - k < Places /\ k - n < Places
        BY <1>3, <1>4, RingAssumption
      <4>q. QED  BY <1>3, <2>2, <4>1, PlaceFacts
    <3>2. ring'[PlaceOf(n)] = ring[PlaceOf(n)]  BY <1>5, <3>1
    <3>3. n \in sent' <=> n \in sent  BY <1>2, <2>2
    <3>q. QED  BY <3>2, <3>3 DEF RingInv, PlacesInv
  <2>q. QED  BY <2>1, <2>2
<1>9. EntriesInv'
  <2>1. ASSUME NEW d \in Producers, entry'[d] # NoEntry
        PROVE  /\ \E n \in cons .. prod - 1 : entry'[d].place = PlaceOf(n)
               /\ ring'[entry'[d].place].st = "busy"
               /\ Cursor(entry'[d], ring'[entry'[d].place])
    <3>1. CASE d = c  BY <1>1, <1>3, <1>5, <1>6, <2>1, <3>1
    <3>2. CASE d # c
      <4>1. entry'[d] = entry[d] /\ entry[d] # NoEntry  BY <1>6, <2>1, <3>2
      <4>2. entry[d].place # p  BY <1>1, <3>2 DEF RingInv, EntriesInv
      <4>3. ring'[entry[d].place] = ring[entry[d].place]  BY <1>5, <4>1, <4>2, EntryRecord
      <4>q. QED  BY <4>1, <4>3 DEF RingInv, EntriesInv
    <3>q. QED  BY <3>1, <3>2
  <2>2. ASSUME NEW a \in Producers, NEW b \in Producers, entry'[a] # NoEntry,
               entry'[a].place = entry'[b].place
        PROVE  a = b
    <3>1. entry'[a] \in EntrySet  BY <1>6, <2>2
    <3>2. entry'[b] # NoEntry
      <4>1. entry'[a].place # -1  BY <3>1, EntryFacts, RingAssumption
      <4>q. QED  BY <2>2, <4>1, EntryFacts
    <3>3. ASSUME NEW d \in Producers, entry'[d] # NoEntry
          PROVE  entry[d] # NoEntry /\ entry'[d].place = entry[d].place
      <4>1. CASE d = c  BY <1>6, <3>3, <4>1
      <4>2. CASE d # c  BY <1>6, <3>3, <4>2
      <4>q. QED  BY <4>1, <4>2
    <3>q. QED  BY <2>2, <3>2, <3>3 DEF RingInv, EntriesInv
  <2>3. \A d \in Producers : entry'[d] # NoEntry =>
          /\ \E n \in cons' .. prod' - 1 : entry'[d].place = PlaceOf(n)
          /\ ring'[entry'[d].place].st = "busy"
          /\ Cursor(entry'[d], ring'[entry'[d].place])
    BY <2>1
  <2>q. QED  BY <2>2, <2>3 DEF EntriesInv, PlaceOf, Cursor, NoEntry
<1>10. ASSUME NEW q \in 0 .. Places - 1  PROVE IsText(ring[q])'
  <2>1. IsText(ring'[q])
    <3>1. CASE q = p  BY <1>5, <3>1
    <3>2. CASE q # p  BY <1>5, <3>2 DEF RingInv
    <3>q. QED  BY <3>1, <3>2
  <2>q. QED  BY <2>1 DEF IsText, TextOf
<1>11. DeliveredInOrder'
  <2>1. sent \subseteq sent' /\ \A n \in sent' : n < cons => n \in sent
    BY <1>2, <1>3, <1>4
  <2>q. QED  BY <2>1 DEF RingInv, DeliveredInOrder
<1>12. TextIntact'  BY DEF RingInv, TextIntact
<1>q. QED  BY <1>7, <1>8, <1>9, <1>10, <1>11, <1>12 DEF RingInv

\* The entry after a call and the record as they are written in the actions.
LEMMA NewEntry ==
  ASSUME NEW p \in 0 .. Places - 1, NEW off \in Nat, NEW calls \in Nat
  PROVE  /\ [place |-> p, off |-> off, calls |-> calls] \in EntrySet
         /\ [place |-> p, off |-> off, calls |-> calls].place = p
         /\ [place |-> p, off |-> off, calls |-> calls].off = off
         /\ [place |-> p, off |-> off, calls |-> calls].calls = calls
BY DEF EntrySet

\* The bytes that write_str leaves: the old text, the new bytes and a NUL.
LEMMA WrittenText ==
  ASSUME NEW data \in ByteStrings, NEW text \in Seq(Int), TextOf(data, text),
         NEW more \in Seq(Int), NEW byte \in Nat \ {0},
         \A i \in 1 .. Len(more) : more[i] = byte,
         Len(text) + Len(more) \in DOMAIN data
  PROVE  /\ WriteStr(data, Len(text), Len(more), byte) \in ByteStrings
         /\ DOMAIN WriteStr(data, Len(text), Len(more), byte) = DOMAIN data
         /\ TextOf(WriteStr(data, Len(text), Len(more), byte), text \o more)
<1>a. PICK L : L = Len(text)  OBVIOUS
<1>b. PICK n : n = Len(more)  OBVIOUS
<1>c. PICK d : d = WriteStr(data, L, n, byte)  OBVIOUS
<1>d. PICK t : t = text \o more  OBVIOUS
<1>0. n \in Nat /\ L \in Nat  BY <1>a, <1>b
<1>1. PICK s \in Nat : data \in [0 .. s - 1 -> Int] /\ DOMAIN data = 0 .. s - 1
  BY BytesFacts
<1>2. L \in Nat  BY <1>0
<1>3. \A i \in 0 .. s - 1 : d[i] = IF i \in L .. L + n - 1 THEN byte
                                   ELSE IF i = L + n THEN NUL ELSE data[i]
  BY <1>0, <1>1, <1>c DEF WriteStr
<1>4. d \in [0 .. s - 1 -> Int]
  <2>1. d = [i \in 0 .. s - 1 |-> d[i]]  BY <1>1, <1>c DEF WriteStr
  <2>2. ASSUME NEW i \in 0 .. s - 1  PROVE d[i] \in Int
    <3>1. data[i] \in Int  BY <1>1
    <3>2. byte \in Int /\ NUL \in Int  BY DEF NUL
    <3>3. d[i] = byte \/ d[i] = NUL \/ d[i] = data[i]  BY <1>3
    <3>q. QED  BY <3>1, <3>2, <3>3
  <2>q. QED  BY <2>1, <2>2
<1>6. /\ t \in Seq(Int) /\ Len(t) = L + n
      /\ \A i \in 1 .. L : t[i] = text[i]
      /\ \A i \in L + 1 .. L + n : t[i] = byte
  <2>1. t \in Seq(Int) /\ Len(t) = L + n  BY <1>a, <1>b, <1>d, ConcatProperties
  <2>2. \A i \in 1 .. L : t[i] = text[i]  BY <1>a, <1>b, <1>d
  <2>3. \A i \in L + 1 .. L + n : i - L \in 1 .. n /\ t[i] = more[i - L]
    BY <1>0, <1>a, <1>b, <1>d
  <2>4. \A i \in L + 1 .. L + n : t[i] = byte  BY <1>b, <2>3
  <2>q. QED  BY <2>1, <2>2, <2>4
<1>7. \A i \in 1 .. L : data[i - 1] = text[i] /\ text[i] # NUL
  <2>1. CASE text = << >>  BY <1>a, <2>1
  <2>2. CASE text # << >>  BY <1>a, <2>2 DEF TextOf
  <2>q. QED  BY <2>1, <2>2
<1>8. L + n \in 0 .. s - 1  BY <1>1, <1>a, <1>b
<1>9. d[L + n] = NUL  BY <1>0, <1>3, <1>8
<1>10. ASSUME NEW i \in 1 .. L + n  PROVE d[i - 1] = t[i] /\ t[i] # NUL
  <2>0. i - 1 \in 0 .. s - 1  BY <1>0, <1>8
  <2>1. CASE i <= L
    <3>1. i \in 1 .. L /\ i - 1 \notin L .. L + n - 1 /\ i - 1 # L + n  BY <1>0, <2>1
    <3>q. QED  BY <1>3, <1>6, <1>7, <2>0, <3>1
  <2>2. CASE i > L
    <3>1. i \in L + 1 .. L + n /\ i - 1 \in L .. L + n - 1  BY <1>0, <2>2
    <3>q. QED  BY <1>3, <1>6, <2>0, <3>1 DEF NUL
  <2>q. QED  BY <1>0, <2>1, <2>2
<1>11. DOMAIN d = DOMAIN data  BY <1>1, <1>4
<1>12. TextOf(d, t)
  <2>1. L + n \in DOMAIN d  BY <1>1, <1>8, <1>11
  <2>q. QED  BY <1>6, <1>9, <1>10, <2>1 DEF TextOf
<1>13. d \in ByteStrings  BY <1>4, BytesTyped
<1>q. QED  BY <1>11, <1>12, <1>13, <1>a, <1>b, <1>c, <1>d

LEMMA WriteStep ==
  ASSUME RingInv, NEW c \in Producers, NEW n \in 0 .. MaxWrite, write_str(c, n)
  PROVE  RingInv'
<1>0. PICK e : e = entry[c]  OBVIOUS
<1>1. PICK r : r = ring[e.place]  OBVIOUS
<1>2. /\ e \in EntrySet /\ e.place \in 0 .. Places - 1 /\ r \in RecordSet
      /\ r.st = "busy" /\ r.num \in cons .. prod - 1 /\ r.num \notin sent
      /\ Cursor(e, r) /\ IsText(r) /\ entry[c] # NoEntry
  BY <1>0, <1>1, EntryRecord DEF write_str
<1>3. e.off \in Nat /\ e.calls \in Nat /\ n \in Nat /\ MaxWrites \in Nat
  BY <1>2, EntryFacts, RingAssumption
<1>4. /\ e.calls < MaxWrites /\ e.off + n < Cardinality(DOMAIN r.data)
      /\ ring' = [ring EXCEPT ![e.place] =
                    Record(r.num, r.st, WriteStr(r.data, e.off, n, e.calls + 1),
                           r.text \o [i \in 1 .. n |-> e.calls + 1])]
      /\ entry' = [entry EXCEPT ![c] = [place |-> e.place, off |-> e.off + n,
                                        calls |-> e.calls + 1]]
      /\ UNCHANGED <<prod, cons, sent, abandoned, got, overruns>>
  BY <1>0, <1>1 DEF write_str
<1>5. r.num \in Int /\ r.data \in ByteStrings /\ r.text \in Seq(Int)  BY <1>2, RecordType
<1>6. e.off = Len(r.text)  BY <1>2, <1>4 DEF Cursor
<1>7. e.off + n \in DOMAIN r.data
  <2>1. PICK s \in Nat : DOMAIN r.data = 0 .. s - 1 /\ Cardinality(DOMAIN r.data) = s
    BY <1>5, BytesFacts
  <2>q. QED  BY <1>3, <1>4, <2>1
<1>8. TextOf(r.data, r.text)  BY <1>2 DEF IsText
<1>9. e.calls + 1 \in Nat \ {0} /\ n \in Nat /\ e.off + n \in Nat  BY <1>3
<1>10. PICK d : d = WriteStr(r.data, e.off, n, e.calls + 1)  OBVIOUS
<1>11. PICK t : t = r.text \o [i \in 1 .. n |-> e.calls + 1]  OBVIOUS
<1>12. /\ d \in ByteStrings /\ DOMAIN d = DOMAIN r.data /\ t \in Seq(Int)
       /\ Len(t) = e.off + n /\ TextOf(d, t)
  <2>1. PICK data, text, L, b : data = r.data /\ text = r.text /\ L = e.off /\ b = e.calls + 1
    OBVIOUS
  <2>2. /\ data \in ByteStrings /\ text \in Seq(Int) /\ TextOf(data, text) /\ L = Len(text)
        /\ n \in Nat /\ b \in Nat \ {0} /\ L + n \in DOMAIN data
    BY <1>5, <1>6, <1>7, <1>8, <1>9, <2>1
  <2>3. PICK more : more = [i \in 1 .. n |-> b]  OBVIOUS
  <2>5. more \in Seq(Int) /\ Len(more) = n /\ \A i \in 1 .. n : more[i] = b
    BY <2>2, <2>3
  <2>6. d = WriteStr(data, L, n, b) /\ t = text \o more
    BY <1>10, <1>11, <2>1, <2>3
  <2>4. /\ WriteStr(data, Len(text), Len(more), b) \in ByteStrings
        /\ DOMAIN WriteStr(data, Len(text), Len(more), b) = DOMAIN data
        /\ TextOf(WriteStr(data, Len(text), Len(more), b), text \o more)
    BY <2>2, <2>5, WrittenText
  <2>7. t \in Seq(Int) /\ Len(t) = L + n  BY <2>2, <2>5, <2>6, ConcatProperties
  <2>q. QED  BY <2>1, <2>2, <2>4, <2>5, <2>6, <2>7
<1>13. PICK x : x = Record(r.num, r.st, d, t)  OBVIOUS
<1>14. /\ x \in RecordSet /\ x.num = r.num /\ x.st = "busy" /\ IsText(x)
       /\ x.data = d /\ x.text = t
  BY <1>2, <1>5, <1>12, <1>13, RecordFacts DEF IsText
<1>15. PICK f : f = [place |-> e.place, off |-> e.off + n, calls |-> e.calls + 1]  OBVIOUS
<1>16. f \in EntrySet /\ f.place = e.place /\ f.off = e.off + n
  BY <1>2, <1>9, <1>15, NewEntry
<1>17. Cursor(f, x)  BY <1>7, <1>12, <1>14, <1>16 DEF Cursor
<1>18. overruns' \subseteq {0}  BY <1>4 DEF RingInv, TextIntact
<1>q. QED
  BY <1>0, <1>1, <1>2, <1>4, <1>10, <1>11, <1>13, <1>14, <1>15, <1>16, <1>17, <1>18, RecordStep

LEMMA DerefStep ==
  ASSUME RingInv, NEW c \in Producers, deref_mut(c)
  PROVE  RingInv'
<1>0. PICK e : e = entry[c]  OBVIOUS
<1>1. PICK r : r = ring[e.place]  OBVIOUS
<1>2. /\ e \in EntrySet /\ e.place \in 0 .. Places - 1 /\ r \in RecordSet
      /\ r.st = "busy" /\ Cursor(e, r) /\ entry[c] # NoEntry
  BY <1>0, <1>1, EntryRecord DEF deref_mut
<1>3. e.off \in Nat /\ MaxWrites \in Nat  BY <1>2, EntryFacts, RingAssumption
<1>4. PICK d : d = [i \in DOMAIN r.data |-> 1]  OBVIOUS
<1>5. /\ ring' = [ring EXCEPT ![e.place] = Record(r.num, r.st, d, << >>)]
      /\ entry' = [entry EXCEPT ![c] = [place |-> e.place, off |-> e.off,
                                        calls |-> MaxWrites]]
      /\ UNCHANGED <<prod, cons, sent, abandoned, got, overruns>>
  BY <1>0, <1>1, <1>4 DEF deref_mut
<1>6. r.num \in Int /\ r.data \in ByteStrings  BY <1>2, RecordType
<1>7. d \in ByteStrings /\ DOMAIN d = DOMAIN r.data
  <2>1. PICK s \in Nat : DOMAIN r.data = 0 .. s - 1  BY <1>6, BytesFacts
  <2>2. d \in [0 .. s - 1 -> Int]  BY <1>4, <2>1
  <2>q. QED  BY <1>4, <2>2, BytesTyped
<1>8. PICK x : x = Record(r.num, r.st, d, << >>)  OBVIOUS
<1>9. PICK t : t = << >>  OBVIOUS
<1>a. x = Record(r.num, r.st, d, t) /\ t \in Seq(Int)  BY <1>8, <1>9
<1>b. x \in RecordSet /\ x.num = r.num /\ x.st = r.st /\ x.data = d /\ x.text = t
  <2>1. r.st \in {"free", "busy", "ready", "discarded"}  BY <1>2
  <2>q. QED  BY <1>6, <1>7, <1>a, <2>1, RecordFacts
<1>10. x \in RecordSet /\ x.num = r.num /\ x.st = "busy" /\ x.data = d /\ x.text = << >>
  BY <1>2, <1>9, <1>b, Zenon
<1>11. IsText(x)  BY <1>10 DEF IsText, TextOf
<1>12. PICK f : f = [place |-> e.place, off |-> e.off, calls |-> MaxWrites]  OBVIOUS
<1>13. f \in EntrySet /\ f.place = e.place /\ f.off = e.off /\ f.calls = MaxWrites
  BY <1>2, <1>3, <1>12, NewEntry
<1>14. Cursor(f, x)  BY <1>2, <1>3, <1>7, <1>10, <1>13 DEF Cursor
<1>15. overruns' \subseteq {0}  BY <1>5 DEF RingInv, TextIntact
<1>q. QED
  BY <1>0, <1>1, <1>2, <1>5, <1>8, <1>10, <1>11, <1>12, <1>13, <1>14, <1>15, RecordStep

\* submit and discard: the program lets go of the record.
LEMMA FinishStep ==
  ASSUME RingInv, NEW c \in Producers, submit(c) \/ discard(c)
  PROVE  RingInv'
<1>0. PICK p : p = entry[c].place  OBVIOUS
<1>1. PICK r : r = ring[p]  OBVIOUS
<1>2. PICK st : st = IF submit(c) THEN "ready" ELSE "discarded"  OBVIOUS
<1>3. entry[c] # NoEntry  BY DEF submit, discard
<1>4. p \in 0 .. Places - 1 /\ r \in RecordSet /\ IsText(r) /\ r.num \in cons .. prod - 1
  BY <1>0, <1>1, <1>3, EntryRecord
<1>5. PICK x : x = Record(r.num, st, r.data, r.text)  OBVIOUS
<1>6. /\ st \in {"ready", "discarded"} /\ ring' = [ring EXCEPT ![p] = x]
      /\ entry' = [entry EXCEPT ![c] = NoEntry]
      /\ sent' = IF st = "ready" THEN sent \cup {r.num} ELSE sent
      /\ prod' = prod /\ cons' = cons /\ got' = got /\ overruns' = overruns
  <2>0. ring \in [0 .. Places - 1 -> RecordSet]  BY DEF RingInv, RingType
  <2>1. CASE submit(c)  BY <1>0, <1>1, <1>2, <1>4, <1>5, <2>0, <2>1 DEF submit, Finish
  <2>2. CASE ~submit(c)
    <3>1. discard(c) /\ st = "discarded"  BY <1>2, <2>2
    <3>q. QED  BY <1>0, <1>1, <1>4, <1>5, <2>0, <3>1 DEF discard, Finish
  <2>q. QED  BY <2>1, <2>2
<1>7. r.num \in Int /\ r.data \in ByteStrings /\ r.text \in Seq(Int)  BY <1>4, RecordType
<1>8. /\ x \in RecordSet /\ x.num = r.num /\ x.st = st
      /\ x.data = r.data /\ x.text = r.text
  BY <1>5, <1>6, <1>7, RecordFacts
<1>9. IsText(x)  BY <1>4, <1>8 DEF IsText
<1>10. overruns' \subseteq {0}  BY <1>6 DEF RingInv, TextIntact
<1>q. QED  BY <1>0, <1>1, <1>3, <1>6, <1>8, <1>9, <1>10, RecordStep

\* A panic leaves the record as it is; write_str panics only when there is
\* not even room for a NUL.
LEMMA AbandonStep ==
  ASSUME RingInv, NEW c \in Producers, NEW n \in 0 .. MaxWrite,
         abandon(c) \/ write_str_overrun(c, n)
  PROVE  RingInv'
<1>0. PICK e : e = entry[c]  OBVIOUS
<1>1. PICK x : x = ring[e.place]  OBVIOUS
<1>2. entry[c] # NoEntry  BY DEF abandon, write_str_overrun
<1>3. /\ e \in EntrySet /\ e.place \in 0 .. Places - 1 /\ x \in RecordSet /\ IsText(x)
      /\ x.st = "busy" /\ Cursor(e, x)
  BY <1>0, <1>1, <1>2, EntryRecord
<1>4. /\ ring' = ring /\ entry' = [entry EXCEPT ![c] = NoEntry] /\ sent' = sent
      /\ prod' = prod /\ cons' = cons /\ got' = got
  BY DEF abandon, write_str_overrun
<1>5. ring' = [ring EXCEPT ![e.place] = x]
  <2>1. ring \in [0 .. Places - 1 -> RecordSet]  BY DEF RingInv, RingType
  <2>q. QED  BY <1>1, <1>3, <1>4, <2>1
<1>6. overruns' \subseteq {0}
  <2>0. overruns \subseteq {0}  BY DEF RingInv, TextIntact
  <2>1. CASE abandon(c)  BY <2>0, <2>1 DEF abandon
  <2>2. CASE write_str_overrun(c, n)
    <3>1. PICK s \in Nat : DOMAIN x.data = 0 .. s - 1 /\ Cardinality(DOMAIN x.data) = s
      BY <1>3, RecordType, BytesFacts
    <3>2. n <= Avail(s, e.off) /\ e.off + n >= s /\ overruns' = overruns \cup {s}
      BY <1>0, <1>1, <2>2, <3>1 DEF write_str_overrun
    <3>3. e.off \in Nat /\ n \in Nat  BY <1>3, EntryFacts, RingAssumption
    <3>4. e.off = 0 \/ e.off < s  BY <1>3, <3>1, <3>3 DEF Cursor
    <3>5. s = 0  BY <3>1, <3>2, <3>3, <3>4 DEF Avail
    <3>q. QED  BY <2>0, <3>2, <3>5
  <2>q. QED  BY <2>1, <2>2
<1>q. QED  BY <1>0, <1>1, <1>2, <1>3, <1>4, <1>5, <1>6, RecordStep

\* A new record, in the place after the last one.
LEMMA NewRecord ==
  ASSUME RingInv, NEW c \in Producers, entry[c] = NoEntry, prod - cons < Places,
         NEW x \in RecordSet, NEW f,
         x.num = prod, x.st \in {"busy", "ready"}, IsText(x),
         ring' = [ring EXCEPT ![PlaceOf(prod)] = x],
         entry' = [entry EXCEPT ![c] = f],
         \/ f = NoEntry
         \/ f \in EntrySet /\ f.place = PlaceOf(prod) /\ x.st = "busy" /\ Cursor(f, x),
         sent' = IF x.st = "ready" THEN sent \cup {prod} ELSE sent,
         prod' = prod + 1, cons' = cons, got' = got, overruns' = overruns
  PROVE  RingInv'
<1>1. PICK p : p = PlaceOf(prod)  OBVIOUS
<1>2. /\ prod \in Nat /\ cons \in Nat /\ cons <= prod /\ prod - cons <= Places
      /\ ring \in [0 .. Places - 1 -> RecordSet]
      /\ entry \in [Producers -> EntrySet \cup {NoEntry}]
      /\ sent \subseteq 0 .. prod - 1 /\ got \in Seq(GotSet)
  BY DEF RingInv, RingType
<1>3. p \in 0 .. Places - 1  BY <1>1, <1>2, PlaceFacts
<1>4. /\ ring' \in [0 .. Places - 1 -> RecordSet] /\ ring'[p] = x
      /\ \A q \in 0 .. Places - 1 : q # p => ring'[q] = ring[q]
  BY <1>1, <1>2, <1>3
<1>5. /\ entry' \in [Producers -> EntrySet \cup {NoEntry}] /\ entry'[c] = f
      /\ \A d \in Producers : d # c => entry'[d] = entry[d]
  BY <1>2
<1>6. ASSUME NEW n \in cons .. prod - 1
      PROVE  PlaceOf(n) # p /\ PlaceOf(n) \in 0 .. Places - 1 /\ ring'[PlaceOf(n)] = ring[PlaceOf(n)]
  <2>1. n \in Nat /\ n # prod /\ n - prod < Places /\ prod - n < Places
    BY <1>2, RingAssumption
  <2>2. PlaceOf(n) # p /\ PlaceOf(n) \in 0 .. Places - 1  BY <1>1, <1>2, <2>1, PlaceFacts
  <2>q. QED  BY <1>4, <2>2
<1>7. RingType'
  <2>1. sent' \subseteq sent \cup {prod}  OBVIOUS
  <2>2. sent' \subseteq 0 .. prod' - 1  BY <1>2, <2>1
  <2>3. prod' \in Nat /\ cons' <= prod' /\ prod' - cons' <= Places  BY <1>2, RingAssumption
  <2>q. QED  BY <1>2, <1>4, <1>5, <2>2, <2>3 DEF RingType
<1>8. PlacesInv'
  <2> SUFFICES ASSUME NEW n \in cons .. prod
               PROVE  /\ ring'[PlaceOf(n)].num = n
                      /\ ring'[PlaceOf(n)].st \in {"busy", "ready", "discarded"}
                      /\ n \in sent' <=> ring'[PlaceOf(n)].st = "ready"
    <3>1. cons' .. prod' - 1 = cons .. prod  BY <1>2
    <3>q. QED  BY <3>1 DEF PlacesInv, PlaceOf
  <2>1. CASE n = prod
    <3>1. prod \notin sent  BY <1>2
    <3>q. QED  BY <1>1, <1>4, <2>1, <3>1
  <2>2. CASE n # prod
    <3>1. n \in cons .. prod - 1  BY <1>2, <2>2
    <3>2. n \in sent' <=> n \in sent  BY <2>2
    <3>q. QED  BY <1>6, <3>1, <3>2 DEF RingInv, PlacesInv
  <2>q. QED  BY <2>1, <2>2
<1>9. ASSUME NEW d \in Producers, d # c, entry'[d] # NoEntry
      PROVE  /\ entry'[d] = entry[d] /\ entry[d].place # p
             /\ ring'[entry[d].place] = ring[entry[d].place]
             /\ \E n \in cons .. prod : entry[d].place = PlaceOf(n)
  <2>1. entry'[d] = entry[d] /\ entry[d] # NoEntry  BY <1>5, <1>9
  <2>2. PICK n \in cons .. prod - 1 : entry[d].place = PlaceOf(n)
    BY <2>1 DEF RingInv, EntriesInv
  <2>3. n \in cons .. prod  BY <1>2
  <2>q. QED  BY <1>6, <2>1, <2>2, <2>3
<1>10. EntriesInv'
  <2>1. ASSUME NEW d \in Producers, entry'[d] # NoEntry
        PROVE  /\ \E n \in cons .. prod : entry'[d].place = PlaceOf(n)
               /\ ring'[entry'[d].place].st = "busy"
               /\ Cursor(entry'[d], ring'[entry'[d].place])
    <3>1. CASE d = c
      <4>1. prod \in cons .. prod  BY <1>2
      <4>q. QED  BY <1>1, <1>4, <1>5, <2>1, <3>1, <4>1
    <3>2. CASE d # c
      <4>1. entry[d] # NoEntry  BY <1>9, <2>1, <3>2
      <4>q. QED  BY <1>9, <2>1, <3>2, <4>1 DEF RingInv, EntriesInv
    <3>q. QED  BY <3>1, <3>2
  <2>2. ASSUME NEW a \in Producers, NEW b \in Producers, entry'[a] # NoEntry,
               entry'[a].place = entry'[b].place
        PROVE  a = b
    <3>1. entry'[a] \in EntrySet  BY <1>5, <2>2
    <3>2. entry'[b] # NoEntry
      <4>1. entry'[a].place # -1  BY <3>1, EntryFacts, RingAssumption
      <4>q. QED  BY <2>2, <4>1, EntryFacts
    <3>3. CASE a = c \/ b = c
      <4>1. entry'[c] # NoEntry  BY <2>2, <3>2, <3>3
      <4>2. entry'[c].place = p  BY <1>1, <1>5, <4>1
      <4>q. QED  BY <1>9, <2>2, <3>2, <3>3, <4>2
    <3>4. CASE a # c /\ b # c
      <4>1. entry'[a] = entry[a] /\ entry'[b] = entry[b]  BY <1>5, <3>4
      <4>q. QED  BY <2>2, <4>1 DEF RingInv, EntriesInv
    <3>q. QED  BY <3>3, <3>4
  <2>3. cons' .. prod' - 1 = cons .. prod  BY <1>2
  <2>4. \A d \in Producers : entry'[d] # NoEntry =>
          /\ \E n \in cons' .. prod' - 1 : entry'[d].place = PlaceOf(n)
          /\ ring'[entry'[d].place].st = "busy"
          /\ Cursor(entry'[d], ring'[entry'[d].place])
    BY <2>1, <2>3
  <2>q. QED  BY <2>2, <2>4 DEF EntriesInv, PlaceOf, Cursor, NoEntry
<1>11. ASSUME NEW q \in 0 .. Places - 1  PROVE IsText(ring[q])'
  <2>1. IsText(ring'[q])
    <3>1. CASE q = p  BY <1>4, <3>1
    <3>2. CASE q # p  BY <1>4, <3>2 DEF RingInv
    <3>q. QED  BY <3>1, <3>2
  <2>q. QED  BY <2>1 DEF IsText, TextOf
<1>12. DeliveredInOrder'
  <2>1. sent \subseteq sent' /\ \A n \in sent' : n < cons => n \in sent
    BY <1>2
  <2>q. QED  BY <2>1 DEF RingInv, DeliveredInOrder
<1>13. TextIntact'  BY DEF RingInv, TextIntact
<1>q. QED  BY <1>7, <1>8, <1>10, <1>11, <1>12, <1>13 DEF RingInv

LEMMA FreshBytes ==
  ASSUME NEW s \in Nat
  PROVE  Bytes(s) \in ByteStrings /\ DOMAIN Bytes(s) = 0 .. s - 1
<1>1. Bytes(s) \in [0 .. s - 1 -> Int]  BY DEF Bytes, Stale
<1>2. DOMAIN Bytes(s) = 0 .. s - 1  BY DEF Bytes
<1>q. QED  BY <1>1, <1>2, BytesTyped

LEMMA ReserveStep ==
  ASSUME RingInv, NEW c \in Producers, NEW size \in Lengths, reserve(c, size)
  PROVE  RingInv'
<1>1. size \in Nat  BY RingAssumption
<1>2. PICK t : t = << >>  OBVIOUS
<1>3. t \in Seq(Int) /\ Len(t) = 0  BY <1>2
<1>4. PICK d : d = Bytes(size)  OBVIOUS
<1>5. d \in ByteStrings  BY <1>1, <1>4, FreshBytes
<1>6. prod \in Nat /\ prod \in Int  BY DEF RingInv, RingType
<1>7. PICK x : x = Record(prod, "busy", d, t)  OBVIOUS
<1>8. x \in RecordSet /\ x.num = prod /\ x.st = "busy" /\ x.data = d /\ x.text = t
  <2>1. PICK st : st = "busy"  OBVIOUS
  <2>2. st \in {"free", "busy", "ready", "discarded"} /\ x = Record(prod, st, d, t)
    BY <1>7, <2>1
  <2>3. prod \in Int /\ d \in ByteStrings /\ t \in Seq(Int)  BY <1>3, <1>5, <1>6
  <2>4. x \in RecordSet /\ x.num = prod /\ x.st = st /\ x.data = d /\ x.text = t
    BY <2>2, <2>3, RecordFacts
  <2>q. QED  BY <2>1, <2>4
<1>9. IsText(x)
  <2>1. TextOf(d, t)  BY <1>2 DEF TextOf
  <2>q. QED  BY <1>8, <2>1 DEF IsText
<1>10. PICK f : f = [place |-> PlaceOf(prod), off |-> 0, calls |-> 0]  OBVIOUS
<1>11. f \in EntrySet /\ f.place = PlaceOf(prod) /\ f.off = 0
  BY <1>6, <1>10, PlaceFacts, NewEntry
<1>12. Cursor(f, x)  BY <1>3, <1>8, <1>11 DEF Cursor
<1>13. /\ entry[c] = NoEntry /\ prod - cons < Places
       /\ ring' = [ring EXCEPT ![PlaceOf(prod)] = x]
       /\ entry' = [entry EXCEPT ![c] = f]
       /\ prod' = prod + 1 /\ UNCHANGED <<cons, sent, abandoned, got, overruns>>
  BY <1>2, <1>4, <1>7, <1>10 DEF reserve
<1>q. QED  BY <1>8, <1>9, <1>11, <1>12, <1>13, NewRecord

LEMMA OutputStep ==
  ASSUME RingInv, NEW c \in Producers, output(c)
  PROVE  RingInv'
<1>1. PICK t : t = << >>  OBVIOUS
<1>2. PICK m : m = <<1>>  OBVIOUS
<1>3. t \in Seq(Int) /\ Len(t) = 0 /\ m \in Seq(Int) /\ Len(m) = 1 /\ m[1] = 1  BY <1>1, <1>2
<1>4. t \o m = m  BY <1>1, <1>3
<1>5. PICK b : b = Bytes(2)  OBVIOUS
<1>6. b \in ByteStrings /\ 0 + 1 \in DOMAIN b  BY <1>5, FreshBytes
<1>7. TextOf(b, t)  BY <1>1 DEF TextOf
<1>8. PICK d : d = WriteStr(b, 0, 1, 1)  OBVIOUS
<1>9. d \in ByteStrings /\ TextOf(d, m)
  <2>1. \A i \in 1 .. Len(m) : m[i] = 1  BY <1>3
  <2>a. PICK u : u = 1  OBVIOUS
  <2>b. /\ u \in Nat \ {0} /\ (\A i \in 1 .. Len(m) : m[i] = u)
        /\ Len(t) + Len(m) \in DOMAIN b
    BY <1>3, <1>6, <2>1, <2>a
  <2>c. /\ WriteStr(b, Len(t), Len(m), u) \in ByteStrings
        /\ TextOf(WriteStr(b, Len(t), Len(m), u), t \o m)
    BY <1>3, <1>6, <1>7, <2>b, WrittenText
  <2>2. /\ WriteStr(b, Len(t), Len(m), 1) \in ByteStrings
        /\ TextOf(WriteStr(b, Len(t), Len(m), 1), t \o m)
    BY <2>a, <2>c
  <2>q. QED  BY <1>3, <1>4, <1>8, <2>2
<1>10. prod \in Int  BY DEF RingInv, RingType
<1>11. PICK x : x = Record(prod, "ready", d, m)  OBVIOUS
<1>12. x \in RecordSet /\ x.num = prod /\ x.st = "ready" /\ x.data = d /\ x.text = m
  BY <1>3, <1>9, <1>10, <1>11, RecordFacts
<1>13. IsText(x)  BY <1>9, <1>12 DEF IsText
<1>14. /\ entry[c] = NoEntry /\ prod - cons < Places
       /\ ring' = [ring EXCEPT ![PlaceOf(prod)] = x] /\ entry' = entry
       /\ sent' = sent \cup {prod}
       /\ prod' = prod + 1 /\ UNCHANGED <<cons, abandoned, got, overruns>>
  BY <1>2, <1>5, <1>8, <1>11 DEF output
<1>15. entry' = [entry EXCEPT ![c] = NoEntry]
  <2>1. entry \in [Producers -> EntrySet \cup {NoEntry}]  BY DEF RingInv, RingType
  <2>q. QED  BY <1>14, <2>1
<1>q. QED  BY <1>12, <1>13, <1>14, <1>15, NewRecord

LEMMA ConsumeStep ==
  ASSUME RingInv, consume
  PROVE  RingInv'
<1>1. PICK r : r = ring[PlaceOf(cons)]  OBVIOUS
<1>2. /\ prod \in Nat /\ cons \in Nat /\ cons <= prod /\ prod - cons <= Places
      /\ ring \in [0 .. Places - 1 -> RecordSet]
      /\ entry \in [Producers -> EntrySet \cup {NoEntry}]
      /\ sent \subseteq 0 .. prod - 1 /\ got \in Seq(GotSet)
  BY DEF RingInv, RingType
<1>3. PICK g : g = [num |-> r.num, text |-> r.text, read |-> CString(r.data)]  OBVIOUS
<1>4. /\ cons < prod /\ r.st # "busy" /\ cons' = cons + 1
      /\ got' = IF r.st = "discarded" THEN got ELSE Append(got, g)
      /\ UNCHANGED <<prod, ring, entry, sent, abandoned, overruns>>
  BY <1>1, <1>3 DEF consume
<1>5. cons \in cons .. prod - 1 /\ PlaceOf(cons) \in 0 .. Places - 1  BY <1>2, <1>4, PlaceFacts
<1>6. r \in RecordSet /\ IsText(r)  BY <1>1, <1>2, <1>5 DEF RingInv
<1>7. /\ r.num = cons /\ r.st \in {"ready", "discarded"}
      /\ cons \in sent <=> r.st = "ready"
  BY <1>1, <1>4, <1>5 DEF RingInv, PlacesInv
<1>8. g \in GotSet /\ g.num = cons /\ (g.text # << >> => g.read = g.text)
  <2>1. r.num \in Int /\ r.text \in Seq(Int)  BY <1>6, RecordType
  <2>2. CString(r.data) \in Seq(Int)  BY <1>6, ReadType
  <2>3. g \in GotSet  BY <1>3, <2>1, <2>2 DEF GotSet
  <2>4. g.num = cons /\ g.text = r.text /\ g.read = CString(r.data)  BY <1>3, <1>7
  <2>q. QED  BY <1>6, <2>3, <2>4, ReadText
<1>9. /\ got' \in Seq(GotSet)
      /\ r.st = "discarded" => got' = got
      /\ r.st = "ready" => /\ Len(got') = Len(got) + 1 /\ got'[Len(got) + 1] = g
                           /\ \A i \in 1 .. Len(got) : got'[i] = got[i]
  BY <1>2, <1>4, <1>7, <1>8
<1>10. RingType'
  <2>1. /\ prod' \in Nat /\ cons' \in Nat /\ cons' <= prod' /\ prod' - cons' <= Places
    BY <1>2, <1>4, RingAssumption
  <2>2. ring' = ring /\ entry' = entry /\ sent' \subseteq 0 .. prod' - 1  BY <1>2, <1>4
  <2>3. /\ ring' \in [0 .. Places - 1 -> RecordSet]
        /\ entry' \in [Producers -> EntrySet \cup {NoEntry}]
    BY <1>2, <2>2
  <2>q. QED  BY <1>9, <2>1, <2>2, <2>3 DEF RingType, RecordSet, EntrySet, GotSet, NoEntry, ByteStrings
<1>11. cons' .. prod' - 1 \subseteq cons .. prod - 1  BY <1>2, <1>4
<1>12. PlacesInv'
  <2>1. \A n \in cons' .. prod' - 1 :
          /\ ring'[PlaceOf(n)].num = n
          /\ ring'[PlaceOf(n)].st \in {"busy", "ready", "discarded"}
          /\ n \in sent' <=> ring'[PlaceOf(n)].st = "ready"
    BY <1>4, <1>11 DEF RingInv, PlacesInv
  <2>q. QED  BY <2>1 DEF PlacesInv, PlaceOf
<1>13. EntriesInv'
  <2>1. ASSUME NEW d \in Producers, entry[d] # NoEntry
        PROVE  \E n \in cons' .. prod' - 1 : entry[d].place = PlaceOf(n)
    <3>1. PICK n \in cons .. prod - 1 : entry[d].place = PlaceOf(n)
      BY <2>1 DEF RingInv, EntriesInv
    <3>2. n # cons
      <4>1. ring[entry[d].place].st = "busy"  BY <2>1 DEF RingInv, EntriesInv
      <4>q. QED  BY <1>1, <1>4, <3>1, <4>1
    <3>3. n \in cons' .. prod' - 1  BY <1>2, <1>4, <3>2
    <3>q. QED  BY <3>1, <3>3
  <2>2. \A d \in Producers : entry'[d] # NoEntry =>
          /\ \E n \in cons' .. prod' - 1 : entry'[d].place = PlaceOf(n)
          /\ ring'[entry'[d].place].st = "busy"
          /\ Cursor(entry'[d], ring'[entry'[d].place])
    BY <1>4, <2>1 DEF RingInv, EntriesInv
  <2>3. \A a, b \in Producers : entry'[a] # NoEntry /\ entry'[a].place = entry'[b].place => a = b
    BY <1>4 DEF RingInv, EntriesInv
  <2>q. QED  BY <2>2, <2>3 DEF EntriesInv, PlaceOf, Cursor, NoEntry
<1>14. (\A q \in 0 .. Places - 1 : IsText(ring[q]))'
  BY <1>4 DEF RingInv, IsText, TextOf
<1>15. DeliveredInOrder'
  <2>0. Len(got) \in Nat  BY <1>2
  <2>1. CASE r.st = "discarded"
    <3>1. got' = got /\ cons \notin sent  BY <1>7, <1>9, <2>1
    <3>2. \A n \in sent : n < cons + 1 => n < cons
      <4>1. \A n \in sent : n \in Int /\ n # cons  BY <1>2, <3>1
      <4>q. QED  BY <1>2, <4>1
    <3>3. \A i \in 1 .. Len(got) : got[i].num \in sent /\ got[i].num < cons
      BY DEF RingInv, DeliveredInOrder
    <3>4. \A i \in 1 .. Len(got) : got[i].num \in sent /\ got[i].num < cons + 1
      <4>1. \A n \in sent : n < cons => n < cons + 1  BY <1>2
      <4>q. QED  BY <3>3, <4>1
    <3>q. QED  BY <1>4, <3>1, <3>2, <3>4 DEF RingInv, DeliveredInOrder
  <2>2. CASE r.st = "ready"
    <3>1. cons \in sent  BY <1>7, <2>2
    <3>2. \A i \in 1 .. Len(got') : i \in 1 .. Len(got) \/ i = Len(got) + 1
      BY <1>9, <2>0, <2>2
    <3>3. \A i \in 1 .. Len(got) : /\ got'[i] = got[i] /\ got[i].num \in sent
                                   /\ got[i].num < cons /\ got[i].num \in Int
      <4>1. \A i \in 1 .. Len(got) : got[i].num \in sent /\ got[i].num < cons
        BY DEF RingInv, DeliveredInOrder
      <4>2. \A n \in sent : n \in Int  BY <1>2
      <4>q. QED  BY <1>9, <2>2, <4>1, <4>2
    <3>4. got'[Len(got) + 1].num = cons  BY <1>8, <1>9, <2>2
    <3>5. \A i \in 1 .. Len(got') : got'[i].num \in sent' /\ got'[i].num < cons'
      <4> SUFFICES ASSUME NEW i \in 1 .. Len(got')
                   PROVE  got'[i].num \in sent' /\ got'[i].num < cons'
        OBVIOUS
      <4>1. CASE i \in 1 .. Len(got)  BY <1>2, <1>4, <3>3, <4>1
      <4>2. CASE i = Len(got) + 1  BY <1>2, <1>4, <3>1, <3>4, <4>2
      <4>q. QED  BY <3>2, <4>1, <4>2
    <3>6. ASSUME NEW i \in 1 .. Len(got'), NEW j \in 1 .. Len(got'), i < j
          PROVE  got'[i].num < got'[j].num
      <4>1. i \in 1 .. Len(got)  BY <1>9, <2>0, <2>2, <3>6
      <4>2. CASE j \in 1 .. Len(got)
        <5>1. got[i].num < got[j].num  BY <3>6, <4>1, <4>2 DEF RingInv, DeliveredInOrder
        <5>q. QED  BY <3>3, <4>1, <4>2, <5>1
      <4>3. CASE j = Len(got) + 1  BY <3>3, <3>4, <4>1, <4>3
      <4>q. QED  BY <3>2, <4>2, <4>3
    <3>7. ASSUME NEW n \in sent', n < cons'
          PROVE  \E i \in 1 .. Len(got') : got'[i].num = n
      <4>0. n \in Int /\ n \in sent  BY <1>2, <1>4
      <4>1. CASE n = cons
        <5>1. Len(got) + 1 \in 1 .. Len(got')  BY <1>9, <2>0, <2>2
        <5>q. QED  BY <3>4, <4>1, <5>1
      <4>2. CASE n # cons
        <5>1. n < cons  BY <1>2, <1>4, <3>7, <4>0, <4>2
        <5>2. PICK i \in 1 .. Len(got) : got[i].num = n
          BY <4>0, <5>1 DEF RingInv, DeliveredInOrder
        <5>3. i \in 1 .. Len(got')  BY <1>9, <2>0, <2>2
        <5>q. QED  BY <3>3, <5>2, <5>3
      <4>q. QED  BY <4>1, <4>2
    <3>q. QED  BY <3>5, <3>6, <3>7 DEF DeliveredInOrder
  <2>q. QED  BY <1>7, <2>1, <2>2
<1>16. TextIntact'
  <2>0. Len(got) \in Nat /\ overruns' \subseteq {0}  BY <1>2, <1>4 DEF RingInv, TextIntact
  <2>1. CASE r.st = "discarded"  BY <1>9, <2>0, <2>1 DEF RingInv, TextIntact
  <2>2. CASE r.st = "ready"
    <3>1. ASSUME NEW i \in 1 .. Len(got')
          PROVE  got'[i].text # << >> => got'[i].read = got'[i].text
      <4>1. CASE i \in 1 .. Len(got)  BY <1>9, <2>2, <4>1 DEF RingInv, TextIntact
      <4>2. CASE i = Len(got) + 1  BY <1>8, <1>9, <2>2, <4>2
      <4>q. QED  BY <1>9, <2>0, <2>2, <4>1, <4>2
    <3>q. QED  BY <2>0, <3>1 DEF TextIntact
  <2>q. QED  BY <1>7, <2>1, <2>2
<1>q. QED  BY <1>10, <1>12, <1>13, <1>14, <1>15, <1>16 DEF RingInv

LEMMA RingStart == RingInit => RingInv
<1> SUFFICES ASSUME RingInit PROVE RingInv  OBVIOUS
<1>1. PICK t : t = << >>  OBVIOUS
<1>2. t \in Seq(Int) /\ t \in Seq(GotSet) /\ Len(t) = 0  BY <1>1
<1>3. PICK d : d = Bytes(0)  OBVIOUS
<1>4. d \in ByteStrings  BY <1>3, FreshBytes
<1>5. PICK m, st : m = -1 /\ st = "free"  OBVIOUS
<1>6. PICK x : x = Record(m, st, d, t)  OBVIOUS
<1>7. m \in Int /\ st \in {"free", "busy", "ready", "discarded"}  BY <1>5
<1>8. x \in RecordSet /\ x.data = d /\ x.text = t
  <2>1. t \in Seq(Int)  BY <1>2
  <2>q. QED  BY <2>1, <1>4, <1>6, <1>7, RecordFacts
<1>9. /\ prod = 0 /\ cons = 0 /\ ring = [p \in 0 .. Places - 1 |-> x]
      /\ entry = [c \in Producers |-> NoEntry]
      /\ sent = {} /\ got = t /\ overruns = {}
  BY <1>1, <1>3, <1>5, <1>6 DEF RingInit
<1>10. RingType
  <2>1. prod \in Nat /\ cons \in Nat /\ cons <= prod /\ prod - cons <= Places
    BY <1>9, RingAssumption
  <2>2. ring \in [0 .. Places - 1 -> RecordSet]  BY <1>8, <1>9
  <2>3. entry \in [Producers -> EntrySet \cup {NoEntry}]  BY <1>9
  <2>q. QED  BY <1>2, <1>9, <2>1, <2>2, <2>3 DEF RingType
<1>11. PlacesInv  BY <1>9 DEF PlacesInv
<1>12. EntriesInv
  <2>1. \A c \in Producers : entry[c] = NoEntry  BY <1>9
  <2>q. QED  BY <2>1 DEF EntriesInv
<1>13. \A p \in 0 .. Places - 1 : IsText(ring[p])
  <2>1. TextOf(d, t)  BY <1>1 DEF TextOf
  <2>2. IsText(x)  BY <1>8, <2>1 DEF IsText
  <2>q. QED  BY <1>9, <2>2
<1>14. DeliveredInOrder  BY <1>2, <1>9 DEF DeliveredInOrder
<1>15. TextIntact  BY <1>2, <1>9 DEF TextIntact
<1>q. QED  BY <1>10, <1>11, <1>12, <1>13, <1>14, <1>15 DEF RingInv

LEMMA RingStep == RingInv /\ RingNext => RingInv'
<1> SUFFICES ASSUME RingInv, RingNext PROVE RingInv'  OBVIOUS
<1>1. ASSUME NEW c \in Producers, NEW size \in Lengths, reserve(c, size)  PROVE RingInv'
  BY <1>1, ReserveStep
<1>2. ASSUME NEW c \in Producers, NEW n \in 0 .. MaxWrite, write_str(c, n)  PROVE RingInv'
  BY <1>2, WriteStep
<1>3. ASSUME NEW c \in Producers, NEW n \in 0 .. MaxWrite, write_str_overrun(c, n)  PROVE RingInv'
  BY <1>3, AbandonStep
<1>4. ASSUME NEW c \in Producers, deref_mut(c)  PROVE RingInv'  BY <1>4, DerefStep
<1>5. ASSUME NEW c \in Producers, submit(c) \/ discard(c)  PROVE RingInv'  BY <1>5, FinishStep
<1>6. ASSUME NEW c \in Producers, abandon(c)  PROVE RingInv'
  <2>1. 0 \in 0 .. MaxWrite  BY RingAssumption
  <2>q. QED  BY <1>6, <2>1, AbandonStep
<1>7. ASSUME NEW c \in Producers, output(c)  PROVE RingInv'  BY <1>7, OutputStep
<1>8. CASE consume  BY <1>8, ConsumeStep
<1>q. QED  BY <1>1, <1>2, <1>3, <1>4, <1>5, <1>6, <1>7, <1>8 DEF RingNext

LEMMA RingRest == RingInv /\ UNCHANGED rvars => RingInv'
<1> SUFFICES ASSUME RingInv, UNCHANGED rvars PROVE RingInv'  OBVIOUS
<1>1. /\ prod' = prod /\ cons' = cons /\ ring' = ring /\ entry' = entry /\ sent' = sent
      /\ got' = got /\ overruns' = overruns
  BY DEF rvars
<1>2. RingType'  BY <1>1 DEF RingInv, RingType, RecordSet, EntrySet, GotSet, NoEntry, ByteStrings
<1>3. PlacesInv'  BY <1>1 DEF RingInv, PlacesInv, PlaceOf
<1>4. EntriesInv'  BY <1>1 DEF RingInv, EntriesInv, PlaceOf, Cursor, NoEntry
<1>5. (\A p \in 0 .. Places - 1 : IsText(ring[p]))'  BY <1>1 DEF RingInv, IsText, TextOf
<1>6. DeliveredInOrder' /\ TextIntact'  BY <1>1 DEF RingInv, DeliveredInOrder, TextIntact
<1>q. QED  BY <1>2, <1>3, <1>4, <1>5, <1>6 DEF RingInv

-----------------------------------------------------------------------------
(***************************************************************************)
(* The log: the invariant.                                                 *)
(***************************************************************************)
WriterSet == [msg: Nat \ {0}, off: Nat, text: Seq(Nat), pieces: Nat, nested: BOOLEAN]

LogType ==
  /\ logbuf \in [Positions -> Nat] /\ writers \in Seq(WriterSet) /\ messages \in Nat
  /\ panicking = "formatting" => writers # << >>

\* The cursor of a LogBuf is behind its text, and in the buffer.
CursorInv ==
  \A i \in 1 .. Len(writers) :
    writers[i].off = Len(writers[i].text) /\ writers[i].off < BufLen

\* The buffer starts with the text, and with a NUL behind it once written.
Holds(buf, w) ==
  /\ \A i \in 1 .. Len(w.text) : buf[i - 1] = w.text[i] /\ w.text[i] # 0
  /\ w.pieces > 0 => buf[w.off] = 0

\* The message that is being written is in the buffer, unless another one
\* was printed since it began.
TopInv == writers # << >> => Top.nested \/ Holds(logbuf, Top)

\* The buffer starts with the text that was written last, and a NUL.
Shows(buf, text) ==
  /\ text \in Seq(Nat) /\ Len(text) < BufLen /\ buf[Len(text)] = 0
  /\ \A i \in 1 .. Len(text) : buf[i - 1] = text[i] /\ text[i] # 0
LeftInv == left.mixed \/ Shows(logbuf, left.text)

LogInv == LogType /\ CursorInv /\ TopInv /\ LeftInv /\ PrintedAsWritten

(***************************************************************************)
(* Writers, pieces and the text that is read back.                         *)
(***************************************************************************)
LEMMA WriterFacts ==
  /\ \A n, off, text, pieces, nested :
       /\ Writer(n, off, text, pieces, nested).msg = n
       /\ Writer(n, off, text, pieces, nested).off = off
       /\ Writer(n, off, text, pieces, nested).text = text
       /\ Writer(n, off, text, pieces, nested).pieces = pieces
       /\ Writer(n, off, text, pieces, nested).nested = nested
       /\ n \in Nat \ {0} /\ off \in Nat /\ text \in Seq(Nat) /\ pieces \in Nat
          /\ nested \in BOOLEAN => Writer(n, off, text, pieces, nested) \in WriterSet
  /\ \A w \in WriterSet : /\ w.msg \in Nat \ {0} /\ w.off \in Nat /\ w.text \in Seq(Nat)
                          /\ w.pieces \in Nat /\ w.nested \in BOOLEAN
BY DEF Writer, WriterSet

LEMMA TopWriter ==
  ASSUME LogInv, writers # << >>
  PROVE  /\ Len(writers) \in Nat \ {0} /\ Top \in WriterSet
         /\ Top.off = Len(Top.text) /\ Top.off < BufLen
         /\ Top.nested \/ Holds(logbuf, Top)
<1>1. writers \in Seq(WriterSet)  BY DEF LogInv, LogType
<1>2. Len(writers) \in Nat \ {0} /\ Len(writers) \in 1 .. Len(writers)  BY <1>1
<1>3. Top \in WriterSet  BY <1>1, <1>2 DEF Top
<1>4. Top.off = Len(Top.text) /\ Top.off < BufLen  BY <1>2 DEF LogInv, CursorInv, Top
<1>q. QED  BY <1>2, <1>3, <1>4 DEF LogInv, TopInv

LEMMA PutType ==
  ASSUME LogType, NEW off \in Nat, NEW n \in Nat, NEW byte \in Nat
  PROVE  PutPiece(off, n, byte) \in [Positions -> Nat]
<1>1. PICK buf : buf = PutPiece(off, n, byte)  OBVIOUS
<1>2. buf = [i \in Positions |-> buf[i]]  BY <1>1 DEF PutPiece
<1>3. ASSUME NEW i \in Positions  PROVE buf[i] \in Nat
  <2>1. logbuf[i] \in Nat  BY DEF LogType
  <2>2. i \in Int  BY DEF Positions
  <2>3. buf[i] = IF i \in off .. off + n - 1 THEN byte ELSE IF i = off + n THEN 0 ELSE logbuf[i]
    BY <1>1, <2>2 DEF PutPiece
  <2>q. QED  BY <2>1, <2>3
<1>q. QED  BY <1>1, <1>2, <1>3

LEMMA PieceHolds ==
  ASSUME LogType, NEW text \in Seq(Nat), NEW more \in Seq(Nat), NEW byte \in Nat \ {0},
         \A i \in 1 .. Len(more) : more[i] = byte,
         Len(text) + Len(more) < BufLen,
         \A i \in 1 .. Len(text) : logbuf[i - 1] = text[i] /\ text[i] # 0
  PROVE  /\ PutPiece(Len(text), Len(more), byte)[Len(text) + Len(more)] = 0
         /\ \A i \in 1 .. Len(text \o more) :
              /\ PutPiece(Len(text), Len(more), byte)[i - 1] = (text \o more)[i]
              /\ (text \o more)[i] # 0
<1>a. PICK L : L = Len(text)  OBVIOUS
<1>b. PICK n : n = Len(more)  OBVIOUS
<1>c. PICK buf : buf = PutPiece(L, n, byte)  OBVIOUS
<1>d. PICK t : t = text \o more  OBVIOUS
<1>0. n \in Nat /\ L \in Nat /\ BufLen \in Nat /\ L + n < BufLen  BY <1>a, <1>b, LogAssumption
<1>1. \A i \in 0 .. BufLen - 1 :
        buf[i] = IF i \in L .. L + n - 1 THEN byte ELSE IF i = L + n THEN 0 ELSE logbuf[i]
  BY <1>0, <1>c DEF PutPiece, Positions
<1>2. /\ Len(t) = L + n
      /\ \A i \in 1 .. L : t[i] = text[i]
      /\ \A i \in L + 1 .. L + n : t[i] = byte
  <2>1. Len(t) = L + n  BY <1>a, <1>b, <1>d, ConcatProperties
  <2>2. \A i \in 1 .. L : t[i] = text[i]  BY <1>a, <1>b, <1>d
  <2>3. \A i \in L + 1 .. L + n : i - L \in 1 .. n /\ t[i] = more[i - L]
    BY <1>0, <1>a, <1>b, <1>d
  <2>4. \A i \in L + 1 .. L + n : t[i] = byte  BY <1>b, <2>3
  <2>q. QED  BY <2>1, <2>2, <2>4
<1>3. buf[L + n] = 0
  <2>1. L + n \in 0 .. BufLen - 1 /\ L + n \notin L .. L + n - 1  BY <1>0
  <2>q. QED  BY <1>1, <2>1
<1>4. ASSUME NEW i \in 1 .. L + n  PROVE buf[i - 1] = t[i] /\ t[i] # 0
  <2>0. i - 1 \in 0 .. BufLen - 1  BY <1>0
  <2>1. CASE i <= L
    <3>1. i \in 1 .. L /\ i - 1 \notin L .. L + n - 1 /\ i - 1 # L + n  BY <1>0, <2>1
    <3>2. logbuf[i - 1] = text[i] /\ text[i] # 0  BY <1>a, <3>1
    <3>q. QED  BY <1>1, <1>2, <2>0, <3>1, <3>2
  <2>2. CASE i > L
    <3>1. i \in L + 1 .. L + n /\ i - 1 \in L .. L + n - 1  BY <1>0, <2>2
    <3>q. QED  BY <1>1, <1>2, <2>0, <3>1
  <2>q. QED  BY <1>0, <2>1, <2>2
<1>q. QED  BY <1>2, <1>3, <1>4, <1>a, <1>b, <1>c, <1>d

\* A text of the buffer is what the kernel prints, up to the NUL behind it.
LEMMA TextRead ==
  ASSUME NEW text, Shows(logbuf, text)
  PROVE  CText = text
<1>1. PICK e : e = Len(text)  OBVIOUS
<1>2. text \in Seq(Nat) /\ e \in Nat /\ e < BufLen  BY <1>1 DEF Shows
<1>3. /\ logbuf[e] = 0
      /\ \A i \in 1 .. e : logbuf[i - 1] = text[i] /\ text[i] # 0
  BY <1>1 DEF Shows
<1>4. \A j \in 0 .. e - 1 : logbuf[j] # 0
  <2> SUFFICES ASSUME NEW j \in 0 .. e - 1  PROVE logbuf[j] # 0  OBVIOUS
  <2>1. j + 1 \in 1 .. e /\ (j + 1) - 1 = j  BY <1>2
  <2>q. QED  BY <1>3, <2>1
<1>5. e \in Positions  BY <1>2, LogAssumption DEF Positions
<1>6. ASSUME NEW i \in Positions, logbuf[i] = 0, \A j \in 0 .. i - 1 : logbuf[j] # 0
      PROVE  i = e
  <2>1. i \in Nat  BY LogAssumption DEF Positions
  <2>2. CASE i < e  BY <1>2, <1>4, <1>6, <2>1, <2>2
  <2>3. CASE e < i  BY <1>2, <1>3, <1>6, <2>1, <2>3
  <2>q. QED  BY <1>2, <2>1, <2>2, <2>3
<1>7. (CHOOSE i \in Positions : logbuf[i] = 0 /\ \A j \in 0 .. i - 1 : logbuf[j] # 0) = e
  BY <1>3, <1>4, <1>5, <1>6
<1>8. CText = [i \in 1 .. e |-> logbuf[i - 1]]  BY <1>7 DEF CText
<1>9. text = [i \in 1 .. e |-> text[i]]  BY <1>1, <1>2
<1>q. QED  BY <1>3, <1>8, <1>9

\* The LogBuf being written, once it has a piece, shows its text.
LEMMA TopShows ==
  ASSUME LogInv, writers # << >>, ~Top.nested, Top.pieces > 0
  PROVE  Shows(logbuf, Top.text)
<1>1. PICK w : w = Top  OBVIOUS
<1>2. w \in WriterSet /\ w.off = Len(w.text) /\ w.off < BufLen /\ Holds(logbuf, w)
  BY <1>1, TopWriter
<1>3. w.text \in Seq(Nat)  BY <1>2, WriterFacts
<1>4. w.pieces > 0  BY <1>1
<1>q. QED  BY <1>1, <1>2, <1>3, <1>4 DEF Shows, Holds

\* A message is begun, on top of the others or in place of all of them.
LEMMA LogBegin ==
  ASSUME LogInv, rex_trace_printk \/ log_panic
  PROVE  LogInv'
<1>1. PICK t : t = << >>  OBVIOUS
<1>2. t \in Seq(Nat) /\ Len(t) = 0  BY <1>1
<1>3. PICK n : n = messages + 1  OBVIOUS
<1>4. messages \in Nat /\ n \in Nat \ {0} /\ writers \in Seq(WriterSet)
      /\ logbuf \in [Positions -> Nat] /\ Len(writers) \in Nat
  BY <1>3 DEF LogInv, LogType
<1>5. PICK w : w = Writer(n, 0, t, 0, FALSE)  OBVIOUS
<1>6. w \in WriterSet /\ w.off = 0 /\ w.text = t /\ w.pieces = 0
  <2>1. PICK z, f : z = 0 /\ f = FALSE  OBVIOUS
  <2>2. n \in Nat \ {0} /\ z \in Nat /\ t \in Seq(Nat) /\ f \in BOOLEAN  BY <1>2, <1>4, <2>1
  <2>3. w = Writer(n, z, t, z, f)  BY <1>5, <2>1
  <2>4. w \in WriterSet /\ w.off = z /\ w.text = t /\ w.pieces = z  BY <2>2, <2>3, WriterFacts
  <2>q. QED  BY <2>1, <2>4
<1>7. logbuf' = logbuf /\ left' = left /\ printed' = printed /\ messages' = messages + 1
  BY DEF rex_trace_printk, log_panic
<1>8. /\ writers' \in Seq(WriterSet) /\ Len(writers') \in Nat \ {0} /\ writers'[Len(writers')] = w
      /\ \A i \in 1 .. Len(writers') :
           writers'[i] = w \/ (i \in 1 .. Len(writers) /\ writers'[i] = writers[i])
  <2>1. CASE rex_trace_printk
    <3>1. writers' = Append(writers, w)  BY <1>1, <1>3, <1>5, <2>1 DEF rex_trace_printk
    <3>q. QED  BY <1>4, <1>6, <3>1
  <2>2. CASE log_panic
    <3>1. writers' = <<w>>  BY <1>1, <1>3, <1>5, <2>2 DEF log_panic
    <3>q. QED  BY <1>6, <3>1
  <2>q. QED  BY <2>1, <2>2
<1>9. writers' # << >>  BY <1>8
<1>10. LogType'
  BY <1>4, <1>7, <1>8, <1>9 DEF LogType, Positions, WriterSet
<1>11. CursorInv'
  <2> SUFFICES ASSUME NEW i \in 1 .. Len(writers')
               PROVE  writers'[i].off = Len(writers'[i].text) /\ writers'[i].off < BufLen
    BY DEF CursorInv
  <2>1. CASE writers'[i] = w  BY <1>2, <1>6, <2>1, LogAssumption
  <2>2. CASE i \in 1 .. Len(writers) /\ writers'[i] = writers[i]
    BY <2>2 DEF LogInv, CursorInv
  <2>q. QED  BY <1>8, <2>1, <2>2
<1>12. TopInv'
  <2>1. Holds(logbuf', w)  BY <1>2, <1>6 DEF Holds
  <2>2. Top' = w  BY <1>8 DEF Top
  <2>3. Holds(logbuf, Top)'  BY <2>1, <2>2 DEF Holds
  <2>q. QED  BY <2>3 DEF TopInv
<1>13. PrintedAsWritten' /\ LeftInv'
  BY <1>7 DEF LogInv, PrintedAsWritten, LeftInv, Shows
<1>q. QED  BY <1>10, <1>11, <1>12, <1>13 DEF LogInv

\* The message on top is replaced by a further state of it.
LEMMA LogWritten ==
  ASSUME LogInv, writers # << >>, NEW w \in WriterSet, NEW buf \in [Positions -> Nat],
         w.off = Len(w.text), w.off < BufLen, w.nested \/ Shows(buf, w.text),
         logbuf' = buf, left' = Text(w.text, w.nested),
         writers' = ReplaceTop(w) \/ writers' = <<w>>,
         UNCHANGED <<messages, panicking, printed>>
  PROVE  LogInv'
<1>1. messages \in Nat /\ writers \in Seq(WriterSet) /\ Len(writers) \in Nat \ {0}
  BY TopWriter DEF LogInv, LogType
<1>2. /\ writers' \in Seq(WriterSet) /\ Len(writers') \in Nat \ {0} /\ writers'[Len(writers')] = w
      /\ \A i \in 1 .. Len(writers') :
           writers'[i] = w \/ (i \in 1 .. Len(writers) /\ writers'[i] = writers[i])
  <2>1. CASE writers' = ReplaceTop(w)
    <3>1. writers' = [writers EXCEPT ![Len(writers)] = w]  BY <2>1 DEF ReplaceTop
    <3>2. /\ writers' \in Seq(WriterSet) /\ Len(writers') = Len(writers)
          /\ writers'[Len(writers)] = w
          /\ \A i \in 1 .. Len(writers) : i # Len(writers) => writers'[i] = writers[i]
      BY <1>1, <3>1
    <3>q. QED  BY <1>1, <3>2
  <2>2. CASE writers' = <<w>>  BY <2>2
  <2>q. QED  BY <2>1, <2>2
<1>3. writers' # << >>  BY <1>2
<1>4. LogType'  BY <1>1, <1>2, <1>3 DEF LogType, Positions, WriterSet
<1>5. CursorInv'
  <2> SUFFICES ASSUME NEW i \in 1 .. Len(writers')
               PROVE  writers'[i].off = Len(writers'[i].text) /\ writers'[i].off < BufLen
    BY DEF CursorInv
  <2>1. CASE writers'[i] = w  BY <2>1
  <2>2. CASE i \in 1 .. Len(writers) /\ writers'[i] = writers[i]
    BY <2>2 DEF LogInv, CursorInv
  <2>q. QED  BY <1>2, <2>1, <2>2
<1>6. TopInv'
  <2>1. Top' = w  BY <1>2 DEF Top
  <2>2. w.nested \/ Holds(buf, w)  BY DEF Holds, Shows
  <2>3. (Top.nested \/ Holds(logbuf, Top))'  BY <2>1, <2>2 DEF Holds
  <2>q. QED  BY <2>3 DEF TopInv
<1>7. LeftInv'
  <2>1. left'.text = w.text /\ left'.mixed = w.nested  BY DEF Text
  <2>2. w.nested \/ Shows(logbuf', left'.text)  BY <2>1
  <2>3. left'.mixed \/ Shows(logbuf', left'.text)  BY <2>1, <2>2
  <2>q. QED  BY <2>3 DEF LeftInv, Shows
<1>8. PrintedAsWritten'  BY DEF LogInv, PrintedAsWritten
<1>q. QED  BY <1>4, <1>5, <1>6, <1>7, <1>8 DEF LogInv

LEMMA LogWriteStep ==
  ASSUME LogInv, NEW n \in 0 .. MaxPiece, log_write_str(n)
  PROVE  LogInv'
<1>0. PICK w : w = Top  OBVIOUS
<1>1. writers # << >> /\ n \in Nat  BY LogAssumption DEF log_write_str
<1>2. /\ w \in WriterSet /\ w.off = Len(w.text) /\ w.off < BufLen
      /\ w.nested \/ Holds(logbuf, w)
  BY <1>0, <1>1, TopWriter
<1>3. /\ w.msg \in Nat \ {0} /\ w.off \in Nat /\ w.text \in Seq(Nat)
      /\ w.pieces \in Nat /\ w.nested \in BOOLEAN
  BY <1>2, WriterFacts
<1>4. PICK more, buf : /\ more = [i \in 1 .. n |-> w.msg]
                       /\ buf = PutPiece(w.off, n, w.msg)
  OBVIOUS
<1>5. PICK t : t = w.text \o more  OBVIOUS
<1>6. PICK x : x = Writer(w.msg, w.off + n, t, w.pieces + 1, w.nested)  OBVIOUS
<1>7. /\ n <= BufLen - w.off - 1 /\ logbuf' = buf /\ writers' = ReplaceTop(x)
      /\ left' = Text(t, w.nested) /\ UNCHANGED <<messages, panicking, printed>>
  BY <1>0, <1>4, <1>5, <1>6 DEF log_write_str, Available
<1>8. /\ more \in Seq(Nat) /\ Len(more) = n /\ \A i \in 1 .. n : more[i] = w.msg
  <2>1. PICK b : b = w.msg  OBVIOUS
  <2>2. b \in Nat /\ more = [i \in 1 .. n |-> b]  BY <1>3, <1>4, <2>1
  <2>3. more \in Seq(Nat) /\ Len(more) = n /\ \A i \in 1 .. n : more[i] = b  BY <1>1, <2>2
  <2>q. QED  BY <2>1, <2>3
<1>9. t \in Seq(Nat) /\ Len(t) = w.off + n
  <2>1. PICK text : text = w.text  OBVIOUS
  <2>2. text \in Seq(Nat) /\ Len(text) = w.off  BY <1>2, <1>3, <2>1
  <2>3. t = text \o more  BY <1>5, <2>1
  <2>4. t \in Seq(Nat) /\ Len(t) = Len(text) + Len(more)  BY <1>8, <2>2, <2>3, ConcatProperties
  <2>q. QED  BY <1>8, <2>2, <2>4
<1>10. w.off + n \in Nat /\ w.pieces + 1 \in Nat /\ w.off + n < BufLen
  BY <1>1, <1>3, <1>7, LogAssumption
<1>11. /\ x \in WriterSet /\ x.off = w.off + n /\ x.text = t /\ x.nested = w.nested
  BY <1>3, <1>6, <1>9, <1>10, WriterFacts
<1>12. buf \in [Positions -> Nat]
  BY <1>1, <1>3, <1>4, PutType DEF LogInv
<1>13. ~w.nested => Shows(buf, t)
  <2> SUFFICES ASSUME ~w.nested PROVE Shows(buf, t)  OBVIOUS
  <2>1. PICK text, b : text = w.text /\ b = w.msg  OBVIOUS
  <2>2. /\ text \in Seq(Nat) /\ b \in Nat \ {0} /\ Len(text) = w.off
        /\ Len(text) + Len(more) < BufLen
        /\ \A i \in 1 .. Len(more) : more[i] = b
    BY <1>2, <1>3, <1>8, <1>10, <2>1
  <2>3. \A i \in 1 .. Len(text) : logbuf[i - 1] = text[i] /\ text[i] # 0
    BY <1>2, <2>1 DEF Holds
  <2>4. /\ PutPiece(Len(text), Len(more), b)[Len(text) + Len(more)] = 0
        /\ \A i \in 1 .. Len(text \o more) :
             /\ PutPiece(Len(text), Len(more), b)[i - 1] = (text \o more)[i]
             /\ (text \o more)[i] # 0
    BY <1>8, <2>2, <2>3, PieceHolds DEF LogInv
  <2>5. buf = PutPiece(Len(text), Len(more), b) /\ t = text \o more
    BY <1>4, <1>5, <1>8, <2>1, <2>2
  <2>6. buf[Len(t)] = 0 /\ \A i \in 1 .. Len(t) : buf[i - 1] = t[i] /\ t[i] # 0
    BY <1>8, <1>9, <2>2, <2>4, <2>5
  <2>q. QED  BY <1>9, <1>10, <2>6 DEF Shows
<1>14. x.nested \/ Shows(buf, x.text)  BY <1>11, <1>13
<1>15. left' = Text(x.text, x.nested)  BY <1>7, <1>11
<1>16. x.off = Len(x.text) /\ x.off < BufLen  BY <1>9, <1>10, <1>11
<1>q. QED  BY <1>1, <1>7, <1>11, <1>12, <1>14, <1>15, <1>16, LogWritten

LEMMA LogUnknownStep ==
  ASSUME LogInv, NEW n \in 0 .. MaxPiece, panic_unknown(n)
  PROVE  LogInv'
<1>0. PICK w : w = Top  OBVIOUS
<1>1. writers # << >>  BY DEF LogInv, LogType, panic_unknown
<1>2. w \in WriterSet  BY <1>0, <1>1, TopWriter
<1>3. w.msg \in Nat \ {0}  BY <1>2, WriterFacts
<1>4. PICK b, text, f : b = w.msg /\ text = << >> /\ f = FALSE  OBVIOUS
<1>5. PICK more : more = <<b>>  OBVIOUS
<1>6. PICK buf : buf = PutPiece(0, 1, b)  OBVIOUS
<1>7. PICK x : x = Writer(b, 1, more, MaxPieces, f)  OBVIOUS
<1>8. /\ logbuf' = buf /\ writers' = <<x>> /\ left' = Text(more, f)
      /\ UNCHANGED <<messages, panicking, printed>>
  BY <1>0, <1>4, <1>5, <1>6, <1>7 DEF panic_unknown
<1>9. /\ b \in Nat \ {0} /\ text \in Seq(Nat) /\ Len(text) = 0
      /\ more \in Seq(Nat) /\ Len(more) = 1 /\ more[1] = b
  BY <1>3, <1>4, <1>5
<1>10. text \o more = more  BY <1>4, <1>9
<1>11. /\ x \in WriterSet /\ x.off = 1 /\ x.text = more /\ x.nested = f
  <2>1. MaxPieces \in Nat /\ 1 \in Nat  BY LogAssumption
  <2>2. f \in BOOLEAN  BY <1>4
  <2>q. QED  BY <1>7, <1>9, <2>1, <2>2, WriterFacts
<1>12. buf \in [Positions -> Nat]
  <2>1. 0 \in Nat /\ 1 \in Nat /\ b \in Nat  BY <1>9
  <2>q. QED  BY <1>6, <2>1, PutType DEF LogInv
<1>13. Shows(buf, more)
  <2>1. /\ Len(text) + Len(more) < BufLen /\ \A i \in 1 .. Len(more) : more[i] = b
    BY <1>9, LogAssumption
  <2>2. \A i \in 1 .. Len(text) : logbuf[i - 1] = text[i] /\ text[i] # 0  BY <1>9
  <2>3. /\ PutPiece(Len(text), Len(more), b)[Len(text) + Len(more)] = 0
        /\ \A i \in 1 .. Len(text \o more) :
             /\ PutPiece(Len(text), Len(more), b)[i - 1] = (text \o more)[i]
             /\ (text \o more)[i] # 0
    BY <1>9, <2>1, <2>2, PieceHolds DEF LogInv
  <2>4. buf[1] = 0 /\ \A i \in 1 .. Len(more) : buf[i - 1] = more[i] /\ more[i] # 0
    BY <1>6, <1>9, <1>10, <2>3
  <2>q. QED  BY <1>9, <2>1, <2>4 DEF Shows
<1>14. x.off = Len(x.text) /\ x.off < BufLen  BY <1>9, <1>11, LogAssumption
<1>15. x.nested \/ Shows(buf, x.text)  BY <1>11, <1>13
<1>16. left' = Text(x.text, x.nested)  BY <1>8, <1>11
<1>q. QED  BY <1>1, <1>8, <1>11, <1>12, <1>14, <1>15, <1>16, LogWritten

\* The message on top ends, and the one below has had another one printed.
LEMMA LogPop ==
  ASSUME LogInv, IsPrintk, writers' = Popped,
         UNCHANGED <<logbuf, messages, panicking, left>>, PrintedAsWritten'
  PROVE  LogInv'
<1>1. /\ messages \in Nat /\ writers \in Seq(WriterSet) /\ Len(writers) \in Nat \ {0}
      /\ logbuf \in [Positions -> Nat]
  BY TopWriter DEF IsPrintk, LogInv, LogType
<1>0. LeftInv'  BY DEF LogInv, LeftInv, Shows
<1>2. PICK L : L = Len(writers)  OBVIOUS
<1>3. PICK ws : ws = PopTop  OBVIOUS
<1>4. /\ ws \in Seq(WriterSet) /\ Len(ws) = L - 1
      /\ \A i \in 1 .. L - 1 : ws[i] = writers[i]
  <2>1. ws = SubSeq(writers, 1, L - 1)  BY <1>2, <1>3 DEF PopTop
  <2>q. QED  BY <1>1, <1>2, <2>1
<1>5. CASE L < 2
  <2>1. writers' = ws  BY <1>2, <1>3, <1>5 DEF Popped
  <2>2. Len(writers') = 0 /\ writers' = << >> /\ writers' \in Seq(WriterSet)
    BY <1>1, <1>2, <1>4, <1>5, <2>1
  <2>3. panicking = "no"  BY <1>1, <1>2, <1>5 DEF IsPrintk
  <2>4. LogType'  BY <1>1, <2>2, <2>3 DEF LogType, Positions, WriterSet
  <2>q. QED  BY <1>0, <2>2, <2>4 DEF LogInv, CursorInv, TopInv
<1>6. CASE L >= 2
  <2>1. PICK w : w = writers[L - 1]  OBVIOUS
  <2>2. /\ w \in WriterSet /\ w.off = Len(w.text) /\ w.off < BufLen
    <3>1. L - 1 \in 1 .. Len(writers)  BY <1>1, <1>2, <1>6
    <3>q. QED  BY <1>1, <2>1, <3>1 DEF LogInv, CursorInv
  <2>3. PICK x : x = Writer(w.msg, w.off, w.text, w.pieces, TRUE)  OBVIOUS
  <2>4. x \in WriterSet /\ x.off = w.off /\ x.text = w.text /\ x.nested
    <3>1. PICK b : b = TRUE  OBVIOUS
    <3>2. x = Writer(w.msg, w.off, w.text, w.pieces, b) /\ b \in BOOLEAN  BY <2>3, <3>1
    <3>3. /\ w.msg \in Nat \ {0} /\ w.off \in Nat /\ w.text \in Seq(Nat) /\ w.pieces \in Nat
      BY <2>2, WriterFacts
    <3>4. x \in WriterSet /\ x.off = w.off /\ x.text = w.text /\ x.nested = b
      BY <3>2, <3>3, WriterFacts
    <3>q. QED  BY <3>1, <3>4
  <2>5. writers' = [ws EXCEPT ![L - 1] = x]
    BY <1>1, <1>2, <1>3, <1>6, <2>1, <2>3 DEF Popped
  <2>6. /\ writers' \in Seq(WriterSet) /\ Len(writers') = L - 1 /\ writers'[L - 1] = x
        /\ \A i \in 1 .. L - 1 : i # L - 1 => writers'[i] = writers[i]
    BY <1>1, <1>2, <1>4, <1>6, <2>4, <2>5
  <2>7. writers' # << >>  BY <1>1, <1>2, <1>6, <2>6
  <2>8. LogType'  BY <1>1, <2>6, <2>7 DEF LogType, Positions, WriterSet
  <2>9. CursorInv'
    <3> SUFFICES ASSUME NEW i \in 1 .. L - 1
                 PROVE  writers'[i].off = Len(writers'[i].text) /\ writers'[i].off < BufLen
      BY <2>6 DEF CursorInv
    <3>1. CASE i = L - 1  BY <2>2, <2>4, <2>6, <3>1
    <3>2. CASE i # L - 1
      <4>1. i \in 1 .. Len(writers) /\ writers'[i] = writers[i]  BY <1>1, <1>2, <2>6, <3>2
      <4>q. QED  BY <4>1 DEF LogInv, CursorInv
    <3>q. QED  BY <3>1, <3>2
  <2>10. TopInv'
    <3>1. Top' = x  BY <2>6 DEF Top
    <3>q. QED  BY <2>4, <3>1 DEF TopInv
  <2>q. QED  BY <1>0, <2>8, <2>9, <2>10 DEF LogInv
<1>q. QED  BY <1>1, <1>2, <1>5, <1>6

\* What is due is in the buffer: the message's own text, or the one left there.
LEMMA LogPrinted ==
  ASSUME LogInv, writers # << >>, printed' = Printed
  PROVE  PrintedAsWritten'
<1>1. PICK d, c : d = Due /\ c = CText  OBVIOUS
<1>2. printed' = [read |-> c, due |-> d]  BY <1>1 DEF Printed
<1>3. d.mixed \/ c = d.text
  <2>1. CASE Top.pieces > 0
    <3>1. d = Text(Top.text, Top.nested)  BY <1>1, <2>1 DEF Due
    <3>2. d.text = Top.text /\ d.mixed = Top.nested  BY <3>1 DEF Text
    <3>3. Top.nested \/ CText = Top.text  BY <2>1, TopShows, TextRead
    <3>q. QED  BY <1>1, <3>2, <3>3
  <2>2. CASE ~(Top.pieces > 0)
    <3>1. d = left  BY <1>1, <2>2 DEF Due
    <3>2. left.mixed \/ CText = left.text  BY TextRead DEF LogInv, LeftInv
    <3>q. QED  BY <1>1, <3>1, <3>2
  <2>q. QED  BY <2>1, <2>2
<1>4. printed'.read = c /\ printed'.due = d  BY <1>2
<1>q. QED  BY <1>3, <1>4 DEF PrintedAsWritten

LEMMA LogStep == LogInv /\ LogNext => LogInv'
<1> SUFFICES ASSUME LogInv, LogNext PROVE LogInv'  OBVIOUS
<1>1. CASE rex_trace_printk  BY <1>1, LogBegin
<1>2. CASE log_panic  BY <1>2, LogBegin
<1>3. ASSUME NEW n \in 0 .. MaxPiece, log_write_str(n)  PROVE LogInv'  BY <1>3, LogWriteStep
<1>4. ASSUME NEW n \in 0 .. MaxPiece, panic_unknown(n)  PROVE LogInv'  BY <1>4, LogUnknownStep
<1>5. ASSUME NEW n \in 0 .. MaxPiece, log_write_str_err(n)  PROVE LogInv'
  <2>1. /\ IsPrintk /\ writers' = Popped
        /\ UNCHANGED <<logbuf, messages, panicking, left>> /\ UNCHANGED printed
    BY <1>5 DEF log_write_str_err
  <2>2. PrintedAsWritten'  BY <2>1 DEF LogInv, PrintedAsWritten
  <2>q. QED  BY <2>1, <2>2, LogPop
<1>6. CASE print
  <2>1. /\ IsPrintk /\ writers' = Popped /\ printed' = Printed
        /\ UNCHANGED <<logbuf, messages, panicking, left>>
    BY <1>6 DEF print
  <2>2. writers # << >>  BY <2>1 DEF IsPrintk
  <2>q. QED  BY <2>1, <2>2, LogPop, LogPrinted
<1>7. CASE rex_landingpad
  <2>1. /\ panicking = "formatting" /\ printed' = Printed
        /\ writers' = << >> /\ panicking' = "done" /\ UNCHANGED <<logbuf, messages, left>>
    BY <1>7 DEF rex_landingpad
  <2>2. writers # << >>  BY <2>1 DEF LogInv, LogType
  <2>3. PrintedAsWritten' /\ LeftInv'
    BY <2>1, <2>2, LogPrinted DEF LogInv, LeftInv, Shows
  <2>4. writers' \in Seq(WriterSet) /\ Len(writers') = 0  BY <2>1
  <2>5. logbuf' \in [Positions -> Nat] /\ messages' \in Nat  BY <2>1 DEF LogInv, LogType
  <2>6. panicking' # "formatting"  BY <2>1
  <2>7. LogType'  BY <2>4, <2>5, <2>6 DEF LogType, Positions, WriterSet
  <2>q. QED  BY <2>1, <2>3, <2>4, <2>7 DEF LogInv, CursorInv, TopInv
<1>q. QED  BY <1>1, <1>2, <1>3, <1>4, <1>5, <1>6, <1>7 DEF LogNext

LEMMA LogStart == LogInit => LogInv
<1> SUFFICES ASSUME LogInit PROVE LogInv  OBVIOUS
<1>1. PICK t : t = << >>  OBVIOUS
<1>2. t \in Seq(Nat) /\ Len(t) = 0  BY <1>1
<1>3. /\ logbuf = [i \in Positions |-> 0] /\ writers = << >> /\ messages = 0
      /\ panicking = "no" /\ left = Text(t, FALSE)
      /\ printed = [read |-> t, due |-> Text(t, FALSE)]
  BY <1>1 DEF LogInit
<1>4. writers \in Seq(WriterSet) /\ Len(writers) = 0  BY <1>3
<1>5. logbuf \in [Positions -> Nat] /\ messages \in Nat /\ panicking # "formatting"  BY <1>3
<1>6. LeftInv
  <2>1. left.text = t  BY <1>3 DEF Text
  <2>2. 0 \in Positions /\ 0 < BufLen  BY LogAssumption DEF Positions
  <2>3. logbuf[0] = 0  BY <1>3, <2>2
  <2>q. QED  BY <1>2, <2>1, <2>2, <2>3 DEF LeftInv, Shows
<1>7. PrintedAsWritten
  <2>1. PICK d : d = Text(t, FALSE)  OBVIOUS
  <2>2. printed.read = t /\ printed.due = d  BY <1>3, <2>1
  <2>3. d.text = t  BY <2>1 DEF Text
  <2>q. QED  BY <2>2, <2>3 DEF PrintedAsWritten
<1>q. QED  BY <1>3, <1>4, <1>5, <1>6, <1>7 DEF LogInv, LogType, CursorInv, TopInv

LEMMA LogRest == LogInv /\ UNCHANGED lvars => LogInv'
<1> SUFFICES ASSUME LogInv, UNCHANGED lvars PROVE LogInv'  OBVIOUS
<1>1. /\ logbuf' = logbuf /\ writers' = writers /\ messages' = messages
      /\ panicking' = panicking /\ left' = left /\ printed' = printed
  BY DEF lvars
<1>2. LogType'  BY <1>1 DEF LogInv, LogType, Positions, WriterSet
<1>3. CursorInv' /\ PrintedAsWritten'  BY <1>1 DEF LogInv, CursorInv, PrintedAsWritten
<1>4. TopInv'  BY <1>1 DEF LogInv, TopInv, Top, Holds
<1>5. LeftInv'  BY <1>1 DEF LogInv, LeftInv, Shows
<1>q. QED  BY <1>2, <1>3, <1>4, <1>5 DEF LogInv

-----------------------------------------------------------------------------
(***************************************************************************)
(* The counting samples: the invariant.                                    *)
(***************************************************************************)
Keys   == Ids \cup {0}
Tables == UNION {[D -> Nat] : D \in SUBSET Keys}
Stages == {InUser, InCall, <<"start", "update">>, <<"start", "lookup">>,
           <<"start", "delete">>, <<"measured", "-">>}
          \cup (MapNames \X {"lookup", "load", "store", "insert"})

CountingType ==
  /\ sample \in Programs /\ tab \in [MapNames -> Tables]
  /\ pc \in [Tasks -> Stages] /\ id \in [Tasks -> Ids]
  /\ clock \in Nat /\ call \in [Tasks -> Nat] /\ reg \in [Tasks -> Nat]
  /\ gone \subseteq Tasks /\ cut \subseteq Tasks
  /\ added \in [MapNames -> [Keys -> Nat]]
  /\ DOMAIN start \subseteq Ids \X Tasks /\ start \in [DOMAIN start -> Nat]

Hold(t, m) == pc[t] = <<m, "load">> \/ pc[t] = <<m, "store">>
Work(t, m) == Hold(t, m) \/ pc[t] = <<m, "insert">>

\* A counter accounts for the events of its key; there are none without one.
CounterInv ==
  \A m \in MapNames : \A k \in Keys :
    /\ k \notin DOMAIN tab[m] => added[m][k] = 0
    /\ k \in DOMAIN tab[m] => /\ tab[m][k] <= added[m][k]
                              /\ <<m, k>> \notin raced => tab[m][k] = added[m][k]

\* What a task has seen of a counter is still so, unless the key was raced for.
RefInv(t) ==
  \A m \in MapNames :
    /\ Hold(t, m) => Key(t) \in DOMAIN tab[m]
    /\ pc[t] = <<m, "insert">> /\ Key(t) \in DOMAIN tab[m] => <<m, Key(t)>> \in raced
    /\ pc[t] = <<m, "store">> =>
         /\ reg[t] <= added[m][Key(t)]
         /\ <<m, Key(t)>> \notin raced => reg[t] = added[m][Key(t)]

\* A reference is to a replaced element only after a race.
GoneInv(t) == t \in gone => \E m \in MapNames : Hold(t, m) /\ <<m, Key(t)>> \in raced

\* Two tasks that work on the same counter are a race.
PairInv ==
  \A t, u \in Tasks : \A m \in MapNames :
    t # u /\ Work(t, m) /\ Work(u, m) /\ Key(t) = Key(u) => <<m, Key(t)>> \in raced

\* A system call with a start time has been counted.
StartInv ==
  \A i \in Ids : \A t \in Tasks :
    <<i, t>> \in DOMAIN start => sample = "syscount" /\ i \in DOMAIN tab["counts"]

\* From the end of the enter program to the measurement, a start time there
\* is the one of this call.
Calling(t) == pc[t] \in {InCall, <<"start", "lookup">>} \/ pc[t][1] = "errors"
CallInv(t) ==
  /\ pc[t] = <<"start", "update">> => sample = "syscount" /\ id[t] \in DOMAIN tab["counts"]
  /\ Calling(t) /\ StartKey(t) \in DOMAIN start =>
       start[StartKey(t)] = call[t] \/ t \in cut
  /\ pc[t] = <<"measured", "-">> => reg[t] = call[t] \/ t \in cut

CountingInv ==
  /\ CountingType /\ CounterInv /\ PairInv /\ StartInv
  /\ \A t \in Tasks : RefInv(t) /\ GoneInv(t) /\ CallInv(t)

LEMMA KeyFacts ==
  ASSUME CountingType, NEW t \in Tasks
  PROVE  Key(t) \in Keys /\ id[t] \in Ids /\ pc[t] \in Stages /\ reg[t] \in Nat /\ call[t] \in Nat
BY DEF CountingType, Key, Keys

\* A step of task t, as another task sees it: counters change only at the
\* key of t, while t works on it.
LEMMA OtherTasks ==
  ASSUME CountingInv, NEW t \in Tasks, NEW u \in Tasks, u # t,
         sample' = sample, pc'[u] = pc[u], id'[u] = id[u], reg'[u] = reg[u],
         call'[u] = call[u], u \in cut => u \in cut', raced \subseteq raced',
         added' \in [MapNames -> [Keys -> Nat]],
         \A m \in MapNames : DOMAIN tab[m] \subseteq DOMAIN tab'[m],
         \A m \in MapNames : \A k \in Keys :
           \/ added'[m][k] = added[m][k] /\ (k \in DOMAIN tab'[m] => k \in DOMAIN tab[m])
           \/ Work(t, m) /\ k = Key(t) /\ added'[m][k] >= added[m][k],
         u \in gone' => \/ u \in gone
                        \/ \E m \in MapNames : Hold(u, m) /\ Key(u) = Key(t) /\ Work(t, m),
         \A i \in Ids : <<i, u>> \in DOMAIN start' =>
           <<i, u>> \in DOMAIN start /\ start'[<<i, u>>] = start[<<i, u>>]
  PROVE  RefInv(u)' /\ GoneInv(u)' /\ CallInv(u)'
<1>0. PICK k : k = Key(u)  OBVIOUS
<1>1. k \in Keys /\ id[u] \in Ids /\ reg[u] \in Nat  BY <1>0, KeyFacts DEF CountingInv
<1>2. Key(u)' = k /\ StartKey(u)' = StartKey(u)  BY <1>0 DEF Key, StartKey
<1>3. \A m \in MapNames : (Hold(u, m)' <=> Hold(u, m)) /\ (Work(u, m)' <=> Work(u, m))
  BY DEF Hold, Work
<1>4. RefInv(u) /\ GoneInv(u) /\ CallInv(u)  BY DEF CountingInv
<1>5. ASSUME NEW m \in MapNames
      PROVE  /\ Hold(u, m) => k \in DOMAIN tab'[m]
             /\ pc[u] = <<m, "insert">> /\ k \in DOMAIN tab'[m] => <<m, k>> \in raced'
             /\ pc[u] = <<m, "store">> =>
                  /\ reg[u] <= added'[m][k]
                  /\ <<m, k>> \notin raced' => reg[u] = added'[m][k]
  <2>0. added[m][k] \in Nat /\ added'[m][k] \in Nat  BY <1>1 DEF CountingInv, CountingType
  <2>1. /\ Hold(u, m) => k \in DOMAIN tab[m]
        /\ pc[u] = <<m, "insert">> /\ k \in DOMAIN tab[m] => <<m, k>> \in raced
        /\ pc[u] = <<m, "store">> =>
             /\ reg[u] <= added[m][k]
             /\ <<m, k>> \notin raced => reg[u] = added[m][k]
    BY <1>0, <1>4 DEF RefInv
  <2>2. CASE added'[m][k] = added[m][k] /\ (k \in DOMAIN tab'[m] => k \in DOMAIN tab[m])
    BY <2>1, <2>2
  <2>3. CASE Work(t, m) /\ k = Key(t) /\ added'[m][k] >= added[m][k]
    <3>1. Work(u, m) => <<m, k>> \in raced  BY <1>0, <2>3 DEF CountingInv, PairInv
    <3>2. reg[u] <= added[m][k] => reg[u] <= added'[m][k]  BY <1>1, <2>0, <2>3
    <3>q. QED  BY <2>1, <3>1, <3>2 DEF Work, Hold
  <2>q. QED  BY <1>1, <2>2, <2>3
<1>6. RefInv(u)'  BY <1>2, <1>3, <1>5 DEF RefInv
<1>7. GoneInv(u)'
  <2> SUFFICES ASSUME u \in gone'  PROVE \E m \in MapNames : Hold(u, m)' /\ <<m, k>> \in raced'
    BY <1>2 DEF GoneInv
  <2>1. CASE u \in gone  BY <1>0, <1>3, <1>4, <2>1 DEF GoneInv
  <2>2. ASSUME NEW m \in MapNames, Hold(u, m), Key(u) = Key(t), Work(t, m)
        PROVE  \E n \in MapNames : Hold(u, n)' /\ <<n, k>> \in raced'
    <3>1. <<m, k>> \in raced  BY <1>0, <2>2 DEF CountingInv, PairInv, Work
    <3>q. QED  BY <1>3, <2>2, <3>1
  <2>q. QED  BY <2>1, <2>2
<1>8. CallInv(u)'
  <2>1. Calling(u)' <=> Calling(u)  BY DEF Calling, InCall
  <2>2. "counts" \in MapNames  BY DEF MapNames
  <2>3. StartKey(u) \in DOMAIN start' => /\ StartKey(u) \in DOMAIN start
                                         /\ start'[StartKey(u)] = start[StartKey(u)]
    BY <1>1 DEF StartKey
  <2>q. QED  BY <1>2, <1>4, <2>1, <2>2, <2>3 DEF CallInv
<1>q. QED  BY <1>6, <1>7, <1>8

\* No new race without a record of it.
LEMMA PairStep ==
  ASSUME CountingInv, NEW t \in Tasks, sample' = sample, raced \subseteq raced',
         \A u \in Tasks : u # t => pc'[u] = pc[u] /\ id'[u] = id[u],
         \A m \in MapNames : Work(t, m)' =>
           \/ Work(t, m) /\ id'[t] = id[t]
           \/ \A u \in Tasks : u # t /\ Work(u, m) /\ Key(u) = Key(t)' => <<m, Key(t)'>> \in raced'
  PROVE  PairInv'
<1>1. \A u \in Tasks : u # t => Key(u)' = Key(u)  BY DEF Key
<1>2. \A u \in Tasks : \A m \in MapNames : u # t => (Work(u, m)' <=> Work(u, m))
  BY DEF Work, Hold
<1>3. ASSUME NEW a \in Tasks, NEW b \in Tasks, NEW m \in MapNames, a # b,
             Work(a, m)', Work(b, m)', Key(a)' = Key(b)'
      PROVE  <<m, Key(a)'>> \in raced'
  <2>1. CASE a # t /\ b # t
    <3>1. Key(a)' = Key(a) /\ Key(b)' = Key(b) /\ Work(a, m) /\ Work(b, m)
      BY <1>1, <1>2, <1>3, <2>1
    <3>q. QED  BY <1>3, <3>1 DEF CountingInv, PairInv
  <2>2. ASSUME NEW u \in Tasks, u # t, Work(u, m)', Work(t, m)', Key(u)' = Key(t)'
        PROVE  <<m, Key(t)'>> \in raced'
    <3>1. Key(u) = Key(t)' /\ Work(u, m)  BY <1>1, <1>2, <2>2
    <3>2. CASE Work(t, m) /\ id'[t] = id[t]
      <4>1. Key(t)' = Key(t)  BY <3>2 DEF Key
      <4>q. QED  BY <2>2, <3>1, <3>2, <4>1 DEF CountingInv, PairInv
    <3>q. QED  BY <2>2, <3>1, <3>2
  <2>3. CASE a = t  BY <1>3, <2>2, <2>3
  <2>4. CASE b = t  BY <1>3, <2>2, <2>4
  <2>q. QED  BY <2>1, <2>3, <2>4
<1>q. QED  BY <1>3 DEF PairInv

Idle(p) == p[2] \notin {"load", "store", "insert"}

LEMMA IdleFacts ==
  ASSUME NEW t \in Tasks, Idle(pc[t])
  PROVE  \A m \in MapNames : ~Work(t, m) /\ ~Hold(t, m)
BY DEF Idle, Work, Hold

\* Task t goes on to p, where it does not work on a counter, and leaves the
\* maps alone.
LEMMA QuietStep ==
  ASSUME CountingInv, NEW t \in Tasks, NEW p \in Stages, Idle(p),
         pc' = [pc EXCEPT ![t] = p],
         UNCHANGED <<sample, tab, start, added, raced>>,
         id' \in [Tasks -> Ids], reg' \in [Tasks -> Nat], call' \in [Tasks -> Nat],
         clock' \in Nat, cut' \subseteq Tasks, gone' \subseteq gone, t \notin gone',
         \A u \in Tasks : u # t => /\ id'[u] = id[u] /\ reg'[u] = reg[u] /\ call'[u] = call[u]
                                   /\ u \in cut => u \in cut',
         CallInv(t)'
  PROVE  CountingInv'
<1>0. /\ sample' = sample /\ tab' = tab /\ start' = start /\ added' = added /\ raced' = raced
  OBVIOUS
<1>1. CountingType  BY DEF CountingInv
<1>2. /\ pc' \in [Tasks -> Stages] /\ pc'[t] = p /\ \A u \in Tasks : u # t => pc'[u] = pc[u]
  BY <1>1 DEF CountingType
<1>3. CountingType'
  BY <1>0, <1>1, <1>2
  DEF CountingType, Tables, Keys, Stages, MapNames, InUser, InCall, Programs
<1>4. CounterInv' /\ StartInv'  BY <1>0 DEF CountingInv, CounterInv, StartInv, Keys, MapNames
<1>5. ASSUME NEW m \in MapNames  PROVE ~Work(t, m)' /\ ~Hold(t, m)'
  BY <1>2 DEF Idle, Work, Hold
<1>6. PairInv'  BY <1>0, <1>2, <1>5, PairStep
<1>7. RefInv(t)' /\ GoneInv(t)'  BY <1>5 DEF RefInv, GoneInv, Work, Hold
<1>8. ASSUME NEW u \in Tasks, u # t  PROVE RefInv(u)' /\ GoneInv(u)' /\ CallInv(u)'
  <2>1. added' \in [MapNames -> [Keys -> Nat]]  BY <1>0, <1>1 DEF CountingType
  <2>2. \A m \in MapNames : \A k \in Keys :
          added'[m][k] = added[m][k] /\ (k \in DOMAIN tab'[m] => k \in DOMAIN tab[m])
    BY <1>0
  <2>3. \A m \in MapNames : DOMAIN tab[m] \subseteq DOMAIN tab'[m]  BY <1>0
  <2>4. u \in gone' => u \in gone  OBVIOUS
  <2>5. \A i \in Ids : <<i, u>> \in DOMAIN start' =>
          <<i, u>> \in DOMAIN start /\ start'[<<i, u>>] = start[<<i, u>>]
    BY <1>0
  <2>6. /\ pc'[u] = pc[u] /\ id'[u] = id[u] /\ reg'[u] = reg[u] /\ call'[u] = call[u]
        /\ u \in cut => u \in cut'
    BY <1>2, <1>8
  <2>q. QED  BY <1>0, <1>8, <2>1, <2>2, <2>3, <2>4, <2>5, <2>6, OtherTasks
<1>9. \A u \in Tasks : (RefInv(u) /\ GoneInv(u) /\ CallInv(u))'
  <2> SUFFICES ASSUME NEW u \in Tasks  PROVE RefInv(u)' /\ GoneInv(u)' /\ CallInv(u)'  OBVIOUS
  <2>1. CASE u = t  BY <1>7, <2>1
  <2>q. QED  BY <1>8, <2>1
<1>q. QED  BY <1>3, <1>4, <1>6, <1>9 DEF CountingInv

LEMMA StageFacts ==
  /\ \A p \in {InUser, InCall, <<"start", "update">>, <<"start", "lookup">>,
               <<"start", "delete">>, <<"measured", "-">>} : p \in Stages /\ Idle(p)
  /\ \A m \in MapNames : <<m, "lookup">> \in Stages /\ Idle(<<m, "lookup">>)
  /\ \A m \in MapNames : \A s \in {"load", "store", "insert"} : <<m, s>> \in Stages
<1>1. \A p \in {InUser, InCall, <<"start", "update">>, <<"start", "lookup">>,
                <<"start", "delete">>, <<"measured", "-">>} : p \in Stages
  BY DEF Stages
<1>2. Idle(InUser) /\ Idle(InCall) /\ Idle(<<"start", "update">>) /\ Idle(<<"start", "lookup">>)
  BY DEF Idle, InUser, InCall
<1>3. Idle(<<"start", "delete">>) /\ Idle(<<"measured", "-">>)  BY DEF Idle
<1>4. \A m \in MapNames : \A s \in {"lookup", "load", "store", "insert"} : <<m, s>> \in Stages
  BY DEF Stages
<1>5. \A m \in MapNames : Idle(<<m, "lookup">>)  BY DEF Idle
<1>q. QED  BY <1>1, <1>2, <1>3, <1>4, <1>5

\* Stages of which CallInv says nothing.
Free(p) == /\ p \notin {<<"start", "update">>, <<"measured", "-">>, InCall, <<"start", "lookup">>}
           /\ p[1] # "errors"

LEMMA FreeFacts ==
  /\ Free(InUser) /\ Free(<<"start", "delete">>)
  /\ \A m \in MapNames : \A s : m # "errors" => Free(<<m, s>>)
<1>1. Free(InUser) /\ Free(<<"start", "delete">>)  BY DEF Free, InUser, InCall
<1>2. \A m \in MapNames : \A s : m # "errors" => Free(<<m, s>>)  BY DEF Free, InCall, MapNames
<1>q. QED  BY <1>1, <1>2

LEMMA FreeCall ==
  ASSUME NEW t \in Tasks, Free(pc'[t])
  PROVE  CallInv(t)'
BY DEF Free, CallInv, Calling, InCall

LEMMA NotGone ==
  ASSUME CountingInv, NEW t \in Tasks, \A m \in MapNames : ~Hold(t, m)
  PROVE  t \notin gone
BY DEF CountingInv, GoneInv

LEMMA NotHolding ==
  ASSUME NEW t \in Tasks, pc[t][2] \notin {"load", "store"}
  PROVE  \A m \in MapNames : ~Hold(t, m)
BY DEF Hold

\* The maps' updates: what they return and when they fail.
LEMMA UpdateFacts ==
  \A m, k, v, flags, max :
    LET u == bpf_map_update_elem(m, k, v, flags, max) IN
      /\ u.ret = "Ok" => u.map = Put(m, k, v)
      /\ u.ret # "Ok" => u.map = m
      /\ flags = "BPF_ANY" /\ k \in DOMAIN m => u.ret = "Ok"
      /\ flags = "BPF_NOEXIST" /\ u.ret = "Ok" => k \notin DOMAIN m
<1> TAKE m, k, v, flags, max
<1>1. CASE flags = "BPF_NOEXIST" /\ k \in DOMAIN m
  <2>1. bpf_map_update_elem(m, k, v, flags, max) = Err(m, "EEXIST")
    BY <1>1 DEF bpf_map_update_elem
  <2>q. QED  BY <1>1, <2>1 DEF Err
<1>2. CASE k \notin DOMAIN m /\ Cardinality(DOMAIN m) >= max
  <2>1. bpf_map_update_elem(m, k, v, flags, max) = Err(m, "E2BIG")
    BY <1>2 DEF bpf_map_update_elem
  <2>q. QED  BY <1>2, <2>1 DEF Err
<1>3. CASE ~(flags = "BPF_NOEXIST" /\ k \in DOMAIN m) /\ ~(k \notin DOMAIN m /\ Cardinality(DOMAIN m) >= max)
  <2>1. bpf_map_update_elem(m, k, v, flags, max) = Ok(Put(m, k, v))
    BY <1>3 DEF bpf_map_update_elem
  <2>q. QED  BY <1>3, <2>1 DEF Ok
<1>q. QED  BY <1>1, <1>2, <1>3

(***************************************************************************)
(* Steps of the counting samples.                                          *)
(***************************************************************************)
LEMMA EnterStep ==
  ASSUME CountingInv, NEW t \in Tasks, NEW i \in Ids, sys_enter(t, i)
  PROVE  CountingInv'
<1>0. CountingType  BY DEF CountingInv
<1>1. PICK p : p = <<"counts", "lookup">>  OBVIOUS
<1>2. p \in Stages /\ Idle(p) /\ Free(p)  BY <1>1, StageFacts, FreeFacts DEF MapNames
<1>3. /\ pc[t] = InUser /\ clock' = clock + 1 /\ call' = [call EXCEPT ![t] = clock + 1]
      /\ id' = [id EXCEPT ![t] = i] /\ pc' = [pc EXCEPT ![t] = p] /\ cut' = cut \ {t}
      /\ UNCHANGED <<sample, tab, start, reg, gone, added, raced>>
  BY <1>1 DEF sys_enter, Goto
<1>4. clock' \in Nat /\ call' \in [Tasks -> Nat] /\ id' \in [Tasks -> Ids] /\ reg' \in [Tasks -> Nat]
  BY <1>0, <1>3 DEF CountingType
<1>5. cut' \subseteq Tasks  BY <1>0, <1>3 DEF CountingType
<1>6. \A u \in Tasks : u # t => /\ id'[u] = id[u] /\ reg'[u] = reg[u] /\ call'[u] = call[u]
                                /\ u \in cut => u \in cut'
  BY <1>0, <1>3 DEF CountingType
<1>7. t \notin gone' /\ gone' \subseteq gone
  <2>1. pc[t][2] \notin {"load", "store"}  BY <1>3 DEF InUser
  <2>q. QED  BY <1>3, <2>1, NotHolding, NotGone
<1>8. CallInv(t)'
  <2>1. pc'[t] = p  BY <1>0, <1>3 DEF CountingType
  <2>q. QED  BY <1>2, <2>1, FreeCall
<1>q. QED  BY <1>2, <1>3, <1>4, <1>5, <1>6, <1>7, <1>8, QuietStep

\* A step that changes pc[t] only.
LEMMA MoveStep ==
  ASSUME CountingInv, NEW t \in Tasks, NEW p \in Stages, Idle(p), Goto(t, p),
         pc[t][2] \notin {"load", "store"}, Free(p) \/ CallInv(t)',
         UNCHANGED <<sample, tab, start, id, clock, call, reg, gone, cut, added, raced>>
  PROVE  CountingInv'
<1>0. CountingType  BY DEF CountingInv
<1>1. pc' = [pc EXCEPT ![t] = p] /\ pc'[t] = p  BY <1>0 DEF Goto, CountingType
<1>2. clock' \in Nat /\ call' \in [Tasks -> Nat] /\ id' \in [Tasks -> Ids] /\ reg' \in [Tasks -> Nat]
  BY <1>0 DEF CountingType
<1>3. cut' \subseteq Tasks /\ gone' \subseteq gone  BY <1>0 DEF CountingType
<1>4. \A u \in Tasks : u # t => /\ id'[u] = id[u] /\ reg'[u] = reg[u] /\ call'[u] = call[u]
                                /\ u \in cut => u \in cut'
  OBVIOUS
<1>5. t \notin gone'  BY NotHolding, NotGone
<1>6. CallInv(t)'  BY <1>1, FreeCall
<1>q. QED  BY <1>1, <1>2, <1>3, <1>4, <1>5, <1>6, QuietStep

LEMMA ExitStep ==
  ASSUME CountingInv, NEW t \in Tasks, NEW negative \in BOOLEAN, sys_exit(t, negative)
  PROVE  CountingInv'
<1>0. CountingType  BY DEF CountingInv
<1>1. /\ pc[t] = InCall
      /\ UNCHANGED <<sample, tab, start, id, clock, call, reg, gone, cut, added, raced>>
  BY DEF sys_exit
<1>2. pc[t][2] \notin {"load", "store"} /\ Calling(t)  BY <1>1 DEF InCall, Calling
<1>3. ASSUME NEW p, p = <<"errors", "lookup">> \/ p = <<"start", "lookup">>, Goto(t, p)
      PROVE  CountingInv'
  <2>1. p \in Stages /\ Idle(p)  BY <1>3, StageFacts DEF MapNames
  <2>2. pc'[t] = p  BY <1>0, <1>3 DEF Goto, CountingType
  <2>3. CallInv(t)'
    <3>1. pc'[t] # <<"start", "update">> /\ pc'[t] # <<"measured", "-">>  BY <1>3, <2>2
    <3>2. StartKey(t)' = StartKey(t) /\ start' = start /\ call' = call /\ cut' = cut
      BY <1>1 DEF StartKey
    <3>3. StartKey(t) \in DOMAIN start => start[StartKey(t)] = call[t] \/ t \in cut
      BY <1>2 DEF CountingInv, CallInv
    <3>q. QED  BY <3>1, <3>2, <3>3 DEF CallInv
  <2>q. QED  BY <1>1, <1>2, <1>3, <2>1, <2>3, MoveStep
<1>4. CASE Goto(t, <<"exits", "lookup">>)
  <2>1. <<"exits", "lookup">> \in Stages /\ Idle(<<"exits", "lookup">>) /\ Free(<<"exits", "lookup">>)
    BY StageFacts, FreeFacts DEF MapNames
  <2>q. QED  BY <1>1, <1>2, <1>4, <2>1, MoveStep
<1>5. \/ Goto(t, <<"exits", "lookup">>) \/ Goto(t, <<"errors", "lookup">>)
      \/ Goto(t, <<"start", "lookup">>)
  BY DEF sys_exit
<1>q. QED  BY <1>3, <1>4, <1>5

LEMMA DieStep ==
  ASSUME CountingInv, NEW t \in Tasks, die(t)
  PROVE  CountingInv'
<1>1. pc[t][2] \notin {"load", "store"}  BY DEF die, InCall
<1>2. InUser \in Stages /\ Idle(InUser) /\ Free(InUser)  BY StageFacts, FreeFacts
<1>q. QED  BY <1>1, <1>2, MoveStep DEF die

LEMMA InsertErrStep ==
  ASSUME CountingInv, NEW t \in Tasks, NEW m \in MapNames, insert_err(t, m)
  PROVE  CountingInv'
<1>0. CountingType  BY DEF CountingInv
<1>1. /\ pc[t] = <<m, "insert">> /\ Goto(t, AfterErr(m))
      /\ bpf_map_update_elem(tab[m], Key(t), 1, Flags, Size(m)).ret # "Ok"
      /\ UNCHANGED <<sample, tab, start, id, clock, call, reg, gone, cut, added, raced>>
  BY DEF insert_err
<1>2. pc[t][2] \notin {"load", "store"}  BY <1>1
<1>3. CASE AfterErr(m) = InUser
  <2>1. InUser \in Stages /\ Idle(InUser) /\ Free(InUser)  BY StageFacts, FreeFacts
  <2>q. QED  BY <1>1, <1>2, <1>3, <2>1, MoveStep
<1>4. CASE AfterErr(m) # InUser
  <2>1. AfterErr(m) = InCall /\ m = "counts"  BY <1>4 DEF AfterErr
  <2>2. InCall \in Stages /\ Idle(InCall)  BY StageFacts
  <2>3. StartKey(t) \notin DOMAIN start
    <3> SUFFICES ASSUME StartKey(t) \in DOMAIN start  PROVE FALSE  OBVIOUS
    <3>1. sample = "syscount" /\ id[t] \in DOMAIN tab["counts"]
      BY <1>0, KeyFacts DEF CountingInv, StartInv, StartKey
    <3>2. Flags = "BPF_ANY" /\ Key(t) \in DOMAIN tab[m]  BY <2>1, <3>1 DEF Flags, Key
    <3>3. bpf_map_update_elem(tab[m], Key(t), 1, Flags, Size(m)).ret = "Ok"
      BY <3>2, UpdateFacts
    <3>q. QED  BY <1>1, <3>3
  <2>4. pc'[t] = InCall  BY <1>0, <1>1, <2>1 DEF Goto, CountingType
  <2>5. StartKey(t)' = StartKey(t) /\ start' = start  BY <1>1 DEF StartKey
  <2>6. CallInv(t)'
    <3>1. pc'[t] # <<"start", "update">> /\ pc'[t] # <<"measured", "-">>  BY <2>4 DEF InCall
    <3>q. QED  BY <2>3, <2>5, <3>1 DEF CallInv
  <2>q. QED  BY <1>1, <1>2, <2>1, <2>2, <2>6, MoveStep
<1>q. QED  BY <1>3, <1>4

LEMMA StartLookupStep ==
  ASSUME CountingInv, NEW t \in Tasks, start_lookup(t)
  PROVE  CountingInv'
<1>0. CountingType  BY DEF CountingInv
<1>1. pc[t] = <<"start", "lookup">> /\ pc[t][2] \notin {"load", "store"} /\ Calling(t)
  BY DEF start_lookup, Calling
<1>2. UNCHANGED <<sample, tab, start, id, clock, call, gone, cut, added, raced>>
  BY DEF start_lookup
<1>3. CASE StartKey(t) \notin DOMAIN start
  <2>1. Goto(t, InUser) /\ UNCHANGED reg  BY <1>3 DEF start_lookup
  <2>2. InUser \in Stages /\ Idle(InUser) /\ Free(InUser)  BY StageFacts, FreeFacts
  <2>q. QED  BY <1>1, <1>2, <2>1, <2>2, MoveStep
<1>4. CASE StartKey(t) \in DOMAIN start
  <2>1. PICK p, v : p = <<"measured", "-">> /\ v = start[StartKey(t)]  OBVIOUS
  <2>2. pc' = [pc EXCEPT ![t] = p] /\ reg' = [reg EXCEPT ![t] = v]
    BY <1>4, <2>1 DEF start_lookup, Goto
  <2>3. p \in Stages /\ Idle(p)  BY <2>1, StageFacts
  <2>4. v \in Nat  BY <1>0, <1>4, <2>1 DEF CountingType
  <2>5. v = call[t] \/ t \in cut  BY <1>1, <1>4, <2>1 DEF CountingInv, CallInv
  <2>6. pc'[t] = p /\ reg'[t] = v /\ reg' \in [Tasks -> Nat]  BY <1>0, <2>2, <2>4 DEF CountingType
  <2>7. CallInv(t)'
    <3>1. pc'[t] # <<"start", "update">> /\ ~(Calling(t)')  BY <2>1, <2>6 DEF Calling, InCall
    <3>q. QED  BY <1>2, <2>5, <2>6, <3>1 DEF CallInv
  <2>8. clock' \in Nat /\ call' \in [Tasks -> Nat] /\ id' \in [Tasks -> Ids]
    BY <1>0, <1>2 DEF CountingType
  <2>9. cut' \subseteq Tasks /\ gone' \subseteq gone /\ t \notin gone'
    BY <1>0, <1>1, <1>2, NotHolding, NotGone DEF CountingType
  <2>10. \A u \in Tasks : u # t => /\ id'[u] = id[u] /\ reg'[u] = reg[u] /\ call'[u] = call[u]
                                   /\ u \in cut => u \in cut'
    BY <1>0, <1>2, <2>2 DEF CountingType
  <2>q. QED  BY <1>2, <2>2, <2>3, <2>6, <2>7, <2>8, <2>9, <2>10, QuietStep
<1>q. QED  BY <1>3, <1>4

\* measure and terminate: the register is cleared.
LEMMA ClearStep ==
  ASSUME CountingInv, NEW t \in Tasks, NEW p \in Stages, Idle(p), Goto(t, p),
         Free(p) \/ (p = InCall /\ t \in cut'), cut \subseteq cut', cut' \subseteq Tasks,
         reg' = [reg EXCEPT ![t] = 0], gone' \subseteq gone, t \notin gone',
         UNCHANGED <<sample, tab, start, id, clock, call, added, raced>>
  PROVE  CountingInv'
<1>0. CountingType  BY DEF CountingInv
<1>1. pc' = [pc EXCEPT ![t] = p] /\ pc'[t] = p  BY <1>0 DEF Goto, CountingType
<1>2. clock' \in Nat /\ call' \in [Tasks -> Nat] /\ id' \in [Tasks -> Ids] /\ reg' \in [Tasks -> Nat]
  BY <1>0 DEF CountingType
<1>3. \A u \in Tasks : u # t => /\ id'[u] = id[u] /\ reg'[u] = reg[u] /\ call'[u] = call[u]
                                /\ u \in cut => u \in cut'
  BY <1>0 DEF CountingType
<1>4. CallInv(t)'
  <2>1. CASE Free(p)  BY <1>1, <2>1, FreeCall
  <2>2. CASE p = InCall /\ t \in cut'
    <3>1. pc'[t] # <<"start", "update">> /\ pc'[t] # <<"measured", "-">>  BY <1>1, <2>2 DEF InCall
    <3>q. QED  BY <2>2, <3>1 DEF CallInv
  <2>q. QED  BY <2>1, <2>2
<1>q. QED  BY <1>1, <1>2, <1>3, <1>4, QuietStep

LEMMA MeasureStep ==
  ASSUME CountingInv, NEW t \in Tasks, measure(t)
  PROVE  CountingInv'
<1>1. PICK p : p = <<"latency", "lookup">>  OBVIOUS
<1>2. p \in Stages /\ Idle(p) /\ Free(p)  BY <1>1, StageFacts, FreeFacts DEF MapNames
<1>3. pc[t][2] \notin {"load", "store"}  BY DEF measure
<1>4. /\ Goto(t, p) /\ reg' = [reg EXCEPT ![t] = 0] /\ gone' = gone /\ cut' = cut
      /\ UNCHANGED <<sample, tab, start, id, clock, call, added, raced>>
  BY <1>1 DEF measure
<1>5. t \notin gone' /\ cut' \subseteq Tasks
  BY <1>3, <1>4, NotHolding, NotGone DEF CountingInv, CountingType
<1>q. QED  BY <1>2, <1>4, <1>5, ClearStep

LEMMA TerminateStep ==
  ASSUME CountingInv, NEW t \in Tasks, terminate(t)
  PROVE  CountingInv'
<1>1. PICK e \in BOOLEAN : e = (pc[t][1] = "counts" \/ pc[t] = <<"start", "update">>)  OBVIOUS
<1>2. PICK p : p = IF e /\ sample # "trace_event" THEN InCall ELSE InUser  OBVIOUS
<1>3. /\ cut' = (IF e THEN cut \cup {t} ELSE cut) /\ Goto(t, p)
      /\ reg' = [reg EXCEPT ![t] = 0] /\ gone' = gone \ {t}
      /\ UNCHANGED <<sample, tab, start, id, clock, call, added, raced>>
  BY <1>1, <1>2 DEF terminate
<1>4. p \in Stages /\ Idle(p)  BY <1>2, StageFacts
<1>5. Free(p) \/ (p = InCall /\ t \in cut')  BY <1>2, <1>3, FreeFacts
<1>6. cut \subseteq cut' /\ cut' \subseteq Tasks  BY <1>3 DEF CountingInv, CountingType
<1>7. gone' \subseteq gone /\ t \notin gone'  BY <1>3
<1>q. QED  BY <1>3, <1>4, <1>5, <1>6, <1>7, ClearStep

\* lookup and load: the maps stay, task t goes on with map m.
LEMMA ReadStep ==
  ASSUME CountingInv, NEW t \in Tasks, NEW m \in MapNames, NEW s \in {"load", "store", "insert"},
         pc[t][1] = m, pc' = [pc EXCEPT ![t] = <<m, s>>],
         UNCHANGED <<sample, tab, start, id, clock, call, gone, cut, added>>,
         raced \subseteq raced', reg' \in [Tasks -> Nat],
         \A u \in Tasks : u # t => reg'[u] = reg[u],
         RefInv(t)', GoneInv(t)', PairInv'
  PROVE  CountingInv'
<1>0. CountingType  BY DEF CountingInv
<1>1. /\ sample' = sample /\ tab' = tab /\ start' = start /\ added' = added /\ id' = id
      /\ clock' = clock /\ call' = call /\ gone' = gone /\ cut' = cut
  OBVIOUS
<1>2. <<m, s>> \in Stages  BY StageFacts
<1>3. /\ pc' \in [Tasks -> Stages] /\ pc'[t] = <<m, s>>
      /\ \A u \in Tasks : u # t => pc'[u] = pc[u]
  BY <1>0, <1>2 DEF CountingType
<1>4. CountingType'
  BY <1>0, <1>1, <1>3
  DEF CountingType, Tables, Keys, Stages, MapNames, InUser, InCall, Programs
<1>5. StartInv'  BY <1>1 DEF CountingInv, StartInv
<1>6. CounterInv'
  <2>1. \A x : x \notin raced' => x \notin raced  OBVIOUS
  <2>q. QED  BY <1>1, <2>1 DEF CountingInv, CounterInv, Keys, MapNames
<1>7. CallInv(t)'
  <2>1. pc'[t][1] = m  BY <1>3
  <2>2. CASE m = "errors"
    <3>1. Calling(t)  BY <2>2 DEF Calling
    <3>2. pc'[t] # <<"start", "update">> /\ pc'[t] # <<"measured", "-">>  BY <1>3, <2>2
    <3>3. StartKey(t)' = StartKey(t)  BY <1>1 DEF StartKey
    <3>q. QED  BY <1>1, <3>1, <3>2, <3>3 DEF CountingInv, CallInv
  <2>3. CASE m # "errors"  BY <1>3, <2>3, FreeFacts, FreeCall
  <2>q. QED  BY <2>2, <2>3
<1>8. ASSUME NEW u \in Tasks, u # t  PROVE RefInv(u)' /\ GoneInv(u)' /\ CallInv(u)'
  <2>1. added' \in [MapNames -> [Keys -> Nat]]  BY <1>0, <1>1 DEF CountingType
  <2>2. \A n \in MapNames : \A k \in Keys :
          added'[n][k] = added[n][k] /\ (k \in DOMAIN tab'[n] => k \in DOMAIN tab[n])
    BY <1>1
  <2>3. \A n \in MapNames : DOMAIN tab[n] \subseteq DOMAIN tab'[n]  BY <1>1
  <2>4. \A i \in Ids : <<i, u>> \in DOMAIN start' =>
          <<i, u>> \in DOMAIN start /\ start'[<<i, u>>] = start[<<i, u>>]
    BY <1>1
  <2>5. /\ pc'[u] = pc[u] /\ id'[u] = id[u] /\ reg'[u] = reg[u] /\ call'[u] = call[u]
        /\ u \in cut => u \in cut'
    BY <1>1, <1>3, <1>8
  <2>6. u \in gone' => u \in gone  BY <1>1
  <2>q. QED  BY <1>1, <1>8, <2>1, <2>2, <2>3, <2>4, <2>5, <2>6, OtherTasks
<1>9. \A u \in Tasks : (RefInv(u) /\ GoneInv(u) /\ CallInv(u))'
  <2> SUFFICES ASSUME NEW u \in Tasks  PROVE RefInv(u)' /\ GoneInv(u)' /\ CallInv(u)'  OBVIOUS
  <2>1. CASE u = t  BY <1>7, <2>1
  <2>q. QED  BY <1>8, <2>1
<1>q. QED  BY <1>4, <1>5, <1>6, <1>9 DEF CountingInv

LEMMA LookupStep ==
  ASSUME CountingInv, NEW t \in Tasks, NEW m \in MapNames, lookup(t, m)
  PROVE  CountingInv'
<1>0. CountingType  BY DEF CountingInv
<1>1. PICK k : k = Key(t)  OBVIOUS
<1>2. PICK s : s = IF k \in DOMAIN tab[m] THEN "load" ELSE "insert"  OBVIOUS
<1>3. /\ pc[t] = <<m, "lookup">> /\ pc' = [pc EXCEPT ![t] = <<m, s>>]
      /\ raced' = IF Working(m, k) = {} THEN raced ELSE raced \cup {<<m, k>>}
      /\ UNCHANGED <<sample, tab, start, id, clock, call, gone, cut, added>> /\ reg' = reg
  BY <1>1, <1>2 DEF lookup, Goto
<1>4. s \in {"load", "store", "insert"} /\ pc[t][1] = m /\ raced \subseteq raced'
  BY <1>2, <1>3
<1>5. /\ pc'[t] = <<m, s>> /\ \A u \in Tasks : u # t => pc'[u] = pc[u]
  BY <1>0, <1>3 DEF CountingType
<1>6. Key(t)' = k  BY <1>1, <1>3 DEF Key
<1>7. RefInv(t)'
  <2> SUFFICES ASSUME NEW n \in MapNames
               PROVE  /\ Hold(t, n)' => k \in DOMAIN tab'[n]
                      /\ pc'[t] = <<n, "insert">> => k \notin DOMAIN tab'[n]
                      /\ pc'[t] # <<n, "store">>
    BY <1>6 DEF RefInv
  <2>1. pc'[t] # <<n, "store">>  BY <1>2, <1>5
  <2>2. CASE n = m
    <3>1. (pc'[t] = <<n, "load">> <=> s = "load") /\ (pc'[t] = <<n, "insert">> <=> s = "insert")
      BY <1>5, <2>2
    <3>q. QED  BY <1>2, <1>3, <2>1, <2>2, <3>1 DEF Hold
  <2>3. CASE n # m
    <3>1. pc'[t] # <<n, "load">> /\ pc'[t] # <<n, "insert">>  BY <1>5, <2>3
    <3>q. QED  BY <2>1, <3>1 DEF Hold
  <2>q. QED  BY <2>2, <2>3
<1>8. GoneInv(t)'
  <2>1. pc[t][2] \notin {"load", "store"}  BY <1>3
  <2>q. QED  BY <1>3, <2>1, NotHolding, NotGone DEF GoneInv
<1>9. PairInv'
  <2>1. ASSUME NEW n \in MapNames, Work(t, n)', NEW u \in Tasks, u # t, Work(u, n), Key(u) = k
        PROVE  <<n, k>> \in raced'
    <3>1. n = m  BY <1>5, <2>1 DEF Work, Hold
    <3>2. u \in Working(m, k)  BY <2>1, <3>1 DEF Working, Holding, Work, Hold
    <3>q. QED  BY <1>3, <3>1, <3>2
  <2>2. \A n \in MapNames : Work(t, n)' =>
          \A u \in Tasks : u # t /\ Work(u, n) /\ Key(u) = Key(t)' => <<n, Key(t)'>> \in raced'
    BY <1>6, <2>1
  <2>3. \A u \in Tasks : u # t => pc'[u] = pc[u] /\ id'[u] = id[u]  BY <1>3, <1>5
  <2>q. QED  BY <1>3, <1>4, <2>2, <2>3, PairStep
<1>10. reg' \in [Tasks -> Nat] /\ \A u \in Tasks : u # t => reg'[u] = reg[u]
  BY <1>0, <1>3 DEF CountingType
<1>q. QED  BY <1>3, <1>4, <1>7, <1>8, <1>9, <1>10, ReadStep

LEMMA TableFacts ==
  ASSUME CountingType, NEW m \in MapNames
  PROVE  /\ tab[m] \in Tables /\ tab[m] \in [DOMAIN tab[m] -> Nat] /\ DOMAIN tab[m] \subseteq Keys
         /\ \A k \in DOMAIN tab[m] : tab[m][k] \in Nat
         /\ \A k \in Keys : added[m][k] \in Nat
<1>1. tab[m] \in Tables  BY DEF CountingType
<1>2. PICK D \in SUBSET Keys : tab[m] \in [D -> Nat]  BY <1>1 DEF Tables
<1>3. DOMAIN tab[m] = D  BY <1>2
<1>4. \A k \in Keys : added[m][k] \in Nat  BY DEF CountingType
<1>q. QED  BY <1>1, <1>2, <1>3, <1>4

LEMMA LoadStep ==
  ASSUME CountingInv, NEW t \in Tasks, NEW m \in MapNames, load(t, m)
  PROVE  CountingInv'
<1>0. CountingType  BY DEF CountingInv
<1>1. PICK k : k = Key(t)  OBVIOUS
<1>2. PICK v : v = tab[m][k]  OBVIOUS
<1>3. /\ pc[t] = <<m, "load">> /\ pc' = [pc EXCEPT ![t] = <<m, "store">>]
      /\ reg' = [reg EXCEPT ![t] = v]
      /\ UNCHANGED <<sample, tab, start, id, clock, call, gone, cut, added>> /\ raced' = raced
  BY <1>1, <1>2 DEF load, Goto
<1>4. k \in Keys /\ Hold(t, m) /\ k \in DOMAIN tab[m]
  <2>1. k \in Keys /\ Hold(t, m)  BY <1>0, <1>1, <1>3, KeyFacts DEF Hold
  <2>q. QED  BY <1>1, <2>1 DEF CountingInv, RefInv
<1>5. v \in Nat  BY <1>0, <1>2, <1>4, TableFacts
<1>6. v <= added[m][k] /\ (<<m, k>> \notin raced => v = added[m][k])
  BY <1>2, <1>4 DEF CountingInv, CounterInv
<1>7. /\ pc'[t] = <<m, "store">> /\ \A u \in Tasks : u # t => pc'[u] = pc[u]
  BY <1>0, <1>3 DEF CountingType
<1>8. /\ reg'[t] = v /\ reg' \in [Tasks -> Nat] /\ \A u \in Tasks : u # t => reg'[u] = reg[u]
  BY <1>0, <1>3, <1>5 DEF CountingType
<1>9. Key(t)' = k  BY <1>1, <1>3 DEF Key
<1>10. RefInv(t)'
  <2> SUFFICES ASSUME NEW n \in MapNames
               PROVE  /\ Hold(t, n)' => k \in DOMAIN tab'[n]
                      /\ pc'[t] # <<n, "insert">>
                      /\ pc'[t] = <<n, "store">> =>
                           /\ reg'[t] <= added'[n][k]
                           /\ <<n, k>> \notin raced' => reg'[t] = added'[n][k]
    BY <1>9 DEF RefInv
  <2>1. pc'[t] # <<n, "insert">>  BY <1>7
  <2>2. CASE n = m  BY <1>3, <1>4, <1>6, <1>8, <2>1, <2>2
  <2>3. CASE n # m
    <3>1. pc'[t] # <<n, "store">> /\ pc'[t] # <<n, "load">>  BY <1>7, <2>3
    <3>q. QED  BY <2>1, <3>1 DEF Hold
  <2>q. QED  BY <2>2, <2>3
<1>11. GoneInv(t)'
  <2> SUFFICES ASSUME t \in gone  PROVE Hold(t, m)' /\ <<m, k>> \in raced'
    BY <1>3, <1>9 DEF GoneInv
  <2>1. PICK n \in MapNames : Hold(t, n) /\ <<n, k>> \in raced
    BY <1>1 DEF CountingInv, GoneInv
  <2>2. n = m  BY <1>3, <2>1 DEF Hold
  <2>q. QED  BY <1>3, <1>7, <2>1, <2>2 DEF Hold
<1>12. PairInv'
  <2>1. ASSUME NEW n \in MapNames, Work(t, n)'  PROVE Work(t, n) /\ id'[t] = id[t]
    <3>1. n = m  BY <1>7, <2>1 DEF Work, Hold
    <3>q. QED  BY <1>3, <1>4, <3>1 DEF Work
  <2>2. \A u \in Tasks : u # t => pc'[u] = pc[u] /\ id'[u] = id[u]  BY <1>3, <1>7
  <2>q. QED  BY <1>3, <2>1, <2>2, PairStep
<1>13. pc[t][1] = m /\ "store" \in {"load", "store", "insert"}  BY <1>3
<1>q. QED  BY <1>3, <1>8, <1>10, <1>11, <1>12, <1>13, ReadStep

\* The enter program writes and the exit program deletes a start time.
LEMMA StartStep ==
  ASSUME CountingInv, NEW t \in Tasks, NEW p \in {InCall, InUser}, Goto(t, p),
         pc[t][2] \notin {"load", "store"},
         UNCHANGED <<sample, tab, id, clock, call, reg, gone, cut, added, raced>>,
         DOMAIN start' \subseteq Ids \X Tasks, start' \in [DOMAIN start' -> Nat],
         \A u \in Tasks : \A i \in Ids : u # t /\ <<i, u>> \in DOMAIN start' =>
           <<i, u>> \in DOMAIN start /\ start'[<<i, u>>] = start[<<i, u>>],
         StartInv', p = InCall => CallInv(t)'
  PROVE  CountingInv'
<1>0. CountingType  BY DEF CountingInv
<1>1. /\ sample' = sample /\ tab' = tab /\ added' = added /\ id' = id /\ reg' = reg
      /\ clock' = clock /\ call' = call /\ gone' = gone /\ cut' = cut /\ raced' = raced
  OBVIOUS
<1>2. p \in Stages /\ Idle(p)  BY StageFacts
<1>3. /\ pc' \in [Tasks -> Stages] /\ pc'[t] = p /\ \A u \in Tasks : u # t => pc'[u] = pc[u]
  BY <1>0, <1>2 DEF CountingType, Goto
<1>4. CountingType'
  BY <1>0, <1>1, <1>3
  DEF CountingType, Tables, Keys, Stages, MapNames, InUser, InCall, Programs
<1>5. CounterInv'  BY <1>1 DEF CountingInv, CounterInv, Keys, MapNames
<1>6. ASSUME NEW m \in MapNames  PROVE ~Work(t, m)' /\ ~Hold(t, m)'
  BY <1>2, <1>3 DEF Idle, Work, Hold
<1>7. PairInv'  BY <1>1, <1>3, <1>6, PairStep
<1>8. RefInv(t)' /\ GoneInv(t)'
  <2>1. t \notin gone'  BY <1>1, NotHolding, NotGone
  <2>q. QED  BY <1>6, <2>1 DEF RefInv, GoneInv, Work, Hold
<1>9. CallInv(t)'
  <2>1. CASE p = InUser  BY <1>3, <2>1, FreeFacts, FreeCall
  <2>q. QED  BY <2>1
<1>10. ASSUME NEW u \in Tasks, u # t  PROVE RefInv(u)' /\ GoneInv(u)' /\ CallInv(u)'
  <2>1. added' \in [MapNames -> [Keys -> Nat]]  BY <1>0, <1>1 DEF CountingType
  <2>2. \A n \in MapNames : \A k \in Keys :
          added'[n][k] = added[n][k] /\ (k \in DOMAIN tab'[n] => k \in DOMAIN tab[n])
    BY <1>1
  <2>3. \A n \in MapNames : DOMAIN tab[n] \subseteq DOMAIN tab'[n]  BY <1>1
  <2>4. \A i \in Ids : <<i, u>> \in DOMAIN start' =>
          <<i, u>> \in DOMAIN start /\ start'[<<i, u>>] = start[<<i, u>>]
    BY <1>10
  <2>5. /\ pc'[u] = pc[u] /\ id'[u] = id[u] /\ reg'[u] = reg[u] /\ call'[u] = call[u]
        /\ u \in cut => u \in cut'
    BY <1>1, <1>3, <1>10
  <2>6. u \in gone' => u \in gone  BY <1>1
  <2>q. QED  BY <1>1, <1>10, <2>1, <2>2, <2>3, <2>4, <2>5, <2>6, OtherTasks
<1>11. \A u \in Tasks : (RefInv(u) /\ GoneInv(u) /\ CallInv(u))'
  <2> SUFFICES ASSUME NEW u \in Tasks  PROVE RefInv(u)' /\ GoneInv(u)' /\ CallInv(u)'  OBVIOUS
  <2>1. CASE u = t  BY <1>8, <1>9, <2>1
  <2>q. QED  BY <1>10, <2>1
<1>q. QED  BY <1>4, <1>5, <1>7, <1>11 DEF CountingInv

LEMMA StartUpdateStep ==
  ASSUME CountingInv, NEW t \in Tasks, start_update(t)
  PROVE  CountingInv'
<1>0. CountingType  BY DEF CountingInv
<1>1. /\ pc[t] = <<"start", "update">> /\ Goto(t, InCall)
      /\ UNCHANGED <<sample, tab, id, clock, call, reg, gone, cut, added, raced>>
  BY DEF start_update
<1>2. PICK k, v : k = StartKey(t) /\ v = call[t]  OBVIOUS
<1>3. k \in Ids \X Tasks /\ k = <<id[t], t>> /\ v \in Nat /\ id[t] \in Ids
  BY <1>0, <1>2, KeyFacts DEF StartKey
<1>4. start' = Put(start, k, v) \/ (start' = start /\ k \notin DOMAIN start)
  <2>1. PICK u : u = bpf_map_update_elem(start, k, v, "BPF_ANY", StartSize)  OBVIOUS
  <2>2. start' = u.map  BY <1>2, <2>1 DEF start_update
  <2>3. /\ u.ret = "Ok" => u.map = Put(start, k, v)
        /\ u.ret # "Ok" => u.map = start
        /\ k \in DOMAIN start => u.ret = "Ok"
    BY <2>1, UpdateFacts
  <2>q. QED  BY <2>2, <2>3
<1>5. sample = "syscount" /\ id[t] \in DOMAIN tab["counts"]
  BY <1>1 DEF CountingInv, CallInv
<1>6. /\ DOMAIN start \subseteq Ids \X Tasks /\ start \in [DOMAIN start -> Nat]
  BY <1>0 DEF CountingType
<1>7. /\ DOMAIN start' \subseteq DOMAIN start \cup {k}
      /\ k \in DOMAIN start' => start'[k] = v
      /\ \A j \in DOMAIN start' : j # k => start'[j] = start[j]
      /\ start' = [j \in DOMAIN start' |-> start'[j]]
  <2>1. CASE start' = Put(start, k, v)  BY <2>1 DEF Put
  <2>2. CASE start' = start /\ k \notin DOMAIN start  BY <1>6, <2>2
  <2>q. QED  BY <1>4, <2>1, <2>2
<1>8. DOMAIN start' \subseteq Ids \X Tasks  BY <1>3, <1>6, <1>7
<1>9. start' \in [DOMAIN start' -> Nat]
  <2>1. \A j \in DOMAIN start' : start'[j] \in Nat  BY <1>3, <1>6, <1>7
  <2>q. QED  BY <1>7, <2>1
<1>10. \A u \in Tasks : \A i \in Ids : u # t /\ <<i, u>> \in DOMAIN start' =>
         <<i, u>> \in DOMAIN start /\ start'[<<i, u>>] = start[<<i, u>>]
  BY <1>3, <1>7
<1>11. StartInv'
  <2> SUFFICES ASSUME NEW i \in Ids, NEW u \in Tasks, <<i, u>> \in DOMAIN start'
               PROVE  sample = "syscount" /\ i \in DOMAIN tab["counts"]
    BY <1>1 DEF StartInv
  <2>1. CASE <<i, u>> = k  BY <1>3, <1>5, <2>1
  <2>2. CASE <<i, u>> # k  BY <1>7, <2>2 DEF CountingInv, StartInv
  <2>q. QED  BY <2>1, <2>2
<1>12. CallInv(t)'
  <2>1. pc'[t] = InCall  BY <1>0, <1>1 DEF Goto, CountingType
  <2>2. pc'[t] # <<"start", "update">> /\ pc'[t] # <<"measured", "-">>  BY <2>1 DEF InCall
  <2>3. StartKey(t)' = k /\ call'[t] = v  BY <1>1, <1>2 DEF StartKey
  <2>q. QED  BY <1>7, <2>2, <2>3 DEF CallInv
<1>13. pc[t][2] \notin {"load", "store"}  BY <1>1
<1>q. QED  BY <1>1, <1>8, <1>9, <1>10, <1>11, <1>12, <1>13, StartStep

LEMMA StartDeleteStep ==
  ASSUME CountingInv, NEW t \in Tasks, start_delete(t)
  PROVE  CountingInv'
<1>0. CountingType  BY DEF CountingInv
<1>1. /\ pc[t] = <<"start", "delete">> /\ Goto(t, InUser)
      /\ UNCHANGED <<sample, tab, id, clock, call, reg, gone, cut, added, raced>>
  BY DEF start_delete
<1>2. PICK k : k = StartKey(t)  OBVIOUS
<1>3. /\ DOMAIN start \subseteq Ids \X Tasks /\ start \in [DOMAIN start -> Nat]
  BY <1>0 DEF CountingType
<1>4. start' = bpf_map_delete_elem(start, k).map  BY <1>2 DEF start_delete
<1>5. /\ DOMAIN start' \subseteq DOMAIN start
      /\ \A j \in DOMAIN start' : start'[j] = start[j]
      /\ start' = [j \in DOMAIN start' |-> start'[j]]
  <2>1. CASE k \in DOMAIN start
    <3>1. start' = [j \in DOMAIN start \ {k} |-> start[j]]
      BY <1>4, <2>1 DEF bpf_map_delete_elem, Ok
    <3>q. QED  BY <3>1
  <2>2. CASE k \notin DOMAIN start
    <3>1. start' = start  BY <1>4, <2>2 DEF bpf_map_delete_elem, Err
    <3>q. QED  BY <1>3, <3>1
  <2>q. QED  BY <2>1, <2>2
<1>6. DOMAIN start' \subseteq Ids \X Tasks  BY <1>3, <1>5
<1>7. start' \in [DOMAIN start' -> Nat]
  <2>1. \A j \in DOMAIN start' : start'[j] \in Nat  BY <1>3, <1>5
  <2>q. QED  BY <1>5, <2>1
<1>8. \A u \in Tasks : \A i \in Ids : u # t /\ <<i, u>> \in DOMAIN start' =>
        <<i, u>> \in DOMAIN start /\ start'[<<i, u>>] = start[<<i, u>>]
  BY <1>5
<1>9. StartInv'  BY <1>1, <1>5 DEF CountingInv, StartInv
<1>10. pc[t][2] \notin {"load", "store"} /\ InUser # InCall  BY <1>1 DEF InUser, InCall
<1>q. QED  BY <1>1, <1>6, <1>7, <1>8, <1>9, <1>10, StartStep

LEMMA AfterAddFacts ==
  ASSUME NEW m \in MapNames
  PROVE  /\ AfterAdd(m) \in Stages /\ Idle(AfterAdd(m))
         /\ \/ Free(AfterAdd(m))
            \/ m = "counts" /\ sample = "syscount" /\ AfterAdd(m) = <<"start", "update">>
            \/ m = "counts" /\ sample # "syscount" /\ AfterAdd(m) = InCall
            \/ m = "errors" /\ AfterAdd(m) = <<"start", "lookup">>
<1>1. CASE m = "counts" /\ sample = "syscount"
  <2>1. AfterAdd(m) = <<"start", "update">>  BY <1>1 DEF AfterAdd
  <2>q. QED  BY <1>1, <2>1, StageFacts
<1>2. CASE m = "counts" /\ sample = "syscall_tp"
  <2>1. AfterAdd(m) = InCall  BY <1>2 DEF AfterAdd
  <2>q. QED  BY <1>2, <2>1, StageFacts
<1>3. CASE m = "errors"
  <2>1. AfterAdd(m) = <<"start", "lookup">>  BY <1>3 DEF AfterAdd
  <2>q. QED  BY <1>3, <2>1, StageFacts
<1>4. CASE m = "latency"
  <2>1. AfterAdd(m) = <<"start", "delete">>  BY <1>4 DEF AfterAdd
  <2>q. QED  BY <2>1, StageFacts, FreeFacts
<1>5. CASE /\ ~(m = "counts" /\ sample = "syscount") /\ ~(m = "counts" /\ sample = "syscall_tp")
           /\ m # "errors" /\ m # "latency"
  <2>1. AfterAdd(m) = InUser  BY <1>5 DEF AfterAdd
  <2>q. QED  BY <2>1, StageFacts, FreeFacts
<1>q. QED  BY <1>1, <1>2, <1>3, <1>4, <1>5

\* store and insert_one: an event is added to the counter of the task's key.
LEMMA CountStep ==
  ASSUME CountingInv, NEW t \in Tasks, NEW m \in MapNames, NEW k, k = Key(t),
         pc[t] = <<m, "store">> \/ pc[t] = <<m, "insert">>,
         Goto(t, AfterAdd(m)), Count(t, m),
         tab' \in [MapNames -> Tables], DOMAIN tab'[m] = DOMAIN tab[m] \cup {k},
         \A n \in MapNames : n # m => tab'[n] = tab[n],
         \A j \in DOMAIN tab[m] : j # k => tab'[m][j] = tab[m][j],
         tab'[m][k] <= added[m][k] + 1,
         <<m, k>> \notin raced => tab'[m][k] = added[m][k] + 1,
         reg' \in [Tasks -> Nat], \A u \in Tasks : u # t => reg'[u] = reg[u],
         gone' \subseteq gone \cup Holding(m, k), t \notin gone',
         UNCHANGED <<sample, start, id, clock, call, cut, raced>>
  PROVE  CountingInv'
<1>0. CountingType  BY DEF CountingInv
<1>1. /\ sample' = sample /\ start' = start /\ id' = id /\ clock' = clock /\ call' = call
      /\ cut' = cut /\ raced' = raced
  OBVIOUS
<1>2. PICK p : p = AfterAdd(m)  OBVIOUS
<1>3. p \in Stages /\ Idle(p)  BY <1>2, AfterAddFacts
<1>4. /\ pc' \in [Tasks -> Stages] /\ pc'[t] = p /\ \A u \in Tasks : u # t => pc'[u] = pc[u]
  BY <1>0, <1>2, <1>3 DEF CountingType, Goto
<1>5. k \in Keys /\ id[t] \in Ids /\ Work(t, m)  BY <1>0, KeyFacts DEF Work, Hold
<1>6. /\ added' \in [MapNames -> [Keys -> Nat]] /\ added'[m][k] = added[m][k] + 1
      /\ \A n \in MapNames : \A j \in Keys : n # m \/ j # k => added'[n][j] = added[n][j]
  <2>1. added' = [added EXCEPT ![m] = [added[m] EXCEPT ![k] = added[m][k] + 1]]
    BY DEF Count
  <2>2. added \in [MapNames -> [Keys -> Nat]]  BY <1>0 DEF CountingType
  <2>q. QED  BY <1>5, <2>1, <2>2
<1>7. gone' \subseteq Tasks  BY <1>0 DEF CountingType, Holding
<1>8. CountingType'
  BY <1>0, <1>1, <1>4, <1>6, <1>7
  DEF CountingType, Tables, Keys, Stages, MapNames, InUser, InCall, Programs
<1>9. CounterInv'
  <2> SUFFICES ASSUME NEW n \in MapNames, NEW j \in Keys
               PROVE  /\ j \notin DOMAIN tab'[n] => added'[n][j] = 0
                      /\ j \in DOMAIN tab'[n] =>
                           /\ tab'[n][j] <= added'[n][j]
                           /\ <<n, j>> \notin raced => tab'[n][j] = added'[n][j]
    BY <1>1 DEF CounterInv, Keys, MapNames
  <2>1. CASE n = m /\ j = k  BY <1>6, <2>1
  <2>2. CASE n # m \/ j # k
    <3>1. /\ added'[n][j] = added[n][j] /\ (j \in DOMAIN tab'[n] <=> j \in DOMAIN tab[n])
          /\ j \in DOMAIN tab[n] => tab'[n][j] = tab[n][j]
      BY <1>6, <2>2
    <3>q. QED  BY <3>1 DEF CountingInv, CounterInv
  <2>q. QED  BY <2>1, <2>2
<1>10. StartInv'
  <2>1. DOMAIN tab["counts"] \subseteq DOMAIN tab'["counts"]  BY DEF MapNames
  <2>q. QED  BY <1>1, <2>1 DEF CountingInv, StartInv
<1>11. ASSUME NEW n \in MapNames  PROVE ~Work(t, n)' /\ ~Hold(t, n)'
  BY <1>3, <1>4 DEF Idle, Work, Hold
<1>12. PairInv'  BY <1>1, <1>4, <1>11, PairStep
<1>13. RefInv(t)' /\ GoneInv(t)'  BY <1>11 DEF RefInv, GoneInv, Work, Hold
<1>14. CallInv(t)'
  <2>0. StartKey(t)' = StartKey(t)  BY <1>1 DEF StartKey
  <2>1. CASE Free(p)  BY <1>4, <2>1, FreeCall
  <2>2. CASE m = "counts" /\ sample = "syscount" /\ p = <<"start", "update">>
    <3>1. k = id[t] /\ id[t] \in DOMAIN tab'["counts"]  BY <2>2 DEF Key
    <3>2. ~(Calling(t)') /\ pc'[t] # <<"measured", "-">>  BY <1>4, <2>2 DEF Calling, InCall
    <3>q. QED  BY <1>1, <2>2, <3>1, <3>2 DEF CallInv
  <2>3. CASE m = "counts" /\ sample # "syscount" /\ p = InCall
    <3>1. StartKey(t) \notin DOMAIN start  BY <1>5, <2>3 DEF CountingInv, StartInv, StartKey
    <3>2. pc'[t] # <<"start", "update">> /\ pc'[t] # <<"measured", "-">>
      BY <1>4, <2>3 DEF InCall
    <3>q. QED  BY <1>1, <2>0, <3>1, <3>2 DEF CallInv
  <2>4. CASE m = "errors" /\ p = <<"start", "lookup">>
    <3>1. Calling(t)  BY <2>4 DEF Calling
    <3>2. pc'[t] # <<"start", "update">> /\ pc'[t] # <<"measured", "-">>  BY <1>4, <2>4
    <3>q. QED  BY <1>1, <2>0, <3>1, <3>2 DEF CountingInv, CallInv
  <2>q. QED  BY <1>2, <2>1, <2>2, <2>3, <2>4, AfterAddFacts
<1>15. ASSUME NEW u \in Tasks, u # t  PROVE RefInv(u)' /\ GoneInv(u)' /\ CallInv(u)'
  <2>1. ASSUME NEW n \in MapNames, NEW j \in Keys
        PROVE  \/ added'[n][j] = added[n][j] /\ (j \in DOMAIN tab'[n] => j \in DOMAIN tab[n])
               \/ Work(t, n) /\ j = Key(t) /\ added'[n][j] >= added[n][j]
    <3>1. CASE n = m /\ j = k
      <4>1. added[m][k] \in Nat  BY <1>0, <1>5, TableFacts
      <4>2. added'[n][j] >= added[n][j]  BY <1>6, <3>1, <4>1
      <4>q. QED  BY <1>5, <3>1, <4>2
    <3>2. CASE n # m \/ j # k  BY <1>6, <3>2
    <3>q. QED  BY <3>1, <3>2
  <2>2. \A n \in MapNames : DOMAIN tab[n] \subseteq DOMAIN tab'[n]  OBVIOUS
  <2>3. \A i \in Ids : <<i, u>> \in DOMAIN start' =>
          <<i, u>> \in DOMAIN start /\ start'[<<i, u>>] = start[<<i, u>>]
    BY <1>1
  <2>4. /\ pc'[u] = pc[u] /\ id'[u] = id[u] /\ reg'[u] = reg[u] /\ call'[u] = call[u]
        /\ u \in cut => u \in cut'
    BY <1>1, <1>4, <1>15
  <2>5. u \in gone' => \/ u \in gone
                       \/ \E n \in MapNames : Hold(u, n) /\ Key(u) = Key(t) /\ Work(t, n)
    <3>1. u \in Holding(m, k) => Hold(u, m) /\ Key(u) = Key(t)  BY DEF Holding, Hold
    <3>q. QED  BY <1>5, <3>1
  <2>q. QED  BY <1>1, <1>6, <1>15, <2>1, <2>2, <2>3, <2>4, <2>5, OtherTasks
<1>16. \A u \in Tasks : (RefInv(u) /\ GoneInv(u) /\ CallInv(u))'
  <2> SUFFICES ASSUME NEW u \in Tasks  PROVE RefInv(u)' /\ GoneInv(u)' /\ CallInv(u)'  OBVIOUS
  <2>1. CASE u = t  BY <1>13, <1>14, <2>1
  <2>q. QED  BY <1>15, <2>1
<1>q. QED  BY <1>8, <1>9, <1>10, <1>12, <1>16 DEF CountingInv

LEMMA StoreStep ==
  ASSUME CountingInv, NEW t \in Tasks, NEW m \in MapNames, store(t, m)
  PROVE  CountingInv'
<1>0. CountingType  BY DEF CountingInv
<1>1. PICK k, v : k = Key(t) /\ v = reg[t]  OBVIOUS
<1>2. /\ pc[t] = <<m, "store">> /\ Count(t, m) /\ reg' = [reg EXCEPT ![t] = 0]
      /\ Goto(t, AfterAdd(m)) /\ gone' = gone \ {t}
      /\ UNCHANGED <<sample, start, id, clock, call, cut, raced>>
  BY DEF store
<1>3. k \in Keys /\ v \in Nat /\ added[m][k] \in Nat  BY <1>0, <1>1, KeyFacts, TableFacts
<1>4. Hold(t, m)  BY <1>2 DEF Hold
<1>5. /\ k \in DOMAIN tab[m] /\ v <= added[m][k] /\ (<<m, k>> \notin raced => v = added[m][k])
  BY <1>1, <1>2, <1>4 DEF CountingInv, RefInv
<1>6. /\ tab' \in [MapNames -> Tables] /\ DOMAIN tab'[m] = DOMAIN tab[m]
      /\ \A n \in MapNames : n # m => tab'[n] = tab[n]
      /\ \A j \in DOMAIN tab[m] : j # k => tab'[m][j] = tab[m][j]
      /\ tab'[m][k] <= added[m][k] + 1
      /\ <<m, k>> \notin raced => tab'[m][k] = added[m][k] + 1
  <2>1. CASE t \in gone
    <3>1. tab' = tab  BY <2>1 DEF store
    <3>2. <<m, k>> \in raced
      <4>1. PICK n \in MapNames : Hold(t, n) /\ <<n, k>> \in raced
        BY <1>1, <2>1 DEF CountingInv, GoneInv
      <4>2. n = m  BY <1>2, <4>1 DEF Hold
      <4>q. QED  BY <4>1, <4>2
    <3>3. tab[m][k] \in Nat /\ tab[m][k] <= added[m][k]
      BY <1>0, <1>3, <1>5, TableFacts DEF CountingInv, CounterInv
    <3>4. tab[m][k] <= added[m][k] + 1  BY <1>3, <3>3
    <3>q. QED  BY <1>0, <3>1, <3>2, <3>4 DEF CountingType
  <2>2. CASE t \notin gone
    <3>1. PICK f : f = [tab[m] EXCEPT ![k] = v + 1]  OBVIOUS
    <3>2. tab' = [tab EXCEPT ![m] = f]  BY <1>1, <2>2, <3>1 DEF store
    <3>3. f \in [DOMAIN tab[m] -> Nat] /\ f[k] = v + 1 /\ DOMAIN f = DOMAIN tab[m]
          /\ \A j \in DOMAIN tab[m] : j # k => f[j] = tab[m][j]
      BY <1>0, <1>3, <1>5, <3>1, TableFacts
    <3>4. f \in Tables  BY <1>0, <3>3, TableFacts DEF Tables
    <3>5. tab' \in [MapNames -> Tables] /\ tab'[m] = f /\ \A n \in MapNames : n # m => tab'[n] = tab[n]
      BY <1>0, <3>2, <3>4 DEF CountingType
    <3>6. v + 1 <= added[m][k] + 1 /\ (<<m, k>> \notin raced => v + 1 = added[m][k] + 1)
      BY <1>3, <1>5
    <3>q. QED  BY <3>3, <3>5, <3>6
  <2>q. QED  BY <2>1, <2>2
<1>7. DOMAIN tab'[m] = DOMAIN tab[m] \cup {k}  BY <1>5, <1>6
<1>8. reg' \in [Tasks -> Nat] /\ \A u \in Tasks : u # t => reg'[u] = reg[u]
  BY <1>0, <1>2 DEF CountingType
<1>9. gone' \subseteq gone \cup Holding(m, k) /\ t \notin gone'  BY <1>2
<1>q. QED  BY <1>1, <1>2, <1>6, <1>7, <1>8, <1>9, CountStep

LEMMA InsertStep ==
  ASSUME CountingInv, NEW t \in Tasks, NEW m \in MapNames, insert_one(t, m)
  PROVE  CountingInv'
<1>0. CountingType  BY DEF CountingInv
<1>1. PICK k : k = Key(t)  OBVIOUS
<1>2. PICK r : r = bpf_map_update_elem(tab[m], k, 1, Flags, Size(m))  OBVIOUS
<1>3. /\ pc[t] = <<m, "insert">> /\ r.ret = "Ok" /\ tab' = [tab EXCEPT ![m] = r.map]
      /\ gone' = gone \cup Holding(m, k) /\ Count(t, m) /\ Goto(t, AfterAdd(m))
      /\ UNCHANGED <<sample, start, id, clock, call, cut, raced>> /\ reg' = reg
  BY <1>1, <1>2 DEF insert_one
<1>4. PICK f : f = Put(tab[m], k, 1)  OBVIOUS
<1>5. r.map = f  BY <1>2, <1>3, <1>4, UpdateFacts
<1>6. k \in Keys /\ added[m][k] \in Nat  BY <1>0, <1>1, KeyFacts, TableFacts
<1>7. /\ DOMAIN f = DOMAIN tab[m] \cup {k} /\ f[k] = 1
      /\ \A j \in DOMAIN tab[m] : j # k => f[j] = tab[m][j]
  BY <1>4 DEF Put
<1>8. f \in Tables
  <2>1. f = [j \in DOMAIN f |-> f[j]]  BY <1>4 DEF Put
  <2>2. \A j \in DOMAIN f : f[j] \in Nat
    <3>1. \A j \in DOMAIN tab[m] : tab[m][j] \in Nat  BY <1>0, TableFacts
    <3>q. QED  BY <1>7, <3>1
  <2>3. f \in [DOMAIN f -> Nat]  BY <2>1, <2>2
  <2>4. DOMAIN f \in SUBSET Keys  BY <1>0, <1>6, <1>7, TableFacts
  <2>q. QED  BY <2>3, <2>4 DEF Tables
<1>9. /\ tab' \in [MapNames -> Tables] /\ tab'[m] = f
      /\ \A n \in MapNames : n # m => tab'[n] = tab[n]
  BY <1>0, <1>3, <1>5, <1>8 DEF CountingType
<1>10. 1 <= added[m][k] + 1 /\ (<<m, k>> \notin raced => 1 = added[m][k] + 1)
  <2>1. <<m, k>> \notin raced => k \notin DOMAIN tab[m]
    BY <1>1, <1>3 DEF CountingInv, RefInv
  <2>2. k \notin DOMAIN tab[m] => added[m][k] = 0  BY <1>6 DEF CountingInv, CounterInv
  <2>q. QED  BY <1>6, <2>1, <2>2
<1>11. reg' \in [Tasks -> Nat] /\ \A u \in Tasks : u # t => reg'[u] = reg[u]
  BY <1>0, <1>3 DEF CountingType
<1>12. t \notin gone'
  <2>1. pc[t][2] \notin {"load", "store"}  BY <1>3
  <2>2. t \notin gone  BY <2>1, NotHolding, NotGone
  <2>3. t \notin Holding(m, k)  BY <2>1 DEF Holding
  <2>q. QED  BY <1>3, <2>2, <2>3
<1>q. QED  BY <1>1, <1>3, <1>7, <1>9, <1>10, <1>11, <1>12, CountStep

LEMMA CountingStep == CountingInv /\ CountingNext => CountingInv'
<1> SUFFICES ASSUME CountingInv, CountingNext PROVE CountingInv'  OBVIOUS
<1>1. PICK t \in Tasks :
        \/ \E i \in Ids : sys_enter(t, i)
        \/ \E negative \in BOOLEAN : sys_exit(t, negative)
        \/ \E m \in MapNames : \/ lookup(t, m) \/ load(t, m) \/ store(t, m)
                               \/ insert_one(t, m) \/ insert_err(t, m)
        \/ start_update(t) \/ start_lookup(t) \/ measure(t) \/ start_delete(t)
        \/ die(t) \/ terminate(t)
  BY DEF CountingNext
<1>2. ASSUME NEW i \in Ids, sys_enter(t, i)  PROVE CountingInv'  BY <1>2, EnterStep
<1>3. ASSUME NEW negative \in BOOLEAN, sys_exit(t, negative)  PROVE CountingInv'  BY <1>3, ExitStep
<1>4. ASSUME NEW m \in MapNames, lookup(t, m)  PROVE CountingInv'  BY <1>4, LookupStep
<1>5. ASSUME NEW m \in MapNames, load(t, m)  PROVE CountingInv'  BY <1>5, LoadStep
<1>6. ASSUME NEW m \in MapNames, store(t, m)  PROVE CountingInv'  BY <1>6, StoreStep
<1>7. ASSUME NEW m \in MapNames, insert_one(t, m)  PROVE CountingInv'  BY <1>7, InsertStep
<1>8. ASSUME NEW m \in MapNames, insert_err(t, m)  PROVE CountingInv'  BY <1>8, InsertErrStep
<1>9. CASE start_update(t)  BY <1>9, StartUpdateStep
<1>10. CASE start_lookup(t)  BY <1>10, StartLookupStep
<1>11. CASE measure(t)  BY <1>11, MeasureStep
<1>12. CASE start_delete(t)  BY <1>12, StartDeleteStep
<1>13. CASE die(t)  BY <1>13, DieStep
<1>14. CASE terminate(t)  BY <1>14, TerminateStep
<1>q. QED
  BY <1>1, <1>2, <1>3, <1>4, <1>5, <1>6, <1>7, <1>8, <1>9, <1>10, <1>11, <1>12, <1>13, <1>14

LEMMA CountingStart == CountingInit => CountingInv
<1> SUFFICES ASSUME CountingInit PROVE CountingInv  OBVIOUS
<1>1. /\ sample \in Programs
      /\ tab = [m \in MapNames |-> IF sample = "syscall_tp" /\ m \in {"counts", "exits"}
                                   THEN [k \in {0} |-> 0] ELSE EmptyMap]
      /\ start = EmptyMap /\ pc = [t \in Tasks |-> InUser]
      /\ id = [t \in Tasks |-> CHOOSE i \in Ids : TRUE] /\ clock = 0
      /\ call = [t \in Tasks |-> 0] /\ reg = [t \in Tasks |-> 0] /\ gone = {} /\ cut = {}
      /\ added = [m \in MapNames |-> [k \in Keys |-> 0]]
  BY DEF CountingInit, InUser, Keys
<1>2. ASSUME NEW m \in MapNames
      PROVE  tab[m] \in Tables /\ \A k \in DOMAIN tab[m] : tab[m][k] = 0
  <2>1. CASE tab[m] = [k \in {0} |-> 0]
    <3>1. tab[m] \in [{0} -> Nat] /\ {0} \in SUBSET Keys  BY <2>1 DEF Keys
    <3>q. QED  BY <2>1, <3>1 DEF Tables
  <2>2. CASE tab[m] = [k \in {} |-> 0]
    <3>1. tab[m] \in [{} -> Nat] /\ {} \in SUBSET Keys  BY <2>2
    <3>q. QED  BY <2>2, <3>1 DEF Tables
  <2>q. QED  BY <1>1, <2>1, <2>2 DEF EmptyMap
<1>3. DOMAIN start = {} /\ start \in [DOMAIN start -> Nat]  BY <1>1 DEF EmptyMap
<1>4. InUser \in Stages /\ Idle(InUser) /\ Free(InUser)  BY StageFacts, FreeFacts
<1>5. (CHOOSE i \in Ids : TRUE) \in Ids  BY CountingAssumption
<1>6. CountingType
  <2>1. tab \in [MapNames -> Tables]
    <3>1. tab = [m \in MapNames |-> tab[m]]  BY <1>1
    <3>q. QED  BY <1>2, <3>1
  <2>2. /\ pc \in [Tasks -> Stages] /\ id \in [Tasks -> Ids] /\ clock \in Nat
        /\ call \in [Tasks -> Nat] /\ reg \in [Tasks -> Nat]
    BY <1>1, <1>4, <1>5
  <2>3. gone \subseteq Tasks /\ cut \subseteq Tasks /\ DOMAIN start \subseteq Ids \X Tasks
    BY <1>1, <1>3
  <2>4. added \in [MapNames -> [Keys -> Nat]]  BY <1>1
  <2>q. QED  BY <1>1, <1>3, <2>1, <2>2, <2>3, <2>4 DEF CountingType
<1>7. CounterInv
  <2>1. \A m \in MapNames : \A k \in Keys : added[m][k] = 0  BY <1>1
  <2>q. QED  BY <1>2, <2>1 DEF CounterInv
<1>8. \A t \in Tasks : pc[t] = InUser  BY <1>1
<1>9. \A t \in Tasks : \A m \in MapNames : ~Work(t, m) /\ ~Hold(t, m)
  BY <1>4, <1>8, IdleFacts
<1>10. PairInv  BY <1>9 DEF PairInv
<1>11. StartInv  BY <1>3 DEF StartInv
<1>12. ASSUME NEW t \in Tasks  PROVE RefInv(t) /\ GoneInv(t) /\ CallInv(t)
  <2>1. RefInv(t)  BY <1>9 DEF RefInv, Work, Hold
  <2>2. GoneInv(t)  BY <1>1 DEF GoneInv
  <2>3. CallInv(t)  BY <1>4, <1>8 DEF CallInv, Calling, Free
  <2>q. QED  BY <2>1, <2>2, <2>3
<1>q. QED  BY <1>6, <1>7, <1>10, <1>11, <1>12 DEF CountingInv

LEMMA CountingRest == CountingInv /\ UNCHANGED cvars => CountingInv'
<1> SUFFICES ASSUME CountingInv, UNCHANGED cvars PROVE CountingInv'  OBVIOUS
<1>1. /\ sample' = sample /\ tab' = tab /\ start' = start /\ pc' = pc /\ id' = id
      /\ clock' = clock /\ call' = call /\ reg' = reg /\ gone' = gone /\ cut' = cut
      /\ added' = added /\ raced' = raced
  BY DEF cvars
<1>2. CountingType'
  BY <1>1
  DEF CountingInv, CountingType, Tables, Keys, Stages, MapNames, InUser, InCall, Programs
<1>3. CounterInv' /\ StartInv'  BY <1>1 DEF CountingInv, CounterInv, StartInv, Keys, MapNames
<1>4. PairInv'  BY <1>1 DEF CountingInv, PairInv, Work, Hold, Key
<1>5. ASSUME NEW t \in Tasks  PROVE (RefInv(t) /\ GoneInv(t) /\ CallInv(t))'
  <2>1. RefInv(t)'  BY <1>1 DEF CountingInv, RefInv, Hold, Key
  <2>2. GoneInv(t)'  BY <1>1 DEF CountingInv, GoneInv, Hold, Key
  <2>3. CallInv(t)'  BY <1>1 DEF CountingInv, CallInv, Calling, InCall, StartKey
  <2>q. QED  BY <2>1, <2>2, <2>3
<1>q. QED  BY <1>2, <1>3, <1>4, <1>5 DEF CountingInv

LEMMA CountingSafe == CountingInv => CountsExplained /\ StartIsOwn
<1> SUFFICES ASSUME CountingInv PROVE CountsExplained /\ StartIsOwn  OBVIOUS
<1>0. CountingType  BY DEF CountingInv
<1>1. CountsExplained
  <2> SUFFICES ASSUME NEW m \in MapNames, NEW k \in DOMAIN tab[m]
               PROVE  tab[m][k] <= added[m][k] /\ (<<m, k>> \notin raced => tab[m][k] = added[m][k])
    BY DEF CountsExplained
  <2>1. k \in Keys  BY <1>0, TableFacts
  <2>q. QED  BY <2>1 DEF CountingInv, CounterInv
<1>2. ASSUME NEW t \in Tasks, pc[t][1] = "measured"  PROVE reg[t] = call[t] \/ t \in cut
  <2>1. pc[t] \in Stages  BY <1>0, KeyFacts
  <2>2. pc[t] = <<"measured", "-">>  BY <1>2, <2>1 DEF Stages, InUser, InCall, MapNames
  <2>q. QED  BY <2>2 DEF CountingInv, CallInv
<1>q. QED  BY <1>1, <1>2 DEF StartIsOwn

-----------------------------------------------------------------------------
(***************************************************************************)
(* map_test_2: the invariant.                                              *)
(***************************************************************************)
MapTestType ==
  /\ DOMAIN hash \subseteq {0} /\ \A k \in DOMAIN hash : hash[k] \in Int
  /\ DOMAIN array = {0} /\ array[0] \in Int
  /\ stack \in Seq(Nat) /\ Len(stack) <= StackSize
  /\ queue \in Seq(Nat) /\ Len(queue) <= StackSize
  /\ step \in [Pids -> 0 .. 18] /\ saw \in [Pids -> Int] /\ runs \in Nat
  /\ stack0 \in [Pids -> Seq(Nat)] /\ queue0 \in [Pids -> Seq(Nat)]

\* What the queue holds when p has put its two values behind what was there.
Filled(f, p) == f \o <<p, p + 1>>

\* What a run of p has found and left when it is at operation s: v is what it
\* printed last, m and f the stack and the queue at its start.
Facts(p, s, v, m, f, h, a, st, q) ==
  /\ s \in {3, 4} => 0 \in DOMAIN h /\ h[0] = p
  /\ s = 4 => v = p
  /\ s = 5 => 0 \notin DOMAIN h
  /\ s = 6 => v = NoValue
  /\ s = 7 => a[0] = p
  /\ s = 8 => v = p
  /\ s <= 8 => Len(st) = Len(m)
  /\ s \in {9, 12} => Len(st) = Len(m) + 1 /\ st[1] = p
  /\ s \in {10, 11} => Len(st) = Len(m) + 2 /\ st[1] = p + 1 /\ st[2] = p
  /\ s \in {10, 11, 12} => Len(m) + 2 <= StackSize
  /\ s = 11 => v = p + 1
  /\ s = 13 => v = IF Len(m) + 2 <= StackSize THEN p ELSE Failed
  /\ s <= 13 => q = f
  /\ s = 14 => q = Append(f, p)
  /\ s \in {15, 16} => q = Filled(f, p)
  /\ s = 16 => v = Filled(f, p)[1]
  /\ s = 17 => q = Tail(Filled(f, p)) /\ Len(f) + 2 <= StackSize
  /\ s = 18 => v = IF Len(f) + 2 <= StackSize THEN Filled(f, p)[2] ELSE Failed

\* A run that was not disturbed is alone, and finds what it left.
RunInv(p) ==
  step[p] # 0 /\ p \notin disturbed =>
    /\ \A o \in Pids : step[o] # 0 => o = p
    /\ Facts(p, step[p], saw[p], stack0[p], queue0[p], hash, array, stack, queue)

MapTestInv == MapTestType /\ \A p \in Pids : RunInv(p)

(***************************************************************************)
(* The script.                                                             *)
(***************************************************************************)
Ops == {"get", "insert", "get_own", "delete", "get_none", "array_insert", "array_get",
        "push", "push_next", "top", "pop", "next_top",
        "enqueue", "enqueue_next", "front", "dequeue", "next_front"}

LEMMA ScriptFacts ==
  /\ Len(Script) = 17
  /\ Script[1] = "get" /\ Script[2] = "insert" /\ Script[3] = "get_own"
  /\ Script[4] = "delete" /\ Script[5] = "get_none"
  /\ Script[6] = "array_insert" /\ Script[7] = "array_get"
  /\ Script[8] = "push" /\ Script[9] = "push_next" /\ Script[10] = "top"
  /\ Script[11] = "pop" /\ Script[12] = "next_top"
  /\ Script[13] = "enqueue" /\ Script[14] = "enqueue_next" /\ Script[15] = "front"
  /\ Script[16] = "dequeue" /\ Script[17] = "next_front"
<1>1. PICK a : a = HashTest  OBVIOUS
<1>2. PICK b : b = ArrayTest  OBVIOUS
<1>3. PICK c : c = StackTest  OBVIOUS
<1>4. PICK d : d = QueueTest  OBVIOUS
<1>5. /\ a \in Seq(Ops) /\ Len(a) = 5 /\ a[1] = "get" /\ a[2] = "insert" /\ a[3] = "get_own"
      /\ a[4] = "delete" /\ a[5] = "get_none"
  BY <1>1 DEF HashTest, Ops
<1>6. b \in Seq(Ops) /\ Len(b) = 2 /\ b[1] = "array_insert" /\ b[2] = "array_get"
  BY <1>2 DEF ArrayTest, Ops
<1>7. /\ c \in Seq(Ops) /\ Len(c) = 5 /\ c[1] = "push" /\ c[2] = "push_next" /\ c[3] = "top"
      /\ c[4] = "pop" /\ c[5] = "next_top"
  BY <1>3 DEF StackTest, Ops
<1>8. /\ d \in Seq(Ops) /\ Len(d) = 5 /\ d[1] = "enqueue" /\ d[2] = "enqueue_next"
      /\ d[3] = "front" /\ d[4] = "dequeue" /\ d[5] = "next_front"
  BY <1>4 DEF QueueTest, Ops
<1>9. PICK e : e = a \o b  OBVIOUS
<1>10. /\ e \in Seq(Ops) /\ Len(e) = 7
       /\ \A i \in 1 .. 5 : e[i] = a[i]
       /\ \A i \in 1 .. 2 : e[5 + i] = b[i]
  <2>1. PICK L, n, S : L = 5 /\ n = 2 /\ S = Ops  OBVIOUS
  <2>2. /\ L \in Nat /\ n \in Nat /\ a \in Seq(S) /\ b \in Seq(S)
        /\ Len(a) = L /\ Len(b) = n /\ e = a \o b
    BY <1>5, <1>6, <1>9, <2>1
  <2>3. e \in Seq(S) /\ Len(e) = L + n  BY <2>2, ConcatProperties
  <2>4. \A i \in 1 .. L : e[i] = a[i]  BY <2>2
  <2>5. \A i \in L + 1 .. L + n : e[i] = b[i - L]  BY <2>2
  <2>6. ASSUME NEW i \in 1 .. n  PROVE e[L + i] = b[i]
    <3>1. L + i \in L + 1 .. L + n /\ (L + i) - L = i  BY <2>2
    <3>q. QED  BY <2>5, <3>1
  <2>q. QED  BY <2>1, <2>3, <2>4, <2>6
<1>11. PICK f : f = e \o c  OBVIOUS
<1>12. /\ f \in Seq(Ops) /\ Len(f) = 12
       /\ \A i \in 1 .. 7 : f[i] = e[i]
       /\ \A i \in 1 .. 5 : f[7 + i] = c[i]
  <2>1. PICK L, n, S : L = 7 /\ n = 5 /\ S = Ops  OBVIOUS
  <2>2. /\ L \in Nat /\ n \in Nat /\ e \in Seq(S) /\ c \in Seq(S)
        /\ Len(e) = L /\ Len(c) = n /\ f = e \o c
    BY <1>7, <1>10, <1>11, <2>1
  <2>3. f \in Seq(S) /\ Len(f) = L + n  BY <2>2, ConcatProperties
  <2>4. \A i \in 1 .. L : f[i] = e[i]  BY <2>2
  <2>5. \A i \in L + 1 .. L + n : f[i] = c[i - L]  BY <2>2
  <2>6. ASSUME NEW i \in 1 .. n  PROVE f[L + i] = c[i]
    <3>1. L + i \in L + 1 .. L + n /\ (L + i) - L = i  BY <2>2
    <3>q. QED  BY <2>5, <3>1
  <2>q. QED  BY <2>1, <2>3, <2>4, <2>6
<1>13. PICK g : g = f \o d  OBVIOUS
<1>14. /\ g \in Seq(Ops) /\ Len(g) = 17
       /\ \A i \in 1 .. 12 : g[i] = f[i]
       /\ \A i \in 1 .. 5 : g[12 + i] = d[i]
  <2>1. PICK L, n, S : L = 12 /\ n = 5 /\ S = Ops  OBVIOUS
  <2>2. /\ L \in Nat /\ n \in Nat /\ f \in Seq(S) /\ d \in Seq(S)
        /\ Len(f) = L /\ Len(d) = n /\ g = f \o d
    BY <1>8, <1>12, <1>13, <2>1
  <2>3. g \in Seq(S) /\ Len(g) = L + n  BY <2>2, ConcatProperties
  <2>4. \A i \in 1 .. L : g[i] = f[i]  BY <2>2
  <2>5. \A i \in L + 1 .. L + n : g[i] = d[i - L]  BY <2>2
  <2>6. ASSUME NEW i \in 1 .. n  PROVE g[L + i] = d[i]
    <3>1. L + i \in L + 1 .. L + n /\ (L + i) - L = i  BY <2>2
    <3>q. QED  BY <2>5, <3>1
  <2>q. QED  BY <2>1, <2>3, <2>4, <2>6
<1>15. Script = g  BY <1>1, <1>2, <1>3, <1>4, <1>9, <1>11, <1>13 DEF Script
<1>16. g[1] = a[1] /\ g[2] = a[2] /\ g[3] = a[3] /\ g[4] = a[4] /\ g[5] = a[5]
  BY <1>10, <1>12, <1>14
<1>17. g[6] = b[1] /\ g[7] = b[2]  BY <1>10, <1>12, <1>14
<1>18. g[8] = c[1] /\ g[9] = c[2] /\ g[10] = c[3] /\ g[11] = c[4] /\ g[12] = c[5]
  BY <1>12, <1>14
<1>19. g[13] = d[1] /\ g[14] = d[2] /\ g[15] = d[3] /\ g[16] = d[4] /\ g[17] = d[5]
  BY <1>14
<1>q. QED  BY <1>5, <1>6, <1>7, <1>8, <1>14, <1>15, <1>16, <1>17, <1>18, <1>19

\* Where an operation is in the script.
LEMMA AtFacts ==
  ASSUME NEW s \in 1 .. 17
  PROVE  /\ (Script[s] = "get" <=> s = 1) /\ (Script[s] = "insert" <=> s = 2)
         /\ (Script[s] = "get_own" <=> s = 3) /\ (Script[s] = "delete" <=> s = 4)
         /\ (Script[s] = "get_none" <=> s = 5)
         /\ (Script[s] = "array_insert" <=> s = 6) /\ (Script[s] = "array_get" <=> s = 7)
         /\ (Script[s] = "push" <=> s = 8) /\ (Script[s] = "push_next" <=> s = 9)
         /\ (Script[s] = "top" <=> s = 10) /\ (Script[s] = "pop" <=> s = 11)
         /\ (Script[s] = "next_top" <=> s = 12)
         /\ (Script[s] = "enqueue" <=> s = 13) /\ (Script[s] = "enqueue_next" <=> s = 14)
         /\ (Script[s] = "front" <=> s = 15) /\ (Script[s] = "dequeue" <=> s = 16)
         /\ (Script[s] = "next_front" <=> s = 17)
<1>1. \/ s = 1 \/ s = 2 \/ s = 3 \/ s = 4 \/ s = 5 \/ s = 6 \/ s = 7 \/ s = 8 \/ s = 9
      \/ s = 10 \/ s = 11 \/ s = 12 \/ s = 13 \/ s = 14 \/ s = 15 \/ s = 16 \/ s = 17
  OBVIOUS
<1>q. QED  BY <1>1, ScriptFacts

\* A test that fails ends at its last operation.
LEMMA EndFacts ==
  /\ \A i \in 1 .. 5 : EndOf(i) = 5
  /\ \A i \in 6 .. 7 : EndOf(i) = 7
  /\ \A i \in 8 .. 12 : EndOf(i) = 12
  /\ \A i \in 13 .. 17 : EndOf(i) = 17
<1>1. ASSUME NEW i \in 1 .. 17, NEW e \in {5, 7, 12, 17}, i <= e,
             \A f \in {5, 7, 12, 17} : i <= f => e <= f
      PROVE  EndOf(i) = e
  <2>1. \A d \in {5, 7, 12, 17} :
          i <= d /\ (\A f \in {5, 7, 12, 17} : i <= f => d <= f) => d = e
    BY <1>1
  <2>q. QED  BY <1>1, <2>1 DEF EndOf
<1>2. \A i \in 1 .. 5 : EndOf(i) = 5  BY <1>1
<1>3. \A i \in 6 .. 7 : EndOf(i) = 7  BY <1>1
<1>4. \A i \in 8 .. 12 : EndOf(i) = 12  BY <1>1
<1>5. \A i \in 13 .. 17 : EndOf(i) = 17  BY <1>1
<1>q. QED  BY <1>2, <1>3, <1>4, <1>5

(***************************************************************************)
(* Stacks and queues.                                                      *)
(***************************************************************************)
LEMMA PeekFacts ==
  ASSUME NEW q \in Seq(Nat)
  PROVE  /\ bpf_map_peek_elem(q) \in Int
         /\ bpf_map_peek_elem(q) = NoValue <=> q = << >>
         /\ Len(q) >= 1 => bpf_map_peek_elem(q) = q[1]
<1>1. CASE q = << >>  BY <1>1 DEF bpf_map_peek_elem, NoValue
<1>2. CASE q # << >>
  <2>1. Len(q) >= 1 /\ Head(q) = q[1] /\ q[1] \in Nat  BY <1>2
  <2>2. bpf_map_peek_elem(q) = q[1]  BY <1>2, <2>1 DEF bpf_map_peek_elem
  <2>q. QED  BY <1>2, <2>1, <2>2 DEF NoValue
<1>q. QED  BY <1>1, <1>2

LEMMA FilledFacts ==
  ASSUME NEW f \in Seq(Nat), NEW x \in Nat
  PROVE  /\ Append(Append(f, x), x + 1) = Filled(f, x)
         /\ Filled(f, x) \in Seq(Nat) /\ Len(Filled(f, x)) = Len(f) + 2
<1>1. PICK y : y = <<x, x + 1>>  OBVIOUS
<1>2. y \in Seq(Nat) /\ Len(y) = 2 /\ y[1] = x /\ y[2] = x + 1  BY <1>1
<1>3. PICK z, n : z = f \o y /\ n = Len(f)  OBVIOUS
<1>4. n \in Nat /\ z \in Seq(Nat) /\ Len(z) = n + 2
  <2>1. z \in Seq(Nat) /\ Len(z) = Len(f) + Len(y)  BY <1>2, <1>3, ConcatProperties
  <2>q. QED  BY <1>2, <1>3, <2>1
<1>5. \A i \in 1 .. n + 2 : z[i] = IF i <= n THEN f[i] ELSE y[i - n]
  BY <1>2, <1>3, <1>4
<1>6. PICK g : g = Append(f, x)  OBVIOUS
<1>7. /\ g \in Seq(Nat) /\ Len(g) = n + 1 /\ g[n + 1] = x
      /\ \A i \in 1 .. n : g[i] = f[i]
  BY <1>3, <1>6
<1>8. PICK r : r = Append(g, x + 1)  OBVIOUS
<1>9. /\ r \in Seq(Nat) /\ Len(r) = n + 2 /\ r[n + 2] = x + 1
      /\ \A i \in 1 .. n + 1 : r[i] = g[i]
  BY <1>4, <1>7, <1>8
<1>10. ASSUME NEW i \in 1 .. n + 2  PROVE r[i] = z[i]
  <2>1. CASE i <= n
    <3>1. i \in 1 .. n /\ i \in 1 .. n + 1  BY <1>4, <2>1
    <3>q. QED  BY <1>5, <1>7, <1>9, <2>1, <3>1
  <2>2. CASE i = n + 1
    <3>1. ~(i <= n) /\ i - n = 1  BY <1>4, <2>2
    <3>2. z[i] = y[1]  BY <1>5, <3>1
    <3>q. QED  BY <1>2, <1>4, <1>7, <1>9, <2>2, <3>2
  <2>3. CASE i = n + 2
    <3>1. ~(i <= n) /\ i - n = 2  BY <1>4, <2>3
    <3>2. z[i] = y[2]  BY <1>5, <3>1
    <3>q. QED  BY <1>2, <1>9, <2>3, <3>2
  <2>q. QED  BY <1>4, <2>1, <2>2, <2>3
<1>11. r = z  BY <1>4, <1>9, <1>10
<1>q. QED  BY <1>1, <1>3, <1>4, <1>6, <1>8, <1>11 DEF Filled

LEMMA ConsFacts ==
  ASSUME NEW st \in Seq(Nat), NEW x \in Nat
  PROVE  /\ <<x>> \o st \in Seq(Nat) /\ Len(<<x>> \o st) = Len(st) + 1
         /\ (<<x>> \o st)[1] = x
         /\ Len(st) >= 1 => (<<x>> \o st)[2] = st[1]
<1>1. PICK y : y = <<x>>  OBVIOUS
<1>2. y \in Seq(Nat) /\ Len(y) = 1 /\ y[1] = x  BY <1>1
<1>3. PICK z : z = y \o st  OBVIOUS
<1>4. z \in Seq(Nat) /\ Len(z) = Len(y) + Len(st)  BY <1>2, <1>3, ConcatProperties
<1>7. PICK L, n : L = Len(y) /\ n = Len(st)  OBVIOUS
<1>8. L = 1 /\ n \in Nat  BY <1>2, <1>7
<1>a. /\ y \in Seq(Nat) /\ st \in Seq(Nat) /\ Len(y) = L /\ Len(st) = n /\ z = y \o st
      /\ L \in Nat /\ n \in Nat
  BY <1>2, <1>3, <1>7
<1>9. \A i \in 1 .. L : z[i] = y[i]  BY <1>a
<1>10. \A i \in L + 1 .. L + n : z[i] = st[i - L]  BY <1>a
<1>5. z[1] = y[1]  BY <1>8, <1>9
<1>6. Len(st) >= 1 => z[2] = st[1]
  <2> SUFFICES ASSUME n >= 1 PROVE z[2] = st[1]  BY <1>7
  <2>1. 2 \in L + 1 .. L + n /\ 2 - L = 1  BY <1>8
  <2>q. QED  BY <1>10, <2>1
<1>q. QED  BY <1>1, <1>2, <1>3, <1>4, <1>5, <1>6

LEMMA PopFacts ==
  ASSUME NEW st \in Seq(Nat)
  PROVE  /\ bpf_map_pop_elem(st) \in Seq(Nat) /\ Len(bpf_map_pop_elem(st)) <= Len(st)
         /\ Len(st) >= 2 => /\ bpf_map_pop_elem(st) = Tail(st)
                            /\ Len(bpf_map_pop_elem(st)) = Len(st) - 1
                            /\ bpf_map_pop_elem(st)[1] = st[2]
<1>1. CASE st = << >>  BY <1>1 DEF bpf_map_pop_elem
<1>2. CASE st # << >>
  <2>1. PICK z : z = Tail(st)  OBVIOUS
  <2>2. z \in Seq(Nat) /\ Len(z) = Len(st) - 1 /\ (Len(st) >= 2 => z[1] = st[2])
    BY <1>2, <2>1
  <2>3. bpf_map_pop_elem(st) = z  BY <1>2, <2>1 DEF bpf_map_pop_elem
  <2>q. QED  BY <2>1, <2>2, <2>3
<1>q. QED  BY <1>1, <1>2

LEMMA PushFails ==
  ASSUME NEW s \in Seq(Nat), NEW x \in Nat, NEW kind, Len(s) <= StackSize,
         bpf_map_push_elem(kind, s, x, StackSize).ret # "Ok"
  PROVE  bpf_map_push_elem(kind, s, x, StackSize).map = s /\ Len(s) = StackSize
<1>1. PICK u : u = bpf_map_push_elem(kind, s, x, StackSize)  OBVIOUS
<1>2. Len(s) >= StackSize  BY <1>1 DEF bpf_map_push_elem, Ok
<1>3. u = Err(s, "E2BIG")  BY <1>1, <1>2 DEF bpf_map_push_elem
<1>4. u.map = s  BY <1>3 DEF Err
<1>q. QED  BY <1>1, <1>2, <1>4, MapTestAssumption

(***************************************************************************)
(* Steps of map_test_2.                                                    *)
(***************************************************************************)

\* The maps alone.
MapsType ==
  /\ DOMAIN hash \subseteq {0} /\ \A k \in DOMAIN hash : hash[k] \in Int
  /\ DOMAIN array = {0} /\ array[0] \in Int
  /\ stack \in Seq(Nat) /\ Len(stack) <= StackSize
  /\ queue \in Seq(Nat) /\ Len(queue) <= StackSize

LEMMA OpStep ==
  ASSUME MapTestInv, NEW p \in Pids, step[p] # 0, NEW s \in 0 .. 18, NEW v \in Int,
         step' = [step EXCEPT ![p] = s], saw' = [saw EXCEPT ![p] = v],
         UNCHANGED <<runs, stack0, queue0, disturbed>>, MapsType',
         p \notin disturbed /\ s # 0 =>
           Facts(p, s, v, stack0[p], queue0[p], hash', array', stack', queue')
  PROVE  MapTestInv'
<1>1. MapTestType  BY DEF MapTestInv
<1>2. /\ step' \in [Pids -> 0 .. 18] /\ step'[p] = s
      /\ \A o \in Pids : o # p => step'[o] = step[o]
  BY <1>1 DEF MapTestType
<1>3. saw' \in [Pids -> Int] /\ saw'[p] = v  BY <1>1 DEF MapTestType
<1>4. MapTestType'  BY <1>1, <1>2, <1>3 DEF MapTestType, MapsType
<1>5. ASSUME NEW o \in Pids  PROVE RunInv(o)'
  <2> SUFFICES ASSUME step'[o] # 0, o \notin disturbed
               PROVE  /\ \A r \in Pids : step'[r] # 0 => r = o
                      /\ Facts(o, step'[o], saw'[o], stack0[o], queue0[o], hash', array', stack', queue')
    BY DEF RunInv, Facts
  <2>1. CASE o # p
    <3>1. step[o] # 0 /\ RunInv(o)  BY <1>2, <2>1 DEF MapTestInv
    <3>q. QED  BY <2>1, <3>1 DEF RunInv
  <2>2. CASE o = p
    <3>1. \A r \in Pids : step[r] # 0 => r = p  BY <2>2 DEF MapTestInv, RunInv
    <3>q. QED  BY <1>2, <1>3, <2>2, <3>1
  <2>q. QED  BY <2>1, <2>2
<1>q. QED  BY <1>4, <1>5 DEF MapTestInv

LEMMA RunFacts ==
  ASSUME MapTestInv, NEW p \in Pids, step[p] # 0
  PROVE  /\ p \in Nat /\ step[p] \in 1 .. 18 /\ saw[p] \in Int
         /\ stack0[p] \in Seq(Nat) /\ queue0[p] \in Seq(Nat)
         /\ MapsType
         /\ p \notin disturbed =>
              Facts(p, step[p], saw[p], stack0[p], queue0[p], hash, array, stack, queue)
<1>1. MapTestType /\ RunInv(p)  BY DEF MapTestInv
<1>2. step[p] \in 0 .. 18  BY <1>1 DEF MapTestType
<1>3. /\ p \in Nat /\ step[p] \in 1 .. 18 /\ saw[p] \in Int
      /\ stack0[p] \in Seq(Nat) /\ queue0[p] \in Seq(Nat)
  BY <1>1, <1>2, MapTestAssumption DEF MapTestType
<1>q. QED  BY <1>1, <1>3 DEF MapTestType, MapsType, RunInv

\* An operation that prints what it reads, or one that prints nothing.
LEMMA ShowStep ==
  ASSUME MapTestInv, NEW p \in Pids, step[p] \in 1 .. 17, NEW v \in Int,
         saw' = [saw EXCEPT ![p] = v], Advance(p, step[p]),
         UNCHANGED <<runs, stack0, queue0, disturbed>>, MapsType',
         p \notin disturbed =>
           Facts(p, step[p] + 1, v, stack0[p], queue0[p], hash', array', stack', queue')
  PROVE  MapTestInv'
<1>1. PICK s : s = step[p] + 1  OBVIOUS
<1>2. /\ s \in 0 .. 18 /\ step[p] # 0 /\ step' = [step EXCEPT ![p] = s]
  BY <1>1 DEF Advance
<1>3. p \notin disturbed /\ s # 0 =>
        Facts(p, s, v, stack0[p], queue0[p], hash', array', stack', queue')
  BY <1>1
<1>q. QED  BY <1>2, <1>3, OpStep

LEMMA SawSame ==
  ASSUME MapTestInv, NEW p \in Pids, saw' = saw
  PROVE  saw' = [saw EXCEPT ![p] = saw[p]]
BY DEF MapTestInv, MapTestType

\* An operation that ends its test when it fails.
LEMMA ResultStep ==
  ASSUME MapTestInv, NEW p \in Pids, step[p] \in 1 .. 17, NEW ret, Result(p, ret),
         UNCHANGED <<runs, stack0, queue0, disturbed>>, MapsType',
         ret = "Ok" /\ p \notin disturbed =>
           Facts(p, step[p] + 1, saw[p], stack0[p], queue0[p], hash', array', stack', queue'),
         ret # "Ok" /\ p \notin disturbed =>
           Facts(p, EndOf(step[p]) + 1, Failed, stack0[p], queue0[p],
                 hash', array', stack', queue')
  PROVE  MapTestInv'
<1>1. step[p] # 0 /\ saw[p] \in Int  BY RunFacts
<1>2. CASE ret = "Ok"
  <2>1. Advance(p, step[p]) /\ saw' = saw  BY <1>2 DEF Result
  <2>q. QED  BY <1>1, <1>2, <2>1, SawSame, ShowStep
<1>3. CASE ret # "Ok"
  <2>1. PICK e, s : e = EndOf(step[p]) /\ s = e + 1  OBVIOUS
  <2>2. step' = [step EXCEPT ![p] = s] /\ saw' = [saw EXCEPT ![p] = Failed]
    BY <1>3, <2>1 DEF Result, Advance
  <2>3. e \in {5, 7, 12, 17}
    <3>1. step[p] \in 1 .. 5 \/ step[p] \in 6 .. 7 \/ step[p] \in 8 .. 12 \/ step[p] \in 13 .. 17
      OBVIOUS
    <3>q. QED  BY <2>1, <3>1, EndFacts
  <2>4. s \in 0 .. 18 /\ Failed \in Int  BY <2>1, <2>3 DEF Failed
  <2>5. p \notin disturbed /\ s # 0 =>
          Facts(p, s, Failed, stack0[p], queue0[p], hash', array', stack', queue')
    BY <1>3, <2>1
  <2>q. QED  BY <1>1, <2>2, <2>4, <2>5, OpStep
<1>q. QED  BY <1>2, <1>3

LEMMA HashStep ==
  ASSUME MapTestInv, NEW p \in Pids, map_test_hash(p)
  PROVE  MapTestInv'
<1>0. /\ step[p] # 0 /\ step[p] \in 1 .. 17
      /\ UNCHANGED <<array, stack, queue, runs, stack0, queue0, disturbed>>
  BY ScriptFacts DEF map_test_hash, At
<1>1. /\ p \in Nat /\ step[p] \in 1 .. 17 /\ saw[p] \in Int /\ MapsType
      /\ stack0[p] \in Seq(Nat) /\ queue0[p] \in Seq(Nat)
  BY <1>0, RunFacts
<1>2. PICK i, w, m, f, h :
        i = step[p] /\ w = saw[p] /\ m = stack0[p] /\ f = queue0[p] /\ h = hash  OBVIOUS
<1>3. p \notin disturbed => Facts(p, i, w, m, f, h, array, stack, queue)
  BY <1>0, <1>2, RunFacts
<1>4. DOMAIN h \subseteq {0} /\ \A k \in DOMAIN h : h[k] \in Int  BY <1>1, <1>2 DEF MapsType
<1>5. ASSUME DOMAIN hash' \subseteq {0}, \A k \in DOMAIN hash' : hash'[k] \in Int
      PROVE  MapsType'
  BY <1>0, <1>1, <1>5 DEF MapsType
<1>6. CASE At(p, "get") \/ At(p, "get_own") \/ At(p, "get_none")
  <2>1. i \in {1, 3, 5}  BY <1>1, <1>2, <1>6, AtFacts DEF At
  <2>2. PICK v : v = Get(h, 0)  OBVIOUS
  <2>3. v \in Int /\ (0 \in DOMAIN h => v = h[0]) /\ (0 \notin DOMAIN h => v = NoValue)
    BY <1>4, <2>2 DEF Get, NoValue
  <2>4. hash' = h /\ Show(p, v)
    <3>1. ~At(p, "insert") /\ ~At(p, "delete")  BY <1>1, <1>2, <2>1, AtFacts DEF At
    <3>q. QED  BY <1>2, <2>2, <3>1 DEF map_test_hash
  <2>5. MapsType'  BY <1>4, <1>5, <2>4
  <2>6. saw' = [saw EXCEPT ![p] = v] /\ Advance(p, step[p])  BY <2>4 DEF Show
  <2>7. p \notin disturbed => Facts(p, i + 1, v, m, f, h, array, stack, queue)
    <3> SUFFICES ASSUME p \notin disturbed PROVE Facts(p, i + 1, v, m, f, h, array, stack, queue)
      OBVIOUS
    <3>1. CASE i = 1  BY <1>3, <3>1 DEF Facts
    <3>2. CASE i = 3  BY <1>3, <2>3, <3>2 DEF Facts
    <3>3. CASE i = 5  BY <1>3, <2>3, <3>3 DEF Facts
    <3>q. QED  BY <2>1, <3>1, <3>2, <3>3
  <2>q. QED  BY <1>0, <1>2, <2>3, <2>4, <2>5, <2>6, <2>7, ShowStep
<1>7. CASE At(p, "insert")
  <2>1. i = 2  BY <1>1, <1>2, <1>7, AtFacts DEF At
  <2>2. PICK u : u = insert(h, 0, p, 1)  OBVIOUS
  <2>3. hash' = u.map /\ Result(p, u.ret)
    <3>1. /\ ~At(p, "get") /\ ~At(p, "get_own") /\ ~At(p, "get_none") /\ ~At(p, "delete")
      BY <1>1, <1>2, <2>1, AtFacts DEF At
    <3>q. QED  BY <1>2, <2>2, <3>1 DEF map_test_hash
  <2>4. u = Ok(Put(h, 0, p))
    <3>1. 0 \notin DOMAIN h => Cardinality(DOMAIN h) = 0
      <4>1. 0 \notin DOMAIN h => DOMAIN h = {}  BY <1>4
      <4>q. QED  BY <4>1, FS_EmptySet
    <3>q. QED  BY <2>2, <3>1 DEF insert, bpf_map_update_elem
  <2>5. u.ret = "Ok" /\ hash' = Put(h, 0, p)  BY <2>3, <2>4 DEF Ok
  <2>6. /\ DOMAIN hash' = DOMAIN h \cup {0} /\ hash'[0] = p
        /\ \A k \in DOMAIN hash' : k # 0 => hash'[k] = h[k]
    BY <2>5 DEF Put
  <2>7. MapsType'  BY <1>1, <1>4, <1>5, <2>6
  <2>8. p \notin disturbed => Facts(p, i + 1, w, m, f, hash', array, stack, queue)
    BY <1>3, <2>1, <2>6 DEF Facts
  <2>9. p \notin disturbed => Facts(p, step[p] + 1, saw[p], stack0[p], queue0[p], hash', array', stack', queue')
    BY <1>0, <1>2, <2>8
  <2>10. PICK ret : ret = u.ret  OBVIOUS
  <2>11. ret = "Ok" /\ Result(p, ret)  BY <2>3, <2>5, <2>10
  <2>q. QED  BY <1>0, <2>7, <2>9, <2>11, ResultStep
<1>8. CASE At(p, "delete")
  <2>1. i = 4  BY <1>1, <1>2, <1>8, AtFacts DEF At
  <2>2. PICK u : u = bpf_map_delete_elem(h, 0)  OBVIOUS
  <2>3. hash' = u.map /\ Result(p, u.ret)
    <3>1. /\ ~At(p, "get") /\ ~At(p, "get_own") /\ ~At(p, "get_none") /\ ~At(p, "insert")
      BY <1>1, <1>2, <2>1, AtFacts DEF At
    <3>q. QED  BY <1>2, <2>2, <3>1 DEF map_test_hash
  <2>4. CASE 0 \in DOMAIN h
    <3>1. u = Ok([j \in DOMAIN h \ {0} |-> h[j]])  BY <2>2, <2>4 DEF bpf_map_delete_elem
    <3>2. u.ret = "Ok" /\ hash' = [j \in DOMAIN h \ {0} |-> h[j]]  BY <2>3, <3>1 DEF Ok
    <3>3. DOMAIN hash' = {}  BY <1>4, <3>2
    <3>4. MapsType'  BY <1>5, <3>3
    <3>5. p \notin disturbed => Facts(p, i + 1, w, m, f, hash', array, stack, queue)
      BY <1>3, <2>1, <3>3 DEF Facts
    <3>6. p \notin disturbed =>
            Facts(p, step[p] + 1, saw[p], stack0[p], queue0[p], hash', array', stack', queue')
      BY <1>0, <1>2, <3>5
    <3>7. PICK ret : ret = u.ret  OBVIOUS
    <3>8. ret = "Ok" /\ Result(p, ret)  BY <2>3, <3>2, <3>7
    <3>q. QED  BY <1>0, <3>4, <3>6, <3>8, ResultStep
  <2>5. CASE 0 \notin DOMAIN h
    <3>1. u.ret # "Ok" /\ hash' = h  BY <2>2, <2>3, <2>5 DEF bpf_map_delete_elem, Err
    <3>2. MapsType'  BY <1>4, <1>5, <3>1
    <3>3. p \in disturbed  BY <1>3, <2>1, <2>5 DEF Facts
    <3>q. QED  BY <1>0, <2>3, <3>1, <3>2, <3>3, ResultStep
  <2>q. QED  BY <2>4, <2>5
<1>q. QED  BY <1>6, <1>7, <1>8 DEF map_test_hash

LEMMA ArrayStep ==
  ASSUME MapTestInv, NEW p \in Pids, map_test_array(p)
  PROVE  MapTestInv'
<1>0. /\ step[p] # 0 /\ step[p] \in 1 .. 17
      /\ UNCHANGED <<hash, stack, queue, runs, stack0, queue0, disturbed>>
  BY ScriptFacts DEF map_test_array, At
<1>1. /\ p \in Nat /\ step[p] \in 1 .. 17 /\ saw[p] \in Int /\ MapsType
      /\ stack0[p] \in Seq(Nat) /\ queue0[p] \in Seq(Nat)
  BY <1>0, RunFacts
<1>2. PICK i, w, m, f, a :
        i = step[p] /\ w = saw[p] /\ m = stack0[p] /\ f = queue0[p] /\ a = array  OBVIOUS
<1>3. p \notin disturbed => Facts(p, i, w, m, f, hash, a, stack, queue)
  BY <1>0, <1>2, RunFacts
<1>4. DOMAIN a = {0} /\ a[0] \in Int  BY <1>1, <1>2 DEF MapsType
<1>5. ASSUME DOMAIN array' = {0}, array'[0] \in Int  PROVE MapsType'
  BY <1>0, <1>1, <1>5 DEF MapsType
<1>6. CASE At(p, "array_insert")
  <2>1. i = 6  BY <1>1, <1>2, <1>6, AtFacts DEF At
  <2>2. PICK u : u = insert(a, 0, p, 1)  OBVIOUS
  <2>3. array' = u.map /\ Result(p, u.ret)
    <3>1. ~At(p, "array_get")  BY <1>1, <1>2, <2>1, AtFacts DEF At
    <3>q. QED  BY <1>2, <2>2, <3>1 DEF map_test_array
  <2>4. u = Ok(Put(a, 0, p))  BY <1>4, <2>2 DEF insert, bpf_map_update_elem
  <2>5. u.ret = "Ok" /\ array' = Put(a, 0, p)  BY <2>3, <2>4 DEF Ok
  <2>6. DOMAIN array' = {0} /\ array'[0] = p  BY <1>4, <2>5 DEF Put
  <2>7. MapsType'  BY <1>1, <1>5, <2>6
  <2>8. p \notin disturbed => Facts(p, i + 1, w, m, f, hash, array', stack, queue)
    BY <1>3, <2>1, <2>6 DEF Facts
  <2>9. p \notin disturbed => Facts(p, step[p] + 1, saw[p], stack0[p], queue0[p], hash', array', stack', queue')
    BY <1>0, <1>2, <2>8
  <2>10. PICK ret : ret = u.ret  OBVIOUS
  <2>11. ret = "Ok" /\ Result(p, ret)  BY <2>3, <2>5, <2>10
  <2>q. QED  BY <1>0, <2>7, <2>9, <2>11, ResultStep
<1>7. CASE At(p, "array_get")
  <2>1. i = 7  BY <1>1, <1>2, <1>7, AtFacts DEF At
  <2>2. PICK v : v = Get(a, 0)  OBVIOUS
  <2>3. v = a[0] /\ v \in Int  BY <1>4, <2>2 DEF Get
  <2>4. array' = a /\ Show(p, v)
    <3>1. ~At(p, "array_insert")  BY <1>1, <1>2, <2>1, AtFacts DEF At
    <3>q. QED  BY <1>2, <2>2, <3>1 DEF map_test_array
  <2>5. MapsType'  BY <1>4, <1>5, <2>4
  <2>6. saw' = [saw EXCEPT ![p] = v] /\ Advance(p, step[p])  BY <2>4 DEF Show
  <2>7. p \notin disturbed => Facts(p, i + 1, v, m, f, hash, a, stack, queue)
    BY <1>3, <2>1, <2>3 DEF Facts
  <2>8. p \notin disturbed => Facts(p, step[p] + 1, v, stack0[p], queue0[p], hash', array', stack', queue')
    BY <1>0, <1>2, <2>4, <2>7
  <2>q. QED  BY <1>0, <2>3, <2>5, <2>6, <2>8, ShowStep
<1>q. QED  BY <1>6, <1>7 DEF map_test_array

LEMMA StackStep ==
  ASSUME MapTestInv, NEW p \in Pids, map_test_stack(p)
  PROVE  MapTestInv'
<1>0. /\ step[p] # 0 /\ step[p] \in 1 .. 17
      /\ UNCHANGED <<hash, array, queue, runs, stack0, queue0, disturbed>>
  BY ScriptFacts DEF map_test_stack, At
<1>1. /\ p \in Nat /\ step[p] \in 1 .. 17 /\ saw[p] \in Int /\ MapsType
      /\ stack0[p] \in Seq(Nat) /\ queue0[p] \in Seq(Nat)
  BY <1>0, RunFacts
<1>2. PICK i, w, m, f, st :
        i = step[p] /\ w = saw[p] /\ m = stack0[p] /\ f = queue0[p] /\ st = stack  OBVIOUS
<1>3. p \notin disturbed => Facts(p, i, w, m, f, hash, array, st, queue)
  BY <1>0, <1>2, RunFacts
<1>4. st \in Seq(Nat) /\ Len(st) \in Nat /\ Len(st) <= StackSize /\ Len(m) \in Nat
  BY <1>1, <1>2 DEF MapsType
<1>5. ASSUME stack' \in Seq(Nat), Len(stack') <= StackSize  PROVE MapsType'
  BY <1>0, <1>1, <1>5 DEF MapsType
<1>6. CASE At(p, "push") \/ At(p, "push_next")
  <2>1. i \in {8, 9}  BY <1>1, <1>2, <1>6, AtFacts DEF At
  <2>2. PICK x : x = IF At(p, "push") THEN p ELSE p + 1  OBVIOUS
  <2>3. x \in Nat /\ (i = 8 => x = p) /\ (i = 9 => x = p + 1)
    <3>1. At(p, "push") <=> i = 8  BY <1>0, <1>2, AtFacts, ScriptFacts DEF At
    <3>q. QED  BY <1>1, <2>1, <2>2, <3>1
  <2>4. PICK u : u = bpf_map_push_elem("stack", st, x, StackSize)  OBVIOUS
  <2>5. PICK ret : ret = u.ret  OBVIOUS
  <2>6. stack' = u.map /\ Result(p, ret)
    <3>1. ~At(p, "top") /\ ~At(p, "next_top") /\ ~At(p, "pop")
      BY <1>1, <1>2, <2>1, AtFacts DEF At
    <3>q. QED  BY <1>2, <2>2, <2>4, <2>5, <3>1 DEF map_test_stack
  <2>7. CASE ret # "Ok"
    <3>1. stack' = st /\ Len(st) = StackSize  BY <1>4, <2>3, <2>4, <2>5, <2>6, <2>7, PushFails
    <3>2. MapsType'  BY <1>4, <1>5, <3>1
    <3>3. EndOf(step[p]) = 12  BY <1>2, <2>1, EndFacts
    <3>4. p \notin disturbed => Facts(p, 12 + 1, Failed, m, f, hash, array, st, queue)
      BY <1>3, <1>4, <2>1, <3>1, MapTestAssumption DEF Facts
    <3>5. p \notin disturbed =>
            Facts(p, EndOf(step[p]) + 1, Failed, stack0[p], queue0[p], hash', array', stack', queue')
      BY <1>0, <1>2, <3>1, <3>3, <3>4
    <3>q. QED  BY <1>0, <2>6, <2>7, <3>2, <3>5, ResultStep
  <2>8. CASE ret = "Ok"
    <3>1. stack' = <<x>> \o st /\ Len(st) < StackSize
      <4>1. ~(Len(st) >= StackSize)  BY <2>4, <2>5, <2>8 DEF bpf_map_push_elem, Err
      <4>2. u = Ok(<<x>> \o st)  BY <2>4, <4>1 DEF bpf_map_push_elem
      <4>3. u.map = <<x>> \o st  BY <4>2 DEF Ok
      <4>q. QED  BY <1>4, <2>6, <4>1, <4>3, MapTestAssumption
    <3>2. PICK z : z = <<x>> \o st  OBVIOUS
    <3>3. /\ z \in Seq(Nat) /\ Len(z) = Len(st) + 1 /\ z[1] = x
          /\ Len(st) >= 1 => z[2] = st[1]
      BY <1>4, <2>3, <3>2, ConsFacts
    <3>4. stack' = z /\ Len(z) <= StackSize  BY <1>4, <3>1, <3>2, <3>3, MapTestAssumption
    <3>5. MapsType'  BY <1>5, <3>3, <3>4
    <3>6. p \notin disturbed => Facts(p, i + 1, w, m, f, hash, array, z, queue)
      <4> SUFFICES ASSUME p \notin disturbed
                   PROVE  Facts(p, i + 1, w, m, f, hash, array, z, queue)
        OBVIOUS
      <4>1. CASE i = 8  BY <1>3, <1>4, <2>3, <3>3, <4>1 DEF Facts
      <4>2. CASE i = 9  BY <1>3, <1>4, <2>3, <3>3, <3>4, <4>2 DEF Facts
      <4>q. QED  BY <2>1, <4>1, <4>2
    <3>7. p \notin disturbed =>
            Facts(p, step[p] + 1, saw[p], stack0[p], queue0[p], hash', array', stack', queue')
      BY <1>0, <1>2, <3>4, <3>6
    <3>q. QED  BY <1>0, <2>6, <2>8, <3>5, <3>7, ResultStep
  <2>q. QED  BY <2>7, <2>8
<1>7. CASE At(p, "top") \/ At(p, "next_top")
  <2>1. i \in {10, 12}  BY <1>1, <1>2, <1>7, AtFacts DEF At
  <2>2. PICK v : v = bpf_map_peek_elem(st)  OBVIOUS
  <2>3. v \in Int /\ (Len(st) >= 1 => v = st[1])  BY <1>4, <2>2, PeekFacts
  <2>4. stack' = st /\ Show(p, v)
    <3>1. ~At(p, "push") /\ ~At(p, "push_next") /\ ~At(p, "pop")
      BY <1>1, <1>2, <2>1, AtFacts DEF At
    <3>q. QED  BY <1>2, <2>2, <3>1 DEF map_test_stack
  <2>5. MapsType'  BY <1>4, <1>5, <2>4
  <2>6. saw' = [saw EXCEPT ![p] = v] /\ Advance(p, step[p])  BY <2>4 DEF Show
  <2>7. p \notin disturbed => Facts(p, i + 1, v, m, f, hash, array, st, queue)
    <3> SUFFICES ASSUME p \notin disturbed
                 PROVE  Facts(p, i + 1, v, m, f, hash, array, st, queue)
      OBVIOUS
    <3>1. CASE i = 10  BY <1>3, <1>4, <2>3, <3>1 DEF Facts
    <3>2. CASE i = 12  BY <1>3, <1>4, <2>3, <3>2 DEF Facts
    <3>q. QED  BY <2>1, <3>1, <3>2
  <2>8. p \notin disturbed => Facts(p, step[p] + 1, v, stack0[p], queue0[p], hash', array', stack', queue')
    BY <1>0, <1>2, <2>4, <2>7
  <2>q. QED  BY <1>0, <2>3, <2>5, <2>6, <2>8, ShowStep
<1>8. CASE At(p, "pop")
  <2>1. i = 11  BY <1>1, <1>2, <1>8, AtFacts DEF At
  <2>2. PICK z : z = bpf_map_pop_elem(st)  OBVIOUS
  <2>3. /\ z \in Seq(Nat) /\ Len(z) <= Len(st)
        /\ Len(st) >= 2 => Len(z) = Len(st) - 1 /\ z[1] = st[2]
    BY <1>4, <2>2, PopFacts
  <2>4. stack' = z /\ saw' = saw /\ Advance(p, step[p])
    <3>1. ~At(p, "push") /\ ~At(p, "push_next") /\ ~At(p, "top") /\ ~At(p, "next_top")
      BY <1>1, <1>2, <2>1, AtFacts DEF At
    <3>q. QED  BY <1>2, <2>2, <3>1 DEF map_test_stack
  <2>5. MapsType'
    <3>1. Len(z) <= StackSize  BY <1>4, <2>3, MapTestAssumption
    <3>q. QED  BY <1>5, <2>3, <2>4, <3>1
  <2>6. p \notin disturbed => Facts(p, i + 1, w, m, f, hash, array, z, queue)
    BY <1>3, <1>4, <2>1, <2>3 DEF Facts
  <2>7. p \notin disturbed =>
          Facts(p, step[p] + 1, saw[p], stack0[p], queue0[p], hash', array', stack', queue')
    BY <1>0, <1>2, <2>4, <2>6
  <2>8. saw' = [saw EXCEPT ![p] = saw[p]]  BY <2>4, SawSame
  <2>q. QED  BY <1>0, <1>1, <2>4, <2>5, <2>7, <2>8, ShowStep
<1>q. QED  BY <1>6, <1>7, <1>8 DEF map_test_stack

LEMMA QueueStep ==
  ASSUME MapTestInv, NEW p \in Pids, map_test_queue(p)
  PROVE  MapTestInv'
<1>0. /\ step[p] # 0 /\ step[p] \in 1 .. 17
      /\ UNCHANGED <<hash, array, stack, runs, stack0, queue0, disturbed>>
  BY ScriptFacts DEF map_test_queue, At
<1>1. /\ p \in Nat /\ step[p] \in 1 .. 17 /\ saw[p] \in Int /\ MapsType
      /\ stack0[p] \in Seq(Nat) /\ queue0[p] \in Seq(Nat)
  BY <1>0, RunFacts
<1>2. PICK i, w, m, f, q :
        i = step[p] /\ w = saw[p] /\ m = stack0[p] /\ f = queue0[p] /\ q = queue  OBVIOUS
<1>3. p \notin disturbed => Facts(p, i, w, m, f, hash, array, stack, q)
  BY <1>0, <1>2, RunFacts
<1>4. q \in Seq(Nat) /\ Len(q) \in Nat /\ Len(q) <= StackSize /\ f \in Seq(Nat) /\ Len(f) \in Nat
  BY <1>1, <1>2 DEF MapsType
<1>5. ASSUME queue' \in Seq(Nat), Len(queue') <= StackSize  PROVE MapsType'
  BY <1>0, <1>1, <1>5 DEF MapsType
<1>6. CASE At(p, "enqueue") \/ At(p, "enqueue_next")
  <2>1. i \in {13, 14}  BY <1>1, <1>2, <1>6, AtFacts DEF At
  <2>2. PICK x : x = IF At(p, "enqueue") THEN p ELSE p + 1  OBVIOUS
  <2>3. x \in Nat /\ (i = 13 => x = p) /\ (i = 14 => x = p + 1)
    <3>1. At(p, "enqueue") <=> i = 13  BY <1>0, <1>2, AtFacts, ScriptFacts DEF At
    <3>q. QED  BY <1>1, <2>1, <2>2, <3>1
  <2>4. PICK u : u = bpf_map_push_elem("queue", q, x, StackSize)  OBVIOUS
  <2>5. PICK ret : ret = u.ret  OBVIOUS
  <2>6. queue' = u.map /\ Result(p, ret)
    <3>1. ~At(p, "front") /\ ~At(p, "next_front") /\ ~At(p, "dequeue")
      BY <1>1, <1>2, <2>1, AtFacts DEF At
    <3>q. QED  BY <1>2, <2>2, <2>4, <2>5, <3>1 DEF map_test_queue
  <2>7. CASE ret # "Ok"
    <3>1. queue' = q /\ Len(q) = StackSize
      BY <1>4, <2>3, <2>4, <2>5, <2>6, <2>7, PushFails
    <3>2. MapsType'  BY <1>4, <1>5, <3>1
    <3>3. EndOf(step[p]) = 17  BY <1>2, <2>1, EndFacts
    <3>4. p \notin disturbed => ~(Len(f) + 2 <= StackSize)
      <4> SUFFICES ASSUME p \notin disturbed PROVE ~(Len(f) + 2 <= StackSize)  OBVIOUS
      <4>1. CASE i = 13  BY <1>3, <1>4, <3>1, <4>1 DEF Facts
      <4>2. CASE i = 14
        <5>1. q = Append(f, p)  BY <1>3, <4>2 DEF Facts
        <5>2. Len(q) = Len(f) + 1  BY <1>4, <5>1
        <5>q. QED  BY <1>4, <3>1, <5>2
      <4>q. QED  BY <2>1, <4>1, <4>2
    <3>5. p \notin disturbed => Facts(p, 17 + 1, Failed, m, f, hash, array, stack, q)
      BY <3>4 DEF Facts
    <3>6. p \notin disturbed =>
            Facts(p, EndOf(step[p]) + 1, Failed, stack0[p], queue0[p],
                  hash', array', stack', queue')
      BY <1>0, <1>2, <3>1, <3>3, <3>5
    <3>q. QED  BY <1>0, <2>6, <2>7, <3>2, <3>6, ResultStep
  <2>8. CASE ret = "Ok"
    <3>1. queue' = Append(q, x) /\ Len(q) < StackSize
      <4>1. ~(Len(q) >= StackSize)  BY <2>4, <2>5, <2>8 DEF bpf_map_push_elem, Err
      <4>2. u = Ok(Append(q, x))  BY <2>4, <4>1 DEF bpf_map_push_elem
      <4>3. u.map = Append(q, x)  BY <4>2 DEF Ok
      <4>q. QED  BY <1>4, <2>6, <4>1, <4>3, MapTestAssumption
    <3>2. PICK z : z = Append(q, x)  OBVIOUS
    <3>3. z \in Seq(Nat) /\ Len(z) = Len(q) + 1  BY <1>4, <2>3, <3>2
    <3>5. queue' = z /\ Len(z) <= StackSize  BY <1>4, <3>1, <3>2, <3>3, MapTestAssumption
    <3>6. MapsType'  BY <1>5, <3>3, <3>5
    <3>7. p \notin disturbed => Facts(p, i + 1, w, m, f, hash, array, stack, z)
      <4> SUFFICES ASSUME p \notin disturbed
                   PROVE  Facts(p, i + 1, w, m, f, hash, array, stack, z)
        OBVIOUS
      <4>1. CASE i = 13  BY <1>3, <2>3, <3>2, <4>1 DEF Facts
      <4>2. CASE i = 14
        <5>1. q = Append(f, p) /\ x = p + 1  BY <1>3, <2>3, <4>2 DEF Facts
        <5>2. z = Filled(f, p)  BY <1>1, <1>4, <3>2, <5>1, FilledFacts
        <5>q. QED  BY <4>2, <5>2 DEF Facts
      <4>q. QED  BY <2>1, <4>1, <4>2
    <3>8. p \notin disturbed =>
            Facts(p, step[p] + 1, saw[p], stack0[p], queue0[p], hash', array', stack', queue')
      BY <1>0, <1>2, <3>5, <3>7
    <3>q. QED  BY <1>0, <2>6, <2>8, <3>6, <3>8, ResultStep
  <2>q. QED  BY <2>7, <2>8
<1>7. CASE At(p, "front") \/ At(p, "next_front")
  <2>1. i \in {15, 17}  BY <1>1, <1>2, <1>7, AtFacts DEF At
  <2>2. PICK v : v = bpf_map_peek_elem(q)  OBVIOUS
  <2>3. v \in Int /\ (Len(q) >= 1 => v = q[1])  BY <1>4, <2>2, PeekFacts
  <2>4. queue' = q /\ Show(p, v)
    <3>1. ~At(p, "enqueue") /\ ~At(p, "enqueue_next") /\ ~At(p, "dequeue")
      BY <1>1, <1>2, <2>1, AtFacts DEF At
    <3>q. QED  BY <1>2, <2>2, <3>1 DEF map_test_queue
  <2>5. MapsType'  BY <1>4, <1>5, <2>4
  <2>6. saw' = [saw EXCEPT ![p] = v] /\ Advance(p, step[p])  BY <2>4 DEF Show
  <2>7. p \notin disturbed => Facts(p, i + 1, v, m, f, hash, array, stack, q)
    <3> SUFFICES ASSUME p \notin disturbed
                 PROVE  Facts(p, i + 1, v, m, f, hash, array, stack, q)
      OBVIOUS
    <3>1. PICK z : z = Filled(f, p)  OBVIOUS
    <3>2. z \in Seq(Nat) /\ Len(z) = Len(f) + 2  BY <1>1, <1>4, <3>1, FilledFacts
    <3>3. CASE i = 15
      <4>1. q = z  BY <1>3, <3>1, <3>3 DEF Facts
      <4>2. v = z[1]  BY <1>4, <2>3, <3>2, <4>1
      <4>q. QED  BY <1>3, <3>1, <3>3, <4>1, <4>2 DEF Facts
    <3>4. CASE i = 17
      <4>1. q = Tail(z) /\ Len(f) + 2 <= StackSize  BY <1>3, <3>1, <3>4 DEF Facts
      <4>2. Len(q) >= 1 /\ q[1] = z[2]  BY <1>4, <3>2, <4>1
      <4>3. v = z[2]  BY <2>3, <4>2
      <4>q. QED  BY <3>1, <3>4, <4>1, <4>3 DEF Facts
    <3>q. QED  BY <2>1, <3>3, <3>4
  <2>8. p \notin disturbed =>
          Facts(p, step[p] + 1, v, stack0[p], queue0[p], hash', array', stack', queue')
    BY <1>0, <1>2, <2>4, <2>7
  <2>q. QED  BY <1>0, <2>3, <2>5, <2>6, <2>8, ShowStep
<1>8. CASE At(p, "dequeue")
  <2>1. i = 16  BY <1>1, <1>2, <1>8, AtFacts DEF At
  <2>2. PICK z : z = bpf_map_pop_elem(q)  OBVIOUS
  <2>3. z \in Seq(Nat) /\ Len(z) <= Len(q) /\ (Len(q) >= 2 => z = Tail(q))
    BY <1>4, <2>2, PopFacts
  <2>4. queue' = z /\ saw' = saw /\ Advance(p, step[p])
    <3>1. ~At(p, "enqueue") /\ ~At(p, "enqueue_next") /\ ~At(p, "front") /\ ~At(p, "next_front")
      BY <1>1, <1>2, <2>1, AtFacts DEF At
    <3>q. QED  BY <1>2, <2>2, <3>1 DEF map_test_queue
  <2>5. MapsType'
    <3>1. Len(z) <= StackSize  BY <1>4, <2>3, MapTestAssumption
    <3>q. QED  BY <1>5, <2>3, <2>4, <3>1
  <2>6. p \notin disturbed => Facts(p, i + 1, w, m, f, hash, array, stack, z)
    <3> SUFFICES ASSUME p \notin disturbed
                 PROVE  Facts(p, i + 1, w, m, f, hash, array, stack, z)
      OBVIOUS
    <3>1. q = Filled(f, p)  BY <1>3, <2>1 DEF Facts
    <3>2. Len(q) = Len(f) + 2  BY <1>1, <1>4, <3>1, FilledFacts
    <3>3. z = Tail(q) /\ Len(f) + 2 <= StackSize  BY <1>4, <2>3, <3>2
    <3>q. QED  BY <2>1, <3>1, <3>3 DEF Facts
  <2>7. p \notin disturbed =>
          Facts(p, step[p] + 1, saw[p], stack0[p], queue0[p], hash', array', stack', queue')
    BY <1>0, <1>2, <2>4, <2>6
  <2>8. saw' = [saw EXCEPT ![p] = saw[p]]  BY <2>4, SawSame
  <2>q. QED  BY <1>0, <1>1, <2>4, <2>5, <2>7, <2>8, ShowStep
<1>q. QED  BY <1>6, <1>7, <1>8 DEF map_test_queue

\* The program returns, or the runtime ends it.
LEMMA EndStep ==
  ASSUME MapTestInv, NEW p \in Pids, return_test(p) \/ terminate_test(p)
  PROVE  MapTestInv'
<1>1. /\ step[p] # 0 /\ step' = [step EXCEPT ![p] = 0]
      /\ UNCHANGED <<hash, array, stack, queue, saw, runs, stack0, queue0, disturbed>>
  BY ScriptFacts DEF return_test, terminate_test
<1>2. PICK v : v = saw[p]  OBVIOUS
<1>3. v \in Int /\ MapsType  BY <1>1, <1>2, RunFacts
<1>4. MapsType'  BY <1>1, <1>3 DEF MapsType
<1>5. saw' = [saw EXCEPT ![p] = v]  BY <1>1, <1>2, SawSame
<1>6. PICK s : s = 0  OBVIOUS
<1>7. s \in 0 .. 18 /\ step' = [step EXCEPT ![p] = s]  BY <1>1, <1>6
<1>8. UNCHANGED <<runs, stack0, queue0, disturbed>>  BY <1>1
<1>9. p \notin disturbed /\ s # 0 => Facts(p, s, v, stack0[p], queue0[p], hash', array', stack', queue')
  BY <1>6
<1>q. QED  BY <1>1, <1>3, <1>4, <1>5, <1>7, <1>8, <1>9, OpStep

\* A run begins: alone, or it disturbs the others and is disturbed by them.
LEMMA BeginStep ==
  ASSUME MapTestInv, NEW p \in Pids, rex_prog1(p)
  PROVE  MapTestInv'
<1>0. MapTestType  BY DEF MapTestInv
<1>3. /\ step[p] = 0 /\ runs' = runs + 1
      /\ step' = [step EXCEPT ![p] = 1]
      /\ stack0' = [stack0 EXCEPT ![p] = stack] /\ queue0' = [queue0 EXCEPT ![p] = queue]
      /\ UNCHANGED <<hash, array, stack, queue, saw>>
  BY DEF rex_prog1
<1>4. /\ step' \in [Pids -> 0 .. 18] /\ step'[p] = 1
      /\ \A o \in Pids : o # p => step'[o] = step[o]
  BY <1>0, <1>3 DEF MapTestType
<1>5. /\ stack0' \in [Pids -> Seq(Nat)] /\ stack0'[p] = stack
      /\ queue0' \in [Pids -> Seq(Nat)] /\ queue0'[p] = queue
  BY <1>0, <1>3 DEF MapTestType
<1>6. MapTestType'
  <2>1. runs' \in Nat  BY <1>0, <1>3 DEF MapTestType
  <2>q. QED  BY <1>0, <1>3, <1>4, <1>5, <2>1 DEF MapTestType
<1>7. ASSUME NEW o \in Pids  PROVE RunInv(o)'
  <2> SUFFICES ASSUME step'[o] # 0, o \notin disturbed'
               PROVE  /\ \A r \in Pids : step'[r] # 0 => r = o
                      /\ Facts(o, step'[o], saw'[o], stack0'[o], queue0'[o], hash', array', stack', queue')
    BY DEF RunInv, Facts
  <2>1. CASE Running # {}
    <3>1. disturbed' = disturbed \cup Running \cup {p}  BY <2>1 DEF rex_prog1
    <3>2. o # p /\ o \notin Running  BY <3>1
    <3>q. QED  BY <1>4, <3>2 DEF Running
  <2>2. CASE Running = {}
    <3>1. \A r \in Pids : r # p => step'[r] = 0  BY <1>4, <2>2 DEF Running
    <3>2. o = p  BY <3>1
    <3>3. step'[o] = 1 /\ stack0'[o] = stack' /\ queue0'[o] = queue'
      BY <1>3, <1>4, <1>5, <3>2
    <3>4. Facts(o, step'[o], saw'[o], stack0'[o], queue0'[o], hash', array', stack', queue')
      BY <3>3 DEF Facts
    <3>q. QED  BY <3>1, <3>2, <3>4
  <2>q. QED  BY <2>1, <2>2
<1>q. QED  BY <1>6, <1>7 DEF MapTestInv

LEMMA MapTestStep == MapTestInv /\ MapTestNext => MapTestInv'
<1> SUFFICES ASSUME MapTestInv, MapTestNext PROVE MapTestInv'
  OBVIOUS
<1>1. PICK p \in Pids : \/ rex_prog1(p) \/ map_test_hash(p) \/ map_test_array(p)
                        \/ map_test_stack(p) \/ map_test_queue(p)
                        \/ return_test(p) \/ terminate_test(p)
  BY DEF MapTestNext
<1>q. QED  BY <1>1, BeginStep, HashStep, ArrayStep, StackStep, QueueStep, EndStep

LEMMA MapTestStart == MapTestInit => MapTestInv
<1> SUFFICES ASSUME MapTestInit PROVE MapTestInv
  OBVIOUS
<1>1. DOMAIN hash = {}  BY DEF MapTestInit, EmptyMap
<1>2. DOMAIN array = {0} /\ array[0] \in Int  BY DEF MapTestInit
<1>3. /\ stack \in Seq(Nat) /\ Len(stack) <= StackSize
      /\ queue \in Seq(Nat) /\ Len(queue) <= StackSize
  BY MapTestAssumption DEF MapTestInit
<1>4. /\ step \in [Pids -> 0 .. 18] /\ saw \in [Pids -> Int] /\ runs \in Nat
      /\ stack0 \in [Pids -> Seq(Nat)] /\ queue0 \in [Pids -> Seq(Nat)]
  BY DEF MapTestInit, NoValue
<1>5. \A p \in Pids : step[p] = 0  BY DEF MapTestInit
<1>6. MapTestType  BY <1>1, <1>2, <1>3, <1>4 DEF MapTestType
<1>q. QED  BY <1>5, <1>6 DEF MapTestInv, RunInv

LEMMA MapTestRest == MapTestInv /\ UNCHANGED mvars => MapTestInv'
<1> SUFFICES ASSUME MapTestInv, UNCHANGED mvars PROVE MapTestInv'
  OBVIOUS
<1>1. UNCHANGED <<hash, array, stack, queue, step, saw, runs, stack0, queue0, disturbed>>
  BY DEF mvars
<1>2. MapTestType'  BY <1>1 DEF MapTestInv, MapTestType
<1>3. ASSUME NEW p \in Pids  PROVE RunInv(p)'
  <2>1. RunInv(p)  BY DEF MapTestInv
  <2>q. QED  BY <1>1, <2>1 DEF RunInv, Facts
<1>q. QED  BY <1>2, <1>3 DEF MapTestInv

\* What a run has just printed is among what it has found.
LEMMA MapTestSafe == MapTestInv => RunAloneExact
<1> SUFFICES ASSUME MapTestInv, NEW p \in Pids \ disturbed, NEW q, q = Filled(queue0[p], p)
             PROVE  /\ After(p, "get_own") \/ After(p, "array_get") => saw[p] = p
                    /\ After(p, "get_none") => saw[p] = NoValue
                    /\ After(p, "top") => saw[p] = p + 1
                    /\ After(p, "next_top") =>
                         saw[p] = IF Len(stack0[p]) + 2 <= StackSize THEN p ELSE Failed
                    /\ After(p, "front") => saw[p] = q[1]
                    /\ After(p, "next_front") =>
                         saw[p] = IF Len(q) <= StackSize THEN q[2] ELSE Failed
  BY DEF RunAloneExact, Filled
<1>1. step[p] \in 0 .. 18  BY DEF MapTestInv, MapTestType
<1>2. CASE ~(step[p] > 1)  BY <1>2 DEF After
<1>3. CASE step[p] > 1
  <2>1. step[p] # 0 /\ step[p] - 1 \in 1 .. 17  BY <1>1, <1>3
  <2>2. Facts(p, step[p], saw[p], stack0[p], queue0[p], hash, array, stack, queue)
    BY <2>1, RunFacts
  <2>3. PICK s : s = step[p] - 1  OBVIOUS
  <2>4. s \in 1 .. 17 /\ step[p] = s + 1  BY <1>1, <2>1, <2>3
  <2>5. /\ (After(p, "get_own") => step[p] = 4) /\ (After(p, "get_none") => step[p] = 6)
        /\ (After(p, "array_get") => step[p] = 8) /\ (After(p, "top") => step[p] = 11)
        /\ (After(p, "next_top") => step[p] = 13) /\ (After(p, "front") => step[p] = 16)
        /\ (After(p, "next_front") => step[p] = 18)
    BY <2>3, <2>4, AtFacts DEF After
  <2>6. Len(q) = Len(queue0[p]) + 2
    <3>1. p \in Nat /\ queue0[p] \in Seq(Nat)  BY <2>1, RunFacts
    <3>q. QED  BY <3>1, FilledFacts
  <2>q. QED  BY <2>2, <2>5, <2>6 DEF Facts
<1>q. QED  BY <1>2, <1>3

-----------------------------------------------------------------------------
(***************************************************************************)
(* The four facilities together.  Only one of them is in use; the others   *)
(* rest, and a resting one keeps its invariant.                            *)
(***************************************************************************)
IInv == RingInv /\ LogInv /\ CountingInv /\ MapTestInv

(* The inductive invariant holds of every behaviour of the samples: the    *)
(* bookkeeping of the ring buffer, of the nested log buffers, of the       *)
(* counting programs' read-modify-write and of the operations of           *)
(* map_test_2.                                                             *)
THEOREM Invariance == Spec => []IInv
<1>1. Init => IInv
  BY RingStart, LogStart, CountingStart, MapTestStart DEF Init, IInv
<1>2. IInv /\ [Next]_svars => IInv'
  <2> SUFFICES ASSUME IInv, [Next]_svars PROVE IInv'
    OBVIOUS
  <2>1. CASE CountingNext /\ UNCHANGED <<mvars, rvars, lvars>>
    BY <2>1, CountingStep, MapTestRest, RingRest, LogRest DEF IInv
  <2>2. CASE MapTestNext /\ UNCHANGED <<cvars, rvars, lvars>>
    BY <2>2, CountingRest, MapTestStep, RingRest, LogRest DEF IInv
  <2>3. CASE RingNext /\ UNCHANGED <<cvars, mvars, lvars>>
    BY <2>3, CountingRest, MapTestRest, RingStep, LogRest DEF IInv
  <2>4. CASE LogNext /\ UNCHANGED <<cvars, mvars, rvars>>
    BY <2>4, CountingRest, MapTestRest, RingRest, LogStep DEF IInv
  <2>5. CASE UNCHANGED svars
    <3>1. UNCHANGED <<cvars, mvars, rvars, lvars>>  BY <2>5 DEF svars
    <3>q. QED  BY <3>1, CountingRest, MapTestRest, RingRest, LogRest DEF IInv
  <2>q. QED  BY <2>1, <2>2, <2>3, <2>4, <2>5 DEF Next
<1>q. QED  BY <1>1, <1>2, PTL DEF Spec

(* The consumer of the ring buffer gets exactly the records that were      *)
(* submitted, once each and in the order of their reservation, whatever    *)
(* the interleaving of reserve, submit, discard and abandoned records.     *)
THEOREM ReadersSeeOrder == Spec => []DeliveredInOrder
<1>1. IInv => DeliveredInOrder  BY DEF IInv, RingInv
<1>q. QED  BY <1>1, Invariance, PTL

(* The consumer reads from a text record what the calls of write_str that  *)
(* returned Ok wrote, whatever earlier records left in its place, and      *)
(* write_str panics only on a record of length zero.                       *)
THEOREM ReadersSeeText == Spec => []TextIntact
<1>1. IInv => TextIntact  BY DEF IInv, RingInv
<1>q. QED  BY <1>1, Invariance, PTL

(* From the log buffer, which rex_printk and the panic handler of a CPU    *)
(* share, the text of the message that was formatted is printed, whatever  *)
(* was in the buffer, and for a message formatted to nothing the text that *)
(* was written there last - unless that text is one whose Display began    *)
(* another message.                                                        *)
THEOREM PrintsAsWritten == Spec => []PrintedAsWritten
<1>1. IInv => PrintedAsWritten  BY DEF IInv, LogInv
<1>q. QED  BY <1>1, Invariance, PTL

(* A counter of a sample is never above the events counted, and it is the  *)
(* exact number unless two tasks worked on its key at the same time.       *)
THEOREM CountersExplained == Spec => []CountsExplained
<1>1. IInv => CountsExplained  BY CountingSafe DEF IInv
<1>q. QED  BY <1>1, Invariance, PTL

(* The start time that the exit program of syscount measures from is the   *)
(* one of that very call, unless its enter program was cut off.            *)
THEOREM MeasuredFromOwnStart == Spec => []StartIsOwn
<1>1. IInv => StartIsOwn  BY CountingSafe DEF IInv
<1>q. QED  BY <1>1, Invariance, PTL

(* What a run of map_test_2 that no other run overlapped prints is settled *)
(* by the stack and the queue it found: pid and pid + 1 from the queue     *)
(* when that was empty, and otherwise the oldest values of earlier runs;   *)
(* a failure of the stack or queue test when its values do not fit, and    *)
(* then only; its own values everywhere else.                              *)
THEOREM AloneRunsExact == Spec => []RunAloneExact
<1>1. IInv => RunAloneExact  BY MapTestSafe DEF IInv
<1>q. QED  BY <1>1, Invariance, PTL
=============================================================================
