------------------------------ MODULE RexPacket ------------------------------
(***************************************************************************)
(* The packet accessors of XDP and TC programs: the data slice made by     *)
(* convert_ctx, the header accessors built on convert_slice_to_struct_mut, *)
(* whose AlignedMut is a reference into the packet or, when the header is  *)
(* not aligned, a copy that is written back when it is dropped, the        *)
(* checksum over the IP header, and the two helpers that move or resize    *)
(* the packet under the slice.                                             *)
(*                                                                         *)
(* The packet is counted in 16-bit words, the unit of the checksum; a word *)
(* has Base values.  The borrow checker lets a program hold one header at  *)
(* a time and call no helper meanwhile.                                    *)
(***************************************************************************)
EXTENDS Integers, FiniteSets

CONSTANTS Base,       \* values of a word (65536 in the code)
          EthLen, IpLen, UdpLen, TcpLen,  \* header sizes in words
          CheckAt,    \* the word of the IP header that holds the checksum
          AlignOf,    \* alignment of each header type, in bytes
          Cap,        \* words of the buffer, data and tailroom
          Frames,     \* contents a packet may arrive with
          Lengths,    \* linear lengths a packet may arrive with
          Pages,      \* lengths of the non-linear part of an sk_buff
          MaxMoves,   \* bound: times the kernel moves the head
          MaxEdits    \* bound: words the program writes

Words  == 0 .. Cap - 1
Values == 0 .. Base - 1
Hdrs   == {"eth", "ip", "udp", "tcp"}

ASSUME BaseAssumption == Base \in Nat /\ Base > 2
ASSUME LayoutAssumption ==
  /\ {EthLen, IpLen, UdpLen, TcpLen} \subseteq Nat \ {0}
  /\ CheckAt \in 0 .. IpLen - 1
  /\ IpLen * (Base - 1) < Base * Base       \* the sum fits into two words, a u32
  /\ AlignOf \in [Hdrs -> {1, 2, 4}]
ASSUME FrameAssumption ==
  /\ Cap \in Nat /\ Frames \subseteq [Words -> Values]
  /\ Lengths \subseteq 0 .. Cap /\ Pages \subseteq Nat
  /\ MaxMoves \in Nat /\ MaxEdits \in Nat

VARIABLES prog,       \* "xdp" or "sched_cls"
          buf,        \* the linear part of the packet, as the kernel sees it
          addr,       \* the address of its first byte, modulo 4
          head,       \* how often the kernel has moved it
          lin,        \* its length: data_end - data, or len - data_len
          paged,      \* the length of the non-linear part: data_len
          slice,      \* data_slice: the head it points to and its length
          held,       \* the header the program holds, or "none"
          copy,       \* its copy, a function on its words; empty for a Ref
          pc,         \* "running", "returned" or "panicked"
          edits,      \* words written so far
          sealed,     \* history: the checksum was stored after the last edit
          redirects   \* history: results of bpf_clone_redirect so far

kernelVars == <<prog, addr, head, lin, paged>>
vars == <<prog, buf, addr, head, lin, paged, slice, held, copy, pc, edits,
          sealed, redirects>>
-----------------------------------------------------------------------------
Begin(h) == CASE h = "eth" -> 0
              [] h = "ip"  -> EthLen
              [] OTHER     -> EthLen + IpLen
Size(h)  == CASE h = "eth" -> EthLen
              [] h = "ip"  -> IpLen
              [] h = "udp" -> UdpLen
              [] OTHER     -> TcpLen
End(h)   == Begin(h) + Size(h)
HdrWords(h) == Begin(h) .. End(h) - 1

(* ptr.is_aligned() for the header type: the address is in bytes. *)
IsAligned(h) == (addr + 2 * Begin(h)) % AlignOf[h] = 0

NoCopy == [i \in {} |-> 0]

(* The packet as the program reads it: through the copy it holds, if any. *)
Deref == [i \in Words |-> IF i \in DOMAIN copy THEN copy[i] ELSE buf[i]]

(* The first n words of the slice are words of the packet.  The model does *)
(* not follow a program that uses a slice which has left its packet.       *)
Backed(n) == slice.head = head /\ n <= lin

(* from_raw_parts_mut over the kernel's data pointer. *)
SliceOf(hd, n) == [head |-> hd, len |-> n]

Init == /\ prog \in {"xdp", "sched_cls"}
        /\ lin \in Lengths
        /\ \E f \in Frames : buf = [i \in Words |-> IF i < lin THEN f[i] ELSE 0]
        /\ addr \in 0 .. 3
        /\ head = 0
        /\ paged \in IF prog = "xdp" THEN {0} ELSE Pages
        /\ slice = SliceOf(0, lin)                     \* convert_ctx
        /\ held = "none" /\ copy = NoCopy
        /\ pc = "running" /\ edits = 0
        /\ sealed = FALSE /\ redirects = {}
-----------------------------------------------------------------------------
(* eth_header, ip_header, udp_header, tcp_header: a reference where the    *)
(* header is aligned, else a copy of it (AlignedMut::from_ref, from_val).  *)
header(h) ==
  /\ pc = "running" /\ held = "none"
  /\ End(h) <= slice.len /\ Backed(End(h))
  /\ held' = h
  /\ copy' = IF IsAligned(h) THEN NoCopy ELSE [i \in HdrWords(h) |-> buf[i]]
  /\ UNCHANGED <<kernelVars, buf, slice, pc, edits, sealed, redirects>>

(* The range of the accessor does not fit into the slice: it panics. *)
header_out_of_range(h) ==
  /\ pc = "running" /\ held = "none"
  /\ End(h) > slice.len
  /\ pc' = "panicked"
  /\ UNCHANGED <<kernelVars, buf, slice, held, copy, edits, sealed, redirects>>

(* A store through deref_mut: into the packet, or into the copy. *)
Store(f) == IF copy = NoCopy
            THEN /\ buf' = [i \in Words |-> IF i \in DOMAIN f THEN f[i] ELSE buf[i]]
                 /\ UNCHANGED copy
            ELSE /\ copy' = [i \in DOMAIN copy |-> IF i \in DOMAIN f THEN f[i] ELSE copy[i]]
                 /\ UNCHANGED buf

deref_mut(i, v) ==
  /\ pc = "running" /\ held # "none" /\ i \in HdrWords(held)
  /\ edits < MaxEdits /\ edits' = edits + 1
  /\ Store([j \in {i} |-> v])
  /\ sealed' = (sealed /\ i \notin HdrWords("ip"))
  /\ UNCHANGED <<kernelVars, slice, held, pc, redirects>>

(* compute_ip_checksum: the words are added up with the checksum set to 0, *)
(* the carry is added once, and the complement is cut to one word.         *)
SumOf(w) == LET sum[n \in 0 .. IpLen] == IF n = 0 THEN 0 ELSE sum[n - 1] + w[n - 1]
            IN  sum[IpLen]
IpWords(p) == [i \in 0 .. IpLen - 1 |-> p[EthLen + i]]
Cleared(p) == [i \in 0 .. IpLen - 1 |-> IF i = CheckAt THEN 0 ELSE p[EthLen + i]]
Fold(s) == (s % Base) + (s \div Base)
\* Faulty variant: the carries are cut off instead of added.
ComputeNoFold(p) == Base - 1 - (SumOf(Cleared(p)) % Base)
compute_ip_checksum(p) == Base - 1 - (Fold(SumOf(Cleared(p))) % Base)

(* ip_header.check = compute_ip_checksum(ip_header), as the samples do. *)
store_checksum ==
  /\ pc = "running" /\ held = "ip"
  /\ edits < MaxEdits /\ edits' = edits + 1
  /\ Store([j \in {EthLen + CheckAt} |-> compute_ip_checksum(Deref)])
  /\ sealed' = TRUE
  /\ UNCHANGED <<kernelVars, slice, held, pc, redirects>>

\* Faulty variant: the copy is not written back.
DropNoWriteBack ==
  /\ pc = "running" /\ held # "none"
  /\ held' = "none" /\ copy' = NoCopy
  /\ UNCHANGED <<kernelVars, buf, slice, pc, edits, sealed, redirects>>

(* The header goes out of scope: a copy is written back over the slice. *)
drop_header ==
  /\ pc = "running" /\ held # "none"
  /\ buf' = Deref
  /\ held' = "none" /\ copy' = NoCopy
  /\ UNCHANGED <<kernelVars, slice, pc, edits, sealed, redirects>>

(* data_slice[i] = v, while no header borrows the slice. *)
slice_write(i, v) ==
  /\ pc = "running" /\ held = "none"
  /\ i < slice.len /\ Backed(i + 1)
  /\ edits < MaxEdits /\ edits' = edits + 1
  /\ buf' = [buf EXCEPT ![i] = v]
  /\ sealed' = (sealed /\ i \notin HdrWords("ip"))
  /\ UNCHANGED <<kernelVars, slice, held, copy, pc, redirects>>

\* Faulty variant: the slice is not made anew.
AdjustTailStaleSlice(n) ==
  /\ pc = "running" /\ prog = "xdp" /\ held = "none"
  /\ n \in EthLen .. Cap
  /\ lin' = n
  /\ buf' = [i \in Words |-> IF i < lin /\ i < n THEN buf[i] ELSE 0]
  /\ sealed' = (sealed /\ End("ip") <= n)
  /\ UNCHANGED <<prog, addr, head, paged, slice, held, copy, pc, edits, redirects>>

(* The kernel moves data_end, not below an Ethernet header, and clears the *)
(* words it adds; the slice is made anew.  An error changes nothing.       *)
bpf_xdp_adjust_tail(n) ==
  /\ pc = "running" /\ prog = "xdp" /\ held = "none"
  /\ n \in EthLen .. Cap
  /\ lin' = n
  /\ buf' = [i \in Words |-> IF i < lin /\ i < n THEN buf[i] ELSE 0]
  /\ slice' = SliceOf(head, n)
  /\ sealed' = (sealed /\ End("ip") <= n)
  /\ UNCHANGED <<prog, addr, head, paged, held, copy, pc, edits, redirects>>

(* The kernel may move the head: the clone keeps the old one. *)
MayMoveHead == \/ UNCHANGED <<head, addr>>
               \/ /\ head < MaxMoves
                  /\ head' = head + 1
                  /\ addr' \in 0 .. 3

(* On success the slice is made anew, with the length of the whole packet. *)
bpf_clone_redirect ==
  /\ pc = "running" /\ prog = "sched_cls" /\ held = "none"
  /\ MayMoveHead
  /\ slice' = SliceOf(head', lin + paged)
  /\ redirects' = redirects \cup {"ok"}
  /\ UNCHANGED <<prog, buf, lin, paged, held, copy, pc, edits, sealed>>

(* On an error it is left alone, whatever the kernel did before it failed. *)
bpf_clone_redirect_err ==
  /\ pc = "running" /\ prog = "sched_cls" /\ held = "none"
  /\ MayMoveHead
  /\ redirects' = redirects \cup {"err"}
  /\ UNCHANGED <<prog, buf, lin, paged, slice, held, copy, pc, edits, sealed>>

(* The program returns; headers have gone out of scope before. *)
return ==
  /\ pc = "running" /\ held = "none"
  /\ pc' = "returned"
  /\ UNCHANGED <<kernelVars, buf, slice, held, copy, edits, sealed, redirects>>

(* A panic or the watchdog ends the program anywhere, and no drop handler  *)
(* runs: a header that is held as a copy is lost.                          *)
panic ==
  /\ pc = "running"
  /\ pc' = "panicked"
  /\ held' = "none" /\ copy' = NoCopy
  /\ UNCHANGED <<kernelVars, buf, slice, edits, sealed, redirects>>

Next == \/ \E h \in Hdrs : header(h) \/ header_out_of_range(h)
        \/ \E i \in Words, v \in Values : deref_mut(i, v) \/ slice_write(i, v)
        \/ store_checksum \/ drop_header
        \/ \E n \in Words \cup {Cap} : bpf_xdp_adjust_tail(n)
        \/ bpf_clone_redirect \/ bpf_clone_redirect_err
        \/ return \/ panic

Spec == Init /\ [][Next]_vars
-----------------------------------------------------------------------------
(* Shape of the state. *)
TypeOK == /\ prog \in {"xdp", "sched_cls"}
          /\ buf \in [Words -> Values]
          /\ addr \in 0 .. 3 /\ head \in 0 .. MaxMoves
          /\ lin \in 0 .. Cap /\ paged \in Pages \cup {0}
          /\ slice \in [head : 0 .. MaxMoves, len : Nat]
          /\ held \in Hdrs \cup {"none"}
          /\ \/ copy = NoCopy
             \/ held # "none" /\ copy \in [HdrWords(held) -> Values]
          /\ pc \in {"running", "returned", "panicked"}
          /\ edits \in 0 .. MaxEdits
          /\ sealed \in BOOLEAN /\ redirects \subseteq {"ok", "err"}

(* The slice a program holds lies within the linear part of the packet at  *)
(* its present address, and a header held through it is too, whatever the  *)
(* helpers did - but for two cases the code leaves open: a failed          *)
(* bpf_clone_redirect returns before the slice is made anew, and a         *)
(* successful one measures it with len() although part of a non-linear     *)
(* sk_buff is elsewhere.                                                   *)
SliceInPacket ==
  pc = "running" =>
    /\ slice.head # head => "err" \in redirects
    /\ slice.len > lin => "ok" \in redirects /\ paged > 0
    /\ held # "none" => Backed(End(held))

(* A receiver adds all words with every carry and compares with all ones. *)
FoldAll(s) == IF s = 0 THEN 0 ELSE 1 + ((s - 1) % (Base - 1))
Accepted == FoldAll(SumOf(IpWords(buf))) = Base - 1

(* A packet whose checksum was stored after the last edit of its IP header *)
(* leaves with a checksum the receiver accepts - also when the header was  *)
(* a copy - exactly when adding the carry did not carry again.             *)
ChecksumAccepted ==
  pc = "returned" /\ sealed =>
    (Accepted <=> Fold(SumOf(Cleared(buf))) < Base)

Plain == INSTANCE PlainPacket WITH
           pkt <- Deref, kept <- buf, stores <- edits, ended <- pc # "running",
           Headers <- {HdrWords(h) : h \in Hdrs} \cup {{i} : i \in Words}

(* Behind references, copies and write-backs the program edits a packet in *)
(* place, and the kernel gets all it wrote when it returns.                *)
ImplementsPlainPacket == Plain!Spec
=============================================================================
