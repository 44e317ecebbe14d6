---------------------------- MODULE LibrexProofs ----------------------------
(***************************************************************************)
(* Proofs about Librex, for any number of threads, loads and descriptors   *)
(* and any images.                                                         *)
(*                                                                         *)
(* The argument is per object.  The fields of an object and the entries of *)
(* the descriptor table that name it agree, in both directions; how much   *)
(* of the object is there follows from where its thread is; and a step of  *)
(* one thread leaves the objects of the others as they are.                *)
(***************************************************************************)
EXTENDS Librex, TLAPS

USE LibrexAssumption

-----------------------------------------------------------------------------
(***************************************************************************)
(* The inductive invariant.                                                *)
(***************************************************************************)
Files  == {"file", "tmp"}
Labels == {"idle", "file", "parse", "fix_maps", "write", "open", "base", "close_tmp",
           "remove", "progs", "close_progs", "close_base", "dtor", "dtor_members", "push"}

NoMaps(o)   == \A m \in MapIds : map_fd[o][m] = NoFd
NoProgs(o)  == \A p \in NrProgs : prog_fds[o][p] = NoFd
AllMaps(o)  == \A m \in parse_maps(image[o]) : map_fd[o][m] # NoFd
AllProgs(o) == \A p \in DOMAIN parse_progs(image[o]) : prog_fds[o][p] # NoFd
NoFiles(o)  == \A f \in Fds : ~(fdtab[f].obj = o /\ fdtab[f].kind \in Files)

\* f is the only file object o has open.
OnlyFile(o, f, k) ==
  /\ f \in Fds /\ fdtab[f] = Own(o, k, 0)
  /\ \A g \in Fds : fdtab[g].obj = o /\ fdtab[g].kind \in Files => g = f

\* The fields of an object and the descriptor table agree.
MapSlots(o) ==
  /\ \A m \in MapIds : map_fd[o][m] # NoFd =>
       fdtab[map_fd[o][m]] = Own(o, "map", m) /\ m \in parse_maps(image[o])
  /\ \A f \in Fds : fdtab[f].obj = o /\ fdtab[f].kind = "map" =>
       fdtab[f].i \in MapIds /\ map_fd[o][fdtab[f].i] = f

ProgSlots(o) ==
  /\ \A p \in NrProgs : prog_fds[o][p] # NoFd =>
       fdtab[prog_fds[o][p]] = Own(o, "prog", p) /\ p \in DOMAIN parse_progs(image[o])
  /\ \A f \in Fds : fdtab[f].obj = o /\ fdtab[f].kind = "prog" =>
       fdtab[f].i \in NrProgs /\ prog_fds[o][fdtab[f].i] = f

BaseSlot(o) ==
  /\ prog_fd[o] # NoFd => fdtab[prog_fd[o]] = Own(o, "base", 0)
  /\ \A f \in Fds : fdtab[f].obj = o /\ fdtab[f].kind = "base" =>
       fdtab[f].i = 0 /\ prog_fd[o] = f

\* Only the application's and the free descriptors are of no object.
NoOther(o) == \A f \in Fds : fdtab[f].obj = o => fdtab[f].kind \notin {"free", "app"}

SlotInv(o) == MapSlots(o) /\ ProgSlots(o) /\ BaseSlot(o) /\ NoOther(o)

\* An object that no thread is loading.
FateInv(o) ==
  /\ fate[o] \in {"unused", "gone"} => NoMaps(o) /\ NoProgs(o) /\ prog_fd[o] = NoFd
  /\ fate[o] = "kept" => AllMaps(o) /\ AllProgs(o) /\ prog_fd[o] # NoFd
  /\ fate[o] \in {"unused", "kept"} => NoFiles(o)

Handle(o) == [maps  |-> {<<m, map_fd[o][m]>> : m \in parse_maps(image[o])},
              progs |-> {<<p, prog_fds[o][p]>> : p \in DOMAIN parse_progs(image[o])}]
HandleInv(o) ==
  bpf_obj_ptr[o] = Nothing \/ (fate[o] = "kept" /\ bpf_obj_ptr[o] = Handle(o))

ObjInv(o) ==
  SlotInv(o) /\ FateInv(o) /\ HandleInv(o)

\* What is there of object o when its thread is at l, with local descriptor f.
Stage(l, o, f) ==
  /\ l \in {"file", "parse"} => NoMaps(o)
  /\ l \in {"file", "parse", "fix_maps", "write", "open", "base"} => prog_fd[o] = NoFd
  /\ l \in {"file", "parse", "fix_maps", "write", "open", "base", "close_tmp",
                "remove"} => NoProgs(o)
  /\ l \in {"write", "open", "base", "close_tmp", "remove", "progs", "push"} =>
       AllMaps(o)
  /\ l \in {"close_tmp", "remove", "progs", "push"} => prog_fd[o] # NoFd
  /\ l = "push" => AllProgs(o)
  /\ l = "dtor_members" => prog_fd[o] = NoFd
  /\ l = "file" => OnlyFile(o, f, "file")
  /\ l \in {"base", "close_tmp"} => OnlyFile(o, f, "tmp")
  /\ l \in {"parse", "fix_maps", "write", "open", "remove", "progs", "push"} =>
       NoFiles(o)

\* The temporary file of a thread holds its object, or one that is gone.
TmpInv(t) ==
  tmp_file[t] \in Loads =>
    \/ fate[tmp_file[t]] = "gone"
    \/ /\ pc[t] \in {"open", "base", "close_tmp", "remove", "dtor", "dtor_members"}
       /\ cur[t] = tmp_file[t]

ThreadInv(t) ==
  /\ pc[t] # "idle" => cur[t] \in Loads /\ fate[cur[t]] = "loading" /\ Stage(pc[t], cur[t], fd[t])
  /\ TmpInv(t)

OneThreadEach ==
  \A t, u \in Threads : pc[t] # "idle" /\ pc[u] # "idle" /\ cur[t] = cur[u] => t = u

IInv ==
  /\ TypeOK /\ ~stray /\ OneThreadEach
  /\ \A o \in Loads : ObjInv(o)
  /\ \A t \in Threads : ThreadInv(t)

-----------------------------------------------------------------------------
(***************************************************************************)
(* The descriptor table.                                                   *)
(***************************************************************************)
LEMMA OwnFacts ==
  /\ \A o, k, i : Own(o, k, i).obj = o /\ Own(o, k, i).kind = k /\ Own(o, k, i).i = i
  /\ Free.obj = NoLoad /\ App.obj = NoLoad
BY DEF Own, Free, App

LEMMA OwnersFacts ==
  /\ Free \in Owners /\ App \in Owners
  /\ \A o \in Loads : /\ Own(o, "base", 0) \in Owners
                      /\ \A k \in Files : Own(o, k, 0) \in Owners
                      /\ \A m \in MapIds : Own(o, "map", m) \in Owners
                      /\ \A p \in NrProgs : Own(o, "prog", p) \in Owners
  /\ \A w \in Owners : w = Own(w.obj, w.kind, w.i)
BY DEF Own, Free, App, Owners, Files

LEMMA ImageFacts ==
  ASSUME TypeOK, NEW o \in Loads
  PROVE  parse_maps(image[o]) \subseteq MapIds /\ DOMAIN parse_progs(image[o]) \subseteq NrProgs
BY DEF TypeOK, MapIds, NrProgs

\* The descriptors of one kind that an object has stay as they are.
TableSame(o, k) ==
  \A f \in Fds : \/ fdtab[f].obj = o /\ fdtab[f].kind = k
                 \/ fdtab'[f].obj = o /\ fdtab'[f].kind = k
                 => fdtab'[f] = fdtab[f]

\* A descriptor is taken from, or given back to, the free ones.
Taken(f, w) == /\ f \in Fds /\ fdtab[f] = Free
               /\ fdtab' = [fdtab EXCEPT ![f] = w]
Given(f, w) == /\ f \in Fds /\ fdtab[f] = w
               /\ fdtab' = [fdtab EXCEPT ![f] = Free]

LEMMA AllocTakes ==
  ASSUME NEW f \in Fds, NEW w, Alloc(f, w)
  PROVE  Taken(f, w)
BY DEF Alloc, FreeFds, Taken

LEMMA CloseGives ==
  ASSUME NEW f \in Fds, NEW w, Close(f, w), fdtab[f] = w, ~stray
  PROVE  Given(f, w) /\ ~stray' /\ stray' \in BOOLEAN
<1>1. f # NoFd  OBVIOUS
<1>2. fdtab' = [fdtab EXCEPT ![f] = Free] /\ stray' = (stray \/ fdtab[f] # w)
  BY <1>1 DEF Close
<1>3. stray' = FALSE  BY <1>2
<1>q. QED  BY <1>2, <1>3 DEF Given

LEMMA TableStep ==
  ASSUME TypeOK, NEW f, NEW w, Taken(f, w) \/ Given(f, w)
  PROVE  /\ f \in Fds
         /\ w \in Owners => fdtab' \in [Fds -> Owners]
         /\ \A g \in Fds : g # f => fdtab'[g] = fdtab[g]
         /\ Taken(f, w) => fdtab[f] = Free /\ fdtab'[f] = w
         /\ Given(f, w) => fdtab[f] = w /\ fdtab'[f] = Free
         /\ \A o \in Loads : \A k : o # w.obj \/ k # w.kind => TableSame(o, k)
<1>0. fdtab \in [Fds -> Owners] /\ f \in Fds  BY DEF TypeOK, Taken, Given
<1>1. /\ w \in Owners => fdtab' \in [Fds -> Owners]
      /\ \A g \in Fds : g # f => fdtab'[g] = fdtab[g]
      /\ Taken(f, w) => fdtab[f] = Free /\ fdtab'[f] = w
      /\ Given(f, w) => fdtab[f] = w /\ fdtab'[f] = Free
  BY <1>0, OwnersFacts DEF Taken, Given
<1>2. ASSUME NEW o \in Loads, NEW k, o # w.obj \/ k # w.kind  PROVE TableSame(o, k)
  <2> SUFFICES ASSUME NEW g \in Fds,
                      \/ fdtab[g].obj = o /\ fdtab[g].kind = k
                      \/ fdtab'[g].obj = o /\ fdtab'[g].kind = k
               PROVE  fdtab'[g] = fdtab[g]
    BY DEF TableSame
  <2>1. CASE g # f  BY <1>1, <2>1
  <2>2. CASE g = f
    <3>1. Free.obj # o  BY OwnFacts
    <3>q. QED  BY <1>1, <1>2, <2>2, <3>1
  <2>q. QED  BY <2>1, <2>2
<1>q. QED  BY <1>0, <1>1, <1>2

LEMMA TableKept ==
  ASSUME UNCHANGED fdtab
  PROVE  \A o, k : TableSame(o, k)
BY DEF TableSame

\* What depends only on descriptors that stay.
LEMMA SlotsKept ==
  ASSUME NEW o \in Loads, image' = image
  PROVE  /\ MapSlots(o) /\ TableSame(o, "map") /\ map_fd'[o] = map_fd[o] /\ TypeOK => MapSlots(o)'
         /\ ProgSlots(o) /\ TableSame(o, "prog") /\ prog_fds'[o] = prog_fds[o] /\ TypeOK => ProgSlots(o)'
         /\ BaseSlot(o) /\ TableSame(o, "base") /\ prog_fd'[o] = prog_fd[o] /\ TypeOK => BaseSlot(o)'
         /\ NoFiles(o) /\ TableSame(o, "file") /\ TableSame(o, "tmp") => NoFiles(o)'
         /\ NoOther(o) /\ TableSame(o, "free") /\ TableSame(o, "app") => NoOther(o)'
<1>1. ASSUME MapSlots(o), TableSame(o, "map"), map_fd'[o] = map_fd[o], TypeOK  PROVE MapSlots(o)'
  <2>1. \A m \in MapIds : map_fd[o][m] \in Fds \cup {NoFd}  BY <1>1 DEF TypeOK
  <2>2. ASSUME NEW m \in MapIds, map_fd'[o][m] # NoFd
        PROVE  fdtab'[map_fd'[o][m]] = Own(o, "map", m) /\ m \in parse_maps(image[o])'
    <3>1. /\ map_fd[o][m] \in Fds /\ fdtab[map_fd[o][m]] = Own(o, "map", m)
          /\ m \in parse_maps(image[o])
      BY <1>1, <2>1, <2>2 DEF MapSlots
    <3>2. fdtab[map_fd[o][m]].obj = o /\ fdtab[map_fd[o][m]].kind = "map"
      BY <3>1, OwnFacts
    <3>3. fdtab'[map_fd[o][m]] = fdtab[map_fd[o][m]]  BY <1>1, <3>1, <3>2 DEF TableSame
    <3>q. QED  BY <1>1, <3>1, <3>3 DEF parse_maps
  <2>3. ASSUME NEW f \in Fds, fdtab'[f].obj = o, fdtab'[f].kind = "map"
        PROVE  fdtab'[f].i \in MapIds /\ map_fd'[o][fdtab'[f].i] = f
    BY <1>1, <2>3 DEF TableSame, MapSlots
  <2>q. QED  BY <2>2, <2>3 DEF MapSlots
<1>2. ASSUME ProgSlots(o), TableSame(o, "prog"), prog_fds'[o] = prog_fds[o], TypeOK
      PROVE  ProgSlots(o)'
  <2>1. \A p \in NrProgs : prog_fds[o][p] \in Fds \cup {NoFd}  BY <1>2 DEF TypeOK
  <2>2. ASSUME NEW p \in NrProgs, prog_fds'[o][p] # NoFd
        PROVE  /\ fdtab'[prog_fds'[o][p]] = Own(o, "prog", p)
               /\ p \in DOMAIN parse_progs(image[o])'
    <3>1. /\ prog_fds[o][p] \in Fds /\ fdtab[prog_fds[o][p]] = Own(o, "prog", p)
          /\ p \in DOMAIN parse_progs(image[o])
      BY <1>2, <2>1, <2>2 DEF ProgSlots
    <3>2. fdtab[prog_fds[o][p]].obj = o /\ fdtab[prog_fds[o][p]].kind = "prog"
      BY <3>1, OwnFacts
    <3>3. fdtab'[prog_fds[o][p]] = fdtab[prog_fds[o][p]]  BY <1>2, <3>1, <3>2 DEF TableSame
    <3>4. parse_progs(image[o])' = parse_progs(image[o])  OBVIOUS
    <3>q. QED  BY <1>2, <3>1, <3>3, <3>4
  <2>3. ASSUME NEW f \in Fds, fdtab'[f].obj = o, fdtab'[f].kind = "prog"
        PROVE  fdtab'[f].i \in NrProgs /\ prog_fds'[o][fdtab'[f].i] = f
    BY <1>2, <2>3 DEF TableSame, ProgSlots
  <2>q. QED  BY <2>2, <2>3 DEF ProgSlots
<1>3. ASSUME BaseSlot(o), TableSame(o, "base"), prog_fd'[o] = prog_fd[o], TypeOK  PROVE BaseSlot(o)'
  <2>1. prog_fd[o] \in Fds \cup {NoFd}  BY <1>3 DEF TypeOK
  <2>2. ASSUME prog_fd'[o] # NoFd  PROVE fdtab'[prog_fd'[o]] = Own(o, "base", 0)
    BY <1>3, <2>1, <2>2, OwnFacts DEF BaseSlot, TableSame
  <2>3. ASSUME NEW f \in Fds, fdtab'[f].obj = o, fdtab'[f].kind = "base"
        PROVE  fdtab'[f].i = 0 /\ prog_fd'[o] = f
    BY <1>3, <2>3 DEF TableSame, BaseSlot
  <2>q. QED  BY <2>2, <2>3 DEF BaseSlot
<1>4. NoFiles(o) /\ TableSame(o, "file") /\ TableSame(o, "tmp") => NoFiles(o)'
  BY DEF NoFiles, Files, TableSame
<1>5. NoOther(o) /\ TableSame(o, "free") /\ TableSame(o, "app") => NoOther(o)'
  BY DEF NoOther, TableSame
<1>q. QED  BY <1>1, <1>2, <1>3, <1>4, <1>5

-----------------------------------------------------------------------------
(***************************************************************************)
(* A step of one thread on one object.                                     *)
(***************************************************************************)
\* Nothing of object o changes hands.
Same(o) == /\ map_fd'[o] = map_fd[o] /\ prog_fds'[o] = prog_fds[o] /\ prog_fd'[o] = prog_fd[o]
           /\ \A k : TableSame(o, k)

LEMMA PartsFrame ==
  ASSUME NEW o \in Loads, image' = image, Same(o)
  PROVE  /\ NoMaps(o)' <=> NoMaps(o)
         /\ NoProgs(o)' <=> NoProgs(o)
         /\ AllMaps(o)' <=> AllMaps(o)
         /\ AllProgs(o)' <=> AllProgs(o)
         /\ NoFiles(o) => NoFiles(o)'
         /\ \A f, k : OnlyFile(o, f, k) /\ k \in Files => OnlyFile(o, f, k)'
<1>1. NoMaps(o)' <=> NoMaps(o)  BY DEF NoMaps, Same
<1>2. NoProgs(o)' <=> NoProgs(o)  BY DEF NoProgs, Same
<1>3. AllMaps(o)' <=> AllMaps(o)
  <2>1. parse_maps(image[o])' = parse_maps(image[o])  OBVIOUS
  <2>q. QED  BY <2>1 DEF AllMaps, Same
<1>4. AllProgs(o)' <=> AllProgs(o)
  <2>1. parse_progs(image[o])' = parse_progs(image[o])  OBVIOUS
  <2>q. QED  BY <2>1 DEF AllProgs, Same
<1>5. NoFiles(o) => NoFiles(o)'  BY SlotsKept DEF Same
<1>6. ASSUME NEW f, NEW k, OnlyFile(o, f, k), k \in Files  PROVE OnlyFile(o, f, k)'
  <2>1. f \in Fds /\ fdtab[f].obj = o /\ fdtab[f].kind = k  BY <1>6, OwnFacts DEF OnlyFile
  <2>2. fdtab'[f] = fdtab[f]  BY <2>1 DEF Same, TableSame
  <2>3. ASSUME NEW g \in Fds, fdtab'[g].obj = o, fdtab'[g].kind \in Files  PROVE g = f
    <3>1. TableSame(o, fdtab'[g].kind)  BY DEF Same
    <3>2. fdtab'[g] = fdtab[g]  BY <2>3, <3>1 DEF TableSame
    <3>q. QED  BY <1>6, <2>3, <3>2 DEF OnlyFile
  <2>q. QED  BY <1>6, <2>1, <2>2, <2>3 DEF OnlyFile
<1>q. QED  BY <1>1, <1>2, <1>3, <1>4, <1>5, <1>6

LEMMA SlotFrame ==
  ASSUME TypeOK, NEW o \in Loads, image' = image, Same(o), SlotInv(o)
  PROVE  SlotInv(o)'
<1>1. MapSlots(o)'  BY SlotsKept DEF SlotInv, Same
<1>2. ProgSlots(o)'  BY SlotsKept DEF SlotInv, Same
<1>3. BaseSlot(o)'  BY SlotsKept DEF SlotInv, Same
<1>4. NoOther(o)'  BY SlotsKept DEF SlotInv, Same
<1>q. QED  BY <1>1, <1>2, <1>3, <1>4 DEF SlotInv

LEMMA StageFrame ==
  ASSUME NEW o \in Loads, image' = image, Same(o), NEW l, NEW f, Stage(l, o, f)
  PROVE  Stage(l, o, f)'
<1>1. prog_fd'[o] = prog_fd[o] /\ "file" \in Files /\ "tmp" \in Files  BY DEF Same, Files
<1>q. QED  BY <1>1, PartsFrame DEF Stage

LEMMA ObjFrame ==
  ASSUME TypeOK, NEW o \in Loads, image' = image, Same(o), ObjInv(o),
         fate'[o] = fate[o], bpf_obj_ptr'[o] = bpf_obj_ptr[o]
  PROVE  ObjInv(o)'
<1>1. SlotInv(o)'  BY SlotFrame DEF ObjInv
<1>2. FateInv(o)'
  <2>1. prog_fd'[o] = prog_fd[o]  BY DEF Same
  <2>q. QED  BY <2>1, PartsFrame DEF ObjInv, FateInv
<1>3. HandleInv(o)'
  <2>1. parse_maps(image[o])' = parse_maps(image[o])  OBVIOUS
  <2>2. parse_progs(image[o])' = parse_progs(image[o])  OBVIOUS
  <2>3. Handle(o)' = Handle(o)  BY <2>1, <2>2 DEF Handle, Same
  <2>q. QED  BY <2>3 DEF ObjInv, HandleInv
<1>q. QED  BY <1>1, <1>2, <1>3 DEF ObjInv

LEMMA ThreadFrame ==
  ASSUME NEW u \in Threads, image' = image, ThreadInv(u),
         pc'[u] = pc[u], cur'[u] = cur[u], fd'[u] = fd[u], tmp_file'[u] = tmp_file[u],
         pc[u] # "idle" => Same(cur[u]) /\ fate'[cur[u]] = fate[cur[u]],
         tmp_file[u] \in Loads /\ fate[tmp_file[u]] = "gone" => fate'[tmp_file[u]] = "gone"
  PROVE  ThreadInv(u)'
<1>1. TmpInv(u)'  BY DEF ThreadInv, TmpInv
<1>2. ASSUME pc'[u] # "idle"
      PROVE  (cur[u] \in Loads /\ fate[cur[u]] = "loading" /\ Stage(pc[u], cur[u], fd[u]))'
  <2>a. PICK o \in Loads : o = cur[u]  BY <1>2 DEF ThreadInv
  <2>b. PICK l : l = pc[u]  OBVIOUS
  <2>c. PICK f : f = fd[u]  OBVIOUS
  <2>1. o \in Loads /\ o = cur[u] /\ l = pc[u] /\ f = fd[u]  BY <2>a, <2>b, <2>c
  <2>2. Stage(l, o, f)'  BY <1>2, <2>1, StageFrame DEF ThreadInv
  <2>3. Stage(pc[u], cur[u], fd[u])'  BY <2>1, <2>2 DEF Stage
  <2>q. QED  BY <1>2, <2>3 DEF ThreadInv
<1>q. QED  BY <1>1, <1>2 DEF ThreadInv

\* The other threads and the other objects stay as they are.
Others(t, o) ==
  /\ image' = image
  /\ \A u \in Threads : u # t => /\ pc'[u] = pc[u] /\ cur'[u] = cur[u] /\ fd'[u] = fd[u]
                                 /\ tmp_file'[u] = tmp_file[u]
  /\ \A q \in Loads : q # o => /\ Same(q) /\ fate'[q] = fate[q]
                               /\ bpf_obj_ptr'[q] = bpf_obj_ptr[q]

LEMMA LoadStep ==
  ASSUME IInv, TypeOK', ~stray', NEW t \in Threads, NEW o \in Loads,
         \/ fate[o] = "unused"
         \/ pc[t] # "idle" /\ cur[t] = o,
         Others(t, o), ObjInv(o)', ThreadInv(t)', pc'[t] # "idle" => cur'[t] = o
  PROVE  IInv'
<1>1. ASSUME NEW u \in Threads, u # t, pc[u] # "idle"  PROVE cur[u] \in Loads /\ cur[u] # o
  <2>1. cur[u] \in Loads /\ fate[cur[u]] = "loading"  BY <1>1 DEF IInv, ThreadInv
  <2>2. CASE fate[o] = "unused"  BY <2>1, <2>2
  <2>3. CASE pc[t] # "idle" /\ cur[t] = o  BY <1>1, <2>1, <2>3 DEF IInv, OneThreadEach
  <2>q. QED  BY <2>1, <2>2, <2>3
<1>2. fate[o] # "gone"  BY DEF IInv, ThreadInv
<1>3. \A q \in Loads : ObjInv(q)'
  <2> SUFFICES ASSUME NEW q \in Loads, q # o  PROVE ObjInv(q)'  OBVIOUS
  <2>q. QED  BY ObjFrame DEF Others, IInv
<1>4. \A u \in Threads : ThreadInv(u)'
  <2> SUFFICES ASSUME NEW u \in Threads, u # t  PROVE ThreadInv(u)'  OBVIOUS
  <2>1. pc'[u] = pc[u] /\ cur'[u] = cur[u] /\ fd'[u] = fd[u] /\ tmp_file'[u] = tmp_file[u]
    BY DEF Others
  <2>2. pc[u] # "idle" => Same(cur[u]) /\ fate'[cur[u]] = fate[cur[u]]
    BY <1>1 DEF Others
  <2>3. tmp_file[u] \in Loads /\ fate[tmp_file[u]] = "gone" => fate'[tmp_file[u]] = "gone"
    BY <1>2 DEF Others
  <2>4. ThreadInv(u) /\ image' = image  BY DEF IInv, Others
  <2>q. QED  BY <2>1, <2>2, <2>3, <2>4, ThreadFrame
<1>5. OneThreadEach'
  <2> SUFFICES ASSUME NEW u \in Threads, NEW v \in Threads,
                      pc'[u] # "idle", pc'[v] # "idle", cur'[u] = cur'[v]
               PROVE  u = v
    BY DEF OneThreadEach
  <2>1. \A w \in Threads : w # t => pc'[w] = pc[w] /\ cur'[w] = cur[w]  BY DEF Others
  <2>2. CASE u # t /\ v # t  BY <2>1, <2>2 DEF IInv, OneThreadEach
  <2>3. CASE u = t /\ v # t  BY <1>1, <2>1, <2>3
  <2>4. CASE u # t /\ v = t  BY <1>1, <2>1, <2>4
  <2>q. QED  BY <2>2, <2>3, <2>4
<1>q. QED  BY <1>3, <1>4, <1>5 DEF IInv

\* The facts that the step of a thread on its object starts from.
LEMMA LoadingFacts ==
  ASSUME IInv, NEW t \in Threads, pc[t] # "idle"
  PROVE  /\ TypeOK /\ ~stray /\ cur[t] \in Loads /\ fate[cur[t]] = "loading"
         /\ Stage(pc[t], cur[t], fd[t]) /\ TmpInv(t)
         /\ SlotInv(cur[t]) /\ bpf_obj_ptr[cur[t]] = Nothing
         /\ parse_maps(image[cur[t]]) \subseteq MapIds
         /\ DOMAIN parse_progs(image[cur[t]]) \subseteq NrProgs
<1>1. /\ TypeOK /\ ~stray /\ cur[t] \in Loads /\ fate[cur[t]] = "loading"
      /\ Stage(pc[t], cur[t], fd[t]) /\ TmpInv(t) /\ ObjInv(cur[t])
  BY DEF IInv, ThreadInv
<1>2. bpf_obj_ptr[cur[t]] = Nothing  BY <1>1 DEF ObjInv, HandleInv
<1>q. QED  BY <1>1, <1>2, ImageFacts DEF ObjInv

\* A step that leaves the object loading.
LEMMA LoadingStep ==
  ASSUME IInv, TypeOK', ~stray', NEW t \in Threads, pc[t] # "idle", NEW o \in Loads,
         o = cur[t], NEW l, l # "idle", pc' = [pc EXCEPT ![t] = l],
         UNCHANGED <<cur, image, fate, bpf_obj_ptr>>,
         \A u \in Threads : u # t => fd'[u] = fd[u] /\ tmp_file'[u] = tmp_file[u],
         \A q \in Loads : q # o => Same(q), SlotInv(o)', NEW f, f = fd'[t],
         Stage(l, o, f)', TmpInv(t)'
  PROVE  IInv'
<1>0. /\ TypeOK /\ fate[o] = "loading" /\ bpf_obj_ptr[o] = Nothing
  BY LoadingFacts
<1>1. pc'[t] = l /\ \A u \in Threads : u # t => pc'[u] = pc[u]  BY <1>0 DEF TypeOK
<1>2. Others(t, o)  BY <1>1 DEF Others
<1>3. fate'[o] = "loading" /\ bpf_obj_ptr'[o] = Nothing  BY <1>0
<1>4. FateInv(o)' /\ HandleInv(o)'  BY <1>3 DEF FateInv, HandleInv, Nothing
<1>5. ObjInv(o)'  BY <1>4 DEF ObjInv
<1>6. Stage(pc[t], cur[t], fd[t])'  BY <1>1 DEF Stage
<1>7. ThreadInv(t)'  BY <1>1, <1>3, <1>6 DEF ThreadInv
<1>q. QED  BY <1>2, <1>5, <1>7, LoadStep

\* A step that takes and gives no descriptor.
LEMMA MoveStep ==
  ASSUME IInv, NEW t \in Threads, pc[t] # "idle",
         NEW l \in Labels, l # "idle", pc' = [pc EXCEPT ![t] = l],
         UNCHANGED <<fdtab, cur, image, fds, fate, base_image, bpf_obj_ptr, stray>>,
         fd' \in [Threads -> Fds \cup {NoFd}], tmp_file' \in [TmpNames -> Loads \cup {NoLoad}],
         torn' \in SUBSET Loads,
         \A u \in Threads : u # t => fd'[u] = fd[u] /\ tmp_file'[u] = tmp_file[u],
         NEW f, f = fd'[t], Stage(l, cur[t], f), TmpInv(t)'
  PROVE  IInv'
<1>1. PICK o \in Loads : o = cur[t]  BY LoadingFacts
<1>2. TypeOK /\ ~stray /\ SlotInv(o)  BY <1>1, LoadingFacts
<1>3. \A q : Same(q)  BY TableKept DEF Same, fds
<1>4. SlotInv(o)'  BY <1>2, <1>3, SlotFrame
<1>5. Stage(l, o, f)'  BY <1>1, <1>3, StageFrame
<1>6. TypeOK'
  <2>1. pc' \in [Threads -> Labels]  BY <1>2 DEF TypeOK, Labels
  <2>2. stray' \in BOOLEAN  BY <1>2 DEF TypeOK
  <2>q. QED  BY <1>2, <2>1, <2>2 DEF TypeOK, Labels, fds
<1>q. QED  BY <1>1, <1>2, <1>3, <1>4, <1>5, <1>6, LoadingStep

\* A step that only goes on to the next label.
LEMMA GotoStep ==
  ASSUME IInv, NEW t \in Threads, pc[t] # "idle",
         NEW l \in Labels, l \notin {"idle", "open", "base"}, Goto(t, l),
         UNCHANGED <<fdtab, tmp_file, cur, image, fds, fate, base_image, torn, bpf_obj_ptr, stray>>,
         fd' = fd \/ fd' = [fd EXCEPT ![t] = NoFd],
         Stage(l, cur[t], NoFd), l \notin {"file", "close_tmp"},
         \/ l \in {"dtor", "dtor_members"}
         \/ pc[t] \notin {"open", "base", "close_tmp", "remove", "dtor", "dtor_members"}
  PROVE  IInv'
<1>1. TypeOK /\ TmpInv(t)  BY LoadingFacts
<1>2. pc' = [pc EXCEPT ![t] = l] /\ pc'[t] = l  BY <1>1 DEF Goto, TypeOK
<1>3. fd' \in [Threads -> Fds \cup {NoFd}] /\ \A u \in Threads : u # t => fd'[u] = fd[u]
  BY <1>1 DEF TypeOK
<1>4. tmp_file' \in [TmpNames -> Loads \cup {NoLoad}] /\ torn' \in SUBSET Loads
  BY <1>1 DEF TypeOK
<1>5. TmpInv(t)'  BY <1>1, <1>2 DEF TmpInv
<1>6. Stage(l, cur[t], fd'[t])  BY DEF Stage
<1>q. QED  BY <1>2, <1>3, <1>4, <1>5, <1>6, MoveStep

LEMMA MovesStep ==
  ASSUME IInv, NEW t \in Threads,
         \/ parse_elf(t) \/ create_fails(t) \/ fix_maps_done(t) \/ load_base_fails(t)
         \/ load_prog_fails(t) \/ load_done(t) \/ push_back_throws(t)
  PROVE  IInv'
<1> DEFINE o == cur[t]
<1>0. pc[t] # "idle" => Stage(pc[t], o, fd[t])  BY LoadingFacts
<1>d. \A q : Stage("dtor", q, NoFd) /\ Stage("close_progs", q, NoFd)  BY DEF Stage
<1> USE DEF At
<1>1. CASE parse_elf(t)
  <2>1. CASE Goto(t, "fix_maps")
    <3>1. Stage("fix_maps", o, NoFd)  BY <1>0, <1>1 DEF parse_elf, Stage
    <3>q. QED  BY <1>1, <2>1, <3>1, GotoStep DEF parse_elf, Labels
  <2>2. CASE Goto(t, "dtor")
    BY <1>1, <1>d, <2>2, GotoStep DEF parse_elf, Labels
  <2>q. QED  BY <1>1, <2>1, <2>2 DEF parse_elf
<1>2. CASE create_fails(t)  BY <1>2, <1>d, GotoStep DEF create_fails, Labels
<1>3. CASE fix_maps_done(t)
  <2>1. AllMaps(o)  BY <1>3 DEF fix_maps_done, MapsLeft, AllMaps
  <2>2. Stage("write", o, NoFd)  BY <1>0, <1>3, <2>1 DEF fix_maps_done, Stage
  <2>q. QED  BY <1>3, <2>2, GotoStep DEF fix_maps_done, Labels
<1>4. CASE load_base_fails(t)  BY <1>4, <1>d, GotoStep DEF load_base_fails, Labels
<1>5. CASE load_prog_fails(t)  BY <1>5, <1>d, GotoStep DEF load_prog_fails, Labels
<1>6. CASE load_done(t)
  <2>1. AllProgs(o)  BY <1>6 DEF load_done, ProgsLeft, AllProgs
  <2>2. Stage("push", o, NoFd)  BY <1>0, <1>6, <2>1 DEF load_done, Stage
  <2>q. QED  BY <1>6, <2>2, GotoStep DEF load_done, Labels
<1>7. CASE push_back_throws(t)  BY <1>7, <1>d, GotoStep DEF push_back_throws, Labels
<1>q. QED  BY <1>1, <1>2, <1>3, <1>4, <1>5, <1>6, <1>7

\* The temporary file is written, and removed.
LEMMA WriteStep ==
  ASSUME IInv, NEW t \in Threads, write_tmp(t)
  PROVE  IInv'
<1>0. /\ pc[t] = "write" /\ pc' = [pc EXCEPT ![t] = "open"]
      /\ tmp_file' \in {tmp_file, [tmp_file EXCEPT ![t] = cur[t]]}
      /\ torn' \in {torn, torn \cup {cur[t]}}
      /\ UNCHANGED <<fdtab, cur, fd, image, fds, fate, base_image, bpf_obj_ptr, stray>>
  BY DEF write_tmp, At, Goto, tmp_name
<1>1. TypeOK /\ cur[t] \in Loads /\ Stage("write", cur[t], fd[t]) /\ TmpInv(t)
  BY <1>0, LoadingFacts
<1>2. /\ tmp_file' \in [TmpNames -> Loads \cup {NoLoad}] /\ tmp_file'[t] \in {tmp_file[t], cur[t]}
      /\ torn' \in SUBSET Loads
  BY <1>0, <1>1 DEF TypeOK, TmpNames
<1>3. \A u \in Threads : u # t => fd'[u] = fd[u] /\ tmp_file'[u] = tmp_file[u]
  BY <1>0, <1>1 DEF TypeOK, TmpNames
<1>4. Stage("open", cur[t], fd'[t])  BY <1>0, <1>1 DEF Stage
<1>5. pc'[t] = "open"  BY <1>0, <1>1 DEF TypeOK
<1>6. TmpInv(t)'  BY <1>0, <1>1, <1>2, <1>5 DEF TmpInv
<1>7. fd' \in [Threads -> Fds \cup {NoFd}]  BY <1>0, <1>1 DEF TypeOK
<1>q. QED  BY <1>0, <1>2, <1>3, <1>4, <1>6, <1>7, MoveStep DEF Labels

LEMMA RemoveStep ==
  ASSUME IInv, NEW t \in Threads, remove_tmp(t)
  PROVE  IInv'
<1>0. /\ pc[t] = "remove"
      /\ UNCHANGED <<fdtab, cur, fd, image, fds, fate, base_image, torn, bpf_obj_ptr, stray>>
  BY DEF remove_tmp, At
<1>1. TypeOK /\ cur[t] \in Loads /\ Stage("remove", cur[t], fd[t])  BY <1>0, LoadingFacts
<1>2. CASE Goto(t, "dtor") /\ UNCHANGED tmp_file
  <2>1. Stage("dtor", cur[t], NoFd)  BY DEF Stage
  <2>q. QED  BY <1>0, <1>2, <2>1, GotoStep DEF Labels
<1>3. ASSUME NEW l \in {"progs", "close_progs"}, Goto(t, l),
             tmp_file' = [tmp_file EXCEPT ![t] = NoLoad]
      PROVE  IInv'
  <2>1. tmp_file' \in [TmpNames -> Loads \cup {NoLoad}] /\ tmp_file'[t] = NoLoad
    BY <1>1, <1>3 DEF TypeOK, TmpNames
  <2>2. \A u \in Threads : u # t => fd'[u] = fd[u] /\ tmp_file'[u] = tmp_file[u]
    BY <1>0, <1>1, <1>3 DEF TypeOK, TmpNames
  <2>3. Stage(l, cur[t], fd'[t])  BY <1>0, <1>1 DEF Stage
  <2>4. pc' = [pc EXCEPT ![t] = l] /\ pc'[t] = l  BY <1>1, <1>3 DEF TypeOK, Goto
  <2>5. TmpInv(t)'  BY <2>1, <2>4 DEF TmpInv
  <2>6. fd' \in [Threads -> Fds \cup {NoFd}] /\ torn' \in SUBSET Loads
    BY <1>0, <1>1 DEF TypeOK
  <2>q. QED  BY <1>0, <2>1, <2>2, <2>3, <2>4, <2>5, <2>6, MoveStep DEF Labels
<1>q. QED  BY <1>2, <1>3 DEF remove_tmp, tmp_name

-----------------------------------------------------------------------------
(***************************************************************************)
(* Descriptors an object takes and gives back.                             *)
(***************************************************************************)
\* A descriptor of kind k of object o changes hands, and no field but that kind's.
Touched(o, k) ==
  /\ fdtab' \in [Fds -> Owners] /\ image' = image
  /\ \A q \in Loads : \A j : q # o \/ j # k => TableSame(q, j)
  /\ \A q \in Loads : q # o \/ k # "map"  => map_fd'[q] = map_fd[q]
  /\ \A q \in Loads : q # o \/ k # "prog" => prog_fds'[q] = prog_fds[q]
  /\ \A q \in Loads : q # o \/ k # "base" => prog_fd'[q] = prog_fd[q]

LEMMA TouchedFacts ==
  ASSUME TypeOK, NEW o \in Loads, SlotInv(o), NEW k, Touched(o, k),
         k \notin {"free", "app"}
  PROVE  /\ \A q \in Loads : q # o => Same(q)
         /\ k # "map"  => MapSlots(o)' /\ (NoMaps(o) => NoMaps(o)') /\ (AllMaps(o) => AllMaps(o)')
         /\ k # "prog" => ProgSlots(o)' /\ (NoProgs(o) => NoProgs(o)')
         /\ k # "base" => BaseSlot(o)' /\ prog_fd'[o] = prog_fd[o]
         /\ k \notin Files => /\ NoFiles(o) => NoFiles(o)'
                              /\ \A f, j : OnlyFile(o, f, j) /\ j \in Files => OnlyFile(o, f, j)'
         /\ NoOther(o)'
<1>1. \A q \in Loads : q # o => Same(q)  BY DEF Touched, Same
<1>2. ASSUME k # "map"
      PROVE  MapSlots(o)' /\ (NoMaps(o) => NoMaps(o)') /\ (AllMaps(o) => AllMaps(o)')
  <2>1. TableSame(o, "map") /\ map_fd'[o] = map_fd[o] /\ image' = image  BY <1>2 DEF Touched
  <2>2. MapSlots(o)'  BY <2>1, SlotsKept DEF SlotInv
  <2>3. NoMaps(o) => NoMaps(o)'  BY <2>1 DEF NoMaps
  <2>4. parse_maps(image[o])' = parse_maps(image[o])  BY <2>1
  <2>5. AllMaps(o) => AllMaps(o)'  BY <2>1, <2>4 DEF AllMaps
  <2>q. QED  BY <2>2, <2>3, <2>5
<1>3. ASSUME k # "prog"  PROVE ProgSlots(o)' /\ (NoProgs(o) => NoProgs(o)')
  <2>1. TableSame(o, "prog") /\ prog_fds'[o] = prog_fds[o] /\ image' = image
    BY <1>3 DEF Touched
  <2>2. ProgSlots(o)'  BY <2>1, SlotsKept DEF SlotInv
  <2>3. NoProgs(o) => NoProgs(o)'  BY <2>1 DEF NoProgs
  <2>q. QED  BY <2>2, <2>3
<1>4. ASSUME k # "base"  PROVE BaseSlot(o)' /\ prog_fd'[o] = prog_fd[o]
  <2>1. TableSame(o, "base") /\ prog_fd'[o] = prog_fd[o] /\ image' = image
    BY <1>4 DEF Touched
  <2>q. QED  BY <2>1, SlotsKept DEF SlotInv
<1>5. ASSUME k \notin Files
      PROVE  /\ NoFiles(o) => NoFiles(o)'
             /\ \A f, j : OnlyFile(o, f, j) /\ j \in Files => OnlyFile(o, f, j)'
  <2>1. \A j \in Files : TableSame(o, j)  BY <1>5 DEF Touched, Files
  <2>2. NoFiles(o) => NoFiles(o)'  BY <2>1 DEF NoFiles, TableSame
  <2>3. ASSUME NEW f, NEW j, OnlyFile(o, f, j), j \in Files  PROVE OnlyFile(o, f, j)'
    <3>1. f \in Fds /\ fdtab[f].obj = o /\ fdtab[f].kind = j  BY <2>3, OwnFacts DEF OnlyFile
    <3>2. fdtab'[f] = fdtab[f]  BY <2>1, <2>3, <3>1 DEF TableSame
    <3>3. ASSUME NEW g \in Fds, fdtab'[g].obj = o, fdtab'[g].kind \in Files  PROVE g = f
      <4>1. TableSame(o, fdtab'[g].kind)  BY <2>1, <3>3
      <4>2. fdtab'[g] = fdtab[g]  BY <3>3, <4>1 DEF TableSame
      <4>q. QED  BY <2>3, <3>3, <4>2 DEF OnlyFile
    <3>q. QED  BY <2>3, <3>1, <3>2, <3>3 DEF OnlyFile
  <2>q. QED  BY <2>2, <2>3
<1>6. NoOther(o)'
  <2>1. TableSame(o, "free") /\ TableSame(o, "app") /\ image' = image  BY DEF Touched
  <2>q. QED  BY <2>1, SlotsKept DEF SlotInv
<1>q. QED  BY <1>1, <1>2, <1>3, <1>4, <1>5, <1>6

LEMMA MapTouched ==
  ASSUME TypeOK, NEW o \in Loads, SlotInv(o), NEW m \in MapIds, NEW f \in Fds, NEW g,
         map_fd' = [map_fd EXCEPT ![o][m] = g], UNCHANGED <<image, prog_fds, prog_fd>>,
         \/ /\ Taken(f, Own(o, "map", m)) /\ map_fd[o][m] = NoFd /\ g = f
            /\ m \in parse_maps(image[o])
         \/ /\ Given(f, Own(o, "map", m)) /\ map_fd[o][m] = f /\ g = NoFd
  PROVE  /\ SlotInv(o)' /\ Touched(o, "map")
         /\ map_fd' \in [Loads -> [MapIds -> Fds \cup {NoFd}]]
         /\ map_fd'[o][m] = g /\ \A n \in MapIds : n # m => map_fd'[o][n] = map_fd[o][n]
<1> DEFINE w == Own(o, "map", m)
<1>0. w \in Owners /\ w.obj = o /\ w.kind = "map" /\ w.i = m /\ w # Free
  BY OwnFacts, OwnersFacts
<1> HIDE DEF w
<1>1. Taken(f, w) \/ Given(f, w)  BY DEF w
<1>2. /\ fdtab' \in [Fds -> Owners]
      /\ \A h \in Fds : h # f => fdtab'[h] = fdtab[h]
      /\ Taken(f, w) => fdtab[f] = Free /\ fdtab'[f] = w
      /\ Given(f, w) => fdtab[f] = w /\ fdtab'[f] = Free
      /\ \A q \in Loads : \A k : q # w.obj \/ k # w.kind => TableSame(q, k)
  BY <1>0, <1>1, TableStep
<1>3. /\ map_fd' \in [Loads -> [MapIds -> Fds \cup {NoFd}]]
      /\ map_fd'[o][m] = g /\ \A n \in MapIds : n # m => map_fd'[o][n] = map_fd[o][n]
      /\ \A q \in Loads : q # o => map_fd'[q] = map_fd[q]
  BY DEF TypeOK
<1>4. Touched(o, "map")  BY <1>0, <1>2, <1>3 DEF Touched
<1>5. \A n \in MapIds : map_fd[o][n] # NoFd =>
        map_fd[o][n] \in Fds /\ fdtab[map_fd[o][n]] = Own(o, "map", n)
  BY DEF TypeOK, SlotInv, MapSlots
<1>6. MapSlots(o)'
  <2>1. ASSUME NEW n \in MapIds, map_fd'[o][n] # NoFd
        PROVE  fdtab'[map_fd'[o][n]] = Own(o, "map", n) /\ n \in parse_maps(image[o])'
    <3>1. CASE n = m
      <4>1. Taken(f, w) /\ g = f /\ m \in parse_maps(image[o])  BY <1>3, <2>1, <3>1 DEF w
      <4>2. parse_maps(image[o])' = parse_maps(image[o])  OBVIOUS
      <4>q. QED  BY <1>2, <1>3, <3>1, <4>1, <4>2 DEF w
    <3>2. CASE n # m
      <4>1. map_fd'[o][n] = map_fd[o][n]  BY <1>3, <3>2
      <4>2. map_fd[o][n] \in Fds /\ fdtab[map_fd[o][n]] = Own(o, "map", n)
        BY <1>5, <2>1, <4>1
      <4>3. Own(o, "map", n) # Free /\ Own(o, "map", n) # w  BY <1>0, <3>2, OwnFacts
      <4>4. map_fd[o][n] # f  BY <1>1, <1>2, <4>2, <4>3
      <4>5. n \in parse_maps(image[o])  BY <2>1, <4>1 DEF SlotInv, MapSlots
      <4>6. parse_maps(image[o])' = parse_maps(image[o])  OBVIOUS
      <4>q. QED  BY <1>2, <4>1, <4>2, <4>4, <4>5, <4>6
    <3>q. QED  BY <3>1, <3>2
  <2>2. ASSUME NEW h \in Fds, fdtab'[h].obj = o, fdtab'[h].kind = "map"
        PROVE  fdtab'[h].i \in MapIds /\ map_fd'[o][fdtab'[h].i] = h
    <3>1. CASE h = f
      <4>1. Free.obj # o  BY OwnFacts
      <4>2. fdtab'[h] = w /\ g = f  BY <1>0, <1>1, <1>2, <2>2, <3>1, <4>1 DEF w
      <4>q. QED  BY <1>0, <1>3, <3>1, <4>2
    <3>2. CASE h # f
      <4>1. fdtab'[h] = fdtab[h]  BY <1>2, <3>2
      <4>2. fdtab[h].i \in MapIds /\ map_fd[o][fdtab[h].i] = h
        BY <2>2, <4>1 DEF SlotInv, MapSlots
      <4>3. fdtab[h].i # m  BY <3>2, <4>2
      <4>q. QED  BY <1>3, <4>1, <4>2, <4>3
    <3>q. QED  BY <3>1, <3>2
  <2>q. QED  BY <2>1, <2>2 DEF MapSlots
<1>7. ProgSlots(o)' /\ BaseSlot(o)' /\ NoOther(o)'  BY <1>4, TouchedFacts
<1>q. QED  BY <1>3, <1>4, <1>6, <1>7 DEF SlotInv

LEMMA ProgTouched ==
  ASSUME TypeOK, NEW o \in Loads, SlotInv(o), NEW p \in NrProgs, NEW f \in Fds, NEW g,
         prog_fds' = [prog_fds EXCEPT ![o][p] = g], UNCHANGED <<image, map_fd, prog_fd>>,
         \/ /\ Taken(f, Own(o, "prog", p)) /\ prog_fds[o][p] = NoFd /\ g = f
            /\ p \in DOMAIN parse_progs(image[o])
         \/ /\ Given(f, Own(o, "prog", p)) /\ prog_fds[o][p] = f /\ g = NoFd
  PROVE  /\ SlotInv(o)' /\ Touched(o, "prog")
         /\ prog_fds' \in [Loads -> [NrProgs -> Fds \cup {NoFd}]]
         /\ prog_fds'[o][p] = g /\ \A r \in NrProgs : r # p => prog_fds'[o][r] = prog_fds[o][r]
<1> DEFINE w == Own(o, "prog", p)
<1>0. w \in Owners /\ w.obj = o /\ w.kind = "prog" /\ w.i = p /\ w # Free
  BY OwnFacts, OwnersFacts
<1> HIDE DEF w
<1>1. Taken(f, w) \/ Given(f, w)  BY DEF w
<1>2. /\ fdtab' \in [Fds -> Owners]
      /\ \A h \in Fds : h # f => fdtab'[h] = fdtab[h]
      /\ Taken(f, w) => fdtab[f] = Free /\ fdtab'[f] = w
      /\ Given(f, w) => fdtab[f] = w /\ fdtab'[f] = Free
      /\ \A q \in Loads : \A k : q # w.obj \/ k # w.kind => TableSame(q, k)
  BY <1>0, <1>1, TableStep
<1>3. /\ prog_fds' \in [Loads -> [NrProgs -> Fds \cup {NoFd}]]
      /\ prog_fds'[o][p] = g /\ \A r \in NrProgs : r # p => prog_fds'[o][r] = prog_fds[o][r]
      /\ \A q \in Loads : q # o => prog_fds'[q] = prog_fds[q]
  BY DEF TypeOK
<1>4. Touched(o, "prog")  BY <1>0, <1>2, <1>3 DEF Touched
<1>5. \A r \in NrProgs : prog_fds[o][r] # NoFd =>
        prog_fds[o][r] \in Fds /\ fdtab[prog_fds[o][r]] = Own(o, "prog", r)
  BY DEF TypeOK, SlotInv, ProgSlots
<1>6. ProgSlots(o)'
  <2>1. ASSUME NEW r \in NrProgs, prog_fds'[o][r] # NoFd
        PROVE  fdtab'[prog_fds'[o][r]] = Own(o, "prog", r) /\ r \in DOMAIN parse_progs(image[o])'
    <3>1. CASE r = p
      <4>1. Taken(f, w) /\ g = f /\ p \in DOMAIN parse_progs(image[o])  BY <1>3, <2>1, <3>1 DEF w
      <4>2. parse_progs(image[o])' = parse_progs(image[o])  OBVIOUS
      <4>q. QED  BY <1>2, <1>3, <3>1, <4>1, <4>2 DEF w
    <3>2. CASE r # p
      <4>1. prog_fds'[o][r] = prog_fds[o][r]  BY <1>3, <3>2
      <4>2. prog_fds[o][r] \in Fds /\ fdtab[prog_fds[o][r]] = Own(o, "prog", r)
        BY <1>5, <2>1, <4>1
      <4>3. Own(o, "prog", r) # Free /\ Own(o, "prog", r) # w  BY <1>0, <3>2, OwnFacts
      <4>4. prog_fds[o][r] # f  BY <1>1, <1>2, <4>2, <4>3
      <4>5. r \in DOMAIN parse_progs(image[o])  BY <2>1, <4>1 DEF SlotInv, ProgSlots
      <4>6. parse_progs(image[o])' = parse_progs(image[o])  OBVIOUS
      <4>q. QED  BY <1>2, <4>1, <4>2, <4>4, <4>5, <4>6
    <3>q. QED  BY <3>1, <3>2
  <2>2. ASSUME NEW h \in Fds, fdtab'[h].obj = o, fdtab'[h].kind = "prog"
        PROVE  fdtab'[h].i \in NrProgs /\ prog_fds'[o][fdtab'[h].i] = h
    <3>1. CASE h = f
      <4>1. Free.obj # o  BY OwnFacts
      <4>2. fdtab'[h] = w /\ g = f  BY <1>0, <1>1, <1>2, <2>2, <3>1, <4>1 DEF w
      <4>q. QED  BY <1>0, <1>3, <3>1, <4>2
    <3>2. CASE h # f
      <4>1. fdtab'[h] = fdtab[h]  BY <1>2, <3>2
      <4>2. fdtab[h].i \in NrProgs /\ prog_fds[o][fdtab[h].i] = h
        BY <2>2, <4>1 DEF SlotInv, ProgSlots
      <4>3. fdtab[h].i # p  BY <3>2, <4>2
      <4>q. QED  BY <1>3, <4>1, <4>2, <4>3
    <3>q. QED  BY <3>1, <3>2
  <2>q. QED  BY <2>1, <2>2 DEF ProgSlots
<1>7. MapSlots(o)' /\ BaseSlot(o)' /\ NoOther(o)'  BY <1>4, TouchedFacts
<1>q. QED  BY <1>3, <1>4, <1>6, <1>7 DEF SlotInv

LEMMA BaseTouched ==
  ASSUME TypeOK, NEW o \in Loads, SlotInv(o), NEW f \in Fds, NEW g,
         prog_fd' = [prog_fd EXCEPT ![o] = g], UNCHANGED <<image, map_fd, prog_fds>>,
         \/ Taken(f, Own(o, "base", 0)) /\ prog_fd[o] = NoFd /\ g = f
         \/ Given(f, Own(o, "base", 0)) /\ prog_fd[o] = f /\ g = NoFd
  PROVE  /\ SlotInv(o)' /\ Touched(o, "base") /\ prog_fd'[o] = g
         /\ prog_fd' \in [Loads -> Fds \cup {NoFd}]
<1> DEFINE w == Own(o, "base", 0)
<1>0. w \in Owners /\ w.obj = o /\ w.kind = "base" /\ w.i = 0
  BY OwnFacts, OwnersFacts
<1> HIDE DEF w
<1>1. Taken(f, w) \/ Given(f, w)  BY DEF w
<1>2. /\ fdtab' \in [Fds -> Owners]
      /\ \A h \in Fds : h # f => fdtab'[h] = fdtab[h]
      /\ Taken(f, w) => fdtab[f] = Free /\ fdtab'[f] = w
      /\ Given(f, w) => fdtab[f] = w /\ fdtab'[f] = Free
      /\ \A q \in Loads : \A k : q # w.obj \/ k # w.kind => TableSame(q, k)
  BY <1>0, <1>1, TableStep
<1>3. /\ prog_fd' \in [Loads -> Fds \cup {NoFd}] /\ prog_fd'[o] = g
      /\ \A q \in Loads : q # o => prog_fd'[q] = prog_fd[q]
  BY DEF TypeOK
<1>4. Touched(o, "base")  BY <1>0, <1>2, <1>3 DEF Touched
<1>5. BaseSlot(o)'
  <2>1. ASSUME prog_fd'[o] # NoFd  PROVE fdtab'[prog_fd'[o]] = Own(o, "base", 0)
    BY <1>2, <1>3, <2>1 DEF w
  <2>2. ASSUME NEW h \in Fds, fdtab'[h].obj = o, fdtab'[h].kind = "base"
        PROVE  fdtab'[h].i = 0 /\ prog_fd'[o] = h
    <3>1. CASE h = f
      <4>1. Free.obj # o  BY OwnFacts
      <4>2. fdtab'[h] = w /\ g = f  BY <1>0, <1>1, <1>2, <2>2, <3>1, <4>1 DEF w
      <4>q. QED  BY <1>0, <1>3, <3>1, <4>2
    <3>2. CASE h # f
      <4>1. fdtab'[h] = fdtab[h]  BY <1>2, <3>2
      <4>2. prog_fd[o] = h  BY <2>2, <4>1 DEF SlotInv, BaseSlot
      <4>q. QED  BY <3>2, <4>2
    <3>q. QED  BY <3>1, <3>2
  <2>q. QED  BY <2>1, <2>2 DEF BaseSlot
<1>6. MapSlots(o)' /\ ProgSlots(o)' /\ NoOther(o)'  BY <1>4, TouchedFacts
<1>q. QED  BY <1>3, <1>4, <1>5, <1>6 DEF SlotInv

\* Files are in no field of the object.
LEMMA FileTouched ==
  ASSUME TypeOK, NEW o \in Loads, SlotInv(o), NEW f \in Fds, NEW k \in Files,
         UNCHANGED <<image, fds>>,
         Taken(f, Own(o, k, 0)) \/ Given(f, Own(o, k, 0))
  PROVE  /\ SlotInv(o)' /\ Touched(o, k)
         /\ Taken(f, Own(o, k, 0)) /\ NoFiles(o) => OnlyFile(o, f, k)'
         /\ Given(f, Own(o, k, 0)) /\ OnlyFile(o, f, k) => NoFiles(o)'
<1> DEFINE w == Own(o, k, 0)
<1>0. w \in Owners /\ w.obj = o /\ w.kind = k /\ w.i = 0
  BY OwnFacts, OwnersFacts
<1> HIDE DEF w
<1>1. Taken(f, w) \/ Given(f, w)  BY DEF w
<1>2. /\ fdtab' \in [Fds -> Owners]
      /\ \A h \in Fds : h # f => fdtab'[h] = fdtab[h]
      /\ Taken(f, w) => fdtab[f] = Free /\ fdtab'[f] = w
      /\ Given(f, w) => fdtab[f] = w /\ fdtab'[f] = Free
      /\ \A q \in Loads : \A j : q # w.obj \/ j # w.kind => TableSame(q, j)
  BY <1>0, <1>1, TableStep
<1>3. k \notin {"map", "prog", "base", "free", "app"}  BY DEF Files
<1>4. Touched(o, k)  BY <1>0, <1>2, <1>3 DEF Touched, fds
<1>5. SlotInv(o)'  BY <1>3, <1>4, TouchedFacts DEF SlotInv
<1>6. ASSUME Taken(f, w), NoFiles(o)  PROVE OnlyFile(o, f, k)'
  <2>1. fdtab'[f] = Own(o, k, 0)  BY <1>2, <1>6 DEF w
  <2>2. ASSUME NEW g \in Fds, fdtab'[g].obj = o, fdtab'[g].kind \in Files  PROVE g = f
    BY <1>2, <1>6, <2>2 DEF NoFiles
  <2>q. QED  BY <2>1, <2>2 DEF OnlyFile
<1>7. ASSUME Given(f, w), OnlyFile(o, f, k)  PROVE NoFiles(o)'
  <2>1. ASSUME NEW g \in Fds, fdtab'[g].obj = o, fdtab'[g].kind \in Files  PROVE FALSE
    <3>1. g # f  BY <1>2, <1>7, <2>1, OwnFacts
    <3>2. fdtab'[g] = fdtab[g]  BY <1>2, <3>1
    <3>q. QED  BY <1>7, <2>1, <3>1, <3>2 DEF OnlyFile
  <2>q. QED  BY <2>1 DEF NoFiles
<1>q. QED  BY <1>4, <1>5, <1>6, <1>7 DEF w

-----------------------------------------------------------------------------
(***************************************************************************)
(* The steps that take or give a descriptor.                               *)
(***************************************************************************)
LEMMA TouchStep ==
  ASSUME IInv, NEW t \in Threads, pc[t] # "idle", NEW o \in Loads, o = cur[t],
         NEW k, k \notin {"free", "app"}, Touched(o, k), SlotInv(o)',
         NEW l \in Labels, l # "idle", pc' = [pc EXCEPT ![t] = l],
         ~stray', stray' \in BOOLEAN, UNCHANGED <<tmp_file, cur, image, fate, bpf_obj_ptr>>,
         fd' \in [Threads -> Fds \cup {NoFd}], \A u \in Threads : u # t => fd'[u] = fd[u],
         map_fd' \in [Loads -> [MapIds -> Fds \cup {NoFd}]],
         prog_fds' \in [Loads -> [NrProgs -> Fds \cup {NoFd}]],
         prog_fd' \in [Loads -> Fds \cup {NoFd}],
         base_image' = base_image \/ base_image' = [base_image EXCEPT ![o] = tmp_file[t]],
         torn' = torn,
         NEW f, f = fd'[t], Stage(l, o, f)', TmpInv(t)'
  PROVE  IInv'
<1>1. TypeOK /\ SlotInv(o)  BY LoadingFacts
<1>2. \A q \in Loads : q # o => Same(q)  BY <1>1, TouchedFacts
<1>3. base_image' \in [Loads -> Loads \cup {NoLoad}]
  <2>1. tmp_file[t] \in Loads \cup {NoLoad}  BY <1>1 DEF TypeOK, TmpNames
  <2>q. QED  BY <1>1, <2>1 DEF TypeOK
<1>4. TypeOK'
  <2>1. pc' \in [Threads -> Labels]  BY <1>1 DEF TypeOK, Labels
  <2>2. fdtab' \in [Fds -> Owners]  BY DEF Touched
  <2>q. QED  BY <1>1, <1>3, <2>1, <2>2 DEF TypeOK, Labels
<1>q. QED  BY <1>2, <1>3, <1>4, LoadingStep

LEMMA OpenedStep ==
  ASSUME IInv, NEW t \in Threads, rex_obj_opened(t)
  PROVE  IInv'
<1>0. /\ pc[t] = "file" /\ Close(fd[t], Own(cur[t], "file", 0))
      /\ fd' = [fd EXCEPT ![t] = NoFd] /\ pc' = [pc EXCEPT ![t] = "parse"]
      /\ UNCHANGED <<tmp_file, cur, image, fds, fate, base_image, torn, bpf_obj_ptr>>
  BY DEF rex_obj_opened, At, Goto
<1>1. PICK o \in Loads : o = cur[t]  BY <1>0, LoadingFacts
<1>2. /\ TypeOK /\ ~stray /\ SlotInv(o) /\ TmpInv(t)
      /\ NoMaps(o) /\ NoProgs(o) /\ prog_fd[o] = NoFd /\ OnlyFile(o, fd[t], "file")
  BY <1>0, <1>1, LoadingFacts DEF Stage
<1>3. fd[t] \in Fds /\ fdtab[fd[t]] = Own(o, "file", 0)  BY <1>2 DEF OnlyFile
<1>4. Given(fd[t], Own(o, "file", 0)) /\ ~stray' /\ stray' \in BOOLEAN
  BY <1>0, <1>1, <1>2, <1>3, CloseGives
<1>5. SlotInv(o)' /\ Touched(o, "file") /\ NoFiles(o)'
  BY <1>0, <1>2, <1>3, <1>4, FileTouched DEF Files
<1>6. NoMaps(o)' /\ NoProgs(o)' /\ prog_fd'[o] = NoFd  BY <1>2, <1>5, TouchedFacts
<1>7. Stage("parse", o, NoFd)'  BY <1>5, <1>6 DEF Stage
<1>8. /\ fd' \in [Threads -> Fds \cup {NoFd}] /\ fd'[t] = NoFd
      /\ \A u \in Threads : u # t => fd'[u] = fd[u]
      /\ pc'[t] = "parse"
      /\ map_fd' \in [Loads -> [MapIds -> Fds \cup {NoFd}]]
      /\ prog_fds' \in [Loads -> [NrProgs -> Fds \cup {NoFd}]]
      /\ prog_fd' \in [Loads -> Fds \cup {NoFd}]
  BY <1>0, <1>2 DEF TypeOK, fds
<1>9. TmpInv(t)'  BY <1>0, <1>2, <1>8 DEF TmpInv
<1>q. QED  BY <1>0, <1>1, <1>4, <1>5, <1>7, <1>8, <1>9, TouchStep DEF Labels

LEMMA CreateStep ==
  ASSUME IInv, NEW t \in Threads, NEW m \in MapIds, create(t, m)
  PROVE  IInv'
<1>0. /\ pc[t] = "fix_maps" /\ m \in MapsLeft(cur[t])
      /\ UNCHANGED <<tmp_file, pc, cur, fd, image, prog_fds, prog_fd, fate, base_image, torn,
                     bpf_obj_ptr, stray>>
  BY DEF create, At
<1>1. PICK o \in Loads : o = cur[t]  BY <1>0, LoadingFacts
<1>2. /\ TypeOK /\ ~stray /\ SlotInv(o) /\ TmpInv(t)
      /\ NoProgs(o) /\ prog_fd[o] = NoFd /\ NoFiles(o)
  BY <1>0, <1>1, LoadingFacts DEF Stage
<1>3. PICK f \in Fds : Alloc(f, Own(o, "map", m)) /\ map_fd' = [map_fd EXCEPT ![o][m] = f]
  BY <1>1 DEF create
<1>4. Taken(f, Own(o, "map", m))  BY <1>3, AllocTakes
<1>5. map_fd[o][m] = NoFd /\ m \in parse_maps(image[o])  BY <1>0, <1>1 DEF MapsLeft
<1>6. /\ SlotInv(o)' /\ Touched(o, "map")
      /\ map_fd' \in [Loads -> [MapIds -> Fds \cup {NoFd}]]
  BY <1>0, <1>2, <1>3, <1>4, <1>5, MapTouched
<1>7. NoProgs(o)' /\ prog_fd'[o] = NoFd /\ NoFiles(o)'  BY <1>2, <1>6, TouchedFacts DEF Files
<1>8. \A x : Stage("fix_maps", o, x)'  BY <1>7 DEF Stage
<1>9. /\ fd' \in [Threads -> Fds \cup {NoFd}] /\ pc' = [pc EXCEPT ![t] = "fix_maps"]
      /\ prog_fds' \in [Loads -> [NrProgs -> Fds \cup {NoFd}]]
      /\ prog_fd' \in [Loads -> Fds \cup {NoFd}]
  BY <1>0, <1>2 DEF TypeOK
<1>10. TmpInv(t)'  BY <1>0, <1>2 DEF TmpInv
<1>11. stray' = FALSE  BY <1>0, <1>2 DEF TypeOK
<1>12. PICK x : x = fd'[t]  OBVIOUS
<1>13. Stage("fix_maps", o, x)'  BY <1>8
<1>q. QED  BY <1>0, <1>1, <1>6, <1>9, <1>10, <1>11, <1>12, <1>13, TouchStep DEF Labels

LEMMA OpenTmpStep ==
  ASSUME IInv, NEW t \in Threads, open_tmp(t)
  PROVE  IInv'
<1>0. /\ pc[t] = "open"
      /\ UNCHANGED <<tmp_file, cur, image, fds, fate, base_image, torn, bpf_obj_ptr, stray>>
  BY DEF open_tmp, At
<1>1. PICK o \in Loads : o = cur[t]  BY <1>0, LoadingFacts
<1>2. /\ TypeOK /\ ~stray /\ SlotInv(o) /\ TmpInv(t)
      /\ AllMaps(o) /\ NoProgs(o) /\ prog_fd[o] = NoFd /\ NoFiles(o)
  BY <1>0, <1>1, LoadingFacts DEF Stage
<1>3. CASE Goto(t, "dtor") /\ UNCHANGED <<fdtab, fd>>
  <2>1. Stage("dtor", cur[t], NoFd)  BY DEF Stage
  <2>q. QED  BY <1>0, <1>3, <2>1, GotoStep DEF Labels
<1>4. ASSUME NEW f \in Fds, Alloc(f, Own(cur[t], "tmp", 0)), fd' = [fd EXCEPT ![t] = f],
             Goto(t, "base")
      PROVE  IInv'
  <2>1. Taken(f, Own(o, "tmp", 0))  BY <1>1, <1>4, AllocTakes
  <2>2. SlotInv(o)' /\ Touched(o, "tmp") /\ OnlyFile(o, f, "tmp")'
    BY <1>0, <1>2, <2>1, FileTouched DEF Files
  <2>3. AllMaps(o)' /\ NoProgs(o)' /\ prog_fd'[o] = NoFd  BY <1>2, <2>2, TouchedFacts
  <2>4. Stage("base", o, f)'  BY <2>2, <2>3 DEF Stage
  <2>5. /\ fd' \in [Threads -> Fds \cup {NoFd}] /\ fd'[t] = f
        /\ \A u \in Threads : u # t => fd'[u] = fd[u]
        /\ pc' = [pc EXCEPT ![t] = "base"] /\ pc'[t] = "base"
    BY <1>2, <1>4 DEF TypeOK, Goto
  <2>6. /\ map_fd' \in [Loads -> [MapIds -> Fds \cup {NoFd}]]
        /\ prog_fds' \in [Loads -> [NrProgs -> Fds \cup {NoFd}]]
        /\ prog_fd' \in [Loads -> Fds \cup {NoFd}]
    BY <1>0, <1>2 DEF TypeOK, fds
  <2>7. TmpInv(t)'  BY <1>0, <1>2, <2>5 DEF TmpInv
  <2>8. stray' = FALSE  BY <1>0, <1>2 DEF TypeOK
  <2>q. QED  BY <1>0, <1>1, <2>2, <2>4, <2>5, <2>6, <2>7, <2>8, TouchStep DEF Labels
<1>q. QED  BY <1>3, <1>4 DEF open_tmp

LEMMA LoadBaseStep ==
  ASSUME IInv, NEW t \in Threads, load_base(t)
  PROVE  IInv'
<1>0. /\ pc[t] = "base" /\ pc' = [pc EXCEPT ![t] = "close_tmp"]
      /\ base_image' = [base_image EXCEPT ![cur[t]] = tmp_file[t]]
      /\ UNCHANGED <<tmp_file, cur, fd, image, map_fd, prog_fds, fate, torn, bpf_obj_ptr, stray>>
  BY DEF load_base, At, Goto, tmp_name
<1>a. PICK o \in Loads : o = cur[t]  BY <1>0, LoadingFacts
<1>b. PICK x : x = fd[t]  OBVIOUS
<1>1. o \in Loads /\ o = cur[t] /\ x = fd[t]  BY <1>a, <1>b
<1>2. /\ TypeOK /\ ~stray /\ SlotInv(o) /\ TmpInv(t)
      /\ AllMaps(o) /\ NoProgs(o) /\ prog_fd[o] = NoFd /\ OnlyFile(o, x, "tmp")
  BY <1>0, <1>1, LoadingFacts DEF Stage
<1>3. PICK f \in Fds : Alloc(f, Own(o, "base", 0)) /\ prog_fd' = [prog_fd EXCEPT ![o] = f]
  BY <1>1 DEF load_base
<1>4. Taken(f, Own(o, "base", 0))  BY <1>3, AllocTakes
<1>5. /\ SlotInv(o)' /\ Touched(o, "base") /\ prog_fd'[o] = f
      /\ prog_fd' \in [Loads -> Fds \cup {NoFd}]
  BY <1>0, <1>2, <1>3, <1>4, BaseTouched
<1>6. AllMaps(o)' /\ NoProgs(o)' /\ OnlyFile(o, x, "tmp")'
  BY <1>2, <1>5, TouchedFacts DEF Files
<1>7. prog_fd'[o] # NoFd  BY <1>5
<1>8. Stage("close_tmp", o, x)'  BY <1>6, <1>7 DEF Stage
<1>10. /\ fd' \in [Threads -> Fds \cup {NoFd}] /\ pc'[t] = "close_tmp" /\ x = fd'[t]
       /\ \A u \in Threads : u # t => fd'[u] = fd[u]
       /\ map_fd' \in [Loads -> [MapIds -> Fds \cup {NoFd}]]
       /\ prog_fds' \in [Loads -> [NrProgs -> Fds \cup {NoFd}]]
  BY <1>0, <1>1, <1>2 DEF TypeOK
<1>11. TmpInv(t)'  BY <1>0, <1>1, <1>2, <1>10 DEF TmpInv
<1>12. stray' = FALSE  BY <1>0, <1>2 DEF TypeOK
<1>13. base_image' = [base_image EXCEPT ![o] = tmp_file[t]]  BY <1>0, <1>1
<1>q. QED
  BY <1>0, <1>1, <1>5, <1>8, <1>10, <1>11, <1>12, <1>13, TouchStep DEF Labels

LEMMA CloseTmpStep ==
  ASSUME IInv, NEW t \in Threads, close_tmp(t)
  PROVE  IInv'
<1>0. /\ pc[t] = "close_tmp" /\ Close(fd[t], Own(cur[t], "tmp", 0))
      /\ fd' = [fd EXCEPT ![t] = NoFd] /\ pc' = [pc EXCEPT ![t] = "remove"]
      /\ UNCHANGED <<tmp_file, cur, image, fds, fate, base_image, torn, bpf_obj_ptr>>
  BY DEF close_tmp, At, Goto
<1>1. PICK o \in Loads : o = cur[t]  BY <1>0, LoadingFacts
<1>2. /\ TypeOK /\ ~stray /\ SlotInv(o) /\ TmpInv(t)
      /\ AllMaps(o) /\ NoProgs(o) /\ prog_fd[o] # NoFd /\ OnlyFile(o, fd[t], "tmp")
  BY <1>0, <1>1, LoadingFacts DEF Stage
<1>3. fd[t] \in Fds /\ fdtab[fd[t]] = Own(o, "tmp", 0)  BY <1>2 DEF OnlyFile
<1>4. Given(fd[t], Own(o, "tmp", 0)) /\ ~stray' /\ stray' \in BOOLEAN
  BY <1>0, <1>1, <1>2, <1>3, CloseGives
<1>5. SlotInv(o)' /\ Touched(o, "tmp") /\ NoFiles(o)'
  BY <1>0, <1>2, <1>3, <1>4, FileTouched DEF Files
<1>6. AllMaps(o)' /\ NoProgs(o)' /\ prog_fd'[o] # NoFd  BY <1>2, <1>5, TouchedFacts
<1>7. Stage("remove", o, NoFd)'  BY <1>5, <1>6 DEF Stage
<1>8. /\ fd' \in [Threads -> Fds \cup {NoFd}] /\ fd'[t] = NoFd
      /\ \A u \in Threads : u # t => fd'[u] = fd[u]
      /\ pc'[t] = "remove"
      /\ map_fd' \in [Loads -> [MapIds -> Fds \cup {NoFd}]]
      /\ prog_fds' \in [Loads -> [NrProgs -> Fds \cup {NoFd}]]
      /\ prog_fd' \in [Loads -> Fds \cup {NoFd}]
  BY <1>0, <1>2 DEF TypeOK, fds
<1>9. TmpInv(t)'  BY <1>0, <1>2, <1>8 DEF TmpInv
<1>q. QED  BY <1>0, <1>1, <1>4, <1>5, <1>7, <1>8, <1>9, TouchStep DEF Labels

LEMMA LoadProgStep ==
  ASSUME IInv, NEW t \in Threads, load_prog(t)
  PROVE  IInv'
<1>0. /\ pc[t] = "progs"
      /\ UNCHANGED <<tmp_file, pc, cur, fd, image, map_fd, prog_fd, fate, base_image, torn,
                     bpf_obj_ptr, stray>>
  BY DEF load_prog, At
<1>a. PICK o \in Loads : o = cur[t]  BY <1>0, LoadingFacts
<1>b. PICK x : x = fd[t]  OBVIOUS
<1>1. o \in Loads /\ o = cur[t] /\ x = fd[t]  BY <1>a, <1>b
<1>2. /\ TypeOK /\ ~stray /\ SlotInv(o) /\ TmpInv(t) /\ DOMAIN parse_progs(image[o]) \subseteq NrProgs
      /\ AllMaps(o) /\ prog_fd[o] # NoFd /\ NoFiles(o)
  BY <1>0, <1>1, LoadingFacts DEF Stage
<1>3. PICK p \in ProgsLeft(o), f \in Fds : /\ Alloc(f, Own(o, "prog", p))
                                           /\ prog_fds' = [prog_fds EXCEPT ![o][p] = f]
  BY <1>1 DEF load_prog
<1>4. Taken(f, Own(o, "prog", p))  BY <1>3, AllocTakes
<1>5. prog_fds[o][p] = NoFd /\ p \in DOMAIN parse_progs(image[o]) /\ p \in NrProgs
  BY <1>2, <1>3 DEF ProgsLeft
<1>6. /\ SlotInv(o)' /\ Touched(o, "prog")
      /\ prog_fds' \in [Loads -> [NrProgs -> Fds \cup {NoFd}]]
  BY <1>0, <1>2, <1>3, <1>4, <1>5, ProgTouched
<1>7. AllMaps(o)' /\ prog_fd'[o] # NoFd /\ NoFiles(o)'  BY <1>2, <1>6, TouchedFacts DEF Files
<1>8. Stage("progs", o, x)'  BY <1>7 DEF Stage
<1>9. /\ fd' \in [Threads -> Fds \cup {NoFd}] /\ pc' = [pc EXCEPT ![t] = "progs"]
      /\ map_fd' \in [Loads -> [MapIds -> Fds \cup {NoFd}]]
      /\ prog_fd' \in [Loads -> Fds \cup {NoFd}]
  BY <1>0, <1>2 DEF TypeOK
<1>10. TmpInv(t)'  BY <1>0, <1>2 DEF TmpInv
<1>11. stray' = FALSE  BY <1>0, <1>2 DEF TypeOK
<1>q. QED  BY <1>0, <1>1, <1>6, <1>8, <1>9, <1>10, <1>11, TouchStep DEF Labels

\* A program or a map is closed, in close_fds or in the destructor.
LEMMA CloseProgStep ==
  ASSUME IInv, NEW t \in Threads, NEW l \in {"close_progs", "dtor_members"}, pc[t] = l,
         NEW p \in OpenProgs(cur[t]), Close(prog_fds[cur[t]][p], Own(cur[t], "prog", p)),
         prog_fds' = [prog_fds EXCEPT ![cur[t]][p] = NoFd],
         UNCHANGED <<pc, tmp_file, cur, fd, image, map_fd, prog_fd, fate, base_image, torn,
                     bpf_obj_ptr>>
  PROVE  IInv'
<1>a. PICK o \in Loads : o = cur[t]  BY LoadingFacts
<1>b. PICK x : x = fd[t]  OBVIOUS
<1>1. o \in Loads /\ o = cur[t] /\ x = fd[t]  BY <1>a, <1>b
<1>2. /\ TypeOK /\ ~stray /\ SlotInv(o) /\ TmpInv(t)
      /\ l = "dtor_members" => prog_fd[o] = NoFd
  BY <1>1, LoadingFacts DEF Stage
<1> DEFINE f == prog_fds[o][p]
<1>3. p \in NrProgs /\ f \in Fds /\ fdtab[f] = Own(o, "prog", p)
  BY <1>1, <1>2 DEF OpenProgs, TypeOK, SlotInv, ProgSlots
<1> HIDE DEF f
<1>4. Given(f, Own(o, "prog", p)) /\ ~stray' /\ stray' \in BOOLEAN
  BY <1>1, <1>2, <1>3, CloseGives DEF f
<1>5. /\ SlotInv(o)' /\ Touched(o, "prog")
      /\ prog_fds' \in [Loads -> [NrProgs -> Fds \cup {NoFd}]]
  BY <1>1, <1>2, <1>3, <1>4, ProgTouched DEF f
<1>6. prog_fd'[o] = prog_fd[o]  BY <1>2, <1>5, TouchedFacts
<1>7. Stage(l, o, x)'  BY <1>2, <1>6 DEF Stage
<1>8. /\ fd' \in [Threads -> Fds \cup {NoFd}] /\ pc' = [pc EXCEPT ![t] = l]
      /\ map_fd' \in [Loads -> [MapIds -> Fds \cup {NoFd}]]
      /\ prog_fd' \in [Loads -> Fds \cup {NoFd}]
  BY <1>2 DEF TypeOK
<1>9. TmpInv(t)'  BY <1>2 DEF TmpInv
<1>10. l \in Labels /\ l # "idle" /\ pc[t] # "idle"  BY DEF Labels
<1>11. UNCHANGED <<tmp_file, cur, image, fate, bpf_obj_ptr>> /\ UNCHANGED <<base_image, torn>>
  OBVIOUS
<1>12. x = fd'[t] /\ \A u \in Threads : u # t => fd'[u] = fd[u]  BY <1>1
<1>q. QED  BY <1>1, <1>4, <1>5, <1>7, <1>8, <1>9, <1>10, <1>11, <1>12, TouchStep

LEMMA CloseMapStep ==
  ASSUME IInv, NEW t \in Threads, pc[t] = "dtor_members",
         NEW m \in OpenMaps(cur[t]), Close(map_fd[cur[t]][m], Own(cur[t], "map", m)),
         map_fd' = [map_fd EXCEPT ![cur[t]][m] = NoFd],
         UNCHANGED <<pc, tmp_file, cur, fd, image, prog_fds, prog_fd, fate, base_image, torn,
                     bpf_obj_ptr>>
  PROVE  IInv'
<1>a. PICK o \in Loads : o = cur[t]  BY LoadingFacts
<1>b. PICK x : x = fd[t]  OBVIOUS
<1>1. o \in Loads /\ o = cur[t] /\ x = fd[t]  BY <1>a, <1>b
<1>2. TypeOK /\ ~stray /\ SlotInv(o) /\ TmpInv(t) /\ prog_fd[o] = NoFd
  BY <1>1, LoadingFacts DEF Stage
<1> DEFINE f == map_fd[o][m]
<1>3. m \in MapIds /\ f \in Fds /\ fdtab[f] = Own(o, "map", m)
  BY <1>1, <1>2 DEF OpenMaps, TypeOK, SlotInv, MapSlots
<1> HIDE DEF f
<1>4. Given(f, Own(o, "map", m)) /\ ~stray' /\ stray' \in BOOLEAN
  BY <1>1, <1>2, <1>3, CloseGives DEF f
<1>5. /\ SlotInv(o)' /\ Touched(o, "map")
      /\ map_fd' \in [Loads -> [MapIds -> Fds \cup {NoFd}]]
  BY <1>1, <1>2, <1>3, <1>4, MapTouched DEF f
<1>6. prog_fd'[o] = NoFd  BY <1>2, <1>5, TouchedFacts
<1>7. Stage("dtor_members", o, x)'  BY <1>6 DEF Stage
<1>8. /\ fd' \in [Threads -> Fds \cup {NoFd}] /\ pc' = [pc EXCEPT ![t] = "dtor_members"]
      /\ prog_fds' \in [Loads -> [NrProgs -> Fds \cup {NoFd}]]
      /\ prog_fd' \in [Loads -> Fds \cup {NoFd}]
  BY <1>2 DEF TypeOK
<1>9. TmpInv(t)'  BY <1>2 DEF TmpInv
<1>q. QED  BY <1>1, <1>4, <1>5, <1>7, <1>8, <1>9, TouchStep DEF Labels

\* The base program is closed if it is there.
LEMMA CloseBaseStep ==
  ASSUME IInv, NEW t \in Threads, NEW l \in {"dtor", "dtor_members"},
         pc[t] = IF l = "dtor" THEN "close_base" ELSE "dtor",
         Close(prog_fd[cur[t]], Own(cur[t], "base", 0)),
         prog_fd' = [prog_fd EXCEPT ![cur[t]] = NoFd], Goto(t, l),
         UNCHANGED <<tmp_file, cur, fd, image, map_fd, prog_fds, fate, base_image, torn, bpf_obj_ptr>>
  PROVE  IInv'
<1>0. pc[t] \in {"close_base", "dtor"}  OBVIOUS
<1>a. PICK o \in Loads : o = cur[t]  BY <1>0, LoadingFacts
<1>b. PICK x : x = fd[t]  OBVIOUS
<1>1. o \in Loads /\ o = cur[t] /\ x = fd[t]  BY <1>a, <1>b
<1>2. TypeOK /\ ~stray /\ SlotInv(o) /\ TmpInv(t)  BY <1>0, <1>1, LoadingFacts
<1>3. CASE prog_fd[o] = NoFd
  <2>1. UNCHANGED <<fdtab, stray>>  BY <1>1, <1>3 DEF Close
  <2>2. prog_fd' = prog_fd  BY <1>1, <1>2, <1>3 DEF TypeOK
  <2>3. Stage(l, cur[t], NoFd)  BY <1>1, <1>3 DEF Stage
  <2>q. QED  BY <1>0, <2>1, <2>2, <2>3, GotoStep DEF Labels, fds
<1>4. CASE prog_fd[o] # NoFd
  <2> DEFINE f == prog_fd[o]
  <2>1. f \in Fds /\ fdtab[f] = Own(o, "base", 0)  BY <1>2, <1>4 DEF TypeOK, SlotInv, BaseSlot
  <2> HIDE DEF f
  <2>2. Given(f, Own(o, "base", 0)) /\ ~stray' /\ stray' \in BOOLEAN
    BY <1>1, <1>2, <2>1, CloseGives DEF f
  <2>3. /\ SlotInv(o)' /\ Touched(o, "base") /\ prog_fd'[o] = NoFd
        /\ prog_fd' \in [Loads -> Fds \cup {NoFd}]
    BY <1>1, <1>2, <2>1, <2>2, BaseTouched DEF f
  <2>4. Stage(l, o, x)'  BY <2>3 DEF Stage
  <2>5. /\ fd' \in [Threads -> Fds \cup {NoFd}] /\ pc' = [pc EXCEPT ![t] = l] /\ pc'[t] = l
        /\ map_fd' \in [Loads -> [MapIds -> Fds \cup {NoFd}]]
        /\ prog_fds' \in [Loads -> [NrProgs -> Fds \cup {NoFd}]]
    BY <1>2 DEF TypeOK, Goto
  <2>6. TmpInv(t)'  BY <1>0, <1>2, <2>5 DEF TmpInv
  <2>7. l \in Labels /\ l # "idle" /\ pc[t] # "idle"  BY DEF Labels
  <2>8. UNCHANGED <<tmp_file, cur, image, fate, bpf_obj_ptr>> /\ UNCHANGED <<base_image, torn>>
    OBVIOUS
  <2>9. x = fd'[t] /\ \A u \in Threads : u # t => fd'[u] = fd[u]  BY <1>1
  <2>q. QED  BY <1>1, <2>2, <2>3, <2>4, <2>5, <2>6, <2>7, <2>8, <2>9, TouchStep
<1>q. QED  BY <1>3, <1>4

LEMMA CloseFdsStep ==
  ASSUME IInv, NEW t \in Threads, close_fds_progs(t) \/ close_fds_base(t) \/ rex_obj_dtor(t)
  PROVE  IInv'
<1>1. CASE close_fds_progs(t)
  <2>1. CASE Goto(t, "close_base") /\ UNCHANGED <<fdtab, prog_fds, stray>>
    <3>1. Stage("close_base", cur[t], NoFd)  BY DEF Stage
    <3>q. QED  BY <1>1, <2>1, <3>1, GotoStep DEF close_fds_progs, At, Labels, fds
  <2>2. CASE ~(Goto(t, "close_base") /\ UNCHANGED <<fdtab, prog_fds, stray>>)
    <3>1. PICK p \in OpenProgs(cur[t]) :
            /\ Close(prog_fds[cur[t]][p], Own(cur[t], "prog", p))
            /\ prog_fds' = [prog_fds EXCEPT ![cur[t]][p] = NoFd] /\ UNCHANGED pc
      BY <1>1, <2>2 DEF close_fds_progs
    <3>q. QED  BY <1>1, <3>1, CloseProgStep DEF close_fds_progs, At
  <2>q. QED  BY <2>1, <2>2
<1>2. CASE close_fds_base(t)  BY <1>2, CloseBaseStep DEF close_fds_base, At
<1>3. CASE rex_obj_dtor(t)  BY <1>3, CloseBaseStep DEF rex_obj_dtor, At
<1>q. QED  BY <1>1, <1>2, <1>3

-----------------------------------------------------------------------------
(***************************************************************************)
(* The beginning and the end of a load.                                    *)
(***************************************************************************)
LEMMA OpenStep ==
  ASSUME IInv, NEW t \in Threads, NEW o \in Loads, rex_obj_open(t, o)
  PROVE  IInv'
<1>0. /\ pc[t] = "idle" /\ fate[o] = "unused"
      /\ pc' = [pc EXCEPT ![t] = "file"] /\ cur' = [cur EXCEPT ![t] = o]
      /\ fate' = [fate EXCEPT ![o] = "loading"]
      /\ UNCHANGED <<tmp_file, image, fds, base_image, torn, bpf_obj_ptr, stray>>
  BY DEF rex_obj_open, At, Goto
<1>1. PICK f \in Fds : Alloc(f, Own(o, "file", 0)) /\ fd' = [fd EXCEPT ![t] = f]
  BY DEF rex_obj_open
<1>2. TypeOK /\ ~stray /\ ObjInv(o) /\ ThreadInv(t)  BY DEF IInv
<1>3. /\ SlotInv(o) /\ NoMaps(o) /\ NoProgs(o) /\ prog_fd[o] = NoFd /\ NoFiles(o)
      /\ bpf_obj_ptr[o] = Nothing
  BY <1>0, <1>2 DEF ObjInv, FateInv, HandleInv
<1>4. Taken(f, Own(o, "file", 0))  BY <1>1, AllocTakes
<1>5. SlotInv(o)' /\ Touched(o, "file") /\ OnlyFile(o, f, "file")'
  BY <1>0, <1>2, <1>3, <1>4, FileTouched DEF Files
<1>6. /\ NoMaps(o)' /\ NoProgs(o)' /\ prog_fd'[o] = NoFd
      /\ \A q \in Loads : q # o => Same(q)
  BY <1>2, <1>3, <1>5, TouchedFacts
<1>7. Stage("file", o, f)'  BY <1>5, <1>6 DEF Stage
<1>8. /\ pc'[t] = "file" /\ cur'[t] = o /\ fate'[o] = "loading" /\ fd'[t] = f
      /\ \A u \in Threads : u # t => pc'[u] = pc[u] /\ cur'[u] = cur[u] /\ fd'[u] = fd[u]
      /\ \A q \in Loads : q # o => fate'[q] = fate[q]
  BY <1>0, <1>1, <1>2 DEF TypeOK
<1>9. TypeOK'
  <2>1. fdtab' \in [Fds -> Owners]  BY <1>5 DEF Touched
  <2>2. pc' \in [Threads -> Labels]  BY <1>0, <1>2 DEF TypeOK, Labels
  <2>3. stray' \in BOOLEAN  BY <1>0, <1>2 DEF TypeOK
  <2>4. cur' \in [Threads -> Loads \cup {NoLoad}] /\ fd' \in [Threads -> Fds \cup {NoFd}]
    BY <1>0, <1>1, <1>2 DEF TypeOK
  <2>5. fate' \in [Loads -> {"unused", "loading", "kept", "gone"}]  BY <1>0, <1>2 DEF TypeOK
  <2>q. QED  BY <1>0, <1>2, <2>1, <2>2, <2>3, <2>4, <2>5 DEF TypeOK, Labels, fds
<1>10. Others(t, o)  BY <1>0, <1>6, <1>8 DEF Others
<1>11. ObjInv(o)'
  <2>1. FateInv(o)' /\ HandleInv(o)'  BY <1>0, <1>3, <1>8 DEF FateInv, HandleInv, Nothing
  <2>q. QED  BY <1>5, <2>1 DEF ObjInv
<1>12. ThreadInv(t)'
  <2>1. tmp_file[t] \in Loads => fate'[tmp_file[t]] = "gone"
    <3> SUFFICES ASSUME tmp_file[t] \in Loads  PROVE fate'[tmp_file[t]] = "gone"  OBVIOUS
    <3>1. fate[tmp_file[t]] = "gone"  BY <1>0, <1>2 DEF ThreadInv, TmpInv
    <3>q. QED  BY <1>0, <1>8, <3>1
  <2>2. TmpInv(t)'  BY <1>0, <1>8, <2>1 DEF TmpInv
  <2>3. Stage(pc[t], cur[t], fd[t])'  BY <1>7, <1>8 DEF Stage
  <2>q. QED  BY <1>8, <2>2, <2>3 DEF ThreadInv
<1>13. ~stray'  BY <1>0, <1>2
<1>q. QED  BY <1>0, <1>8, <1>9, <1>10, <1>11, <1>12, <1>13, LoadStep

\* rex_obj_load returns, with an object that is complete or with nothing.
LEMMA ReturnStep ==
  ASSUME IInv, NEW t \in Threads, pc[t] # "idle", NEW e \in {"kept", "gone"},
         Return(t, cur[t], e), UNCHANGED <<fdtab, tmp_file, image, fds, bpf_obj_ptr, stray>>,
         fd' = fd \/ fd' = [fd EXCEPT ![t] = NoFd],
         base_image' = base_image \/ base_image' = [base_image EXCEPT ![cur[t]] = NoLoad],
         torn' = torn \/ torn' = torn \ {cur[t]},
         e = "gone" => NoMaps(cur[t]) /\ NoProgs(cur[t]) /\ prog_fd[cur[t]] = NoFd,
         e = "kept" => pc[t] = "push"
  PROVE  IInv'
<1>1. PICK o \in Loads : o = cur[t]  BY LoadingFacts
<1>2. /\ TypeOK /\ ~stray /\ fate[o] = "loading" /\ TmpInv(t) /\ SlotInv(o)
      /\ bpf_obj_ptr[o] = Nothing
      /\ e = "kept" => AllMaps(o) /\ AllProgs(o) /\ prog_fd[o] # NoFd /\ NoFiles(o)
  BY <1>1, LoadingFacts DEF Stage
<1>3. /\ pc' = [pc EXCEPT ![t] = "idle"] /\ cur' = [cur EXCEPT ![t] = NoLoad]
      /\ fate' = [fate EXCEPT ![o] = e]
  BY <1>1 DEF Return
<1>4. /\ pc'[t] = "idle" /\ fate'[o] = e
      /\ \A u \in Threads : u # t => pc'[u] = pc[u] /\ cur'[u] = cur[u] /\ fd'[u] = fd[u]
      /\ \A q \in Loads : q # o => fate'[q] = fate[q]
  BY <1>1, <1>2, <1>3 DEF TypeOK
<1>5. \A q : Same(q)  BY TableKept DEF Same, fds
<1>6. TypeOK'
  <2>1. pc' \in [Threads -> Labels]  BY <1>2, <1>3 DEF TypeOK, Labels
  <2>2. stray' \in BOOLEAN  BY <1>2 DEF TypeOK
  <2>3. cur' \in [Threads -> Loads \cup {NoLoad}] /\ fd' \in [Threads -> Fds \cup {NoFd}]
    BY <1>2, <1>3 DEF TypeOK
  <2>4. fate' \in [Loads -> {"unused", "loading", "kept", "gone"}]  BY <1>2, <1>3 DEF TypeOK
  <2>5. base_image' \in [Loads -> Loads \cup {NoLoad}] /\ torn' \in SUBSET Loads
    BY <1>1, <1>2 DEF TypeOK
  <2>q. QED  BY <1>2, <2>1, <2>2, <2>3, <2>4, <2>5 DEF TypeOK, Labels, fds
<1>7. Others(t, o)  BY <1>4, <1>5 DEF Others
<1>8. ObjInv(o)'
  <2>1. SlotInv(o)'  BY <1>2, <1>5, SlotFrame
  <2>2. prog_fd'[o] = prog_fd[o]  BY DEF fds
  <2>3. FateInv(o)'  BY <1>1, <1>2, <1>4, <1>5, <2>2, PartsFrame DEF FateInv
  <2>4. HandleInv(o)'  BY <1>2 DEF HandleInv, Nothing
  <2>q. QED  BY <1>4, <2>1, <2>3, <2>4 DEF ObjInv
<1>9. ThreadInv(t)'
  <2>1. ASSUME tmp_file[t] \in Loads  PROVE fate'[tmp_file[t]] = "gone"
    <3>1. CASE tmp_file[t] = o
      <4>1. pc[t] # "push"  BY <1>2, <2>1, <3>1 DEF TmpInv
      <4>q. QED  BY <1>4, <3>1, <4>1
    <3>2. CASE tmp_file[t] # o
      <4>1. fate[tmp_file[t]] = "gone"  BY <1>1, <1>2, <2>1, <3>2 DEF TmpInv
      <4>q. QED  BY <1>4, <2>1, <3>2, <4>1
    <3>q. QED  BY <3>1, <3>2
  <2>2. TmpInv(t)'  BY <1>4, <2>1 DEF TmpInv
  <2>q. QED  BY <1>4, <2>2 DEF ThreadInv
<1>10. ~stray'  BY <1>2
<1>q. QED  BY <1>1, <1>4, <1>6, <1>7, <1>8, <1>9, <1>10, LoadStep

LEMMA EndStep ==
  ASSUME IInv, NEW t \in Threads, rex_obj_throws(t) \/ dtor_members(t) \/ push_back(t)
  PROVE  IInv'
<1>1. CASE rex_obj_throws(t)
  <2>1. pc[t] = "file"  BY <1>1 DEF rex_obj_throws, At
  <2>2. NoMaps(cur[t]) /\ NoProgs(cur[t]) /\ prog_fd[cur[t]] = NoFd
    BY <2>1, LoadingFacts DEF Stage
  <2>q. QED  BY <1>1, <2>1, <2>2, ReturnStep DEF rex_obj_throws
<1>2. CASE push_back(t)
  <2>1. pc[t] = "push"  BY <1>2 DEF push_back, At
  <2>q. QED  BY <1>2, <2>1, ReturnStep DEF push_back
<1>3. CASE dtor_members(t)
  <2>0. /\ pc[t] = "dtor_members"
        /\ UNCHANGED <<tmp_file, fd, image, prog_fd, bpf_obj_ptr>>
    BY <1>3 DEF dtor_members, At
  <2>1. ASSUME NEW m \in OpenMaps(cur[t]), Close(map_fd[cur[t]][m], Own(cur[t], "map", m)),
               map_fd' = [map_fd EXCEPT ![cur[t]][m] = NoFd],
               UNCHANGED <<pc, cur, fate, prog_fds, base_image, torn>>
        PROVE  IInv'
    BY <2>0, <2>1, CloseMapStep
  <2>2. ASSUME NEW p \in OpenProgs(cur[t]), Close(prog_fds[cur[t]][p], Own(cur[t], "prog", p)),
               prog_fds' = [prog_fds EXCEPT ![cur[t]][p] = NoFd],
               UNCHANGED <<pc, cur, fate, map_fd, base_image, torn>>
        PROVE  IInv'
    BY <2>0, <2>2, CloseProgStep
  <2>3. ASSUME OpenMaps(cur[t]) = {}, OpenProgs(cur[t]) = {}, Return(t, cur[t], "gone"),
               base_image' = [base_image EXCEPT ![cur[t]] = NoLoad], torn' = torn \ {cur[t]},
               UNCHANGED <<fdtab, stray, map_fd, prog_fds>>
        PROVE  IInv'
    <3>1. NoMaps(cur[t]) /\ NoProgs(cur[t])
      BY <2>3 DEF OpenMaps, OpenProgs, NoMaps, NoProgs
    <3>2. prog_fd[cur[t]] = NoFd  BY <2>0, LoadingFacts DEF Stage
    <3>q. QED  BY <2>0, <2>3, <3>1, <3>2, ReturnStep DEF fds
  <2>q. QED  BY <1>3, <2>1, <2>2, <2>3 DEF dtor_members
<1>q. QED  BY <1>1, <1>2, <1>3

\* The rest of the application takes and gives only its own descriptors.
LEMMA AppStep ==
  ASSUME IInv, AppOpen \/ AppClose
  PROVE  IInv'
<1>0. UNCHANGED <<tmp_file, pc, cur, fd, image, fds, fate, base_image, torn, bpf_obj_ptr, stray>>
  BY DEF AppOpen, AppClose
<1>1. TypeOK /\ ~stray /\ OneThreadEach  BY DEF IInv
<1>2. \E f \in Fds : Taken(f, App) \/ Given(f, App)
  BY AllocTakes DEF AppOpen, AppClose, AppFds, Given
<1>3. App \in Owners /\ App.obj = NoLoad  BY OwnFacts, OwnersFacts
<1>4. fdtab' \in [Fds -> Owners] /\ \A q \in Loads : \A k : TableSame(q, k)
  BY <1>1, <1>2, <1>3, TableStep
<1>5. \A q \in Loads : Same(q)  BY <1>0, <1>4 DEF Same, fds
<1>6. TypeOK'
  <2>1. stray' \in BOOLEAN  BY <1>0, <1>1 DEF TypeOK
  <2>q. QED  BY <1>0, <1>1, <1>4, <2>1 DEF TypeOK, fds
<1>7. \A q \in Loads : ObjInv(q)'  BY <1>0, <1>1, <1>5, ObjFrame DEF IInv
<1>8. \A u \in Threads : ThreadInv(u)'
  <2> SUFFICES ASSUME NEW u \in Threads  PROVE ThreadInv(u)'  OBVIOUS
  <2>1. ThreadInv(u) /\ (pc[u] # "idle" => cur[u] \in Loads)  BY DEF IInv, ThreadInv
  <2>q. QED  BY <1>0, <1>5, <2>1, ThreadFrame
<1>9. OneThreadEach' /\ ~stray'  BY <1>0, <1>1 DEF OneThreadEach
<1>q. QED  BY <1>6, <1>7, <1>8, <1>9 DEF IInv

\* A bpf_object is made of a kept object.
LEMMA BpfObjStep ==
  ASSUME IInv, NEW o \in Loads, bpf_obj(o)
  PROVE  IInv'
<1>0. /\ fate[o] = "kept" /\ bpf_obj_ptr' = [bpf_obj_ptr EXCEPT ![o] = Handle(o)]
      /\ UNCHANGED <<fdtab, tmp_file, pc, cur, fd, image, fds, fate, base_image, torn, stray>>
  BY DEF bpf_obj, Handle
<1>1. TypeOK /\ ~stray /\ OneThreadEach  BY DEF IInv
<1>2. \A q : Same(q)  BY <1>0, TableKept DEF Same, fds
<1>3. Handle(o) \in Handles
  <2>1. /\ parse_maps(image[o]) \subseteq MapIds
        /\ DOMAIN parse_progs(image[o]) \subseteq NrProgs
    BY <1>1, ImageFacts
  <2>2. /\ \A m \in MapIds : map_fd[o][m] \in Fds \cup {NoFd}
        /\ \A p \in NrProgs : prog_fds[o][p] \in Fds \cup {NoFd}
    BY <1>1 DEF TypeOK
  <2>3. {<<m, map_fd[o][m]>> : m \in parse_maps(image[o])} \subseteq MapIds \X (Fds \cup {NoFd})
    BY <2>1, <2>2
  <2>4. {<<p, prog_fds[o][p]>> : p \in DOMAIN parse_progs(image[o])}
          \subseteq NrProgs \X (Fds \cup {NoFd})
    BY <2>1, <2>2
  <2>q. QED  BY <2>3, <2>4 DEF Handle, Handles
<1>4. /\ bpf_obj_ptr' \in [Loads -> Handles] /\ bpf_obj_ptr'[o] = Handle(o)
      /\ \A q \in Loads : q # o => bpf_obj_ptr'[q] = bpf_obj_ptr[q]
  BY <1>0, <1>1, <1>3 DEF TypeOK
<1>5. TypeOK'
  <2>1. stray' \in BOOLEAN  BY <1>0, <1>1 DEF TypeOK
  <2>q. QED  BY <1>0, <1>1, <1>4, <2>1 DEF TypeOK, fds
<1>6. ObjInv(o)'
  <2>1. ObjInv(o)  BY DEF IInv
  <2>2. SlotInv(o)'  BY <1>0, <1>1, <1>2, <2>1, SlotFrame DEF ObjInv
  <2>3. prog_fd'[o] = prog_fd[o]  BY <1>2 DEF Same
  <2>4. FateInv(o)'  BY <1>0, <1>2, <2>1, <2>3, PartsFrame DEF ObjInv, FateInv
  <2>5. parse_maps(image[o])' = parse_maps(image[o])  BY <1>0
  <2>6. parse_progs(image[o])' = parse_progs(image[o])  BY <1>0
  <2>7. Handle(o)' = Handle(o)  BY <1>2, <2>5, <2>6 DEF Handle, Same
  <2>8. HandleInv(o)'  BY <1>0, <1>4, <2>7 DEF HandleInv
  <2>q. QED  BY <1>0, <2>1, <2>2, <2>4, <2>8 DEF ObjInv
<1>7. \A q \in Loads : q # o => ObjInv(q)'  BY <1>0, <1>1, <1>2, <1>4, ObjFrame DEF IInv
<1>8. \A u \in Threads : ThreadInv(u)'
  <2> SUFFICES ASSUME NEW u \in Threads  PROVE ThreadInv(u)'  OBVIOUS
  <2>1. ThreadInv(u)  BY DEF IInv
  <2>q. QED  BY <1>0, <1>2, <2>1, ThreadFrame
<1>9. OneThreadEach' /\ ~stray'  BY <1>0, <1>1 DEF OneThreadEach
<1>q. QED  BY <1>5, <1>6, <1>7, <1>8, <1>9 DEF IInv

-----------------------------------------------------------------------------
(***************************************************************************)
(* The theorems.                                                           *)
(***************************************************************************)
LEMMA InitInv == Init => IInv
<1> SUFFICES ASSUME Init  PROVE IInv  OBVIOUS
<1>0. \A f \in Fds : fdtab[f].obj = NoLoad  BY OwnFacts DEF Init
<1>1. TypeOK
  <2>1. fdtab \in [Fds -> Owners]  BY OwnersFacts DEF Init
  <2>2. Nothing \in Handles  BY DEF Nothing, Handles
  <2>3. bpf_obj_ptr \in [Loads -> Handles]  BY <2>2 DEF Init
  <2>4. stray \in BOOLEAN  BY DEF Init
  <2>5. /\ map_fd \in [Loads -> [MapIds -> Fds \cup {NoFd}]]
        /\ prog_fds \in [Loads -> [NrProgs -> Fds \cup {NoFd}]]
        /\ prog_fd \in [Loads -> Fds \cup {NoFd}]
    BY DEF Init
  <2>6. pc \in [Threads -> Labels]  BY DEF Init, Labels
  <2>q. QED  BY <2>1, <2>3, <2>4, <2>5, <2>6 DEF TypeOK, Labels, Init
<1>2. ASSUME NEW o \in Loads  PROVE ObjInv(o)
  <2>1. \A f \in Fds : fdtab[f].obj # o  BY <1>0
  <2>2. NoMaps(o) /\ NoProgs(o) /\ prog_fd[o] = NoFd  BY DEF Init, NoMaps, NoProgs
  <2>3. MapSlots(o)  BY <2>1, <2>2 DEF MapSlots, NoMaps
  <2>4. ProgSlots(o)  BY <2>1, <2>2 DEF ProgSlots, NoProgs
  <2>5. BaseSlot(o) /\ NoOther(o) /\ NoFiles(o)
    BY <2>1, <2>2 DEF BaseSlot, NoOther, NoFiles
  <2>6. fate[o] = "unused" /\ bpf_obj_ptr[o] = Nothing  BY DEF Init
  <2>7. FateInv(o)  BY <2>2, <2>5, <2>6 DEF FateInv
  <2>8. HandleInv(o)  BY <2>6 DEF HandleInv
  <2>q. QED  BY <2>3, <2>4, <2>5, <2>6, <2>7, <2>8 DEF ObjInv, SlotInv
<1>3. \A t \in Threads : ThreadInv(t)  BY DEF Init, ThreadInv, TmpInv, TmpNames
<1>4. OneThreadEach /\ ~stray  BY DEF Init, OneThreadEach
<1>q. QED  BY <1>1, <1>2, <1>3, <1>4 DEF IInv

LEMMA UnchangedInv == IInv /\ UNCHANGED vars => IInv'
<1> SUFFICES ASSUME IInv, UNCHANGED vars  PROVE IInv'  OBVIOUS
<1>0. UNCHANGED <<fdtab, tmp_file, pc, cur, fd, image, fds, fate, base_image, torn, bpf_obj_ptr, stray>>
  BY DEF vars, fds
<1>1. TypeOK /\ ~stray /\ OneThreadEach  BY DEF IInv
<1>2. \A q : Same(q)  BY <1>0, TableKept DEF Same, fds
<1>3. TypeOK'
  <2>1. stray' \in BOOLEAN  BY <1>0, <1>1 DEF TypeOK
  <2>q. QED  BY <1>0, <1>1, <2>1 DEF TypeOK, fds
<1>4. \A q \in Loads : ObjInv(q)'  BY <1>0, <1>1, <1>2, ObjFrame DEF IInv
<1>5. \A u \in Threads : ThreadInv(u)'
  <2> SUFFICES ASSUME NEW u \in Threads  PROVE ThreadInv(u)'  OBVIOUS
  <2>1. ThreadInv(u)  BY DEF IInv
  <2>q. QED  BY <1>0, <1>2, <2>1, ThreadFrame
<1>6. OneThreadEach' /\ ~stray'  BY <1>0, <1>1 DEF OneThreadEach
<1>q. QED  BY <1>3, <1>4, <1>5, <1>6 DEF IInv

\* The fields of every object and the descriptor table agree throughout, and
\* each object is as far as the thread that loads it.
THEOREM Invariance == Spec => []IInv
<1>1. IInv /\ [Next]_vars => IInv'
  <2> SUFFICES ASSUME IInv, [Next]_vars  PROVE IInv'  OBVIOUS
  <2>1. ASSUME NEW t \in Threads, Step(t)  PROVE IInv'
    <3>1. ASSUME NEW o \in Loads, rex_obj_open(t, o)  PROVE IInv'  BY <3>1, OpenStep
    <3>2. ASSUME NEW m \in MapIds, create(t, m)  PROVE IInv'  BY <3>2, CreateStep
    <3>3. CASE rex_obj_opened(t)  BY <3>3, OpenedStep
    <3>4. CASE \/ parse_elf(t) \/ create_fails(t) \/ fix_maps_done(t) \/ load_base_fails(t)
               \/ load_prog_fails(t) \/ load_done(t) \/ push_back_throws(t)
      BY <3>4, MovesStep
    <3>5. CASE write_tmp(t)  BY <3>5, WriteStep
    <3>6. CASE open_tmp(t)  BY <3>6, OpenTmpStep
    <3>7. CASE load_base(t)  BY <3>7, LoadBaseStep
    <3>8. CASE close_tmp(t)  BY <3>8, CloseTmpStep
    <3>9. CASE remove_tmp(t)  BY <3>9, RemoveStep
    <3>10. CASE load_prog(t)  BY <3>10, LoadProgStep
    <3>11. CASE close_fds_progs(t) \/ close_fds_base(t) \/ rex_obj_dtor(t)
      BY <3>11, CloseFdsStep
    <3>12. CASE rex_obj_throws(t) \/ dtor_members(t) \/ push_back(t)  BY <3>12, EndStep
    <3>q. QED
      BY <2>1, <3>1, <3>2, <3>3, <3>4, <3>5, <3>6, <3>7, <3>8, <3>9, <3>10, <3>11, <3>12
      DEF Step
  <2>2. ASSUME NEW o \in Loads, bpf_obj(o)  PROVE IInv'  BY <2>2, BpfObjStep
  <2>3. CASE AppOpen \/ AppClose  BY <2>3, AppStep
  <2>4. CASE UNCHANGED vars  BY <2>4, UnchangedInv
  <2>q. QED  BY <2>1, <2>2, <2>3, <2>4 DEF Next
<1>q. QED  BY <1>1, InitInv, PTL DEF Spec

\* Every variable keeps its type; a descriptor an object remembers is a number
\* of the table.
THEOREM TypeCorrect == Spec => []TypeOK
<1>1. IInv => TypeOK  BY DEF IInv
<1>q. QED  BY <1>1, Invariance, PTL

\* For any number of threads, no close in close_fds or a destructor hits a
\* descriptor of somebody else (librex.cpp rex_obj::load, ~rex_obj).
THEOREM NoForeignClose == Spec => []NoStrayClose
<1>1. IInv => NoStrayClose  BY DEF IInv, NoStrayClose
<1>q. QED  BY <1>1, Invariance, PTL

\* A failed load leaves no map and no program open, at whatever call it
\* failed (librex.cpp rex_obj_load).
THEOREM FailureGivesBack == Spec => []FailedLoadGivesBack
<1>1. IInv => FailedLoadGivesBack
  <2> SUFFICES ASSUME IInv, NEW o \in Loads, fate[o] = "gone", NEW f \in Fds, fdtab[f].obj = o
               PROVE  fdtab[f].kind \in {"file", "tmp"}
    BY DEF FailedLoadGivesBack, OwnFds
  <2>1. TypeOK /\ SlotInv(o) /\ NoMaps(o) /\ NoProgs(o) /\ prog_fd[o] = NoFd
    BY DEF IInv, ObjInv, FateInv
  <2>2. fdtab[f].kind \in {"free", "app", "file", "tmp", "map", "base", "prog"}
    BY <2>1 DEF TypeOK, Owners
  <2>3. fdtab[f].kind # "map"  BY <2>1 DEF SlotInv, MapSlots, NoMaps
  <2>4. fdtab[f].kind # "prog"  BY <2>1 DEF SlotInv, ProgSlots, NoProgs
  <2>5. fdtab[f].kind # "base"  BY <2>1 DEF SlotInv, BaseSlot
  <2>6. fdtab[f].kind \notin {"free", "app"}  BY <2>1 DEF SlotInv, NoOther
  <2>q. QED  BY <2>2, <2>3, <2>4, <2>5, <2>6
<1>q. QED  BY <1>1, Invariance, PTL

-----------------------------------------------------------------------------
(***************************************************************************)
(* The image the kernel reads.                                             *)
(***************************************************************************)
\* The object's own, or the one a failed load left under the thread's name.
OwnOrLeft(o) ==
  \/ base_image[o] \in {o, NoLoad}
  \/ o \in torn /\ base_image[o] \in Loads /\ fate[base_image[o]] = "gone"

Written(t) == pc[t] \in {"open", "base"} => tmp_file[t] = cur[t] \/ cur[t] \in torn

ImageInv == (\A o \in Loads : OwnOrLeft(o)) /\ (\A t \in Threads : Written(t))

LEMMA ImageFrame ==
  ASSUME IInv, ImageInv, NEW t \in Threads,
         \A u \in Threads : u # t => /\ pc'[u] = pc[u] /\ cur'[u] = cur[u]
                                     /\ tmp_file'[u] = tmp_file[u],
         \A q \in Loads : fate[q] = "gone" => fate'[q] = "gone",
         \A q \in Loads : pc[t] = "idle" \/ q # cur[t] =>
           base_image'[q] = base_image[q] /\ (q \in torn => q \in torn'),
         NEW c, c = cur[t], pc[t] # "idle" => OwnOrLeft(c)', Written(t)'
  PROVE  ImageInv'
<1>1. ASSUME NEW o \in Loads  PROVE OwnOrLeft(o)'
  <2>1. CASE pc[t] # "idle" /\ o = c  BY <2>1 DEF OwnOrLeft
  <2>2. CASE pc[t] = "idle" \/ o # cur[t]
    <3>1. base_image'[o] = base_image[o] /\ (o \in torn => o \in torn')  BY <2>2
    <3>q. QED  BY <3>1 DEF ImageInv, OwnOrLeft
  <2>q. QED  BY <2>1, <2>2
<1>2. ASSUME NEW u \in Threads  PROVE Written(u)'
  <2>1. CASE u = t  BY <2>1
  <2>2. CASE u # t
    <3>1. pc'[u] = pc[u] /\ cur'[u] = cur[u] /\ tmp_file'[u] = tmp_file[u]  BY <2>2
    <3>2. pc[u] # "idle" => cur[u] \in Loads /\ (pc[t] = "idle" \/ cur[u] # cur[t])
      BY <2>2 DEF IInv, ThreadInv, OneThreadEach
    <3>3. pc[u] # "idle" /\ cur[u] \in torn => cur[u] \in torn'  BY <3>2
    <3>q. QED  BY <3>1, <3>3 DEF ImageInv, Written
  <2>q. QED  BY <2>1, <2>2
<1>q. QED  BY <1>1, <1>2 DEF ImageInv

\* A step that writes no file, loads no base program and ends no load.
LEMMA QuietStep ==
  ASSUME IInv, ImageInv, NEW t \in Threads,
         UNCHANGED <<tmp_file, cur, fate, base_image, torn>>,
         pc' = pc \/ \E l : pc' = [pc EXCEPT ![t] = l] /\ (l = "base" => pc[t] = "open")
                                                       /\ l # "open"
  PROVE  ImageInv'
<1>1. TypeOK  BY DEF IInv
<1>2. \A u \in Threads : u # t => pc'[u] = pc[u]  BY <1>1 DEF TypeOK
<1>3. pc'[t] \in {"open", "base"} => pc[t] \in {"open", "base"}  BY <1>1 DEF TypeOK
<1>4. Written(t)'  BY <1>3 DEF ImageInv, Written
<1>5. PICK c : c = cur[t]  OBVIOUS
<1>6. pc[t] # "idle" => OwnOrLeft(c)'
  <2> SUFFICES ASSUME pc[t] # "idle"  PROVE OwnOrLeft(c)'  OBVIOUS
  <2>1. c \in Loads  BY <1>5 DEF IInv, ThreadInv
  <2>q. QED  BY <2>1 DEF ImageInv, OwnOrLeft
<1>q. QED  BY <1>2, <1>4, <1>5, <1>6, ImageFrame

\* rex_obj_load begins and returns.
LEMMA BorderStep ==
  ASSUME IInv, ImageInv, NEW t \in Threads, NEW o \in Loads,
         fate[o] # "gone", NEW e, fate' = [fate EXCEPT ![o] = e],
         NEW l \in {"idle", "file"}, pc' = [pc EXCEPT ![t] = l],
         \A u \in Threads : u # t => cur'[u] = cur[u],
         UNCHANGED tmp_file,
         \/ UNCHANGED <<base_image, torn>>
         \/ /\ pc[t] # "idle" /\ o = cur[t]
            /\ base_image' = [base_image EXCEPT ![o] = NoLoad] /\ torn' = torn \ {o}
  PROVE  ImageInv'
<1>1. TypeOK  BY DEF IInv
<1>2. pc'[t] = l /\ \A u \in Threads : u # t => pc'[u] = pc[u]  BY <1>1 DEF TypeOK
<1>3. \A q \in Loads : q # o => fate'[q] = fate[q]  BY <1>1 DEF TypeOK
<1>4. \A q \in Loads : fate[q] = "gone" => fate'[q] = "gone"  BY <1>3
<1>5. Written(t)'  BY <1>2 DEF Written
<1>6. PICK c : c = cur[t]  OBVIOUS
<1>7. \A q \in Loads : pc[t] = "idle" \/ q # cur[t] =>
        base_image'[q] = base_image[q] /\ (q \in torn => q \in torn')
  BY <1>1 DEF TypeOK
<1>8. pc[t] # "idle" => OwnOrLeft(c)'
  <2> SUFFICES ASSUME pc[t] # "idle"  PROVE OwnOrLeft(c)'  OBVIOUS
  <2>1. c \in Loads /\ OwnOrLeft(c)  BY <1>6 DEF IInv, ThreadInv, ImageInv
  <2>2. CASE UNCHANGED <<base_image, torn>>  BY <1>4, <2>1, <2>2 DEF OwnOrLeft
  <2>3. CASE o = cur[t] /\ base_image' = [base_image EXCEPT ![o] = NoLoad]
    <3>1. base_image'[c] = NoLoad  BY <1>1, <1>6, <2>1, <2>3 DEF TypeOK
    <3>q. QED  BY <3>1 DEF OwnOrLeft
  <2>q. QED  BY <2>2, <2>3
<1>q. QED  BY <1>2, <1>4, <1>5, <1>6, <1>7, <1>8, ImageFrame

LEMMA FilesStep ==
  ASSUME IInv, ImageInv, NEW t \in Threads, write_tmp(t) \/ load_base(t) \/ remove_tmp(t)
  PROVE  ImageInv'
<1>0. pc[t] # "idle" /\ UNCHANGED <<cur, fate>>
  BY DEF write_tmp, load_base, remove_tmp, At
<1>a. PICK c : c = cur[t]  OBVIOUS
<1>1. TypeOK /\ c \in Loads /\ TmpInv(t) /\ OwnOrLeft(c) /\ Written(t)
  BY <1>0, <1>a, LoadingFacts DEF ImageInv
<1>2. \A u \in Threads : u # t => pc'[u] = pc[u] /\ tmp_file'[u] = tmp_file[u]
  BY <1>1 DEF TypeOK, write_tmp, load_base, remove_tmp, Goto, tmp_name, TmpNames
<1>3. CASE write_tmp(t)
  <2>1. base_image' = base_image /\ torn \subseteq torn' /\ pc'[t] = "open"
    BY <1>1, <1>3 DEF write_tmp, Goto, TypeOK
  <2>2. tmp_file'[t] = cur[t] \/ cur[t] \in torn'
    BY <1>1, <1>3 DEF write_tmp, tmp_name, TypeOK, TmpNames
  <2>3. Written(t)'  BY <1>0, <2>2 DEF Written
  <2>4. OwnOrLeft(c)'  BY <1>0, <1>1, <2>1 DEF OwnOrLeft
  <2>q. QED  BY <1>0, <1>a, <1>2, <2>1, <2>3, <2>4, ImageFrame
<1>4. CASE load_base(t)
  <2>1. /\ base_image' = [base_image EXCEPT ![c] = tmp_file[t]] /\ torn' = torn
        /\ pc'[t] = "close_tmp" /\ pc[t] = "base"
    BY <1>a, <1>1, <1>4 DEF load_base, Goto, At, TypeOK, tmp_name
  <2>2. base_image'[c] = tmp_file[t] /\ \A q \in Loads : q # c => base_image'[q] = base_image[q]
    BY <1>1, <2>1 DEF TypeOK
  <2>3. tmp_file[t] \in Loads \cup {NoLoad}  BY <1>1 DEF TypeOK, TmpNames
  <2>4. tmp_file[t] \in {c, NoLoad} \/ (c \in torn /\ fate[tmp_file[t]] = "gone")
    BY <1>a, <1>1, <2>1, <2>3 DEF TmpInv, Written
  <2>5. OwnOrLeft(c)'  BY <1>0, <2>1, <2>2, <2>3, <2>4 DEF OwnOrLeft
  <2>6. Written(t)'  BY <2>1 DEF Written
  <2>q. QED  BY <1>0, <1>a, <1>2, <2>1, <2>2, <2>5, <2>6, ImageFrame
<1>5. CASE remove_tmp(t)
  <2>1. /\ UNCHANGED <<base_image, torn>>
        /\ pc'[t] \in {"progs", "close_progs", "dtor"}
    BY <1>1, <1>5 DEF remove_tmp, Goto, TypeOK
  <2>2. OwnOrLeft(c)' /\ Written(t)'  BY <1>0, <1>1, <2>1 DEF OwnOrLeft, Written
  <2>q. QED  BY <1>0, <1>a, <1>2, <2>1, <2>2, ImageFrame
<1>q. QED  BY <1>3, <1>4, <1>5

LEMMA ImageStep ==
  ASSUME IInv, ImageInv, NEW t \in Threads, Step(t)
  PROVE  ImageInv'
<1>0. pc[t] # "idle" => cur[t] \in Loads /\ fate[cur[t]] = "loading"  BY LoadingFacts
<1>t. TypeOK  BY DEF IInv
<1>1. ASSUME NEW o \in Loads, rex_obj_open(t, o)  PROVE ImageInv'
  <2>1. \A u \in Threads : u # t => cur'[u] = cur[u]
    BY <1>t, <1>1 DEF rex_obj_open, TypeOK
  <2>q. QED  BY <1>1, <2>1, BorderStep DEF rex_obj_open, Goto
<1>2. CASE rex_obj_throws(t) \/ push_back(t)
  <2>1. pc[t] # "idle" /\ \E e : Return(t, cur[t], e)
    BY <1>2 DEF rex_obj_throws, push_back, At
  <2>2. \A u \in Threads : u # t => cur'[u] = cur[u]  BY <1>t, <2>1 DEF Return, TypeOK
  <2>3. UNCHANGED <<tmp_file, base_image, torn>>  BY <1>2 DEF rex_obj_throws, push_back
  <2>q. QED  BY <1>0, <2>1, <2>2, <2>3, BorderStep DEF Return
<1>3. CASE write_tmp(t) \/ load_base(t) \/ remove_tmp(t)  BY <1>3, FilesStep
<1>4. CASE dtor_members(t)
  <2>1. pc[t] # "idle" /\ UNCHANGED tmp_file  BY <1>4 DEF dtor_members, At
  <2>2. CASE UNCHANGED <<pc, cur, fate, base_image, torn>>  BY <2>1, <2>2, QuietStep
  <2>3. CASE /\ Return(t, cur[t], "gone") /\ torn' = torn \ {cur[t]}
             /\ base_image' = [base_image EXCEPT ![cur[t]] = NoLoad]
    <3>1. \A u \in Threads : u # t => cur'[u] = cur[u]  BY <1>t, <2>3 DEF Return, TypeOK
    <3>q. QED  BY <1>0, <2>1, <2>3, <3>1, BorderStep DEF Return
  <2>q. QED  BY <1>4, <2>2, <2>3 DEF dtor_members
<1>5. CASE open_tmp(t)
  <2>1. pc' = [pc EXCEPT ![t] = "base"] \/ pc' = [pc EXCEPT ![t] = "dtor"]
    BY <1>5 DEF open_tmp, Goto
  <2>q. QED  BY <1>5, <2>1, QuietStep DEF open_tmp, At
<1>6. ASSUME NEW m \in MapIds, create(t, m)  PROVE ImageInv'
  BY <1>6, QuietStep DEF create
<1>7. CASE \/ rex_obj_opened(t) \/ parse_elf(t) \/ create_fails(t) \/ load_base_fails(t)
  BY <1>7, QuietStep DEF rex_obj_opened, parse_elf, create_fails, load_base_fails, Goto
<1>8. CASE fix_maps_done(t) \/ close_tmp(t) \/ load_prog(t) \/ load_prog_fails(t) \/ load_done(t)
  BY <1>8, QuietStep DEF fix_maps_done, close_tmp, load_prog, load_prog_fails, load_done, Goto
<1>9. CASE \/ close_fds_progs(t) \/ close_fds_base(t) \/ rex_obj_dtor(t) \/ push_back_throws(t)
  BY <1>9, QuietStep DEF close_fds_progs, close_fds_base, rex_obj_dtor, push_back_throws, Goto
<1>q. QED
  BY <1>1, <1>2, <1>3, <1>4, <1>5, <1>6, <1>7, <1>8, <1>9 DEF Step

\* For any number of threads that load at once, the kernel reads an object's
\* own image, unless its file was not written; then it may read the file a
\* failed load of the same thread left, and no other (librex.cpp
\* rex_obj::load).
THEOREM LoadsOwnImage == Spec => []OwnImageLoaded
<1>1. Init => ImageInv  BY DEF Init, ImageInv, OwnOrLeft, Written
<1>2. IInv /\ ImageInv /\ [Next]_vars => ImageInv'
  <2> SUFFICES ASSUME IInv, ImageInv, [Next]_vars  PROVE ImageInv'  OBVIOUS
  <2>1. ASSUME NEW t \in Threads, Step(t)  PROVE ImageInv'  BY <2>1, ImageStep
  <2>2. CASE UNCHANGED <<tmp_file, pc, cur, fate, base_image, torn>>
    BY <2>2 DEF ImageInv, OwnOrLeft, Written
  <2>q. QED  BY <2>1, <2>2 DEF Next, bpf_obj, AppOpen, AppClose, vars
<1>3. ImageInv => OwnImageLoaded  BY DEF ImageInv, OwnOrLeft, OwnImageLoaded
<1>q. QED  BY <1>1, <1>2, <1>3, Invariance, PTL DEF Spec

\* What rex_obj_load returns is complete: every map and program of the image
\* and the base program are open, nothing else of the load is, and its
\* temporary file is gone.
THEOREM KeptIsComplete == Spec => []KeptObjectComplete
<1>1. IInv => KeptObjectComplete
  <2> SUFFICES ASSUME IInv, NEW o \in Loads, fate[o] = "kept"
               PROVE  /\ KindsOpen(o) = {<<"base", 0>>}
                           \cup {<<"map", m>> : m \in parse_maps(image[o])}
                           \cup {<<"prog", p>> : p \in DOMAIN parse_progs(image[o])}
                      /\ \A n \in TmpNames : tmp_file[n] # o
    BY DEF KeptObjectComplete
  <2> DEFINE M == parse_maps(image[o])
             P == DOMAIN parse_progs(image[o])
  <2>1. /\ TypeOK /\ MapSlots(o) /\ ProgSlots(o) /\ BaseSlot(o) /\ NoOther(o)
        /\ AllMaps(o) /\ AllProgs(o) /\ prog_fd[o] # NoFd /\ NoFiles(o)
    BY DEF IInv, ObjInv, FateInv, SlotInv
  <2>2. M \subseteq MapIds /\ P \subseteq NrProgs  BY <2>1, ImageFacts
  <2>3. /\ \A m \in MapIds : map_fd[o][m] \in Fds \cup {NoFd}
        /\ \A p \in NrProgs : prog_fds[o][p] \in Fds \cup {NoFd}
        /\ prog_fd[o] \in Fds \cup {NoFd}
        /\ \A f \in Fds : fdtab[f].kind \in {"free", "app", "file", "tmp", "map", "base", "prog"}
    BY <2>1 DEF TypeOK, Owners
  <2>4. ASSUME NEW f \in Fds, fdtab[f].obj = o
        PROVE  \/ fdtab[f].kind = "base" /\ fdtab[f].i = 0
               \/ fdtab[f].kind = "map" /\ fdtab[f].i \in M
               \/ fdtab[f].kind = "prog" /\ fdtab[f].i \in P
    <3>1. fdtab[f].kind \in {"map", "base", "prog"}
      BY <2>1, <2>3, <2>4 DEF NoOther, NoFiles, Files
    <3>2. CASE fdtab[f].kind = "map"
      <4>1. fdtab[f].i \in MapIds /\ map_fd[o][fdtab[f].i] = f  BY <2>1, <2>4, <3>2 DEF MapSlots
      <4>2. fdtab[f].i \in M  BY <2>1, <4>1 DEF MapSlots
      <4>q. QED  BY <3>2, <4>2
    <3>3. CASE fdtab[f].kind = "prog"
      <4>1. fdtab[f].i \in NrProgs /\ prog_fds[o][fdtab[f].i] = f
        BY <2>1, <2>4, <3>3 DEF ProgSlots
      <4>2. fdtab[f].i \in P  BY <2>1, <4>1 DEF ProgSlots
      <4>q. QED  BY <3>3, <4>2
    <3>4. CASE fdtab[f].kind = "base"  BY <2>1, <2>4, <3>4 DEF BaseSlot
    <3>q. QED  BY <3>1, <3>2, <3>3, <3>4
  <2>5. \E f \in OwnFds(o) : fdtab[f].kind = "base" /\ fdtab[f].i = 0
    <3>1. prog_fd[o] \in Fds /\ fdtab[prog_fd[o]] = Own(o, "base", 0)
      BY <2>1, <2>3 DEF BaseSlot
    <3>q. QED  BY <3>1, OwnFacts DEF OwnFds
  <2>6. ASSUME NEW m \in M  PROVE \E f \in OwnFds(o) : fdtab[f].kind = "map" /\ fdtab[f].i = m
    <3>1. map_fd[o][m] \in Fds /\ fdtab[map_fd[o][m]] = Own(o, "map", m)
      BY <2>1, <2>2, <2>3 DEF AllMaps, MapSlots
    <3>q. QED  BY <3>1, OwnFacts DEF OwnFds
  <2>7. ASSUME NEW p \in P  PROVE \E f \in OwnFds(o) : fdtab[f].kind = "prog" /\ fdtab[f].i = p
    <3>1. prog_fds[o][p] \in Fds /\ fdtab[prog_fds[o][p]] = Own(o, "prog", p)
      BY <2>1, <2>2, <2>3 DEF AllProgs, ProgSlots
    <3>2. /\ fdtab[prog_fds[o][p]].obj = o /\ fdtab[prog_fds[o][p]].kind = "prog"
          /\ fdtab[prog_fds[o][p]].i = p
      BY <3>1, OwnFacts
    <3> HIDE DEF P
    <3>q. QED  BY <3>1, <3>2 DEF OwnFds
  <2> HIDE DEF M, P
  <2>8. KindsOpen(o) \subseteq {<<"base", 0>>} \cup {<<"map", m>> : m \in M}
                               \cup {<<"prog", p>> : p \in P}
    BY <2>4 DEF KindsOpen, OwnFds
  <2>9. /\ <<"base", 0>> \in KindsOpen(o)
        /\ \A m \in M : <<"map", m>> \in KindsOpen(o)
        /\ \A p \in P : <<"prog", p>> \in KindsOpen(o)
    BY <2>5, <2>6, <2>7 DEF KindsOpen
  <2>10. KindsOpen(o) = {<<"base", 0>>} \cup {<<"map", m>> : m \in M}
                         \cup {<<"prog", p>> : p \in P}
    BY <2>8, <2>9
  <2>11. ASSUME NEW n \in Threads, tmp_file[n] = o  PROVE FALSE
    BY <2>11 DEF IInv, ThreadInv, TmpInv
  <2>q. QED  BY <2>10, <2>11 DEF M, P, TmpNames
<1>q. QED  BY <1>1, Invariance, PTL

\* The descriptors in a bpf_object that was handed out go on naming the maps
\* and programs of its object, whatever other threads load, fail or close
\* (librex.cpp rex_obj::bpf_obj).
THEOREM HandlesValid == Spec => []HandlesStayValid
<1>1. IInv => HandlesStayValid
  <2> SUFFICES ASSUME IInv, NEW o \in Loads
               PROVE  /\ \A h \in bpf_obj_ptr[o].maps : fdtab[h[2]] = Own(o, "map", h[1])
                      /\ \A h \in bpf_obj_ptr[o].progs : fdtab[h[2]] = Own(o, "prog", h[1])
    BY DEF HandlesStayValid
  <2>1. CASE bpf_obj_ptr[o] = Nothing  BY <2>1 DEF Nothing
  <2>2. CASE fate[o] = "kept" /\ bpf_obj_ptr[o] = Handle(o)
    <3>1. TypeOK /\ MapSlots(o) /\ ProgSlots(o) /\ AllMaps(o) /\ AllProgs(o)
      BY <2>2 DEF IInv, ObjInv, FateInv, SlotInv
    <3>2. \A m \in parse_maps(image[o]) : fdtab[map_fd[o][m]] = Own(o, "map", m)
      BY <3>1, ImageFacts DEF AllMaps, MapSlots
    <3>3. \A p \in DOMAIN parse_progs(image[o]) : fdtab[prog_fds[o][p]] = Own(o, "prog", p)
      BY <3>1, ImageFacts DEF AllProgs, ProgSlots
    <3>4. /\ bpf_obj_ptr[o].maps = {<<m, map_fd[o][m]>> : m \in parse_maps(image[o])}
          /\ bpf_obj_ptr[o].progs = {<<p, prog_fds[o][p]>> : p \in DOMAIN parse_progs(image[o])}
      BY <2>2 DEF Handle
    <3>q. QED  BY <3>2, <3>3, <3>4
  <2>q. QED  BY <2>1, <2>2 DEF IInv, ObjInv, HandleInv
<1>q. QED  BY <1>1, Invariance, PTL

=============================================================================
