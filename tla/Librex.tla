------------------------------- MODULE Librex -------------------------------
(***************************************************************************)
(* librex/lib/librex.cpp, the user-space loader: rex_obj_load parses an    *)
(* ELF image, creates its maps, hands the image to the kernel in a         *)
(* temporary file, loads its programs, and keeps the object, or gives back *)
(* what it took on every failure.  Threads of an application load at the   *)
(* same time and share one table of file descriptors with the rest of the  *)
(* application, so a descriptor closed twice may by then be another's.     *)
(*                                                                         *)
(* System calls may fail at any time.  An image is the part of an ELF file *)
(* that decides what is loaded.  The vector objs and the pointer cached by *)
(* rex_obj_get_bpf have no lock: callers are taken not to use those two at *)
(* the same time.                                                          *)
(***************************************************************************)
EXTENDS Integers, Sequences, FiniteSets

CONSTANTS
  Threads,
  Loads,           \* bound: the calls of rex_obj_load, one object for each
  Images,
  Fds,             \* numbers of the descriptor table
  MaxAppFds,       \* bound: descriptors the application has open
  NoFd, NoLoad

ASSUME LibrexAssumption ==
  /\ Fds \subseteq Nat /\ NoFd \notin Fds /\ NoLoad \notin Loads /\ MaxAppFds \in Nat
  /\ \A img \in Images : /\ img.maps_scn \in BOOLEAN
                         /\ \A s \in DOMAIN img.syms : img.syms[s].value \in Nat

VARIABLES
  fdtab,              \* the descriptor table: who opened what
  tmp_file,           \* the object whose image a temporary file holds
  pc, cur,            \* per thread: position, and the object it is loading
  fd,                 \* per thread: the local fd of the constructor and of load
  image,              \* per object: its image
  map_fd, prog_fds,   \* per object: map_defs[..].map_fd, progs[..].prog_fd
  prog_fd,            \* per object: the base program
  fate,               \* per object: unused, loading, kept or gone
  base_image,         \* per object: the object whose image the kernel loaded
  torn,               \* history: the loads, not gone, whose image was not all written
  bpf_obj_ptr,        \* per object: descriptors in the bpf_object handed out
  stray               \* a close hit a descriptor of somebody else

vars == <<fdtab, tmp_file, pc, cur, fd, image, map_fd, prog_fds, prog_fd, fate,
          base_image, torn, bpf_obj_ptr, stray>>

-----------------------------------------------------------------------------
(***************************************************************************)
(* Parsing.  A symbol has a section, a type, an address, a size that is or *)
(* is not that of map_def, and a section name that is or is not known to   *)
(* find_sec_def.                                                           *)
(***************************************************************************)
\* Addresses of the symbols that define maps; the same address counts once.
parse_maps(img) ==
  IF ~img.maps_scn THEN {}
  ELSE {img.syms[s].value : s \in {s \in DOMAIN img.syms :
          /\ img.syms[s].shndx = "maps" /\ img.syms[s].type = "object"
          /\ img.syms[s].map_sized}}

\* Programs in the order of the symbol table.
parse_progs(img) ==
  SelectSeq(img.syms, LAMBDA s : s.type = "func" /\ s.sec_def)

timeout_handler_found(img) ==
  \E s \in DOMAIN img.syms :
    img.syms[s].type = "func" /\ img.syms[s].name = "__rex_handle_timeout"

parse_rela_dyn(img) ==
  \A r \in DOMAIN img.relas : img.relas[r] \in {"RELATIVE", "GLOB_DAT"}

parse_elf_ok(img) == timeout_handler_found(img) /\ parse_rela_dyn(img)

MapIds  == UNION {parse_maps(img) : img \in Images}
NrProgs == UNION {DOMAIN parse_progs(img) : img \in Images}

-----------------------------------------------------------------------------
Own(o, k, i) == [obj |-> o, kind |-> k, i |-> i]
App  == Own(NoLoad, "app", 0)
Free == Own(NoLoad, "free", 0)
FreeFds == {f \in Fds : fdtab[f] = Free}
Nothing == [maps |-> {}, progs |-> {}]

\* The kernel gives out the lowest free number.
Alloc(f, owner) ==
  /\ f \in FreeFds /\ \A g \in FreeFds : f <= g
  /\ fdtab' = [fdtab EXCEPT ![f] = owner]

\* close(f), meant for a descriptor that owner opened.  close(-1) does nothing.
Close(f, owner) ==
  IF f = NoFd THEN UNCHANGED <<fdtab, stray>>
  ELSE /\ fdtab' = [fdtab EXCEPT ![f] = Free]
       /\ stray' = (stray \/ fdtab[f] # owner)

\* The name "/tmp/rex-" and the thread id; it stands for the file.
TmpNames == Threads

Owners  == [obj: Loads \cup {NoLoad}, i: MapIds \cup NrProgs \cup {0},
            kind: {"free", "app", "file", "tmp", "map", "base", "prog"}]
Handles == [maps:  SUBSET (MapIds \X (Fds \cup {NoFd})),
            progs: SUBSET (NrProgs \X (Fds \cup {NoFd}))]

TypeOK ==
  /\ fdtab \in [Fds -> Owners]
  /\ tmp_file \in [TmpNames -> Loads \cup {NoLoad}]
  /\ pc \in [Threads -> {"idle", "file", "parse", "fix_maps", "write", "open",
                         "base", "close_tmp", "remove", "progs", "close_progs",
                         "close_base", "dtor", "dtor_members", "push"}]
  /\ cur \in [Threads -> Loads \cup {NoLoad}]
  /\ fd \in [Threads -> Fds \cup {NoFd}]
  /\ image \in [Loads -> Images]
  /\ map_fd \in [Loads -> [MapIds -> Fds \cup {NoFd}]]
  /\ prog_fds \in [Loads -> [NrProgs -> Fds \cup {NoFd}]]
  /\ prog_fd \in [Loads -> Fds \cup {NoFd}]
  /\ fate \in [Loads -> {"unused", "loading", "kept", "gone"}]
  /\ base_image \in [Loads -> Loads \cup {NoLoad}]
  /\ torn \in SUBSET Loads
  /\ bpf_obj_ptr \in [Loads -> Handles]
  /\ stray \in BOOLEAN

Init ==
  /\ fdtab = [f \in Fds |-> Free]
  /\ tmp_file = [n \in TmpNames |-> NoLoad]
  /\ pc = [t \in Threads |-> "idle"]
  /\ cur = [t \in Threads |-> NoLoad]
  /\ fd = [t \in Threads |-> NoFd]
  /\ image \in [Loads -> Images]
  /\ map_fd = [o \in Loads |-> [m \in MapIds |-> NoFd]]
  /\ prog_fds = [o \in Loads |-> [p \in NrProgs |-> NoFd]]
  /\ prog_fd = [o \in Loads |-> NoFd]
  /\ fate = [o \in Loads |-> "unused"]
  /\ base_image = [o \in Loads |-> NoLoad]
  /\ torn = {}
  /\ bpf_obj_ptr = [o \in Loads |-> Nothing]
  /\ stray = FALSE

At(t, label)   == pc[t] = label
Goto(t, label) == pc' = [pc EXCEPT ![t] = label]
fds == <<map_fd, prog_fds, prog_fd>>

\* rex_obj_load returns.
Return(t, o, f) ==
  /\ pc' = [pc EXCEPT ![t] = "idle"]
  /\ cur' = [cur EXCEPT ![t] = NoLoad]
  /\ fate' = [fate EXCEPT ![o] = f]

-----------------------------------------------------------------------------
(***************************************************************************)
(* The constructor.                                                        *)
(***************************************************************************)
\* open; where it fails elf_begin fails too, and nothing has happened.
rex_obj_open(t, o) ==
  /\ At(t, "idle")
  /\ fate[o] = "unused"
  /\ \E f \in Fds : Alloc(f, Own(o, "file", 0)) /\ fd' = [fd EXCEPT ![t] = f]
  /\ Goto(t, "file")
  /\ cur' = [cur EXCEPT ![t] = o]
  /\ fate' = [fate EXCEPT ![o] = "loading"]
  /\ UNCHANGED <<tmp_file, image, fds, base_image, torn, bpf_obj_ptr, stray>>

\* elf_begin, fstat or mmap failed.  The exception leaves the file open.
rex_obj_throws(t) ==
  /\ At(t, "file")
  /\ Return(t, cur[t], "gone")
  /\ fd' = [fd EXCEPT ![t] = NoFd]
  /\ UNCHANGED <<fdtab, tmp_file, image, fds, base_image, torn, bpf_obj_ptr, stray>>

rex_obj_opened(t) ==
  /\ At(t, "file")
  /\ Close(fd[t], Own(cur[t], "file", 0))
  /\ fd' = [fd EXCEPT ![t] = NoFd]
  /\ Goto(t, "parse")
  /\ UNCHANGED <<tmp_file, cur, image, fds, fate, base_image, torn, bpf_obj_ptr>>

\* Reading the section headers, a section name or a section may fail too.
parse_elf(t) ==
  /\ At(t, "parse")
  /\ \/ parse_elf_ok(image[cur[t]]) /\ Goto(t, "fix_maps")
     \/ Goto(t, "dtor")
  /\ UNCHANGED <<fdtab, tmp_file, cur, fd, image, fds, fate, base_image, torn, bpf_obj_ptr, stray>>

-----------------------------------------------------------------------------
(***************************************************************************)
(* fix_maps.                                                               *)
(***************************************************************************)
MapsLeft(o) == {m \in parse_maps(image[o]) : map_fd[o][m] = NoFd}

create(t, m) ==
  /\ At(t, "fix_maps")
  /\ m \in MapsLeft(cur[t])
  /\ \E f \in Fds : /\ Alloc(f, Own(cur[t], "map", m))
                    /\ map_fd' = [map_fd EXCEPT ![cur[t]][m] = f]
  /\ UNCHANGED <<tmp_file, pc, cur, fd, image, prog_fds, prog_fd, fate, base_image, torn,
                 bpf_obj_ptr, stray>>

create_fails(t) ==
  /\ At(t, "fix_maps")
  /\ MapsLeft(cur[t]) # {}
  /\ Goto(t, "dtor")
  /\ UNCHANGED <<fdtab, tmp_file, cur, fd, image, fds, fate, base_image, torn, bpf_obj_ptr, stray>>

fix_maps_done(t) ==
  /\ At(t, "fix_maps")
  /\ MapsLeft(cur[t]) = {}
  /\ Goto(t, "write")
  /\ UNCHANGED <<fdtab, tmp_file, cur, fd, image, fds, fate, base_image, torn, bpf_obj_ptr, stray>>

-----------------------------------------------------------------------------
(***************************************************************************)
(* load.                                                                   *)
(***************************************************************************)
\* Faulty variant: one name for all.
tmp_name_shared(t) == CHOOSE n \in TmpNames : TRUE

tmp_name(t) == t

\* Nothing looks at the state of the stream: the file is written, or written in
\* part, or cannot be opened and stays as an earlier load of the thread left it.
write_tmp(t) ==
  /\ At(t, "write")
  /\ \/ /\ FreeFds # {}
        /\ tmp_file' = [tmp_file EXCEPT ![tmp_name(t)] = cur[t]]
        /\ torn' = torn \/ torn' = torn \cup {cur[t]}
     \/ /\ torn' = torn \cup {cur[t]}
        /\ UNCHANGED tmp_file
  /\ Goto(t, "open")
  /\ UNCHANGED <<fdtab, cur, fd, image, fds, fate, base_image, bpf_obj_ptr, stray>>

\* A failed open is noticed by the kernel: the base program is not loaded.
open_tmp(t) ==
  /\ At(t, "open")
  /\ \/ /\ tmp_file[tmp_name(t)] # NoLoad
        /\ \E f \in Fds : Alloc(f, Own(cur[t], "tmp", 0)) /\ fd' = [fd EXCEPT ![t] = f]
        /\ Goto(t, "base")
     \/ /\ Goto(t, "dtor")
        /\ UNCHANGED <<fdtab, fd>>
  /\ UNCHANGED <<tmp_file, cur, image, fds, fate, base_image, torn, bpf_obj_ptr, stray>>

load_base(t) ==
  /\ At(t, "base")
  /\ \E f \in Fds : /\ Alloc(f, Own(cur[t], "base", 0))
                    /\ prog_fd' = [prog_fd EXCEPT ![cur[t]] = f]
  /\ base_image' = [base_image EXCEPT ![cur[t]] = tmp_file[tmp_name(t)]]
  /\ Goto(t, "close_tmp")
  /\ UNCHANGED <<tmp_file, cur, fd, image, map_fd, prog_fds, fate, torn, bpf_obj_ptr, stray>>

\* return -1 without closing or removing the temporary file.
load_base_fails(t) ==
  /\ At(t, "base")
  /\ Goto(t, "dtor")
  /\ fd' = [fd EXCEPT ![t] = NoFd]
  /\ UNCHANGED <<fdtab, tmp_file, cur, image, fds, fate, base_image, torn, bpf_obj_ptr, stray>>

close_tmp(t) ==
  /\ At(t, "close_tmp")
  /\ Close(fd[t], Own(cur[t], "tmp", 0))
  /\ fd' = [fd EXCEPT ![t] = NoFd]
  /\ Goto(t, "remove")
  /\ UNCHANGED <<tmp_file, cur, image, fds, fate, base_image, torn, bpf_obj_ptr>>

\* Faulty variant: the temporary file is left behind.
remove_nothing(t) ==
  /\ At(t, "remove")
  /\ Goto(t, "progs")
  /\ UNCHANGED <<fdtab, tmp_file, cur, fd, image, fds, fate, base_image, torn, bpf_obj_ptr, stray>>

\* remove returns false if the file has gone already, and throws when it
\* cannot remove it; the exception ends in the destructor.
remove_tmp(t) ==
  /\ At(t, "remove")
  /\ \/ /\ tmp_file' = [tmp_file EXCEPT ![tmp_name(t)] = NoLoad]
        /\ Goto(t, "progs") \/ Goto(t, "close_progs")
     \/ /\ Goto(t, "dtor")
        /\ UNCHANGED tmp_file
  /\ UNCHANGED <<fdtab, cur, fd, image, fds, fate, base_image, torn, bpf_obj_ptr, stray>>

ProgsLeft(o) == {p \in DOMAIN parse_progs(image[o]) : prog_fds[o][p] = NoFd}

\* BPF_PROG_LOAD_REX for the next program.
load_prog(t) ==
  /\ At(t, "progs")
  /\ \E p \in ProgsLeft(cur[t]) :
       /\ \A q \in ProgsLeft(cur[t]) : p <= q
       /\ \E f \in Fds : /\ Alloc(f, Own(cur[t], "prog", p))
                         /\ prog_fds' = [prog_fds EXCEPT ![cur[t]][p] = f]
  /\ UNCHANGED <<tmp_file, pc, cur, fd, image, map_fd, prog_fd, fate, base_image, torn,
                 bpf_obj_ptr, stray>>

load_prog_fails(t) ==
  /\ At(t, "progs")
  /\ ProgsLeft(cur[t]) # {}
  /\ Goto(t, "close_progs")
  /\ UNCHANGED <<fdtab, tmp_file, cur, fd, image, fds, fate, base_image, torn, bpf_obj_ptr, stray>>

load_done(t) ==
  /\ At(t, "progs")
  /\ ProgsLeft(cur[t]) = {}
  /\ Goto(t, "push")
  /\ UNCHANGED <<fdtab, tmp_file, cur, fd, image, fds, fate, base_image, torn, bpf_obj_ptr, stray>>

\* close_fds: the programs, then the base program; both become nullopt.
OpenProgs(o) == {p \in NrProgs : prog_fds[o][p] # NoFd}

close_fds_progs(t) ==
  /\ At(t, "close_progs")
  /\ LET o == cur[t] IN
     \/ \E p \in OpenProgs(o) :
          /\ \A q \in OpenProgs(o) : p <= q
          /\ Close(prog_fds[o][p], Own(o, "prog", p))
          /\ prog_fds' = [prog_fds EXCEPT ![o][p] = NoFd]
          /\ UNCHANGED pc
     \/ /\ OpenProgs(o) = {}
        /\ Goto(t, "close_base")
        /\ UNCHANGED <<fdtab, prog_fds, stray>>
  /\ UNCHANGED <<tmp_file, cur, fd, image, map_fd, prog_fd, fate, base_image, torn, bpf_obj_ptr>>

\* Faulty variant: the optional keeps its value.
close_fds_base_keeps(t) ==
  /\ At(t, "close_base")
  /\ Close(prog_fd[cur[t]], Own(cur[t], "base", 0))
  /\ Goto(t, "dtor")
  /\ UNCHANGED <<tmp_file, cur, fd, image, fds, fate, base_image, torn, bpf_obj_ptr>>

close_fds_base(t) ==
  /\ At(t, "close_base")
  /\ Close(prog_fd[cur[t]], Own(cur[t], "base", 0))
  /\ prog_fd' = [prog_fd EXCEPT ![cur[t]] = NoFd]
  /\ Goto(t, "dtor")
  /\ UNCHANGED <<tmp_file, cur, fd, image, map_fd, prog_fds, fate, base_image, torn, bpf_obj_ptr>>

-----------------------------------------------------------------------------
(***************************************************************************)
(* The end of rex_obj_load: the object is destroyed or kept.               *)
(***************************************************************************)
\* Faulty variant: the destructor has no body.
rex_obj_dtor_none(t) ==
  /\ At(t, "dtor")
  /\ Goto(t, "dtor_members")
  /\ UNCHANGED <<fdtab, tmp_file, cur, fd, image, fds, fate, base_image, torn, bpf_obj_ptr, stray>>

\* The body of the destructor closes the base program.
rex_obj_dtor(t) ==
  /\ At(t, "dtor")
  /\ Close(prog_fd[cur[t]], Own(cur[t], "base", 0))
  /\ prog_fd' = [prog_fd EXCEPT ![cur[t]] = NoFd]
  /\ Goto(t, "dtor_members")
  /\ UNCHANGED <<tmp_file, cur, fd, image, map_fd, prog_fds, fate, base_image, torn, bpf_obj_ptr>>

OpenMaps(o) == {m \in MapIds : map_fd[o][m] # NoFd}

\* The members follow: map_defs, then progs.
dtor_members(t) ==
  /\ At(t, "dtor_members")
  /\ LET o == cur[t] IN
     \/ \E m \in OpenMaps(o) :
          /\ Close(map_fd[o][m], Own(o, "map", m))
          /\ map_fd' = [map_fd EXCEPT ![o][m] = NoFd]
          /\ UNCHANGED <<pc, cur, fate, prog_fds, base_image, torn>>
     \/ /\ OpenMaps(o) = {}
        /\ \E p \in OpenProgs(o) :
             /\ \A q \in OpenProgs(o) : p <= q
             /\ Close(prog_fds[o][p], Own(o, "prog", p))
             /\ prog_fds' = [prog_fds EXCEPT ![o][p] = NoFd]
        /\ UNCHANGED <<pc, cur, fate, map_fd, base_image, torn>>
     \/ /\ OpenMaps(o) = {} /\ OpenProgs(o) = {}
        /\ Return(t, o, "gone")
        /\ base_image' = [base_image EXCEPT ![o] = NoLoad]
        /\ torn' = torn \ {o}
        /\ UNCHANGED <<fdtab, stray, map_fd, prog_fds>>
  /\ UNCHANGED <<tmp_file, fd, image, prog_fd, bpf_obj_ptr>>

\* objs.push_back: the caller gets a pointer to the object.
push_back(t) ==
  /\ At(t, "push")
  /\ Return(t, cur[t], "kept")
  /\ UNCHANGED <<fdtab, tmp_file, fd, image, fds, base_image, torn, bpf_obj_ptr, stray>>

\* The vector cannot grow: the exception destroys the loaded object.
push_back_throws(t) ==
  /\ At(t, "push")
  /\ Goto(t, "dtor")
  /\ UNCHANGED <<fdtab, tmp_file, cur, fd, image, fds, fate, base_image, torn, bpf_obj_ptr, stray>>

\* rex_obj_get_bpf, the first time; later calls return the same pointer.
bpf_obj(o) ==
  /\ fate[o] = "kept"
  /\ bpf_obj_ptr[o] = Nothing
  /\ MapsLeft(o) = {} /\ ProgsLeft(o) = {}     \* else nullptr
  /\ bpf_obj_ptr' = [bpf_obj_ptr EXCEPT ![o] =
       [maps  |-> {<<m, map_fd[o][m]>> : m \in parse_maps(image[o])},
        progs |-> {<<p, prog_fds[o][p]>> : p \in DOMAIN parse_progs(image[o])}]]
  /\ UNCHANGED <<fdtab, tmp_file, pc, cur, fd, image, fds, fate, base_image, torn, stray>>

-----------------------------------------------------------------------------
\* The rest of the application.
AppFds == {f \in Fds : fdtab[f] = App}

AppOpen ==
  /\ Cardinality(AppFds) < MaxAppFds
  /\ \E f \in Fds : Alloc(f, App)
  /\ UNCHANGED <<tmp_file, pc, cur, fd, image, fds, fate, base_image, torn, bpf_obj_ptr, stray>>

AppClose ==
  /\ \E f \in AppFds : fdtab' = [fdtab EXCEPT ![f] = Free]
  /\ UNCHANGED <<tmp_file, pc, cur, fd, image, fds, fate, base_image, torn, bpf_obj_ptr, stray>>

Step(t) ==
  \/ \E o \in Loads : rex_obj_open(t, o)
  \/ rex_obj_throws(t) \/ rex_obj_opened(t)
  \/ parse_elf(t)
  \/ \E m \in MapIds : create(t, m)
  \/ create_fails(t) \/ fix_maps_done(t)
  \/ write_tmp(t) \/ open_tmp(t)
  \/ load_base(t) \/ load_base_fails(t)
  \/ close_tmp(t) \/ remove_tmp(t)
  \/ load_prog(t) \/ load_prog_fails(t) \/ load_done(t)
  \/ close_fds_progs(t) \/ close_fds_base(t)
  \/ rex_obj_dtor(t) \/ dtor_members(t)
  \/ push_back(t) \/ push_back_throws(t)

Next ==
  \/ \E t \in Threads : Step(t)
  \/ \E o \in Loads : bpf_obj(o)
  \/ AppOpen \/ AppClose

Spec == Init /\ [][Next]_vars

-----------------------------------------------------------------------------
(***************************************************************************)
(* Properties.                                                             *)
(***************************************************************************)
OwnFds(o) == {f \in Fds : fdtab[f].obj = o}
KindsOpen(o) == {<<fdtab[f].kind, fdtab[f].i>> : f \in OwnFds(o)}

\* No close of librex hits a descriptor that was opened by somebody else
\* (librex.cpp rex_obj::load close_fds, then the destructors).
NoStrayClose == ~stray

\* A load that failed gives back its maps and programs; only the file that
\* the constructor or a failed base load leaves open may remain (librex.cpp
\* rex_obj_load and the destructors).
FailedLoadGivesBack ==
  \A o \in Loads : fate[o] = "gone" =>
    \A f \in OwnFds(o) : fdtab[f].kind \in {"file", "tmp"}

\* An object that is kept has each map and program of its image open, the base
\* program, nothing else, and no temporary file (librex.cpp rex_obj::load).
KeptObjectComplete ==
  \A o \in Loads : fate[o] = "kept" =>
    /\ KindsOpen(o) = {<<"base", 0>>}
                      \cup {<<"map", m>> : m \in parse_maps(image[o])}
                      \cup {<<"prog", p>> : p \in DOMAIN parse_progs(image[o])}
    /\ \A n \in TmpNames : tmp_file[n] # o

\* The kernel loads the base program of an object from that object's image,
\* however many threads load at the same time; only a load whose file was not
\* written may get another's, and then that of a load which failed before it,
\* never of one that is kept or under way (librex.cpp rex_obj::load, whose
\* comment at line 656 expects a race of objects loaded at the same time).
OwnImageLoaded ==
  \A o \in Loads :
    \/ base_image[o] \in {o, NoLoad}
    \/ o \in torn /\ fate[base_image[o]] = "gone"

\* The descriptors in a bpf_object that was handed out stay those of its maps
\* and programs (librex.cpp rex_obj::bpf_obj; docs/librex.md leaves them to
\* librex).
HandlesStayValid ==
  \A o \in Loads :
    /\ \A h \in bpf_obj_ptr[o].maps : fdtab[h[2]] = Own(o, "map", h[1])
    /\ \A h \in bpf_obj_ptr[o].progs : fdtab[h[2]] = Own(o, "prog", h[1])

=============================================================================
