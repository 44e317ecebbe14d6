------------------------------ MODULE Counting ------------------------------
(***************************************************************************)
(* The counting samples: syscount (calls, errors and latency per system    *)
(* call), trace_event (samples per stack) and syscall_tp (opens in an      *)
(* array).  They share one idiom: look a key up and add through the        *)
(* reference, or insert it when it is not there.  The programs of several  *)
(* tasks run at the same time, and every access to a map is a step; adding *)
(* is a load and a store.                                                  *)
(*                                                                         *)
(* The clock counts the calls, so a start time tells which call wrote it;  *)
(* a latency is the number of calls that were added up.                    *)
(***************************************************************************)
EXTENDS RexMaps

CONSTANTS Tasks, Ids,      \* tasks by pid; system calls or stacks
          CountsSize, ErrorsSize, StartSize, LatencySize,  \* max_size of the maps
          MaxCalls         \* bound: calls or events

ASSUME CountingAssumption ==
  /\ {CountsSize, ErrorsSize, StartSize, LatencySize, MaxCalls} \subseteq Nat
  /\ IsFiniteSet(Tasks) /\ IsFiniteSet(Ids) /\ Ids # {}

VARIABLES
  sample,    \* the loaded sample
  tab,       \* the counting maps
  start,     \* SYSCALL_START
  pc,        \* where each task is
  id,        \* its system call; the low half of its key in SYSCALL_START
  clock,     \* calls so far, the time the model knows
  call,      \* when its call began
  reg,       \* the value its program has loaded
  gone,      \* tasks whose reference is to an element that was replaced; the
             \* kernel is taken not to reuse it while they run
  cut,       \* history: tasks whose enter program was ended by the runtime
  added,     \* history: events added, per map and key
  raced      \* history: pairs of map and key that two programs worked on at once

cvars == <<sample, tab, start, pc, id, clock, call, reg, gone,
           cut, added, raced>>

Programs == {"syscount", "trace_event", "syscall_tp"}
MapNames == {"counts", "errors", "latency", "exits"}
Size(m)  == CASE m = "counts" -> CountsSize
              [] m = "errors" -> ErrorsSize
              [] OTHER        -> LatencySize

(* syscall_tp counts in an array with one element. *)
Key(t)   == IF sample = "syscall_tp" THEN 0 ELSE id[t]
Flags    == IF sample = "syscount" THEN "BPF_ANY" ELSE "BPF_NOEXIST"
StartKey(t) == <<id[t], t>>        \* (pid << 32) | id: the tgid is shifted out

CountingInit ==
  /\ sample \in Programs
  /\ tab = [m \in MapNames |->
              IF sample = "syscall_tp" /\ m \in {"counts", "exits"}
              THEN [k \in {0} |-> 0] ELSE EmptyMap]
  /\ start = EmptyMap
  /\ pc = [t \in Tasks |-> <<"user", "-">>]
  /\ id = [t \in Tasks |-> CHOOSE i \in Ids : TRUE]
  /\ clock = 0
  /\ call = [t \in Tasks |-> 0]
  /\ reg = [t \in Tasks |-> 0]
  /\ gone = {} /\ cut = {}
  /\ added = [m \in MapNames |-> [k \in Ids \cup {0} |-> 0]]
  /\ raced = {}

Goto(t, p) == pc' = [pc EXCEPT ![t] = p]
InUser == <<"user", "-">>
InCall == <<"call", "-">>

(* What follows when the work on map m succeeded, and when it failed: the  *)
(* operator ? ends the program, and what it has not done is left undone.   *)
AfterAdd(m) == CASE m = "counts" /\ sample = "syscount"   -> <<"start", "update">>
                 [] m = "counts" /\ sample = "syscall_tp" -> InCall
                 [] m = "errors"  -> <<"start", "lookup">>
                 [] m = "latency" -> <<"start", "delete">>
                 [] OTHER         -> InUser
AfterErr(m) == IF m = "counts" /\ sample # "trace_event" THEN InCall ELSE InUser
-----------------------------------------------------------------------------
(* sys_enter, or the event of trace_event: the program starts. *)
sys_enter(t, i) ==
  /\ pc[t] = InUser /\ clock < MaxCalls
  /\ clock' = clock + 1
  /\ call' = [call EXCEPT ![t] = clock + 1]
  /\ id' = [id EXCEPT ![t] = i]
  /\ Goto(t, <<"counts", "lookup">>)
  /\ cut' = cut \ {t}
  /\ UNCHANGED <<sample, tab, start, reg, gone, added, raced>>

(* sys_exit with a result that is an error or not. *)
sys_exit(t, negative) ==
  /\ pc[t] = InCall
  /\ Goto(t, IF sample = "syscall_tp" THEN <<"exits", "lookup">>
             ELSE <<IF negative THEN "errors" ELSE "start", "lookup">>)
  /\ UNCHANGED <<sample, tab, start, id, clock, call, reg, gone, cut, added, raced>>

(* A task ends inside its call, and its pid is used again. *)
die(t) ==
  /\ pc[t] = InCall
  /\ Goto(t, InUser)
  /\ UNCHANGED <<sample, tab, start, id, clock, call, reg, gone, cut, added, raced>>

(* The programs that hold a reference to the element of key k, and those   *)
(* between their look-up and their store or insert.                        *)
Holding(m, k) == {t \in Tasks : pc[t] \in {<<m, "load">>, <<m, "store">>} /\ Key(t) = k}
Working(m, k) == Holding(m, k) \cup {t \in Tasks : pc[t] = <<m, "insert">> /\ Key(t) = k}

(* bpf_map_lookup_elem: a reference to the element, or None. *)
lookup(t, m) ==
  /\ pc[t] = <<m, "lookup">>
  /\ Goto(t, <<m, IF Key(t) \in DOMAIN tab[m] THEN "load" ELSE "insert">>)
  /\ raced' = IF Working(m, Key(t)) = {} THEN raced ELSE raced \cup {<<m, Key(t)>>}
  /\ UNCHANGED <<sample, tab, start, id, clock, call, reg, gone, cut, added>>

(* *count += 1: the load, *)
load(t, m) ==
  /\ pc[t] = <<m, "load">>
  /\ reg' = [reg EXCEPT ![t] = tab[m][Key(t)]]
  /\ Goto(t, <<m, "store">>)
  /\ UNCHANGED <<sample, tab, start, id, clock, call, gone, cut, added, raced>>

Count(t, m) == added' = [added EXCEPT ![m][Key(t)] = @ + 1]

(* and the store, which is lost when the element was replaced meanwhile. *)
store(t, m) ==
  /\ pc[t] = <<m, "store">>
  /\ tab' = IF t \in gone THEN tab ELSE [tab EXCEPT ![m][Key(t)] = reg[t] + 1]
  /\ Count(t, m)
  /\ reg' = [reg EXCEPT ![t] = 0]
  /\ Goto(t, AfterAdd(m))
  /\ gone' = gone \ {t}
  /\ UNCHANGED <<sample, start, id, clock, call, cut, raced>>

\* Faulty variant: the first event is not counted.
InsertZero(t, m) ==
  /\ pc[t] = <<m, "insert">>
  /\ LET u == bpf_map_update_elem(tab[m], Key(t), 0, Flags, Size(m)) IN
       /\ u.ret = "Ok"
       /\ tab' = [tab EXCEPT ![m] = u.map]
       /\ gone' = gone \cup Holding(m, Key(t))
       /\ Count(t, m)
       /\ Goto(t, AfterAdd(m))
  /\ UNCHANGED <<sample, start, id, clock, call, reg, cut, raced>>

(* The key was not there: it is inserted with one.  With BPF_ANY this      *)
(* replaces an element that another program inserted in the meantime.      *)
insert_one(t, m) ==
  /\ pc[t] = <<m, "insert">>
  /\ LET u == bpf_map_update_elem(tab[m], Key(t), 1, Flags, Size(m)) IN
       /\ u.ret = "Ok"
       /\ tab' = [tab EXCEPT ![m] = u.map]
       /\ gone' = gone \cup Holding(m, Key(t))
       /\ Count(t, m)
       /\ Goto(t, AfterAdd(m))
  /\ UNCHANGED <<sample, start, id, clock, call, reg, cut, raced>>

(* The map is full, or BPF_NOEXIST met the other's element: Err, and out. *)
insert_err(t, m) ==
  /\ pc[t] = <<m, "insert">>
  /\ bpf_map_update_elem(tab[m], Key(t), 1, Flags, Size(m)).ret # "Ok"
  /\ Goto(t, AfterErr(m))
  /\ UNCHANGED <<sample, tab, start, id, clock, call, reg, gone, cut, added, raced>>

\* Faulty variant: a start time that is there is not overwritten.
StartNoExist(t) ==
  /\ pc[t] = <<"start", "update">>
  /\ start' = bpf_map_update_elem(start, StartKey(t), call[t], "BPF_NOEXIST", StartSize).map
  /\ Goto(t, InCall)
  /\ UNCHANGED <<sample, tab, id, clock, call, reg, gone, cut, added, raced>>

(* The enter program writes its start time over whatever is there. *)
start_update(t) ==
  /\ pc[t] = <<"start", "update">>
  /\ start' = bpf_map_update_elem(start, StartKey(t), call[t], "BPF_ANY", StartSize).map
  /\ Goto(t, InCall)
  /\ UNCHANGED <<sample, tab, id, clock, call, reg, gone, cut, added, raced>>

(* The exit program finds a start time, and goes on to the latency, or not. *)
start_lookup(t) ==
  /\ pc[t] = <<"start", "lookup">>
  /\ IF StartKey(t) \in DOMAIN start
     THEN /\ reg' = [reg EXCEPT ![t] = start[StartKey(t)]]
          /\ Goto(t, <<"measured", "-">>)
     ELSE /\ Goto(t, InUser) /\ UNCHANGED reg
  /\ UNCHANGED <<sample, tab, start, id, clock, call, gone, cut, added, raced>>

(* now - *start_time is known; the latency is looked up. *)
measure(t) ==
  /\ pc[t] = <<"measured", "-">>
  /\ Goto(t, <<"latency", "lookup">>)
  /\ reg' = [reg EXCEPT ![t] = 0]
  /\ UNCHANGED <<sample, tab, start, id, clock, call, gone, cut, added, raced>>

(* The start time is deleted, after the latency was added. *)
start_delete(t) ==
  /\ pc[t] = <<"start", "delete">>
  /\ start' = bpf_map_delete_elem(start, StartKey(t)).map
  /\ Goto(t, InUser)
  /\ UNCHANGED <<sample, tab, id, clock, call, reg, gone, cut, added, raced>>

(* The runtime ends a program after a helper: what follows is not done. *)
terminate(t) ==
  /\ pc[t] \notin {InUser, InCall}
  /\ LET entering == pc[t][1] = "counts" \/ pc[t] = <<"start", "update">> IN
       /\ cut' = IF entering THEN cut \cup {t} ELSE cut
       /\ Goto(t, IF entering /\ sample # "trace_event" THEN InCall ELSE InUser)
  /\ reg' = [reg EXCEPT ![t] = 0]
  /\ gone' = gone \ {t}
  /\ UNCHANGED <<sample, tab, start, id, clock, call, added, raced>>

CountingNext ==
  \E t \in Tasks :
    \/ \E i \in Ids : sys_enter(t, i)
    \/ \E negative \in BOOLEAN : sys_exit(t, negative)
    \/ \E m \in MapNames : \/ lookup(t, m) \/ load(t, m) \/ store(t, m)
                           \/ insert_one(t, m) \/ insert_err(t, m)
    \/ start_update(t) \/ start_lookup(t) \/ measure(t) \/ start_delete(t)
    \/ die(t) \/ terminate(t)
-----------------------------------------------------------------------------
(* The delta that trace_syscall_exit adds is measured from the start of    *)
(* the same call, although keys are used again after failures, deaths and  *)
(* reused pids - unless the enter program of this call was cut off.        *)
StartIsOwn ==
  \A t \in Tasks : pc[t][1] = "measured" => reg[t] = call[t] \/ t \in cut

(* A counter never exceeds the events that were added to it, and it is     *)
(* exact unless two programs were between look-up and store at once.       *)
CountsExplained ==
  \A m \in MapNames : \A k \in DOMAIN tab[m] :
    /\ tab[m][k] <= added[m][k]
    /\ <<m, k>> \notin raced => tab[m][k] = added[m][k]
=============================================================================
