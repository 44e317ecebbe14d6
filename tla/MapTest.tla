------------------------------- MODULE MapTest -------------------------------
(***************************************************************************)
(* The sample map_test_2: a program on dup that tries a hash map, an       *)
(* array, a stack and a queue, one after the other, with the pid of its    *)
(* task.  An operation that fails ends its test, and the next one runs.    *)
(* Tasks run it at the same time, operation by operation.  The ring buffer *)
(* test is in RexRingBuf.                                                  *)
(***************************************************************************)
EXTENDS RexMaps

CONSTANTS Pids,       \* tasks that call dup, by pid
          StackSize,  \* max_size of STACK and of QUEUE
          MaxRuns     \* bound: runs of the program

ASSUME MapTestAssumption ==
  Pids \subseteq Nat /\ StackSize \in Nat /\ MaxRuns \in Nat

VARIABLES
  hash, array, stack, queue,  \* the maps
  step,      \* the operation each task is at, 0 when it is not in the program
  saw,       \* the value it has just printed
  runs,      \* runs begun
  stack0, queue0,  \* history: STACK and QUEUE when the task's run began
  disturbed  \* history: tasks whose run overlapped with another run

mvars == <<hash, array, stack, queue, step, saw, runs, stack0, queue0, disturbed>>

(* The operations in the order of the source. *)
HashTest  == <<"get", "insert", "get_own", "delete", "get_none">>
ArrayTest == <<"array_insert", "array_get">>
StackTest == <<"push", "push_next", "top", "pop", "next_top">>
QueueTest == <<"enqueue", "enqueue_next", "front", "dequeue", "next_front">>
Script    == HashTest \o ArrayTest \o StackTest \o QueueTest
EndOf(i)  == CHOOSE e \in {5, 7, 12, 17} :        \* end of the test of operation i
               i <= e /\ \A f \in {5, 7, 12, 17} : i <= f => e <= f

MapTestInit ==
  /\ hash = EmptyMap /\ array = [k \in {0} |-> 0]
  /\ stack = << >> /\ queue = << >>
  /\ step = [p \in Pids |-> 0] /\ saw = [p \in Pids |-> NoValue]
  /\ runs = 0 /\ disturbed = {}
  /\ stack0 = [p \in Pids |-> << >>] /\ queue0 = [p \in Pids |-> << >>]

Running == {p \in Pids : step[p] # 0}

rex_prog1(p) ==
  /\ step[p] = 0 /\ runs < MaxRuns
  /\ runs' = runs + 1
  /\ step' = [step EXCEPT ![p] = 1]
  /\ stack0' = [stack0 EXCEPT ![p] = stack]
  /\ queue0' = [queue0 EXCEPT ![p] = queue]
  /\ disturbed' = IF Running = {} THEN disturbed \ {p}
                  ELSE disturbed \cup Running \cup {p}
  /\ UNCHANGED <<hash, array, stack, queue, saw>>

(* The next operation, or the next test when this one has failed. *)
Failed == -2
Advance(p, i) == step' = [step EXCEPT ![p] = i + 1]
Result(p, ret) == IF ret = "Ok" THEN Advance(p, step[p]) /\ UNCHANGED saw
                  ELSE Advance(p, EndOf(step[p])) /\ saw' = [saw EXCEPT ![p] = Failed]
At(p, op) == step[p] \in 1 .. Len(Script) /\ Script[step[p]] = op
Show(p, v) == saw' = [saw EXCEPT ![p] = v] /\ Advance(p, step[p])
Get(m, k)  == IF k \in DOMAIN m THEN m[k] ELSE NoValue

map_test_hash(p) ==
  /\ \/ /\ At(p, "get") \/ At(p, "get_own") \/ At(p, "get_none")
        /\ Show(p, Get(hash, 0)) /\ UNCHANGED hash
     \/ /\ At(p, "insert")
        /\ LET u == insert(hash, 0, p, 1) IN hash' = u.map /\ Result(p, u.ret)
     \/ /\ At(p, "delete")
        /\ LET u == bpf_map_delete_elem(hash, 0) IN hash' = u.map /\ Result(p, u.ret)
  /\ UNCHANGED <<array, stack, queue, runs, stack0, queue0, disturbed>>

map_test_array(p) ==
  /\ \/ /\ At(p, "array_insert")
        /\ LET u == insert(array, 0, p, 1) IN array' = u.map /\ Result(p, u.ret)
     \/ /\ At(p, "array_get")
        /\ Show(p, Get(array, 0)) /\ UNCHANGED array
  /\ UNCHANGED <<hash, stack, queue, runs, stack0, queue0, disturbed>>

map_test_stack(p) ==
  /\ \/ /\ At(p, "push") \/ At(p, "push_next")
        /\ LET u == bpf_map_push_elem("stack", stack, IF At(p, "push") THEN p ELSE p + 1,
                                      StackSize)
           IN stack' = u.map /\ Result(p, u.ret)
     \/ /\ At(p, "top") \/ At(p, "next_top")
        /\ Show(p, bpf_map_peek_elem(stack)) /\ UNCHANGED stack
     \/ /\ At(p, "pop")
        /\ stack' = bpf_map_pop_elem(stack) /\ Advance(p, step[p])
        /\ UNCHANGED saw
  /\ UNCHANGED <<hash, array, queue, runs, stack0, queue0, disturbed>>

map_test_queue(p) ==
  /\ \/ /\ At(p, "enqueue") \/ At(p, "enqueue_next")
        /\ LET u == bpf_map_push_elem("queue", queue, IF At(p, "enqueue") THEN p ELSE p + 1,
                                      StackSize)
           IN queue' = u.map /\ Result(p, u.ret)
     \/ /\ At(p, "front") \/ At(p, "next_front")
        /\ Show(p, bpf_map_peek_elem(queue)) /\ UNCHANGED queue
     \/ /\ At(p, "dequeue")
        /\ queue' = bpf_map_pop_elem(queue) /\ Advance(p, step[p])
        /\ UNCHANGED saw
  /\ UNCHANGED <<hash, array, stack, runs, stack0, queue0, disturbed>>

(* All tests are over: rex_prog1 returns. *)
return_test(p) ==
  /\ step[p] = Len(Script) + 1
  /\ step' = [step EXCEPT ![p] = 0]
  /\ UNCHANGED <<hash, array, stack, queue, saw, runs, stack0, queue0, disturbed>>

(* The runtime ends the program; the maps stay as they are. *)
terminate_test(p) ==
  /\ step[p] # 0
  /\ step' = [step EXCEPT ![p] = 0]
  /\ UNCHANGED <<hash, array, stack, queue, saw, runs, stack0, queue0, disturbed>>

MapTestNext == \E p \in Pids : \/ rex_prog1(p) \/ map_test_hash(p) \/ map_test_array(p)
                               \/ map_test_stack(p) \/ map_test_queue(p)
                               \/ return_test(p) \/ terminate_test(p)
-----------------------------------------------------------------------------
(* The operation that task p has just done. *)
After(p, op) == step[p] > 1 /\ Script[step[p] - 1] = op

(* What a run that no other run overlapped prints is settled by what it    *)
(* found on the stack and in the queue, whatever overlapping and           *)
(* terminated runs left elsewhere: its own values from the hash map and    *)
(* the array, nothing after the delete, pid + 1 and pid from the stack,    *)
(* and from the queue the two oldest values, which are pid and pid + 1,    *)
(* the ones that tests/runtest.py looks for, only when the queue was       *)
(* empty: every run leaves a value there.  The stack and the queue test    *)
(* fail exactly when there is no room for their two values.                *)
RunAloneExact ==
  \A p \in Pids \ disturbed :
    LET q == queue0[p] \o <<p, p + 1>> IN
    /\ After(p, "get_own") \/ After(p, "array_get") => saw[p] = p
    /\ After(p, "get_none") => saw[p] = NoValue
    /\ After(p, "top") => saw[p] = p + 1
    /\ After(p, "next_top") =>
         saw[p] = IF Len(stack0[p]) + 2 <= StackSize THEN p ELSE Failed
    /\ After(p, "front") => saw[p] = q[1]
    /\ After(p, "next_front") => saw[p] = IF Len(q) <= StackSize THEN q[2] ELSE Failed
=============================================================================
