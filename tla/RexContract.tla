---------------------------- MODULE RexContract ----------------------------
(***************************************************************************)
(* What the Rex runtime promises the kernel about a class of resources:    *)
(* programs come and go on the CPUs; while one runs it takes resources     *)
(* that are free and gives back resources it has; and however it ends, it  *)
(* ends with nothing in its hands.  How a program ends - by returning, by  *)
(* a panic, by the watchdog - is not visible here.                         *)
(***************************************************************************)
CONSTANTS CPUs, Resources, NoCPU

VARIABLES running, owner

contractVars == <<running, owner>>

Init ==
  /\ running = {}
  /\ owner = [r \in Resources |-> NoCPU]

Start(c) ==
  /\ c \notin running
  /\ running' = running \cup {c}
  /\ UNCHANGED owner

Take(c, r) ==
  /\ c \in running
  /\ owner[r] = NoCPU
  /\ owner' = [owner EXCEPT ![r] = c]
  /\ UNCHANGED running

Give(c, r) ==
  /\ c \in running
  /\ owner[r] = c
  /\ owner' = [owner EXCEPT ![r] = NoCPU]
  /\ UNCHANGED running

Finish(c) ==
  /\ c \in running
  /\ \A r \in Resources : owner[r] # c
  /\ running' = running \ {c}
  /\ UNCHANGED owner

Next ==
  \E c \in CPUs :
    \/ Start(c)
    \/ \E r \in Resources : Take(c, r) \/ Give(c, r)
    \/ Finish(c)

Spec == Init /\ [][Next]_contractVars
=============================================================================
