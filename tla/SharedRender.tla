---------------------------- MODULE SharedRender ----------------------------
(***************************************************************************)
(* What the render queue promises to those who ask for reports, without    *)
(* registry, threads or storage: each key has at most one render.  A render *)
(* is started only for a key that has none; it ends, or fails and is       *)
(* forgotten at once; a finished one may be forgotten when another starts, *)
(* a live one never.  Only a restart of the process loses live renders.    *)
(* (timeslides/jobs.py, module docstring: "Identical specs share one       *)
(* render".)                                                               *)
(***************************************************************************)
EXTENDS Naturals

CONSTANT Key

VARIABLES run,      \* the render of each key; 0 where it has none
          done,     \* the render of the key is finished
          started   \* renders started so far

vars == <<run, done, started>>

Init == /\ run = [k \in Key |-> 0]
        /\ done = [k \in Key |-> FALSE]
        /\ started \in Nat

Start(k) ==
    /\ run[k] = 0
    /\ started' = started + 1
    /\ \E forgotten \in SUBSET {x \in Key : done[x]} :
         /\ run' = [x \in Key |-> IF x = k THEN started'
                                  ELSE IF x \in forgotten THEN 0 ELSE run[x]]
         /\ done' = [x \in Key |-> done[x] /\ x \notin forgotten]

Succeed(k) ==
    /\ run[k] # 0 /\ ~done[k]
    /\ done' = [done EXCEPT ![k] = TRUE]
    /\ UNCHANGED <<run, started>>

Fail(k) ==
    /\ run[k] # 0 /\ ~done[k]
    /\ run' = [run EXCEPT ![k] = 0]
    /\ UNCHANGED <<done, started>>

Restart ==
    /\ run' = [k \in Key |-> 0]
    /\ done' = [k \in Key |-> FALSE]
    /\ started' = started

Next == Restart \/ \E k \in Key : Start(k) \/ Succeed(k) \/ Fail(k)

Spec == Init /\ [][Next]_vars
=============================================================================
