---------------------------- MODULE JobLifecycle ----------------------------
(***************************************************************************)
(* What a client is promised of one capture, without workers, files, a     *)
(* table or a store: the states of model.JobState in their order, and, as  *)
(* long as a job is done, the complete output of the very request its      *)
(* record describes.  ClipQueue is shown to implement this.                *)
(*                                                                         *)
(* Captures are independent, and one step may move several of them (the    *)
(* retention sweep does).                                                  *)
(***************************************************************************)
EXTENDS Naturals

CONSTANT Captures

VARIABLES
  phase,    \* where each capture is; "off" when nothing is promised of it
  request,  \* the submission it is about; 0 without one
  served    \* the submission whose complete output can be fetched; 0: none

vars == <<phase, request, served>>

Phases == {"absent", "queued", "running", "done", "failed", "off"}

Init == /\ phase   = [c \in Captures |-> "absent"]
        /\ request = [c \in Captures |-> 0]
        /\ served  = [c \in Captures |-> 0]

Becomes(c, p, r, s) == phase'[c] = p /\ request'[c] = r /\ served'[c] = s

\* Asked for, or asked for again: always a request of its own.
Submit(c) == /\ phase[c] # "off"
             /\ request'[c] > request[c]
             /\ Becomes(c, "queued", request'[c], 0)

Start(c) == phase[c] = "queued" /\ Becomes(c, "running", request[c], 0)

Succeed(c) == phase[c] = "running" /\ Becomes(c, "done", request[c], request[c])

Fail(c) == phase[c] = "running" /\ Becomes(c, "failed", request[c], 0)

\* Deleted, or expired; never while it is worked on.
Withdraw(c) == /\ phase[c] \in {"queued", "done", "failed"}
               /\ Becomes(c, "absent", 0, 0)

\* A running job may also be withdrawn when nobody works on it: the process
\* ended in the middle of it.
Abandon(c) == phase[c] = "running" /\ Becomes(c, "absent", 0, 0)

\* From here on nothing is promised, and never again.
GiveUp(c) == Becomes(c, "off", 0, 0)

Stay(c) == Becomes(c, phase[c], request[c], served[c])

Step(c) == \/ Submit(c) \/ Start(c) \/ Succeed(c) \/ Fail(c)
           \/ Withdraw(c) \/ Abandon(c) \/ GiveUp(c) \/ Stay(c)

Next == \A c \in Captures : Step(c)

Spec == Init /\ [][Next]_vars
=============================================================================
