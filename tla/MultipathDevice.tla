--------------------------- MODULE MultipathDevice ---------------------------
(***************************************************************************)
(* What the layer above a multipath device is promised: every request it   *)
(* submits is answered once, with success, however the paths behind the    *)
(* device fail.  The only ways out of the promise are those the code has:  *)
(* if memory may run out (MayLose), a request whose completion context     *)
(* cannot be allocated is lost without an answer; and the process may die. *)
(***************************************************************************)
EXTENDS Naturals

CONSTANTS
  Ios,      \* the bdev_io objects of the layer above
  MayLose   \* a process that lives on may lose requests

VARIABLES
  request,  \* per bdev_io: "idle", "pending" or "lost"
  answers,  \* per bdev_io: answers given to its last request
  down      \* the process has died

avars == <<request, answers, down>>

AInit == /\ request = [i \in Ios |-> "idle"]
         /\ answers = [i \in Ios |-> 0]
         /\ down = FALSE

(* A request is lost to memory exhaustion, or with the process.            *)
Lost(i) ==
  /\ request' = [request EXCEPT ![i] = "lost"]
  /\ down' = TRUE \/ (MayLose /\ down' = FALSE)

(* A new request, which may be lost at once.                               *)
Accept(i) == /\ ~down
             /\ request[i] = "idle"
             /\ answers' = [answers EXCEPT ![i] = 0]
             /\ \/ request' = [request EXCEPT ![i] = "pending"] /\ down' = FALSE
                \/ Lost(i)

Answer(i) == /\ ~down
             /\ request[i] = "pending"
             /\ request' = [request EXCEPT ![i] = "idle"]
             /\ answers' = [answers EXCEPT ![i] = @ + 1]
             /\ down' = FALSE

Lose(i) == /\ ~down
           /\ request[i] = "pending"
           /\ Lost(i)
           /\ UNCHANGED answers

Die == ~down /\ down' = TRUE /\ UNCHANGED <<request, answers>>

ANext == Die \/ \E i \in Ios : Accept(i) \/ Answer(i) \/ Lose(i)

(* Safety: one successful answer per request.                              *)
SafeSpec == AInit /\ [][ANext]_avars

(* Liveness: a pending request of a live process is answered.              *)
LiveSpec == SafeSpec /\ \A i \in Ios : WF_avars(Answer(i))
=============================================================================
