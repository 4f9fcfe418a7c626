-------------------------- MODULE MessageLifecycle --------------------------
(***************************************************************************)
(* What Vole's reliable queue promises about one message, whatever the     *)
(* consumers do: a message is handed out at most MaxRetries times, it is   *)
(* never in two places, and once it is acknowledged, dead-lettered or      *)
(* dropped with its queue it is never handed out again.                    *)
(*                                                                         *)
(* One call of the store can move several messages at once (a Dequeue      *)
(* requeues every overdue message before it hands one out), so a step of   *)
(* this specification lets every message make one legal move of its own.   *)
(***************************************************************************)
EXTENDS Naturals

CONSTANTS Messages,     \* the messages that may be enqueued
          MaxRetries    \* how many times a message may be handed out

VARIABLES status,       \* where each message is
          attempts      \* how often each message has been handed out

vars == <<status, attempts>>

Statuses == {"absent", "pending", "processing", "dead", "acked", "dropped"}

Init == /\ status = [m \in Messages |-> "absent"]
        /\ attempts = [m \in Messages |-> 0]

Stay(m) == status'[m] = status[m] /\ attempts'[m] = attempts[m]

Enter(m) == /\ status[m] = "absent" /\ status'[m] = "pending"
            /\ attempts'[m] = attempts[m]

(***************************************************************************)
(* A message is handed out from the pending list, or, when its last holder *)
(* let the acknowledgement deadline pass, straight from there.             *)
(***************************************************************************)
HandOut(m) == /\ status[m] \in {"pending", "processing"}
              /\ attempts[m] < MaxRetries
              /\ status'[m] = "processing"
              /\ attempts'[m] = attempts[m] + 1

GiveBack(m) == /\ status[m] = "processing"
               /\ status'[m] = IF attempts[m] < MaxRetries THEN "pending"
                                                           ELSE "dead"
               /\ attempts'[m] = attempts[m]

Finish(m) == /\ status[m] = "processing" /\ status'[m] = "acked"
             /\ attempts'[m] = attempts[m]

Drop(m) == /\ status[m] \in {"pending", "processing", "dead"}
           /\ status'[m] = "dropped"
           /\ attempts'[m] = attempts[m]

Move(m) == Stay(m) \/ Enter(m) \/ HandOut(m) \/ GiveBack(m) \/ Finish(m) \/ Drop(m)

Next == /\ status' \in [Messages -> Statuses]
        /\ attempts' \in [Messages -> Nat]
        /\ \A m \in Messages : Move(m)

Spec == Init /\ [][Next]_vars
=============================================================================
