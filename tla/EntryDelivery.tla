---------------------------- MODULE EntryDelivery ----------------------------
(***************************************************************************)
(* What a consumer group of Vole promises about one stream entry, whatever *)
(* the consumers, the expiry of keys and other writers do: it is read as   *)
(* new at most once and it is not skipped, an acknowledgement is final     *)
(* (but for one race with a replication link), and once the entry has left *)
(* its stream it does not come back.                                       *)
(*                                                                         *)
(* One command can move several entries, so in a step every entry may make *)
(* one legal move of its own.                                              *)
(***************************************************************************)
EXTENDS Naturals

CONSTANT Entries        \* the entries that may be added

VARIABLES status,       \* where each entry is, seen from the group
          handed        \* how often each entry has been read as new

Statuses == {"absent",  \* not added
             "outside", \* in a stream that has no group
             "unread",  \* still to be read through the group
             "held",    \* pending: read by a consumer, not acknowledged
             "reopened", \* pending again: the XACK of a replication link came
                         \* while the entry was being read again
             "done",    \* acknowledged, or older than the group
             "gone"}    \* no longer in the stream, or refused by XADD

Init == /\ status = [e \in Entries |-> "absent"]
        /\ handed = [e \in Entries |-> 0]

Turn(e, from, to) == /\ status[e] \in from /\ status'[e] \in to
                     /\ handed'[e] = handed[e]

Stay(e) == status'[e] = status[e] /\ handed'[e] = handed[e]
Enter(e) == Turn(e, {"absent"}, {"outside", "unread"})
Join(e) == Turn(e, {"outside"}, {"unread", "done"})
Settle(e) == Turn(e, {"held", "reopened"}, {"done"})
Reopen(e) == Turn(e, {"done"}, {"reopened"})
Leave(e) == Turn(e, {"absent", "outside", "unread", "held", "reopened", "done"},
                 {"gone"})

(***************************************************************************)
(* An entry may leave its stream while it is being read.                   *)
(***************************************************************************)
Read(e) == /\ handed[e] = 0 /\ handed'[e] = 1
           /\ \/ status[e] = "unread" /\ status'[e] = "held"
              \/ status[e] = "gone" /\ status'[e] = "gone"

Move(e) == Stay(e) \/ Enter(e) \/ Join(e) \/ Settle(e) \/ Reopen(e) \/ Leave(e) \/ Read(e)

Next == /\ status' \in [Entries -> Statuses]
        /\ handed' \in [Entries -> Nat]
        /\ \A e \in Entries : Move(e)

Spec == Init /\ [][Next]_<<status, handed>>
=============================================================================
