------------------------- MODULE NotificationPromise -------------------------
(* What the outbox promises about one notification, whoever delivers it and *)
(* however often a dispatcher dies (db/012 and db/013, header comments): it  *)
(* is delivered to its recipient only between the moment it is queued and    *)
(* the moment the outbox settles it, it is marked sent only if the recipient *)
(* has it, and it is settled eventually. While two dispatchers may have it   *)
(* in hand at once, it may be delivered and settled anew, but still it is    *)
(* not delivered before it is queued, nor marked sent before it is delivered.*)
EXTENDS Naturals

CONSTANT Rows       \* notifications

VARIABLES status,   \* [Rows -> what the outbox says of it]
          received, \* [Rows -> how often its recipient got it]
          shared    \* the notifications no claim keeps for one dispatcher

pvars == <<status, received>>

PInit == /\ status = [r \in Rows |-> "absent"]
         /\ received = [r \in Rows |-> 0]

Queue(r) ==
    /\ status[r] = "absent"
    /\ status' = [status EXCEPT ![r] = "queued"]
    /\ UNCHANGED received

InHand(r) == status[r] = "queued" \/ (r \in shared /\ status[r] # "absent")

Receive(r) ==
    /\ InHand(r)
    /\ received' = [received EXCEPT ![r] = @ + 1]
    /\ UNCHANGED status

Settle(r) ==
    /\ InHand(r)
    /\ \/ received[r] > 0 /\ status' = [status EXCEPT ![r] = "sent"]
       \/ status' = [status EXCEPT ![r] = "failed"]
       \/ r \in shared /\ status' = [status EXCEPT ![r] = "queued"]
    /\ UNCHANGED received

PNext == \E r \in Rows : Queue(r) \/ Receive(r) \/ Settle(r)

Promise == PInit /\ [][PNext]_pvars

(* Nothing that was queued stays undecided for ever.                        *)
Decided == \A r \in Rows : status[r] = "queued" ~> status[r] \in {"sent", "failed"}

==============================================================================
