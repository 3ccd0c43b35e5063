------------------------------ MODULE Delivery ------------------------------
(* What the fan-out of perception batches promises: a committed batch is owed
   to every consumer that wants it, a consumer is driven with it at most once,
   and no batch stays owed for ever. *)
EXTENDS Naturals

CONSTANTS Batch,      \* detection batches
          Consumer    \* registered consumers

VARIABLES due,        \* due[c][b]: what consumer c is owed of batch b
          mishaps     \* restarts, dropped requests and expired rows so far

DeliveryInit == /\ due = [c \in Consumer |-> [b \in Batch |-> "none"]]
                /\ mishaps = 0

(* The batch is committed; it is owed to the consumers that want it. *)
Owe(b, C) ==
  /\ \A c \in Consumer : due[c][b] = "none"
  /\ due' = [c \in Consumer |-> [due[c] EXCEPT ![b] = IF c \in C THEN "owed" ELSE "none"]]
  /\ UNCHANGED mishaps

Drive(c, b) ==
  /\ due[c][b] = "owed"
  /\ due' = [due EXCEPT ![c][b] = "driven"]
  /\ UNCHANGED mishaps

(* Only a mishap loses what is owed, and it need not lose anything. *)
Lose(S) ==
  /\ \A s \in S : due[s[1]][s[2]] = "owed"
  /\ due' = [c \in Consumer |-> [b \in Batch |-> IF <<c, b>> \in S THEN "lost" ELSE due[c][b]]]
  /\ mishaps' = mishaps + 1

DeliveryNext == \/ \E b \in Batch, C \in SUBSET Consumer : Owe(b, C)
                \/ \E c \in Consumer, b \in Batch : Drive(c, b)
                \/ \E S \in SUBSET (Consumer \X Batch) : Lose(S)

(* A consumer is driven at most once with a committed batch, and only a mishap
   takes a batch that is owed away from it. *)
DeliverySafe == DeliveryInit /\ [][DeliveryNext]_<<due, mishaps>>

(* Nothing stays owed for ever. *)
DeliverySettles == \A c \in Consumer, b \in Batch : (due[c][b] = "owed") ~> (due[c][b] # "owed")
=============================================================================
