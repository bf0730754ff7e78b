-------------------------- MODULE PaymentLifecycle --------------------------
(***************************************************************************)
(* What the payment bridge promises about one transaction, without         *)
(* instances, workers, retries or crashes.  A transaction is accepted,     *)
(* offered (its QR is tracked) or rejected, settled once with a status     *)
(* that Manjo's record justifies, and spoken about only after it was       *)
(* settled as PAID, by a voice that never comes back once it fell silent.  *)
(* The one settlement that needs no such record is EXPIRED, and only once  *)
(* the transaction's own deadline has passed.                              *)
(***************************************************************************)
EXTENDS Integers

CONSTANTS
  Tx,
  MaxAttempts       \* publishes one announcement may take

VARIABLES
  status,    \* as stored
  overdue,   \* its deadline has passed
  manjo,     \* Manjo's record of the QR and the money
  shown,     \* the customer can see the QR
  voice,     \* an announcement of t may still be published
  spoken     \* publishes made, delivered or not

lvars == <<status, overdue, manjo, shown, voice, spoken>>

Final == {"PAID", "FAILED", "EXPIRED", "CANCELLED", "REFUNDED"}

Init ==
  /\ status = [t \in Tx |-> "NONE"]
  /\ overdue = [t \in Tx |-> FALSE]
  /\ manjo  = [t \in Tx |-> "absent"]
  /\ shown  = [t \in Tx |-> FALSE]
  /\ voice  = [t \in Tx |-> FALSE]
  /\ spoken = [t \in Tx |-> 0]

Accept(t) ==
  /\ status[t] = "NONE"
  /\ status' = [status EXCEPT ![t] = "PENDING"]
  /\ UNCHANGED <<overdue, manjo, shown, voice, spoken>>

\* Only a code Manjo holds is ever offered.
Offer(t) ==
  /\ status[t] = "PENDING"
  /\ manjo[t] # "absent"
  /\ status' = [status EXCEPT ![t] = "QR_GENERATED"]
  /\ UNCHANGED <<overdue, manjo, shown, voice, spoken>>

Reject(t) ==
  /\ status[t] = "PENDING"
  /\ status' = [status EXCEPT ![t] = "FAILED"]
  /\ UNCHANGED <<overdue, manjo, shown, voice, spoken>>

\* The customer sees only a code that is tracked or already settled.
Show(t) ==
  /\ status[t] \notin {"NONE", "PENDING"}
  /\ shown' = [shown EXCEPT ![t] = TRUE]
  /\ UNCHANGED <<status, overdue, manjo, voice, spoken>>

DeadlinePasses(t) ==
  /\ status[t] = "QR_GENERATED"
  /\ overdue' = [overdue EXCEPT ![t] = TRUE]
  /\ UNCHANGED <<status, manjo, shown, voice, spoken>>

\* The final statuses Manjo's record m justifies.
Justified(m) ==
  CASE m = "paid"      -> {"PAID"}
    [] m = "refunded"  -> {"PAID", "REFUNDED"}
    [] m = "cancelled" -> {"CANCELLED"}
    [] m = "failed"    -> {"FAILED"}
    [] m = "expired"   -> {"EXPIRED"}
    [] OTHER           -> {}

\* Past the deadline EXPIRED is also the answer to not knowing.
Settle(t) ==
  /\ status[t] = "QR_GENERATED"
  /\ \E s \in Justified(manjo[t]) \cup (IF overdue[t] THEN {"EXPIRED"} ELSE {}) :
       /\ status' = [status EXCEPT ![t] = s]
       /\ \E v \in BOOLEAN :
            /\ v => s = "PAID"
            /\ voice' = [voice EXCEPT ![t] = v]
  /\ UNCHANGED <<overdue, manjo, shown, spoken>>

Speak(t) ==
  /\ voice[t]
  /\ spoken[t] < MaxAttempts
  /\ spoken' = [spoken EXCEPT ![t] = @ + 1]
  /\ \E v \in BOOLEAN : voice' = [voice EXCEPT ![t] = v]
  /\ UNCHANGED <<status, overdue, manjo, shown>>

\* Any number of announcements can be cut short at once (a process ends).
FallSilent ==
  /\ \E S \in SUBSET Tx : voice' = [t \in Tx |-> voice[t] /\ t \notin S]
  /\ UNCHANGED <<status, overdue, manjo, shown, spoken>>

\* Manjo moves on its own; nobody pays a code they cannot see, and who pays one
\* that is no longer tracked pays past its deadline.
ManjoMoves(t) ==
  /\ \E m \in {"open", "paid", "refunded", "cancelled", "failed", "expired"} :
       /\ m = "open" => manjo[t] = "absent" /\ status[t] = "PENDING"
       /\ m = "paid" => /\ manjo[t] = "open" /\ shown[t]
                        /\ \/ status[t] = "QR_GENERATED"
                           \/ status[t] = "EXPIRED" /\ overdue[t]
       /\ m = "refunded" => manjo[t] = "paid"
       /\ m \in {"cancelled", "failed", "expired"} => manjo[t] = "open"
       /\ manjo' = [manjo EXCEPT ![t] = m]
  /\ UNCHANGED <<status, overdue, shown, voice, spoken>>

Next ==
  \/ FallSilent
  \/ \E t \in Tx : Accept(t) \/ Offer(t) \/ Reject(t) \/ Show(t) \/ DeadlinePasses(t)
                     \/ Settle(t) \/ Speak(t) \/ ManjoMoves(t)

Spec == Init /\ [][Next]_lvars

=============================================================================
