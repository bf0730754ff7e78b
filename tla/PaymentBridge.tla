--------------------------- MODULE PaymentBridge ---------------------------
(***************************************************************************)
(* The server side of the payment bridge: the GENERATE_QR handler, the     *)
(* payment poller and the announcer of every running service instance,     *)
(* over the one "transactions" table they share and Manjo's own record of  *)
(* each QR code.                                                           *)
(*                                                                         *)
(* One transaction t is one row of the table.  An instance i runs          *)
(*   - one MQTT handler (paho delivers messages one at a time), whose      *)
(*     progress on t is req[i][t];                                         *)
(*   - one poller whose batch is processed by worker goroutines, whose     *)
(*     progress on t is check[i][t].                                       *)
(* Everything local to an instance is lost when its process ends.          *)
(*                                                                         *)
(* Clocks are abstracted to the three tests the code makes of them:        *)
(* due[t] (next_query_at <= now()), overdue[t] (now > expire_at +          *)
(* deadlineGrace) and stale[t] (paid longer ago than                       *)
(* staleAnnouncementAge).                                                  *)
(***************************************************************************)
EXTENDS Integers, FiniteSets

CONSTANTS
  Tx,               \* transaction rows that may be created
  Instances,        \* service instances sharing the database
  BatchSize,        \* rows one claim takes (20)
  Workers,          \* checks one instance runs at a time (8)
  PublishAttempts,  \* publishes of one announcement (3)
  Speakable,        \* transactions whose amount voice.Payload can speak
  MaxFaults         \* bound: crashes, SIGTERMs and lost commits in a behaviour

ASSUME BridgeAssumption ==
  /\ BatchSize \in Nat \ {0}
  /\ Workers \in Nat \ {0}
  /\ PublishAttempts \in Nat \ {0}
  /\ Speakable \subseteq Tx
  /\ MaxFaults \in Nat

VARIABLES
  status,   \* transactions.status, "NONE" before the row exists
  due,      \* transactions.next_query_at <= now()
  overdue,  \* now() > transactions.expire_at + deadlineGrace
  mode,     \* life of each instance's process
  req,      \* the MQTT handler's progress
  check,    \* the poller workers' progress
  answer,   \* what a worker's qr-mpm-query answer means, until it is applied
  tries,    \* publishes a worker has made of the announcement
  manjo,    \* Manjo's record of the QR code and of the money
  stale,    \* the money was paid longer ago than staleAnnouncementAge
  dated,    \* Manjo's answer about the payment has a usable paidTime
  shown,    \* the QR payload reached the device's topic
  heard,    \* announcements that reached the device's topic
  missed,   \* announcement publishes that never reached it
  logged,   \* status of the announcement's mqtt_messages row
  faults    \* adverse events so far (bounds the model)

db    == <<status, due, overdue>>
local == <<req, check, answer, tries>>
world == <<manjo, stale, dated>>
mqtt  == <<shown, heard, missed, logged>>
vars  == <<status, due, overdue, mode, req, check, answer, tries, manjo,
           stale, dated, shown, heard, missed, logged, faults>>

Final   == {"PAID", "FAILED", "EXPIRED", "CANCELLED", "REFUNDED"}
Status  == {"NONE", "PENDING", "QR_GENERATED"} \cup Final
Answers == {"none", "pending", "error"} \cup Final
Modes   == {"up", "draining", "down"}
Handling == {"idle", "created", "generated", "failing", "replyQR", "replyFail"}
Checking == {"idle", "claimed", "querying", "answered", "announcing",
             "published", "unpublished"}
ManjoState == {"absent", "open", "paid", "refunded", "cancelled", "failed",
               "expired"}

TypeOK ==
  /\ status  \in [Tx -> Status]
  /\ due     \in [Tx -> BOOLEAN]
  /\ overdue \in [Tx -> BOOLEAN]
  /\ mode    \in [Instances -> Modes]
  /\ req     \in [Instances -> [Tx -> Handling]]
  /\ check   \in [Instances -> [Tx -> Checking]]
  /\ answer  \in [Instances -> [Tx -> Answers]]
  /\ tries   \in [Instances -> [Tx -> Nat]]
  /\ manjo   \in [Tx -> ManjoState]
  /\ stale   \in [Tx -> BOOLEAN]
  /\ dated   \in [Tx -> BOOLEAN]
  /\ shown   \in [Tx -> BOOLEAN]
  /\ heard   \in [Tx -> Nat]
  /\ missed  \in [Tx -> Nat]
  /\ logged  \in [Tx -> {"none", "PROCESSED", "FAILED"}]
  /\ faults  \in 0..MaxFaults

Idle == [t \in Tx |-> "idle"]

Init ==
  /\ status  = [t \in Tx |-> "NONE"]
  /\ due     = [t \in Tx |-> FALSE]
  /\ overdue = [t \in Tx |-> FALSE]
  /\ mode    = [i \in Instances |-> "up"]
  /\ req     = [i \in Instances |-> Idle]
  /\ check   = [i \in Instances |-> Idle]
  /\ answer  = [i \in Instances |-> [t \in Tx |-> "none"]]
  /\ tries   = [i \in Instances |-> [t \in Tx |-> 0]]
  /\ manjo   = [t \in Tx |-> "absent"]
  /\ stale   = [t \in Tx |-> FALSE]
  /\ dated   \in [Tx -> BOOLEAN]
  /\ shown   = [t \in Tx |-> FALSE]
  /\ heard   = [t \in Tx |-> 0]
  /\ missed  = [t \in Tx |-> 0]
  /\ logged  = [t \in Tx |-> "none"]
  /\ faults  = 0

\* One more adverse event, within the model's bound.
Fault == faults < MaxFaults /\ faults' = faults + 1

----------------------------------------------------------------------------
(* Database statements *)

\* The trigger of migration 000006: a final status never changes.
TriggerAllows(old, new) == old \in Final => new = old

\* Rows ClaimDueTransactions may take.
Claimable == {t \in Tx : status[t] = "QR_GENERATED" /\ due[t]}

\* LIMIT batch_size.  Which due rows come first (ORDER BY next_query_at) is
\* left open here.
Batches(rows) ==
  {S \in SUBSET rows :
     /\ S # {}
     /\ \/ S = rows /\ Cardinality(rows) =< BatchSize
        \/ Cardinality(S) = BatchSize}

----------------------------------------------------------------------------
(* GENERATE_QR handler of instance i *)

HandlerFree(i) == mode[i] # "down" /\ \A t \in Tx : req[i][t] = "idle"

At(i, t, phase) == mode[i] # "down" /\ req[i][t] = phase

GoTo(i, t, phase) == req' = [req EXCEPT ![i][t] = phase]

\* A request arrives and createTransaction inserts its PENDING row.  The
\* commit may be lost on the way back: the row exists, the request fails.
Receive(i, t) ==
  /\ HandlerFree(i)
  /\ status[t] = "NONE"
  /\ status' = [status EXCEPT ![t] = "PENDING"]
  /\ \/ GoTo(i, t, "created") /\ UNCHANGED faults
     \/ GoTo(i, t, "replyFail") /\ Fault
  /\ UNCHANGED <<due, overdue, mode, check, answer, tries, world, mqtt>>

\* callGenerateQRWithRetry returns a QR code, which Manjo now holds open.
GenerateSucceeds(i, t) ==
  /\ At(i, t, "created")
  /\ manjo' = [manjo EXCEPT ![t] = "open"]
  /\ GoTo(i, t, "generated")
  /\ UNCHANGED <<db, mode, check, answer, tries, stale, dated, mqtt, faults>>

\* Configuration failed, or every attempt did.  An attempt whose answer was
\* lost (timeout, then CONFLICT on the next one) still left a QR at Manjo.
GenerateFails(i, t) ==
  /\ At(i, t, "created")
  /\ manjo' \in {manjo, [manjo EXCEPT ![t] = "open"]}
  /\ GoTo(i, t, "failing")
  /\ UNCHANGED <<db, mode, check, answer, tries, stale, dated, mqtt, faults>>

\* markQRGenerated.  On an error the device is told the request failed,
\* whether or not the UPDATE was committed.
MarkQRGenerated(i, t) ==
  /\ At(i, t, "generated")
  /\ \/ /\ TriggerAllows(status[t], "QR_GENERATED")
        /\ status'  = [status EXCEPT ![t] = "QR_GENERATED"]
        /\ due'     = [due EXCEPT ![t] = FALSE]
        /\ \/ GoTo(i, t, "replyQR") /\ UNCHANGED faults
           \/ GoTo(i, t, "replyFail") /\ Fault
     \/ GoTo(i, t, "replyFail") /\ UNCHANGED <<status, due, faults>>
  /\ UNCHANGED <<overdue, mode, check, answer, tries, world, mqtt>>

\* markFailed, whose error GenerateQR ignores.
MarkFailed(i, t) ==
  /\ At(i, t, "failing")
  /\ \/ /\ TriggerAllows(status[t], "FAILED")
        /\ status' = [status EXCEPT ![t] = "FAILED"]
     \/ UNCHANGED status
  /\ GoTo(i, t, "replyFail")
  /\ UNCHANGED <<due, overdue, mode, check, answer, tries, world, mqtt, faults>>

\* The QR reply is published once; a failed publish is only logged.
ReplyQR(i, t) ==
  /\ At(i, t, "replyQR")
  /\ shown' \in {shown, [shown EXCEPT ![t] = TRUE]}
  /\ GoTo(i, t, "idle")
  /\ UNCHANGED <<db, mode, check, answer, tries, world, heard, missed, logged, faults>>

\* publishFailureReply: plain text, nothing to pay.
ReplyFailure(i, t) ==
  /\ At(i, t, "replyFail")
  /\ GoTo(i, t, "idle")
  /\ UNCHANGED <<db, mode, check, answer, tries, world, mqtt, faults>>

----------------------------------------------------------------------------
(* Payment poller of instance i *)

BatchDone(i) == \A t \in Tx : check[i][t] = "idle"

InProgress(i) == {t \in Tx : check[i][t] \notin {"idle", "claimed"}}

\* RunOnce claims a batch, or its commit is lost and nobody checks the rows
\* it pushed out.  Run may pick the ticker once more although its context is
\* already cancelled, so a draining instance can still claim.
Claim(i) ==
  /\ mode[i] # "down"
  /\ BatchDone(i)
  /\ \E S \in Batches(Claimable) :
       /\ due' = [t \in Tx |-> due[t] /\ t \notin S]
       /\ \/ /\ check' = [check EXCEPT ![i] =
                 [t \in Tx |-> IF t \in S THEN "claimed" ELSE "idle"]]
             /\ UNCHANGED faults
          \/ Fault /\ UNCHANGED check
  /\ UNCHANGED <<status, overdue, mode, req, answer, tries, world, mqtt>>

\* A worker slot is free: the check of t starts.
StartCheck(i, t) ==
  /\ check[i][t] = "claimed"
  /\ Cardinality(InProgress(i)) < Workers
  /\ check' = [check EXCEPT ![i][t] = "querying"]
  /\ UNCHANGED <<db, mode, req, answer, tries, world, mqtt, faults>>

\* latestTransactionStatus, or the responseCode of a 403, that Manjo answers
\* in each state of its record.
QueryCodes(m) ==
  CASE m = "open"      -> {"01", "02", "03"}
    [] m = "paid"      -> {"00"}
    [] m = "refunded"  -> {"04"}
    [] m = "cancelled" -> {"05"}
    [] m = "failed"    -> {"06"}
    [] m = "expired"   -> {"4035100"}
    [] m = "absent"    -> {"07"}

\* Mutant of MapQueryResult: two codes swapped.
MapSwapped(code) ==
  CASE code = "00" -> "PAID"
    [] code \in {"01", "02", "03"} -> "pending"
    [] code = "04" -> "REFUNDED"
    [] code = "05" -> "FAILED"
    [] code = "06" -> "CANCELLED"
    [] code = "4035100" -> "EXPIRED"
    [] OTHER -> "error"

\* mapQueryResult
MapQueryResult(code) ==
  CASE code = "00" -> "PAID"
    [] code \in {"01", "02", "03"} -> "pending"
    [] code = "04" -> "REFUNDED"
    [] code = "05" -> "CANCELLED"
    [] code = "06" -> "FAILED"
    [] code = "4035100" -> "EXPIRED"
    [] OTHER -> "error"

\* Manjo answers, or the query fails (device or configuration unresolved,
\* 401, timeout, 5xx, unknown code).
Query(i, t) ==
  /\ check[i][t] = "querying"
  /\ \E code \in QueryCodes(manjo[t]) \cup {"no answer"} :
       answer' = [answer EXCEPT ![i][t] = MapQueryResult(code)]
  /\ check' = [check EXCEPT ![i][t] = "answered"]
  /\ UNCHANGED <<db, mode, req, tries, world, mqtt, faults>>

\* Mutants of Outcome: no deadline, and a deadline that does not read the clock.
OutcomeNoDeadline(i, t) == answer[i][t]
OutcomeImpatient(i, t) ==
  IF answer[i][t] \in {"pending", "error"} THEN "EXPIRED" ELSE answer[i][t]

\* What CheckPayment makes of the answer: without a final one the deadline
\* decides.
Outcome(i, t) ==
  IF answer[i][t] \in {"pending", "error"} /\ overdue[t]
    THEN "EXPIRED" ELSE answer[i][t]

Finish(i, t, phase) ==
  /\ check'  = [check EXCEPT ![i][t] = phase]
  /\ answer' = [answer EXCEPT ![i][t] = "none"]
  /\ tries'  = [tries EXCEPT ![i][t] = 0]

\* The age of paid_at: parsePaidTime takes the time of the answer when Manjo
\* sent no usable paidTime, and such a payment is never too old.
TooOld(t) == stale[t] /\ dated[t]

\* Mutant of AfterTransition: every transition is announced.
AnnounceAny(t, s) ==
  IF ~TooOld(t) /\ t \in Speakable THEN "announcing" ELSE "idle"

\* process() after a transition: only a payment that does not look old and
\* whose amount can be spoken is announced.
AfterTransition(t, s) ==
  IF s = "PAID" /\ ~TooOld(t) /\ t \in Speakable THEN "announcing" ELSE "idle"

\* Mutant of Matches: the UPDATE loses its status condition.
MatchesAnyStatus(t, s) == TriggerAllows(status[t], s)

\* TransitionFromQRGenerated matches the row, and the trigger lets it pass.
Matches(t, s) == status[t] = "QR_GENERATED" /\ TriggerAllows(status[t], s)

Transition(t, s) ==
  /\ Matches(t, s)
  /\ status' = [status EXCEPT ![t] = s]
  /\ due'    = [due EXCEPT ![t] = FALSE]

\* The UPDATE returns the row: this worker, and no other, made the transition.
SettleApplied(i, t) ==
  /\ check[i][t] = "answered"
  /\ Outcome(i, t) \in Final
  /\ Transition(t, Outcome(i, t))
  /\ Finish(i, t, AfterTransition(t, Outcome(i, t)))
  /\ UNCHANGED <<overdue, mode, req, world, mqtt, faults>>

\* The UPDATE committed but its answer was lost: CheckPayment returns an
\* error and nothing is announced.
SettleLostCommit(i, t) ==
  /\ check[i][t] = "answered"
  /\ Outcome(i, t) \in Final
  /\ Transition(t, Outcome(i, t))
  /\ Finish(i, t, "idle")
  /\ Fault
  /\ UNCHANGED <<overdue, mode, req, world, mqtt>>

\* No final outcome, no row (another worker was first), or a database error.
SettleNothing(i, t) ==
  /\ check[i][t] = "answered"
  /\ Finish(i, t, "idle")
  /\ UNCHANGED <<db, mode, req, world, mqtt, faults>>

Settle(i, t) ==
  SettleApplied(i, t) \/ SettleLostCommit(i, t) \/ SettleNothing(i, t)

----------------------------------------------------------------------------
(* Announcer *)

\* Mutant of LastAttempt: no retry at all.
LastAttemptEarly(i, t) == TRUE

\* Publish waits five seconds for the broker's PUBACK: without it the attempt
\* counts as failed, although the message may have been delivered.
LastAttempt(i, t) == tries[i][t] + 1 = PublishAttempts

Publish(i, t) ==
  /\ check[i][t] = "announcing"
  /\ \/ /\ heard' = [heard EXCEPT ![t] = @ + 1]
        /\ check' = [check EXCEPT ![i][t] = "published"]
        /\ UNCHANGED <<tries, missed>>
     \/ /\ \/ heard' = [heard EXCEPT ![t] = @ + 1] /\ UNCHANGED missed
           \/ missed' = [missed EXCEPT ![t] = @ + 1] /\ UNCHANGED heard
        /\ tries' = [tries EXCEPT ![i][t] = @ + 1]
        /\ check' = [check EXCEPT ![i][t] =
                       IF LastAttempt(i, t) THEN "unpublished" ELSE @]
  /\ UNCHANGED <<db, mode, req, answer, world, shown, logged, faults>>

\* Mutant of LogStatus: the entry keeps its default status.
LogAlwaysProcessed(phase) == "PROCESSED"

LogStatus(phase) == IF phase = "published" THEN "PROCESSED" ELSE "FAILED"

\* mqttlog.Record, whose own failure is swallowed.
RecordAnnouncement(i, t) ==
  /\ check[i][t] \in {"published", "unpublished"}
  /\ logged' \in {logged, [logged EXCEPT ![t] = LogStatus(check[i][t])]}
  /\ Finish(i, t, "idle")
  /\ UNCHANGED <<db, mode, req, world, shown, heard, missed, faults>>

----------------------------------------------------------------------------
(* Process life *)

\* The process of i is gone, with everything it held in memory.
Die(i) ==
  /\ mode'   = [mode EXCEPT ![i] = "down"]
  /\ req'    = [req EXCEPT ![i] = Idle]
  /\ check'  = [check EXCEPT ![i] = Idle]
  /\ answer' = [answer EXCEPT ![i] = [t \in Tx |-> "none"]]
  /\ tries'  = [tries EXCEPT ![i] = [t \in Tx |-> 0]]

Sigterm(i) ==
  /\ mode[i] = "up"
  /\ mode' = [mode EXCEPT ![i] = "draining"]
  /\ Fault
  /\ UNCHANGED <<db, local, world, mqtt>>

\* pollerDone: Run returned after its last batch.
Exit(i) ==
  /\ mode[i] = "draining"
  /\ BatchDone(i)
  /\ Die(i)
  /\ UNCHANGED <<db, world, mqtt, faults>>

\* shutdownCtx ran out first: main returns with the batch in flight.
ForcedExit(i) ==
  /\ mode[i] = "draining"
  /\ ~BatchDone(i)
  /\ Die(i)
  /\ UNCHANGED <<db, world, mqtt, faults>>

Crash(i) ==
  /\ mode[i] # "down"
  /\ Die(i)
  /\ Fault
  /\ UNCHANGED <<db, world, mqtt>>

Restart(i) ==
  /\ mode[i] = "down"
  /\ mode' = [mode EXCEPT ![i] = "up"]
  /\ UNCHANGED <<db, local, world, mqtt, faults>>

----------------------------------------------------------------------------
(* Manjo, the customer and the clock *)

\* An open QR can be paid once the device shows it, can lapse, and can be
\* closed by Manjo; a payment can be refunded before the poller sees it.
ManjoStep(m, visible) ==
  CASE m = "open" -> {"expired", "cancelled", "failed"}
                       \cup (IF visible THEN {"paid"} ELSE {})
    [] m = "paid" -> {"refunded"}
    [] OTHER      -> {}

ManjoMoves(t) ==
  /\ \E m \in ManjoStep(manjo[t], shown[t]) : manjo' = [manjo EXCEPT ![t] = m]
  /\ UNCHANGED <<db, mode, local, stale, dated, mqtt, faults>>

IntervalElapses(t) ==
  /\ status[t] = "QR_GENERATED"
  /\ ~due[t]
  /\ due' = [due EXCEPT ![t] = TRUE]
  /\ UNCHANGED <<status, overdue, mode, local, world, mqtt, faults>>

\* expire_at plus deadlineGrace is a time of the service's own clock: Manjo's
\* expiryDuration or expireDate when it sent one, else ten minutes, whatever
\* validity was asked for.  Nothing ties it to what Manjo does with the code.
DeadlinePasses(t) ==
  /\ status[t] = "QR_GENERATED"
  /\ ~overdue[t]
  /\ overdue' = [overdue EXCEPT ![t] = TRUE]
  /\ UNCHANGED <<status, due, mode, local, world, mqtt, faults>>

PaymentGoesStale(t) ==
  /\ manjo[t] = "paid"
  /\ ~stale[t]
  /\ stale' = [stale EXCEPT ![t] = TRUE]
  /\ UNCHANGED <<db, mode, local, manjo, dated, mqtt, faults>>

----------------------------------------------------------------------------
Handler(i, t) ==
  \/ Receive(i, t) \/ GenerateSucceeds(i, t) \/ GenerateFails(i, t)
  \/ MarkQRGenerated(i, t) \/ MarkFailed(i, t)
  \/ ReplyQR(i, t) \/ ReplyFailure(i, t)

Poller(i, t) ==
  \/ StartCheck(i, t) \/ Query(i, t) \/ Settle(i, t)
  \/ Publish(i, t) \/ RecordAnnouncement(i, t)

Process(i) == Claim(i) \/ Sigterm(i) \/ Exit(i) \/ ForcedExit(i) \/ Crash(i) \/ Restart(i)

Environment(t) ==
  \/ ManjoMoves(t) \/ IntervalElapses(t) \/ DeadlinePasses(t)
  \/ PaymentGoesStale(t)

Next ==
  \/ \E i \in Instances : Process(i)
  \/ \E i \in Instances, t \in Tx : Handler(i, t) \/ Poller(i, t)
  \/ \E t \in Tx : Environment(t)

Spec == Init /\ [][Next]_vars

----------------------------------------------------------------------------
(* Fairness: goroutines are scheduled, a stopped instance is started again,
   time passes and an unpaid QR lapses at Manjo.  The database works
   infinitely often, hence the strong fairness of SettleApplied.  Nothing is
   assumed of Manjo's answers, of the broker or of the customer. *)
Fairness ==
  /\ \A i \in Instances :
       WF_vars(Claim(i)) /\ WF_vars(Exit(i) \/ ForcedExit(i)) /\ WF_vars(Restart(i))
  /\ \A i \in Instances, t \in Tx :
       /\ WF_vars(GenerateSucceeds(i, t) \/ GenerateFails(i, t))
       /\ WF_vars(MarkQRGenerated(i, t))
       /\ WF_vars(MarkFailed(i, t))
       /\ WF_vars(ReplyQR(i, t) \/ ReplyFailure(i, t))
       /\ WF_vars(StartCheck(i, t))
       /\ WF_vars(Query(i, t))
       /\ WF_vars(Settle(i, t))
       /\ SF_vars(SettleApplied(i, t))
       /\ WF_vars(Publish(i, t))
       /\ WF_vars(RecordAnnouncement(i, t))
  /\ \A t \in Tx :
       /\ WF_vars(manjo[t] = "open" /\ ManjoMoves(t))
       /\ WF_vars(IntervalElapses(t))
       /\ WF_vars(DeadlinePasses(t))

FairSpec == Spec /\ Fairness

----------------------------------------------------------------------------
(* Properties *)

\* The worker of i made t's transition and is still busy with what follows.
Owns(i, t) == check[i][t] \in {"announcing", "published", "unpublished"}

Announcing(t) == \E i \in Instances : check[i][t] = "announcing"

Collected == {"paid", "refunded"}

\* Whatever the interleaving of pollers and instances, at most one worker
\* believes it moved a transaction (PaymentCheckResult.Transitioned).
OneAnnouncer ==
  \A i, j \in Instances, t \in Tx : Owns(i, t) /\ Owns(j, t) => i = j

\* A payment is published at most PublishAttempts times in its whole life,
\* over all instances, crashes and restarts.
AnnouncementsBounded ==
  \A t \in Tx : heard[t] + missed[t] =< PublishAttempts

\* No soundbox announces money Manjo did not collect, or a payment the
\* database does not know.
AnnouncedMeansPaid ==
  \A t \in Tx :
    heard[t] + missed[t] > 0 => status[t] = "PAID" /\ manjo[t] \in Collected

\* While a customer can pay a QR the service is polling it: the row is
\* QR_GENERATED before the device shows the code, and nothing, no answer and no
\* failure, ends the polling while Manjo still holds the code open, but for the
\* deadline, and that one only with EXPIRED and once it has passed.
PayableIsPolled ==
  \A t \in Tx : shown[t] /\ manjo[t] = "open" =>
    \/ status[t] = "QR_GENERATED"
    \/ status[t] = "EXPIRED" /\ overdue[t]

\* A final status of a QR the customer saw agrees with Manjo's record, however
\* old the answer it was derived from; only an EXPIRED of a row whose deadline
\* has passed may hide another end, a payment included.
TruthfulStatus ==
  \A t \in Tx : shown[t] =>
    /\ status[t] = "PAID"      => manjo[t] \in Collected
    /\ status[t] = "REFUNDED"  => manjo[t] = "refunded"
    /\ status[t] = "CANCELLED" => manjo[t] = "cancelled"
    /\ status[t] = "FAILED"    => manjo[t] = "failed"
    /\ status[t] = "EXPIRED"   => manjo[t] = "expired" \/ overdue[t]

\* A paid transaction stays silent only for a known reason: an adverse event, a
\* payment that Manjo dated and that was found late, an amount that cannot be
\* spoken, or a broker that took none of the attempts.
SilenceExplained ==
  \A t \in Tx :
    status[t] = "PAID" /\ heard[t] = 0 /\ ~Announcing(t)
      => \/ faults > 0 \/ TooOld(t) \/ t \notin Speakable
         \/ missed[t] = PublishAttempts

\* The support query of docs/running-locally.md section 7 (PAID without a
\* PROCESSED announcement) lists every payment whose soundbox stayed silent.
SilentPaymentIsListed ==
  \A t \in Tx : status[t] = "PAID" /\ heard[t] = 0 => logged[t] # "PROCESSED"

\* A final status is never overwritten.
FinalIsForever ==
  [][\A t \in Tx : status[t] \in Final => status'[t] = status[t]]_vars

\* Every QR the service tracks reaches a final status, although queries may
\* fail forever and instances may crash: nothing is polled for ever.
EventuallySettled ==
  \A t \in Tx : status[t] = "QR_GENERATED" ~> status[t] \in Final

\* Without adverse events a payment is spoken, or was refused by the broker
\* PublishAttempts times, or is one that Manjo dated and that has become old.
PaidIsSpoken ==
  \A t \in Tx : status[t] = "PAID" /\ t \in Speakable
    ~> heard[t] > 0 \/ missed[t] = PublishAttempts \/ TooOld(t) \/ faults > 0

\* The bridge implements the lifecycle it promises: the workers, retries and
\* crashes of all instances together look like one voice per transaction.
Lifecycle == INSTANCE PaymentLifecycle WITH
  MaxAttempts <- PublishAttempts,
  voice  <- [t \in Tx |-> Announcing(t)],
  spoken <- [t \in Tx |-> heard[t] + missed[t]]

ImplementsLifecycle == Lifecycle!Spec

(* Why the safety properties hold: an invariant every step preserves *)

Tracked(t) == status[t] \notin {"NONE", "PENDING"}

\* Manjo's record m agrees with the final status s.
Agrees(s, m) ==
  /\ s = "PAID"      => m \in Collected
  /\ s = "REFUNDED"  => m = "refunded"
  /\ s = "CANCELLED" => m = "cancelled"
  /\ s = "FAILED"    => m = "failed"
  /\ s = "EXPIRED"   => m = "expired"

\* The stored status agrees with Manjo's record, or is the deadline's.
Truthful(t) ==
  Agrees(status[t], manjo[t]) \/ (status[t] = "EXPIRED" /\ overdue[t])

RowInv ==
  \A t \in Tx :
    /\ status[t] = "NONE" => manjo[t] = "absent"
    /\ status[t] = "QR_GENERATED" => manjo[t] # "absent"
    /\ shown[t] => Tracked(t)
    /\ status[t] # "FAILED" \/ shown[t] => Truthful(t)
    /\ status[t] # "PAID" => heard[t] = 0 /\ missed[t] = 0
    /\ heard[t] + missed[t] =< PublishAttempts
    /\ logged[t] = "PROCESSED" => heard[t] > 0

HandlerInv ==
  \A i \in Instances, t \in Tx :
    /\ req[i][t] # "idle" => status[t] # "NONE"
    /\ req[i][t] \in {"created", "generated", "failing"} => status[t] = "PENDING"
    /\ req[i][t] = "created" => manjo[t] = "absent"
    /\ req[i][t] = "generated" => manjo[t] # "absent"
    /\ req[i][t] = "replyQR" => Tracked(t) /\ Truthful(t)
    /\ \A j \in Instances :
         req[i][t] # "idle" /\ req[j][t] # "idle" => i = j

CheckInv ==
  \A i \in Instances, t \in Tx :
    /\ check[i][t] # "idle" => Tracked(t)
    /\ answer[i][t] \in Final => Agrees(answer[i][t], manjo[t])
    /\ Owns(i, t) => status[t] = "PAID"
    /\ check[i][t] = "announcing" =>
         heard[t] + missed[t] = tries[i][t] /\ tries[i][t] < PublishAttempts
    /\ check[i][t] = "published" => heard[t] > 0

ModeInv == \A i \in Instances : mode[i] # "up" => faults > 0

IInv == /\ TypeOK /\ RowInv /\ HandlerInv /\ CheckInv /\ ModeInv
        /\ OneAnnouncer /\ SilenceExplained

(* What the documentation says and the code does not do *)

\* payment-polling-design.md:107: one payment, one announcement.
OneAnnouncementPerPayment == \A t \in Tx : heard[t] =< 1

\* schema.md:150: EXPIRED is stored for a QR that was not paid.
ExpiredWasUnpaid ==
  [][\A t \in Tx : status[t] # "EXPIRED" /\ status'[t] = "EXPIRED"
                      => manjo[t] \notin Collected]_vars

\* poller.go:62: a normal shutdown never leaves a payment unannounced.
ShutdownNeverSilences ==
  [][\A i \in Instances, t \in Tx :
       mode[i] = "draining" /\ mode'[i] = "down" /\ check[i][t] = "announcing"
         => heard[t] > 0]_vars

\* prd.md:268: no transaction stays in an ambiguous status.
PendingIsTransient == \A t \in Tx : status[t] = "PENDING" ~> status[t] # "PENDING"

=============================================================================
