------------------------ MODULE PaymentBridge_proofs ------------------------
(***************************************************************************)
(* Proofs about PaymentBridge for any set of transactions and instances,   *)
(* any batch size, worker count, number of publish attempts and any number *)
(* of adverse events.                                                      *)
(***************************************************************************)
EXTENDS PaymentBridge, TLAPS

----------------------------------------------------------------------------
(* Type correctness *)

LEMMA InitTypeOK == Init => TypeOK
  BY BridgeAssumption DEF Init, TypeOK, Idle, Status, Final, Modes, Handling,
     Checking, Answers, ManjoState

\* Every answer MapQueryResult gives is one the worker knows.
LEMMA MapQueryResultType ==
  ASSUME NEW code
  PROVE  MapQueryResult(code) \in Answers \ {"none"}
  BY DEF MapQueryResult, Answers, Final

\* An adverse event keeps the count within its bound.
LEMMA FaultType ==
  ASSUME TypeOK, Fault \/ UNCHANGED faults
  PROVE  faults' \in 0..MaxFaults
  BY BridgeAssumption DEF TypeOK, Fault

\* The handler and the worker only move to phases they know.
LEMMA GoToType ==
  ASSUME TypeOK, NEW i \in Instances, NEW t \in Tx, NEW phase \in Handling,
         GoTo(i, t, phase)
  PROVE  req' \in [Instances -> [Tx -> Handling]]
  BY DEF TypeOK, GoTo

LEMMA FinishType ==
  ASSUME TypeOK, NEW i \in Instances, NEW t \in Tx, NEW phase \in Checking,
         Finish(i, t, phase)
  PROVE  /\ check'  \in [Instances -> [Tx -> Checking]]
         /\ answer' \in [Instances -> [Tx -> Answers]]
         /\ tries'  \in [Instances -> [Tx -> Nat]]
<1>1. "none" \in Answers
  BY DEF Answers
<1>2. QED BY <1>1 DEF TypeOK, Finish

\* A transition stores a final status and clears next_query_at.
LEMMA TransitionType ==
  ASSUME TypeOK, NEW t \in Tx, NEW s \in Final, Transition(t, s)
  PROVE  status' \in [Tx -> Status] /\ due' \in [Tx -> BOOLEAN]
  BY DEF TypeOK, Transition, Status

LEMMA HandlerTypeOK ==
  ASSUME TypeOK, NEW i \in Instances, NEW t \in Tx, Handler(i, t)
  PROVE  TypeOK'
<1>0. /\ {"idle", "created", "generated", "failing", "replyQR", "replyFail"}
           = Handling
      /\ {"PENDING", "QR_GENERATED", "FAILED"} \subseteq Status
      /\ "open" \in ManjoState
  BY DEF Handling, Status, Final, ManjoState
<1>1. CASE Receive(i, t)
  <2>1. status' \in [Tx -> Status]
    BY <1>0, <1>1 DEF Receive, TypeOK
  <2>2. req' \in [Instances -> [Tx -> Handling]] /\ faults' \in 0..MaxFaults
    BY <1>0, <1>1, GoToType, FaultType DEF Receive
  <2>3. QED BY <1>1, <2>1, <2>2 DEF Receive, TypeOK, world, mqtt
<1>2. CASE GenerateSucceeds(i, t)
  <2>1. manjo' \in [Tx -> ManjoState]
    BY <1>0, <1>2 DEF GenerateSucceeds, TypeOK
  <2>2. req' \in [Instances -> [Tx -> Handling]]
    BY <1>0, <1>2, GoToType DEF GenerateSucceeds
  <2>3. QED BY <1>2, <2>1, <2>2 DEF GenerateSucceeds, TypeOK, db, mqtt
<1>3. CASE GenerateFails(i, t)
  <2>1. manjo' \in [Tx -> ManjoState]
    BY <1>0, <1>3 DEF GenerateFails, TypeOK
  <2>2. req' \in [Instances -> [Tx -> Handling]]
    BY <1>0, <1>3, GoToType DEF GenerateFails
  <2>3. QED BY <1>3, <2>1, <2>2 DEF GenerateFails, TypeOK, db, mqtt
<1>4. CASE MarkQRGenerated(i, t)
  <2>1. status' \in [Tx -> Status] /\ due' \in [Tx -> BOOLEAN]
    <3>1. CASE status' = [status EXCEPT ![t] = "QR_GENERATED"]
               /\ due' = [due EXCEPT ![t] = FALSE]
      BY <1>0, <3>1 DEF TypeOK
    <3>2. CASE UNCHANGED <<status, due>>
      BY <3>2 DEF TypeOK
    <3>3. QED BY <1>4, <3>1, <3>2 DEF MarkQRGenerated
  <2>2. req' \in [Instances -> [Tx -> Handling]] /\ faults' \in 0..MaxFaults
    BY <1>0, <1>4, GoToType, FaultType DEF MarkQRGenerated
  <2>3. QED BY <1>4, <2>1, <2>2 DEF MarkQRGenerated, TypeOK, world, mqtt
<1>5. CASE MarkFailed(i, t)
  <2>1. status' \in [Tx -> Status]
    BY <1>0, <1>5 DEF MarkFailed, TypeOK
  <2>2. req' \in [Instances -> [Tx -> Handling]]
    BY <1>0, <1>5, GoToType DEF MarkFailed
  <2>3. QED BY <1>5, <2>1, <2>2 DEF MarkFailed, TypeOK, world, mqtt
<1>6. CASE ReplyQR(i, t)
  BY <1>0, <1>6, GoToType DEF ReplyQR, TypeOK, db, world
<1>7. CASE ReplyFailure(i, t)
  BY <1>0, <1>7, GoToType DEF ReplyFailure, TypeOK, db, world, mqtt
<1>8. QED BY <1>1, <1>2, <1>3, <1>4, <1>5, <1>6, <1>7 DEF Handler

LEMMA PollerTypeOK ==
  ASSUME TypeOK, NEW i \in Instances, NEW t \in Tx, Poller(i, t)
  PROVE  TypeOK'
<1>0. {"idle", "claimed", "querying", "answered", "announcing", "published",
       "unpublished"} = Checking
  BY DEF Checking
<1>1. CASE StartCheck(i, t)
  BY <1>0, <1>1 DEF StartCheck, TypeOK, db, world, mqtt
<1>2. CASE Query(i, t)
  <2>1. PICK code \in QueryCodes(manjo[t]) \cup {"no answer"} :
          answer' = [answer EXCEPT ![i][t] = MapQueryResult(code)]
    BY <1>2 DEF Query
  <2>2. answer' \in [Instances -> [Tx -> Answers]]
    BY <2>1, MapQueryResultType DEF TypeOK
  <2>3. check' \in [Instances -> [Tx -> Checking]]
    BY <1>0, <1>2 DEF Query, TypeOK
  <2>4. QED BY <1>2, <2>2, <2>3 DEF Query, TypeOK, db, world, mqtt
<1>3. CASE SettleApplied(i, t)
  <2>1. AfterTransition(t, Outcome(i, t)) \in Checking
    BY <1>0 DEF AfterTransition
  <2>2. QED BY <1>3, <2>1, FinishType, TransitionType
            DEF SettleApplied, TypeOK, world, mqtt
<1>4. CASE SettleLostCommit(i, t)
  BY <1>0, <1>4, FinishType, TransitionType, FaultType
     DEF SettleLostCommit, TypeOK, world, mqtt
<1>5. CASE SettleNothing(i, t)
  BY <1>0, <1>5, FinishType DEF SettleNothing, TypeOK, db, world, mqtt
<1>6. CASE Publish(i, t)
  <2>1. /\ UNCHANGED heard \/ heard' = [heard EXCEPT ![t] = @ + 1]
        /\ UNCHANGED missed \/ missed' = [missed EXCEPT ![t] = @ + 1]
        /\ UNCHANGED tries \/ tries' = [tries EXCEPT ![i][t] = @ + 1]
        /\ \E c \in Checking : check' = [check EXCEPT ![i][t] = c]
    <3>1. check[i][t] = "announcing" BY <1>6 DEF Publish
    <3>2. CASE check' = [check EXCEPT ![i][t] = "published"]
      BY <1>0, <1>6, <3>2 DEF Publish
    <3>3. CASE check' = [check EXCEPT ![i][t] =
                           IF LastAttempt(i, t) THEN "unpublished" ELSE @]
      BY <1>0, <1>6, <3>1, <3>3 DEF Publish
    <3>4. QED BY <1>6, <3>2, <3>3 DEF Publish
  <2>0. heard[t] + 1 \in Nat /\ missed[t] + 1 \in Nat /\ tries[i][t] + 1 \in Nat
    BY DEF TypeOK
  <2>2. heard' \in [Tx -> Nat] BY <2>0, <2>1 DEF TypeOK
  <2>3. missed' \in [Tx -> Nat] BY <2>0, <2>1 DEF TypeOK
  <2>4. check' \in [Instances -> [Tx -> Checking]] BY <2>1 DEF TypeOK
  <2>5. tries' \in [Instances -> [Tx -> Nat]]
    <3>1. CASE UNCHANGED tries BY <3>1 DEF TypeOK
    <3>2. CASE tries' = [tries EXCEPT ![i][t] = @ + 1]
      BY <2>0, <3>2 DEF TypeOK
    <3>3. QED BY <2>1, <3>1, <3>2
  <2>6. QED BY <1>6, <2>2, <2>3, <2>4, <2>5 DEF Publish, TypeOK, db, world
<1>7. CASE RecordAnnouncement(i, t)
  <2>1. logged' \in [Tx -> {"none", "PROCESSED", "FAILED"}]
    BY <1>7 DEF RecordAnnouncement, LogStatus, TypeOK
  <2>2. QED BY <1>0, <1>7, <2>1, FinishType
            DEF RecordAnnouncement, TypeOK, db, world
<1>8. QED BY <1>1, <1>2, <1>3, <1>4, <1>5, <1>6, <1>7 DEF Poller, Settle

LEMMA ProcessTypeOK ==
  ASSUME TypeOK, NEW i \in Instances, Process(i)
  PROVE  TypeOK'
<1>1. CASE Claim(i)
  <2>1. PICK S \in Batches(Claimable) : Claim(i)!3!(S)
    BY <1>1 DEF Claim
  <2>2. due' \in [Tx -> BOOLEAN]
    BY <2>1 DEF TypeOK
  <2>3. check' \in [Instances -> [Tx -> Checking]]
    <3>1. [u \in Tx |-> IF u \in S THEN "claimed" ELSE "idle"] \in [Tx -> Checking]
      BY DEF Checking
    <3>2. QED BY <2>1, <3>1 DEF TypeOK
  <2>4. faults' \in 0..MaxFaults
    BY <2>1, FaultType
  <2>5. QED BY <1>1, <2>2, <2>3, <2>4 DEF Claim, TypeOK, world, mqtt
<1>2. CASE Sigterm(i) \/ Restart(i)
  <2>1. mode' \in [Instances -> Modes] BY <1>2 DEF Sigterm, Restart, TypeOK, Modes
  <2>2. faults' \in 0..MaxFaults BY <1>2, FaultType DEF Sigterm, Restart
  <2>3. QED BY <1>2, <2>1, <2>2 DEF Sigterm, Restart, TypeOK, db, local, world, mqtt
<1>3. CASE Exit(i) \/ ForcedExit(i) \/ Crash(i)
  <2>1. Die(i) BY <1>3 DEF Exit, ForcedExit, Crash
  <2>2. mode' \in [Instances -> Modes] BY <2>1 DEF Die, TypeOK, Modes
  <2>3. /\ req' \in [Instances -> [Tx -> Handling]]
        /\ check' \in [Instances -> [Tx -> Checking]]
    BY <2>1 DEF Die, TypeOK, Idle, Handling, Checking
  <2>4. answer' \in [Instances -> [Tx -> Answers]]
    BY <2>1 DEF Die, TypeOK, Answers
  <2>5. tries' \in [Instances -> [Tx -> Nat]]
    BY <2>1 DEF Die, TypeOK
  <2>6. faults' \in 0..MaxFaults
    BY <1>3, FaultType DEF Exit, ForcedExit, Crash
  <2>7. QED BY <1>3, <2>2, <2>3, <2>4, <2>5, <2>6
            DEF Exit, ForcedExit, Crash, TypeOK, db, world, mqtt
<1>4. QED BY <1>1, <1>2, <1>3 DEF Process

LEMMA EnvironmentTypeOK ==
  ASSUME TypeOK, NEW t \in Tx, Environment(t)
  PROVE  TypeOK'
<1> USE DEF TypeOK, db, local, world, mqtt
<1>1. CASE ManjoMoves(t)
  BY <1>1 DEF ManjoMoves, ManjoStep, ManjoState
<1>2. CASE IntervalElapses(t) \/ DeadlinePasses(t) \/ PaymentGoesStale(t)
  BY <1>2 DEF IntervalElapses, DeadlinePasses, PaymentGoesStale
<1>3. QED BY <1>1, <1>2 DEF Environment

LEMMA NextTypeOK == TypeOK /\ [Next]_vars => TypeOK'
<1> SUFFICES ASSUME TypeOK, [Next]_vars PROVE TypeOK'
  OBVIOUS
<1>1. CASE UNCHANGED vars
  BY <1>1 DEF vars, TypeOK
<1>2. CASE Next
  BY <1>2, HandlerTypeOK, PollerTypeOK, ProcessTypeOK, EnvironmentTypeOK DEF Next
<1>3. QED BY <1>1, <1>2

\* The variables keep their types in every behaviour of the bridge.
THEOREM TypeCorrect == Spec => []TypeOK
<1>1. Init => TypeOK BY InitTypeOK
<1>2. TypeOK /\ [Next]_vars => TypeOK' BY NextTypeOK
<1>3. QED BY <1>1, <1>2, PTL DEF Spec

----------------------------------------------------------------------------
(* The inductive invariant *)

\* What IInv adds to the types.
Strength == /\ RowInv /\ HandlerInv /\ CheckInv /\ ModeInv
            /\ OneAnnouncer /\ SilenceExplained

\* A part of the invariant is kept by every step that leaves alone what the
\* part reads.
LEMMA RowFrame ==
  ASSUME RowInv, UNCHANGED <<status, manjo, shown, overdue, heard, missed, logged>>
  PROVE  RowInv'
  BY DEF RowInv, Tracked, Truthful, Agrees, Collected

LEMMA HandlerFrame ==
  ASSUME HandlerInv, UNCHANGED <<req, status, manjo, overdue>>
  PROVE  HandlerInv'
  BY DEF HandlerInv, Tracked, Truthful, Agrees, Collected

LEMMA CheckFrame ==
  ASSUME CheckInv, UNCHANGED <<check, answer, tries, status, manjo, heard, missed>>
  PROVE  CheckInv'
  BY DEF CheckInv, Tracked, Agrees, Collected, Owns

LEMMA ModeFrame ==
  ASSUME TypeOK, ModeInv, UNCHANGED mode, UNCHANGED faults \/ Fault
  PROVE  ModeInv'
  BY DEF ModeInv, Fault, TypeOK

LEMMA OneAnnouncerFrame ==
  ASSUME OneAnnouncer, UNCHANGED check
  PROVE  OneAnnouncer'
  BY DEF OneAnnouncer, Owns

\* Nobody falls silent and no row becomes PAID.
LEMMA SilenceStep ==
  ASSUME TypeOK, SilenceExplained, UNCHANGED <<heard, missed, stale, dated>>,
         UNCHANGED faults \/ Fault,
         \A u \in Tx : status'[u] = "PAID" => status[u] = "PAID",
         \A u \in Tx : Announcing(u) => Announcing(u)'
  PROVE  SilenceExplained'
<1>1. faults > 0 => faults' > 0
  BY DEF Fault, TypeOK
<1>2. QED BY <1>1 DEF SilenceExplained, TooOld

LEMMA SilenceFrame ==
  ASSUME TypeOK, SilenceExplained, UNCHANGED <<heard, missed, stale, dated, check>>,
         UNCHANGED faults \/ Fault,
         \A u \in Tx : status'[u] = "PAID" => status[u] = "PAID"
  PROVE  SilenceExplained'
<1>1. \A u \in Tx : Announcing(u) => Announcing(u)'
  BY DEF Announcing
<1>2. QED BY <1>1, SilenceStep

LEMMA ReceiveInv ==
  ASSUME IInv, NEW i \in Instances, NEW t \in Tx, Receive(i, t)
  PROVE  Strength'
<1>1. /\ status[t] = "NONE" /\ manjo[t] = "absent" /\ ~shown[t]
      /\ \A j \in Instances : req[j][t] = "idle" /\ check[j][t] = "idle"
  BY DEF IInv, RowInv, HandlerInv, CheckInv, Receive, Tracked
<1>2. \A u \in Tx : status'[u] = IF u = t THEN "PENDING" ELSE status[u]
  BY DEF IInv, TypeOK, Receive
<1>3. /\ req'[i][t] \in {"created", "replyFail"}
      /\ \A j \in Instances, u \in Tx : j # i \/ u # t => req'[j][u] = req[j][u]
  BY DEF IInv, TypeOK, Receive, GoTo
<1>4. /\ UNCHANGED <<manjo, shown, overdue, heard, missed, logged, check, answer,
                     tries, mode, stale, dated>>
      /\ UNCHANGED faults \/ Fault
  BY DEF Receive, world, mqtt
<1>5. RowInv'
  BY <1>1, <1>2, <1>4 DEF IInv, RowInv, Tracked, Truthful, Agrees
<1>6. HandlerInv'
  BY <1>1, <1>2, <1>3, <1>4 DEF IInv, HandlerInv, Tracked, Truthful, Agrees
<1>7. CheckInv'
  BY <1>1, <1>2, <1>4 DEF IInv, CheckInv, Tracked, Owns, Agrees
<1>8. SilenceExplained'
  BY <1>2, <1>4, SilenceFrame DEF IInv
<1>9. QED
  BY <1>4, <1>5, <1>6, <1>7, <1>8, ModeFrame, OneAnnouncerFrame DEF IInv, Strength

LEMMA GenerateInv ==
  ASSUME IInv, NEW i \in Instances, NEW t \in Tx,
         GenerateSucceeds(i, t) \/ GenerateFails(i, t)
  PROVE  Strength'
<1>1. /\ status[t] = "PENDING" /\ manjo[t] = "absent" /\ ~shown[t]
      /\ req[i][t] = "created"
      /\ \A j \in Instances : j # i => req[j][t] = "idle"
      /\ \A j \in Instances : check[j][t] = "idle" /\ answer[j][t] \notin Final
  BY DEF IInv, RowInv, HandlerInv, CheckInv, GenerateSucceeds, GenerateFails, At,
     Tracked, Truthful, Agrees, Collected, Final
<1>2. /\ \A u \in Tx : u # t => manjo'[u] = manjo[u]
      /\ manjo'[t] \in {"absent", "open"}
      /\ manjo'[t] = "absent" => req'[i][t] = "failing"
  <2>1. UNCHANGED manjo \/ manjo' = [manjo EXCEPT ![t] = "open"]
    BY DEF GenerateSucceeds, GenerateFails
  <2>2. /\ \A u \in Tx : u # t => manjo'[u] = manjo[u]
        /\ manjo'[t] \in {"absent", "open"}
    BY <1>1, <2>1 DEF IInv, TypeOK
  <2>3. CASE GenerateSucceeds(i, t)
    <3>1. manjo'[t] = "open"
      BY <2>3 DEF IInv, TypeOK, GenerateSucceeds
    <3>2. QED BY <2>2, <3>1
  <2>4. CASE GenerateFails(i, t)
    <3>1. req'[i][t] = "failing"
      BY <2>4 DEF IInv, TypeOK, GenerateFails, GoTo
    <3>2. QED BY <2>2, <3>1
  <2>5. QED BY <2>3, <2>4
<1>3. /\ req'[i][t] \in {"generated", "failing"}
      /\ \A j \in Instances, u \in Tx : j # i \/ u # t => req'[j][u] = req[j][u]
  BY DEF IInv, TypeOK, GenerateSucceeds, GenerateFails, GoTo
<1>4. UNCHANGED <<status, shown, overdue, heard, missed, logged, check, answer,
                  tries, mode, stale, dated, faults>>
  BY DEF GenerateSucceeds, GenerateFails, db, mqtt
<1>5. RowInv'
  BY <1>1, <1>2, <1>4 DEF IInv, RowInv, Tracked, Truthful, Agrees
<1>6. HandlerInv'
  BY <1>1, <1>2, <1>3, <1>4 DEF IInv, HandlerInv, Tracked, Truthful, Agrees
<1>7. CheckInv'
  BY <1>1, <1>2, <1>4 DEF IInv, CheckInv, Tracked, Owns, Agrees
<1>8. SilenceExplained'
  BY <1>4, SilenceFrame DEF IInv
<1>9. QED
  BY <1>4, <1>5, <1>6, <1>7, <1>8, ModeFrame, OneAnnouncerFrame DEF IInv, Strength

\* markQRGenerated and markFailed: the PENDING row moves on, or not.
LEMMA MarkInv ==
  ASSUME IInv, NEW i \in Instances, NEW t \in Tx,
         MarkQRGenerated(i, t) \/ MarkFailed(i, t)
  PROVE  Strength'
<1>1. /\ status[t] = "PENDING" /\ ~shown[t]
      /\ req[i][t] \in {"generated", "failing"}
      /\ req[i][t] = "generated" => manjo[t] # "absent"
      /\ \A j \in Instances : j # i => req[j][t] = "idle"
      /\ \A j \in Instances : check[j][t] = "idle"
  BY DEF IInv, RowInv, HandlerInv, CheckInv, MarkQRGenerated, MarkFailed, At, Tracked
<1>2. /\ \/ status'[t] = "QR_GENERATED" /\ req[i][t] = "generated"
         \/ status'[t] \in {"PENDING", "FAILED"} /\ req'[i][t] = "replyFail"
      /\ \A u \in Tx : u # t => status'[u] = status[u]
  BY <1>1 DEF IInv, TypeOK, MarkQRGenerated, MarkFailed, GoTo, At
<1>3. /\ req'[i][t] \in {"replyQR", "replyFail"}
      /\ \A j \in Instances, u \in Tx : j # i \/ u # t => req'[j][u] = req[j][u]
  BY DEF IInv, TypeOK, MarkQRGenerated, MarkFailed, GoTo
<1>4. /\ UNCHANGED <<manjo, shown, overdue, heard, missed, logged, check, answer,
                     tries, mode, stale, dated>>
      /\ UNCHANGED faults \/ Fault
  BY DEF MarkQRGenerated, MarkFailed, world, mqtt
<1>5. RowInv'
  BY <1>1, <1>2, <1>4 DEF IInv, RowInv, Tracked, Truthful, Agrees
<1>6. HandlerInv'
  BY <1>1, <1>2, <1>3, <1>4 DEF IInv, HandlerInv, Tracked, Truthful, Agrees
<1>7. CheckInv'
  BY <1>1, <1>2, <1>4 DEF IInv, CheckInv, Tracked, Owns, Agrees
<1>8. SilenceExplained'
  BY <1>1, <1>2, <1>4, SilenceFrame DEF IInv
<1>9. QED
  BY <1>4, <1>5, <1>6, <1>7, <1>8, ModeFrame, OneAnnouncerFrame DEF IInv, Strength

LEMMA ReplyInv ==
  ASSUME IInv, NEW i \in Instances, NEW t \in Tx,
         ReplyQR(i, t) \/ ReplyFailure(i, t)
  PROVE  Strength'
<1>1. \/ UNCHANGED shown
      \/ Tracked(t) /\ Truthful(t)
  BY DEF IInv, HandlerInv, ReplyQR, ReplyFailure, At, mqtt
<1>2. \A u \in Tx : u # t => shown'[u] = shown[u]
  BY DEF IInv, TypeOK, ReplyQR, ReplyFailure, mqtt
<1>3. /\ req'[i][t] = "idle"
      /\ \A j \in Instances, u \in Tx : j # i \/ u # t => req'[j][u] = req[j][u]
  BY DEF IInv, TypeOK, ReplyQR, ReplyFailure, GoTo
<1>4. UNCHANGED <<status, manjo, overdue, heard, missed, logged, check, answer,
                  tries, mode, stale, dated, faults>>
  BY DEF ReplyQR, ReplyFailure, db, world, mqtt
<1>5. RowInv'
  BY <1>1, <1>2, <1>4 DEF IInv, RowInv, Tracked, Truthful, Agrees
<1>6. HandlerInv'
  BY <1>3, <1>4 DEF IInv, HandlerInv, Tracked, Truthful, Agrees
<1>7. CheckInv'
  BY <1>4, CheckFrame DEF IInv
<1>8. SilenceExplained'
  BY <1>4, SilenceFrame DEF IInv
<1>9. QED
  BY <1>4, <1>5, <1>6, <1>7, <1>8, ModeFrame, OneAnnouncerFrame DEF IInv, Strength

\* A claim only starts checks of rows that are QR_GENERATED.
LEMMA ClaimInv ==
  ASSUME IInv, NEW i \in Instances, Claim(i)
  PROVE  Strength'
<1>1. PICK S \in Batches(Claimable) : Claim(i)!3!(S)
  BY DEF Claim
<1>2. \A u \in S : u \in Tx /\ Tracked(u)
  BY DEF Batches, Claimable, Tracked
<1>3. \A j \in Instances, u \in Tx :
        \/ check'[j][u] = check[j][u]
        \/ j = i /\ check'[j][u] = "claimed" /\ Tracked(u)
  BY <1>1, <1>2 DEF IInv, TypeOK, Claim, BatchDone
<1>4. /\ UNCHANGED <<status, manjo, shown, overdue, heard, missed, logged, req,
                     answer, tries, mode, stale, dated>>
      /\ UNCHANGED faults \/ Fault
  BY <1>1 DEF Claim, world, mqtt
<1>5. RowInv' /\ HandlerInv' /\ ModeInv'
  BY <1>4, RowFrame, HandlerFrame, ModeFrame DEF IInv
<1>6. CheckInv'
  BY <1>3, <1>4 DEF IInv, CheckInv, Tracked, Owns, Agrees
<1>7. OneAnnouncer'
  BY <1>3 DEF IInv, OneAnnouncer, Owns
<1>8. \A u \in Tx : Announcing(u) => Announcing(u)'
  <2>1. \A u \in Tx : check[i][u] # "announcing"
    BY DEF Claim, BatchDone
  <2>2. \A j \in Instances, u \in Tx :
          check[j][u] = "announcing" => check'[j][u] = "announcing"
    BY <1>1, <2>1 DEF IInv, TypeOK
  <2>3. QED BY <2>2 DEF Announcing
<1>9. SilenceExplained'
  BY <1>4, <1>8, SilenceStep DEF IInv
<1>10. QED
  BY <1>5, <1>6, <1>7, <1>9 DEF Strength

\* An answer that settles a transaction agrees with Manjo's record.
LEMMA AnswerAgrees ==
  ASSUME NEW m \in ManjoState, NEW code \in QueryCodes(m) \cup {"no answer"},
         MapQueryResult(code) \in Final
  PROVE  Agrees(MapQueryResult(code), m)
<1>1. /\ m = "open" => code \in {"01", "02", "03", "no answer"}
      /\ m = "paid" => code \in {"00", "no answer"}
      /\ m = "refunded" => code \in {"04", "no answer"}
      /\ m = "cancelled" => code \in {"05", "no answer"}
      /\ m = "failed" => code \in {"06", "no answer"}
      /\ m = "expired" => code \in {"4035100", "no answer"}
      /\ m = "absent" => code \in {"07", "no answer"}
  BY DEF QueryCodes
<1>2. m \in {"absent", "open", "paid", "refunded", "cancelled", "failed", "expired"}
  BY DEF ManjoState
<1>3. QED
  BY <1>1, <1>2 DEF MapQueryResult, Final, Agrees, Collected

LEMMA CheckStartInv ==
  ASSUME IInv, NEW i \in Instances, NEW t \in Tx,
         StartCheck(i, t) \/ Query(i, t)
  PROVE  Strength'
<1>1. /\ check[i][t] \in {"claimed", "querying"}
      /\ check'[i][t] \in {"querying", "answered"}
      /\ \A j \in Instances, u \in Tx : j # i \/ u # t => check'[j][u] = check[j][u]
  <2>1. CASE StartCheck(i, t) BY <2>1 DEF IInv, TypeOK, StartCheck
  <2>2. CASE Query(i, t) BY <2>2 DEF IInv, TypeOK, Query
  <2>3. QED BY <2>1, <2>2
<1>2. \A j \in Instances, u \in Tx :
        \/ answer'[j][u] = answer[j][u]
        \/ answer'[j][u] \in Final => Agrees(answer'[j][u], manjo[u])
  <2>1. CASE StartCheck(i, t)
    BY <2>1 DEF StartCheck
  <2>2. CASE Query(i, t)
    <3>1. PICK code \in QueryCodes(manjo[t]) \cup {"no answer"} :
            answer' = [answer EXCEPT ![i][t] = MapQueryResult(code)]
      BY <2>2 DEF Query
    <3>2. manjo[t] \in ManjoState
      BY DEF IInv, TypeOK
    <3>3. MapQueryResult(code) \in Final => Agrees(MapQueryResult(code), manjo[t])
      BY <3>1, <3>2, AnswerAgrees
    <3>4. QED BY <3>1, <3>3 DEF IInv, TypeOK
  <2>3. QED BY <2>1, <2>2
<1>3. UNCHANGED <<status, manjo, shown, overdue, heard, missed, logged, req, tries,
                  mode, stale, dated, faults>>
  BY DEF StartCheck, Query, db, world, mqtt
<1>4. RowInv' /\ HandlerInv' /\ ModeInv'
  BY <1>3, RowFrame, HandlerFrame, ModeFrame DEF IInv
<1>5. CheckInv'
  BY <1>1, <1>2, <1>3 DEF IInv, CheckInv, Tracked, Owns, Agrees
<1>6. OneAnnouncer'
  BY <1>1 DEF IInv, OneAnnouncer, Owns
<1>7. \A u \in Tx : Announcing(u) => Announcing(u)'
  BY <1>1 DEF Announcing
<1>8. SilenceExplained'
  BY <1>3, <1>7, SilenceStep DEF IInv
<1>9. QED
  BY <1>4, <1>5, <1>6, <1>8 DEF Strength

\* The outcome of a check agrees with Manjo's record, or is the deadline's.
LEMMA OutcomeAgrees ==
  ASSUME IInv, NEW i \in Instances, NEW t \in Tx, Outcome(i, t) \in Final
  PROVE  \/ Agrees(Outcome(i, t), manjo[t])
         \/ Outcome(i, t) = "EXPIRED" /\ overdue[t]
<1>1. CASE answer[i][t] \in {"pending", "error"} /\ overdue[t]
  BY <1>1 DEF Outcome
<1>2. CASE ~(answer[i][t] \in {"pending", "error"} /\ overdue[t])
  BY <1>2 DEF IInv, CheckInv, Outcome
<1>3. QED BY <1>1, <1>2

\* A worker that is done leaves nothing behind.
LEMMA FinishEffect ==
  ASSUME TypeOK, NEW i \in Instances, NEW t \in Tx, NEW phase, Finish(i, t, phase)
  PROVE  /\ check'[i][t] = phase /\ answer'[i][t] = "none" /\ tries'[i][t] = 0
         /\ \A j \in Instances, u \in Tx : j # i \/ u # t =>
              /\ check'[j][u] = check[j][u]
              /\ answer'[j][u] = answer[j][u]
              /\ tries'[j][u] = tries[j][u]
<1>1. check'[i][t] = phase
      /\ \A j \in Instances, u \in Tx : j # i \/ u # t => check'[j][u] = check[j][u]
  BY DEF TypeOK, Finish
<1>2. answer'[i][t] = "none"
      /\ \A j \in Instances, u \in Tx : j # i \/ u # t => answer'[j][u] = answer[j][u]
  BY DEF TypeOK, Finish
<1>3. tries'[i][t] = 0
      /\ \A j \in Instances, u \in Tx : j # i \/ u # t => tries'[j][u] = tries[j][u]
  BY DEF TypeOK, Finish
<1>4. QED BY <1>1, <1>2, <1>3

LEMMA SettleTransitionInv ==
  ASSUME IInv, NEW i \in Instances, NEW t \in Tx,
         SettleApplied(i, t) \/ SettleLostCommit(i, t)
  PROVE  Strength'
<1> DEFINE s == Outcome(i, t)
<1>1. /\ status[t] = "QR_GENERATED" /\ s \in Final
      /\ Agrees(s, manjo[t]) \/ (s = "EXPIRED" /\ overdue[t])
      /\ heard[t] = 0 /\ missed[t] = 0 /\ manjo[t] # "absent"
      /\ \A j \in Instances : ~Owns(j, t)
      /\ \A j \in Instances : req[j][t] \notin {"created", "generated", "failing"}
  BY OutcomeAgrees DEF IInv, RowInv, HandlerInv, CheckInv, SettleApplied,
     SettleLostCommit, Transition, Matches
<1>2. status'[t] = s /\ \A u \in Tx : u # t => status'[u] = status[u]
  BY DEF IInv, TypeOK, SettleApplied, SettleLostCommit, Transition
<1>3. PICK phase \in {"announcing", "idle"} :
        /\ Finish(i, t, phase)
        /\ phase = "announcing" => s = "PAID"
        /\ phase = "idle" => s # "PAID" \/ TooOld(t) \/ t \notin Speakable \/ Fault
  BY DEF SettleApplied, SettleLostCommit, AfterTransition
<1>4. /\ check'[i][t] = phase /\ answer'[i][t] = "none" /\ tries'[i][t] = 0
      /\ \A j \in Instances, u \in Tx : j # i \/ u # t =>
           /\ check'[j][u] = check[j][u]
           /\ answer'[j][u] = answer[j][u]
           /\ tries'[j][u] = tries[j][u]
  BY <1>3, FinishEffect DEF IInv
<1>5. /\ UNCHANGED <<manjo, shown, overdue, heard, missed, logged, req, mode, stale, dated>>
      /\ UNCHANGED faults \/ Fault
  BY DEF SettleApplied, SettleLostCommit, world, mqtt
<1> HIDE DEF s
<1>6. RowInv'
  BY <1>1, <1>2, <1>5 DEF IInv, RowInv, Tracked, Truthful, Final, Agrees
<1>7. HandlerInv'
  BY <1>1, <1>2, <1>5 DEF IInv, HandlerInv, Tracked, Truthful, Final, Agrees
<1>8. CheckInv'
  <2>1. PublishAttempts > 0 BY BridgeAssumption
  <2>2. "none" \notin Final BY DEF Final
  <2>3. ASSUME NEW j \in Instances, NEW u \in Tx, j # i \/ u # t
        PROVE  /\ check'[j][u] # "idle" => Tracked(u)'
               /\ answer'[j][u] \in Final => Agrees(answer'[j][u], manjo'[u])
               /\ Owns(j, u)' => status'[u] = "PAID"
               /\ check'[j][u] = "announcing" =>
                    heard'[u] + missed'[u] = tries'[j][u] /\ tries'[j][u] < PublishAttempts
               /\ check'[j][u] = "published" => heard'[u] > 0
    BY <1>1, <1>2, <1>4, <1>5, <2>3 DEF IInv, CheckInv, Tracked, Owns, Final
  <2>4. /\ check'[i][t] # "idle" => Tracked(t)'
        /\ answer'[i][t] \in Final => Agrees(answer'[i][t], manjo'[t])
        /\ Owns(i, t)' => status'[t] = "PAID"
        /\ check'[i][t] = "announcing" =>
             heard'[t] + missed'[t] = tries'[i][t] /\ tries'[i][t] < PublishAttempts
        /\ check'[i][t] = "published" => heard'[t] > 0
    BY <1>1, <1>2, <1>3, <1>4, <1>5, <2>1, <2>2 DEF Tracked, Owns, Final
  <2>5. QED BY <2>3, <2>4 DEF CheckInv, Agrees
<1>9. OneAnnouncer'
  BY <1>1, <1>4 DEF IInv, OneAnnouncer, Owns
<1>10. SilenceExplained'
  <2>1. Fault => faults' > 0
    BY DEF IInv, TypeOK, Fault
  <2>2. faults > 0 => faults' > 0
    BY <1>5 DEF IInv, TypeOK, Fault
  <2>3. ASSUME NEW u \in Tx, u # t PROVE Announcing(u) => Announcing(u)'
    BY <1>4, <2>3 DEF Announcing
  <2>4. check'[i][t] = "announcing" => Announcing(t)'
    BY DEF Announcing
  <2>5. QED
    BY <1>2, <1>3, <1>4, <1>5, <2>1, <2>2, <2>3, <2>4 DEF IInv, SilenceExplained, TooOld
<1>11. ModeInv'
  BY <1>5, ModeFrame DEF IInv
<1>12. QED
  BY <1>6, <1>7, <1>8, <1>9, <1>10, <1>11 DEF Strength

LEMMA SettleNothingInv ==
  ASSUME IInv, NEW i \in Instances, NEW t \in Tx, SettleNothing(i, t)
  PROVE  Strength'
<1>1. /\ check[i][t] = "answered"
      /\ check'[i][t] = "idle" /\ answer'[i][t] = "none" /\ tries'[i][t] = 0
      /\ \A j \in Instances, u \in Tx : j # i \/ u # t =>
           /\ check'[j][u] = check[j][u]
           /\ answer'[j][u] = answer[j][u]
           /\ tries'[j][u] = tries[j][u]
  BY FinishEffect DEF IInv, SettleNothing
<1>2. UNCHANGED <<status, manjo, shown, overdue, heard, missed, logged, req, mode,
                  stale, dated, faults>>
  BY DEF SettleNothing, db, world, mqtt
<1>3. RowInv' /\ HandlerInv' /\ ModeInv'
  BY <1>2, RowFrame, HandlerFrame, ModeFrame DEF IInv
<1>4. CheckInv'
  BY <1>1, <1>2 DEF IInv, CheckInv, Tracked, Owns, Final, Agrees
<1>5. OneAnnouncer'
  BY <1>1 DEF IInv, OneAnnouncer, Owns
<1>6. \A u \in Tx : Announcing(u) => Announcing(u)'
  BY <1>1 DEF Announcing
<1>7. SilenceExplained'
  BY <1>2, <1>6, SilenceStep DEF IInv
<1>8. QED
  BY <1>3, <1>4, <1>5, <1>7 DEF Strength

LEMMA PublishInv ==
  ASSUME IInv, NEW i \in Instances, NEW t \in Tx, Publish(i, t)
  PROVE  Strength'
<1>1. /\ status[t] = "PAID" /\ heard[t] + missed[t] = tries[i][t]
      /\ tries[i][t] < PublishAttempts /\ check[i][t] = "announcing"
      /\ heard[t] \in Nat /\ missed[t] \in Nat /\ tries[i][t] \in Nat
      /\ PublishAttempts \in Nat
      /\ \A j \in Instances : j # i => ~Owns(j, t)
  BY BridgeAssumption DEF IInv, TypeOK, CheckInv, OneAnnouncer, Publish, Owns
<1>2. /\ \A u \in Tx : u # t => heard'[u] = heard[u] /\ missed'[u] = missed[u]
      /\ \A j \in Instances, u \in Tx : j # i \/ u # t =>
           check'[j][u] = check[j][u] /\ tries'[j][u] = tries[j][u]
  <2>1. /\ UNCHANGED heard \/ heard' = [heard EXCEPT ![t] = @ + 1]
        /\ UNCHANGED missed \/ missed' = [missed EXCEPT ![t] = @ + 1]
        /\ UNCHANGED tries \/ tries' = [tries EXCEPT ![i][t] = @ + 1]
        /\ \E c : check' = [check EXCEPT ![i][t] = c]
    BY DEF Publish
  <2>2. \A u \in Tx : u # t => heard'[u] = heard[u]
    BY <2>1 DEF IInv, TypeOK
  <2>3. \A u \in Tx : u # t => missed'[u] = missed[u]
    BY <2>1 DEF IInv, TypeOK
  <2>4. \A j \in Instances, u \in Tx : j # i \/ u # t => check'[j][u] = check[j][u]
    BY <2>1 DEF IInv, TypeOK
  <2>5. \A j \in Instances, u \in Tx : j # i \/ u # t => tries'[j][u] = tries[j][u]
    BY <2>1 DEF IInv, TypeOK
  <2>6. QED BY <2>2, <2>3, <2>4, <2>5
<1>3. \/ /\ check'[i][t] = "published"
         /\ heard'[t] = heard[t] + 1 /\ missed'[t] = missed[t]
      \/ /\ \/ heard'[t] = heard[t] + 1 /\ missed'[t] = missed[t]
            \/ heard'[t] = heard[t] /\ missed'[t] = missed[t] + 1
         /\ tries'[i][t] = tries[i][t] + 1
         /\ \/ check'[i][t] = "announcing" /\ tries[i][t] + 1 # PublishAttempts
            \/ check'[i][t] = "unpublished" /\ tries[i][t] + 1 = PublishAttempts
  <2>1. heard' = [heard EXCEPT ![t] = @ + 1] => heard'[t] = heard[t] + 1
    BY DEF IInv, TypeOK
  <2>2. missed' = [missed EXCEPT ![t] = @ + 1] => missed'[t] = missed[t] + 1
    BY DEF IInv, TypeOK
  <2>3. tries' = [tries EXCEPT ![i][t] = @ + 1] => tries'[i][t] = tries[i][t] + 1
    BY DEF IInv, TypeOK
  <2>4. \A c : check' = [check EXCEPT ![i][t] = c] => check'[i][t] = c
    BY DEF IInv, TypeOK
  <2>5. CASE check' = [check EXCEPT ![i][t] = "published"]
             /\ heard' = [heard EXCEPT ![t] = @ + 1] /\ UNCHANGED missed
    BY <2>1, <2>4, <2>5
  <2>6. CASE /\ \/ heard' = [heard EXCEPT ![t] = @ + 1] /\ UNCHANGED missed
                \/ missed' = [missed EXCEPT ![t] = @ + 1] /\ UNCHANGED heard
             /\ tries' = [tries EXCEPT ![i][t] = @ + 1]
             /\ check' = [check EXCEPT ![i][t] =
                            IF LastAttempt(i, t) THEN "unpublished" ELSE @]
    <3>1. check'[i][t] = IF tries[i][t] + 1 = PublishAttempts
                           THEN "unpublished" ELSE "announcing"
      BY <1>1, <2>6 DEF IInv, TypeOK, LastAttempt
    <3>2. QED BY <2>1, <2>2, <2>3, <2>6, <3>1
  <2>7. QED BY <2>5, <2>6 DEF Publish
<1>4. UNCHANGED <<status, manjo, shown, overdue, logged, req, answer, mode, stale, dated,
                  faults>>
  BY DEF Publish, db, world
<1>5. RowInv'
  BY <1>1, <1>2, <1>3, <1>4 DEF IInv, RowInv, Tracked, Truthful, Agrees
<1>6. HandlerInv' /\ ModeInv'
  BY <1>4, HandlerFrame, ModeFrame DEF IInv
<1>7. CheckInv'
  <2>1. ASSUME NEW j \in Instances, NEW u \in Tx
        PROVE  /\ check'[j][u] # "idle" => Tracked(u)'
               /\ answer'[j][u] \in Final => Agrees(answer'[j][u], manjo'[u])
               /\ Owns(j, u)' => status'[u] = "PAID"
    BY <1>1, <1>2, <1>3, <1>4 DEF IInv, CheckInv, Tracked, Owns
  <2>2. ASSUME NEW j \in Instances, NEW u \in Tx
        PROVE  /\ check'[j][u] = "announcing" =>
                    heard'[u] + missed'[u] = tries'[j][u] /\ tries'[j][u] < PublishAttempts
               /\ check'[j][u] = "published" => heard'[u] > 0
    <3>1. CASE u # t
      BY <1>2, <3>1 DEF IInv, CheckInv
    <3>2. CASE u = t /\ j # i
      BY <1>1, <1>2, <3>2 DEF Owns
    <3>3. CASE u = t /\ j = i
      BY <1>1, <1>3, <3>3
    <3>4. QED BY <3>1, <3>2, <3>3
  <2>3. QED BY <2>1, <2>2 DEF CheckInv, Agrees
<1>8. OneAnnouncer'
  BY <1>1, <1>2 DEF IInv, OneAnnouncer, Owns
<1>9. SilenceExplained'
  <2>1. ASSUME NEW u \in Tx, u # t PROVE Announcing(u) => Announcing(u)'
    BY <1>2, <2>1 DEF Announcing
  <2>2. check'[i][t] = "announcing" => Announcing(t)'
    BY DEF Announcing
  <2>3. heard'[t] # 0 \/ Announcing(t)' \/ missed'[t] = PublishAttempts
    BY <1>1, <1>3, <2>2
  <2>4. QED
    BY <1>2, <1>4, <2>1, <2>3 DEF IInv, SilenceExplained, TooOld
<1>10. QED
  BY <1>5, <1>6, <1>7, <1>8, <1>9 DEF Strength

LEMMA RecordInv ==
  ASSUME IInv, NEW i \in Instances, NEW t \in Tx, RecordAnnouncement(i, t)
  PROVE  Strength'
<1>1. /\ check[i][t] \in {"published", "unpublished"}
      /\ check'[i][t] = "idle" /\ answer'[i][t] = "none" /\ tries'[i][t] = 0
      /\ \A j \in Instances, u \in Tx : j # i \/ u # t =>
           /\ check'[j][u] = check[j][u]
           /\ answer'[j][u] = answer[j][u]
           /\ tries'[j][u] = tries[j][u]
  BY FinishEffect DEF IInv, RecordAnnouncement
<1>2. UNCHANGED <<status, manjo, shown, overdue, heard, missed, req, mode, stale, dated,
                  faults>>
  BY DEF RecordAnnouncement, db, world
<1>3. \A u \in Tx : logged'[u] = "PROCESSED" => logged[u] = "PROCESSED" \/ heard[u] > 0
  <2>1. LogStatus(check[i][t]) = "PROCESSED" => heard[t] > 0
    BY DEF LogStatus, IInv, CheckInv
  <2>2. CASE UNCHANGED logged BY <2>2
  <2>3. CASE logged' = [logged EXCEPT ![t] = LogStatus(check[i][t])]
    BY <2>1, <2>3 DEF IInv, TypeOK
  <2>4. QED BY <2>2, <2>3 DEF RecordAnnouncement
<1>4. RowInv'
  BY <1>2, <1>3 DEF IInv, RowInv, Tracked, Truthful, Agrees
<1>5. HandlerInv' /\ ModeInv'
  BY <1>2, HandlerFrame, ModeFrame DEF IInv
<1>6. CheckInv'
  BY <1>1, <1>2 DEF IInv, CheckInv, Tracked, Owns, Final, Agrees
<1>7. OneAnnouncer'
  BY <1>1 DEF IInv, OneAnnouncer, Owns
<1>8. \A u \in Tx : Announcing(u) => Announcing(u)'
  BY <1>1 DEF Announcing
<1>9. SilenceExplained'
  BY <1>2, <1>8, SilenceStep DEF IInv
<1>10. QED
  BY <1>4, <1>5, <1>6, <1>7, <1>9 DEF Strength

\* A process that ends takes its workers with it: whatever stays silent then
\* is explained by the adverse event that ended it.
LEMMA DeathInv ==
  ASSUME IInv, NEW i \in Instances, Exit(i) \/ ForcedExit(i) \/ Crash(i)
  PROVE  Strength'
<1>1. Die(i) /\ (mode[i] = "draining" \/ Fault)
  BY DEF Exit, ForcedExit, Crash
<1>2. faults' > 0
  <2>1. mode[i] = "draining" => faults > 0
    BY DEF IInv, ModeInv
  <2>2. UNCHANGED faults \/ Fault
    BY DEF Exit, ForcedExit, Crash
  <2>3. QED BY <1>1, <2>1, <2>2 DEF IInv, TypeOK, Fault
<1>3. \A u \in Tx : check'[i][u] = "idle" /\ answer'[i][u] = "none"
                    /\ tries'[i][u] = 0 /\ req'[i][u] = "idle"
  BY <1>1 DEF Die, Idle, IInv, TypeOK
<1>4. \A j \in Instances, u \in Tx : j # i =>
        /\ check'[j][u] = check[j][u] /\ answer'[j][u] = answer[j][u]
        /\ tries'[j][u] = tries[j][u] /\ req'[j][u] = req[j][u]
  BY <1>1 DEF Die, IInv, TypeOK
<1>5. UNCHANGED <<status, manjo, shown, overdue, heard, missed, logged, stale, dated>>
  BY DEF Exit, ForcedExit, Crash, db, world, mqtt
<1>6. RowInv'
  BY <1>5, RowFrame DEF IInv
<1>7. HandlerInv'
  BY <1>3, <1>4, <1>5 DEF IInv, HandlerInv, Tracked, Truthful, Agrees
<1>8. CheckInv'
  BY <1>3, <1>4, <1>5 DEF IInv, CheckInv, Tracked, Owns, Final, Agrees
<1>9. ModeInv' /\ SilenceExplained'
  BY <1>2 DEF ModeInv, SilenceExplained
<1>10. OneAnnouncer'
  BY <1>3, <1>4 DEF IInv, OneAnnouncer, Owns
<1>11. QED
  BY <1>6, <1>7, <1>8, <1>9, <1>10 DEF Strength

LEMMA SignalInv ==
  ASSUME IInv, NEW i \in Instances, Sigterm(i) \/ Restart(i)
  PROVE  Strength'
<1>1. /\ UNCHANGED <<status, manjo, shown, overdue, heard, missed, logged, stale, dated,
                     req, check, answer, tries>>
      /\ UNCHANGED faults \/ Fault
  BY DEF Sigterm, Restart, db, local, world, mqtt
<1>2. ModeInv'
  <2>1. CASE Sigterm(i)
    BY <2>1 DEF Sigterm, Fault, ModeInv, IInv, TypeOK
  <2>2. CASE Restart(i)
    BY <2>2 DEF Restart, ModeInv, IInv, TypeOK
  <2>3. QED BY <2>1, <2>2
<1>3. QED
  BY <1>1, <1>2, RowFrame, HandlerFrame, CheckFrame, OneAnnouncerFrame, SilenceFrame
     DEF IInv, Strength

\* What Manjo's record says of a settled transaction stays said.
LEMMA AgreesStable ==
  ASSUME NEW m \in ManjoState, NEW v, NEW n \in ManjoStep(m, v), NEW s \in Status,
         Agrees(s, m)
  PROVE  Agrees(s, n)
<1>1. \/ m = "open" /\ n \in {"expired", "cancelled", "failed", "paid"}
      \/ m = "paid" /\ n = "refunded"
  BY DEF ManjoStep, ManjoState
<1>2. QED BY <1>1 DEF Agrees, Collected

LEMMA EnvironmentInv ==
  ASSUME IInv, NEW t \in Tx, Environment(t)
  PROVE  Strength'
<1>1. CASE ManjoMoves(t)
  <2>1. PICK m \in ManjoStep(manjo[t], shown[t]) : manjo' = [manjo EXCEPT ![t] = m]
    BY <1>1 DEF ManjoMoves
  <2>2. /\ manjo[t] \in ManjoState /\ status[t] \in Status
        /\ \A j \in Instances : answer[j][t] \in Final => answer[j][t] \in Status
    BY DEF IInv, TypeOK, Status
  <2>3. manjo[t] \in {"open", "paid"} /\ m \notin {"absent", "open"}
    BY <2>1, <2>2 DEF ManjoStep, ManjoState
  <2>4. manjo'[t] = m /\ \A u \in Tx : u # t => manjo'[u] = manjo[u]
    BY <2>1 DEF IInv, TypeOK
  <2>5. \A s \in Status : Agrees(s, manjo[t]) => Agrees(s, m)
    BY <2>1, <2>2, AgreesStable
  <2>6. UNCHANGED <<status, due, overdue, mode, req, check, answer, tries, stale, dated,
                    shown, heard, missed, logged, faults>>
    BY <1>1 DEF ManjoMoves, db, local, mqtt
  <2>7. RowInv'
    <3>1. ASSUME NEW u \in Tx
          PROVE  /\ status'[u] = "NONE" => manjo'[u] = "absent"
                 /\ status'[u] = "QR_GENERATED" => manjo'[u] # "absent"
                 /\ shown'[u] => Tracked(u)'
                 /\ status'[u] # "FAILED" \/ shown'[u] => Truthful(u)'
                 /\ status'[u] # "PAID" => heard'[u] = 0 /\ missed'[u] = 0
                 /\ heard'[u] + missed'[u] =< PublishAttempts
                 /\ logged'[u] = "PROCESSED" => heard'[u] > 0
      BY <2>2, <2>3, <2>4, <2>5, <2>6 DEF IInv, RowInv, Tracked, Truthful
    <3>2. QED BY <3>1 DEF RowInv, Tracked, Truthful, Agrees
  <2>8. HandlerInv'
    <3>1. ASSUME NEW i \in Instances, NEW u \in Tx
          PROVE  /\ req'[i][u] # "idle" => status'[u] # "NONE"
                 /\ req'[i][u] \in {"created", "generated", "failing"}
                      => status'[u] = "PENDING"
                 /\ req'[i][u] = "created" => manjo'[u] = "absent"
                 /\ req'[i][u] = "generated" => manjo'[u] # "absent"
                 /\ req'[i][u] = "replyQR" => Tracked(u)' /\ Truthful(u)'
                 /\ \A j \in Instances :
                      req'[i][u] # "idle" /\ req'[j][u] # "idle" => i = j
      BY <2>2, <2>3, <2>4, <2>5, <2>6 DEF IInv, HandlerInv, Tracked, Truthful
    <3>2. QED BY <3>1 DEF HandlerInv, Tracked, Truthful, Agrees
  <2>9. CheckInv'
    <3>1. ASSUME NEW i \in Instances, NEW u \in Tx
          PROVE  answer'[i][u] \in Final => Agrees(answer'[i][u], manjo'[u])
      BY <2>2, <2>4, <2>5, <2>6 DEF IInv, CheckInv
    <3>2. QED BY <2>6, <3>1 DEF IInv, CheckInv, Tracked, Owns, Agrees
  <2>10. QED
    BY <2>6, <2>7, <2>8, <2>9, ModeFrame, OneAnnouncerFrame, SilenceFrame
       DEF IInv, Strength
<1>2. CASE IntervalElapses(t) \/ DeadlinePasses(t)
  <2>1. UNCHANGED <<status, manjo, shown, heard, missed, logged, stale, dated, mode, req,
                    check, answer, tries, faults>>
    BY <1>2 DEF IntervalElapses, DeadlinePasses, local, world, mqtt
  <2>2. \A u \in Tx : overdue[u] => overdue'[u]
    BY <1>2 DEF IntervalElapses, DeadlinePasses, IInv, TypeOK
  <2>3. \A u \in Tx : Tracked(u)' = Tracked(u) /\ (Truthful(u) => Truthful(u)')
    BY <2>1, <2>2 DEF Tracked, Truthful, Agrees
  <2>4. RowInv'
    BY <2>1, <2>3 DEF IInv, RowInv
  <2>5. HandlerInv'
    BY <2>1, <2>3 DEF IInv, HandlerInv
  <2>6. QED
    BY <2>1, <2>4, <2>5, CheckFrame, ModeFrame, OneAnnouncerFrame, SilenceFrame
       DEF IInv, Strength
<1>3. CASE PaymentGoesStale(t)
  <2>1. UNCHANGED <<status, manjo, dated, shown, overdue, heard, missed, logged, mode, req,
                    check, answer, tries, faults>>
    BY <1>3 DEF PaymentGoesStale, db, local, mqtt
  <2>2. \A u \in Tx : stale[u] => stale'[u]
    BY <1>3 DEF PaymentGoesStale, IInv, TypeOK
  <2>3. SilenceExplained'
    BY <2>1, <2>2 DEF IInv, SilenceExplained, Announcing, TooOld
  <2>4. QED
    BY <2>1, <2>3, RowFrame, HandlerFrame, CheckFrame, ModeFrame, OneAnnouncerFrame
       DEF IInv, Strength
<1>4. QED BY <1>1, <1>2, <1>3 DEF Environment

LEMMA InitIInv == Init => IInv
<1> SUFFICES ASSUME Init PROVE IInv
  OBVIOUS
<1>1. TypeOK
  BY InitTypeOK
<1>2. RowInv
  BY BridgeAssumption DEF Init, RowInv, Tracked, Truthful, Agrees
<1>3. HandlerInv
  BY DEF Init, HandlerInv, Idle
<1>4. CheckInv
  BY DEF Init, CheckInv, Idle, Owns, Final
<1>5. ModeInv /\ OneAnnouncer /\ SilenceExplained
  BY DEF Init, ModeInv, OneAnnouncer, SilenceExplained, Owns, Idle
<1>6. QED BY <1>1, <1>2, <1>3, <1>4, <1>5 DEF IInv

LEMMA NextIInv == IInv /\ [Next]_vars => IInv'
<1> SUFFICES ASSUME IInv, [Next]_vars PROVE IInv'
  OBVIOUS
<1>1. TypeOK'
  BY NextTypeOK DEF IInv
<1>2. Strength'
  <2>1. CASE UNCHANGED vars
    BY <2>1, RowFrame, HandlerFrame, CheckFrame, ModeFrame, OneAnnouncerFrame,
       SilenceFrame DEF IInv, Strength, vars
  <2>2. ASSUME NEW i \in Instances, Process(i) PROVE Strength'
    BY <2>2, ClaimInv, DeathInv, SignalInv DEF Process
  <2>3. ASSUME NEW i \in Instances, NEW t \in Tx, Handler(i, t) PROVE Strength'
    BY <2>3, ReceiveInv, GenerateInv, MarkInv, ReplyInv DEF Handler
  <2>4. ASSUME NEW i \in Instances, NEW t \in Tx, Poller(i, t) PROVE Strength'
    BY <2>4, CheckStartInv, SettleTransitionInv, SettleNothingInv, PublishInv, RecordInv
       DEF Poller, Settle
  <2>5. ASSUME NEW t \in Tx, Environment(t) PROVE Strength'
    BY <2>5, EnvironmentInv
  <2>6. QED BY <2>1, <2>2, <2>3, <2>4, <2>5 DEF Next
<1>3. QED BY <1>1, <1>2 DEF IInv, Strength

\* IInv is an invariant: its initial states satisfy it and every step keeps it.
THEOREM Inductive == Spec => []IInv
<1>1. QED BY InitIInv, NextIInv, PTL DEF Spec

----------------------------------------------------------------------------
(* Safety *)

LEMMA IInvImplies ==
  ASSUME IInv
  PROVE  /\ AnnouncementsBounded /\ AnnouncedMeansPaid /\ PayableIsPolled
         /\ TruthfulStatus /\ SilentPaymentIsListed
<1> USE DEF IInv, RowInv
<1>1. AnnouncementsBounded
  BY DEF AnnouncementsBounded
<1>2. AnnouncedMeansPaid
  BY DEF AnnouncedMeansPaid, Truthful, Agrees
<1>3. PayableIsPolled
  BY DEF PayableIsPolled, Tracked, Truthful, Agrees, Collected, TypeOK, Status, Final
<1>4. TruthfulStatus
  BY DEF TruthfulStatus, Truthful, Agrees
<1>5. SilentPaymentIsListed
  BY DEF SilentPaymentIsListed
<1>6. QED BY <1>1, <1>2, <1>3, <1>4, <1>5

\* However pollers, instances and crashes interleave, at most one worker is
\* ever told that it moved a transaction (CheckPayment's Transitioned).
THEOREM SettledByOneWorker == Spec => []OneAnnouncer
<1>1. IInv => OneAnnouncer BY DEF IInv
<1>2. QED BY <1>1, Inductive, PTL

\* No transaction is published more than PublishAttempts times in its life.
THEOREM AnnouncementsAreBounded == Spec => []AnnouncementsBounded
<1>1. QED BY IInvImplies, Inductive, PTL

\* A soundbox only announces money that Manjo collected.
THEOREM AnnouncedIsPaid == Spec => []AnnouncedMeansPaid
<1>1. QED BY IInvImplies, Inductive, PTL

\* A QR that can be paid is a QR the service polls, or one it stopped polling
\* because its own deadline passed, whatever Manjo, the queries, the other
\* instances and crashes do.
THEOREM PayableCodesArePolled == Spec => []PayableIsPolled
<1>1. QED BY IInvImplies, Inductive, PTL

\* A stored final status agrees with Manjo's record of a QR that was shown, or is
\* the EXPIRED of a deadline that has passed.
THEOREM StatusIsTruthful == Spec => []TruthfulStatus
<1>1. QED BY IInvImplies, Inductive, PTL

\* A paid transaction stays silent only for a known reason.
THEOREM SilenceIsExplained == Spec => []SilenceExplained
<1>1. IInv => SilenceExplained BY DEF IInv
<1>2. QED BY <1>1, Inductive, PTL

\* The support query finds every payment that was not heard.
THEOREM SilenceIsListed == Spec => []SilentPaymentIsListed
<1>1. QED BY IInvImplies, Inductive, PTL

\* No statement of the service, in any order, overwrites a final status.
THEOREM FinalStatusIsForever == Spec => FinalIsForever
<1>1. ASSUME TypeOK, [Next]_vars, NEW t \in Tx, status[t] \in Final
      PROVE  status'[t] = status[t]
  <2>1. CASE UNCHANGED status
    BY <2>1
  <2>2. ASSUME NEW u \in Tx, NEW s, status' = [status EXCEPT ![u] = s],
               status[u] = "NONE" \/ TriggerAllows(status[u], s)
        PROVE  status'[t] = status[t]
    BY <1>1, <2>2 DEF TypeOK, TriggerAllows, Final
  <2>3. CASE \E i \in Instances, u \in Tx : Handler(i, u)
    BY <2>1, <2>2, <2>3 DEF Handler, Receive, GenerateSucceeds, GenerateFails,
       MarkQRGenerated, MarkFailed, ReplyQR, ReplyFailure, db
  <2>4. CASE \E i \in Instances, u \in Tx : Poller(i, u)
    <3>1. PICK i \in Instances, u \in Tx : Poller(i, u)
      BY <2>4
    <3>2. CASE SettleApplied(i, u) \/ SettleLostCommit(i, u)
      <4>1. Transition(u, Outcome(i, u))
        BY <3>2 DEF SettleApplied, SettleLostCommit
      <4>2. QED BY <2>2, <4>1 DEF Transition, Matches
    <3>3. CASE StartCheck(i, u) \/ Query(i, u) \/ SettleNothing(i, u)
      BY <2>1, <3>3 DEF StartCheck, Query, SettleNothing, db
    <3>4. CASE Publish(i, u) \/ RecordAnnouncement(i, u)
      BY <2>1, <3>4 DEF Publish, RecordAnnouncement, db
    <3>5. QED BY <3>1, <3>2, <3>3, <3>4 DEF Poller, Settle
  <2>5. CASE \E i \in Instances : Process(i)
    BY <2>1, <2>5 DEF Process, Claim, Sigterm, Exit, ForcedExit, Crash, Restart, db
  <2>6. CASE \E u \in Tx : Environment(u)
    BY <2>1, <2>6 DEF Environment, ManjoMoves, IntervalElapses, DeadlinePasses,
       PaymentGoesStale, db
  <2>7. CASE UNCHANGED vars
    BY <2>1, <2>7 DEF vars
  <2>8. QED BY <1>1, <2>3, <2>4, <2>5, <2>6, <2>7 DEF Next
<1>2. TypeOK /\ [Next]_vars
        => [\A t \in Tx : status[t] \in Final => status'[t] = status[t]]_vars
  BY <1>1
<1>3. QED BY <1>2, TypeCorrect, PTL DEF Spec, FinalIsForever

----------------------------------------------------------------------------
(* The bridge implements the lifecycle *)

Voice == [t \in Tx |-> Announcing(t)]
Spoken == [t \in Tx |-> heard[t] + missed[t]]

\* A step that leaves the rows alone and raises no voice looks like silence
\* falling on some transactions, or like nothing.
LEMMA QuietStep ==
  ASSUME IInv, UNCHANGED <<status, overdue, manjo, shown, heard, missed>>,
         \A t \in Tx : Announcing(t)' => Announcing(t)
  PROVE  Lifecycle!FallSilent
<1> DEFINE S == {t \in Tx : ~Announcing(t)'}
<1>1. Voice' = [t \in Tx |-> Voice[t] /\ t \notin S]
  <2>1. \A t \in Tx : Voice[t] = Announcing(t)
    BY DEF Voice
  <2>2. \A t \in Tx : t \in S <=> ~Announcing(t)'
    OBVIOUS
  <2>3. \A t \in Tx : Announcing(t) \in BOOLEAN /\ Announcing(t)' \in BOOLEAN
    BY DEF Announcing
  <2> HIDE DEF S
  <2>4. \A t \in Tx : Announcing(t)' = (Voice[t] /\ t \notin S)
    BY <2>1, <2>2, <2>3
  <2>5. QED BY <2>4 DEF Voice
<1>2. S \in SUBSET Tx
  OBVIOUS
<1>3. Spoken' = Spoken
  BY DEF Spoken
<1>4. QED BY <1>1, <1>2, <1>3 DEF Lifecycle!FallSilent, Voice, Spoken

\* Nothing the voice and the count are computed from has changed.
LEMMA SameVoice ==
  ASSUME UNCHANGED <<check, heard, missed>>
  PROVE  Voice' = Voice /\ Spoken' = Spoken
<1>1. \A t \in Tx : Announcing(t)' <=> Announcing(t)
  BY DEF Announcing
<1>2. Voice' = Voice
  BY <1>1 DEF Voice, Announcing
<1>3. QED BY <1>2 DEF Spoken

LEMMA HandlerRefines ==
  ASSUME IInv, NEW i \in Instances, NEW t \in Tx, Handler(i, t)
  PROVE  Lifecycle!Next \/ UNCHANGED Lifecycle!lvars
<1>1. UNCHANGED <<check, heard, missed, overdue>>
  BY DEF Handler, Receive, GenerateSucceeds, GenerateFails, MarkQRGenerated,
     MarkFailed, ReplyQR, ReplyFailure, db, mqtt
<1>2. Voice' = Voice /\ Spoken' = Spoken
  BY <1>1, SameVoice
<1>3. CASE Receive(i, t)
  <2>1. Lifecycle!Accept(t)
    BY <1>1, <1>2, <1>3 DEF Receive, Lifecycle!Accept, world, mqtt, Voice, Spoken
  <2>2. QED BY <2>1 DEF Lifecycle!Next
<1>4. CASE GenerateSucceeds(i, t) \/ GenerateFails(i, t)
  <2>1. status[t] = "PENDING" /\ manjo[t] = "absent"
    BY <1>4 DEF IInv, HandlerInv, GenerateSucceeds, GenerateFails, At
  <2>2. UNCHANGED <<status, shown>>
    BY <1>4 DEF GenerateSucceeds, GenerateFails, db, mqtt
  <2>3. CASE manjo' = [manjo EXCEPT ![t] = "open"]
    <3>1. Lifecycle!ManjoMoves(t)
      BY <1>1, <1>2, <2>1, <2>2, <2>3 DEF Lifecycle!ManjoMoves, Voice, Spoken
    <3>2. QED BY <3>1 DEF Lifecycle!Next
  <2>4. CASE UNCHANGED manjo
    BY <1>1, <1>2, <2>2, <2>4 DEF Lifecycle!lvars, Voice, Spoken
  <2>5. QED BY <1>4, <2>3, <2>4 DEF GenerateSucceeds, GenerateFails
<1>5. CASE MarkQRGenerated(i, t)
  <2>1. status[t] = "PENDING" /\ manjo[t] # "absent"
    BY <1>5 DEF IInv, HandlerInv, MarkQRGenerated, At
  <2>2. UNCHANGED <<manjo, shown>>
    BY <1>5 DEF MarkQRGenerated, world, mqtt
  <2>3. CASE status' = [status EXCEPT ![t] = "QR_GENERATED"]
    <3>1. Lifecycle!Offer(t)
      BY <1>1, <1>2, <2>1, <2>2, <2>3 DEF Lifecycle!Offer, Voice, Spoken
    <3>2. QED BY <3>1 DEF Lifecycle!Next
  <2>4. CASE UNCHANGED status
    BY <1>1, <1>2, <2>2, <2>4 DEF Lifecycle!lvars, Voice, Spoken
  <2>5. QED BY <1>5, <2>3, <2>4 DEF MarkQRGenerated
<1>6. CASE MarkFailed(i, t)
  <2>1. status[t] = "PENDING"
    BY <1>6 DEF IInv, HandlerInv, MarkFailed, At
  <2>2. UNCHANGED <<manjo, shown>>
    BY <1>6 DEF MarkFailed, world, mqtt
  <2>3. CASE status' = [status EXCEPT ![t] = "FAILED"]
    <3>1. Lifecycle!Reject(t)
      BY <1>1, <1>2, <2>1, <2>2, <2>3 DEF Lifecycle!Reject, Voice, Spoken
    <3>2. QED BY <3>1 DEF Lifecycle!Next
  <2>4. CASE UNCHANGED status
    BY <1>1, <1>2, <2>2, <2>4 DEF Lifecycle!lvars, Voice, Spoken
  <2>5. QED BY <1>6, <2>3, <2>4 DEF MarkFailed
<1>7. CASE ReplyQR(i, t)
  <2>1. status[t] \notin {"NONE", "PENDING"}
    BY <1>7 DEF IInv, HandlerInv, ReplyQR, At, Tracked
  <2>2. UNCHANGED <<manjo, status>>
    BY <1>7 DEF ReplyQR, db, world
  <2>3. CASE shown' = [shown EXCEPT ![t] = TRUE]
    <3>1. Lifecycle!Show(t)
      BY <1>1, <1>2, <2>1, <2>2, <2>3 DEF Lifecycle!Show, Voice, Spoken
    <3>2. QED BY <3>1 DEF Lifecycle!Next
  <2>4. CASE UNCHANGED shown
    BY <1>1, <1>2, <2>2, <2>4 DEF Lifecycle!lvars, Voice, Spoken
  <2>5. QED BY <1>7, <2>3, <2>4 DEF ReplyQR
<1>8. CASE ReplyFailure(i, t)
  BY <1>1, <1>2, <1>8 DEF ReplyFailure, Lifecycle!lvars, db, world, mqtt, Voice, Spoken
<1>9. QED BY <1>3, <1>4, <1>5, <1>6, <1>7, <1>8 DEF Handler

\* A worker's transition is the lifecycle's Settle, its publish a Speak, and
\* everything else it does is not seen from outside.
LEMMA SettleRefines ==
  ASSUME IInv, NEW i \in Instances, NEW t \in Tx,
         SettleApplied(i, t) \/ SettleLostCommit(i, t)
  PROVE  Lifecycle!Settle(t)
<1> DEFINE s == Outcome(i, t)
<1>1. /\ status[t] = "QR_GENERATED" /\ s \in Final
      /\ Agrees(s, manjo[t]) \/ (s = "EXPIRED" /\ overdue[t])
      /\ manjo[t] \in ManjoState /\ manjo[t] # "absent"
      /\ status' = [status EXCEPT ![t] = s]
      /\ UNCHANGED <<overdue, manjo, shown, heard, missed>>
  BY OutcomeAgrees DEF IInv, TypeOK, RowInv, SettleApplied, SettleLostCommit,
     Transition, Matches, world, mqtt
<1>2. PICK phase \in {"announcing", "idle"} :
        check' = [check EXCEPT ![i][t] = phase] /\ (phase = "announcing" => s = "PAID")
  BY DEF SettleApplied, SettleLostCommit, AfterTransition, Finish
<1>3. \/ s \in Lifecycle!Justified(manjo[t])
      \/ s = "EXPIRED" /\ overdue[t]
  <2> HIDE DEF s
  <2>1. s \in Final /\ manjo[t] \in ManjoState /\ manjo[t] # "absent"
    BY <1>1
  <2>2. CASE Agrees(s, manjo[t])
    BY <2>1, <2>2 DEF Lifecycle!Justified, Agrees, Collected, Final, ManjoState
  <2>3. QED BY <1>1, <2>2
<1>4. Voice' = [Voice EXCEPT ![t] = (phase = "announcing")]
  <2>1. \A j \in Instances : check[j][t] # "announcing"
    BY <1>1 DEF IInv, CheckInv, Owns
  <2>2. Announcing(t)' <=> phase = "announcing"
    BY <1>2, <2>1 DEF Announcing, IInv, TypeOK
  <2>3. \A u \in Tx : u # t => (Announcing(u)' <=> Announcing(u))
    BY <1>2 DEF Announcing, IInv, TypeOK
  <2>4. \A u \in Tx : Announcing(u)' = IF u = t THEN phase = "announcing"
                                                ELSE Announcing(u)
    BY <2>2, <2>3 DEF Announcing
  <2>5. QED BY <2>4 DEF Voice
<1>5. Spoken' = Spoken
  BY <1>1 DEF Spoken
<1>6. QED
  BY <1>1, <1>2, <1>3, <1>4, <1>5 DEF Lifecycle!Settle, Voice, Spoken

LEMMA PublishRefines ==
  ASSUME IInv, NEW i \in Instances, NEW t \in Tx, Publish(i, t)
  PROVE  Lifecycle!Speak(t)
<1>1. /\ check[i][t] = "announcing" /\ Announcing(t)
      /\ heard[t] + missed[t] = tries[i][t] /\ tries[i][t] < PublishAttempts
      /\ heard[t] \in Nat /\ missed[t] \in Nat
  BY DEF IInv, TypeOK, CheckInv, Publish, Announcing
<1>2. Spoken' = [Spoken EXCEPT ![t] = @ + 1]
  <2>1. \/ heard' = [heard EXCEPT ![t] = @ + 1] /\ missed' = missed
        \/ missed' = [missed EXCEPT ![t] = @ + 1] /\ heard' = heard
    BY DEF Publish
  <2>2. \A u \in Tx : heard[u] \in Nat /\ missed[u] \in Nat
    BY DEF IInv, TypeOK
  <2>3. \A u \in Tx : heard'[u] + missed'[u] =
          IF u = t THEN heard[u] + missed[u] + 1 ELSE heard[u] + missed[u]
    <3>1. CASE heard' = [heard EXCEPT ![t] = @ + 1] /\ missed' = missed
      BY <2>2, <3>1 DEF IInv, TypeOK
    <3>2. CASE missed' = [missed EXCEPT ![t] = @ + 1] /\ heard' = heard
      BY <2>2, <3>2 DEF IInv, TypeOK
    <3>3. QED BY <2>1, <3>1, <3>2
  <2>4. QED BY <2>3 DEF Spoken
<1>3. \E v \in BOOLEAN : Voice' = [Voice EXCEPT ![t] = v]
  <2>1. PICK c : check' = [check EXCEPT ![i][t] = c]
    BY DEF Publish
  <2>2. \A u \in Tx : u # t => (Announcing(u)' <=> Announcing(u))
    BY <2>1 DEF Announcing, IInv, TypeOK
  <2>3. \A u \in Tx : Announcing(u)' = IF u = t THEN Announcing(t)' ELSE Announcing(u)
    BY <2>2 DEF Announcing
  <2>4. Voice' = [Voice EXCEPT ![t] = Announcing(t)']
    BY <2>3 DEF Voice
  <2>5. Announcing(t)' \in BOOLEAN
    BY DEF Announcing
  <2>6. QED BY <2>4, <2>5
<1>4. UNCHANGED <<status, overdue, manjo, shown>>
  BY DEF Publish, db, world
<1>5. Voice[t] /\ Spoken[t] < PublishAttempts
  BY <1>1 DEF Voice, Spoken
<1>6. QED
  BY <1>2, <1>3, <1>4, <1>5 DEF Lifecycle!Speak, Voice, Spoken

LEMMA PollerRefines ==
  ASSUME IInv, NEW i \in Instances, NEW t \in Tx, Poller(i, t)
  PROVE  Lifecycle!Next
<1>1. CASE SettleApplied(i, t) \/ SettleLostCommit(i, t)
  BY <1>1, SettleRefines DEF Lifecycle!Next
<1>2. CASE Publish(i, t)
  BY <1>2, PublishRefines DEF Lifecycle!Next
<1>3. CASE \/ StartCheck(i, t) \/ Query(i, t) \/ SettleNothing(i, t)
           \/ RecordAnnouncement(i, t)
  <2>1. UNCHANGED <<status, overdue, manjo, shown, heard, missed>>
    BY <1>3 DEF StartCheck, Query, SettleNothing, RecordAnnouncement, db, world, mqtt
  <2>2. PICK c \in {"querying", "answered", "idle"} : check' = [check EXCEPT ![i][t] = c]
    BY <1>3 DEF StartCheck, Query, SettleNothing, RecordAnnouncement, Finish
  <2>3. \A j \in Instances, u \in Tx :
          check'[j][u] = "announcing" => check[j][u] = "announcing"
    BY <2>2 DEF IInv, TypeOK
  <2>4. \A u \in Tx : Announcing(u)' => Announcing(u)
    BY <2>3 DEF Announcing
  <2>5. QED BY <2>1, <2>4, QuietStep DEF Lifecycle!Next
<1>4. QED BY <1>1, <1>2, <1>3 DEF Poller, Settle

LEMMA ProcessRefines ==
  ASSUME IInv, NEW i \in Instances, Process(i)
  PROVE  Lifecycle!Next
<1>1. UNCHANGED <<status, overdue, manjo, shown, heard, missed>>
  BY DEF Process, Claim, Sigterm, Exit, ForcedExit, Crash, Restart, db, world, mqtt
<1>2. \A j \in Instances, u \in Tx :
        check'[j][u] = "announcing" => check[j][u] = "announcing"
  <2>1. CASE UNCHANGED check
    BY <2>1
  <2>2. CASE \E g \in [Tx -> {"claimed", "idle"}] : check' = [check EXCEPT ![i] = g]
    <3>1. PICK g \in [Tx -> {"claimed", "idle"}] : check' = [check EXCEPT ![i] = g]
      BY <2>2
    <3>2. \A u \in Tx : g[u] # "announcing"
      OBVIOUS
    <3>3. QED BY <3>1, <3>2 DEF IInv, TypeOK
  <2>3. CASE Claim(i)
    <3>1. PICK S \in Batches(Claimable) : Claim(i)!3!(S)
      BY <2>3 DEF Claim
    <3>2. [u \in Tx |-> IF u \in S THEN "claimed" ELSE "idle"] \in [Tx -> {"claimed", "idle"}]
      OBVIOUS
    <3>3. QED BY <2>1, <2>2, <3>1, <3>2
  <2>4. CASE Exit(i) \/ ForcedExit(i) \/ Crash(i)
    <3>1. check' = [check EXCEPT ![i] = Idle]
      BY <2>4 DEF Exit, ForcedExit, Crash, Die
    <3>2. QED BY <2>2, <3>1 DEF Idle
  <2>5. CASE Sigterm(i) \/ Restart(i)
    BY <2>1, <2>5 DEF Sigterm, Restart, local
  <2>6. QED BY <2>3, <2>4, <2>5 DEF Process
<1>3. \A u \in Tx : Announcing(u)' => Announcing(u)
  BY <1>2 DEF Announcing
<1>4. QED BY <1>1, <1>3, QuietStep DEF Lifecycle!Next

LEMMA EnvironmentRefines ==
  ASSUME IInv, NEW t \in Tx, Environment(t)
  PROVE  Lifecycle!Next \/ UNCHANGED Lifecycle!lvars
<1>1. UNCHANGED <<status, shown, check, heard, missed>>
  BY DEF Environment, ManjoMoves, IntervalElapses, DeadlinePasses, PaymentGoesStale,
     db, local, mqtt
<1>2. Voice' = Voice /\ Spoken' = Spoken
  BY <1>1, SameVoice
<1>3. CASE IntervalElapses(t) \/ PaymentGoesStale(t)
  BY <1>1, <1>2, <1>3 DEF IntervalElapses, PaymentGoesStale, db, world,
     Lifecycle!lvars, Voice, Spoken
<1>4. CASE ManjoMoves(t)
  <2>1. PICK m \in ManjoStep(manjo[t], shown[t]) : manjo' = [manjo EXCEPT ![t] = m]
    BY <1>4 DEF ManjoMoves
  <2>2. manjo[t] \in ManjoState
    BY DEF IInv, TypeOK
  <2>3. \/ manjo[t] = "open" /\ m \in {"expired", "cancelled", "failed"}
        \/ manjo[t] = "open" /\ m = "paid" /\ shown[t]
        \/ manjo[t] = "paid" /\ m = "refunded"
    BY <2>1, <2>2 DEF ManjoStep, ManjoState
  <2>4. shown[t] /\ manjo[t] = "open" =>
          status[t] = "QR_GENERATED" \/ (status[t] = "EXPIRED" /\ overdue[t])
    BY IInvImplies DEF PayableIsPolled
  <2>5. Lifecycle!ManjoMoves(t)
    BY <1>1, <1>2, <1>4, <2>1, <2>3, <2>4
       DEF ManjoMoves, db, Lifecycle!ManjoMoves, Voice, Spoken
  <2>6. QED BY <2>5 DEF Lifecycle!Next
<1>5. CASE DeadlinePasses(t)
  <2>1. Lifecycle!DeadlinePasses(t)
    BY <1>1, <1>2, <1>5
       DEF DeadlinePasses, world, Lifecycle!DeadlinePasses, Voice, Spoken
  <2>2. QED BY <2>1 DEF Lifecycle!Next
<1>6. QED BY <1>3, <1>4, <1>5 DEF Environment

\* All instances, workers, retries and crashes together behave like the
\* lifecycle promised for each transaction.
THEOREM BridgeImplementsLifecycle == Spec => ImplementsLifecycle
<1>1. Init => Lifecycle!Init
  <2>1. ASSUME Init
        PROVE  /\ \A t \in Tx : ~Announcing(t)
               /\ \A t \in Tx : heard[t] + missed[t] = 0
    BY <2>1 DEF Init, Announcing, Idle
  <2>2. ASSUME Init
        PROVE  Voice = [t \in Tx |-> FALSE] /\ Spoken = [t \in Tx |-> 0]
    <3>1. \A t \in Tx : Announcing(t) = FALSE
      BY <2>1, <2>2 DEF Announcing
    <3>2. QED BY <2>1, <2>2, <3>1 DEF Voice, Spoken
  <2>3. QED BY <2>2 DEF Init, Lifecycle!Init, Voice, Spoken
<1>2. IInv /\ [Next]_vars => [Lifecycle!Next]_Lifecycle!lvars
  <2> SUFFICES ASSUME IInv, [Next]_vars PROVE [Lifecycle!Next]_Lifecycle!lvars
    OBVIOUS
  <2>1. CASE UNCHANGED vars
    <3>1. UNCHANGED <<status, overdue, manjo, shown, check, heard, missed>>
      BY <2>1 DEF vars
    <3>2. Voice' = Voice /\ Spoken' = Spoken
      BY <3>1, SameVoice
    <3>3. QED BY <3>1, <3>2 DEF Lifecycle!lvars, Voice, Spoken
  <2>2. CASE Next
    BY <2>2, HandlerRefines, PollerRefines, ProcessRefines, EnvironmentRefines DEF Next
  <2>3. QED BY <2>1, <2>2
<1>3. QED BY <1>1, <1>2, Inductive, PTL DEF Spec, ImplementsLifecycle, Lifecycle!Spec

=============================================================================
