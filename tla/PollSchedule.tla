---------------------------- MODULE PollSchedule ----------------------------
(***************************************************************************)
(* The order in which the poller's instances check open QRs:               *)
(* transactions.next_query_at, the claim statement with its ORDER BY,      *)
(* LIMIT and FOR UPDATE SKIP LOCKED, and RunOnce, which claims no new      *)
(* batch before it is through with the last one.                           *)
(*                                                                         *)
(* A claim locks its rows and commits later; now() inside it is the time   *)
(* it began.  What a check finds out is PaymentBridge's subject: here a    *)
(* checked QR leaves QR_GENERATED or stays.                                *)
(***************************************************************************)
EXTENDS Integers, FiniteSets

CONSTANTS
  Tx,
  Instances,
  Interval,     \* PAYMENT_POLL_INTERVAL
  Batch,        \* batchSize
  MaxSkew,      \* bound: service clock against database clock
  MaxClock,     \* bound
  MaxFaults     \* bound: crashes and lost claims

ASSUME ScheduleAssumption ==
  /\ IsFiniteSet(Tx)
  /\ Interval \in Nat \ {0}
  /\ Batch \in Nat \ {0}
  /\ MaxSkew \in Nat
  /\ MaxClock \in Nat \ {0}
  /\ MaxFaults \in Nat

VARIABLES
  now,      \* the database clock
  open,     \* rows in QR_GENERATED
  next,     \* next_query_at, 0 for NULL
  held,     \* per instance: rows its running claim has locked
  at,       \* per instance: now() of that claim
  batch,    \* per instance: claimed rows RunOnce is not through with
  born,     \* transactions that have been created
  last,     \* history: time of the last claim of a row, 0 if none
  left,     \* history: rows a running claim left behind, due and free
  ahead,    \* history: rows claimed since a due row is left behind
  passed,   \* history: claims that left it behind
  faults

history == <<last, left, ahead, passed>>
vars == <<now, open, next, held, at, batch, born, history, faults>>

TypeOK ==
  /\ now \in 1..MaxClock
  /\ open \subseteq Tx /\ born \subseteq Tx
  /\ next \in [Tx -> Int]
  /\ held \in [Instances -> SUBSET Tx]
  /\ at \in [Instances -> 0..MaxClock]
  /\ batch \in [Instances -> SUBSET Tx]
  /\ last \in [Tx -> 0..MaxClock]
  /\ left \in [Instances -> SUBSET Tx]
  /\ ahead \in [Tx -> SUBSET Tx]
  /\ passed \in [Tx -> Nat]
  /\ faults \in 0..MaxFaults

\* Rows from before the schedule: next_query_at is NULL.
Init ==
  /\ now = 1
  /\ open \in SUBSET Tx /\ born = open
  /\ next = [t \in Tx |-> 0]
  /\ held = [i \in Instances |-> {}]
  /\ at = [i \in Instances |-> 0]
  /\ batch = [i \in Instances |-> {}]
  /\ last = [t \in Tx |-> 0]
  /\ left = [i \in Instances |-> {}]
  /\ ahead = [t \in Tx |-> {}]
  /\ passed = [t \in Tx |-> 0]
  /\ faults = 0

----------------------------------------------------------------------------
Clock ==
  /\ now < MaxClock
  /\ now' = now + 1
  /\ UNCHANGED <<open, next, held, at, batch, born, history, faults>>

\* MarkTransactionQRGenerated, with a time from the service's clock.
Generate(t) ==
  /\ t \notin born
  /\ born' = born \cup {t}
  /\ open' = open \cup {t}
  /\ \E skew \in -MaxSkew..MaxSkew :
       next' = [next EXCEPT ![t] = now + Interval + skew]
  /\ UNCHANGED <<now, held, at, batch, history, faults>>

Locked(t) == \E i \in Instances : t \in held[i]

\* Mutant of Claimable: without the locks.
ClaimableAnyway(t) == t \in open /\ next[t] <= now

\* status = 'QR_GENERATED', due, SKIP LOCKED.
Claimable(t) == t \in open /\ next[t] <= now /\ ~Locked(t)

\* Mutant of Before: no ORDER BY.
Unordered(t, u) == TRUE

\* ORDER BY next_query_at NULLS FIRST.
Before(t, u) == next[t] <= next[u]

\* Mutant of Full: a batch may end before its limit.
AnySize(S, rest) == TRUE

\* LIMIT: rows are left behind by a full batch only.
Full(S, rest) ==
  /\ Cardinality(S) <= Batch
  /\ rest # {} => Cardinality(S) = Batch

\* An instance that has nothing to do claims a batch at its tick.
Claim(i) ==
  /\ held[i] = {} /\ batch[i] = {}
  /\ LET due == {t \in Tx : Claimable(t)} IN
       \E S \in (SUBSET due) \ {{}} :
         /\ Full(S, due \ S)
         /\ \A t \in S, u \in due \ S : Before(t, u)
         /\ held' = [held EXCEPT ![i] = S]
         /\ left' = [left EXCEPT ![i] = due \ S]
  /\ at' = [at EXCEPT ![i] = now]
  /\ UNCHANGED <<now, open, next, batch, born, last, ahead, passed, faults>>

\* Rows still due that the claim leaves behind.
Waiting(i) == {t \in left[i] \cap open : next[t] <= at[i]}

\* The claim commits; RETURNING hands its rows to RunOnce, or the answer is
\* lost and RunOnce gives up.
Commit(i) ==
  /\ held[i] # {}
  /\ next' = [t \in Tx |-> IF t \in held[i] THEN at[i] + Interval ELSE next[t]]
  /\ held' = [held EXCEPT ![i] = {}]
  /\ \/ batch' = [batch EXCEPT ![i] = held[i]] /\ UNCHANGED faults
     \/ faults < MaxFaults /\ faults' = faults + 1 /\ UNCHANGED batch
  /\ last' = [t \in Tx |-> IF t \in held[i] THEN at[i] ELSE last[t]]
  /\ left' = [left EXCEPT ![i] = {}]
  /\ ahead' = [t \in Tx |-> IF t \in held[i] THEN {}
                            ELSE IF t \in Waiting(i) THEN ahead[t] \cup held[i]
                            ELSE ahead[t]]
  /\ passed' = [t \in Tx |-> IF t \in held[i] THEN 0
                             ELSE IF t \in Waiting(i) THEN passed[t] + 1
                             ELSE passed[t]]
  /\ UNCHANGED <<now, open, at, born>>

\* One row of the batch is done: the QR stays open, or it leaves
\* QR_GENERATED, which has to wait for a claim that locked its row.
Check(i, t) ==
  /\ t \in batch[i]
  /\ batch' = [batch EXCEPT ![i] = @ \ {t}]
  /\ \/ UNCHANGED open
     \/ ~Locked(t) /\ open' = open \ {t}
  /\ UNCHANGED <<now, next, held, at, born, history, faults>>

\* The claim fails, or the instance crashes and starts again.
Crash(i) ==
  /\ held[i] # {} \/ batch[i] # {}
  /\ faults < MaxFaults /\ faults' = faults + 1
  /\ held' = [held EXCEPT ![i] = {}]
  /\ batch' = [batch EXCEPT ![i] = {}]
  /\ left' = [left EXCEPT ![i] = {}]
  /\ UNCHANGED <<now, open, next, at, born, last, ahead, passed>>

Next ==
  \/ Clock
  \/ \E t \in Tx : Generate(t)
  \/ \E i \in Instances :
       \/ Claim(i) \/ Commit(i) \/ Crash(i)
       \/ \E t \in Tx : Check(i, t)

Spec == Init /\ [][Next]_vars

----------------------------------------------------------------------------
(* Properties *)

\* Whatever the instances do, Manjo is asked about one transaction at most
\* once per PAYMENT_POLL_INTERVAL: claims are that far apart.
ClaimsAreSpaced ==
  \A i \in Instances : \A t \in held[i] : last[t] # 0 => at[i] >= last[t] + Interval

\* No transaction is claimed twice while another one is due, free and left
\* behind both times.
NoneOvertakesTwice ==
  \A i \in Instances : \A t \in Waiting(i) : held[i] \cap ahead[t] = {}

\* So a due transaction waits for (number of transactions - 1) / batchSize
\* claims at most, however many instances and crashes there are.
WaitIsBounded ==
  \A t \in Tx : Batch * passed[t] <= Cardinality(Tx) - 1

(* Why they hold *)

\* A claim that runs knows what the schedule says of its rows.
ClaimInv ==
  \A i \in Instances :
    /\ at[i] <= now
    /\ \A j \in Instances : i # j => held[i] \cap held[j] = {}
    /\ \A t \in held[i] :
         /\ next[t] <= at[i]
         /\ \A u \in left[i] : next[t] <= next[u] /\ u # t
    /\ left[i] # {} => Cardinality(held[i]) = Batch

\* Nothing is known of a transaction that does not exist.
BornInv ==
  /\ open \subseteq born
  /\ \A t \in Tx \ born :
       /\ last[t] = 0 /\ ahead[t] = {} /\ passed[t] = 0
       /\ \A i \in Instances : t \notin held[i] /\ t \notin left[i]
       /\ \A u \in Tx : t \notin ahead[u]

\* The schedule remembers the last claim of a row, and which rows were claimed
\* since another one was left behind: they are behind it now.
LastInv == \A t \in Tx : last[t] # 0 => next[t] = last[t] + Interval
AheadInv == \A t \in Tx : \A u \in ahead[t] : next[t] < next[u]
CountInv == \A t \in Tx : Cardinality(ahead[t]) = Batch * passed[t]

Inductive == TypeOK /\ ClaimInv /\ BornInv /\ LastInv /\ AheadInv /\ CountInv

IInv == Inductive /\ ClaimsAreSpaced /\ NoneOvertakesTwice /\ WaitIsBounded

=============================================================================
