------------------------ MODULE PollSchedule_proofs ------------------------
(***************************************************************************)
(* Proofs about PollSchedule for any number of transactions and instances, *)
(* any batch size, interval and clock skew.                                *)
(***************************************************************************)
EXTENDS PollSchedule, FiniteSetTheorems, TLAPS

----------------------------------------------------------------------------
(* What the invariant says about overtaking *)

\* Constants are the numbers they are meant to be.
LEMMA Numbers ==
  /\ Interval \in Nat /\ Interval > 0 /\ Batch \in Nat /\ Batch > 0
  /\ MaxClock \in Nat /\ MaxClock > 0 /\ MaxSkew \in Nat /\ MaxFaults \in Nat
  BY ScheduleAssumption

\* A set of transactions is finite.
LEMMA TxSets ==
  ASSUME NEW S \in SUBSET Tx
  PROVE  IsFiniteSet(S) /\ Cardinality(S) \in Nat /\ Cardinality(S) <= Cardinality(Tx)
<1>1. IsFiniteSet(Tx)
  BY ScheduleAssumption
<1>2. IsFiniteSet(S) /\ Cardinality(S) <= Cardinality(Tx)
  BY <1>1, FS_Subset
<1>3. QED BY <1>2, FS_CardinalityType

\* A row that a claim leaves behind is behind every row of its batch, and a
\* row claimed since is behind it.
LEMMA NoTwice == Inductive => NoneOvertakesTwice
<1> SUFFICES ASSUME Inductive, NEW i \in Instances, NEW t \in Waiting(i),
                    NEW u \in held[i], u \in ahead[t]
             PROVE  FALSE
  BY DEF NoneOvertakesTwice
<1>1. t \in left[i] /\ t \in Tx /\ u \in Tx
  BY DEF Waiting, Inductive, TypeOK
<1>2. next[u] <= next[t]
  BY <1>1 DEF Inductive, ClaimInv
<1>3. next[t] < next[u]
  BY <1>1 DEF Inductive, AheadInv
<1>4. next[t] \in Int /\ next[u] \in Int
  BY <1>1 DEF Inductive, TypeOK
<1>5. QED BY <1>2, <1>3, <1>4

\* A transaction is not ahead of itself, so all others are at most ahead.
LEMMA Bounded == Inductive => WaitIsBounded
<1> SUFFICES ASSUME Inductive, NEW t \in Tx
             PROVE  Batch * passed[t] <= Cardinality(Tx) - 1
  BY DEF WaitIsBounded
<1>1. t \notin ahead[t]
  BY DEF Inductive, TypeOK, AheadInv
<1>2. ahead[t] \in SUBSET (Tx \ {t})
  BY <1>1 DEF Inductive, TypeOK
<1>3. IsFiniteSet(Tx \ {t}) /\ Cardinality(Tx \ {t}) = Cardinality(Tx) - 1
  BY ScheduleAssumption, FS_RemoveElement
<1>4. Cardinality(ahead[t]) <= Cardinality(Tx) - 1
  BY <1>2, <1>3, FS_Subset
<1>5. QED BY <1>4 DEF Inductive, CountInv

\* A row is claimed when it is due, Interval after its last claim.
LEMMA Spaced == Inductive => ClaimsAreSpaced
<1> SUFFICES ASSUME Inductive, NEW i \in Instances, NEW t \in held[i], last[t] # 0
             PROVE  at[i] >= last[t] + Interval
  BY DEF ClaimsAreSpaced
<1>1. t \in Tx /\ at[i] \in Int
  BY DEF Inductive, TypeOK
<1>2. next[t] <= at[i] /\ next[t] = last[t] + Interval /\ next[t] \in Int
  BY <1>1 DEF Inductive, TypeOK, ClaimInv, LastInv
<1>3. QED BY <1>1, <1>2

LEMMA InitInductive == Init => Inductive
<1> SUFFICES ASSUME Init PROVE Inductive
  OBVIOUS
<1>1. TypeOK
  BY Numbers DEF Init, TypeOK
<1>2. ClaimInv /\ BornInv /\ LastInv /\ AheadInv
  BY DEF Init, ClaimInv, BornInv, LastInv, AheadInv
<1>3. CountInv
  BY FS_EmptySet, Numbers DEF Init, CountInv
<1>4. QED BY <1>1, <1>2, <1>3 DEF Inductive

----------------------------------------------------------------------------
(* Steps *)

LEMMA ClockStep == Inductive /\ Clock => Inductive'
<1> SUFFICES ASSUME Inductive, Clock PROVE Inductive'
  OBVIOUS
<1>1. /\ now' \in 1..MaxClock /\ now' = now + 1 /\ now \in Int
      /\ UNCHANGED <<open, next, held, at, batch, born, last, left>>
      /\ UNCHANGED <<ahead, passed, faults>>
  BY Numbers DEF Clock, Inductive, TypeOK, history
<1>2. TypeOK'
  BY <1>1 DEF Inductive, TypeOK
<1>3. ClaimInv'
  BY <1>1 DEF Inductive, TypeOK, ClaimInv
<1>4. BornInv' /\ LastInv' /\ AheadInv' /\ CountInv'
  BY <1>1 DEF Inductive, BornInv, LastInv, AheadInv, CountInv
<1>5. QED BY <1>2, <1>3, <1>4 DEF Inductive

LEMMA GenerateStep == ASSUME Inductive, NEW t \in Tx, Generate(t) PROVE Inductive'
<1>1. /\ t \notin born /\ born' = born \cup {t} /\ open' = open \cup {t}
      /\ UNCHANGED <<now, held, at, batch, last, left, ahead, passed, faults>>
  BY DEF Generate, history
<1>2. /\ next' \in [Tx -> Int]
      /\ \A u \in Tx : u # t => next'[u] = next[u]
  BY Numbers DEF Generate, Inductive, TypeOK
<1>3. TypeOK'
  BY <1>1, <1>2 DEF Inductive, TypeOK
<1>4. /\ last[t] = 0 /\ ahead[t] = {}
      /\ \A i \in Instances : t \notin held[i] /\ t \notin left[i]
      /\ \A u \in Tx : t \notin ahead[u]
  BY <1>1 DEF Inductive, BornInv
<1>5. ClaimInv'
  BY <1>1, <1>2, <1>4 DEF Inductive, TypeOK, ClaimInv
<1>6. BornInv'
  BY <1>1 DEF Inductive, BornInv
<1>7. LastInv'
  BY <1>1, <1>2, <1>4 DEF Inductive, LastInv
<1>8. AheadInv'
  BY <1>1, <1>2, <1>4 DEF Inductive, TypeOK, AheadInv
<1>9. CountInv'
  BY <1>1 DEF Inductive, CountInv
<1>10. QED BY <1>3, <1>5, <1>6, <1>7, <1>8, <1>9 DEF Inductive

LEMMA ClaimStep == ASSUME Inductive, NEW i \in Instances, Claim(i) PROVE Inductive'
<1> DEFINE due == {t \in Tx : Claimable(t)}
<1>1. PICK S \in (SUBSET due) \ {{}} :
        /\ Full(S, due \ S)
        /\ \A t \in S, u \in due \ S : Before(t, u)
        /\ held' = [held EXCEPT ![i] = S]
        /\ left' = [left EXCEPT ![i] = due \ S]
  BY DEF Claim
<1>2. /\ at' = [at EXCEPT ![i] = now] /\ held[i] = {}
      /\ UNCHANGED <<now, open, next, batch, born, last, ahead, passed, faults>>
  BY DEF Claim
<1>3. \A t \in due : t \in open /\ t \in Tx /\ next[t] <= now
                     /\ \A j \in Instances : t \notin held[j]
  BY DEF Claimable, Locked
<1>4. \A t \in S, u \in due \ S : next[t] <= next[u] /\ u # t
  BY <1>1 DEF Before
<1>5. due \ S # {} => Cardinality(S) = Batch
  BY <1>1 DEF Full
<1> HIDE DEF due
<1>6. S \subseteq Tx /\ due \subseteq Tx /\ S \subseteq due
  BY <1>1, <1>3
<1>7. TypeOK'
  BY <1>1, <1>2, <1>6 DEF Inductive, TypeOK
<1>8. /\ \A j \in Instances : held'[j] = IF j = i THEN S ELSE held[j]
      /\ \A j \in Instances : left'[j] = IF j = i THEN due \ S ELSE left[j]
      /\ \A j \in Instances : at'[j] = IF j = i THEN now ELSE at[j]
  BY <1>1, <1>2 DEF Inductive, TypeOK
<1>9. ClaimInv'
  <2> SUFFICES ASSUME NEW j \in Instances
               PROVE  /\ at'[j] <= now'
                      /\ \A k \in Instances : j # k => held'[j] \cap held'[k] = {}
                      /\ \A t \in held'[j] :
                           /\ next'[t] <= at'[j]
                           /\ \A u \in left'[j] : next'[t] <= next'[u] /\ u # t
                      /\ left'[j] # {} => Cardinality(held'[j]) = Batch
    BY DEF ClaimInv
  <2>1. at'[j] <= now'
    BY <1>2, <1>8 DEF Inductive, TypeOK, ClaimInv
  <2>2. \A k \in Instances : j # k => held'[j] \cap held'[k] = {}
    BY <1>3, <1>6, <1>8 DEF Inductive, ClaimInv
  <2>3. CASE j = i
    BY <1>2, <1>3, <1>4, <1>5, <1>6, <1>8, <2>1, <2>2, <2>3
  <2>4. CASE j # i
    BY <1>2, <1>8, <2>1, <2>2, <2>4 DEF Inductive, ClaimInv
  <2>5. QED BY <2>3, <2>4
<1>10. BornInv'
  <2>1. \A t \in Tx \ born : t \notin due
    BY <1>3 DEF Inductive, BornInv
  <2>2. QED BY <1>2, <1>6, <1>8, <2>1 DEF Inductive, BornInv
<1>11. LastInv' /\ AheadInv' /\ CountInv'
  BY <1>2 DEF Inductive, LastInv, AheadInv, CountInv
<1>12. QED BY <1>7, <1>9, <1>10, <1>11 DEF Inductive

LEMMA CommitStep == ASSUME Inductive, NEW i \in Instances, Commit(i) PROVE Inductive'
<1> DEFINE S == held[i]
           W == Waiting(i)
<1>1. /\ UNCHANGED <<now, open, at, born>>
      /\ held' = [held EXCEPT ![i] = {}] /\ left' = [left EXCEPT ![i] = {}]
      /\ batch' \in [Instances -> SUBSET Tx] /\ faults' \in 0..MaxFaults
  BY Numbers DEF Commit, Inductive, TypeOK
<1>2. /\ next' = [t \in Tx |-> IF t \in S THEN at[i] + Interval ELSE next[t]]
      /\ last' = [t \in Tx |-> IF t \in S THEN at[i] ELSE last[t]]
      /\ ahead' = [t \in Tx |-> IF t \in S THEN {}
                                ELSE IF t \in W THEN ahead[t] \cup S ELSE ahead[t]]
      /\ passed' = [t \in Tx |-> IF t \in S THEN 0
                                 ELSE IF t \in W THEN passed[t] + 1 ELSE passed[t]]
  BY DEF Commit
<1>3. /\ S \subseteq Tx /\ W \subseteq left[i] /\ left[i] \subseteq Tx
      /\ at[i] \in Int /\ at[i] \in 0..MaxClock
      /\ \A t \in W : next[t] <= at[i]
      /\ \A t \in S : next[t] <= at[i]
      /\ W # {} => Cardinality(S) = Batch
  BY DEF Waiting, Inductive, TypeOK, ClaimInv
<1>4. \A t \in W : S \cap ahead[t] = {}
  BY NoTwice DEF NoneOvertakesTwice
<1> HIDE DEF S, W
<1>5. TypeOK'
  BY <1>1, <1>2, <1>3, Numbers DEF Inductive, TypeOK
<1>6. /\ \A j \in Instances : held'[j] = IF j = i THEN {} ELSE held[j]
      /\ \A j \in Instances : left'[j] = IF j = i THEN {} ELSE left[j]
  BY <1>1 DEF Inductive, TypeOK
<1>7. \A t \in Tx : next[t] \in Int /\ next'[t] \in Int /\ next[t] <= next'[t]
  BY <1>2, <1>3, Numbers DEF Inductive, TypeOK
<1>8. ClaimInv'
  <2> SUFFICES ASSUME NEW j \in Instances
               PROVE  /\ at'[j] <= now'
                      /\ \A k \in Instances : j # k => held'[j] \cap held'[k] = {}
                      /\ \A t \in held'[j] :
                           /\ next'[t] <= at'[j]
                           /\ \A u \in left'[j] : next'[t] <= next'[u] /\ u # t
                      /\ left'[j] # {} => Cardinality(held'[j]) = Batch
    BY DEF ClaimInv
  <2>1. at'[j] <= now' /\ \A k \in Instances : j # k => held'[j] \cap held'[k] = {}
    BY <1>1, <1>6 DEF Inductive, ClaimInv
  <2>2. CASE j = i
    BY <1>6, <2>1, <2>2
  <2>3. CASE j # i
    <3>1. \A t \in held[j] : t \in Tx /\ t \notin S
      BY <2>3 DEF S, Inductive, TypeOK, ClaimInv
    <3>2. \A t \in held[j] : next'[t] = next[t]
      BY <1>2, <3>1
    <3>3. \A u \in left[j] : u \in Tx /\ next[u] <= next'[u]
      BY <1>7 DEF Inductive, TypeOK
    <3>4. \A t \in held'[j] : next'[t] <= at'[j]
      BY <1>1, <1>6, <2>3, <3>2 DEF Inductive, ClaimInv
    <3>5. \A t \in held'[j] : \A u \in left'[j] : next'[t] <= next'[u] /\ u # t
      <4> SUFFICES ASSUME NEW t \in held[j], NEW u \in left[j]
                   PROVE  next'[t] <= next'[u] /\ u # t
        BY <1>6, <2>3
      <4>1. next[t] <= next[u] /\ u # t
        BY DEF Inductive, ClaimInv
      <4>2. QED BY <1>7, <3>1, <3>2, <3>3, <4>1
    <3>6. left'[j] # {} => Cardinality(held'[j]) = Batch
      BY <1>6, <2>3 DEF Inductive, ClaimInv
    <3>7. QED BY <2>1, <3>4, <3>5, <3>6
  <2>4. QED BY <2>2, <2>3
<1>9. BornInv'
  <2>1. \A t \in Tx \ born : t \notin S /\ t \notin W
    BY <1>3 DEF S, Inductive, BornInv
  <2>2. QED BY <1>1, <1>2, <1>6, <2>1 DEF Inductive, BornInv
<1>10. LastInv'
  BY <1>2, <1>3 DEF Inductive, LastInv
<1>11. AheadInv'
  <2> SUFFICES ASSUME NEW t \in Tx, NEW u \in ahead'[t] PROVE next'[t] < next'[u]
    BY DEF AheadInv
  <2>1. t \notin S /\ next'[t] = next[t] /\ u \in Tx
    BY <1>2, <1>5 DEF TypeOK
  <2>2. CASE u \in ahead[t]
    <3>1. next[t] < next[u]
      BY <2>2 DEF Inductive, AheadInv
    <3>2. QED BY <1>7, <2>1, <3>1
  <2>3. CASE t \in W /\ u \in S
    BY <1>2, <1>3, <1>7, <2>1, <2>3, Numbers
  <2>4. QED BY <1>2, <2>1, <2>2, <2>3
<1>12. CountInv'
  <2> SUFFICES ASSUME NEW t \in Tx
               PROVE  Cardinality(ahead'[t]) = Batch * passed'[t]
    BY DEF CountInv
  <2>1. Cardinality(ahead[t]) = Batch * passed[t] /\ ahead[t] \subseteq Tx
        /\ passed[t] \in Nat
    BY DEF Inductive, TypeOK, CountInv
  <2>2. CASE t \in S
    <3>1. ahead'[t] = {} /\ passed'[t] = 0
      BY <1>2, <2>2
    <3>2. QED BY <3>1, FS_EmptySet, Numbers
  <2>3. CASE t \notin S /\ t \in W
    <3>1. ahead'[t] = ahead[t] \cup S /\ passed'[t] = passed[t] + 1
      BY <1>2, <2>3
    <3>2. IsFiniteSet(S) /\ IsFiniteSet(ahead[t])
      BY <1>3, <2>1, TxSets
    <3>3. ahead[t] \cap S = {} /\ Cardinality({}) = 0
      BY <1>4, <2>3, FS_EmptySet
    <3>4. Cardinality(ahead[t] \cup S)
            = Cardinality(ahead[t]) + Cardinality(S) - Cardinality(ahead[t] \cap S)
      BY <3>2, FS_Union
    <3>5. Cardinality(ahead[t] \cup S) = Batch * passed[t] + Batch
      <4>1. Cardinality(ahead[t] \cap S) = 0 /\ Cardinality(S) = Batch
        BY <1>3, <2>3, <3>3
      <4>2. Cardinality(ahead[t]) \in Nat
        BY <2>1, TxSets
      <4>3. Cardinality(ahead[t] \cup S) = Cardinality(ahead[t]) + Batch
        BY <3>4, <4>1, <4>2, Numbers
      <4>4. QED BY <2>1, <4>3
    <3>6. Batch * (passed[t] + 1) = Batch * passed[t] + Batch
      BY <2>1, Numbers
    <3>7. QED BY <3>1, <3>5, <3>6
  <2>4. CASE t \notin S /\ t \notin W
    BY <1>2, <2>1, <2>4
  <2>5. QED BY <2>2, <2>3, <2>4
<1>13. QED BY <1>5, <1>8, <1>9, <1>10, <1>11, <1>12 DEF Inductive

LEMMA CheckStep ==
  ASSUME Inductive, NEW i \in Instances, NEW t \in Tx, Check(i, t)
  PROVE  Inductive'
<1>1. /\ open' \subseteq open /\ batch' \in [Instances -> SUBSET Tx]
      /\ UNCHANGED <<now, next, held, at, born, last, left, ahead, passed, faults>>
  BY DEF Check, Inductive, TypeOK, history
<1>2. TypeOK'
  BY <1>1 DEF Inductive, TypeOK
<1>3. ClaimInv' /\ BornInv'
  BY <1>1 DEF Inductive, ClaimInv, BornInv
<1>4. LastInv' /\ AheadInv' /\ CountInv'
  BY <1>1 DEF Inductive, LastInv, AheadInv, CountInv
<1>5. QED BY <1>2, <1>3, <1>4 DEF Inductive

LEMMA CrashStep == ASSUME Inductive, NEW i \in Instances, Crash(i) PROVE Inductive'
<1>1. /\ held' = [held EXCEPT ![i] = {}] /\ left' = [left EXCEPT ![i] = {}]
      /\ batch' \in [Instances -> SUBSET Tx] /\ faults' \in 0..MaxFaults
      /\ UNCHANGED <<now, open, next, at, born, last, ahead, passed>>
  BY Numbers DEF Crash, Inductive, TypeOK
<1>2. TypeOK'
  BY <1>1 DEF Inductive, TypeOK
<1>3. /\ \A j \in Instances : held'[j] = IF j = i THEN {} ELSE held[j]
      /\ \A j \in Instances : left'[j] = IF j = i THEN {} ELSE left[j]
  BY <1>1 DEF Inductive, TypeOK
<1>4. ClaimInv'
  <2>1. \A j \in Instances : at'[j] <= now'
    BY <1>1 DEF Inductive, ClaimInv
  <2>2. \A j, k \in Instances : j # k => held'[j] \cap held'[k] = {}
    BY <1>3 DEF Inductive, ClaimInv
  <2>3. \A j \in Instances : \A t \in held'[j] :
          /\ next'[t] <= at'[j]
          /\ \A u \in left'[j] : next'[t] <= next'[u] /\ u # t
    BY <1>1, <1>3 DEF Inductive, ClaimInv
  <2>4. \A j \in Instances : left'[j] # {} => Cardinality(held'[j]) = Batch
    BY <1>3 DEF Inductive, ClaimInv
  <2>5. QED BY <2>1, <2>2, <2>3, <2>4 DEF ClaimInv
<1>5. BornInv'
  BY <1>1, <1>3 DEF Inductive, BornInv
<1>6. LastInv' /\ AheadInv' /\ CountInv'
  BY <1>1 DEF Inductive, LastInv, AheadInv, CountInv
<1>7. QED BY <1>2, <1>4, <1>5, <1>6 DEF Inductive

----------------------------------------------------------------------------
(* Theorems *)

\* Every step of the schedule preserves the invariant.
THEOREM Invariance == Spec => []IInv
<1>1. Inductive /\ [Next]_vars => Inductive'
  <2> SUFFICES ASSUME Inductive, [Next]_vars PROVE Inductive'
    OBVIOUS
  <2>1. CASE UNCHANGED vars
    <3>1. UNCHANGED <<now, open, next, held, at, batch, born>>
          /\ UNCHANGED <<last, left, ahead, passed, faults>>
      BY <2>1 DEF vars, history
    <3>2. TypeOK' /\ ClaimInv' /\ BornInv'
      BY <3>1 DEF Inductive, TypeOK, ClaimInv, BornInv
    <3>3. LastInv' /\ AheadInv' /\ CountInv'
      BY <3>1 DEF Inductive, LastInv, AheadInv, CountInv
    <3>4. QED BY <3>2, <3>3 DEF Inductive
  <2>2. CASE Next
    BY <2>2, ClockStep, GenerateStep, ClaimStep, CommitStep, CheckStep, CrashStep
       DEF Next
  <2>3. QED BY <2>1, <2>2
<1>2. Inductive => IInv
  BY NoTwice, Bounded, Spaced DEF IInv
<1>3. QED BY <1>1, <1>2, InitInductive, PTL DEF Spec

\* Manjo is asked about a transaction at most once per poll interval.
THEOREM Spacing == Spec => []ClaimsAreSpaced
<1>1. IInv => ClaimsAreSpaced
  BY DEF IInv
<1>2. QED BY <1>1, Invariance, PTL

\* No transaction is claimed twice while another one waits.
THEOREM NoOvertaking == Spec => []NoneOvertakesTwice
<1>1. IInv => NoneOvertakesTwice
  BY DEF IInv
<1>2. QED BY <1>1, Invariance, PTL

\* A due transaction is left behind by (transactions - 1) / batchSize claims
\* at most.
THEOREM BoundedWait == Spec => []WaitIsBounded
<1>1. IInv => WaitIsBounded
  BY DEF IInv
<1>2. QED BY <1>1, Invariance, PTL

=============================================================================
