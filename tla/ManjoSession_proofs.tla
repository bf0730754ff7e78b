------------------------ MODULE ManjoSession_proofs ------------------------
(***************************************************************************)
(* Proofs about ManjoSession for any finite sets of handlers and workers,  *)
(* any number of calls and any number of transient retries.                *)
(***************************************************************************)
EXTENDS ManjoSession, FiniteSetTheorems, TLAPS

Outcomes == {"none", "SUCCESS", "UNAUTHORIZED", "CONFLICT", "REJECTED",
             "MANJO_TIMEOUT", "CONFIG_ERROR"}

AllAnswers == {"401", "transient", "SUCCESS", "REJECTED", "CONFLICT"}

----------------------------------------------------------------------------
(* Steps of the retry policy *)

LEMMA AnswersType ==
  ASSUME NEW c \in Callers
  PROVE  Answers(c) \subseteq AllAnswers
  BY DEF Answers, AllAnswers

\* An answer ends the call, sends it back to the token cache or makes it drop
\* the refused token.
LEMMA HandleCases ==
  ASSUME NEW c \in Callers, NEW answer \in AllAnswers, Handle(c, answer)
  PROVE  /\ UNCHANGED <<built, calls>>
         /\ refusals' = [refusals EXCEPT ![c] = IF answer = "401" THEN @ + 1 ELSE @]
         /\ \/ /\ answer = "401" /\ (c \in Queriers \/ stage[c] = "first")
               /\ phase' = [phase EXCEPT ![c] = "dropping"]
               /\ UNCHANGED <<stage, retries, outcome>>
            \/ /\ answer = "transient" /\ c \in Generators /\ MoreRetries(c)
               /\ phase' = [phase EXCEPT ![c] = "token"]
               /\ stage' = [stage EXCEPT ![c] = "again"]
               /\ retries' = [retries EXCEPT ![c] = @ + 1]
               /\ UNCHANGED outcome
            \/ /\ answer = "401" => c \in Generators /\ stage[c] # "first"
               /\ phase' = [phase EXCEPT ![c] = "idle"]
               /\ \E o \in Outcomes : outcome' = [outcome EXCEPT ![c] = o]
               /\ UNCHANGED <<stage, retries>>
<1>1. CASE answer = "401"
  BY <1>1 DEF Handle, OnUnauthorized, Return, Outcomes
<1>2. CASE answer = "transient"
  BY <1>2 DEF Handle, OnTransient, Return, Outcomes
<1>3. CASE answer \in {"SUCCESS", "REJECTED", "CONFLICT"}
  BY <1>3 DEF Handle, Return, Outcomes
<1>4. QED BY <1>1, <1>2, <1>3 DEF AllAnswers

\* The part of TypeOK and RetryInv that an answer can disturb.
LEMMA HandleType ==
  ASSUME TypeOK, RetryInv, NEW c \in Callers, Working(c),
         NEW answer \in AllAnswers, Handle(c, answer)
  PROVE  /\ phase' \in [Callers -> {"idle", "token", "fetching", "posting", "dropping"}]
         /\ stage' \in [Callers -> {"first", "again"}]
         /\ retries' \in [Callers -> 0..MaxTransientRetries - 1]
         /\ refusals' \in [Callers -> 0..2]
         /\ outcome' \in [Callers -> Outcomes]
         /\ UNCHANGED <<built, calls>>
         /\ RetryInv'
<1> USE DEF Outcomes
<1>1. refusals[c] \in 0..1 /\ (stage[c] = "first" => refusals[c] = 0)
  BY DEF TypeOK, RetryInv
<1>2. /\ refusals' \in [Callers -> 0..2]
      /\ phase' \in [Callers -> {"idle", "token", "fetching", "posting", "dropping"}]
      /\ stage' \in [Callers -> {"first", "again"}]
      /\ outcome' \in [Callers -> Outcomes]
      /\ UNCHANGED <<built, calls>>
  <2>1. refusals' \in [Callers -> 0..2]
    <3>1. \/ refusals' = [refusals EXCEPT ![c] = @ + 1]
          \/ refusals' = [refusals EXCEPT ![c] = @]
      BY HandleCases
    <3>2. refusals[c] + 1 \in 0..2 /\ refusals[c] \in 0..2 /\ refusals \in [Callers -> 0..2]
      BY <1>1 DEF TypeOK
    <3>3. QED BY <3>1, <3>2
  <2>2. phase' \in [Callers -> {"idle", "token", "fetching", "posting", "dropping"}]
    BY HandleCases DEF TypeOK
  <2>3. stage' \in [Callers -> {"first", "again"}]
    BY HandleCases DEF TypeOK
  <2>4. outcome' \in [Callers -> Outcomes]
    BY HandleCases DEF TypeOK
  <2>5. UNCHANGED <<built, calls>>
    BY HandleCases
  <2>6. QED BY <2>1, <2>2, <2>3, <2>4, <2>5
<1>3. retries' \in [Callers -> 0..MaxTransientRetries - 1]
  BY HandleCases, SessionAssumption DEF TypeOK, MoreRetries
<1>4. RetryInv'
  <2> SUFFICES ASSUME NEW d \in Callers
               PROVE  /\ d \in Queriers => stage'[d] = "first"
                      /\ phase'[d] \in {"token", "fetching", "posting"} =>
                           refusals'[d] =< (IF stage'[d] = "first" THEN 0 ELSE 1)
                      /\ phase'[d] = "dropping" => refusals'[d] =< 1
    BY DEF RetryInv, Working
  <2>1. CASE d # c
    BY <2>1, HandleCases DEF TypeOK, RetryInv, Working
  <2>2. CASE d = c
    BY <1>1, <2>2, HandleCases, SessionAssumption DEF TypeOK, RetryInv, Working
  <2>3. QED BY <2>1, <2>2
<1>5. QED BY <1>2, <1>3, <1>4

----------------------------------------------------------------------------
(* Types and the retry policy *)

LEMMA InitIInv == Init => IInv
<1> SUFFICES ASSUME Init PROVE IInv
  OBVIOUS
<1>1. TypeOK
  <2>1. /\ 0 \in 0..MaxTransientRetries - 1 /\ 0 \in 0..MaxCalls
        /\ 0 \in 0..issued /\ {} \in SUBSET (1..issued) /\ 1 \in Nat
    BY SessionAssumption DEF Init
  <2>2. /\ retries \in [Callers -> 0..MaxTransientRetries - 1]
        /\ calls \in [Callers -> 0..MaxCalls]
        /\ token \in [Callers -> 0..issued]
        /\ refused \in [Callers -> SUBSET (1..issued)]
        /\ qr \in [Callers -> BOOLEAN]
    BY <2>1, Zenon DEF Init
  <2>3. /\ issued \in Nat /\ cached \in 0..issued
        /\ aged \subseteq 1..issued /\ dead \subseteq 1..issued
        /\ fetches \in Nat /\ causes \in Nat
    BY SMT DEF Init
  <2>4. built \in BOOLEAN /\ locked \in BOOLEAN
    BY Zenon DEF Init
  <2>5. /\ phase \in [Callers -> {"idle", "token", "fetching", "posting", "dropping"}]
        /\ stage \in [Callers -> {"first", "again"}]
        /\ refusals \in [Callers -> 0..2]
        /\ outcome \in [Callers -> Outcomes]
    BY DEF Init, Outcomes
  <2>6. QED BY <2>2, <2>3, <2>5, <2>4 DEF TypeOK, Outcomes
<1>2. MutexInv /\ RetryInv /\ RefusedInv
  BY DEF Init, MutexInv, RetryInv, RefusedInv, Working
<1>3. CauseInv
  <2>1. Dropping = {}
    BY DEF Init, Dropping
  <2>2. Cardinality(Dropping) = 0
    BY <2>1, FS_EmptySet
  <2>3. QED BY <2>2 DEF Init, CauseInv, Usable
<1>4. QED BY <1>1, <1>2, <1>3 DEF IInv

LEMMA StepType == TypeOK /\ RetryInv /\ [Next]_vars => TypeOK' /\ RetryInv'
<1> SUFFICES ASSUME TypeOK, RetryInv, [Next]_vars PROVE TypeOK' /\ RetryInv'
  OBVIOUS
<1> USE DEF manager, manjo, call, history
<1>1. ASSUME NEW c \in Callers, Begin(c) PROVE TypeOK' /\ RetryInv'
  <2>1. calls[c] + 1 \in 0..MaxCalls /\ 0 \in 0..MaxTransientRetries - 1
        /\ 0 \in 0..issued
    BY <1>1, SessionAssumption DEF Begin, TypeOK
  <2>2. /\ calls' \in [Callers -> 0..MaxCalls]
        /\ retries' \in [Callers -> 0..MaxTransientRetries - 1]
        /\ token' \in [Callers -> 0..issued]
        /\ refused' \in [Callers -> SUBSET (1..issued)]
        /\ refusals' \in [Callers -> 0..2]
    BY <1>1, <2>1 DEF Begin, TypeOK
  <2>3. qr' \in [Callers -> BOOLEAN]
    BY <1>1, Zenon DEF Begin, TypeOK
  <2>4. /\ stage' \in [Callers -> {"first", "again"}]
        /\ phase' \in [Callers -> {"idle", "token", "fetching", "posting", "dropping"}]
        /\ outcome' \in [Callers -> Outcomes]
    BY <1>1 DEF Begin, TypeOK, Outcomes
  <2>5. TypeOK'
    BY <1>1, <2>2, <2>3, <2>4 DEF Begin, TypeOK, Outcomes
  <2>6. RetryInv'
    BY <1>1 DEF Begin, TypeOK, RetryInv, Working
  <2>7. QED BY <2>5, <2>6
<1>2. ASSUME NEW c \in Callers, GetCached(c) PROVE TypeOK' /\ RetryInv'
  BY <1>2 DEF GetCached, TypeOK, RetryInv, Working
<1>3. ASSUME NEW c \in Callers, StartFetch(c) PROVE TypeOK' /\ RetryInv'
  BY <1>3 DEF StartFetch, TypeOK, RetryInv, Working
<1>4. ASSUME NEW c \in Callers, FetchSucceeds(c) PROVE TypeOK' /\ RetryInv'
  <2>1. issued + 1 \in Nat /\ 0..issued \subseteq 0..(issued + 1)
        /\ 1..issued \subseteq 1..(issued + 1) /\ issued + 1 \in 1..(issued + 1)
    BY DEF TypeOK
  <2>2. token' \in [Callers -> 0..issued']
    BY <1>4, <2>1 DEF FetchSucceeds, TypeOK
  <2>3. SUBSET (1..issued) \subseteq SUBSET (1..issued')
    BY <1>4, <2>1 DEF FetchSucceeds
  <2>4. refused' \in [Callers -> SUBSET (1..issued')]
    BY <1>4, <2>3 DEF FetchSucceeds, TypeOK
  <2>5. issued' = issued + 1 /\ cached' = issued + 1 /\ dead' = dead
    BY <1>4 DEF FetchSucceeds
  <2>6. aged' \subseteq aged \cup {issued + 1} /\ causes' \in Nat
    BY <1>4 DEF FetchSucceeds, TypeOK
  <2>7. /\ aged' \subseteq 1..issued' /\ dead' \subseteq 1..issued'
        /\ issued' \in Nat /\ cached' \in 0..issued' /\ causes' \in Nat
    BY <2>1, <2>5, <2>6 DEF TypeOK
  <2>8. TypeOK'
    BY <1>4, <2>7, <2>2, <2>4 DEF FetchSucceeds, TypeOK
  <2>9. RetryInv'
    BY <1>4 DEF FetchSucceeds, TypeOK, RetryInv, Working
  <2>10. QED BY <2>8, <2>9
<1>5. ASSUME NEW c \in Callers, FetchFails(c) PROVE TypeOK' /\ RetryInv'
  <2>1. PICK answer \in {"401", "REJECTED", "transient"} :
          Handle(c, answer) /\ causes' = causes + IF answer = "401" THEN 2 ELSE 1
    BY <1>5 DEF FetchFails
  <2>2. answer \in AllAnswers /\ Working(c)
    BY <1>5 DEF FetchFails, AllAnswers, Working
  <2>3. causes' \in Nat
    BY <2>1 DEF TypeOK
  <2>4. QED BY <1>5, <2>1, <2>2, <2>3, HandleType DEF FetchFails, Unlock, TypeOK, Outcomes
<1>6. ASSUME NEW c \in Callers, Post(c) PROVE TypeOK' /\ RetryInv'
  <2>1. PICK answer \in Answers(c) :
          /\ Handle(c, answer)
          /\ refused' = IF answer = "401"
                          THEN [refused EXCEPT ![c] = @ \cup {token[c]}] ELSE refused
          /\ causes' = IF answer = "401" THEN causes + 1 ELSE causes
          /\ qr' = qr \/ qr' = [qr EXCEPT ![c] = TRUE]
    BY <1>6 DEF Post
  <2>2. answer \in AllAnswers /\ Working(c)
    BY <1>6, AnswersType DEF Post, Working
  <2>3. causes' \in Nat
    BY <2>1 DEF TypeOK
  <2>4. qr' \in [Callers -> BOOLEAN]
    BY <2>1, Zenon DEF TypeOK
  <2>5. causes' \in Nat /\ qr' \in [Callers -> BOOLEAN]
    BY <2>3, <2>4
  <2>6. answer = "401" => token[c] \in 1..issued
    BY <2>2 DEF Answers, TypeOK
  <2>7. refused' \in [Callers -> SUBSET (1..issued)]
    BY <2>1, <2>6 DEF TypeOK
  <2>8. QED BY <1>6, <2>1, <2>2, <2>5, <2>7, HandleType DEF Post, TypeOK, Outcomes
<1>7. ASSUME NEW c \in Callers, Drop(c) PROVE TypeOK' /\ RetryInv'
  <2>1. TypeOK'
    BY <1>7 DEF Drop, Invalidate, TypeOK
  <2>2. RetryInv'
    BY <1>7, SessionAssumption DEF Drop, TypeOK, RetryInv, Working
  <2>3. QED BY <2>1, <2>2
<1>8. CASE Age \/ Revoke \/ UNCHANGED vars
  <2>1. CASE Age
    BY <2>1 DEF Age, Usable, TypeOK, RetryInv, Working
  <2>2. CASE Revoke
    BY <2>2 DEF Revoke, TypeOK, RetryInv, Working
  <2>3. CASE UNCHANGED vars
    BY <2>3 DEF vars, TypeOK, RetryInv, Working
  <2>4. QED BY <1>8, <2>1, <2>2, <2>3
<1>9. QED BY <1>1, <1>2, <1>3, <1>4, <1>5, <1>6, <1>7, <1>8 DEF Next, Step, Get

----------------------------------------------------------------------------
(* The mutex and the refused tokens *)

LEMMA StepMutex == TypeOK /\ MutexInv /\ [Next]_vars => MutexInv'
<1> SUFFICES ASSUME TypeOK, MutexInv, [Next]_vars PROVE MutexInv'
  OBVIOUS
<1> USE DEF manager, manjo, call, history, MutexInv, Usable
<1>1. ASSUME NEW c \in Callers, Begin(c) PROVE MutexInv'
  BY <1>1 DEF Begin, TypeOK
<1>2. ASSUME NEW c \in Callers, Get(c) PROVE MutexInv'
  BY <1>2 DEF Get, GetCached, StartFetch, CanEnter, TypeOK
<1>3. ASSUME NEW c \in Callers, FetchSucceeds(c) PROVE MutexInv'
  BY <1>3 DEF FetchSucceeds, TypeOK
<1>4. ASSUME NEW c \in Callers, FetchFails(c) PROVE MutexInv'
  <2>1. PICK answer \in AllAnswers : Handle(c, answer)
    BY <1>4 DEF FetchFails, AllAnswers
  <2>2. /\ phase'[c] # "fetching"
        /\ \A d \in Callers \ {c} : phase'[d] = phase[d]
    BY <2>1, HandleCases DEF TypeOK
  <2>3. QED BY <1>4, <2>2 DEF FetchFails, Unlock
<1>5. ASSUME NEW c \in Callers, Post(c) PROVE MutexInv'
  <2>1. PICK answer \in AllAnswers : Handle(c, answer)
    BY <1>5, AnswersType DEF Post
  <2>2. /\ phase'[c] # "fetching"
        /\ \A d \in Callers \ {c} : phase'[d] = phase[d]
    BY <2>1, HandleCases DEF TypeOK
  <2>3. QED BY <1>5, <2>2 DEF Post
<1>6. ASSUME NEW c \in Callers, Drop(c) PROVE MutexInv'
  BY <1>6 DEF Drop, CanEnter, TypeOK
<1>7. CASE Age \/ Revoke \/ UNCHANGED vars
  BY <1>7 DEF Age, Revoke, vars
<1>8. QED BY <1>1, <1>2, <1>3, <1>4, <1>5, <1>6, <1>7 DEF Next, Step

LEMMA StepRefused == TypeOK /\ RefusedInv /\ [Next]_vars => RefusedInv'
<1> SUFFICES ASSUME TypeOK, RefusedInv, [Next]_vars PROVE RefusedInv'
  OBVIOUS
<1> USE DEF manager, manjo, call, history, Working
<1>0. \A d \in Callers : refused[d] \subseteq 1..issued
  BY DEF TypeOK
<1>1. ASSUME NEW c \in Callers, Begin(c) PROVE RefusedInv'
  BY <1>1 DEF Begin, TypeOK, RefusedInv
<1>2. ASSUME NEW c \in Callers, GetCached(c) PROVE RefusedInv'
  BY <1>2 DEF GetCached, Usable, TypeOK, RefusedInv
<1>3. ASSUME NEW c \in Callers, StartFetch(c) PROVE RefusedInv'
  BY <1>3 DEF StartFetch, TypeOK, RefusedInv
<1>4. ASSUME NEW c \in Callers, FetchSucceeds(c) PROVE RefusedInv'
  BY <1>0, <1>4 DEF FetchSucceeds, TypeOK, RefusedInv
<1>5. ASSUME NEW c \in Callers, FetchFails(c) PROVE RefusedInv'
  <2>1. PICK answer \in AllAnswers : Handle(c, answer)
    BY <1>5 DEF FetchFails, AllAnswers
  <2>2. /\ phase'[c] \notin {"fetching", "posting"}
        /\ \A d \in Callers \ {c} : phase'[d] = phase[d]
    BY <2>1, HandleCases DEF TypeOK
  <2>3. QED BY <1>5, <2>2 DEF FetchFails, RefusedInv
<1>6. ASSUME NEW c \in Callers, Post(c) PROVE RefusedInv'
  <2>1. PICK answer \in Answers(c) :
          /\ Handle(c, answer)
          /\ refused' = IF answer = "401"
                          THEN [refused EXCEPT ![c] = @ \cup {token[c]}] ELSE refused
    BY <1>6 DEF Post
  <2>2. /\ phase'[c] \notin {"fetching", "posting"}
        /\ answer = "401" => phase'[c] # "token"
        /\ \A d \in Callers \ {c} : phase'[d] = phase[d]
    BY <2>1, HandleCases, AnswersType DEF TypeOK
  <2>3. QED BY <1>6, <2>1, <2>2 DEF Post, TypeOK, RefusedInv
<1>7. ASSUME NEW c \in Callers, Drop(c) PROVE RefusedInv'
  BY <1>7 DEF Drop, Invalidate, TypeOK, RefusedInv
<1>8. CASE Age \/ Revoke \/ UNCHANGED vars
  BY <1>8 DEF Age, Revoke, vars, RefusedInv
<1>9. QED BY <1>1, <1>2, <1>3, <1>4, <1>5, <1>6, <1>7, <1>8 DEF Next, Step, Get

----------------------------------------------------------------------------
(* Fetches and their causes *)

LEMMA DroppingFinite == IsFiniteSet(Dropping) /\ Cardinality(Dropping) \in Nat
<1>1. IsFiniteSet(Callers)
  BY SessionAssumption, FS_Union DEF Callers
<1>2. Dropping \in SUBSET Callers
  BY DEF Dropping
<1>3. IsFiniteSet(Dropping)
  BY <1>1, <1>2, FS_Subset
<1>4. QED BY <1>3, FS_CardinalityType

\* One caller's step changes the number of callers about to drop the token by
\* what it does to that caller.
LEMMA DroppingCount ==
  ASSUME NEW c \in Callers, \A d \in Callers \ {c} : phase'[d] = phase[d]
  PROVE  Cardinality(Dropping)' = Cardinality(Dropping)
           + (IF phase'[c] = "dropping" THEN 1 ELSE 0)
           - (IF phase[c] = "dropping" THEN 1 ELSE 0)
<1>0. IsFiniteSet(Dropping) /\ Cardinality(Dropping) \in Nat
  BY DroppingFinite
<1>1. CASE phase'[c] = "dropping" /\ phase[c] # "dropping"
  <2>1. Dropping' = Dropping \cup {c} /\ c \notin Dropping
    BY <1>1 DEF Dropping
  <2>2. Cardinality(Dropping \cup {c}) = Cardinality(Dropping) + 1
    BY <1>0, <2>1, FS_AddElement
  <2>3. QED BY <1>0, <1>1, <2>1, <2>2
<1>2. CASE phase'[c] # "dropping" /\ phase[c] = "dropping"
  <2>1. Dropping' = Dropping \ {c} /\ c \in Dropping
    BY <1>2 DEF Dropping
  <2>2. Cardinality(Dropping \ {c}) = Cardinality(Dropping) - 1
    BY <1>0, <2>1, FS_RemoveElement
  <2>3. QED BY <1>0, <1>2, <2>1, <2>2
<1>3. CASE phase'[c] = "dropping" <=> phase[c] = "dropping"
  <2>1. Dropping' = Dropping
    BY <1>3 DEF Dropping
  <2>2. QED BY <1>0, <1>3, <2>1
<1>4. QED BY <1>1, <1>2, <1>3

LEMMA Slack ==
  ASSUME NEW f \in Nat, NEW n \in Nat, NEW c \in Nat, NEW x \in 0..1, NEW y \in 0..1,
         f + n + x =< c
  PROVE  f + (n - 1) + y =< c /\ f + n + y =< c + 1
  OBVIOUS

LEMMA StepCause == TypeOK /\ MutexInv /\ CauseInv /\ [Next]_vars => CauseInv'
<1> SUFFICES ASSUME TypeOK, MutexInv, CauseInv, [Next]_vars PROVE CauseInv'
  OBVIOUS
<1> USE DEF manager, manjo, call, history
<1> DEFINE n == Cardinality(Dropping)
           d(c) == IF phase[c] = "dropping" THEN 1 ELSE 0
           due == IF ~locked /\ ~Usable THEN 1 ELSE 0
<1>0. /\ n \in Nat /\ fetches \in Nat /\ causes \in Nat /\ issued \in Nat
      /\ due \in 0..1 /\ due' \in 0..1
      /\ fetches + n + due =< causes
  BY DroppingFinite DEF TypeOK, CauseInv
<1>a. (fetches' + n' + due' =< causes') => CauseInv'
  BY DEF CauseInv
<1> HIDE DEF n, due
<1>b. ASSUME NEW c \in Callers, \A e \in Callers \ {c} : phase'[e] = phase[e]
      PROVE  n' = n + d(c)' - d(c)
  BY <1>b, DroppingCount DEF n
<1>1. ASSUME NEW c \in Callers, Begin(c) PROVE CauseInv'
  <2>1. /\ phase'[c] # "dropping" /\ phase[c] # "dropping"
        /\ \A e \in Callers \ {c} : phase'[e] = phase[e]
    BY <1>1 DEF Begin, TypeOK
  <2>2. n' = n
    BY <1>0, <1>b, <2>1
  <2>3. due' = due /\ fetches' = fetches /\ causes' = causes
    BY <1>1 DEF Begin, due, Usable
  <2>4. QED BY <1>0, <1>a, <2>2, <2>3
<1>2. ASSUME NEW c \in Callers, GetCached(c) PROVE CauseInv'
  <2>1. /\ phase'[c] # "dropping" /\ phase[c] # "dropping"
        /\ \A e \in Callers \ {c} : phase'[e] = phase[e]
    BY <1>2 DEF GetCached, TypeOK
  <2>2. n' = n
    BY <1>0, <1>b, <2>1
  <2>3. due' = due /\ fetches' = fetches /\ causes' = causes
    BY <1>2 DEF GetCached, due, Usable
  <2>4. QED BY <1>0, <1>a, <2>2, <2>3
<1>3. ASSUME NEW c \in Callers, StartFetch(c) PROVE CauseInv'
  <2>1. /\ phase'[c] # "dropping" /\ phase[c] # "dropping"
        /\ \A e \in Callers \ {c} : phase'[e] = phase[e]
    BY <1>3 DEF StartFetch, TypeOK
  <2>2. n' = n
    BY <1>0, <1>b, <2>1
  <2>3. due = 1 /\ due' = 0 /\ fetches' = fetches + 1 /\ causes' = causes
    BY <1>3 DEF StartFetch, CanEnter, due
  <2>4. QED BY <1>0, <1>a, <2>2, <2>3
<1>4. ASSUME NEW c \in Callers, FetchSucceeds(c) PROVE CauseInv'
  <2>1. /\ phase'[c] # "dropping" /\ phase[c] # "dropping"
        /\ \A e \in Callers \ {c} : phase'[e] = phase[e]
    BY <1>4 DEF FetchSucceeds, TypeOK
  <2>2. n' = n
    BY <1>0, <1>b, <2>1
  <2>3. due = 0 /\ fetches' = fetches
    BY <1>4 DEF FetchSucceeds, due, MutexInv
  <2>4. CASE UNCHANGED <<aged, causes>>
    <3>1. issued + 1 \notin aged
      BY DEF TypeOK
    <3>2. due' = 0
      BY <1>0, <1>4, <2>4, <3>1 DEF FetchSucceeds, due, Usable
    <3>3. QED BY <1>0, <1>a, <2>2, <2>3, <2>4, <3>2
  <2>5. CASE causes' = causes + 1
    <3>1. fetches + n + due' =< causes + 1
      BY <1>0, Slack
    <3>2. QED BY <1>a, <2>2, <2>3, <2>5, <3>1
  <2>6. QED BY <1>4, <2>4, <2>5 DEF FetchSucceeds
<1>5. ASSUME NEW c \in Callers, FetchFails(c) PROVE CauseInv'
  <2>1. PICK answer \in {"401", "REJECTED", "transient"} :
          Handle(c, answer) /\ causes' = causes + IF answer = "401" THEN 2 ELSE 1
    BY <1>5 DEF FetchFails
  <2>2. /\ phase[c] # "dropping" /\ (phase'[c] = "dropping" => answer = "401")
        /\ \A e \in Callers \ {c} : phase'[e] = phase[e]
    BY <1>5, <2>1, HandleCases DEF FetchFails, AllAnswers, TypeOK
  <2>3. n' = n \/ (n' = n + 1 /\ answer = "401")
    BY <1>0, <1>b, <2>2
  <2>4. due = 0 /\ fetches' = fetches
    BY <1>5 DEF FetchFails, due, MutexInv
  <2>5. QED BY <1>0, <1>a, <2>1, <2>3, <2>4
<1>6. ASSUME NEW c \in Callers, Post(c) PROVE CauseInv'
  <2>1. PICK answer \in AllAnswers :
          Handle(c, answer) /\ causes' = IF answer = "401" THEN causes + 1 ELSE causes
    BY <1>6, AnswersType DEF Post
  <2>2. /\ phase[c] # "dropping" /\ (phase'[c] = "dropping" => answer = "401")
        /\ \A e \in Callers \ {c} : phase'[e] = phase[e]
    BY <1>6, <2>1, HandleCases DEF Post, TypeOK
  <2>3. n' = n \/ (n' = n + 1 /\ answer = "401")
    BY <1>0, <1>b, <2>2
  <2>4. due' = due /\ fetches' = fetches
    BY <1>6 DEF Post, due, Usable
  <2>5. QED BY <1>0, <1>a, <2>1, <2>3, <2>4
<1>7. ASSUME NEW c \in Callers, Drop(c) PROVE CauseInv'
  <2>1. /\ phase[c] = "dropping" /\ phase'[c] # "dropping"
        /\ \A e \in Callers \ {c} : phase'[e] = phase[e]
    BY <1>7 DEF Drop, TypeOK
  <2>2. n' = n - 1
    BY <1>0, <1>b, <2>1
  <2>3. fetches' = fetches /\ causes' = causes
    BY <1>7 DEF Drop
  <2>4. fetches + (n - 1) + due' =< causes
    BY <1>0, Slack
  <2>5. QED BY <1>a, <2>2, <2>3, <2>4
<1>8. CASE Age
  <2>1. n' = n
    BY <1>8 DEF Age, n, Dropping
  <2>2. due = 0 /\ fetches' = fetches /\ causes' = causes + 1
    BY <1>8 DEF Age, due
  <2>3. fetches + n + due' =< causes + 1
    BY <1>0, Slack
  <2>4. QED BY <1>a, <2>1, <2>2, <2>3
<1>9. CASE Revoke \/ UNCHANGED vars
  <2>1. n' = n /\ due' = due /\ fetches' = fetches /\ causes' = causes
    BY <1>9 DEF Revoke, vars, n, Dropping, due, Usable
  <2>2. QED BY <1>0, <1>a, <2>1
<1>10. QED BY <1>1, <1>2, <1>3, <1>4, <1>5, <1>6, <1>7, <1>8, <1>9 DEF Next, Step, Get

----------------------------------------------------------------------------
(* Theorems *)

LEMMA StepIInv == IInv /\ [Next]_vars => IInv'
  BY StepType, StepMutex, StepRefused, StepCause DEF IInv

\* The inductive invariant: the mutex, the refused tokens and the causes of the
\* fetches, for any number of callers.
THEOREM IInvIsInvariant == Spec => []IInv
<1>1. QED BY InitIInv, StepIInv, PTL DEF Spec

\* The variables keep their types: in particular no call sees more than two
\* 401 answers, however the mutex lets the callers in.
THEOREM TypeCorrect == Spec => []TypeOK
<1>1. IInv => TypeOK
  BY DEF IInv
<1>2. QED BY <1>1, IInvIsInvariant, PTL

\* Of all the callers that find the cache empty or stale, one fetches at a
\* time, and none while a usable token is cached.
THEOREM FetchesAreAlone == Spec => []MutexInv
<1>1. IInv => MutexInv
  BY DEF IInv
<1>2. QED BY <1>1, IInvIsInvariant, PTL

\* Concurrent callers share fetches: there are never more than the empty
\* cache, ageing tokens, 401 answers and failed fetches account for.
THEOREM FetchesHaveCauses == Spec => []EveryFetchHasACause
<1>1. IInv => EveryFetchHasACause
  <2> SUFFICES ASSUME IInv PROVE fetches =< causes
    BY DEF EveryFetchHasACause
  <2>1. Cardinality(Dropping) \in Nat /\ fetches \in Nat /\ causes \in Nat
    BY DroppingFinite DEF IInv, TypeOK
  <2>2. fetches + Cardinality(Dropping) + (IF ~locked /\ ~Usable THEN 1 ELSE 0) =< causes
    BY DEF IInv, CauseInv
  <2>3. (IF ~locked /\ ~Usable THEN 1 ELSE 0) \in 0..1
    OBVIOUS
  <2>4. QED BY <2>1, <2>2, <2>3
<1>2. QED BY <1>1, IInvIsInvariant, PTL

\* After a 401 a call never signs another request with a token Manjo refused
\* in it, whatever the other callers put in or clear from the shared cache.
THEOREM RefusedTokensStayAway == Spec => []NeverRefusedTwice
<1>1. IInv => NeverRefusedTwice
  <2> SUFFICES ASSUME IInv, NEW c \in Callers, phase[c] = "posting"
               PROVE  token[c] \notin refused[c]
    BY DEF NeverRefusedTwice
  <2>1. token[c] \in Nat
    BY DEF IInv, TypeOK
  <2>2. \A k \in refused[c] : k < token[c]
    BY DEF IInv, RefusedInv, Working
  <2>3. QED BY <2>1, <2>2
<1>2. QED BY <1>1, IInvIsInvariant, PTL
=============================================================================
