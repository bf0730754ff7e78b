---------------------------- MODULE ManjoSession ----------------------------
(***************************************************************************)
(* One merchant's Manjo client inside one service process: the registry    *)
(* entry, the access-token cache shared by the GENERATE_QR handler and the *)
(* poller's workers, and the retry policy around each request.             *)
(*                                                                         *)
(* A caller c runs one call at a time.  The cache's mutex is only held     *)
(* across steps while a token is fetched; its other critical sections are  *)
(* single steps.  Tokens are numbered as Manjo issues them, 0 is "none".   *)
(***************************************************************************)
EXTENDS Integers, FiniteSets

CONSTANTS
  Generators,           \* callers of GenerateQR (the MQTT handler)
  Queriers,             \* callers of QueryPayment (the poller's workers)
  MaxTransientRetries,  \* attempts of a request that fails transiently (3)
  MaxCalls              \* bound: calls each caller makes

\* A caller is the handler of one GENERATE_QR or a worker of the poller.
ASSUME SessionAssumption ==
  /\ IsFiniteSet(Generators) /\ IsFiniteSet(Queriers)
  /\ Generators \cap Queriers = {}
  /\ MaxTransientRetries \in Nat \ {0}
  /\ MaxCalls \in Nat

VARIABLES
  built,     \* the registry holds the merchant's client
  locked,    \* TokenManager.mu is held by a fetch
  cached,    \* TokenManager.token
  aged,      \* tokens within tokenRefreshThreshold of their expiry
  dead,      \* tokens Manjo refuses (expired or revoked)
  issued,    \* tokens Manjo has issued
  phase,     \* what each caller is doing
  stage,     \* its place in the retry policy
  token,     \* the token it sends
  retries,   \* transient retries in this call
  refused,   \* tokens Manjo refused in this call
  refusals,  \* 401 answers in this call, the token endpoint's included
  qr,        \* Manjo holds the QR code of this call's transaction
  outcome,   \* how the last call ended
  calls,     \* calls begun
  fetches,   \* history: fetches begun
  causes     \* history: events that make one fetch necessary

manager == <<locked, cached>>
manjo   == <<aged, dead, issued>>
call    == <<stage, retries, refused, refusals, outcome, calls>>
history == <<fetches, causes>>
vars == <<built, manager, manjo, phase, token, call, qr, history>>

Callers == Generators \cup Queriers

TypeOK ==
  /\ built \in BOOLEAN /\ locked \in BOOLEAN
  /\ issued \in Nat /\ cached \in 0..issued
  /\ aged \subseteq 1..issued /\ dead \subseteq 1..issued
  /\ phase \in [Callers -> {"idle", "token", "fetching", "posting", "dropping"}]
  /\ stage \in [Callers -> {"first", "again"}]
  /\ token \in [Callers -> 0..issued]
  /\ retries \in [Callers -> 0..MaxTransientRetries - 1]
  /\ refused \in [Callers -> SUBSET (1..issued)]
  /\ refusals \in [Callers -> 0..2]
  /\ qr \in [Callers -> BOOLEAN]
  /\ outcome \in [Callers -> {"none", "SUCCESS", "UNAUTHORIZED", "CONFLICT",
                              "REJECTED", "MANJO_TIMEOUT", "CONFIG_ERROR"}]
  /\ calls \in [Callers -> 0..MaxCalls]
  /\ fetches \in Nat /\ causes \in Nat

Init ==
  /\ built = FALSE /\ locked = FALSE
  /\ cached = 0 /\ aged = {} /\ dead = {} /\ issued = 0
  /\ phase    = [c \in Callers |-> "idle"]
  /\ stage    = [c \in Callers |-> "first"]
  /\ token    = [c \in Callers |-> 0]
  /\ retries  = [c \in Callers |-> 0]
  /\ refused  = [c \in Callers |-> {}]
  /\ refusals = [c \in Callers |-> 0]
  /\ qr       = [c \in Callers |-> FALSE]
  /\ outcome  = [c \in Callers |-> "none"]
  /\ calls    = [c \in Callers |-> 0]
  /\ fetches = 0 /\ causes = 1

----------------------------------------------------------------------------
(* Registry *)

\* A call begins with GetOrCreate.  buildConfig can fail (a secret that does
\* not resolve, a key that does not parse), and is tried again by the next.
Begin(c) ==
  /\ phase[c] = "idle"
  /\ calls[c] < MaxCalls
  /\ calls' = [calls EXCEPT ![c] = @ + 1]
  /\ stage' = [stage EXCEPT ![c] = "first"]
  /\ retries' = [retries EXCEPT ![c] = 0]
  /\ refused' = [refused EXCEPT ![c] = {}]
  /\ refusals' = [refusals EXCEPT ![c] = 0]
  /\ token' = [token EXCEPT ![c] = 0]
  /\ qr' = [qr EXCEPT ![c] = FALSE]
  /\ \/ /\ built' = TRUE
        /\ phase' = [phase EXCEPT ![c] = "token"]
        /\ outcome' = [outcome EXCEPT ![c] = "none"]
     \/ /\ ~built
        /\ outcome' = [outcome EXCEPT ![c] = "CONFIG_ERROR"]
        /\ UNCHANGED <<built, phase>>
  /\ UNCHANGED <<manager, manjo, history>>

----------------------------------------------------------------------------
(* Retry policy: callGenerateQRWithRetry, and the poller's single attempt *)

MoreRetries(c) == retries[c] + 1 < MaxTransientRetries

Return(c, result) ==
  /\ phase' = [phase EXCEPT ![c] = "idle"]
  /\ outcome' = [outcome EXCEPT ![c] = result]
  /\ UNCHANGED <<stage, retries>>

\* Only a query, or the first attempt of a generate, drops the token that
\* was refused; a later 401 ends the call.
OnUnauthorized(c) ==
  \/ /\ c \in Queriers \/ stage[c] = "first"
     /\ phase' = [phase EXCEPT ![c] = "dropping"]
     /\ UNCHANGED <<stage, retries, outcome>>
  \/ /\ c \in Generators /\ stage[c] # "first"
     /\ Return(c, "UNAUTHORIZED")

OnTransient(c) ==
  IF c \in Generators /\ MoreRetries(c)
    THEN /\ phase' = [phase EXCEPT ![c] = "token"]
         /\ stage' = [stage EXCEPT ![c] = "again"]
         /\ retries' = [retries EXCEPT ![c] = @ + 1]
         /\ UNCHANGED outcome
    ELSE Return(c, "MANJO_TIMEOUT")

\* What an answer (of the API or, first, of the token endpoint) leads to.
Handle(c, answer) ==
  /\ CASE answer = "401"       -> OnUnauthorized(c)
       [] answer = "transient" -> OnTransient(c)
       [] OTHER                -> Return(c, answer)
  /\ refusals' = [refusals EXCEPT ![c] = IF answer = "401" THEN @ + 1 ELSE @]
  /\ UNCHANGED <<built, calls>>

----------------------------------------------------------------------------
(* TokenManager *)

Usable == cached # 0 /\ cached \notin aged

\* Mutant of CanEnter: the cache is not protected by the mutex.
CanAlwaysEnter == TRUE

CanEnter == ~locked

\* Get finds a usable token.
GetCached(c) ==
  /\ phase[c] = "token"
  /\ CanEnter
  /\ Usable
  /\ token' = [token EXCEPT ![c] = cached]
  /\ phase' = [phase EXCEPT ![c] = "posting"]
  /\ UNCHANGED <<built, manager, manjo, call, qr, history>>

\* Get fetches one and keeps the mutex meanwhile.
StartFetch(c) ==
  /\ phase[c] = "token"
  /\ CanEnter
  /\ ~Usable
  /\ locked' = TRUE
  /\ phase' = [phase EXCEPT ![c] = "fetching"]
  /\ fetches' = fetches + 1
  /\ UNCHANGED <<built, cached, manjo, token, call, qr, causes>>

\* The token is cached and used, even one whose lifetime is already within
\* the refresh threshold.
FetchSucceeds(c) ==
  /\ phase[c] = "fetching"
  /\ issued' = issued + 1
  /\ cached' = issued + 1
  /\ \/ UNCHANGED <<aged, causes>>
     \/ aged' = aged \cup {issued + 1} /\ causes' = causes + 1
  /\ locked' = FALSE
  /\ token' = [token EXCEPT ![c] = issued + 1]
  /\ phase' = [phase EXCEPT ![c] = "posting"]
  /\ UNCHANGED <<built, dead, call, qr, fetches>>

\* Mutant of Unlock: an early return forgets the mutex.
UnlockForgotten == locked' = locked

Unlock == locked' = FALSE

\* The cache keeps what it had.  The error keeps its HTTP status, so a 401 of
\* the token endpoint is handled like one of the API.
FetchFails(c) ==
  /\ phase[c] = "fetching"
  /\ Unlock
  /\ \E answer \in {"401", "REJECTED", "transient"} :
       /\ Handle(c, answer)
       /\ causes' = causes + IF answer = "401" THEN 2 ELSE 1
  /\ UNCHANGED <<cached, manjo, token, refused, qr, fetches>>

\* Mutant of Invalidate: the refused token stays cached.
InvalidateNothing == cached' = cached

Invalidate == cached' = 0

\* InvalidateToken, which waits for the mutex and clears whatever is cached
\* by then, another caller's newer token included.
Drop(c) ==
  /\ phase[c] = "dropping"
  /\ CanEnter
  /\ Invalidate
  /\ \/ /\ c \in Generators
        /\ phase' = [phase EXCEPT ![c] = "token"]
        /\ stage' = [stage EXCEPT ![c] = "again"]
        /\ UNCHANGED outcome
     \/ /\ c \in Queriers
        /\ phase' = [phase EXCEPT ![c] = "idle"]
        /\ outcome' = [outcome EXCEPT ![c] = "UNAUTHORIZED"]
        /\ UNCHANGED stage
  /\ UNCHANGED <<built, locked, manjo, token, retries, refused, refusals,
                 qr, calls, history>>

----------------------------------------------------------------------------
(* Requests *)

\* Manjo refuses a dead token, and a second QR code for one transaction.  An
\* answer can get lost after Manjo acted on the request.
Answers(c) ==
  {"transient"} \cup
  IF token[c] \in dead THEN {"401"}
  ELSE IF c \in Queriers THEN {"SUCCESS", "REJECTED"}
  ELSE IF qr[c] THEN {"CONFLICT"} ELSE {"SUCCESS", "REJECTED"}

\* postSigned, with the token Get returned.
Post(c) ==
  /\ phase[c] = "posting"
  /\ \E answer \in Answers(c) :
       /\ Handle(c, answer)
       /\ refused' = IF answer = "401"
                       THEN [refused EXCEPT ![c] = @ \cup {token[c]}] ELSE refused
       /\ causes' = IF answer = "401" THEN causes + 1 ELSE causes
       /\ \/ answer # "SUCCESS" /\ UNCHANGED qr
          \/ /\ c \in Generators /\ token[c] \notin dead
             /\ answer \in {"SUCCESS", "transient"}
             /\ qr' = [qr EXCEPT ![c] = TRUE]
          \/ c \in Queriers /\ UNCHANGED qr
  /\ UNCHANGED <<manager, manjo, token, fetches>>

----------------------------------------------------------------------------
(* Manjo *)

\* The cached token comes within a minute of its expiry.
Age ==
  /\ Usable
  /\ aged' = aged \cup {cached}
  /\ causes' = causes + 1
  /\ UNCHANGED <<built, manager, dead, issued, phase, token, call, qr, fetches>>

\* Manjo stops accepting a token: it expired, or was revoked.
Revoke ==
  /\ \E k \in (1..issued) \ dead : dead' = dead \cup {k}
  /\ UNCHANGED <<built, manager, aged, issued, phase, token, call, qr, history>>

----------------------------------------------------------------------------
Get(c) == GetCached(c) \/ StartFetch(c)

Step(c) ==
  \/ Begin(c) \/ Get(c) \/ FetchSucceeds(c) \/ FetchFails(c) \/ Post(c) \/ Drop(c)

Next == (\E c \in Callers : Step(c)) \/ Age \/ Revoke

Spec == Init /\ [][Next]_vars

\* HTTP calls end (15 s timeout) and sync.Mutex lets every waiter in.
Fairness ==
  \A c \in Callers :
    /\ WF_vars(Post(c)) /\ WF_vars(FetchSucceeds(c) \/ FetchFails(c))
    /\ SF_vars(Get(c)) /\ SF_vars(Drop(c))

FairSpec == Spec /\ Fairness

----------------------------------------------------------------------------
(* Properties *)

\* token_manager.go: concurrent callers share one fetch.  Every fetch is
\* justified by an event of its own: the empty cache at the start, a token
\* near its expiry, a 401, or a fetch that failed.
EveryFetchHasACause == fetches =< causes

\* TC-TOKEN-04: after a 401 no request of the same call is signed with a
\* token Manjo has already refused, whoever else uses the cache meanwhile.
NeverRefusedTwice ==
  \A c \in Callers : phase[c] = "posting" => token[c] \notin refused[c]

\* A call that begins ends: no path keeps the mutex, no retry goes on for ever.
CallsReturn == \A c \in Callers : phase[c] # "idle" ~> phase[c] = "idle"

(* The inductive invariant behind them *)

Working(c) == phase[c] \in {"token", "fetching", "posting"}

\* The mutex is held by the one caller that fetches, and nobody fetches over
\* a usable token.
MutexInv ==
  /\ \A c \in Callers : phase[c] = "fetching" => locked
  /\ \A c, d \in Callers : phase[c] = "fetching" /\ phase[d] = "fetching" => c = d
  /\ locked => ~Usable

\* A call gets past one 401 at most: a query ends with it, and a generate is
\* in its second stage after it.
RetryInv ==
  \A c \in Callers :
    /\ c \in Queriers => stage[c] = "first"
    /\ Working(c) => refusals[c] =< (IF stage[c] = "first" THEN 0 ELSE 1)
    /\ phase[c] = "dropping" => refusals[c] =< 1

\* While a call goes on after a 401 the cache is empty or newer than all the
\* tokens the call saw refused: tokens never come back.
RefusedInv ==
  \A c \in Callers :
    Working(c) =>
      \A k \in refused[c] : /\ cached = 0 \/ k < cached
                            /\ phase[c] = "posting" => k < token[c]

Dropping == {c \in Callers : phase[c] = "dropping"}

\* Causes not yet used: one per caller about to drop the token, and one if the
\* next Get would fetch.
CauseInv ==
  fetches + Cardinality(Dropping) + (IF ~locked /\ ~Usable THEN 1 ELSE 0) =< causes

IInv == TypeOK /\ MutexInv /\ RetryInv /\ RefusedInv /\ CauseInv

(* What the documentation says and the code does not do *)

\* service.go:247: 401 -> invalidate cached token, retry once.
UnauthorizedIsRetried ==
  \A c \in Generators : outcome[c] = "UNAUTHORIZED" => refusals[c] >= 2

\* process-flow.md:55: a 409 is verified with a query before the transaction
\* is given up, so a conflict is no failure of a code that exists.
ConflictIsVerified == \A c \in Generators : outcome[c] = "CONFLICT" => ~qr[c]

=============================================================================
