# Payment bridge: verification project

The repository connects a shop's Q161 Pro soundbox to the Manjo QRIS payment API. A merchant types an amount on
the soundbox; the device publishes `SN|amount` over MQTT; the Go service (`cmd/server`) stores a transaction, has
Manjo create a QR code and sends its payload back to the device; a poller asks Manjo about every open code, and
when one is paid the service publishes a list of audio files which the soundbox plays. `cmd/provision` creates the
devices' broker accounts. `docs/eclipse` holds the device's firmware.

Paths below are relative to `src/`.

## 1. Inventory

| Part | State it keeps | Operations | Hard behaviour | What makes it correct |
|---|---|---|---|---|
| Server process, MQTT handler (`cmd/server/main.go`) | none beyond its goroutines | receive a request, validate, generate, reply; SIGTERM, drain, forced exit | one handler at a time per instance; crash between INSERT and reply; shutdown timeout | every accepted request ends in a reply or a failed row |
| Transaction service (`internal/transaction`) | rows of `transactions` | GenerateQR, CheckPayment | stale answers, lost commits, deadline against last query | status agrees with Manjo's record; payable codes are polled |
| Payment poller (`internal/paymentpoller`) | the batch in hand | claim, check by 8 workers, announce | several instances; check longer than the interval; age limit of announcements | one worker announces a payment |
| Announcer (`internal/announcer`, `mqttlog`) | `mqtt_messages` rows | publish with 3 attempts, record | a timed-out publish may have been delivered | bounded announcements, silence is recorded |
| `transactions` table (`queries/transactions.sql`, migrations) | status, `next_query_at`, `expire_at` | claim, transition, mark | SKIP LOCKED, status guard, trigger on final statuses | final is final; claims are fair |
| Manjo client (`internal/manjoclient`) | registry entry, cached token, mutex | token fetch, signed POST, invalidate, retry | concurrent callers of one token; 401, 409, timeouts | no refused token twice, bounded attempts, calls return |
| Provisioning (`cmd/provision`, `internal/provisioning`, `internal/dynsec`) | `devices` row, broker login and role, `mqttcfg.dat` | add, revoke (repeatable) | runs that stop half-way, overlapping runs, commands applied late | success means it works; inactive means locked out |
| Soundbox (`docs/eclipse/src/display.c`, `mqtt.c`) | five unprotected globals, broker session | request, wait, show, announce | two threads, late answers, reconnects, power cycles | the screen tells the truth about its QR |
| Request path (`mqttclient`, `qrtopic`, `validation`, `resolver`, `manjoclient/registry.go`) | paho's connection and queue, one Manjo client per merchant | subscribe once, check, resolve, create, sign, answer | copies of a request, a session that comes back without its subscription, rows that change between two reads, credentials that rotate | a transaction stands for a request, a call is signed for its merchant, silence has a cause |
| Voice (`internal/voice`) and the firmware's words (`AmtToMp3.c`) | the firmware: a global buffer of words | amount to clips, amount to words | number boundaries, a buffer that is not cleared | what is spoken reads back as the amount |
| Device network (`network.c`, `main.c`, `param.c`) | a pool of socket slots, the communication mode | connect, read, write, close; change between SIM and WiFi | two threads share the pool without a lock; the mode decides which modem a socket number is for | who holds a socket, who closes it, and that the device comes back online |
| Firmware upgrade (`tms_tms.c`) | files on the flash, the saved download list, the terminal's token | authenticate, fetch the task list, download in pieces, install, notify | power cuts between any two writes, a republished task list, failed digests | what is called complete has been verified |
| Card payments (`Card.c`, `EmvCommon.c`, `EmvCallBack.c`, `func.c`) | `PosCom`, `gCtrlParam`, the reader | tap, insert, choose, PIN, complete | seven ways through five kernels, each call of which can fail | what "Paid" means, and for which amount |
| Simulator, configuration, health endpoint, deployment | - | - | - | not modelled (section 8) |

Interactions: device and service exchange MQTT messages through the broker (QoS 1, the device with a persistent
session, the service with a clean one); the service instances meet only in the database; handler and workers of
one instance share the token cache; the poller calls the announcer, the announcer the broker. The hazards this
gives rise to are listed line by line in `PROJECT.json`.

## 2. Modules

| Module | Models | State |
|---|---|---|
| `PaymentBridge` | handler, poller, announcer, process life on any number of instances, with the table, Manjo's record, and what the device heard | 16 variables; an action per statement or remote call |
| `PaymentLifecycle` | the abstract promise: a transaction is accepted, offered, settled once with a justified status, and spoken about by one voice | refined by `PaymentBridge` (`ImplementsLifecycle`) |
| `ManjoSession` | one merchant's client in one process: token cache with its mutex, retry policy | refines the single steps `GenerateSucceeds`/`Fails` and `Query` of `PaymentBridge` informally |
| `Provisioning` | `provision add` and `revoke` for one serial number: row, broker accounts, configuration file | one action per database statement and one (`Command`) for the broker commands |
| `PollSchedule` | claim order over an explicit database clock | justifies that `PaymentBridge` may leave the order open and assume that due rows get claimed |
| `Soundbox` | menu thread, MQTT thread, the globals between them, the broker's queue | one action per access of a shared global |
| `RequestIntake` | a request from the soundbox to its answer: broker, subscription, handler checks, resolver, registry of Manjo clients | refines `Receive` of `PaymentBridge` informally: it says which requests get there |
| `Voice` | the clips of an amount, and the reading back of them | pure functions; `numberClips` is a recursive function of the amount |
| `AmountWords` | extends `Voice`: what the device says, service clips or the firmware's English words with their global buffer | the behaviour is a sequence of spoken amounts |
| `DeviceNetwork` | the socket pool under the MQTT thread and the menu thread (upgrade, change of mode) | one action per step between two accesses of the shared pool |
| `FirmwareUpgrade` | `TmsRemoteUpgrade`: the session, the flash, the power cuts | one action per write to or deletion from the flash: a power cut can follow each, and each can fail |
| `CardPayment` | a sale by tapped or inserted card over the calls of five kernels | the sequence of calls of a kernel is data (`PaypassCalls`, ...), the control around it actions |
| `MC*` | values of the constants, symmetry sets | |
| `*_proofs` | theorems and their proofs, a module per component; `Soundbox_proofs` holds those of all that the device says and shows: `Soundbox`, `Voice`, `AmountWords`, `CardPayment` | |

`PROJECT.json` maps every definition to its lines. Definitions called a mutant or a "plausible slip", or defined next to
the operator they resemble (`MapSwapped`, `LastAttemptEarly`, ...), are the faulty variants that show that a
property can fail; nothing else uses them.

### Correspondence worth knowing

* **PaymentBridge.** Each transaction is a row; `req[i][t]` is the place of instance i's handler in GenerateQR and
  the reply, `check[i][t]` the place of the worker that checks t. A remote call and the database statement that
  stores its result are separate steps, so everything can happen between them. Clocks appear as the three tests
  the code makes: `due` (`next_query_at <= now()`), `overdue` (past `expire_at` plus two minutes) and `stale`
  (paid longer ago than an announcement may lag). `DeadlinePasses` fires at any time while the row is polled:
  `expire_at` is Manjo's expiry when it sent one, else ten minutes after the answer (`computeExpireAt`), the code was
  asked to live 3600, and nothing compares the two; the comment at `service.go:312` that the poller "never stops before
  the QR expires" is a hope about UAT. `dated` says whether Manjo's answer has a usable `paidTime`: without one
  `parsePaidTime` takes the time of the answer and the payment never looks old (`TooOld`), which assumes that the
  UPDATE that follows takes less than those ten minutes. A settle may commit and lose its answer (`SettleLostCommit`),
  a publish may be counted as failed and have been delivered. A draining instance may still `Claim` once: `Run`
  selects between the ticker and the cancelled context at random. `ForcedExit` is the 10 s shutdown timeout.
* **ManjoSession.** The mutex is only held across steps while a token is fetched. A 401 of the token endpoint
  invalidates the cache like a 401 of a request: that is what the code does.
* **Provisioning.** A run is `step[o]`. The answer of a command can be lost after the command was applied, and a
  command that lost its answer can be applied later (`late`). `alone`, `promise` and `clean` only record whether
  a run had the device to itself, what was last reported, and whether a disturbed run has been repaired.
* **PollSchedule.** `held` are the rows a running claim has locked, `at` its `now()`, `left` the rows it left
  behind although they were due and free, because its batch was full. The choice of rows is one step: between
  snapshot and lock PostgreSQL re-checks the row, which gives the same rows.
* **Soundbox.** Nothing synchronises the threads, so the four assignments of `QrisDinamis` are four steps, and so
  are clearing `G_qrisReqPending` and reading `G_qrisReqAmount`. Rewriting `G_qrisReply` while it is drawn is a
  data race: the buffer is `Torn` in between. A message's handler runs before its PUBACK, so a connection lost
  between them delivers it again. A request is named by the press it belongs to; a message carries that name
  although the real payload does not, so that properties can tell what the device cannot.
* **RequestIntake.** A request is the topic it came on (`m`, `s`), the serial number in its payload (`p`) and an
  amount in sen. `inbox` is what the broker or paho still holds for an instance: paho hands over one message at a
  time, so the handler is one `task`. The joined row of device, merchant and tenant is one record with one flag for
  the three checks on `status`, because the handler treats them alike. A database error and an unknown device look
  alike too. The reconnected session (`deaf`) is clean and main subscribes only once. Below 100 sen the amount
  becomes Rp 0, which only the table's CHECK refuses: the device is told that the request failed, without a
  transaction.
* **Voice, AmountWords.** The functions follow the code; `Heard` and `Reads` are independent readings. In
  `AmtToMp3` the text is the sequence of its space-terminated words, so that "two spaces" is an empty word.
  Their readers are functions of what was heard so far and the next word, folded over the text by `Fold`.
  `RESULT` is the global of that name: a group of three digits and its place.
  `replaceStr` copies a text that has two spaces into 24 bytes; what a longer text does is undefined and modelled as
  either going on or ending the process. A failed `buildJson` is an outcome of its own: the code never frees the
  tree it built before, so memory may well run out.
* **DeviceNetwork.** `net_connect` finds a slot, creates and connects a socket for up to a minute, and only then
  marks the slot: these are separate steps. `net_read`, `net_write` and `net_close` use the modem of the mode set
  *now*. A failed DNS query returns -4 from a function whose callers test for positive or zero, so a connection
  counts as made (`JunkFault`). An upgrade that fails disconnects twice. `SetCommMode` saves the mode before it looks
  for an access point and may return without one (`SwitchModems`, `configured`); AppMain joins a saved one only
  (`JoinAccessPoint`), and the menu can choose one later (`ConfigureAccessPoint`).
* **FirmwareUpgrade.** Only `TmsRemoteUpgrade` is reachable (`display.c:508` and `:573`). A file is the list of its
  pieces with the build they came from; its MD5 is modelled as what it is a digest of, computed in a context that is
  streamed in memory over the pieces and lost with power. Power can fail between any two writes to the flash, the
  deletions of `Tms_DelAllDownloadInfo` one by one among them (`DelDownload`, `DelDownStatus`), and a write or deletion
  whose result the code ignores may leave the flash as it was (`WriteStatus`, `DeleteFile`, `DeleteStatus`). `lost`
  remembers per file that the device itself emptied its place while the status file still counts on it.
* **CardPayment.** A kernel is a sequence of calls, each of which can fail; what the code does then differs by kernel
  and call. The host is never asked (the code has TODO comments there). Amounts are two numbers, one of which does
  not fit the `int` the code shows it from (`MaxInt` is scaled).

## 3. Runs

| Run | Instance | Shows |
|---|---|---|
| `race` | 1 transaction, 2 instances, 1 worker each, 3 attempts, 2 faults, fair | one announcer, payable codes polled, truthful status, explained and listed silence, `ImplementsLifecycle`, `EventuallySettled`, `PaidIsSpoken` |
| `session` | a generator and a querier, 3 retries, one call each | token cache and retry policy, calls return |
| `provision` | 2 merchants, 2 operators, 4 runs, 2 of them broken off, symmetry | what success, failure and overlap leave behind |
| `schedule` | 5 transactions, 2 instances, batch 2, interval 2, clock to 4, 1 fault, symmetry | spacing and fairness of claims |
| `intake` | 1 instance, 2 devices of 2 merchants, 2 requests of five kinds, 2 faults | transactions are requested, credentials are current, requests are answered |
| `amounts` | 212 amounts in rupiah, 386 in cents, 1 failed sale | clips and words name the amount |
| `soundbox` | 3 requests, 1 lost connection or restart | screen, code, publish and loudspeaker properties |
| `network` | 2 slots, 2 upgrades, 1 change of mode, 1 broken connection | slots and sockets agree, leaks and foreign closes have a cause, the device comes back online |
| `upgrade` | 5 task lists, 2 sessions, 1 power cut, 1 republication, 1 expired token, any failed writes | what is complete, lost, reported and spinning |
| `card` | 2 sales, 2 amounts, up to 2 applications on the card | "Paid", the amount, and the end of a sale |

Type invariants and the inductive invariants of the proofs are in no run's cfg: where there are proofs they are
proved, elsewhere they were checked while the modules were written and say nothing about the code that the listed
properties do not.

Two runs are expected to fail. Each disproves a sentence of the repository, quoted in the findings of
`PROJECT.json`:

| Run | Sentence disproved | What the counterexample shows |
|---|---|---|
| `announced_once` | polling design, line 107 ("satu pembayaran = satu pengumuman") | a publish that timed out but arrived is repeated |
| `success_screen` | `def.h:66-67`, the success screen stands for a paid transaction | a late announcement for QR 1 turns QR 2 into "PEMBAYARAN BERHASIL" |

Five more divergences are stated at the end of their modules and have no run of their own; TLC refutes each in a few
steps when it is added to the cfg named here:

| Definition | cfg | Sentence disproved | What the counterexample shows |
|---|---|---|---|
| `ExpiredWasUnpaid` | `race` (an action property) | `schema.md:150`, EXPIRED is a QR that was not paid | the customer paid, no query is answered, the deadline passes: the row of a paid QR becomes EXPIRED |
| `ShutdownNeverSilences` | `race` (an action property) | `poller.go:62`, a normal shutdown never silences a payment | the 10 s shutdown timeout ends an announcing worker |
| `PendingIsTransient` | `race` (a temporal property) | `prd.md:268`, no transaction stuck in an ambiguous status | the error of `markFailed` is dropped, the row stays PENDING |
| `UnauthorizedIsRetried` | `session` | `service.go:247`, 401 means invalidate and retry once | a 401 inside the transient-retry loop ends the call at once and leaves the refused token cached |
| `ConflictIsVerified` | `session` | `process-flow.md:55`, a 409 is verified by a query | the code gives the transaction up while Manjo holds its QR |

One divergence is not even stated: `process-flow.md:124` says that two instances never claim one transaction; a
check that outlives the interval lets them, and the guard of the transition is what saves the announcement
(`OneAnnouncer`).

### Bounds

Two instances suffice to show every conflict over a row: the conflict is always between one worker and "somebody
else". A second transaction on a shared worker slot and batch adds no new access to a row; the proofs cover any
number. `MaxFaults` bounds crashes, SIGTERMs, lost commits; two are enough for a crash while another instance
drains. In `schedule` five transactions with batches of two leave a full batch behind more than once, the clock
reaches two intervals. In `provision` four runs allow two overlapping ones that both break, and a repair.
In `soundbox` three requests are needed for an amount to be published three times; `RepeatsExplained` is tight.
In `intake` two requests let one be processed while another waits, is lost, or is a copy of the first; a second
instance would only receive a copy of its own, which a redelivery stands for. The five kinds of request are the two
devices' own, one that names the other device, one below a rupiah and one without an amount. `amounts` has every
number up to 120 (130 cents), every digit of the hundreds with the irregular remainders, and groups of three digits
that are zero, one, irregular or full at every level; TLC's integers stop at 2^31, so the largest amount is scaled
from 999,999,999,999 to 2,000,000,000 and the service's highest level is met with one and two of it. In `network` two
threads never need more than two slots (`ValidIsHeld`); a full pool therefore does not occur. In `upgrade` one power
cut is enough because a second would need a state the first has not left behind; two sessions let the second resume
the first; one republication lets the server put another build behind the URLs of a running download, or another list
before a resumption, and `MismatchExplained` compares with the build the download began with, which a second
republication would not change; the proofs hold for any number. The lists are two builds of a parameter file of two pieces, a firmware with
a zipped app, zipped parameters with a WiFi firmware, and an empty app, so that each branch of the installation is
taken by one of them. In `card` two sales show what the first leaves in `PosCom` for the second.
Deadlock checking is off where the finite supply of transactions, calls, runs, presses or clock ticks runs out:
there the system has simply nothing left to do.

### Fairness

* `race`: weak fairness on every step of a running process and on restart (supervisor); strong fairness on
  `SettleApplied`: a database that keeps being asked answers now and then. The clock reaches deadlines, intervals
  elapse, Manjo lets an unpaid code lapse. Nothing is assumed of Manjo's answers (they may be errors for ever),
  of the broker or of customers.
* `session`: HTTP calls end after 15 s; `sync.Mutex` lets every waiter in.
* `soundbox`: the MQTT thread keeps running (`AppMain` reconnects after five seconds, every wait has a limit).
  Lost connections are finite in number; nothing is assumed of the menu thread, the service or the customer.
* `intake`: weak fairness on the handler: paho calls it for every message it holds, every wait in it has a limit.
  Nothing is assumed of broker, operator or restart.
* `network`: weak fairness on both threads, not on the change of mode, the choice of an access point or the start of an
  upgrade. So a saved access point is joined in the end and a SIM is in and registers (AppMain only repeats its tips
  until then); that an access point is ever saved is not assumed.
* `upgrade`: weak fairness on the session, whose exchanges have time limits; not on the server, which may answer
  without a body for ever (`EmptyAnswer`): the code then asks for ever, and `SessionEnds` excludes this by name.
* `card`: weak fairness on everything but starting a sale, tapping a card and choosing an application, which wait for
  a person without a limit (`GetCard`, `CEmvWaitAppSel`).

## 4. What the firmware properties say

`OneScreenPerAnnouncement` (an announcement turns at most one screen to success), `StrangeCodeExplained` (a code
of another request, or half a code, is on the screen only after a request was given up or a message delivered
twice), `RepeatsExplained` (how an amount can be published up to three times) and `AnnouncementIsHeard` (the
persistent session delivers what was announced) hold. The clearing of the flags at the start of a request does
protect against answers that already arrived; it cannot protect against those still on the way, because replies
and announcements carry no reference to a request.

The other firmware properties are exact descriptions of imperfect code: they name each way the good outcome is
missed, and no other way exists.

* `DeviceNetwork`: a slot marked valid is held by its user (`ValidIsHeld`); a socket nobody holds (`LeakExplained`)
  and a thread that closes or reads another's socket (`ForeignCloseExplained`) come from two threads that found the
  same slot, a changed mode, or the second disconnect of a failed upgrade; after all that the MQTT thread connects
  again, unless WiFi was chosen and no access point ever saved (`ComesBackOnline`).
* `FirmwareUpgrade`: a file that counts as complete has on the flash what the task list promised, although its MD5 is
  taken from the answers and not from the flash, but for a file the device itself deleted (a wrong MD5, another list)
  or moved (an installation) while, by a power cut or an unnoticed failed write, the status file still counts on it
  (`CompleteIsVerified`); with the same exception the server hears of success only for files that are there, and of
  failure only for files that an earlier session installed (`NotifyHasFile`); a digest that does not match needs a
  damaged answer or a piece of a build other than the one the list promised (`MismatchExplained`); lost parameters
  have named causes (`ParametersLossExplained`), and a session ends unless it spins on an empty file or the server
  keeps answering without a body (`SessionEnds`).
* `CardPayment`: "Paid" is shown for a sale whose kernel approved it, or by one of the code's own gaps
  (`PaidExplained`); the amount shown is the one the kernel got, except beyond the `int` (`PaidAmountIsAuthorised`);
  a sale ends unless it waits for a person (`SaleEnds`).
* `AmountWords`: the exceptions in `WordsNameTheSale` are that whole thousands end in "AndDollars", and that words
  left over from a sale that failed are read out with the next.

## 5. Proofs

All proofs are for every value of the constants that satisfies the module's assumption.

**PaymentBridge_proofs** (`TypeCorrect`, `Inductive`, eight safety theorems, `FinalStatusIsForever`,
`BridgeImplementsLifecycle`). The properties are not inductive: that a worker holding the answer "PAID" may settle
depends on Manjo's record never going back, that it may announce depends on nobody else doing so. `IInv` therefore
adds to `TypeOK`: `RowInv` (a row's status agrees with Manjo's record or is the EXPIRED of a deadline that has passed,
`Truthful`, which no later move of Manjo's undoes; publishes only of PAID rows, within the
limit), `HandlerInv` (what the handler knows at each place; one handler per transaction), `CheckInv` (an answer in
hand agrees with Manjo's record *now*, since records only move forward; an announcing worker has made exactly the
publishes counted so far), `ModeInv` (an instance that is not up has had a fault), `OneAnnouncer` and
`SilenceExplained`. The lemmas are one per group of actions; the refinement maps the announcing worker to the
abstract voice, and each step to a lifecycle step or a stutter under `IInv`.

**Provisioning_proofs** (`Inductive`, `TypeCorrect`, five safety theorems). `RunInv` says that a run past the
lookup works for the row's owner, which is what makes `OnlyOwnerHasAccount` hold for overlapping operators;
`AloneInv` what "alone" means; `Reached` what an undisturbed run has achieved at each step: it turns the order of
the commands into a chain that ends in a working account (`AddDelivers`) or a locked one (`RevokeDelivers`).

**PollSchedule_proofs** (`Invariance`, `Spacing`, `NoOvertaking`, `BoundedWait`). `ClaimInv` (a running claim's
rows precede the rows it left behind), `LastInv` (`next_query_at` is the last claim plus the interval),
`AheadInv` (rows claimed since t was left behind are scheduled after t), `CountInv` (there are exactly batch size
of them per claim). A claim that ran before t again would have to take rows scheduled before t: these are new
ones, so the count is bounded by the number of transactions.

**ManjoSession_proofs** (`TypeCorrect`, `FetchesAreAlone`, `FetchesHaveCauses`, `RefusedTokensStayAway`), for any
finite sets of callers. `NeverRefusedTwice` is not inductive: that a token once refused does not come back depends on
whoever fetches having the cache to itself. `MutexInv` says that (a fetch holds the mutex, nobody fetches over a usable
token), `RefusedInv` that the cache is empty or newer than every token a working call saw refused, `RetryInv` counts
the 401s a call can survive. For `EveryFetchHasACause`, `CauseInv` counts causes not yet used: one per caller about to
drop the token, one if the next `Get` would fetch. The callers are finite because those about to drop are counted.

**RequestIntake_proofs** (`TypeCorrect`, `RequestedTransactions`, `CurrentCredentials`, `NothingForgotten`), for any
devices, merchants and requests and any finite set of instances. `TaskInv` says what the handler has established at
each place, `RowsInv` that a row names the merchant, device and amount of its request. That no more rows are created
than copies were delivered needs `CountInv`: rows plus deliveries that may still become one, in an inbox or a handler,
do not exceed the copies; it is over a set of deliveries, not of requests, because copies of a request may be in two
inboxes at once. `CredsInv` is about every client in the registry and every handler's copy of the credentials.
`NoneForgotten` is the safety half of `RequestsAreAnswered`: a request without an answer or an excuse is still in an
inbox or in a handler.

**Soundbox_proofs**, on `Soundbox` (`TypeCorrect`, `OneScreen`, `OwnCodes`, `Repeats`, `AnnouncementsAreKept`), for any number
of presses and lost connections. `PaidInv` makes `OneScreenPerAnnouncement` inductive: a raised flag that the screen can
still see is an announcement nobody has used. `AmountInv` counts the publishes an amount may still get, through the flag,
the MQTT thread and the menu thread, three in all and one if every earlier request ended in order. `OnceInv` and
`InStepInv` say in which single place a request is (flag, MQTT thread, service or queue) as long as no request was
given up and, for the second, no connection was lost: `StrangeCodeExplained` follows only from both.
`AnnouncementIsKept` is the safety half of `AnnouncementIsHeard`: what was announced and not played is still queued.

The same module proves the two other things the device does with an amount; `Soundbox`, `AmountWords` and
`CardPayment` share no names, so that one module can extend all three.

*What is said of an amount* (`ClipsOfEveryAmount`, `PaymentClipsRight`, `SaleWordsRight`, `WordsTypeCorrect`): for every
amount, any set of amounts and any number of failures. The runs meet a few hundred amounts at the boundaries; the
theorems are about all of them up to `Compose`'s limit of 999,999,999,999 and the firmware's `int`. Two inductions are
needed, over the amounts (that the recursive `numberClips` is what its equation says) and over texts (a fold over a
text and a word more). The library states induction with an operator parameter, which the provers cannot take; here
it is stated for *sets* (`SetInduction`, `TextInduction`), from the fact that the order of the natural numbers is well
founded, which the library proves. `FoldExists` and `SpellingExists` show that the two recursive functions
exist at all; `NumberClipsStep` and `FoldAppend` are then their equations. The rest is said in these predicates:

* `Short(s, n)`, `Spoken(s, n)`: clips that are heard as n, whatever level came before, and that are *proper*: they begin
  with a clip that may begin a number and have no "satu" before a word it may not precede (`Proper`). Properness
  is what makes the special words compose: `ProperConcat` and `ProperAppend` look only at the place where two
  spellings meet. `ShortNumber` is about numbers below a thousand, and `NumberSpoken` goes up from there, a level at a
  time, by `LevelOfNumber`; there are only three because the limit is below a thousand of the largest.
* `Tells(s, a, b)`, `TellsBefore(s, w, a, b)`: a text of the firmware, once `replaceStr` has taken out its empty words, takes a
  listener from a to b; the second leaves out the last word, which the currency will replace. `AmountRead` says so of
  `doAmt` for every amount below a billion, by cases on its last group that is not zero: that is where
  "AndDollars" comes from. `FilesSaid` and `CollectedWords` carry it to the files and to the words.

The invariant (`WordsInv`) adds to the properties that the buffer is empty unless a sale was silent (`missed`), which
is what makes the exception for words left over exact.

*Card payments* (`CardTypeCorrect`, `PaidIsExplained`, `PaidAmountAuthorised`), for any amounts, any number of sales and
of applications on a card. "Paid" is the end of a chain of calls, and each part of `CardInv` is what one link leaves to
the next: `KernelInv` (where in which kernel's calls the sale is), `ProblemsInv` (what cannot have gone wrong yet: a
failed call ends the sale or starts the next application from its first call), `LimitInv` (what the
reader was told of the amount decides which kernels may be chosen), `NumberInv` (whose number is in
`PosCom`), `PosComInv` (the amount in `PosCom` is the kernel's, and the one spoken is that one as an `int`).
`AsIntOfSmall` is the only arithmetic: the conversion is the identity up to the largest `int`.

**DeviceNetwork_proofs** (`TypeCorrect`, `SlotsAreHeld`, `LeaksHaveCauses`, `ForeignClosesHaveCauses`), for a pool of any
size. While no two threads have found the same slot (`shared`), `NamedInv` says that every open socket of the modem in
use is named by a thread's locals or its slot, and `OwnInv` the other way round for a thread whose mode has not changed under
it (`stale`). They rest on `OneUserInv` (a slot has one user), `ModemInv` (one modem is on, every open socket is its),
`NumbersInv` (a modem numbers its sockets apart) and `ContextInv` (who has a slot at all).

**FirmwareUpgrade_proofs** (`TypeCorrect`, `CompleteFilesAreVerified`, `MismatchesHaveCauses`,
`ParametersLossesHaveCauses`, `NotificationsAreTrue`), for any task lists and any number of sessions, publications, power
cuts, failed writes and expired tokens. `DownloadInv` and `FlashInv` are what a resumption depends on, and hold of both
lists, the one in memory and the one in the status file, for as long as a list is one of a download: the files before
the current are complete, those after it untouched, the MD5 context is the answers so far in order, and
the flash holds what the context has seen, each file unless it is `lost`. They hold through deletions too, because
what is deleted becomes lost (`WholeKept`), and lists of which everything is lost need no flash (`DisownedIsWhole`):
that is what a status file is that its deletion has survived. `PhaseInv` relates the two lists: they are equal, but for a
download that has written nothing yet. `MismatchInv` and `InstallInv` carry this to the place where it is used. The proof assumes
of the server (`FilesAssumption`) that the files of one list have different names and that a parameter file's name is
given to no other kind of file: the device stores files by name alone, and nothing in it would notice a collision.

The proofs of the last five modules are laid out alike. Lemmas first say what an action changes (`HandleCases`, `CreateFacts`,
`DeliverFacts`) or, in `FirmwareUpgrade_proofs`, to which class of steps it belongs (a step aside, a begun or resumed
list, a deletion, a fetched piece, an installation given up), so that the parts of the invariant are proved from these facts and not
from the action's text. Where the code takes the first of something (`First`, `NextId`) or sorts a list (`Ordered`),
the definition describes the result and does not compute it, because only what the result is like is used.

**Assumed of the constants.** Besides the finiteness and sizes the models need: `MaxRupiah` is at most `Compose`'s limit
(written as a number of thousands, which fits TLC's integers), amounts of card sales are `int`s, amounts a card's
kernel is given are natural numbers; `MaxInt` is any.

**Only model-checked:** all liveness (`EventuallySettled`, `PaidIsSpoken`, `CallsReturn`, `RequestsAreAnswered`,
`AnnouncementIsHeard`, `ComesBackOnline`, `SessionEnds`, `SaleEnds`), which the prover cannot treat under fairness. Every
invariant and every action property of a passing run is a theorem. That `ManjoSession` and `RequestIntake` refine single steps of `PaymentBridge` is argued above, not checked.

## 6. Plan

1. `PaymentBridge`, `PaymentLifecycle` with proofs: the money path. Done.
2. `ManjoSession`: what the bridge's remote steps hide. Done.
3. `Provisioning` with proofs. Done.
4. `PollSchedule` with proofs: the claim order. Done.
5. `Soundbox`. Done.
6. `RequestIntake`, `Voice` and `AmountWords`. Done.
7. The firmware around the QRIS path: `DeviceNetwork`, `FirmwareUpgrade`, `CardPayment`. Done.
8. Proofs of `ManjoSession`, `RequestIntake`, `Soundbox`, `DeviceNetwork` and `FirmwareUpgrade`. Done.
9. Proofs of `CardPayment`, `Voice` and `AmountWords`. Done.

What is left: the informal refinements (`ManjoSession`, `RequestIntake`) as checked ones.

Composition: `Soundbox` and `PaymentBridge` meet at the device topic. `Soundbox` lets the service answer and
announce arbitrarily late, once per payment; `PaymentBridge` shows when it does so at all. `RequestIntake` ends where
`PaymentBridge` begins (`Create`/`Receive`) and takes the answer up again; `AmountWords` says what an announcement of
`PaymentBridge` and a "Paid" of `CardPayment` sound like; `DeviceNetwork` is what `Soundbox`'s connection is made of.

## 7. Reading the models

Start with `PaymentLifecycle`, then `PaymentBridge` from `Receive` to `RecordAnnouncement`. History variables are
declared last in each module and no guard of an action of the code reads them.

## 8. Not modelled

Request signing and JSON shapes (no state), API logs (write-only), configuration, secrets, health endpoint, pool
and generated queries, the payment simulator, test broker and deployment scripts (not part of the running system).
In `internal/dynsec` the matching of answers with commands inside `do` is one step (`Command`).

Of the firmware:

* `tms.c`, `httpDownload.c` and `file.c`: nothing starts them in this build (no thread runs `TMSThread`, the call of
  `checkAppUpdate` in `main.c` is commented out);
* in `tms_tms.c` what `TmsRemoteUpgrade` does not reach: `TmsTermAuthTest`, `TmsTermAuth_Api`, the location upload,
  `TmsStatusCheck_Api`, `Tms_UrlRecvPacket`, `tms_TMSThread`, `Tms_ReSend`. The result of an app's installation is
  only logged there, and a terminal whose token the server lets expire stays "authenticated" until the next power-up:
  both are in the model (`UpdateApp`, `ExpireToken`), but no line promises anything else, so there is no property;
* of the card payments the terminal parameters, sample applications and keys, the fields saved for a slip and the
  log; the kernels themselves are external. The amount that wraps in a 32-bit `long` on the QRIS path
  (`display.c:262`) is the same conversion as the one `CardPayment` has in `AsInt`;
* menus, drawing, key input, loading of parameters, sound and digests.

The broker itself, Manjo, VTMS, paho, the operating system, the kernels and the customer are external: they are
modelled as far as the code relies on them. `PROJECT.json` gives the reason component by component.
