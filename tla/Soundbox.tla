------------------------------- MODULE Soundbox -------------------------------
(***************************************************************************)
(* The soundbox's two threads.  The menu thread asks for a QR, waits for   *)
(* it and keeps it on the screen (QrisDinamis, qrisWaitPayment); the MQTT  *)
(* thread publishes the request and handles what the broker delivers       *)
(* (mQTTMainThread, onTopicMessageArrived).  They share five globals and   *)
(* no lock, so every access to one of them is a step.                      *)
(*                                                                         *)
(* A request, its amount and the code that answers it are named by the     *)
(* press of the menu entry they belong to.  Elapsed time is a choice: a    *)
(* wait may run out whenever its loop looks at the clock.  The broker, the *)
(* service and the customer are the environment: they may answer and pay   *)
(* late or never.                                                          *)
(***************************************************************************)
EXTENDS Naturals, Sequences, FiniteSets

CONSTANTS
  Presses,     \* bound: requests the merchant starts
  MaxDrops     \* bound: lost connections and restarts

ASSUME SoundboxAssumption == Presses \in Nat \ {0} /\ MaxDrops \in Nat

Press == 1..Presses
Torn == 0                     \* a buffer being overwritten
None == Presses + 1           \* nothing displayed
Endings == {"open", "paid", "expired", "cancelled", "timeout", "lost"}
Messages == [kind : {"QR", "Mp3", "Text"}, press : Press]

VARIABLES
  \* the globals of display.c
  pending,    \* G_qrisReqPending
  amount,     \* G_qrisReqAmount: the press it was typed for, 0 at boot
  ready,      \* G_qrisReplyReady
  reply,      \* G_qrisReply: the press its code was made for
  paid,       \* G_qrisPaid
  \* the threads
  menu,       \* where the menu thread is
  cur,        \* the last press
  mqtt,       \* where the MQTT thread's loop is
  handler,    \* where onTopicMessageArrived is
  \* the environment
  down,       \* the broker's queue for this client; its head is in delivery
  asked,      \* per press: requests the service has not answered
  money,      \* presses whose code was paid
  announced,  \* presses whose payment the service has announced
  \* what happened
  shown,      \* per press: the code on the screen
  ending,     \* per press: how it ended
  sent,       \* per press: publishes of its amount
  raised,     \* how often paid was set
  heard,      \* presses whose announcement was played
  drops

globals == <<pending, amount, ready, reply, paid>>
threads == <<menu, cur, mqtt, handler>>
env == <<down, asked, money, announced>>
history == <<shown, ending, sent, raised, heard, drops>>
vars == <<globals, threads, env, history>>

TypeOK ==
  /\ pending \in BOOLEAN /\ ready \in BOOLEAN /\ paid \in BOOLEAN
  /\ amount \in Press \union {0}
  /\ reply \in Press \union {Torn}
  /\ menu \in {"idle", "clearPaid", "setAmount", "raise", "wait", "draw", "look", "count"}
  /\ cur \in 0..Presses
  /\ mqtt \in {"offline", "yield", "take", "puback"}
  /\ handler \in {"none", "copy", "flag", "play", "ack"}
  /\ down \in Seq(Messages)
  /\ asked \in [Press -> Nat]
  /\ money \subseteq Press /\ announced \subseteq money /\ heard \subseteq announced
  /\ shown \in [Press -> Press \union {Torn, None}]
  /\ ending \in [Press -> Endings]
  /\ sent \in [Press -> Nat]
  /\ raised \in Nat
  /\ drops \in 0..MaxDrops

Init ==
  /\ pending = FALSE /\ amount = 0 /\ ready = FALSE /\ reply = Torn /\ paid = FALSE
  /\ menu = "idle" /\ cur = 0
  /\ mqtt = "offline" /\ handler = "none"
  /\ down = <<>> /\ asked = [p \in Press |-> 0]
  /\ money = {} /\ announced = {}
  /\ shown = [p \in Press |-> None]
  /\ ending = [p \in Press |-> "open"]
  /\ sent = [p \in Press |-> 0]
  /\ raised = 0 /\ heard = {} /\ drops = 0

-----------------------------------------------------------------------------
(* The menu thread. *)

Goto(place) == menu' = place

End(how) == ending' = [ending EXCEPT ![cur] = how] /\ Goto("idle")

\* A plausible slip: the flag of the last request survives.
ClearReplyForgotten ==
  /\ menu = "idle" /\ cur < Presses
  /\ cur' = cur + 1
  /\ Goto("clearPaid")
  /\ UNCHANGED <<globals, mqtt, handler, env, history>>

\* An amount was typed: the four assignments of QrisDinamis, in its order.
ClearReply ==
  /\ menu = "idle" /\ cur < Presses
  /\ cur' = cur + 1
  /\ ready' = FALSE
  /\ Goto("clearPaid")
  /\ UNCHANGED <<pending, amount, reply, paid, mqtt, handler, env, history>>

ClearPaidForgotten ==
  /\ menu = "clearPaid"
  /\ Goto("setAmount")
  /\ UNCHANGED <<globals, cur, mqtt, handler, env, history>>

ClearPaid ==
  /\ menu = "clearPaid"
  /\ paid' = FALSE
  /\ Goto("setAmount")
  /\ UNCHANGED <<pending, amount, ready, reply, cur, mqtt, handler, env, history>>

SetAmount ==
  /\ menu = "setAmount"
  /\ amount' = cur
  /\ Goto("raise")
  /\ UNCHANGED <<pending, ready, reply, paid, cur, mqtt, handler, env, history>>

RaisePending ==
  /\ menu = "raise"
  /\ pending' = TRUE
  /\ Goto("wait")
  /\ UNCHANGED <<amount, ready, reply, paid, cur, mqtt, handler, env, history>>

SeeReply ==
  /\ menu = "wait" /\ ready
  /\ Goto("draw")
  /\ UNCHANGED <<globals, cur, mqtt, handler, env, history>>

\* 150 rounds of 200 ms are over.
GiveUp ==
  /\ menu = "wait" /\ ~ready
  /\ End("timeout")
  /\ UNCHANGED <<globals, cur, mqtt, handler, env, shown, sent, raised, heard, drops>>

DrawCode ==
  /\ menu = "draw"
  /\ shown' = [shown EXCEPT ![cur] = reply]
  /\ Goto("look")
  /\ UNCHANGED <<globals, cur, mqtt, handler, env, ending, sent, raised, heard, drops>>

\* A round of qrisWaitPayment looks at the flag first ...
LookAtPaid ==
  /\ menu = "look"
  /\ \/ paid /\ End("paid")
     \/ ~paid /\ Goto("count") /\ UNCHANGED ending
  /\ UNCHANGED <<globals, cur, mqtt, handler, env, shown, sent, raised, heard, drops>>

\* ... and then at the keys and at the timer, whose last second ends the loop.
Count ==
  /\ menu = "count"
  /\ \/ Goto("look") /\ UNCHANGED ending
     \/ \E how \in {"cancelled", "expired"} : End(how)
  /\ UNCHANGED <<globals, cur, mqtt, handler, env, shown, sent, raised, heard, drops>>

MenuThread ==
  \/ ClearReply \/ ClearPaid \/ SetAmount \/ RaisePending
  \/ SeeReply \/ GiveUp \/ DrawCode \/ LookAtPaid \/ Count

-----------------------------------------------------------------------------
(* The MQTT thread. *)

\* A plausible slip: cleansession 1.
ConnectClean ==
  /\ mqtt = "offline"
  /\ mqtt' = "yield"
  /\ down' = <<>>
  /\ UNCHANGED <<globals, menu, cur, handler, asked, money, announced, history>>

\* cleansession 0: the broker has kept what it could not deliver.
Connect ==
  /\ mqtt = "offline"
  /\ mqtt' = "yield"
  /\ UNCHANGED <<globals, menu, cur, handler, env, history>>

\* Inside MQTTYield, or inside MQTTPublish while it waits for the PUBACK.
Arrive ==
  /\ mqtt \in {"yield", "puback"} /\ handler = "none" /\ down # <<>>
  /\ \/ /\ Head(down).kind = "QR"
        /\ reply' = Torn
        /\ handler' = "copy"
        /\ UNCHANGED <<paid, raised>>
     \/ /\ Head(down).kind = "Mp3"
        /\ paid' = TRUE /\ raised' = raised + 1
        /\ handler' = "play"
        /\ UNCHANGED reply
     \/ /\ Head(down).kind = "Text"
        /\ handler' = "play"
        /\ UNCHANGED <<reply, paid, raised>>
  /\ UNCHANGED <<pending, amount, ready, menu, cur, mqtt, env, shown, ending, sent, heard, drops>>

CopyReply ==
  /\ handler = "copy"
  /\ reply' = Head(down).press
  /\ handler' = "flag"
  /\ UNCHANGED <<pending, amount, ready, paid, menu, cur, mqtt, env, history>>

FlagReply ==
  /\ handler = "flag"
  /\ ready' = TRUE
  /\ handler' = "ack"
  /\ UNCHANGED <<pending, amount, reply, paid, menu, cur, mqtt, env, history>>

\* The clips, each tried for at most 30 s, or the text to speech.
Play ==
  /\ handler = "play"
  /\ heard' = IF Head(down).kind = "Mp3" THEN heard \union {Head(down).press} ELSE heard
  /\ handler' = "ack"
  /\ UNCHANGED <<globals, menu, cur, mqtt, env, shown, ending, sent, raised, drops>>

\* The library acknowledges after the handler has returned.
Acknowledge ==
  /\ handler = "ack"
  /\ handler' = "none"
  /\ down' = Tail(down)
  /\ UNCHANGED <<globals, menu, cur, mqtt, asked, money, announced, history>>

\* A plausible slip: the flag is cleared nowhere.
TakeRequestKept ==
  /\ mqtt = "yield" /\ handler = "none" /\ pending
  /\ mqtt' = "take"
  /\ UNCHANGED <<globals, menu, cur, handler, env, history>>

\* The flag is cleared before the amount is read ...
TakeRequest ==
  /\ mqtt = "yield" /\ handler = "none" /\ pending
  /\ pending' = FALSE
  /\ mqtt' = "take"
  /\ UNCHANGED <<amount, ready, reply, paid, menu, cur, handler, env, history>>

\* ... and the amount read is published.
PublishRequest ==
  /\ mqtt = "take"
  /\ asked' = [asked EXCEPT ![amount] = @ + 1]
  /\ sent' = [sent EXCEPT ![amount] = @ + 1]
  /\ mqtt' = "puback"
  /\ UNCHANGED <<globals, menu, cur, handler, down, money, announced, shown, ending, raised, heard, drops>>

RequestAcknowledged ==
  /\ mqtt = "puback" /\ handler = "none"
  /\ mqtt' = "yield"
  /\ UNCHANGED <<globals, menu, cur, handler, env, history>>

\* MQTTYield or MQTTPublish failed.  A message whose handler had run but
\* which was not acknowledged will be delivered again.
LoseConnection ==
  /\ mqtt # "offline" /\ handler \in {"none", "ack"} /\ drops < MaxDrops
  /\ mqtt' = "offline" /\ handler' = "none"
  /\ drops' = drops + 1
  /\ UNCHANGED <<globals, menu, cur, env, shown, ending, sent, raised, heard>>

MqttThread ==
  \/ Connect \/ Arrive \/ CopyReply \/ FlagReply \/ Play \/ Acknowledge
  \/ TakeRequest \/ PublishRequest \/ RequestAcknowledged

-----------------------------------------------------------------------------
(* Power, service and customer. *)

Restart ==
  /\ drops < MaxDrops
  /\ drops' = drops + 1
  /\ pending' = FALSE /\ amount' = 0 /\ ready' = FALSE /\ reply' = Torn /\ paid' = FALSE
  /\ menu' = "idle" /\ mqtt' = "offline" /\ handler' = "none"
  /\ ending' = [p \in Press |->
       IF p = cur /\ menu # "idle" THEN "lost" ELSE ending[p]]
  /\ UNCHANGED <<cur, env, shown, sent, raised, heard>>

Deliver(kind, p) == down' = Append(down, [kind |-> kind, press |-> p])

Answer(p) ==
  /\ asked[p] > 0
  /\ asked' = [asked EXCEPT ![p] = @ - 1]
  /\ \E kind \in {"QR", "Text"} : Deliver(kind, p)
  /\ UNCHANGED <<globals, threads, money, announced, history>>

\* Whoever has seen a code may pay it, also after it left the screen.
Pay(p) ==
  /\ p \notin money
  /\ \E q \in Press : shown[q] = p
  /\ money' = money \union {p}
  /\ UNCHANGED <<globals, threads, down, asked, announced, history>>

Announce(p) ==
  /\ p \in money \ announced
  /\ announced' = announced \union {p}
  /\ Deliver("Mp3", p)
  /\ UNCHANGED <<globals, threads, asked, money, history>>

Next ==
  \/ MenuThread
  \/ MqttThread
  \/ LoseConnection
  \/ Restart
  \/ \E p \in Press : Answer(p) \/ Pay(p) \/ Announce(p)

\* The MQTT thread keeps running: AppMain connects again after five seconds
\* and nothing in its loop waits without a limit.
Spec == Init /\ [][Next]_vars /\ WF_vars(MqttThread)

-----------------------------------------------------------------------------
(* Safety. *)

\* A .mp3 that arrives turns at most one QR into "PEMBAYARAN BERHASIL": the
\* flag it leaves behind is gone before the next request waits for its own.
OneScreenPerAnnouncement ==
  Cardinality({p \in Press : ending[p] = "paid"}) <= raised

\* The screen shows the code of another request, or half a code, only when
\* an earlier request was given up or a message was delivered twice: no
\* other order of the two threads' steps mixes up the answers.
StrangeCodeExplained ==
  \A p \in Press : shown[p] \notin {p, None} =>
    drops > 0 \/ \E q \in 1..(p - 1) : ending[q] = "timeout"

\* One press is published more than once only when an earlier one left its
\* request behind, because it was given up or because a code that was not its
\* own ended its wait; and then at most three times: for the flag it raised,
\* for one it found raised, and for one that was cleared while the amount was
\* not read yet.
RepeatsExplained ==
  \A p \in Press : sent[p] > 1 =>
    /\ sent[p] <= 3
    /\ \E q \in 1..(p - 1) : ending[q] = "timeout" \/ shown[q] \notin {q, None}

\* def.h:66-67 of the success screen: "backend hanya mengirim .mp3 untuk
\* transaksi yang sudah dibayar".  The code whose screen turned into
\* "PEMBAYARAN BERHASIL" was paid.  The flag does not say which transaction
\* the .mp3 is about: a late one for an earlier QR satisfies the next QR.
SuccessScreenIsTrue ==
  \A p \in Press : ending[p] = "paid" => shown[p] \in money

\* An announcement that was not played is still queued for this client, and its
\* handler has not run: the safety half of AnnouncementIsHeard.
AnnouncementIsKept ==
  \A p \in announced \ heard :
    \E k \in DOMAIN down : /\ down[k].kind = "Mp3" /\ down[k].press = p
                           /\ ~(k = 1 /\ handler = "ack")

(* The inductive invariant behind them. *)

Count1(P) == IF P THEN 1 ELSE 0

MessageInv ==
  /\ handler # "none" => down # <<>>
  /\ handler \in {"copy", "flag"} => down[1].kind = "QR"
  /\ handler = "play" => down[1].kind # "QR"
  /\ \A k \in DOMAIN down : down[k].kind = "Mp3" => down[k].press \in announced

\* The presses to come have left no trace.
PressInv ==
  /\ menu # "idle" => cur \in Press
  /\ amount <= cur
  /\ menu \in {"clearPaid", "setAmount"} => amount < cur /\ sent[cur] = 0
  /\ menu \in {"raise", "wait", "draw", "look", "count"} => amount = cur
  /\ pending \/ mqtt = "take" => amount \in Press
  /\ \A p \in Press : p > cur => sent[p] = 0 /\ shown[p] = None /\ ending[p] = "open"
  /\ menu \in {"clearPaid", "setAmount", "raise", "wait", "draw"} => shown[cur] = None

Paid == {p \in Press : ending[p] = "paid"}

\* A flag the request on the screen can still see was raised by an .mp3 that
\* no screen has used.
PaidInv ==
  Cardinality(Paid) + Count1(paid /\ menu \notin {"idle", "clearPaid"}) <= raised

\* The request was not given up, and no strange code ended its wait.
Orderly(q) == ending[q] # "timeout" /\ shown[q] \in {q, None}

\* The publishes an amount may still get: for the flag, for a flag that is
\* cleared, and for the one about to be raised; one in all if every earlier
\* request was orderly.
AmountInv ==
  /\ \A p \in Press : sent[p] <= 3
  /\ amount \in Press =>
       /\ sent[amount] + Count1(pending) + Count1(mqtt = "take") + Count1(menu = "raise") <= 3
       /\ (\A q \in 1..(amount - 1) : Orderly(q)) =>
            sent[amount] + Count1(pending) + Count1(mqtt = "take") <= 1

\* A code is made for an amount that was published.
CodeInv ==
  /\ \A p \in Press : reply = p \/ asked[p] > 0 => sent[p] > 0
  /\ \A k \in DOMAIN down : down[k].kind = "QR" => sent[down[k].press] > 0

\* Nothing is left behind when a request is started or has ended, if every
\* earlier one was orderly.
Clean ==
  /\ menu \in {"clearPaid", "setAmount", "raise"} =>
       ~pending /\ mqtt # "take" /\ sent[cur] = 0
  /\ menu \in {"look", "count"} /\ shown[cur] = cur => sent[cur] > 0
  /\ menu \in {"look", "count"} => shown[cur] # None
  /\ menu = "idle" /\ (cur \in Press => Orderly(cur)) => ~pending /\ mqtt # "take"

OnceInv == (\A q \in 1..(cur - 1) : Orderly(q)) => Clean

\* With no drop and no request given up before, the request is in one place:
\* the flag, the MQTT thread, the service or the queue.
Unhandled(k) == down[k].kind = "QR" /\ ~(k = 1 /\ handler = "ack")
NotAsked  == \A p \in Press : asked[p] = 0
NotQueued == \A k \in DOMAIN down : ~Unhandled(k)
Nothing   == ~pending /\ mqtt # "take" /\ NotAsked /\ NotQueued

OneRequest ==
  /\ pending => mqtt # "take"
  /\ pending \/ mqtt = "take" => amount = cur /\ NotAsked /\ NotQueued /\ ~ready
  /\ ~NotAsked => NotQueued /\ ~ready
  /\ ~NotQueued => ~ready
  /\ \A p \in Press : asked[p] <= Count1(p = cur)
  /\ \A k, l \in DOMAIN down : Unhandled(k) /\ Unhandled(l) => k = l /\ down[k].press = cur
  /\ ready \/ handler = "flag" => reply = cur

InStep ==
  /\ OneRequest
  /\ menu \in {"clearPaid", "setAmount", "raise"} => Nothing /\ ~ready
  /\ menu \in {"draw", "look", "count"} => Nothing /\ ready
  /\ menu = "idle" /\ (cur \in Press => ending[cur] # "timeout") => Nothing

InStepInv == drops = 0 /\ (\A q \in 1..(cur - 1) : ending[q] # "timeout") => InStep

IInv ==
  /\ TypeOK /\ MessageInv /\ PressInv /\ PaidInv /\ AmountInv /\ CodeInv
  /\ OnceInv /\ InStepInv
  /\ StrangeCodeExplained /\ RepeatsExplained /\ AnnouncementIsKept

(* Liveness. *)

\* mqtt.c:190-193: the broker queues for this client while it is off line.
\* What the service announced is heard, whatever is lost or restarted.
AnnouncementIsHeard ==
  heard # announced ~> heard = announced
=============================================================================
